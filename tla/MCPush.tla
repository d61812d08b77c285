-------------------------------- MODULE MCPush --------------------------------
(* Two clients on a history that forks and merges:                          *)
(*     c1 <- c2 <- c4     c1 <- c3 <- c4                                    *)
EXTENDS Push, PktLines

MCParents == [c1 |-> {}, c2 |-> {"c1"}, c3 |-> {"c1"}, c4 |-> {"c2", "c3"}]
MCTreeOf == [c1 |-> "t1", c2 |-> "t2", c3 |-> "t3", c4 |-> "t1"]
MCEntries == [t1 |-> {"b1"}, t2 |-> {"b1", "b2"}, t3 |-> {"t1", "b2"}]
MCTarget == [g \in {} |-> "c1"]
MCTime == [c1 |-> 1, c2 |-> 2, c3 |-> 3, c4 |-> 4]

RefsOf(m, t) == [n \in Refs |-> IF n = "main" THEN m ELSE t]
MCTheirRefs == {RefsOf("c2", "c3"), RefsOf(None, None)}
MCMine == [p \in Clients |-> IF p = "p" THEN RefsOf("c4", "c2") ELSE RefsOf("c3", None)]

(* The report of up to four lines, some longer than the buffers, the last    *)
(* ending with them; packs of up to two objects; up to four calls that       *)
(* return anything from one byte to more than a buffer.                      *)
MCReports ==
    {<<>>, <<<<0>>>>, <<<<0, 1>>, <<1>>>>, <<<<0>>, <<1, 2, 3, 4>>, <<2, 0>>>>,
     <<<<1, 1, 1>>, <<2, 3>>, <<4>>, <<0, 1>>>>}
MCPacks == UNION {[1 .. n -> [header : 1 .. 2, body : 1 .. 3]] : n \in 0 .. 2}
MCPieces == UNION {[1 .. n -> 1 .. 4] : n \in 1 .. 4} \cup {<<9>>, <<3, 20>>, <<20>>}

(* Lines and packs get over a connection whole and in order.  This is the     *)
(* same in every state: it is looked at in one initial state.                *)
StreamsArrive == pushes + faults = 0 /\ store = {} /\ deletes => ReportArrives /\ PackArrives
=============================================================================
