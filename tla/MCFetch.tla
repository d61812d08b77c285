------------------------------- MODULE MCFetch -------------------------------
(* A history that forks and merges, with a tree that comes back and a tag:  *)
(*     c1 <- c2 <- c4     c1 <- c3 <- c4     c3 <- c5                       *)
(* c4 has the tree of c1 again.  The clock of who made c3 is slow.          *)
EXTENDS History

MCParents == [c1 |-> {}, c2 |-> {"c1"}, c3 |-> {"c1"}, c4 |-> {"c2", "c3"}, c5 |-> {"c3"}]
MCTreeOf == [c1 |-> "t1", c2 |-> "t2", c3 |-> "t3", c4 |-> "t1", c5 |-> "t3"]
MCEntries == [t1 |-> {"b1"}, t2 |-> {"b1", "b2"}, t3 |-> {"t1", "b2"}]
MCTarget == [g1 |-> "c2"]
MCClocks == {clock \in [Commits -> 0 .. 2] : clock["c1"] <= 1 /\ clock["c5"] >= 1}
MCTime == [c1 |-> 1, c2 |-> 2, c3 |-> 0, c4 |-> 3, c5 |-> 3]

RefsOf(mains, topics) == {[n \in Refs |-> IF n = Main THEN m ELSE t] : m \in mains, t \in topics}
MCTheirRefs == RefsOf({"c4"}, {"g1"}) \cup RefsOf({None, "c2"}, {"c3"})
MCOurRefs == RefsOf({None, "c5"}, {None})

(* Every depth up to that of the history, for each of its ends and a tag.   *)
MCDepths == 0 .. 4
MCAskedFor == {{"c4"}, {"c5"}, {"g1"}, {"c4", "c5"}, {"c2", "c4"}}
=============================================================================
