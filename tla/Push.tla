--------------------------------- MODULE Push ---------------------------------
(***************************************************************************)
(* Pushing to a git repository: porcelain.push and the three send_pack of  *)
(* dulwich/client.py (over a connection, by two HTTP requests, into a      *)
(* repository opened directly), and ReceivePackHandler of server.py.       *)
(*                                                                         *)
(* Several clients push at the same time.  Each change of a ref is a step  *)
(* of its own (GitRefs has what is inside it).  A connection may break     *)
(* while the pack is on its way, and another process may hold the lock of  *)
(* a ref when it is to be changed.                                         *)
(***************************************************************************)
EXTENDS ObjectGraph, Sequences

CONSTANTS
    Clients, Refs,
    TheirRefs,  \* the refs the server may start with
    Mine,       \* the refs of each client
    MaxPushes, MaxFaults,  \* bounds
    None        \* a model value; as the new value of a ref: it is to be deleted

ASSUME PushAssumption ==
    /\ None \notin Objects
    /\ TheirRefs \subseteq [Refs -> Commits \cup {None}]
    /\ Mine \in [Clients -> [Refs -> Commits \cup {None}]]

ASSUME NoneAssumption == None # "ok" /\ \A S \in SUBSET Objects : None # S

VARIABLES
    theirs, store,  \* the server's refs and objects
    deletes,        \* can the server delete refs?
    pc, via,        \* where each client is; its transport
    new,            \* new_refs: what it wants changed
    old,            \* old_refs: what it was told
    handler,        \* where the server is that serves it
    commands,       \* the refs that server is still to change
    request,        \* what the client has sent: the pack, None if there is none
    report,         \* the status report: unpack, and whether all refs are ok
    pushes, faults,
    broken,    \* history: a pack did not arrive whole
    took,      \* history: the refs that were changed as this push asked
    raced,     \* history: refs changed by somebody else while it was under way
    outcome    \* what the client was told at the end

repo == <<theirs, store, deletes>>
told == <<via, new, old>>
served == <<handler, commands, request, report>>
history == <<broken, took, raced>>
vars == <<repo, pc, told, served, pushes, faults, history, outcome>>

Told(r) == {r[n] : n \in DOMAIN r} \ {None}

\* A client's repository has what its refs name.
Ours(p) == Closure(Told(Mine[p]))

Init ==
    /\ theirs \in TheirRefs /\ store = Closure(Told(theirs)) /\ deletes \in BOOLEAN
    /\ pc = [p \in Clients |-> "idle"]
    /\ via = [p \in Clients |-> None]
    /\ new = [p \in Clients |-> <<>>] /\ old = [p \in Clients |-> <<>>]
    /\ handler = [p \in Clients |-> "off"]
    /\ commands = [p \in Clients |-> {}]
    /\ request = [p \in Clients |-> None] /\ report = [p \in Clients |-> None]
    /\ pushes = 0 /\ faults = 0
    /\ broken = FALSE
    /\ took = [p \in Clients |-> {}] /\ raced = [p \in Clients |-> {}]
    /\ outcome = [p \in Clients |-> None]

Goto(p, where) == pc' = [pc EXCEPT ![p] = where]

\* The client returns or raises; the connection is closed.
End(p, how) == Goto(p, "idle") /\ outcome' = [outcome EXCEPT ![p] = how]

-----------------------------------------------------------------------------
(* The client                                                              *)

\* The next push of this client comes when the server is done with its last.
\* update_refs: each ref gets the value it has here, or is to be deleted.
Asked(p) ==
    {f \in UNION {[ns -> Commits \cup {None}] : ns \in (SUBSET Refs) \ {{}}} :
       \A n \in DOMAIN f : f[n] \in {Mine[p][n], None}}

Start(p) ==
    /\ pc[p] = "idle" /\ handler[p] = "off" /\ pushes < MaxPushes
    /\ pushes' = pushes + 1
    /\ \E f \in Asked(p) : new' = [new EXCEPT ![p] = f]
    /\ via' \in {[via EXCEPT ![p] = v] : v \in {"stream", "http", "local"}}
    /\ old' = [old EXCEPT ![p] = <<>>]
    /\ request' = [request EXCEPT ![p] = None] /\ report' = [report EXCEPT ![p] = None]
    /\ commands' = [commands EXCEPT ![p] = {}]
    /\ took' = [took EXCEPT ![p] = {}] /\ raced' = [raced EXCEPT ![p] = {}]
    /\ outcome' = [outcome EXCEPT ![p] = None]
    /\ Goto(p, "read")
    /\ UNCHANGED <<repo, handler, faults, broken>>

\* What is left of the wishes on a server that deletes nothing (the HTTP client
\* and the one that opens the repository do not ask).
Permitted(p) ==
    {n \in DOMAIN new[p] : deletes \/ via[p] # "stream" \/ new[p][n] # None}

\* The wishes of the client that the server is to be sent.
Changes(p, refs) == {n \in Permitted(p) : refs[n] # new[p][n]}

News(p, refs) == {new[p][n] : n \in Permitted(p)} \ ({None} \cup Told(refs))

\* read_pkt_refs, or the refs of the repository that was opened.  Nothing is
\* sent when all was filtered out, or nothing is new.
ReadRefs(p) ==
    /\ pc[p] = "read"
    /\ old' = [old EXCEPT ![p] = theirs]
    /\ LET unchanged == \A n \in Permitted(p) : new[p][n] # None /\ new[p][n] = theirs[n]
       IN  CASE Permitted(p) = {} -> End(p, "rejected")
             [] Permitted(p) # {} /\ unchanged ->
                  End(p, "ok")
             [] OTHER -> Goto(p, "send") /\ UNCHANGED outcome
    /\ UNCHANGED <<repo, via, new, served, pushes, faults, history>>

\* A mistake: what other refs have here is taken for known there.
PackSinceOurs(p) == MissingObjects(Ours(p), Told(Mine[p]) \ News(p, old[p]), News(p, old[p]))

\* generate_pack_data(have, want)
Pack(p) == MissingObjects(Ours(p), Told(old[p]), News(p, old[p]))

\* A mistake: the pack is left out whenever there is nothing in it.
PackIfAny(p) == IF Pack(p) = {} THEN None ELSE Pack(p)

\* dowrite: a pack comes with every command that sets a ref; the HTTP client
\* leaves it out when it is empty.
Sent(p) ==
    LET pack == Pack(p)
    IN  IF pack # {} \/ (via[p] = "stream" /\ \E n \in Changes(p, old[p]) : new[p][n] # None)
        THEN pack ELSE None

CutOff == {None}  \* what arrives of a pack when the connection breaks

\* _handle_receive_pack_head and the pack.  The pack may be cut off on its way.
Send(p) ==
    /\ pc[p] = "send" /\ via[p] # "local"
    /\ commands' = [commands EXCEPT ![p] = Changes(p, old[p])]
    /\ request' = [request EXCEPT ![p] = Sent(p)]
    /\ handler' = [handler EXCEPT ![p] = "unpack"]
    /\ Goto(p, "tail")
    /\ UNCHANGED <<repo, told, report, pushes, faults, history, outcome>>

\* A mistake: only what the server reports is looked at.
VerdictOfServer(p) ==
    IF ~report[p].unpack THEN "unpack failed" ELSE IF report[p].refs THEN "ok" ELSE "rejected"

\* ReportStatusParser.check: first the pack, then the refs.  The deletions that
\* were filtered out were put into the report by the client.
Verdict(p) ==
    CASE ~report[p].unpack -> "unpack failed"
      [] report[p].unpack /\ ~(report[p].refs /\ Permitted(p) = DOMAIN new[p]) -> "rejected"
      [] OTHER -> "ok"

ReadReport(p) ==
    /\ pc[p] = "tail" /\ handler[p] = "off" /\ report[p] # None
    /\ End(p, Verdict(p))
    /\ UNCHANGED <<repo, told, served, pushes, faults, history>>

\* The server closed the connection without a report.
Hangup(p) ==
    /\ pc[p] = "tail" /\ handler[p] = "off" /\ report[p] = None
    /\ End(p, "hangup")
    /\ UNCHANGED <<repo, told, served, pushes, faults, history>>

\* The connection breaks while the pack is on its way.
Cut(p) ==
    /\ handler[p] = "unpack" /\ request[p] \notin {None, {}} /\ faults < MaxFaults
    /\ faults' = faults + 1
    /\ request' = [request EXCEPT ![p] = CutOff]
    /\ End(p, "hangup")
    /\ UNCHANGED <<repo, told, handler, commands, report, pushes, history>>

-----------------------------------------------------------------------------
(* Refs change                                                             *)

\* set_if_equals and remove_if_equals, told the value the client was told.
Unmoved(p, n) == theirs[n] = old[p][n]

Put(p, n) ==
    IF Unmoved(p, n)
    THEN /\ theirs' = [theirs EXCEPT ![n] = new[p][n]]
         /\ took' = [took EXCEPT ![p] = @ \cup {n}]
         /\ raced' = [q \in Clients |-> IF q = p THEN raced[q] ELSE raced[q] \cup {n}]
    ELSE UNCHANGED <<theirs, took, raced>>

\* LocalGitClient.send_pack: the pack is added, then the refs are set.
AddLocal(p) ==
    /\ pc[p] = "send" /\ via[p] = "local"
    /\ store' = store \cup Pack(p)
    /\ commands' = [commands EXCEPT ![p] = DOMAIN new[p]]
    /\ Goto(p, "set")
    /\ UNCHANGED <<theirs, deletes, told, handler, request, report, pushes, faults, history, outcome>>

\* A ref that moved is not set, and the push is told so by progress alone; what
\* progress is told is no bytes, so under Python 3 that raises TypeError.
SetLocal(p) ==
    /\ pc[p] = "set"
    /\ IF commands[p] = {}
       THEN End(p, "ok") /\ UNCHANGED <<theirs, commands, took, raced>>
       ELSE \E n \in commands[p] :
              /\ Put(p, n) /\ commands' = [commands EXCEPT ![p] = @ \ {n}]
              /\ \/ UNCHANGED <<pc, outcome>>
                 \/ ~Unmoved(p, n) /\ End(p, "raised")
    /\ UNCHANGED <<store, deletes, told, handler, request, report, pushes, faults, broken>>

\* The lock of the ref is held by another process: FileLocked leaves send_pack,
\* and what was not set yet stays as it was.
LocalLocked(p) ==
    /\ pc[p] = "set" /\ commands[p] # {} /\ faults < MaxFaults
    /\ faults' = faults + 1
    /\ End(p, "raised")
    /\ UNCHANGED <<repo, told, served, pushes, history>>

-----------------------------------------------------------------------------
(* The server: ReceivePackHandler, one for each client                     *)

\* No commands: the client does not want to send anything.
NoCommands(p) ==
    /\ handler[p] = "unpack" /\ commands[p] = {}
    /\ handler' = [handler EXCEPT ![p] = "off"]
    /\ UNCHANGED <<repo, pc, told, commands, request, report, pushes, faults, history, outcome>>

Sets(p) == \E n \in commands[p] : new[p][n] # None

\* _apply_pack: a pack is read if a ref is to be set.  The objects are added if
\* it is whole; if it is not, or not there, that is noted for the report.
Unpack(p) ==
    /\ handler[p] = "unpack" /\ commands[p] # {}
    /\ ~(Sets(p) /\ request[p] = None /\ via[p] = "stream")  \* it waits for the pack
    /\ handler' = [handler EXCEPT ![p] = "refs"]
    /\ LET whole == Sets(p) => request[p] \notin {None, CutOff}
       IN  /\ store' = IF Sets(p) /\ whole THEN store \cup request[p] ELSE store
           /\ report' = [report EXCEPT ![p] = [unpack |-> whole, refs |-> TRUE]]
           /\ broken' = (broken \/ (Sets(p) /\ request[p] = CutOff))
    \* the report is sent when the refs are done
    /\ UNCHANGED <<theirs, deletes, pc, told, commands, request, pushes, faults, took, raced, outcome>>

\* The next ref: what set_if_equals and remove_if_equals return is not looked at.
SetRef(p) ==
    /\ handler[p] = "refs" /\ commands[p] # {}
    /\ \E n \in commands[p] : Put(p, n) /\ commands' = [commands EXCEPT ![p] = @ \ {n}]
    /\ UNCHANGED <<store, deletes, pc, told, handler, request, report, pushes, faults, broken, outcome>>

\* Its lock is held by another process: FileLocked is not among the exceptions
\* that are caught, and ends the handler.
RefLocked(p) ==
    /\ handler[p] = "refs" /\ commands[p] # {} /\ faults < MaxFaults
    /\ faults' = faults + 1
    /\ handler' = [handler EXCEPT ![p] = "off"]
    /\ report' = [report EXCEPT ![p] = None]
    /\ UNCHANGED <<repo, pc, told, commands, request, pushes, history, outcome>>

\* _report_status.  What was noted of a pack that failed cannot be put together
\* with bytes under Python 3: no report comes.
Report(p) ==
    /\ handler[p] = "refs" /\ commands[p] = {}
    /\ handler' = [handler EXCEPT ![p] = "off"]
    /\ IF report[p].unpack THEN UNCHANGED report
       ELSE report' \in {report, [report EXCEPT ![p] = None]}
    /\ UNCHANGED <<repo, pc, told, commands, request, pushes, faults, history, outcome>>

ClientStep(p) ==
    ReadRefs(p) \/ Send(p) \/ ReadReport(p) \/ Hangup(p) \/ AddLocal(p) \/ SetLocal(p)

ServerStep(p) == NoCommands(p) \/ Unpack(p) \/ SetRef(p) \/ Report(p)

Next == \E p \in Clients : Start(p) \/ ClientStep(p) \/ ServerStep(p)
                             \/ Cut(p) \/ RefLocked(p) \/ LocalLocked(p)

\* Clients and handlers go on while they can.
Spec ==
    /\ Init /\ [][Next]_vars
    /\ \A p \in Clients : WF_vars(ClientStep(p)) /\ WF_vars(ServerStep(p))

-----------------------------------------------------------------------------
(* Properties.                                                             *)

\* The server has all that its refs need, however many pushes overlap, if no
\* pack broke on its way: nobody sends too little, or too late.
ServerComplete == ~broken => Closure(Told(theirs)) \subseteq store

\* A push is a success only if every ref was changed as asked, or was so
\* before, or others changed it at the same time.  The exception is a deletion
\* on a server that cannot delete, with nothing else to do: send_pack returns
\* before it looks at what it noted of it.
SuccessTookEffect ==
    \A p \in Clients : outcome[p] = "ok" =>
       \A n \in DOMAIN new[p] :
          \/ n \in took[p] \cup raced[p]
          \/ new[p][n] = old[p][n]
          \/ n \notin Permitted(p) /\ Changes(p, old[p]) = {}

\* A push ends: server and client agree on whether a pack is sent, and never
\* wait for each other.
PushEnds == \A p \in Clients : pc[p] # "idle" ~> pc[p] = "idle"
=============================================================================
