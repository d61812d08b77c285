---------------------------- MODULE RevisionWalk ----------------------------
(***************************************************************************)
(* The revision walk of dulwich/walk.py: which commits a log lists and in  *)
(* which order.  A commit is taken for older than another by its commit    *)
(* time, a clock that is not always right.                                 *)
(*                                                                         *)
(* A walk is a function of its arguments: arg has include, exclude, the    *)
(* range since .. until and the clock, a time for each commit.             *)
(***************************************************************************)
EXTENDS ObjectGraph, Sequences, SequencesExt

CONSTANTS MaxExtraCommits,  \* _MAX_EXTRA_COMMITS: 5 in the code
          Clocks,           \* the clocks to look at
          LastTime          \* the latest time of these clocks

ASSUME WalkAssumption ==
    /\ MaxExtraCommits \in Nat \ {0}
    /\ LastTime \in Nat
    /\ Clocks \subseteq [Commits -> 0 .. LastTime]
    /\ IsFiniteSet(Commits)
    \* A history has no circle: among any commits is one that none has for a parent.
    /\ \A S \in SUBSET Commits : S # {} => \E c \in S : \A d \in S : c \notin Parents[d]

-----------------------------------------------------------------------------
(* _CommitTimeQueue                                                         *)

\* The top of the heap.  Among equals the code takes the least id.
Newest(arg, S) == CHOOSE c \in S : \A d \in S : arg.clock[d] <= arg.clock[c]

Begun(arg) ==
    LET start == arg.include \cup arg.exclude
    IN  [pq |-> start, seen |-> start, done |-> {}, excluded |-> arg.exclude,
         last |-> {}, extra |-> MaxExtraCommits, finished |-> FALSE,
         outQueue |-> <<>>, listed |-> <<>>]

\* A mistake: only the parents themselves are left out.
ParentsOnly(c, excluded, seen) == excluded \cup Parents[c]

\* _exclude_parents: what was seen of the history behind c, and its edge.
ExcludeParents(c, excluded, seen) ==
    LET behind[n \in Nat] ==
          IF n = 0 THEN {c}
          ELSE behind[n - 1] \cup
               {p \in UNION {Parents[d] : d \in behind[n - 1]} : p \notin excluded /\ p \in seen}
    IN  excluded \cup UNION {Parents[d] : d \in behind[Cardinality(Commits)]}

\* The next commit is not older than the last one listed, which may still turn
\* out to be excluded.
CatchesUp(arg, s, n) == \E l \in s.last : arg.clock[n] >= arg.clock[l]

\* _should_return
ShouldReturn(arg, excluded, c) ==
    /\ arg.clock[c] \in arg.since .. arg.until
    /\ c \notin excluded

\* Walker._next: an entry is handed out when MaxExtraCommits more came after it.
HandedOut(arg, s, excluded, queue) ==
    IF Len(queue) > MaxExtraCommits
    THEN [outQueue |-> Tail(queue),
          listed |-> IF ShouldReturn(arg, excluded, Head(queue))
                     THEN Append(s.listed, Head(queue)) ELSE s.listed]
    ELSE [outQueue |-> queue, listed |-> s.listed]

\* One turn of the loop of _CommitTimeQueue.next.
Turn(arg, s) ==
    LET c == Newest(arg, s.pq)
        done == s.done \cup {c}
        pushed == Parents[c] \ (s.pq \cup s.done)
        pq == (s.pq \cup pushed) \ {c}
        seen == s.seen \cup pushed
        isExcluded == c \in s.excluded
        excluded == IF isExcluded THEN ExcludeParents(c, s.excluded, seen) ELSE s.excluded
        boundary == \/ /\ isExcluded
                       /\ pq # {} /\ pq \subseteq excluded
                       /\ ~CatchesUp(arg, s, Newest(arg, pq))
                    \/ arg.clock[c] < arg.since
        extra == IF boundary THEN s.extra - 1 ELSE MaxExtraCommits
        finished == extra = 0
        lists == ~finished /\ ~isExcluded
        out == HandedOut(arg, s, excluded, IF lists THEN Append(s.outQueue, c) ELSE s.outQueue)
    IN  [pq |-> pq, seen |-> seen, done |-> done, excluded |-> excluded,
         last |-> IF lists THEN {c} ELSE s.last, extra |-> extra, finished |-> finished,
         outQueue |-> out.outQueue, listed |-> out.listed]

\* The commits in the order of Walker with ORDER_DATE.
Log(arg) ==
    LET turns[n \in Nat] ==
          IF n = 0 THEN Begun(arg)
          ELSE LET s == turns[n - 1]
               IN  IF s.finished \/ s.pq = {} THEN s ELSE Turn(arg, s)
        end == turns[Cardinality(Commits)]
        \* what is left in the queue
        listed[n \in 0 .. Len(end.outQueue)] ==
          IF n = 0 THEN end.listed
          ELSE IF ShouldReturn(arg, end.excluded, end.outQueue[n])
               THEN Append(listed[n - 1], end.outQueue[n]) ELSE listed[n - 1]
    IN  listed[Len(end.outQueue)]

-----------------------------------------------------------------------------
(* _topo_reorder                                                            *)

\* num_children has come down to zero.
AllListed(children, out) == children \subseteq ToSet(out)

\* The entries, except that a commit waits for all of its children.
TopoReorder(entries) ==
    LET Children(c) == {d \in ToSet(entries) : c \in Parents[d]}
        Start == [todo |-> entries, pending |-> {}, out |-> <<>>]
        Yield(s) ==
          LET c == Head(s.todo)
              out == Append(s.out, c)
              free == {p \in s.pending \cap Parents[c] : AllListed(Children(p), out)}
          IN  IF ~AllListed(Children(c), s.out)
              THEN [s EXCEPT !.todo = Tail(@), !.pending = @ \cup {c}]
              ELSE [todo |-> SetToSeq(free) \o Tail(s.todo),
                    pending |-> s.pending \ free, out |-> out]
        turns[n \in Nat] ==
          IF n = 0 THEN Start
          ELSE IF turns[n - 1].todo = <<>> THEN turns[n - 1] ELSE Yield(turns[n - 1])
    IN  turns[2 * Len(entries)].out

-----------------------------------------------------------------------------
(* What a log promises.                                                     *)

Args == [include : SUBSET Commits \ {{}}, exclude : {S \in SUBSET Commits : Cardinality(S) <= 1},
         since : {0, 1}, until : {LastTime - 1, LastTime}, clock : Clocks]

News(arg) == Ancestors(arg.include) \ Ancestors(arg.exclude)

InTime(arg) == {c \in Commits : arg.clock[c] \in arg.since .. arg.until}

\* A commit is younger than its parents.
ClockIsRight(clock) == \A c \in Commits : \A p \in Parents[c] : clock[p] < clock[c]

\* The walk goes on for this long when it has nothing left to look for.
FewCommits(arg) == Cardinality(Ancestors(arg.include \cup arg.exclude)) <= MaxExtraCommits

\* With clocks that are right a log lists what is new and in time, and nothing
\* else; so it does with any clocks in a history that is not longer than the
\* extra commits the walk takes.  And whatever the clocks and the history, it
\* lists no commit twice and none that the included commits do not lead to;
\* without a lower bound on the time it misses nothing that is new and in time,
\* and if nothing is excluded either it is right.  The end of the walk is a
\* guess from commit times (_CommitTimeQueue.next), which this is about.
LogListsNews ==
    \A arg \in Args :
       LET log == Log(arg)
           exact == ToSet(log) = News(arg) \cap InTime(arg)
       IN  /\ IsInjective(log)
           /\ ToSet(log) \subseteq Ancestors(arg.include)
           /\ ClockIsRight(arg.clock) \/ FewCommits(arg) => exact
           /\ arg.since = 0 => News(arg) \cap InTime(arg) \subseteq ToSet(log)
           /\ arg.since = 0 /\ arg.exclude = {} => exact

\* ORDER_TOPO lists the same commits, none before a listed child of it,
\* whatever the clocks say.
ChildrenComeFirst ==
    \A arg \in {a \in Args : a.exclude = {}} :
       LET log == Log(arg)
           topo == TopoReorder(log)
       IN  /\ Len(topo) = Len(log) /\ ToSet(topo) = ToSet(log)
           /\ \A i, j \in 1 .. Len(topo) : topo[j] \in Parents[topo[i]] => i < j

\* What dulwich/walk.py lists and the order it lists it in are right.
LogIsRight == LogListsNews /\ ChildrenComeFirst
=============================================================================
