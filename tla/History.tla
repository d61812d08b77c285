------------------------------- MODULE History -------------------------------
(***************************************************************************)
(* A client of Fetch and the history it looks at: as a log (RevisionWalk)  *)
(* and after fetches of some depth (ShallowFetch).                         *)
(***************************************************************************)
EXTENDS Fetch, RevisionWalk, ShallowFetch

(* What a log lists, and what a client sees of a history it has not all of, *)
(* is right.  This is the same in every state: it is looked at in the first *)
(* ones.                                                                    *)
HistoryIsRight == fetches + pushes + faults = 0 => LogIsRight /\ ShallowIsCut
==============================================================================
