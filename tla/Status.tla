-------------------------------- MODULE Status --------------------------------
(***************************************************************************)
(* porcelain.status, run while the calls of Worktree are under way and the *)
(* user works on the files.                                                *)
(*                                                                         *)
(* It changes nothing and locks nothing.  It reads the index, then HEAD    *)
(* for what is staged, the index once more, then the files the index       *)
(* names, and last the directories for what is untracked, one at a time.   *)
(* What it reports was put together at different times.                    *)
(***************************************************************************)
EXTENDS Worktree

VARIABLES
    statusAt,    \* how far the status is; "none": none is made
    statusIndex, \* its Index object
    unread,      \* the files it has to compare, then the directories it has to walk
    listing,     \* what it reports
    statuses,    \* how many were made
    \* since it began:
    alike,       \* the files that HEAD, the index and the working tree always had alike
    unlike,      \* those that always were in the working tree other than in HEAD
    crossed      \* the index was written after it was first read, before it was read again

lookVars == <<statusAt, statusIndex, unread, listing, statuses>>
sinceVars == <<alike, unlike, crossed>>
statusVars == <<workVars, lookVars, sinceVars>>

\* get_tree_changes: Index.changes_from_tree with the tree of HEAD
Staged(ix, t) ==
    {f \in DOMAIN ix \cup DOMAIN t :
       ~(f \in DOMAIN ix /\ f \in DOMAIN t /\ ix[f] = t[f])}

\* A mistake: a file that is not there has not changed.
ChangedThere(w, ix, f) == Stat(w, f) /\ w[f].sha # ix[f].sha

\* get_unstaged_changes compares the contents only.
Changed(w, ix, f) == Stat(w, f) => w[f].sha # ix[f].sha

\* It fails when a directory is in the way of a file or a file in the way of a directory.
Unreadable(w, f) == NotDir(w, f) \/ (Stat(w, f) /\ w[f] = Dir)

\* The working tree has what tree t has at f.
AsIn(w, t, f) ==
    IF f \in DOMAIN t THEN File(w[f]) /\ w[f].sha = t[f].sha ELSE ~File(w[f])

\* The files that are alike now, and those that are not; of the links to a directory
\* only those that HEAD has something in place of.
AlikeNow == {f \in Paths : f \notin Staged(index, head) /\ AsIn(work, head, f)}
UnlikeNow == {f \in Paths : ~AsIn(work, head, f) /\ (ToDir(work[f]) => f \in DOMAIN head)}

StatusInit ==
    /\ WorkInit
    /\ statusAt = "none" /\ statusIndex = NoEntries
    /\ unread = {} /\ listing = {} /\ statuses = 0
    /\ alike = {} /\ unlike = {} /\ crossed = FALSE

-----------------------------------------------------------------------------
(* A status                                                                *)

\* The first open_index
BeginStatus ==
    /\ statusAt = "none" /\ calls + statuses < MaxCalls
    /\ statusAt' = "head" /\ statuses' = statuses + 1
    /\ statusIndex' = index
    /\ alike' = AlikeNow /\ unlike' = UnlikeNow
    /\ UNCHANGED <<workVars, unread, listing, crossed>>

ReadHead ==
    /\ statusAt = "head"
    /\ listing' = Staged(statusIndex, head)
    /\ statusAt' = "index"
    /\ UNCHANGED <<workVars, statusIndex, unread, statuses, sinceVars>>

\* The second open_index
ReadIndex ==
    /\ statusAt = "index"
    /\ statusIndex' = index /\ unread' = DOMAIN index
    /\ statusAt' = "files"
    /\ UNCHANGED <<workVars, listing, statuses, sinceVars>>

\* A status ends; nothing of it is left.
EndStatus ==
    /\ statusAt' = "none" /\ statusIndex' = NoEntries
    /\ unread' = {} /\ listing' = {}
    /\ alike' = {} /\ unlike' = {} /\ crossed' = FALSE
    /\ UNCHANGED <<workVars, statuses>>

FailStatus ==
    /\ statusAt = "files" /\ \E f \in unread : Unreadable(work, f)
    /\ EndStatus

CompareFile ==
    /\ statusAt = "files"
    /\ \E f \in unread :
          /\ ~Unreadable(work, f)
          /\ listing' = IF Changed(work, statusIndex, f) THEN listing \cup {f} ELSE listing
          /\ unread' = unread \ {f}
    /\ UNCHANGED <<workVars, statusAt, statusIndex, statuses, sinceVars>>

\* os.walk reads directory d, if it is one still.
WalkDirectory(d) ==
    LET inside == {f \in Paths : Parent[f] = d /\ At(work, d) = Dir}
    IN  /\ listing' = listing \cup (inside \cap Untracked(work, statusIndex))
        /\ unread' = (unread \ {d}) \cup {f \in inside : work[f] = Dir}
        /\ statusAt' = "walk"
        /\ UNCHANGED <<workVars, statusIndex, statuses, sinceVars>>

WalkTop == statusAt = "files" /\ unread = {} /\ WalkDirectory(0)
WalkOn == statusAt = "walk" /\ \E d \in unread : WalkDirectory(d)

\* Nothing is left to read: the status returns its listing.
Reports == statusAt = "walk" /\ unread = {}
ReturnStatus == Reports /\ EndStatus

\* What a status goes through while others act
Meanwhile ==
    /\ calls' + statuses <= MaxCalls
    /\ alike' = alike \cap AlikeNow'
    /\ unlike' = IF head' = head THEN unlike \cap UnlikeNow' ELSE {}
    /\ crossed' = (crossed \/ (statusAt \in {"head", "index"} /\ index' # index))
    /\ UNCHANGED lookVars

StatusNext ==
    \/ WorkNext /\ Meanwhile
    \/ BeginStatus \/ ReadHead \/ ReadIndex \/ FailStatus \/ CompareFile
    \/ WalkTop \/ WalkOn \/ ReturnStatus

StatusSpec == StatusInit /\ [][StatusNext]_statusVars

-----------------------------------------------------------------------------
(* Properties                                                              *)

StatusTypeOK ==
    /\ statusAt \in {"none", "head", "index", "files", "walk"}
    /\ statusIndex \in Indexes
    /\ unread \subseteq Paths /\ listing \subseteq Paths /\ statuses \in Nat
    /\ alike \subseteq Paths /\ unlike \subseteq Paths /\ crossed \in BOOLEAN

\* What porcelain.status reports, put together from readings between which calls go
\* on and the user works, is about something: a file that was the same in HEAD, the
\* index and the working tree all the time is not in the report.  And it misses
\* nothing: a file that was other than in HEAD all the time is in it, unless the index
\* was written between its two readings.
StatusTruthful ==
    Reports => /\ listing \cap alike = {}
               /\ ~crossed => unlike \subseteq listing
=============================================================================
