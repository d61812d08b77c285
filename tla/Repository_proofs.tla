-------------------------- MODULE Repository_proofs --------------------------
(***************************************************************************)
(* What holds of a dulwich repository for any number of processes, names,  *)
(* objects and calls, with any of the processes killed anywhere.           *)
(*                                                                         *)
(* GitRefs: no compare-and-swap loses an update, no operation that ends    *)
(* leaves a lock file, and no commit gets lost.  PackStore: no object that *)
(* was stored gets lost, and lookups find what is there.  Worktree: reset  *)
(* restores and stash keeps the files.  Status: what it reports is true.   *)
(*                                                                         *)
(* The specifications share the processes and nothing else, but for Status *)
(* which takes place over Worktree: each theorem is about one of them.     *)
(***************************************************************************)
EXTENDS GitRefs, PackStore, Status, WellFoundedInduction, TLAPS

-----------------------------------------------------------------------------
(* GitRefs: the inductive invariant                                        *)

Holding == {"locked", "close", "rename", "unlink", "lockpacked", "readpacked", "repack",
            "renamepacked", "cleanpacked", "failpacked", "removed"}
PackedHeld == {"readpacked", "repack", "renamepacked"}

\* A process that is between making a lock file and giving it back has it, unless
\* another removed it; and a lock file belongs to such a process or to one killed.
Locked ==
    /\ \A p \in Procs : pc[p] \in Holding /\ real[p] \notin robbed => lock[real[p]] = p
    /\ \A p \in Procs : pc[p] \in PackedHeld /\ PackedRefs \notin robbed => lock[PackedRefs] = p
    /\ \A f \in Files, p \in Procs :
          lock[f] = p => \/ pc[p] = "killed"
                         \/ pc[p] \in Holding \cup {"cleanup", "giveup"} /\ f = real[p]
                         \/ pc[p] \in PackedHeld \cup {"cleanpacked", "failpacked"} /\ f = PackedRefs

\* A file is whole unless a lock was removed: what is renamed was written before.
Whole ==
    /\ \A r \in Names : Unrobbed(r) => IsRef(loose[r]) \/ loose[r] = None
    /\ PackedRefs \notin robbed => packed \in Contents
    /\ \A p \in Procs : new[p] = Empty => PackedRefs \in robbed
    /\ \A p \in Procs : pc[p] \in {"close", "rename"} => prim[p] # "remove"
    /\ \A p \in Procs : pc[p] \in {"rename", "renamepacked"} => written[p]
    /\ \A p \in Procs :
          pc[p] \in PackedHeld \cup {"lockpacked"} \/ lock[PackedRefs] = p => cache[p] # None

\* packed-refs only loses entries, so what was read of it is right or gone.
RemembersRight(p) ==
    /\ cache[p] # None /\ pc[p] # "killed" =>
          \A r \in Names : (pc[p] = "renamepacked" => r # real[p]) => packed[r] \in {cache[p][r], None}
    /\ pc[p] = "repack" => cache[p] = packed
    /\ pc[p] = "renamepacked" => cache[p] = [packed EXCEPT ![real[p]] = None]
Remembered == PackedRefs \notin robbed => \A p \in Procs : RemembersRight(p)

IInv == TypeOK /\ Locked /\ Whole /\ Remembered /\ SwapLosesNoUpdate

-----------------------------------------------------------------------------
\* What is in a file is a ref, none, or nothing yet.
LEMMA KindsOfContents ==
    /\ \A c \in Contents : ~IsEmpty(c) /\ c # None
    /\ \A c \in Commits \cup Names : IsRef(c) /\ c # None /\ c # Empty /\ c \notin Procs
    /\ \A c \in Procs \cup {None, Empty} : ~IsRef(c)
    /\ NoRefs \in Contents
<1>1. \A x \in Procs \cup {None, Empty} : x \notin Contents
    BY NoneAssumption DEF Contents
<1>2. \A c \in Contents : ~IsEmpty(c) /\ c # None
    BY <1>1 DEF IsEmpty
<1>3. NoRefs \in Contents
    BY DEF NoRefs, Contents
<1> QED
    BY <1>2, <1>3, NamesAssumption DEF IsRef

LEMMA ReadsAreTyped ==
    ASSUME TypeOK, NEW p \in Procs
    PROVE  /\ CacheOf(p) \in Contents
           /\ \A r \in Names : ReadRef(p, r) \in Commits \cup Names \cup {None}
           /\ \A reads : CacheAfter(p, reads) \in [Procs -> Contents \cup {None}]
           /\ \A r : CacheAfterRead(p, r) \in [Procs -> Contents \cup {None}]
<1>1. CacheOf(p) \in Contents
    BY KindsOfContents DEF TypeOK, CacheOf, IsEmpty
<1>2. \A reads : CacheAfter(p, reads) \in [Procs -> Contents \cup {None}]
    BY <1>1 DEF TypeOK, CacheAfter
<1>3. \A r \in Names : CacheOf(p)[r] \in Commits \cup {None}
    BY <1>1 DEF Contents
<1> QED
    BY <1>1, <1>2, <1>3 DEF ReadRef, CacheAfterRead, IsRef

LEMMA RemovedLocks ==
    ASSUME TypeOK, NEW p \in Procs, NEW f \in Files, RemoveLock(p, f)
    PROVE  /\ lock' \in [Files -> Procs \cup {None}]
           /\ \A g \in Files : lock'[g] = IF g = f THEN None ELSE lock[g]
           /\ robbed \subseteq robbed'
           /\ \A g : g \in robbed' /\ g \notin robbed => g = f /\ lock[f] # p /\ lock[f] # None
    BY DEF TypeOK, RemoveLock

\* Initially nobody holds a lock or remembers anything.
LEMMA InitialStates == Init => IInv
<1> SUFFICES ASSUME Init PROVE IInv
    OBVIOUS
<1> USE NamesAssumption, BoundAssumption
<1>1. TypeOK
    BY DEF Init, TypeOK, States, Contents, Names, Files, Commits
<1>2. Locked /\ Remembered /\ SwapLosesNoUpdate
    BY DEF Init, Locked, Remembered, RemembersRight, SwapLosesNoUpdate, Holding, PackedHeld, Files, Names
<1>3. Whole
    BY DEF Init, Whole, IsRef, Contents, Files, Names, Commits, PackedHeld
<1> QED
    BY <1>1, <1>2, <1>3 DEF IInv

-----------------------------------------------------------------------------
(* Types: every action keeps each of the four parts of TypeOK: the files,  *)
(* the counters, the place of each process, the values it works with.      *)
TypeDisk ==
    /\ loose \in [Names -> Commits \cup Names \cup Procs \cup {None, Empty}]
    /\ packed \in Contents \cup Procs \cup {Empty}
    /\ lock \in [Files -> Procs \cup {None}] /\ written \in [Procs -> BOOLEAN]
    /\ cache \in [Procs -> Contents \cup {None}]
TypeCount ==
    /\ made \in Commits
    /\ parent \in [Commits -> 0 .. MaxCommits]
    /\ ops \in 0 .. MaxOps /\ kills \in 0 .. MaxKills
TypeWhere ==
    /\ pc \in [Procs -> States]
    /\ op \in [Procs -> {"commit", "branch", "force", "stash", "stashed", "push", "delete",
                         "switch", "detach", "raised", None}]
    /\ prim \in [Procs -> {"read", "cas", "set", "add", "remove", "symref", None}]
    /\ name \in [Procs -> Names] /\ real \in [Procs -> Names]
TypeValue ==
    /\ got \in [Procs -> Commits \cup {None}] /\ old \in [Procs -> Commits \cup {None}]
    /\ new \in [Procs -> Commits \cup Names \cup {None, Empty}]

LEMMA TypeParts == TypeOK <=> TypeDisk /\ TypeCount /\ TypeWhere /\ TypeValue
    BY DEF TypeOK, TypeDisk, TypeCount, TypeWhere, TypeValue

LEMMA LockTextIsTyped ==
    ASSUME TypeOK, NEW q \in Procs
    PROVE  LockText(q) \in Commits \cup Names \cup Procs \cup {None, Empty}
    BY DEF TypeOK, LockText

LEMMA PackedTextIsTyped ==
    ASSUME IInv, lock[PackedRefs] # None
    PROVE  PackedText(lock[PackedRefs]) \in Contents \cup Procs \cup {Empty}
<1> DEFINE q == lock[PackedRefs]
<1>1. q \in Procs
    BY DEF IInv, TypeOK, Files
<1>2. cache[q] \in Contents
    BY <1>1 DEF IInv, TypeOK, Whole
<1> QED
    BY <1>1, <1>2 DEF PackedText

LEMMA StartTyped ==
    ASSUME IInv, NEW p \in Procs, Start(p) PROVE TypeOK'
<1> USE NamesAssumption, BoundAssumption, TypeParts
<1> TypeOK
    BY DEF IInv
<1>1. TypeDisk'
    BY DEF TypeDisk, TypeWhere, TypeValue, Names, Files, disk, local, Start, Asks, Opens, Goto
<1>2. TypeCount'
    BY DEF TypeCount, TypeValue, Commits, disk, local, bounds, Start, Asks, Opens, Goto
<1>3. TypeWhere'
    BY DEF TypeWhere, TypeCount, States, Names, local, Start, Asks, Opens, Goto
<1>4. TypeValue'
    BY DEF TypeValue, TypeCount, Commits, Names, local, Start, Asks, Opens, Goto
<1> QED
    BY <1>1, <1>2, <1>3, <1>4 DEF TypeOK, TypeDisk, TypeCount, TypeWhere, TypeValue

LEMMA StartPushTyped ==
    ASSUME IInv, NEW p \in Procs, StartPush(p) PROVE TypeOK'
<1> USE NamesAssumption, BoundAssumption, TypeParts
<1> TypeOK
    BY DEF IInv
<1>1. TypeDisk'
    BY ReadsAreTyped, KindsOfContents DEF TypeDisk, disk, StartPush, Asks, IsEmpty, Goto
<1>2. TypeCount'
    BY DEF TypeCount, TypeValue, Commits, disk, local, bounds, StartPush, Asks, Goto
<1>3. TypeWhere'
    BY DEF TypeWhere, TypeCount, States, Names, local, StartPush, Asks, Goto
<1>4. TypeValue'
    BY DEF TypeValue, TypeCount, Commits, Names, local, StartPush, Asks, Goto
<1> QED
    BY <1>1, <1>2, <1>3, <1>4 DEF TypeOK, TypeDisk, TypeCount, TypeWhere, TypeValue

LEMMA StartDeleteTyped ==
    ASSUME IInv, NEW p \in Procs, StartDelete(p) PROVE TypeOK'
<1> USE NamesAssumption, BoundAssumption, TypeParts
<1> TypeOK
    BY DEF IInv
<1>1. TypeDisk'
    BY DEF TypeDisk, TypeWhere, TypeValue, Names, Files, disk, local, StartDelete, Asks, Opens, Goto
<1>2. TypeCount'
    BY DEF TypeCount, TypeValue, Commits, disk, local, bounds, StartDelete, Asks, Opens, Goto
<1>3. TypeWhere'
    BY DEF TypeWhere, TypeCount, States, Names, local, StartDelete, Asks, Opens, Goto
<1>4. TypeValue'
    BY DEF TypeValue, TypeCount, Commits, Names, local, StartDelete, Asks, Opens, Goto
<1> QED
    BY <1>1, <1>2, <1>3, <1>4 DEF TypeOK, TypeDisk, TypeCount, TypeWhere, TypeValue

LEMMA StartSwitchTyped ==
    ASSUME IInv, NEW p \in Procs, StartSwitch(p) PROVE TypeOK'
<1> USE NamesAssumption, BoundAssumption, TypeParts
<1> TypeOK
    BY DEF IInv
<1>1. TypeDisk'
    BY DEF TypeDisk, TypeWhere, TypeValue, Names, Files, disk, local, StartSwitch, Asks, Opens, Goto
<1>2. TypeCount'
    BY DEF TypeCount, TypeValue, Commits, disk, local, bounds, StartSwitch, Asks, Opens, Goto
<1>3. TypeWhere'
    BY DEF TypeWhere, TypeCount, States, Names, local, StartSwitch, Asks, Opens, Goto
<1>4. TypeValue'
    BY DEF TypeValue, TypeCount, Commits, Names, local, StartSwitch, Asks, Opens, Goto
<1> QED
    BY <1>1, <1>2, <1>3, <1>4 DEF TypeOK, TypeDisk, TypeCount, TypeWhere, TypeValue

LEMMA StartDetachTyped ==
    ASSUME IInv, NEW p \in Procs, StartDetach(p) PROVE TypeOK'
<1> USE NamesAssumption, BoundAssumption, TypeParts
<1> TypeOK
    BY DEF IInv
<1>1. TypeDisk'
    BY DEF TypeDisk, TypeWhere, TypeValue, Names, Files, disk, local, StartDetach, Asks, Opens, Goto
<1>2. TypeCount'
    BY DEF TypeCount, TypeValue, Commits, disk, local, bounds, StartDetach, Asks, Opens, Goto
<1>3. TypeWhere'
    BY DEF TypeWhere, TypeCount, States, Names, local, StartDetach, Asks, Opens, Goto
<1>4. TypeValue'
    BY DEF TypeValue, TypeCount, Commits, Names, local, StartDetach, Asks, Opens, Goto
<1> QED
    BY <1>1, <1>2, <1>3, <1>4 DEF TypeOK, TypeDisk, TypeCount, TypeWhere, TypeValue

LEMMA FindTyped ==
    ASSUME IInv, NEW p \in Procs, Find(p) PROVE TypeOK'
<1> USE NamesAssumption, BoundAssumption, TypeParts
<1> TypeOK
    BY DEF IInv
<1>1. TypeDisk'
    BY ReadsAreTyped DEF TypeDisk, disk, Find
<1>2. TypeCount'
    BY DEF TypeCount, TypeValue, Commits, disk, local, bounds, Find, Leave, Goto
<1>3. TypeWhere'
    BY DEF TypeWhere, TypeCount, States, Names, local, Find, Leave, Goto
<1>4. TypeValue'
    BY DEF TypeValue, TypeCount, Commits, Names, local, Find, Leave, Goto
<1> QED
    BY <1>1, <1>2, <1>3, <1>4 DEF TypeOK, TypeDisk, TypeCount, TypeWhere, TypeValue

LEMMA HopTyped ==
    ASSUME IInv, NEW p \in Procs, Hop(p) PROVE TypeOK'
<1> USE NamesAssumption, BoundAssumption, TypeParts
<1> TypeOK
    BY DEF IInv
<1>1. TypeDisk'
    BY ReadsAreTyped DEF TypeDisk, disk, Hop
<1>2. TypeCount'
    BY DEF TypeCount, TypeValue, Commits, disk, local, bounds, Hop, Goto, IsSymref
<1>3. TypeWhere'
    BY ReadsAreTyped DEF TypeWhere, States, Names, Hop, Goto, IsSymref
<1>4. TypeValue'
    BY ReadsAreTyped DEF TypeValue, TypeWhere, Hop, Goto, IsSymref
<1> QED
    BY <1>1, <1>2, <1>3, <1>4 DEF TypeOK, TypeDisk, TypeCount, TypeWhere, TypeValue

LEMMA DecideCommitTyped ==
    ASSUME IInv, NEW p \in Procs, DecideCommit(p) PROVE TypeOK'
<1> USE NamesAssumption, BoundAssumption, TypeParts
<1> TypeOK
    BY DEF IInv
<1>1. TypeDisk'
    BY DEF TypeDisk, TypeWhere, TypeValue, Names, Files, disk, local, DecideCommit, CommitOn, Change, Goto
<1>2. TypeCount'
    BY DEF TypeCount, TypeValue, Commits, disk, local, bounds, DecideCommit, CommitOn, Change, Goto
<1>3. TypeWhere'
    BY DEF TypeWhere, TypeCount, States, Names, local, DecideCommit, CommitOn, Change, Goto
<1>4. TypeValue'
    BY DEF TypeValue, TypeCount, Commits, Names, local, DecideCommit, CommitOn, Change, Goto
<1> QED
    BY <1>1, <1>2, <1>3, <1>4 DEF TypeOK, TypeDisk, TypeCount, TypeWhere, TypeValue

LEMMA DecideBranchTyped ==
    ASSUME IInv, NEW p \in Procs, DecideBranch(p) PROVE TypeOK'
<1> USE NamesAssumption, BoundAssumption, TypeParts
<1> TypeOK
    BY DEF IInv
<1>1. TypeDisk'
    BY DEF TypeDisk, TypeWhere, TypeValue, Names, Files, disk, local, DecideBranch, Leave, Change, Goto
<1>2. TypeCount'
    BY DEF TypeCount, TypeValue, Commits, disk, local, bounds, DecideBranch, Leave, Change, Goto
<1>3. TypeWhere'
    BY DEF TypeWhere, TypeCount, States, Names, local, DecideBranch, Leave, Change, Goto
<1>4. TypeValue'
    BY DEF TypeValue, TypeCount, Commits, Names, local, DecideBranch, Leave, Change, Goto
<1> QED
    BY <1>1, <1>2, <1>3, <1>4 DEF TypeOK, TypeDisk, TypeCount, TypeWhere, TypeValue

LEMMA DecideStashTyped ==
    ASSUME IInv, NEW p \in Procs, DecideStash(p) PROVE TypeOK'
<1> USE NamesAssumption, BoundAssumption, TypeParts
<1> TypeOK
    BY DEF IInv
<1>1. TypeDisk'
    BY DEF TypeDisk, TypeWhere, TypeValue, Names, Files, disk, local, DecideStash, Leave, Change, Goto
<1>2. TypeCount'
    BY DEF TypeCount, TypeValue, Commits, disk, local, bounds, DecideStash, Leave, Change, Goto
<1>3. TypeWhere'
    BY DEF TypeWhere, TypeCount, States, Names, local, DecideStash, Leave, Change, Goto
<1>4. TypeValue'
    BY DEF TypeValue, TypeCount, Commits, Names, local, DecideStash, Leave, Change, Goto
<1> QED
    BY <1>1, <1>2, <1>3, <1>4 DEF TypeOK, TypeDisk, TypeCount, TypeWhere, TypeValue

LEMMA DecidePushTyped ==
    ASSUME IInv, NEW p \in Procs, DecidePush(p) PROVE TypeOK'
<1> USE NamesAssumption, BoundAssumption, TypeParts
<1> TypeOK
    BY DEF IInv
<1>1. TypeDisk'
    BY DEF TypeDisk, TypeWhere, TypeValue, Names, Files, disk, local, DecidePush, Change, Goto
<1>2. TypeCount'
    BY DEF TypeCount, TypeValue, Commits, disk, local, bounds, DecidePush, Change, Goto
<1>3. TypeWhere'
    BY DEF TypeWhere, TypeCount, States, Names, local, DecidePush, Change, Goto
<1>4. TypeValue'
    BY DEF TypeValue, TypeCount, Commits, Names, local, DecidePush, Change, Goto
<1> QED
    BY <1>1, <1>2, <1>3, <1>4 DEF TypeOK, TypeDisk, TypeCount, TypeWhere, TypeValue

LEMMA LockTyped ==
    ASSUME IInv, NEW p \in Procs, Lock(p) PROVE TypeOK'
<1> USE NamesAssumption, BoundAssumption, TypeParts
<1> TypeOK
    BY DEF IInv
<1>1. TypeDisk'
  <2>1. lock' \in [Files -> Procs \cup {None}]
    BY DEF TypeDisk, TypeWhere, Files, Lock
  <2> QED
    BY <2>1 DEF TypeDisk, Lock
<1>2. TypeCount'
    BY DEF TypeCount, TypeValue, Commits, disk, local, bounds, Lock, Leave, Goto
<1>3. TypeWhere'
    BY DEF TypeWhere, TypeCount, States, Names, local, Lock, Leave, Goto
<1>4. TypeValue'
    BY DEF TypeValue, TypeCount, Commits, Names, local, Lock, Leave, Goto
<1> QED
    BY <1>1, <1>2, <1>3, <1>4 DEF TypeOK, TypeDisk, TypeCount, TypeWhere, TypeValue

LEMMA CheckUnderLockTyped ==
    ASSUME IInv, NEW p \in Procs, CheckUnderLock(p) PROVE TypeOK'
<1> USE NamesAssumption, BoundAssumption, TypeParts
<1> TypeOK
    BY DEF IInv
<1>1. TypeDisk'
    BY ReadsAreTyped DEF TypeDisk, disk, CheckUnderLock
<1>2. TypeCount'
    BY DEF TypeCount, TypeValue, Commits, disk, local, bounds, CheckUnderLock, Goto
<1>3. TypeWhere'
    BY DEF TypeWhere, TypeCount, States, Names, local, CheckUnderLock, Goto
<1>4. TypeValue'
    BY DEF TypeValue, TypeCount, Commits, Names, local, CheckUnderLock, Goto
<1> QED
    BY <1>1, <1>2, <1>3, <1>4 DEF TypeOK, TypeDisk, TypeCount, TypeWhere, TypeValue

LEMMA FlushLockTyped ==
    ASSUME IInv, NEW p \in Procs, FlushLock(p) PROVE TypeOK'
<1> USE NamesAssumption, BoundAssumption, TypeParts
<1> TypeOK
    BY DEF IInv
<1>1. TypeDisk'
    BY DEF TypeDisk, TypeWhere, TypeValue, Names, Files, disk, local, FlushLock, Goto
<1>2. TypeCount'
    BY DEF TypeCount, TypeValue, Commits, disk, local, bounds, FlushLock, Goto
<1>3. TypeWhere'
    BY DEF TypeWhere, TypeCount, States, Names, local, FlushLock, Goto
<1>4. TypeValue'
    BY DEF TypeValue, TypeCount, Commits, Names, local, FlushLock, Goto
<1> QED
    BY <1>1, <1>2, <1>3, <1>4 DEF TypeOK, TypeDisk, TypeCount, TypeWhere, TypeValue

LEMMA RenameTyped ==
    ASSUME IInv, NEW p \in Procs, Rename(p) PROVE TypeOK'
<1> USE NamesAssumption, BoundAssumption, TypeParts
<1> TypeOK
    BY DEF IInv
<1>1. TypeDisk'
    BY LockTextIsTyped DEF TypeDisk, TypeWhere, Names, Files, Rename, Goto
<1>2. TypeCount'
    BY DEF TypeCount, TypeValue, Commits, disk, local, bounds, Rename, LockText, Goto
<1>3. TypeWhere'
    BY DEF TypeWhere, TypeCount, States, Names, local, Rename, LockText, Goto
<1>4. TypeValue'
    BY DEF TypeValue, TypeCount, Commits, Names, local, Rename, LockText, Goto
<1> QED
    BY <1>1, <1>2, <1>3, <1>4 DEF TypeOK, TypeDisk, TypeCount, TypeWhere, TypeValue

LEMMA ReleaseTyped ==
    ASSUME IInv, NEW p \in Procs, Release(p) PROVE TypeOK'
<1> USE NamesAssumption, BoundAssumption, TypeParts
<1> TypeOK
    BY DEF IInv
<1>0. lock' \in [Files -> Procs \cup {None}]
    BY RemovedLocks DEF Release, TypeWhere, Files
<1>1. TypeDisk'
    BY <1>0 DEF TypeDisk, TypeWhere, TypeValue, Release
<1>2. TypeCount'
    BY DEF TypeCount, TypeValue, Commits, disk, local, bounds, Release, RemoveLock, Leave, Change, Goto
<1>3. TypeWhere'
    BY DEF TypeWhere, TypeCount, States, Names, local, Release, RemoveLock, Leave, Change, Goto
<1>4. TypeValue'
    BY DEF TypeValue, TypeCount, Commits, Names, local, Release, RemoveLock, Leave, Change, Goto
<1> QED
    BY <1>1, <1>2, <1>3, <1>4 DEF TypeOK, TypeDisk, TypeCount, TypeWhere, TypeValue

LEMMA UnlinkTyped ==
    ASSUME IInv, NEW p \in Procs, Unlink(p) PROVE TypeOK'
<1> USE NamesAssumption, BoundAssumption, TypeParts
<1> TypeOK
    BY DEF IInv
<1>1. TypeDisk'
    BY DEF TypeDisk, TypeWhere, TypeValue, Names, Files, disk, local, Unlink, Goto
<1>2. TypeCount'
    BY DEF TypeCount, TypeValue, Commits, disk, local, bounds, Unlink, Goto
<1>3. TypeWhere'
    BY DEF TypeWhere, TypeCount, States, Names, local, Unlink, Goto
<1>4. TypeValue'
    BY DEF TypeValue, TypeCount, Commits, Names, local, Unlink, Goto
<1> QED
    BY <1>1, <1>2, <1>3, <1>4 DEF TypeOK, TypeDisk, TypeCount, TypeWhere, TypeValue

LEMMA LockPackedTyped ==
    ASSUME IInv, NEW p \in Procs, LockPacked(p) PROVE TypeOK'
<1> USE NamesAssumption, BoundAssumption, TypeParts
<1> TypeOK
    BY DEF IInv
<1>1. TypeDisk'
    BY DEF TypeDisk, TypeWhere, TypeValue, Names, Files, disk, local, LockPacked, RaiseLocked, Goto
<1>2. TypeCount'
    BY DEF TypeCount, TypeValue, Commits, disk, local, bounds, LockPacked, RaiseLocked, Goto
<1>3. TypeWhere'
    BY DEF TypeWhere, TypeCount, States, Names, local, LockPacked, RaiseLocked, Goto
<1>4. TypeValue'
    BY DEF TypeValue, TypeCount, Commits, Names, local, LockPacked, RaiseLocked, Goto
<1> QED
    BY <1>1, <1>2, <1>3, <1>4 DEF TypeOK, TypeDisk, TypeCount, TypeWhere, TypeValue

LEMMA ReadPackedTyped ==
    ASSUME IInv, NEW p \in Procs, ReadPacked(p) PROVE TypeOK'
<1> USE NamesAssumption, BoundAssumption, TypeParts
<1> TypeOK
    BY DEF IInv
<1>1. TypeDisk'
    BY KindsOfContents DEF TypeDisk, disk, ReadPacked, IsEmpty, Goto
<1>2. TypeCount'
    BY DEF TypeCount, TypeValue, Commits, disk, local, bounds, ReadPacked, Goto
<1>3. TypeWhere'
    BY DEF TypeWhere, TypeCount, States, Names, local, ReadPacked, Goto
<1>4. TypeValue'
    BY DEF TypeValue, TypeCount, Commits, Names, local, ReadPacked, Goto
<1> QED
    BY <1>1, <1>2, <1>3, <1>4 DEF TypeOK, TypeDisk, TypeCount, TypeWhere, TypeValue

LEMMA RepackTyped ==
    ASSUME IInv, NEW p \in Procs, Repack(p) PROVE TypeOK'
<1> USE NamesAssumption, BoundAssumption, TypeParts
<1> TypeOK
    BY DEF IInv
<1>0. cache'[p] \in Contents
  <2>1. cache[p] \in Contents
    BY DEF IInv, Whole, PackedHeld, TypeDisk, Repack
  <2> QED
    BY <2>1 DEF Repack, Contents, TypeDisk
<1>1. TypeDisk'
    BY <1>0 DEF TypeDisk, Repack
<1>2. TypeCount'
    BY DEF TypeCount, TypeValue, Commits, disk, local, bounds, Repack, Goto
<1>3. TypeWhere'
    BY DEF TypeWhere, TypeCount, States, Names, local, Repack, Goto
<1>4. TypeValue'
    BY DEF TypeValue, TypeCount, Commits, Names, local, Repack, Goto
<1> QED
    BY <1>1, <1>2, <1>3, <1>4 DEF TypeOK, TypeDisk, TypeCount, TypeWhere, TypeValue

LEMMA RenamePackedTyped ==
    ASSUME IInv, NEW p \in Procs, RenamePacked(p) PROVE TypeOK'
<1> USE NamesAssumption, BoundAssumption, TypeParts
<1> TypeOK
    BY DEF IInv
<1>1. TypeDisk'
    BY PackedTextIsTyped DEF TypeDisk, Files, RenamePacked, Goto
<1>2. TypeCount'
    BY DEF TypeCount, TypeValue, Commits, disk, local, bounds, RenamePacked, PackedText, Goto
<1>3. TypeWhere'
    BY DEF TypeWhere, TypeCount, States, Names, local, RenamePacked, PackedText, Goto
<1>4. TypeValue'
    BY DEF TypeValue, TypeCount, Commits, Names, local, RenamePacked, PackedText, Goto
<1> QED
    BY <1>1, <1>2, <1>3, <1>4 DEF TypeOK, TypeDisk, TypeCount, TypeWhere, TypeValue

LEMMA ReleasePackedTyped ==
    ASSUME IInv, NEW p \in Procs, ReleasePacked(p) PROVE TypeOK'
<1> USE NamesAssumption, BoundAssumption, TypeParts
<1> TypeOK
    BY DEF IInv
<1>0. lock' \in [Files -> Procs \cup {None}]
    BY RemovedLocks DEF ReleasePacked, Files
<1>1. TypeDisk'
    BY <1>0 DEF TypeDisk, ReleasePacked
<1>2. TypeCount'
    BY DEF TypeCount, TypeValue, Commits, disk, local, bounds, ReleasePacked, RemoveLock, Goto
<1>3. TypeWhere'
    BY DEF TypeWhere, TypeCount, States, Names, local, ReleasePacked, RemoveLock, Goto
<1>4. TypeValue'
    BY DEF TypeValue, TypeCount, Commits, Names, local, ReleasePacked, RemoveLock, Goto
<1> QED
    BY <1>1, <1>2, <1>3, <1>4 DEF TypeOK, TypeDisk, TypeCount, TypeWhere, TypeValue

LEMMA KillTyped ==
    ASSUME IInv, NEW p \in Procs, Kill(p) PROVE TypeOK'
<1> USE NamesAssumption, BoundAssumption, TypeParts
<1> TypeOK
    BY DEF IInv
<1>1. TypeDisk'
    BY DEF TypeDisk, TypeWhere, TypeValue, Names, Files, disk, local, Kill, Goto
<1>2. TypeCount'
    BY DEF TypeCount, TypeValue, Commits, disk, local, bounds, Kill, Goto
<1>3. TypeWhere'
    BY DEF TypeWhere, TypeCount, States, Names, local, Kill, Goto
<1>4. TypeValue'
    BY DEF TypeValue, TypeCount, Commits, Names, local, Kill, Goto
<1> QED
    BY <1>1, <1>2, <1>3, <1>4 DEF TypeOK, TypeDisk, TypeCount, TypeWhere, TypeValue

-----------------------------------------------------------------------------
(* Every action keeps the locks, the files, what is remembered and the     *)
(* compared values right: first the actions that stay away from locks.     *)
Away == {"idle", "find", "follow", "followed", "decide", "lock"}

Elsewhere(p) ==
    /\ UNCHANGED disk
    /\ pc[p] \in Away /\ pc'[p] \in Away
    /\ \A q \in Procs \ {p} :
          /\ pc'[q] = pc[q] /\ prim'[q] = prim[q] /\ real'[q] = real[q]
          /\ old'[q] = old[q] /\ new'[q] = new[q] /\ cache'[q] = cache[q]
    /\ \/ cache'[p] \in {None, cache[p], CacheOf(p)}
       \/ ~IsEmpty(packed) /\ cache'[p] = packed
    /\ new'[p] # Empty \/ new'[p] = new[p]

LEMMA StepsElsewhere ==
    ASSUME IInv, NEW p \in Procs,
           \/ Start(p) \/ StartPush(p) \/ StartDelete(p) \/ StartSwitch(p) \/ StartDetach(p)
           \/ Find(p) \/ Hop(p)
           \/ DecideCommit(p) \/ DecideBranch(p) \/ DecideStash(p) \/ DecidePush(p)
    PROVE  Elsewhere(p)
<1> USE NamesAssumption, TypeParts DEF IInv, Elsewhere, Away, TypeWhere, TypeValue, TypeDisk, Names
<1>1. CASE Start(p)
    BY <1>1 DEF Start, Asks, Opens, Goto, local
<1>2. CASE StartPush(p)
    BY <1>2 DEF StartPush, Asks, Goto, local
<1>3. CASE StartDelete(p)
    BY <1>3 DEF StartDelete, Asks, Opens, Goto, local
<1>4. CASE StartSwitch(p)
    BY <1>4 DEF StartSwitch, Asks, Opens, Goto, local
<1>5. CASE StartDetach(p)
    BY BoundAssumption, <1>5 DEF StartDetach, Asks, Opens, Goto, local, TypeCount, Commits
<1>6. CASE Find(p)
    BY <1>6 DEF Find, Leave, Goto, local, CacheAfterRead, CacheAfter
<1>7. CASE Hop(p)
    BY <1>7 DEF Hop, Goto, IsSymref, local, CacheAfterRead, CacheAfter
<1>8. CASE DecideCommit(p)
    BY BoundAssumption, <1>8 DEF DecideCommit, CommitOn, Change, Goto, local, TypeCount, Commits
<1>9. CASE DecideBranch(p)
    BY <1>9 DEF DecideBranch, Leave, Change, Goto, local
<1>10. CASE DecideStash(p)
    BY <1>10 DEF DecideStash, Leave, Change, Goto, local
<1>11. CASE DecidePush(p)
    BY BoundAssumption, <1>11 DEF DecidePush, Change, Goto, local, TypeCount, Commits
<1> QED
    BY <1>1, <1>2, <1>3, <1>4, <1>5, <1>6, <1>7, <1>8, <1>9, <1>10, <1>11

LEMMA ElsewhereKept ==
    ASSUME IInv, NEW p \in Procs, Elsewhere(p)
    PROVE  Locked' /\ Whole' /\ Remembered' /\ SwapLosesNoUpdate'
<1> USE DEF IInv
<1>1. /\ pc[p] \notin Holding \cup PackedHeld \cup {"cleanup", "giveup", "killed", "repack", "renamepacked"}
      /\ pc'[p] \notin Holding \cup PackedHeld \cup {"cleanup", "giveup", "killed", "repack", "renamepacked"}
    BY DEF Elsewhere, Away, Holding, PackedHeld
<1>2. UNCHANGED <<loose, packed, lock, written, robbed>>
    BY DEF Elsewhere, disk
<1>3. \A q \in Procs \ {p} :
          /\ pc'[q] = pc[q] /\ prim'[q] = prim[q] /\ real'[q] = real[q]
          /\ old'[q] = old[q] /\ new'[q] = new[q] /\ cache'[q] = cache[q]
    BY DEF Elsewhere
<1>4. \A f \in Files : lock[f] # p
    BY <1>1 DEF Locked, Holding, PackedHeld
<1>5. Locked'
    BY <1>1, <1>2, <1>3, <1>4 DEF Locked
<1>6. Whole'
  <2>1. pc'[p] \notin {"close", "rename", "renamepacked", "lockpacked"}
    BY <1>1 DEF Holding
  <2> QED
    BY <1>1, <1>2, <1>3, <1>4, <2>1 DEF Whole, Unrobbed, Files, Elsewhere
<1>7. Remembered'
  <2> SUFFICES ASSUME PackedRefs \notin robbed, NEW q \in Procs PROVE RemembersRight(q)'
    BY <1>2 DEF Remembered
  <2>1. RemembersRight(q)
    BY DEF Remembered
  <2>2. CASE q # p
    BY <1>2, <1>3, <2>1, <2>2 DEF RemembersRight
  <2>3. CASE q = p
    <3>1. packed \in Contents /\ CacheOf(p) \in {cache[p], packed}
      BY KindsOfContents DEF Whole, CacheOf
    <3>2. cache'[p] \in {None, cache[p], packed}
      BY <3>1 DEF Elsewhere
    <3>3. pc[p] \notin {"repack", "renamepacked", "killed"} /\ pc'[p] \notin {"repack", "renamepacked", "killed"}
      BY <1>1
    <3>4. cache'[p] # None => \A r \in Names : packed[r] \in {cache'[p][r], None}
      BY <2>1, <2>3, <3>2, <3>3 DEF RemembersRight
    <3> QED
      BY <1>2, <2>3, <3>3, <3>4 DEF RemembersRight
  <2> QED
    BY <2>2, <2>3
<1>8. SwapLosesNoUpdate'
  <2>1. pc'[p] \notin {"close", "rename"}
    BY <1>1 DEF Holding
  <2> QED
    BY <1>2, <1>3, <2>1 DEF SwapLosesNoUpdate, Unrobbed, Value
<1> QED
    BY <1>5, <1>6, <1>7, <1>8

LEMMA LockKept ==
    ASSUME IInv, NEW p \in Procs, Lock(p)
    PROVE  Locked' /\ Whole' /\ Remembered' /\ SwapLosesNoUpdate'
<1> USE NamesAssumption, TypeParts DEF IInv
<1>1. Locked'
    BY DEF Locked, Holding, PackedHeld, TypeDisk, TypeWhere, Files, disk, local, Lock, Leave, Goto
<1>2. Whole'
    BY KindsOfContents DEF Whole, Locked, Holding, PackedHeld, Unrobbed, IsRef, TypeDisk, TypeWhere, TypeValue, Files, disk, local, Lock, Leave, Goto
<1>3. Remembered'
    BY KindsOfContents DEF Remembered, RemembersRight, Whole, CacheAfter, CacheOf, TypeDisk, TypeWhere, disk, local, Lock, Leave, Goto
<1>4. SwapLosesNoUpdate'
    BY KindsOfContents DEF SwapLosesNoUpdate, Unrobbed, Locked, Holding, Remembered, RemembersRight, Whole, Value, IsRef, TypeDisk, TypeWhere, TypeValue, disk, local, Lock, Leave, Goto
<1> QED
    BY <1>1, <1>2, <1>3, <1>4

LEMMA CheckUnderLockKept ==
    ASSUME IInv, NEW p \in Procs, CheckUnderLock(p)
    PROVE  Locked' /\ Whole' /\ Remembered' /\ SwapLosesNoUpdate'
<1> USE NamesAssumption, TypeParts DEF IInv
<1>1. Locked'
    BY DEF Locked, Holding, PackedHeld, TypeDisk, TypeWhere, Files, disk, local, CheckUnderLock, Goto
<1>2. Whole'
  <2>1. \A q \in Procs : new'[q] = Empty => PackedRefs \in robbed'
    <3>1. new'[p] = new[p] \/ IsEmpty(packed)
      BY DEF CheckUnderLock, Raises, local
    <3>2. IsEmpty(packed) => PackedRefs \in robbed
      BY KindsOfContents DEF Whole
    <3>3. robbed' = robbed /\ \A q \in Procs \ {p} : new'[q] = new[q]
      BY DEF CheckUnderLock, local, disk, TypeValue
    <3> QED
      BY <3>1, <3>2, <3>3 DEF Whole
  <2>2. UNCHANGED <<loose, packed, lock, written, robbed, prim>>
    BY DEF CheckUnderLock, local, disk
  <2>3. \A q \in Procs : (q = p /\ (pc'[p] = "close" => prim[p] # "remove") /\ pc'[p] \in {"close", "giveup", "unlink"})
                         \/ (q # p /\ pc'[q] = pc[q])
    BY DEF CheckUnderLock, Goto, TypeWhere
  <2>4. \A q \in Procs : cache[q] # None => cache'[q] # None
    BY DEF CheckUnderLock, CacheAfter, CacheOf, TypeDisk
  <2>5. \A q \in Procs : pc'[q] \in PackedHeld \cup {"lockpacked"} \/ lock[PackedRefs] = q => cache'[q] # None
    BY <2>3, <2>4 DEF Whole, PackedHeld
  <2> QED
    BY <2>1, <2>2, <2>3, <2>5 DEF Whole, Unrobbed
<1>3. Remembered'
    BY KindsOfContents DEF Remembered, RemembersRight, Whole, CacheAfter, CacheOf, TypeDisk, TypeWhere, disk, local, CheckUnderLock, Goto
<1>4. SwapLosesNoUpdate'
  <2>1. UNCHANGED <<loose, packed, robbed, prim, real, old>> /\ pc[p] = "locked"
    BY DEF CheckUnderLock, local, disk
  <2>2. \A q \in Procs \ {p} : pc'[q] = pc[q]
    BY DEF CheckUnderLock, Goto, TypeWhere
  <2>3. ASSUME pc'[p] \in {"close", "rename"}, prim[p] = "cas", Unrobbed(real[p])
        PROVE  Value(real[p]) \in {old[p], None}
    <3>1. packed \in Contents /\ (IsRef(loose[real[p]]) \/ loose[real[p]] = None) /\ RemembersRight(p)
      BY <2>3 DEF Unrobbed, Whole, Remembered, TypeWhere
    <3>2. ~Raises(p)
      BY <3>1, KindsOfContents DEF Raises
    <3>3. ReadLocked(p, real[p]) = old[p]
      BY <2>3, <3>2 DEF CheckUnderLock, Allowed, Goto, TypeWhere
    <3>4. packed[real[p]] \in {CacheOf(p)[real[p]], None}
      BY <2>1, <3>1, KindsOfContents DEF RemembersRight, CacheOf, TypeWhere
    <3> QED
      BY <3>1, <3>3, <3>4, KindsOfContents DEF ReadLocked, Value
  <2> QED
    BY <2>1, <2>2, <2>3 DEF SwapLosesNoUpdate, Unrobbed, Value
<1> QED
    BY <1>1, <1>2, <1>3, <1>4

LEMMA FlushLockKept ==
    ASSUME IInv, NEW p \in Procs, FlushLock(p)
    PROVE  Locked' /\ Whole' /\ Remembered' /\ SwapLosesNoUpdate'
<1> USE NamesAssumption, TypeParts DEF IInv
<1>1. Locked'
    BY DEF Locked, Holding, PackedHeld, TypeDisk, TypeWhere, Files, disk, local, FlushLock, Goto
<1>2. Whole'
    BY KindsOfContents DEF Whole, Locked, Holding, PackedHeld, Unrobbed, IsRef, TypeDisk, TypeWhere, TypeValue, Files, disk, local, FlushLock, Goto
<1>3. Remembered'
    BY KindsOfContents DEF Remembered, RemembersRight, Whole, CacheAfter, CacheOf, TypeDisk, TypeWhere, disk, local, FlushLock, Goto
<1>4. SwapLosesNoUpdate'
    BY KindsOfContents DEF SwapLosesNoUpdate, Unrobbed, Locked, Holding, Remembered, RemembersRight, Whole, Value, IsRef, TypeDisk, TypeWhere, TypeValue, disk, local, FlushLock, Goto
<1> QED
    BY <1>1, <1>2, <1>3, <1>4

LEMMA RenameKept ==
    ASSUME IInv, NEW p \in Procs, Rename(p)
    PROVE  Locked' /\ Whole' /\ Remembered' /\ SwapLosesNoUpdate'
<1> USE NamesAssumption, TypeParts DEF IInv
<1>1. Locked'
    BY DEF Locked, Holding, PackedHeld, TypeDisk, TypeWhere, Files, disk, local, Rename, LockText, Goto
<1>2. Whole'
    BY KindsOfContents DEF Whole, Locked, Holding, PackedHeld, Unrobbed, IsRef, TypeDisk, TypeWhere, TypeValue, Files, disk, local, Rename, LockText, Goto
<1>3. Remembered'
    BY KindsOfContents DEF Remembered, RemembersRight, Whole, CacheAfter, CacheOf, TypeDisk, TypeWhere, disk, local, Rename, LockText, Goto
<1>4. SwapLosesNoUpdate'
    BY KindsOfContents DEF SwapLosesNoUpdate, Unrobbed, Locked, Holding, Remembered, RemembersRight, Whole, Value, IsRef, TypeDisk, TypeWhere, TypeValue, disk, local, Rename, LockText, Goto
<1> QED
    BY <1>1, <1>2, <1>3, <1>4

LEMMA ReleaseKept ==
    ASSUME IInv, NEW p \in Procs, Release(p)
    PROVE  Locked' /\ Whole' /\ Remembered' /\ SwapLosesNoUpdate'
<1> USE NamesAssumption, TypeParts DEF IInv
<1>a. RemoveLock(p, real[p]) /\ real[p] \in Files
    BY DEF Release, TypeWhere, Files
<1>b. /\ \A g \in Files : lock'[g] = IF g = real[p] THEN None ELSE lock[g]
      /\ robbed \subseteq robbed'
      /\ \A g : g \in robbed' /\ g \notin robbed => g = real[p] /\ lock[real[p]] # p /\ lock[real[p]] # None
    BY <1>a, RemovedLocks
<1>1. Locked'
  <2>1. /\ pc[p] \in {"cleanup", "giveup", "removed"} /\ pc'[p] \in {"idle", "follow", "lock"}
        /\ \A q \in Procs : q # p => pc'[q] = pc[q] /\ real'[q] = real[q]
    BY DEF Release, Leave, Change, Goto, local, TypeWhere
  <2>2. \A q \in Procs : real[q] \in Files /\ real[q] # PackedRefs
    BY DEF TypeWhere, Files
  <2>3. \A q \in Procs : q # p /\ lock[real[p]] = q => real[p] \in robbed'
    BY <1>a DEF RemoveLock
  <2>4. ASSUME NEW q \in Procs, pc'[q] \in Holding, real'[q] \notin robbed' PROVE lock'[real'[q]] = q
    <3>1. q # p /\ pc[q] \in Holding /\ real'[q] = real[q]
      BY <2>1, <2>4 DEF Holding
    <3>2. lock[real[q]] = q
      BY <1>b, <2>4, <3>1 DEF Locked
    <3> QED
      BY <1>b, <2>2, <2>3, <2>4, <3>1, <3>2
  <2>5. ASSUME NEW q \in Procs, pc'[q] \in PackedHeld, PackedRefs \notin robbed' PROVE lock'[PackedRefs] = q
    BY <1>b, <2>1, <2>2, <2>5 DEF Locked, PackedHeld, Files
  <2>6. ASSUME NEW f \in Files, NEW q \in Procs, lock'[f] = q
        PROVE  \/ pc'[q] = "killed"
               \/ pc'[q] \in Holding \cup {"cleanup", "giveup"} /\ f = real'[q]
               \/ pc'[q] \in PackedHeld \cup {"cleanpacked", "failpacked"} /\ f = PackedRefs
    <3>1. f # real[p] /\ lock[f] = q
      BY <1>b, <2>6
    <3>2. q # p
      BY <2>1, <3>1 DEF Locked, PackedHeld
    <3> QED
      BY <2>1, <3>1, <3>2 DEF Locked
  <2> QED
    BY <2>4, <2>5, <2>6 DEF Locked
<1>2. Whole'
    BY <1>a, <1>b, KindsOfContents DEF Whole, Locked, Holding, PackedHeld, Unrobbed, IsRef, TypeDisk, TypeWhere, TypeValue, Files, disk, local, Release, Leave, Change, Goto
<1>3. Remembered'
    BY <1>a, <1>b, KindsOfContents DEF Remembered, RemembersRight, Whole, CacheAfter, CacheOf, TypeDisk, TypeWhere, disk, local, Release, Leave, Change, Goto
<1>4. SwapLosesNoUpdate'
  <2>1. packed' = packed /\ \A r \in Names : Unrobbed(r) => loose'[r] = loose[r]
    BY KindsOfContents DEF Release, Whole, TypeDisk, TypeWhere
  <2>2. pc'[p] \notin {"close", "rename"}
    BY DEF Release, Leave, Change, Goto, TypeWhere
  <2>3. \A q \in Procs \ {p} : /\ pc'[q] = pc[q] /\ prim'[q] = prim[q]
                               /\ real'[q] = real[q] /\ old'[q] = old[q]
    BY DEF Release, Leave, Change, Goto, local, TypeWhere, TypeValue
  <2>4. \A r : Unrobbed(r)' => Unrobbed(r)
    BY <1>b DEF Unrobbed
  <2> QED
    BY <2>1, <2>2, <2>3, <2>4 DEF SwapLosesNoUpdate, Value, TypeWhere
<1> QED
    BY <1>1, <1>2, <1>3, <1>4

LEMMA UnlinkKept ==
    ASSUME IInv, NEW p \in Procs, Unlink(p)
    PROVE  Locked' /\ Whole' /\ Remembered' /\ SwapLosesNoUpdate'
<1> USE NamesAssumption, TypeParts DEF IInv
<1>1. Locked'
    BY DEF Locked, Holding, PackedHeld, TypeDisk, TypeWhere, Files, disk, local, Unlink, Goto
<1>2. Whole'
    BY KindsOfContents DEF Whole, Locked, Holding, PackedHeld, Unrobbed, IsRef, TypeDisk, TypeWhere, TypeValue, Files, disk, local, Unlink, Goto
<1>3. Remembered'
    BY KindsOfContents DEF Remembered, RemembersRight, Whole, CacheAfter, CacheOf, TypeDisk, TypeWhere, disk, local, Unlink, Goto
<1>4. SwapLosesNoUpdate'
    BY KindsOfContents DEF SwapLosesNoUpdate, Unrobbed, Locked, Holding, Remembered, RemembersRight, Whole, Value, IsRef, TypeDisk, TypeWhere, TypeValue, disk, local, Unlink, Goto
<1> QED
    BY <1>1, <1>2, <1>3, <1>4

LEMMA LockPackedKept ==
    ASSUME IInv, NEW p \in Procs, LockPacked(p)
    PROVE  Locked' /\ Whole' /\ Remembered' /\ SwapLosesNoUpdate'
<1> USE NamesAssumption, TypeParts DEF IInv
<1>1. Locked'
    BY DEF Locked, Holding, PackedHeld, TypeDisk, TypeWhere, Files, disk, local, LockPacked, RaiseLocked, Goto
<1>2. Whole'
    BY KindsOfContents DEF Whole, Locked, Holding, PackedHeld, Unrobbed, IsRef, TypeDisk, TypeWhere, TypeValue, Files, disk, local, LockPacked, RaiseLocked, Goto
<1>3. Remembered'
    BY KindsOfContents DEF Remembered, RemembersRight, Whole, CacheAfter, CacheOf, TypeDisk, TypeWhere, disk, local, LockPacked, RaiseLocked, Goto
<1>4. SwapLosesNoUpdate'
    BY KindsOfContents DEF SwapLosesNoUpdate, Unrobbed, Locked, Holding, Remembered, RemembersRight, Whole, Value, IsRef, TypeDisk, TypeWhere, TypeValue, disk, local, LockPacked, RaiseLocked, Goto
<1> QED
    BY <1>1, <1>2, <1>3, <1>4

LEMMA ReadPackedKept ==
    ASSUME IInv, NEW p \in Procs, ReadPacked(p)
    PROVE  Locked' /\ Whole' /\ Remembered' /\ SwapLosesNoUpdate'
<1> USE NamesAssumption, TypeParts DEF IInv
<1>1. Locked'
    BY DEF Locked, Holding, PackedHeld, TypeDisk, TypeWhere, Files, disk, local, ReadPacked, Goto
<1>2. Whole'
    BY KindsOfContents DEF Whole, Locked, Holding, PackedHeld, Unrobbed, IsRef, TypeDisk, TypeWhere, TypeValue, Files, disk, local, ReadPacked, Goto
<1>3. Remembered'
    BY KindsOfContents DEF Remembered, RemembersRight, Whole, CacheAfter, CacheOf, TypeDisk, TypeWhere, disk, local, ReadPacked, Goto
<1>4. SwapLosesNoUpdate'
    BY KindsOfContents DEF SwapLosesNoUpdate, Unrobbed, Locked, Holding, Remembered, RemembersRight, Whole, Value, IsRef, TypeDisk, TypeWhere, TypeValue, disk, local, ReadPacked, Goto
<1> QED
    BY <1>1, <1>2, <1>3, <1>4

LEMMA RepackKept ==
    ASSUME IInv, NEW p \in Procs, Repack(p)
    PROVE  Locked' /\ Whole' /\ Remembered' /\ SwapLosesNoUpdate'
<1> USE NamesAssumption, TypeParts DEF IInv
<1>0. /\ pc[p] = "repack" /\ pc' = [pc EXCEPT ![p] = "renamepacked"]
      /\ UNCHANGED <<loose, lock, robbed, parent, made, op, prim, name, real, got, old, new, bounds, kept>>
      /\ cache' = [cache EXCEPT ![p] = [cache[p] EXCEPT ![real[p]] = None]]
      /\ written' = [written EXCEPT ![p] = TRUE]
    BY DEF Repack, Goto, local
<1>a. cache[p] \in Contents /\ cache'[p] \in Contents /\ cache'[p] # None
  <2>1. cache[p] \in Contents
    BY <1>0 DEF Whole, PackedHeld, TypeDisk
  <2>2. cache'[p] \in Contents
    BY <1>0, <2>1 DEF Contents, TypeDisk
  <2> QED
    BY <2>1, <2>2, KindsOfContents
<1>b. PackedRefs \notin robbed => packed' = packed /\ packed \in Contents
    BY KindsOfContents DEF Repack, Whole, IsEmpty
<1>1. Locked'
    BY DEF Locked, Holding, PackedHeld, TypeDisk, TypeWhere, Files, disk, local, Repack, Goto
<1>2. Whole'
  <2>1. \A r \in Names : Unrobbed(r)' => (IsRef(loose[r]) \/ loose[r] = None)'
    BY <1>0 DEF Whole, Unrobbed, IsRef
  <2>2. PackedRefs \notin robbed' => packed' \in Contents
    BY <1>0, <1>b
  <2>3. \A q \in Procs : q # p => pc'[q] = pc[q] /\ written'[q] = written[q] /\ cache'[q] = cache[q]
    BY <1>0 DEF TypeDisk, TypeWhere
  <2>4. pc'[p] = "renamepacked" /\ written'[p]
    BY <1>0 DEF TypeDisk, TypeWhere
  <2>5. UNCHANGED <<lock, robbed, prim, new>>
    BY <1>0
  <2> QED
    BY <1>a, <2>1, <2>2, <2>3, <2>4, <2>5 DEF Whole
<1>3. Remembered'
  <2> SUFFICES ASSUME PackedRefs \notin robbed, NEW q \in Procs PROVE RemembersRight(q)'
    BY <1>0 DEF Remembered
  <2>1. RemembersRight(q) /\ packed' = packed /\ packed \in Contents
    BY <1>b DEF Remembered
  <2>2. CASE q # p
    BY <1>0, <2>1, <2>2 DEF RemembersRight, TypeDisk, TypeWhere
  <2>3. CASE q = p
    <3>1. cache[p] = packed /\ cache'[p] = [packed EXCEPT ![real[p]] = None]
      BY <1>0, <2>1, <2>3 DEF RemembersRight, TypeDisk
    <3>2. \A r \in Names : r # real[p] => packed[r] = cache'[p][r]
      BY <2>1, <3>1 DEF Contents
    <3>3. pc'[p] = "renamepacked" /\ real' = real
      BY <1>0 DEF TypeWhere
    <3> QED
      BY <2>1, <2>3, <3>1, <3>2, <3>3 DEF RemembersRight
  <2> QED
    BY <2>2, <2>3
<1>4. SwapLosesNoUpdate'
  <2>1. \A q \in Procs : pc'[q] \in {"close", "rename"} => pc[q] = pc'[q]
    BY <1>0 DEF TypeWhere
  <2> QED
    BY <1>0, <1>b, <2>1 DEF SwapLosesNoUpdate, Unrobbed, Value
<1> QED
    BY <1>1, <1>2, <1>3, <1>4

LEMMA RenamePackedKept ==
    ASSUME IInv, NEW p \in Procs, RenamePacked(p)
    PROVE  Locked' /\ Whole' /\ Remembered' /\ SwapLosesNoUpdate'
<1> USE NamesAssumption, TypeParts DEF IInv
<1>0. /\ pc[p] = "renamepacked" /\ pc'[p] \in {"failpacked", "cleanpacked"}
      /\ \A q \in Procs : q # p => pc'[q] = pc[q]
      /\ UNCHANGED <<loose, written, robbed, prim, real, old, new, cache>>
    BY DEF RenamePacked, Goto, local, TypeWhere
<1>a. ASSUME PackedRefs \notin robbed
      PROVE  /\ packed' = cache[p] /\ cache[p] = [packed EXCEPT ![real[p]] = None]
             /\ packed \in Contents /\ packed' \in Contents /\ lock'[PackedRefs] = None
             /\ \A q \in Procs : q # p => pc[q] \notin PackedHeld
  <2>1. lock[PackedRefs] = p /\ p # None
    BY <1>0, <1>a DEF Locked, PackedHeld
  <2>2. packed' = cache[p] /\ lock'[PackedRefs] = None
    BY <1>0, <2>1 DEF RenamePacked, PackedText, Whole, TypeDisk, Files
  <2>3. cache[p] = [packed EXCEPT ![real[p]] = None] /\ packed \in Contents
    BY <1>0, <1>a DEF Remembered, RemembersRight, Whole
  <2>4. cache[p] \in Contents
    BY <2>3 DEF Contents
  <2>5. \A q \in Procs : q # p => pc[q] \notin PackedHeld
    BY <1>a, <2>1 DEF Locked
  <2> QED
    BY <2>2, <2>3, <2>4, <2>5
<1>b. \A f \in Files : lock'[f] \in {lock[f], None}
    BY DEF RenamePacked, TypeDisk, Files
<1>1. Locked'
    BY DEF Locked, Holding, PackedHeld, TypeDisk, TypeWhere, Files, disk, local, RenamePacked, PackedText, Goto
<1>2. Whole'
  <2>1. \A r \in Names : Unrobbed(r)' => (IsRef(loose[r]) \/ loose[r] = None)'
    BY <1>0 DEF Whole, Unrobbed, IsRef
  <2>2. PackedRefs \notin robbed' => packed' \in Contents
    BY <1>0, <1>a
  <2>3. \A q \in Procs : pc'[q] \in PackedHeld \cup {"lockpacked"} \/ lock'[PackedRefs] = q => cache[q] # None
    BY <1>0, <1>b DEF Whole, PackedHeld, Files
  <2> QED
    BY <1>0, <2>1, <2>2, <2>3 DEF Whole
<1>3. Remembered'
  <2> SUFFICES ASSUME PackedRefs \notin robbed, NEW q \in Procs PROVE RemembersRight(q)'
    BY <1>0 DEF Remembered
  <2>1. RemembersRight(q)
    BY DEF Remembered
  <2>2. \A r \in Names : packed'[r] = IF r = real[p] THEN None ELSE packed[r]
    BY <1>a DEF Contents
  <2>3. CASE q # p
    <3>1. pc[q] \notin {"repack", "renamepacked"} /\ pc'[q] = pc[q]
      BY <1>0, <1>a, <2>3 DEF PackedHeld
    <3> QED
      BY <1>0, <2>1, <2>2, <3>1 DEF RemembersRight
  <2>4. CASE q = p
    <3>1. pc'[q] \notin {"repack", "renamepacked"} /\ packed' = cache'[q]
      BY <1>0, <1>a, <2>4
    <3> QED
      BY <3>1 DEF RemembersRight
  <2> QED
    BY <2>3, <2>4
<1>4. SwapLosesNoUpdate'
  <2>1. \A q \in Procs : pc'[q] \in {"close", "rename"} => pc[q] = pc'[q]
    BY <1>0
  <2>2. ASSUME NEW r \in Names, Unrobbed(r) PROVE Value(r)' \in {Value(r), None}
    <3>1. packed'[r] \in {packed[r], None}
      BY <1>a, <2>2 DEF Contents, Unrobbed
    <3>2. IsRef(loose[r]) \/ loose[r] = None
      BY <2>2 DEF Whole
    <3> QED
      BY <1>0, <3>1 DEF Value, IsRef
  <2> QED
    BY <1>0, <2>1, <2>2 DEF SwapLosesNoUpdate, Unrobbed, TypeWhere
<1> QED
    BY <1>1, <1>2, <1>3, <1>4

LEMMA ReleasePackedKept ==
    ASSUME IInv, NEW p \in Procs, ReleasePacked(p)
    PROVE  Locked' /\ Whole' /\ Remembered' /\ SwapLosesNoUpdate'
<1> USE NamesAssumption, TypeParts DEF IInv
<1>0. /\ pc[p] \in {"cleanpacked", "failpacked"} /\ pc'[p] \in {"removed", "giveup"}
      /\ \A q \in Procs : q # p => pc'[q] = pc[q]
      /\ UNCHANGED <<loose, written, prim, real, old, new, cache>>
    BY DEF ReleasePacked, Goto, local, TypeWhere
<1>a. RemoveLock(p, PackedRefs) /\ PackedRefs \in Files
    BY DEF ReleasePacked, Files
<1>b. /\ \A g \in Files : lock'[g] = IF g = PackedRefs THEN None ELSE lock[g]
      /\ robbed \subseteq robbed'
      /\ \A g : g \in robbed' /\ g \notin robbed => g = PackedRefs /\ lock[PackedRefs] # p /\ lock[PackedRefs] # None
    BY <1>a, RemovedLocks
<1>c. \A q \in Procs : real[q] \in Files /\ real[q] # PackedRefs
    BY DEF TypeWhere, Files
<1>d. PackedRefs \notin robbed' => PackedRefs \notin robbed /\ packed' = packed /\ packed \in Contents
    BY <1>b, KindsOfContents DEF ReleasePacked, Whole, IsEmpty
<1>1. Locked'
  <2>1. ASSUME NEW q \in Procs, pc'[q] \in Holding, real[q] \notin robbed' PROVE lock'[real[q]] = q
    BY <1>0, <1>b, <1>c, <2>1 DEF Locked, Holding
  <2>2. ASSUME NEW q \in Procs, pc'[q] \in PackedHeld, PackedRefs \notin robbed' PROVE FALSE
    <3>1. q # p /\ pc[q] \in PackedHeld
      BY <1>0, <2>2 DEF PackedHeld
    <3>2. lock[PackedRefs] = q
      BY <1>d, <2>2, <3>1 DEF Locked
    <3> QED
      BY <1>a, <2>2, <3>1, <3>2 DEF RemoveLock
  <2>3. ASSUME NEW f \in Files, NEW q \in Procs, lock'[f] = q
        PROVE  \/ pc'[q] = "killed"
               \/ pc'[q] \in Holding \cup {"cleanup", "giveup"} /\ f = real[q]
               \/ pc'[q] \in PackedHeld \cup {"cleanpacked", "failpacked"} /\ f = PackedRefs
    <3>1. f # PackedRefs /\ lock[f] = q
      BY <1>b, <2>3
    <3> QED
      BY <1>0, <3>1 DEF Locked, Holding
  <2> QED
    BY <1>0, <2>1, <2>2, <2>3 DEF Locked
<1>2. Whole'
  <2>1. \A r \in Names : Unrobbed(r)' => (IsRef(loose[r]) \/ loose[r] = None)'
    BY <1>0, <1>b DEF Whole, Unrobbed, IsRef
  <2>2. \A q \in Procs : pc'[q] \in PackedHeld \cup {"lockpacked"} \/ lock'[PackedRefs] = q => cache[q] # None
    BY <1>0, <1>a, <1>b DEF Whole, PackedHeld
  <2> QED
    BY <1>0, <1>b, <1>d, <2>1, <2>2 DEF Whole
<1>3. Remembered'
  <2> SUFFICES ASSUME PackedRefs \notin robbed', NEW q \in Procs PROVE RemembersRight(q)'
    BY DEF Remembered
  <2>1. RemembersRight(q)
    BY <1>d DEF Remembered
  <2> QED
    BY <1>0, <1>d, <2>1 DEF RemembersRight
<1>4. SwapLosesNoUpdate'
  <2>1. \A q \in Procs : pc'[q] \in {"close", "rename"} => pc[q] = pc'[q]
    BY <1>0
  <2>2. \A r : Unrobbed(r)' => Unrobbed(r) /\ Value(r)' = Value(r)
    BY <1>0, <1>b, <1>d DEF Unrobbed, Value, IsRef
  <2> QED
    BY <1>0, <2>1, <2>2 DEF SwapLosesNoUpdate
<1> QED
    BY <1>1, <1>2, <1>3, <1>4

LEMMA KillKept ==
    ASSUME IInv, NEW p \in Procs, Kill(p)
    PROVE  Locked' /\ Whole' /\ Remembered' /\ SwapLosesNoUpdate'
<1> USE NamesAssumption, TypeParts DEF IInv
<1>1. Locked'
    BY DEF Locked, Holding, PackedHeld, TypeDisk, TypeWhere, Files, disk, local, Kill, Goto
<1>2. Whole'
    BY KindsOfContents DEF Whole, Locked, Holding, PackedHeld, Unrobbed, IsRef, TypeDisk, TypeWhere, TypeValue, Files, disk, local, Kill, Goto
<1>3. Remembered'
    BY KindsOfContents DEF Remembered, RemembersRight, Whole, CacheAfter, CacheOf, TypeDisk, TypeWhere, disk, local, Kill, Goto
<1>4. SwapLosesNoUpdate'
    BY KindsOfContents DEF SwapLosesNoUpdate, Unrobbed, Locked, Holding, Remembered, RemembersRight, Whole, Value, IsRef, TypeDisk, TypeWhere, TypeValue, disk, local, Kill, Goto
<1> QED
    BY <1>1, <1>2, <1>3, <1>4

-----------------------------------------------------------------------------
\* The inductive invariant holds in every reachable state.
LEMMA Steps == IInv /\ [Next]_vars => IInv'
<1> SUFFICES ASSUME IInv, [Next]_vars PROVE IInv'
    OBVIOUS
<1>1. ASSUME NEW p \in Procs, Start(p) PROVE IInv'
    BY <1>1, StartTyped, StepsElsewhere, ElsewhereKept DEF IInv
<1>2. ASSUME NEW p \in Procs, StartPush(p) PROVE IInv'
    BY <1>2, StartPushTyped, StepsElsewhere, ElsewhereKept DEF IInv
<1>3. ASSUME NEW p \in Procs, StartDelete(p) PROVE IInv'
    BY <1>3, StartDeleteTyped, StepsElsewhere, ElsewhereKept DEF IInv
<1>4. ASSUME NEW p \in Procs, StartSwitch(p) PROVE IInv'
    BY <1>4, StartSwitchTyped, StepsElsewhere, ElsewhereKept DEF IInv
<1>5. ASSUME NEW p \in Procs, StartDetach(p) PROVE IInv'
    BY <1>5, StartDetachTyped, StepsElsewhere, ElsewhereKept DEF IInv
<1>6. ASSUME NEW p \in Procs, Find(p) PROVE IInv'
    BY <1>6, FindTyped, StepsElsewhere, ElsewhereKept DEF IInv
<1>7. ASSUME NEW p \in Procs, Hop(p) PROVE IInv'
    BY <1>7, HopTyped, StepsElsewhere, ElsewhereKept DEF IInv
<1>8. ASSUME NEW p \in Procs, DecideCommit(p) PROVE IInv'
    BY <1>8, DecideCommitTyped, StepsElsewhere, ElsewhereKept DEF IInv
<1>9. ASSUME NEW p \in Procs, DecideBranch(p) PROVE IInv'
    BY <1>9, DecideBranchTyped, StepsElsewhere, ElsewhereKept DEF IInv
<1>10. ASSUME NEW p \in Procs, DecideStash(p) PROVE IInv'
    BY <1>10, DecideStashTyped, StepsElsewhere, ElsewhereKept DEF IInv
<1>11. ASSUME NEW p \in Procs, DecidePush(p) PROVE IInv'
    BY <1>11, DecidePushTyped, StepsElsewhere, ElsewhereKept DEF IInv
<1>12. ASSUME NEW p \in Procs, Lock(p) PROVE IInv'
    BY <1>12, LockTyped, LockKept DEF IInv
<1>13. ASSUME NEW p \in Procs, CheckUnderLock(p) PROVE IInv'
    BY <1>13, CheckUnderLockTyped, CheckUnderLockKept DEF IInv
<1>14. ASSUME NEW p \in Procs, FlushLock(p) PROVE IInv'
    BY <1>14, FlushLockTyped, FlushLockKept DEF IInv
<1>15. ASSUME NEW p \in Procs, Rename(p) PROVE IInv'
    BY <1>15, RenameTyped, RenameKept DEF IInv
<1>16. ASSUME NEW p \in Procs, Release(p) PROVE IInv'
    BY <1>16, ReleaseTyped, ReleaseKept DEF IInv
<1>17. ASSUME NEW p \in Procs, Unlink(p) PROVE IInv'
    BY <1>17, UnlinkTyped, UnlinkKept DEF IInv
<1>18. ASSUME NEW p \in Procs, LockPacked(p) PROVE IInv'
    BY <1>18, LockPackedTyped, LockPackedKept DEF IInv
<1>19. ASSUME NEW p \in Procs, ReadPacked(p) PROVE IInv'
    BY <1>19, ReadPackedTyped, ReadPackedKept DEF IInv
<1>20. ASSUME NEW p \in Procs, Repack(p) PROVE IInv'
    BY <1>20, RepackTyped, RepackKept DEF IInv
<1>21. ASSUME NEW p \in Procs, RenamePacked(p) PROVE IInv'
    BY <1>21, RenamePackedTyped, RenamePackedKept DEF IInv
<1>22. ASSUME NEW p \in Procs, ReleasePacked(p) PROVE IInv'
    BY <1>22, ReleasePackedTyped, ReleasePackedKept DEF IInv
<1>23. ASSUME NEW p \in Procs, Kill(p) PROVE IInv'
    BY <1>23, KillTyped, KillKept DEF IInv
<1>24. CASE UNCHANGED vars
    BY <1>24 DEF IInv, TypeOK, Locked, Whole, Remembered, RemembersRight, SwapLosesNoUpdate,
                 Unrobbed, Value, IsRef, vars, disk, local, bounds
<1> QED
    BY <1>1, <1>2, <1>3, <1>4, <1>5, <1>6, <1>7, <1>8, <1>9, <1>10, <1>11, <1>12, <1>13, <1>14, <1>15, <1>16, <1>17, <1>18, <1>19, <1>20, <1>21, <1>22, <1>23, <1>24 DEF Next, Step

(* Every reachable state satisfies the inductive invariant: a process that *)
(* made a lock file has it until it gives it back, and files are whole and *)
(* what is remembered of packed-refs is right or removed since, unless a   *)
(* process has removed the lock of another by its name.                    *)
THEOREM Invariance == Spec => []IInv
<1> QED
    BY InitialStates, Steps, PTL DEF Spec

(* The files, locks and local values are what the program can handle:      *)
(* no chain of refs leads out of the names, no file holds anything else.   *)
THEOREM TypeCorrect == Spec => []TypeOK
<1>1. IInv => TypeOK
    BY DEF IInv
<1> QED
    BY <1>1, Invariance, PTL

(* set_if_equals never overwrites a value it has not compared with, for    *)
(* any number of processes, although the cached packed refs go stale, as   *)
(* long as no process has removed the lock of another.                     *)
THEOREM SwapsAreSafe == Spec => []SwapLosesNoUpdate
<1>1. IInv => SwapLosesNoUpdate
    BY DEF IInv
<1> QED
    BY <1>1, Invariance, PTL

(* No operation of refs.py returns or raises with a lock file left behind, *)
(* whatever the others hold, and also when they have removed its own.      *)
THEOREM LocksAreGivenBack == Spec => []NoLockLeft
<1>1. IInv => NoLockLeft
    BY DEF IInv, Locked, NoLockLeft, Holding, PackedHeld
<1> QED
    BY <1>1, Invariance, PTL

-----------------------------------------------------------------------------
(* No commit gets lost                                                     *)

\* A commit that is not made yet has no parent.
Fresh == \A n \in Commits : n > made => parent[n] = 0

\* What comes after the chain of refs changes one; a commit on its way to its
\* ref has the value it is to replace as its parent.
BuildingAt(p) ==
    /\ pc[p] \in {"find", "followed", "lock", "locked", "close", "rename"} => prim[p] # "read"
    /\ /\ op[p] \in {"commit", "stashed"} /\ prim[p] # "read"
       /\ pc[p] \in {"find", "follow", "followed", "lock", "locked", "close", "rename"}
       => /\ prim[p] \in {"cas", "add"} /\ new[p] \in 1 .. made
          /\ prim[p] = "cas" => old[p] \in Commits /\ parent[new[p]] = old[p]
Building == \A p \in Procs : BuildingAt(p)

\* add_if_new goes on when it read no value, which it remembers of packed-refs;
\* when it comes to writing, there is none.
AddingAt(p) ==
    prim[p] = "add" =>
       /\ pc[p] \notin {"find", "lock"}
       /\ pc[p] \in {"followed", "locked", "close", "rename"} /\ got[p] = None =>
             cache[p] # None /\ cache[p][real[p]] = None
       /\ pc[p] \in {"locked", "close", "rename"} => got[p] = None
       /\ pc[p] \in {"close", "rename"} /\ Unrobbed(real[p]) => Value(real[p]) = None
Adding == \A p \in Procs : AddingAt(p)

\* While a ref is taken out of packed-refs nothing is known to be on it.
EmptiedAt(p) ==
    pc[p] \in PackedHeld \cup {"lockpacked"} /\ Unrobbed(real[p]) => \A k \in kept : k[1] # real[p]
Emptied == \A p \in Procs : EmptiedAt(p)

\* What was reported done is on refs of the repository.
KeptTyped == kept \subseteq Names \X Commits

KInv == Fresh /\ Building /\ Adding /\ Emptied /\ KeptTyped /\ CommitsKept

LEMMA HistoryHasItself == ASSUME NEW c \in Commits PROVE c \in History(c)
    BY DEF History

LEMMA HistoryOfParent ==
    ASSUME NEW c \in Commits, parent[c] \in Commits, parent[c] # 0
    PROVE  History(parent[c]) \subseteq History(c)
    BY DEF History, ParentsIn

\* Giving a parent to a commit that had none takes nothing out of a history.
LEMMA HistoryGrows ==
    ASSUME NEW c \in Commits, \A n \in Commits : parent'[n] = parent[n] \/ parent[n] = 0
    PROVE  History(c) \subseteq History(c)'
<1>1. ASSUME NEW S \in SUBSET Commits, ParentsIn(S)' PROVE ParentsIn(S)
    BY <1>1 DEF ParentsIn
<1> QED
    BY <1>1 DEF History

LEMMA InitialKept == Init => KInv
<1> SUFFICES ASSUME Init PROVE KInv
    OBVIOUS
<1> USE NamesAssumption, BoundAssumption
<1>1. Fresh
    BY DEF Init, Fresh
<1>2. Building /\ Adding /\ Emptied /\ KeptTyped /\ CommitsKept
    BY DEF Init, Building, BuildingAt, Adding, AddingAt, Emptied, EmptiedAt, PackedHeld, KeptTyped, CommitsKept
<1> QED
    BY <1>1, <1>2 DEF KInv

\* A step changes the values of one process.
LEMMA OthersWait ==
    ASSUME TypeOK, NEW p \in Procs, Step(p)
    PROVE  \A q \in Procs \ {p} :
              /\ pc'[q] = pc[q] /\ op'[q] = op[q] /\ prim'[q] = prim[q] /\ real'[q] = real[q]
              /\ got'[q] = got[q] /\ old'[q] = old[q] /\ new'[q] = new[q] /\ cache'[q] = cache[q]
<1>1. CASE Start(p)
    BY <1>1 DEF TypeOK, local, Start, Asks, Opens, Goto
<1>2. CASE StartPush(p)
    BY <1>2 DEF TypeOK, local, StartPush, Asks, Goto
<1>3. CASE StartDelete(p)
    BY <1>3 DEF TypeOK, local, StartDelete, Asks, Opens, Goto
<1>4. CASE StartSwitch(p)
    BY <1>4 DEF TypeOK, local, StartSwitch, Asks, Opens, Goto
<1>5. CASE StartDetach(p)
    BY <1>5 DEF TypeOK, local, StartDetach, Asks, Opens, Goto
<1>6. CASE Find(p)
    BY <1>6 DEF TypeOK, local, Find, Leave, Goto, CacheAfterRead, CacheAfter
<1>7. CASE Hop(p)
    BY <1>7 DEF TypeOK, local, Hop, Goto, IsSymref, CacheAfterRead, CacheAfter
<1>8. CASE DecideCommit(p)
    BY <1>8 DEF TypeOK, local, DecideCommit, CommitOn, Change, Goto
<1>9. CASE DecideBranch(p)
    BY <1>9 DEF TypeOK, local, DecideBranch, Leave, Change, Goto
<1>10. CASE DecideStash(p)
    BY <1>10 DEF TypeOK, local, DecideStash, Leave, Change, Goto
<1>11. CASE DecidePush(p)
    BY <1>11 DEF TypeOK, local, DecidePush, Change, Goto
<1>12. CASE Lock(p)
    BY <1>12 DEF TypeOK, local, Lock, Leave, Goto
<1>13. CASE CheckUnderLock(p)
    BY <1>13 DEF TypeOK, local, CheckUnderLock, Goto, CacheAfter
<1>14. CASE FlushLock(p)
    BY <1>14 DEF TypeOK, local, FlushLock, Goto
<1>15. CASE Rename(p)
    BY <1>15 DEF TypeOK, local, Rename, LockText, Goto
<1>16. CASE Release(p)
    BY <1>16 DEF TypeOK, local, Release, Leave, Change, Goto
<1>17. CASE Unlink(p)
    BY <1>17 DEF TypeOK, local, Unlink, Goto
<1>18. CASE LockPacked(p)
    BY <1>18 DEF TypeOK, local, LockPacked, RaiseLocked, Goto
<1>19. CASE ReadPacked(p)
    BY <1>19 DEF TypeOK, local, ReadPacked, Goto
<1>20. CASE Repack(p)
    BY <1>20 DEF TypeOK, local, Repack, Goto
<1>21. CASE RenamePacked(p)
    BY <1>21 DEF TypeOK, local, RenamePacked, PackedText, Goto
<1>22. CASE ReleasePacked(p)
    BY <1>22 DEF TypeOK, local, ReleasePacked, Goto
<1>23. CASE Kill(p)
    BY <1>23 DEF TypeOK, local, Kill, Goto
<1> QED
    BY <1>1, <1>2, <1>3, <1>4, <1>5, <1>6, <1>7, <1>8, <1>9, <1>10, <1>11, <1>12, <1>13, <1>14, <1>15, <1>16, <1>17, <1>18, <1>19, <1>20, <1>21, <1>22, <1>23 DEF Step

\* The actions that neither change what a ref is worth nor what is known to be on
\* it, as long as no lock was removed.
Quiet(p) ==
    \/ Start(p) \/ StartPush(p) \/ StartDelete(p) \/ StartSwitch(p) \/ StartDetach(p)
    \/ Find(p) \/ Hop(p) \/ DecideBranch(p) \/ DecideStash(p) \/ DecidePush(p)
    \/ Lock(p) \/ CheckUnderLock(p) \/ FlushLock(p) \/ Release(p)
    \/ LockPacked(p) \/ ReadPacked(p) \/ Repack(p) \/ ReleasePacked(p) \/ Kill(p)

LEMMA QuietSteps ==
    ASSUME IInv, NEW p \in Procs, Quiet(p)
    PROVE  /\ UNCHANGED <<parent, made, kept>>
           /\ \A r \in Names : Unrobbed(r)' => Unrobbed(r) /\ Value(r)' = Value(r)
<1> TypeOK /\ Whole
    BY DEF IInv
<1>1. UNCHANGED <<parent, made, kept>>
    BY DEF Quiet, Start, StartPush, StartDelete, StartSwitch, StartDetach, Asks, Find, Hop,
           DecideBranch, DecideStash, DecidePush, Lock, CheckUnderLock, FlushLock, Release, LockPacked,
           ReadPacked, Repack, ReleasePacked, Kill
<1>2. robbed \subseteq robbed'
    BY DEF Quiet, Start, StartPush, StartDelete, StartSwitch, StartDetach, Asks, Find, Hop,
           DecideBranch, DecideStash, DecidePush, Lock, CheckUnderLock, FlushLock, Release, LockPacked,
           ReadPacked, Repack, ReleasePacked, Kill, disk, RemoveLock
<1>3. packed' = packed \/ packed \in Procs
    BY DEF Quiet, Start, StartPush, StartDelete, StartSwitch, StartDetach, Asks, Find, Hop,
           DecideBranch, DecideStash, DecidePush, Lock, CheckUnderLock, FlushLock, Release, LockPacked,
           ReadPacked, Repack, ReleasePacked, Kill, disk
<1>4. \A r \in Names : loose'[r] = loose[r] \/ loose[r] \in Procs
  <2>1. CASE FlushLock(p) \/ Release(p)
    BY <2>1 DEF FlushLock, Release, TypeOK
  <2>2. CASE ~(FlushLock(p) \/ Release(p))
    BY <2>2 DEF Quiet, Start, StartPush, StartDelete, StartSwitch, StartDetach, Asks, Find, Hop,
           DecideBranch, DecideStash, DecidePush, Lock, CheckUnderLock, LockPacked,
           ReadPacked, Repack, ReleasePacked, Kill, disk
  <2> QED
    BY <2>1, <2>2
<1>5. ASSUME NEW r \in Names, Unrobbed(r)' PROVE Unrobbed(r) /\ Value(r)' = Value(r)
  <2>1. Unrobbed(r)
    BY <1>2, <1>5 DEF Unrobbed
  <2>2. packed' = packed /\ loose'[r] = loose[r]
    BY <1>3, <1>4, <2>1, KindsOfContents, NamesAssumption DEF Whole, Unrobbed, IsEmpty
  <2> QED
    BY <2>1, <2>2 DEF Value, IsRef
<1> QED
    BY <1>1, <1>5

LEMMA OtherSteps ==
    ASSUME NEW p \in Procs, Step(p)
    PROVE  Quiet(p) \/ DecideCommit(p) \/ Rename(p) \/ Unlink(p) \/ RenamePacked(p)
    BY DEF Step, Quiet

\* Two processes that hold locks hold them of different files.
LEMMA LocksExclude ==
    ASSUME IInv, NEW p \in Procs, NEW q \in Procs, pc[p] \in Holding, pc[q] \in Holding, p # q,
           real[p] \notin robbed
    PROVE  real[p] # real[q]
    BY DEF IInv, Locked

\* Taking a ref out of packed-refs leaves the other refs alone.
LEMMA RepackedValues ==
    ASSUME IInv, NEW p \in Procs, RenamePacked(p)
    PROVE  /\ UNCHANGED <<loose, robbed, parent, made, kept>>
           /\ \A r \in Names : Unrobbed(r) =>
                 Value(r)' = Value(r) \/ (r = real[p] /\ Value(r)' = None)
<1> TypeOK /\ Locked /\ Whole /\ Remembered
    BY DEF IInv
<1>1. pc[p] = "renamepacked" /\ UNCHANGED <<loose, robbed, parent, made, kept>>
    BY DEF RenamePacked
<1>2. ASSUME NEW r \in Names, Unrobbed(r)
      PROVE  Value(r)' = Value(r) \/ (r = real[p] /\ Value(r)' = None)
  <2>1. PackedRefs \notin robbed
    BY <1>2 DEF Unrobbed
  <2>2. lock[PackedRefs] = p
    BY <1>1, <2>1 DEF Locked, PackedHeld
  <2>3. packed' = cache[p]
    BY <1>1, <2>2, NamesAssumption DEF RenamePacked, PackedText, Whole
  <2>4. cache[p] = [packed EXCEPT ![real[p]] = None] /\ packed \in Contents
    BY <1>1, <2>1 DEF Remembered, RemembersRight, Whole
  <2>5. packed'[r] = IF r = real[p] THEN None ELSE packed[r]
    BY <2>3, <2>4 DEF Contents
  <2> QED
    BY <1>1, <2>5 DEF Value, IsRef
<1> QED
    BY <1>1, <1>2

\* What is renamed into the place of a ref whose lock was not removed.
LEMMA RenamedValue ==
    ASSUME IInv, NEW p \in Procs, Rename(p)
    PROVE  /\ UNCHANGED <<packed, robbed, parent, made>> /\ pc[p] = "rename"
           /\ real[p] \notin robbed => loose' = [loose EXCEPT ![real[p]] = new[p]] /\ kept' = Keeps(p)
           /\ \A r \in Names : r # real[p] => loose'[r] = loose[r]
           /\ kept' \in {kept, Keeps(p)}
<1> TypeOK /\ Locked /\ Whole
    BY DEF IInv
<1>1. UNCHANGED <<packed, robbed, parent, made>> /\ pc[p] = "rename"
    BY DEF Rename
<1>2. ASSUME real[p] \notin robbed
      PROVE  loose' = [loose EXCEPT ![real[p]] = new[p]] /\ kept' = Keeps(p)
  <2>1. lock[real[p]] = p /\ p # None
    BY <1>1, <1>2, NamesAssumption DEF Locked, Holding
  <2>2. LockText(p) = new[p]
    BY <1>1 DEF Whole, LockText
  <2> QED
    BY <2>1, <2>2 DEF Rename
<1>3. \A r \in Names : r # real[p] => loose'[r] = loose[r]
    BY DEF Rename, TypeOK
<1>4. kept' \in {kept, Keeps(p)}
    BY DEF Rename
<1> QED
    BY <1>1, <1>2, <1>3, <1>4

\* What a process that holds a lock has compared stays, or goes, while others step.
LEMMA ValuesStay ==
    ASSUME IInv, NEW p \in Procs, Step(p), NEW q \in Procs \ {p}, pc[q] \in Holding,
           Unrobbed(real[q])'
    PROVE  Unrobbed(real[q]) /\ Value(real[q])' \in {Value(real[q]), None}
<1> TypeOK /\ real[q] \in Names
    BY DEF IInv, TypeOK
<1>0. real'[q] = real[q]
    BY OthersWait
<1>1. CASE Quiet(p)
    BY <1>0, <1>1, QuietSteps DEF Unrobbed
<1>2. CASE DecideCommit(p)
    BY <1>0, <1>2 DEF DecideCommit, disk, Unrobbed, Value
<1>3. CASE Rename(p)
  <2>1. Unrobbed(real[q]) /\ packed' = packed
    BY <1>0, <1>3, RenamedValue DEF Unrobbed
  <2>2. real[p] # real[q]
    BY <1>3, <2>1, LocksExclude DEF Rename, Holding, Unrobbed
  <2>3. loose'[real[q]] = loose[real[q]]
    BY <1>3, <2>2, RenamedValue
  <2> QED
    BY <2>1, <2>3, <1>0 DEF Value, IsRef
<1>4. CASE Unlink(p)
  <2>1. Unrobbed(real[q]) /\ packed' = packed
    BY <1>0, <1>4 DEF Unrobbed, Unlink
  <2>2. real[p] # real[q]
    BY <1>4, <2>1, LocksExclude DEF Unlink, Holding, Unrobbed
  <2>3. loose'[real[q]] = loose[real[q]]
    BY <1>4, <2>2 DEF Unlink, TypeOK
  <2> QED
    BY <2>1, <2>3, <1>0 DEF Value, IsRef
<1>5. CASE RenamePacked(p)
    BY <1>0, <1>5, RepackedValues DEF Unrobbed
<1> QED
    BY <1>1, <1>2, <1>3, <1>4, <1>5, OtherSteps

LEMMA FreshStep == ASSUME IInv, KInv, NEW p \in Procs, Step(p) PROVE Fresh'
<1> USE NamesAssumption, BoundAssumption
<1> TypeOK /\ Fresh
    BY DEF IInv, KInv
<1>1. CASE DecideCommit(p)
    BY <1>1 DEF DecideCommit, CommitOn, Fresh, TypeOK, Commits
<1>2. CASE Quiet(p)
    BY <1>2, QuietSteps DEF Fresh
<1>3. CASE Rename(p) \/ Unlink(p) \/ RenamePacked(p)
    BY <1>3 DEF Rename, Unlink, RenamePacked, Fresh
<1> QED
    BY <1>1, <1>2, <1>3, OtherSteps

\* What was made stays made, with its parent.
LEMMA ParentsStay ==
    ASSUME IInv, NEW p \in Procs, Step(p)
    PROVE  made' \in Nat /\ made \in Nat /\ made <= made' /\ \A n \in 1 .. made : parent'[n] = parent[n]
<1> USE BoundAssumption
<1> TypeOK
    BY DEF IInv
<1>1. CASE DecideCommit(p)
    BY <1>1 DEF DecideCommit, CommitOn, TypeOK, Commits
<1>2. CASE Quiet(p)
    BY <1>2, QuietSteps DEF TypeOK, Commits
<1>3. CASE Rename(p) \/ Unlink(p) \/ RenamePacked(p)
    BY <1>3 DEF Rename, Unlink, RenamePacked, TypeOK, Commits
<1> QED
    BY <1>1, <1>2, <1>3, OtherSteps

LEMMA BuildingOfStep == ASSUME IInv, KInv, NEW p \in Procs, Step(p) PROVE BuildingAt(p)'
<1> USE NamesAssumption, BoundAssumption
<1> TypeOK /\ BuildingAt(p)
    BY DEF IInv, KInv, Building
<1>1. CASE Start(p)
    BY <1>1 DEF BuildingAt, TypeOK, local, Start, Asks, Opens, Goto
<1>2. CASE StartPush(p)
    BY <1>2 DEF BuildingAt, TypeOK, local, StartPush, Asks, Goto
<1>3. CASE StartDelete(p)
    BY <1>3 DEF BuildingAt, TypeOK, local, StartDelete, Asks, Opens, Goto
<1>4. CASE StartSwitch(p)
    BY <1>4 DEF BuildingAt, TypeOK, local, StartSwitch, Asks, Opens, Goto
<1>5. CASE StartDetach(p)
    BY <1>5 DEF BuildingAt, TypeOK, local, StartDetach, Asks, Opens, Goto
<1>6. CASE Find(p)
    BY <1>6 DEF BuildingAt, TypeOK, local, Find, Leave, Goto
<1>7. CASE Hop(p)
    BY <1>7 DEF BuildingAt, TypeOK, local, Hop, Goto, IsSymref
<1>8. CASE DecideCommit(p)
    BY <1>8 DEF BuildingAt, TypeOK, local, DecideCommit, CommitOn, Change, Goto, Commits
<1>9. CASE DecideBranch(p)
    BY <1>9 DEF BuildingAt, TypeOK, local, DecideBranch, Leave, Change, Goto
<1>10. CASE DecideStash(p)
    BY <1>10 DEF BuildingAt, TypeOK, local, DecideStash, Leave, Change, Goto
<1>11. CASE DecidePush(p)
    BY <1>11 DEF BuildingAt, TypeOK, local, DecidePush, Change, Goto
<1>12. CASE Lock(p)
    BY <1>12 DEF BuildingAt, TypeOK, local, Lock, Leave, Goto
<1>13. CASE CheckUnderLock(p)
    BY <1>13 DEF BuildingAt, TypeOK, local, CheckUnderLock, Goto
<1>14. CASE FlushLock(p)
    BY <1>14 DEF BuildingAt, TypeOK, local, FlushLock, Goto
<1>15. CASE Rename(p)
    BY <1>15 DEF BuildingAt, TypeOK, local, Rename, Goto
<1>16. CASE Release(p)
    BY <1>16 DEF BuildingAt, TypeOK, local, Release, Leave, Change, Goto
<1>17. CASE Unlink(p)
    BY <1>17 DEF BuildingAt, TypeOK, local, Unlink, Goto
<1>18. CASE LockPacked(p)
    BY <1>18 DEF BuildingAt, TypeOK, local, LockPacked, RaiseLocked, Goto
<1>19. CASE ReadPacked(p)
    BY <1>19 DEF BuildingAt, TypeOK, local, ReadPacked, Goto
<1>20. CASE Repack(p)
    BY <1>20 DEF BuildingAt, TypeOK, local, Repack, Goto
<1>21. CASE RenamePacked(p)
    BY <1>21 DEF BuildingAt, TypeOK, local, RenamePacked, Goto
<1>22. CASE ReleasePacked(p)
    BY <1>22 DEF BuildingAt, TypeOK, local, ReleasePacked, Goto
<1>23. CASE Kill(p)
    BY <1>23 DEF BuildingAt, TypeOK, local, Kill, Goto
<1> QED
    BY <1>1, <1>2, <1>3, <1>4, <1>5, <1>6, <1>7, <1>8, <1>9, <1>10, <1>11, <1>12, <1>13, <1>14, <1>15, <1>16, <1>17, <1>18, <1>19, <1>20, <1>21, <1>22, <1>23 DEF Step

LEMMA BuildingStep == ASSUME IInv, KInv, NEW p \in Procs, Step(p) PROVE Building'
<1> SUFFICES ASSUME NEW q \in Procs PROVE BuildingAt(q)'
    BY DEF Building
<1>1. CASE q = p
    BY <1>1, BuildingOfStep
<1>2. CASE q # p
    BY <1>2, OthersWait, ParentsStay DEF IInv, KInv, Building, BuildingAt
<1> QED
    BY <1>1, <1>2

LEMMA AddingOfStep == ASSUME IInv, KInv, NEW p \in Procs, Step(p) PROVE AddingAt(p)'
<1> USE NamesAssumption, BoundAssumption
<1> TypeOK /\ Whole /\ Remembered /\ AddingAt(p)
    BY DEF IInv, KInv, Adding
<1>1. CASE Start(p)
    BY <1>1 DEF AddingAt, TypeOK, local, Start, Asks, Opens, Goto
<1>2. CASE StartPush(p)
    BY <1>2 DEF AddingAt, TypeOK, StartPush, Asks, Goto
<1>3. CASE StartDelete(p)
    BY <1>3 DEF AddingAt, TypeOK, local, StartDelete, Asks, Opens, Goto
<1>4. CASE StartSwitch(p)
    BY <1>4 DEF AddingAt, TypeOK, local, StartSwitch, Asks, Opens, Goto
<1>5. CASE StartDetach(p)
    BY <1>5 DEF AddingAt, TypeOK, local, StartDetach, Asks, Opens, Goto
<1>6. CASE Find(p)
    BY <1>6 DEF AddingAt, TypeOK, local, Find, Leave, Goto
<1>7. CASE Hop(p)
  <2>1. ASSUME prim[p] = "add", pc'[p] = "followed", got'[p] = None
        PROVE  cache'[p] # None /\ cache'[p][real'[p]] = None
    <3>1. ReadRef(p, real[p]) = None /\ real'[p] = real[p]
        BY <1>7, <2>1 DEF Hop, TypeOK, Goto
    <3>2. ~IsRef(loose[real[p]]) /\ CacheOf(p)[real[p]] = None
        BY <3>1, KindsOfContents DEF ReadRef, IsRef
    <3>3. cache'[p] = CacheOf(p)
        BY <1>7, <3>2 DEF Hop, CacheAfterRead, CacheAfter, TypeOK
    <3>4. CacheOf(p) # None
        BY ReadsAreTyped, KindsOfContents
    <3> QED
        BY <3>1, <3>2, <3>3, <3>4
  <2>2. pc'[p] \in {"follow", "followed", "decide", "idle"} /\ prim' = prim
        BY <1>7 DEF Hop, TypeOK, Goto
  <2> QED
    BY <2>1, <2>2 DEF AddingAt
<1>8. CASE DecideCommit(p)
    BY <1>8 DEF AddingAt, TypeOK, local, DecideCommit, CommitOn, Change, Goto
<1>9. CASE DecideBranch(p)
    BY <1>9 DEF AddingAt, TypeOK, local, DecideBranch, Leave, Change, Goto
<1>10. CASE DecideStash(p)
    BY <1>10 DEF AddingAt, TypeOK, local, DecideStash, Leave, Change, Goto
<1>11. CASE DecidePush(p)
    BY <1>11 DEF AddingAt, TypeOK, local, DecidePush, Change, Goto
<1>12. CASE Lock(p)
    BY <1>12 DEF AddingAt, TypeOK, local, Lock, Leave, Goto
<1>13. CASE CheckUnderLock(p)
  <2>1. pc[p] = "locked" /\ pc'[p] \in {"unlink", "close", "giveup"} /\ robbed' = robbed
        BY <1>13 DEF CheckUnderLock, TypeOK, Goto, disk
  <2>2. UNCHANGED <<prim, real, got, loose, packed>> /\ (cache[p] # None => cache'[p] = cache[p])
        BY <1>13 DEF CheckUnderLock, TypeOK, Goto, local, disk, CacheAfter, CacheOf
  <2>3. ASSUME prim[p] = "add", pc'[p] = "close", Unrobbed(real[p]) PROVE Value(real[p]) = None
    <3>1. got[p] = None /\ cache[p] # None /\ cache[p][real[p]] = None
        BY <2>1, <2>3 DEF AddingAt
    <3>2. ~Exists(p)
        BY <1>13, <2>3, <3>1 DEF CheckUnderLock, Allowed, TypeOK, Goto, Raises
    <3>3. packed[real[p]] = None
        BY <2>1, <2>3, <3>1 DEF Remembered, RemembersRight, Unrobbed, TypeOK
    <3> QED
        BY <3>2, <3>3, KindsOfContents DEF Exists, Value
  <2> QED
    BY <2>1, <2>2, <2>3 DEF AddingAt, Unrobbed, Value
<1>14. CASE FlushLock(p)
  <2>1. /\ pc[p] = "close" /\ pc'[p] = "rename"
        /\ UNCHANGED <<prim, real, got, cache, robbed, packed>>
        BY <1>14 DEF FlushLock, Goto, TypeOK, local
  <2>2. Unrobbed(real[p]) => loose'[real[p]] = loose[real[p]]
        BY <1>14, KindsOfContents DEF FlushLock, Whole, TypeOK
  <2> QED
    BY <2>1, <2>2 DEF AddingAt, Unrobbed, Value, IsRef
<1>15. CASE Rename(p)
    BY <1>15 DEF AddingAt, TypeOK, local, Rename, Goto
<1>16. CASE Release(p)
    BY <1>16 DEF AddingAt, TypeOK, local, Release, Leave, Change, Goto
<1>17. CASE Unlink(p)
    BY <1>17 DEF AddingAt, TypeOK, local, Unlink, Goto
<1>18. CASE LockPacked(p)
    BY <1>18 DEF AddingAt, TypeOK, local, LockPacked, RaiseLocked, Goto
<1>19. CASE ReadPacked(p)
    BY <1>19 DEF AddingAt, TypeOK, local, ReadPacked, Goto
<1>20. CASE Repack(p)
    BY <1>20 DEF AddingAt, TypeOK, Repack, Goto, local
<1>21. CASE RenamePacked(p)
    BY <1>21 DEF AddingAt, TypeOK, local, RenamePacked, Goto
<1>22. CASE ReleasePacked(p)
    BY <1>22 DEF AddingAt, TypeOK, local, ReleasePacked, Goto
<1>23. CASE Kill(p)
    BY <1>23 DEF AddingAt, TypeOK, local, Kill, Goto
<1> QED
    BY <1>1, <1>2, <1>3, <1>4, <1>5, <1>6, <1>7, <1>8, <1>9, <1>10, <1>11, <1>12, <1>13, <1>14, <1>15, <1>16, <1>17, <1>18, <1>19, <1>20, <1>21, <1>22, <1>23 DEF Step

LEMMA AddingStep == ASSUME IInv, KInv, NEW p \in Procs, Step(p) PROVE Adding'
<1> SUFFICES ASSUME NEW q \in Procs PROVE AddingAt(q)'
    BY DEF Adding
<1>1. CASE q = p
    BY <1>1, AddingOfStep
<1>2. CASE q # p
  <2>1. AddingAt(q) /\ TypeOK
    BY DEF IInv, KInv, Adding
  <2>2. /\ pc'[q] = pc[q] /\ prim'[q] = prim[q] /\ real'[q] = real[q]
        /\ got'[q] = got[q] /\ cache'[q] = cache[q]
    BY <1>2, <2>1, OthersWait
  <2>3. pc[q] \in {"close", "rename"} /\ Unrobbed(real[q])'
        => Unrobbed(real[q]) /\ Value(real[q])' \in {Value(real[q]), None}
    BY <1>2, ValuesStay DEF Holding
  <2> QED
    BY <2>1, <2>2, <2>3 DEF AddingAt
<1> QED
    BY <1>1, <1>2

LEMMA EmptiedStep == ASSUME IInv, KInv, NEW p \in Procs, Step(p) PROVE Emptied'
<1> TypeOK /\ Emptied
    BY DEF IInv, KInv
<1> SUFFICES ASSUME NEW q \in Procs, pc'[q] \in PackedHeld \cup {"lockpacked"}, Unrobbed(real[q])',
                    NEW k \in kept'
             PROVE  k[1] # real'[q]
    BY DEF Emptied, EmptiedAt
<1>1. CASE Unlink(p)
  <2>1. k \in kept /\ k[1] # real[p] /\ robbed' = robbed /\ real' = real
    BY <1>1 DEF Unlink, local
  <2>2. CASE q = p
    BY <2>1, <2>2
  <2>3. CASE q # p
    BY <2>1, <2>3, OthersWait DEF Emptied, EmptiedAt, Unrobbed
  <2> QED
    BY <2>2, <2>3
<1>2. CASE Rename(p)
  <2>1. real' = real /\ robbed' = robbed /\ pc[p] = "rename" /\ pc'[p] \in {"cleanup", "giveup"}
    BY <1>2 DEF Rename, local, Goto, TypeOK
  <2>2. q # p /\ pc'[q] = pc[q]
    BY <2>1, OthersWait DEF PackedHeld
  <2>3. real[p] # real[q]
    BY <2>1, <2>2, LocksExclude DEF Holding, PackedHeld, Unrobbed
  <2>4. k \in kept \/ k = <<real[p], new[p]>>
    BY <1>2, RenamedValue DEF Keeps
  <2> QED
    BY <2>1, <2>2, <2>3, <2>4 DEF Emptied, EmptiedAt, Unrobbed
<1>3. CASE Quiet(p) \/ DecideCommit(p) \/ RenamePacked(p)
  <2>1. kept' = kept
    BY <1>3, QuietSteps DEF DecideCommit, RenamePacked
  <2>2. pc[q] \in PackedHeld \cup {"lockpacked"} /\ real'[q] = real[q]
    <3>1. CASE q # p
      BY <3>1, OthersWait
    <3>2. CASE q = p
      BY <1>3, <3>2 DEF Quiet, Start, StartPush, StartDelete, StartSwitch, StartDetach, Asks, Find, Hop,
           DecideCommit, CommitOn, DecideBranch, DecideStash, DecidePush, Lock, CheckUnderLock, FlushLock,
           Release, Leave, Change, LockPacked, RaiseLocked, ReadPacked, Repack, RenamePacked, ReleasePacked,
           Kill, Goto, TypeOK, PackedHeld, local
    <3> QED
      BY <3>1, <3>2
  <2>3. Unrobbed(real[q])
    BY <1>3, <2>2, QuietSteps DEF DecideCommit, RenamePacked, disk, Unrobbed, TypeOK
  <2> QED
    BY <2>1, <2>2, <2>3 DEF Emptied, EmptiedAt
<1> QED
    BY <1>1, <1>2, <1>3, OtherSteps

LEMMA KeptTypedStep == ASSUME IInv, KInv, NEW p \in Procs, Step(p) PROVE KeptTyped'
<1> TypeOK /\ Building /\ KeptTyped
    BY DEF IInv, KInv
<1>1. CASE Rename(p)
  <2>1. op[p] \in {"commit", "stashed"} => new[p] \in Commits
    <3>1. pc[p] = "rename" /\ BuildingAt(p)
        BY <1>1 DEF Rename, Building
    <3> QED
        BY <3>1, BoundAssumption DEF BuildingAt, Commits, TypeOK
  <2>2. \A k \in kept' : k \in kept \/ (op[p] \in {"commit", "stashed"} /\ k = <<real[p], new[p]>>)
      BY <1>1, RenamedValue DEF Keeps
  <2> QED
      BY <2>1, <2>2 DEF KeptTyped, TypeOK
<1>2. CASE Unlink(p)
    BY <1>2 DEF Unlink, KeptTyped
<1>3. CASE Quiet(p) \/ DecideCommit(p) \/ RenamePacked(p)
    BY <1>3, QuietSteps DEF KeptTyped, DecideCommit, RenamePacked
<1> QED
    BY <1>1, <1>2, <1>3, OtherSteps

\* The renaming of a lock file loses no commit: what was on the ref is in the
\* history of what is put there, or is not kept any more.
LEMMA RenameKeepsCommits == ASSUME IInv, KInv, NEW p \in Procs, Rename(p) PROVE CommitsKept'
<1> USE NamesAssumption, BoundAssumption
<1> TypeOK /\ BuildingAt(p) /\ AddingAt(p) /\ SwapLosesNoUpdate /\ KeptTyped /\ CommitsKept
    BY DEF IInv, KInv, Building, Adding
<1>0. /\ UNCHANGED <<parent, packed, robbed>> /\ pc[p] = "rename"
      /\ real[p] \notin robbed => loose' = [loose EXCEPT ![real[p]] = new[p]] /\ kept' = Keeps(p)
      /\ \A r \in Names : r # real[p] => loose'[r] = loose[r]
      /\ kept' \in {kept, Keeps(p)}
    BY RenamedValue
<1>2. \A c : History(c)' = History(c)
    BY <1>0 DEF History, ParentsIn
<1> SUFFICES ASSUME NEW k \in kept', Unrobbed(k[1])
             PROVE  Value(k[1])' \in Commits /\ k[2] \in History(Value(k[1])')
    BY <1>0, <1>2 DEF CommitsKept, Unrobbed
<1>3. CASE k[1] # real[p]
  <2>1. k \in kept
    BY <1>0, <1>3 DEF Keeps
  <2>2. Value(k[1])' = Value(k[1])
    BY <1>0, <1>3, <2>1 DEF Value, IsRef, KeptTyped
  <2> QED
    BY <2>1, <2>2 DEF CommitsKept
<1> SUFFICES ASSUME k[1] = real[p] PROVE Value(k[1])' \in Commits /\ k[2] \in History(Value(k[1])')
    BY <1>3
<1>1. k \in Keeps(p) /\ loose'[real[p]] = new[p]
    BY <1>0 DEF Unrobbed, TypeOK
<1>4. CASE new[p] \in Commits /\ k[2] \in History(new[p])
  <2>1. Value(k[1])' = new[p]
    BY <1>1, <1>4 DEF Value, IsRef
  <2> QED
    BY <1>4, <2>1
<1>5. CASE op[p] \in {"commit", "stashed"} /\ (k \in kept \/ k = <<real[p], new[p]>>)
  <2>1. /\ prim[p] \in {"cas", "add"} /\ new[p] \in Commits
        /\ prim[p] = "cas" => old[p] \in Commits /\ parent[new[p]] = old[p]
    BY <1>0, <1>5 DEF BuildingAt, TypeOK, Commits
  <2>2. Value(k[1])' = new[p]
    BY <1>1, <2>1 DEF Value, IsRef
  <2>3. CASE k = <<real[p], new[p]>>
    BY <2>1, <2>2, <2>3, HistoryHasItself
  <2>4. CASE k \in kept
    <3>1. Value(real[p]) \in Commits /\ k[2] \in History(Value(real[p]))
      BY <2>4 DEF CommitsKept
    <3>2. prim[p] = "cas"
      BY <1>0, <2>1, <3>1 DEF AddingAt
    <3>3. Value(real[p]) = old[p]
      BY <1>0, <3>1, <3>2 DEF SwapLosesNoUpdate
    <3>4. History(old[p]) \subseteq History(new[p])
      BY <2>1, <3>2, HistoryOfParent DEF Commits
    <3> QED
      BY <2>1, <2>2, <3>1, <3>3, <3>4
  <2> QED
    BY <1>5, <2>3, <2>4
<1> QED
    BY <1>1, <1>4, <1>5 DEF Keeps

LEMMA CommitsKeptStep == ASSUME IInv, KInv, NEW p \in Procs, Step(p) PROVE CommitsKept'
<1> USE NamesAssumption, BoundAssumption
<1> TypeOK /\ Fresh /\ Emptied /\ KeptTyped /\ CommitsKept
    BY DEF IInv, KInv
<1>1. CASE Quiet(p)
  <2>1. UNCHANGED <<parent, kept>> /\ \A r \in Names : Unrobbed(r)' => Unrobbed(r) /\ Value(r)' = Value(r)
    BY <1>1, QuietSteps
  <2>2. \A c : History(c)' = History(c)
    BY <2>1 DEF History, ParentsIn
  <2> QED
    BY <2>1, <2>2 DEF CommitsKept, KeptTyped
<1>2. CASE DecideCommit(p)
  <2>1. UNCHANGED <<loose, packed, robbed, kept>>
    BY <1>2 DEF DecideCommit, disk
  <2>2. \A n \in Commits : parent'[n] = parent[n] \/ parent[n] = 0
    BY <1>2 DEF DecideCommit, CommitOn, Fresh, TypeOK, Commits
  <2>3. \A c \in Commits : History(c) \subseteq History(c)'
    BY <2>2, HistoryGrows
  <2>4. \A r : Value(r)' = Value(r) /\ Unrobbed(r)' = Unrobbed(r)
    BY <2>1 DEF Value, Unrobbed
  <2>5. ASSUME NEW k \in kept, Unrobbed(k[1])
        PROVE  Value(k[1])' \in Commits /\ k[2] \in History(Value(k[1]))'
    BY <2>3, <2>4, <2>5 DEF CommitsKept
  <2> QED
    BY <2>1, <2>4, <2>5 DEF CommitsKept
<1>3. CASE Rename(p)
    BY <1>3, RenameKeepsCommits
<1>4. CASE Unlink(p)
  <2>1. /\ loose' = [loose EXCEPT ![real[p]] = None]
        /\ kept' = {k \in kept : k[1] # real[p]} /\ UNCHANGED <<packed, parent, robbed>>
    BY <1>4 DEF Unlink
  <2>2. \A k \in kept' : k \in kept /\ Value(k[1])' = Value(k[1])
    BY <2>1 DEF Value, IsRef, TypeOK, KeptTyped
  <2>3. \A c : History(c)' = History(c)
    BY <2>1 DEF History, ParentsIn
  <2> QED
    BY <2>1, <2>2, <2>3 DEF CommitsKept, Unrobbed
<1>5. CASE RenamePacked(p)
  <2>1. UNCHANGED <<loose, robbed, parent, kept>>
    BY <1>5, RepackedValues
  <2>2. \A k \in kept : k[1] \in Names
    BY DEF KeptTyped
  <2>3. \A k \in kept : Unrobbed(k[1]) => k[1] # real[p]
    BY <1>5 DEF RenamePacked, Emptied, EmptiedAt, PackedHeld
  <2>4. \A k \in kept : Unrobbed(k[1]) => Value(k[1])' = Value(k[1])
    BY <1>5, <2>2, <2>3, RepackedValues
  <2>5. \A c : History(c)' = History(c)
    BY <2>1 DEF History, ParentsIn
  <2> QED
    BY <2>1, <2>4, <2>5 DEF CommitsKept, Unrobbed
<1> QED
    BY <1>1, <1>2, <1>3, <1>4, <1>5, OtherSteps

LEMMA KeptSteps == IInv /\ KInv /\ [Next]_vars => KInv'
<1> SUFFICES ASSUME IInv, KInv, [Next]_vars PROVE KInv'
    OBVIOUS
<1>1. ASSUME NEW p \in Procs, Step(p) PROVE KInv'
    BY <1>1, FreshStep, BuildingStep, AddingStep, EmptiedStep, KeptTypedStep, CommitsKeptStep DEF KInv
<1>2. CASE UNCHANGED vars
    BY <1>2 DEF KInv, Fresh, Building, BuildingAt, Adding, AddingAt, Emptied, EmptiedAt, KeptTyped,
                CommitsKept, Unrobbed, Value, IsRef, History, ParentsIn, vars, disk, local, bounds
<1> QED
    BY <1>1, <1>2 DEF Next

(* Commits, branches, stashes and pushes of any number of processes, some  *)
(* of them killed: a commit reported done is in the history of its ref     *)
(* until the ref is deleted or set to something else on purpose, unless a  *)
(* process has removed the lock of another on the ref or on packed-refs.   *)
THEOREM NoCommitIsLost == Spec => []CommitsKept
<1>1. KInv => CommitsKept
    BY DEF KInv
<1> QED
    BY <1>1, InitialKept, KeptSteps, Invariance, PTL DEF Spec

-----------------------------------------------------------------------------
(* PackStore: the types                                                    *)

\* Where a job is: about to write a pack, looking for an object, removing.
Placing == {"place?", "place!", "place"}
Naming == {"data", "index", "write", "unlock", "fail", "check", "name"} \cup Placing
Looking == {"look?", "look!", "look"}
Removing == {"remove", "drop", "dropindex"}

NoOrId == Nat \cup {None}
OpenFiles == [idx : NoOrId, data : NoOrId]

StoreDisk ==
    /\ looseObjects \in SUBSET Objects /\ safe \in SUBSET Objects
    /\ data \in [PackNames -> NoOrId] /\ idx \in [PackNames -> NoOrId]
    /\ idxLock \in [PackNames -> NoOrId]
    /\ clock \in Nat /\ mtime \in Nat /\ jobs \in Nat
    /\ contended \in SUBSET PackNames

StoreWhere ==
    step \in [Procs -> Labels] /\ todo \in [Procs -> SUBSET PackNames]
StoreKnown ==
    /\ packCache \in [Procs -> SUBSET PackNames] /\ bypath \in [Procs -> SUBSET PackNames]
    /\ opened \in [Procs -> [PackNames -> OpenFiles]] /\ stamp \in [Procs -> Nat]
StoreHistory ==
    disturbed \in [Procs -> SUBSET Objects] /\ blind \in [Procs -> SUBSET Objects]
StoreJob == job \in [Procs -> Jobs]

LEMMA StoreTypeParts == StoreTypeOK <=> StoreDisk /\ StoreWhere /\ StoreKnown /\ StoreHistory /\ StoreJob
    BY DEF StoreTypeOK, StoreDisk, StoreWhere, StoreKnown, StoreHistory, StoreJob, NoOrId, OpenFiles

\* The fields of a job.
LEMMA JobFields ==
    ASSUME NEW j \in Jobs
    PROVE  /\ \A x \in Nat : [j EXCEPT !.id = x] \in Jobs
           /\ \A x \in SUBSET Objects : [j EXCEPT !.pack = x] \in Jobs
           /\ \A x \in SUBSET Objects : [j EXCEPT !.objects = x] \in Jobs
           /\ \A x \in SUBSET PackNames : [j EXCEPT !.listed = x] \in Jobs
           /\ \A x \in Answers : [j EXCEPT !.answer = x] \in Jobs
           /\ \A x \in SUBSET Objects, y \in SUBSET PackNames : [j EXCEPT !.pack = x, !.old = y] \in Jobs
    BY DEF Jobs

LEMMA StoreWhereStep ==
    ASSUME StoreTypeOK, [StoreNext]_storeVars
    PROVE  StoreWhere'
<1> USE DEF storeDisk, packDir, known, history, Proceed, Over, Through
<1>0. /\ step \in [Procs -> Labels] /\ todo \in [Procs -> SUBSET PackNames]
      /\ job \in [Procs -> Jobs]
      /\ packCache \in [Procs -> SUBSET PackNames] /\ bypath \in [Procs -> SUBSET PackNames]
    BY DEF StoreTypeOK
<1>1. CASE UNCHANGED storeVars
    BY <1>0, <1>1 DEF storeVars, StoreWhere
<1>2. CASE Tick
    BY <1>0, <1>2 DEF Tick, StoreWhere
<1>3. ASSUME NEW p \in Procs, UseCache(p) PROVE StoreWhere'
    BY <1>0, <1>3 DEF UseCache, Then, Cached, StoreWhere, Labels
<1>4. ASSUME NEW p \in Procs, List(p) PROVE StoreWhere'
    BY <1>0, <1>4 DEF List, StoreWhere, Labels
<1>5. ASSUME NEW p \in Procs, Stamp(p) PROVE StoreWhere'
    <2>1. job[p].listed \in SUBSET PackNames
        BY <1>0 DEF Jobs
    <2> QED
    BY <1>0, <1>5, <2>1 DEF Stamp, Then, StoreWhere, Labels
<1>6. ASSUME NEW p \in Procs, Lookup(p) \/ AddPack(p) \/ AddThinPack(p) \/ Pack(p, "loose") \/ Pack(p, "repack") PROVE StoreWhere'
    BY <1>0, <1>6 DEF Lookup, AddPack, AddThinPack, Pack, Begin, StoreWhere, Labels
<1>7. ASSUME NEW p \in Procs, LookPack(p) PROVE StoreWhere'
    BY <1>0, <1>7 DEF LookPack, Answer, StoreWhere, Labels
<1>8. ASSUME NEW p \in Procs, LookLoose(p) \/ AddObject(p) PROVE StoreWhere'
    BY <1>0, <1>8 DEF LookLoose, AddObject, Answer, StoreWhere, Labels
<1>9. ASSUME NEW p \in Procs,
             LockIndex(p) \/ WriteIndex(p) \/ UnlockIndex(p) \/ PlaceData(p) \/ ThinData(p) \/ CheckThin(p)
      PROVE  StoreWhere'
    <2>1. CASE LockIndex(p) \/ WriteIndex(p) \/ UnlockIndex(p)
        BY <1>0, <2>1 DEF LockIndex, WriteIndex, UnlockIndex, StoreWhere, Labels
    <2>2. CASE PlaceData(p) \/ ThinData(p) \/ CheckThin(p)
        BY <1>0, <2>2 DEF PlaceData, ThinData, CheckThin, AfterPack, StoreWhere, Labels
    <2> QED
        BY <1>9, <2>1, <2>2
<1>10. ASSUME NEW p \in Procs, ListLoose(p) \/ Flush(p) \/ NamePack(p) PROVE StoreWhere'
    BY <1>0, <1>10 DEF ListLoose, Flush, BeginPack, NamePack, StoreWhere, Labels
<1>11. ASSUME NEW p \in Procs, ReadPack(p) PROVE StoreWhere'
    BY <1>0, <1>11 DEF ReadPack, StoreWhere, Labels
<1>12. ASSUME NEW p \in Procs, ReadLoose(p) PROVE StoreWhere'
    BY <1>0, <1>12 DEF ReadLoose, BeginPack, StoreWhere, Labels
<1>13. ASSUME NEW p \in Procs, RemoveLoose(p) \/ LooseRemoved(p) PROVE StoreWhere'
    <2>1. OldPacks(p) \in SUBSET PackNames
        BY <1>0 DEF Jobs, OldPacks
    <2> QED
        BY <1>0, <1>13, <2>1 DEF RemoveLoose, LooseRemoved, StoreWhere, Labels
<1>14. ASSUME NEW p \in Procs,
              RemoveData(p) \/ RemoveIndex(p) \/ PacksRemoved(p) \/ Killed(p)
       PROVE  StoreWhere'
    BY <1>0, <1>14 DEF RemoveData, RemoveIndex, PacksRemoved, Killed, StoreWhere, Labels
<1> QED
    BY <1>1, <1>2, <1>3, <1>4, <1>5, <1>6, <1>7, <1>8, <1>9, <1>10, <1>11, <1>12, <1>13, <1>14 DEF StoreNext, Work

LEMMA StoreJobStep ==
    ASSUME StoreTypeOK, [StoreNext]_storeVars
    PROVE  StoreJob'
<1> USE DEF storeDisk, packDir, known, history
<1>0. /\ todo \in [Procs -> SUBSET PackNames] /\ job \in [Procs -> Jobs]
      /\ looseObjects \in SUBSET Objects /\ jobs \in Nat
      /\ \A p \in Procs : job[p] \in Jobs /\ job[p].pack \in SUBSET Objects
            /\ job[p].objects \in SUBSET Objects /\ job[p].old \in SUBSET PackNames
    BY DEF StoreTypeOK, Jobs
<1>1. UNCHANGED job => StoreJob'
    BY <1>0 DEF StoreJob
<1>2. ASSUME NEW p \in Procs, NEW j \in Jobs, job' = [job EXCEPT ![p] = j] PROVE StoreJob'
    BY <1>0, <1>2 DEF StoreJob
<1>3. ASSUME NEW p \in Procs, NEW what, NEW where, Begin(p, what, where), what \in Jobs PROVE StoreJob'
    <2>1. jobs + 1 \in Nat
        BY <1>0
    <2>2. [what EXCEPT !.id = jobs + 1] \in Jobs
        BY <1>3, <2>1, JobFields
    <2> QED
        BY <1>3, <2>2, <1>2 DEF Begin
<1>4. NoJob \in Jobs
    BY DEF NoJob, Jobs
<1>5. ASSUME NEW p \in Procs, Lookup(p) PROVE StoreJob'
    <2>1. PICK x \in Objects :
            Begin(p, [NoJob EXCEPT !.kind = "lookup", !.object = x, !.there = x \in Stored], "look?")
        BY <1>5 DEF Lookup
    <2>2. (x \in Stored) \in BOOLEAN
        OBVIOUS
    <2>3. [NoJob EXCEPT !.kind = "lookup", !.object = x, !.there = x \in Stored] \in Jobs
        BY <2>2 DEF NoJob, Jobs
    <2> QED
        BY <2>1, <2>3, <1>3
<1>6. ASSUME NEW p \in Procs, AddPack(p) PROVE StoreJob'
    <2>1. PICK S \in PackAdds : Begin(p, [NoJob EXCEPT !.kind = "pack", !.pack = S], "index")
        BY <1>6 DEF AddPack
    <2>2. S \in SUBSET Objects
        BY PackStoreAssumption DEF PackNames
    <2>3. [NoJob EXCEPT !.kind = "pack", !.pack = S] \in Jobs
        BY <2>2 DEF NoJob, Jobs
    <2> QED
        BY <2>1, <2>3, <1>3
<1>7. ASSUME NEW p \in Procs, AddThinPack(p) PROVE StoreJob'
    <2>1. PICK S \in PackNames : Begin(p, [NoJob EXCEPT !.kind = "thin", !.pack = S], "data")
        BY <1>7 DEF AddThinPack
    <2>2. [NoJob EXCEPT !.kind = "thin", !.pack = S] \in Jobs
        BY DEF NoJob, Jobs, PackNames
    <2> QED
        BY <2>1, <2>2, <1>3
<1>8. ASSUME NEW p \in Procs, NEW kind \in {"loose", "repack"}, Pack(p, kind) PROVE StoreJob'
    <2>1. [NoJob EXCEPT !.kind = kind] \in Jobs
        BY DEF NoJob, Jobs
    <2> QED
        BY <1>8, <2>1, <1>3 DEF Pack
<1>9. ASSUME NEW p \in Procs, List(p) PROVE StoreJob'
    <2>1. [job[p] EXCEPT !.listed = Pairs] \in Jobs
        BY <1>0, JobFields DEF Pairs
    <2> QED
        BY <1>9, <2>1, <1>2 DEF List
<1>10. ASSUME NEW p \in Procs, NEW a \in Answers, Answer(p, a)
       PROVE StoreJob'
    <2>1. [job[p] EXCEPT !.answer = a] \in Jobs
        BY <1>0, JobFields
    <2> QED
        BY <1>10, <2>1, <1>2 DEF Answer
<1>11. ASSUME NEW p \in Procs, LookPack(p) \/ LookLoose(p) PROVE StoreJob'
    <2>1. \/ UNCHANGED job
          \/ \E a \in Answers : Answer(p, a)
        BY <1>11 DEF LookPack, LookLoose, Answers
    <2> QED
        BY <1>1, <1>10, <2>1
<1>12. ASSUME NEW p \in Procs, ListLoose(p) PROVE StoreJob'
    <2>1. [job[p] EXCEPT !.objects = looseObjects] \in Jobs
        BY <1>0, JobFields
    <2> QED
        BY <1>12, <2>1, <1>2 DEF ListLoose
<1>13. ASSUME NEW p \in Procs, ReadLoose(p) PROVE StoreJob'
    <2>1. [job[p] EXCEPT !.pack = @ \cup job[p].objects] \in Jobs
        BY <1>0, JobFields
    <2> QED
        BY <1>13, <2>1, <1>2 DEF ReadLoose
<1>14. ASSUME NEW p \in Procs, ReadPack(p) PROVE StoreJob'
    <2>1. ASSUME NEW S \in todo[p] PROVE [job[p] EXCEPT !.pack = @ \cup S, !.old = @ \cup {S}] \in Jobs
        <3>1. S \in PackNames /\ job[p].pack \cup S \in SUBSET Objects
            BY <1>0 DEF PackNames
        <3> QED
            BY <1>0, <3>1, JobFields
    <2>2. ASSUME NEW S \in todo[p], job' = [job EXCEPT ![p].pack = @ \cup S, ![p].old = @ \cup {S}] PROVE StoreJob'
        <3>1. job' = [job EXCEPT ![p] = [job[p] EXCEPT !.pack = @ \cup S, !.old = @ \cup {S}]]
            BY <1>0, <2>2
        <3> QED
            BY <3>1, <2>1, <1>2
    <2> QED
        BY <1>14, <2>2, <1>1 DEF ReadPack
<1>15. ASSUME NEW p \in Procs, RemoveLoose(p) PROVE StoreJob'
    <2>1. ASSUME NEW x PROVE [job[p] EXCEPT !.objects = @ \ {x}] \in Jobs
        BY <1>0, JobFields
    <2> QED
        BY <1>15, <2>1, <1>1, <1>2 DEF RemoveLoose
<1>16. ASSUME NEW p \in Procs, RemoveData(p) PROVE StoreJob'
    <2>1. ASSUME NEW S \in todo[p] PROVE [job[p] EXCEPT !.objects = S] \in Jobs
        BY <1>0, JobFields DEF PackNames
    <2> QED
        BY <1>16, <2>1, <1>1, <1>2 DEF RemoveData
<1>17. ASSUME NEW p \in Procs,
              \/ UseCache(p) \/ Stamp(p) \/ AddObject(p)
              \/ LockIndex(p) \/ WriteIndex(p) \/ UnlockIndex(p)
              \/ PlaceData(p) \/ ThinData(p) \/ CheckThin(p) \/ Flush(p) \/ NamePack(p)
              \/ LooseRemoved(p) \/ RemoveIndex(p) \/ PacksRemoved(p) \/ Killed(p)
       PROVE  UNCHANGED job
    BY <1>17 DEF UseCache, Stamp, AddObject, LockIndex, WriteIndex, UnlockIndex,
        PlaceData, ThinData, CheckThin, Flush, NamePack, LooseRemoved, RemoveIndex, PacksRemoved, Killed
<1>18. CASE Tick \/ UNCHANGED storeVars
    BY <1>1, <1>18 DEF Tick, storeVars
<1> QED
    BY <1>1, <1>5, <1>6, <1>7, <1>8, <1>9, <1>11, <1>12, <1>13, <1>14, <1>15, <1>16, <1>17, <1>18
        DEF StoreNext, Work

\* What a step leaves alone: what the other processes are doing and what they know.
LEMMA OthersStay ==
    ASSUME StoreTypeOK, NEW p \in Procs, Work(p) \/ Killed(p), NEW q \in Procs, q # p
    PROVE  /\ step'[q] = step[q] /\ job'[q] = job[q] /\ todo'[q] = todo[q]
           /\ packCache'[q] = packCache[q] /\ bypath'[q] = bypath[q] /\ stamp'[q] = stamp[q] /\ blind'[q] = blind[q]
<1> USE DEF storeDisk, packDir, known, history, Proceed, Over, Through, Then
<1>0. /\ step \in [Procs -> Labels] /\ todo \in [Procs -> SUBSET PackNames]
      /\ job \in [Procs -> Jobs]
      /\ packCache \in [Procs -> SUBSET PackNames] /\ bypath \in [Procs -> SUBSET PackNames]
      /\ stamp \in [Procs -> Nat] /\ blind \in [Procs -> SUBSET Objects]
    BY DEF StoreTypeOK
<1>1. CASE UseCache(p) \/ List(p) \/ Stamp(p)
    BY <1>0, <1>1 DEF UseCache, List, Stamp
<1>2. CASE \/ Lookup(p) \/ AddPack(p) \/ AddThinPack(p)
           \/ Pack(p, "loose") \/ Pack(p, "repack")
    BY <1>0, <1>2 DEF Lookup, AddPack, AddThinPack, Pack, Begin
<1>3. CASE LookPack(p)
    BY <1>0, <1>3 DEF LookPack, Answer
<1>4. CASE LookLoose(p) \/ AddObject(p)
    BY <1>0, <1>4 DEF LookLoose, Answer, AddObject
<1>5. CASE LockIndex(p) \/ WriteIndex(p) \/ UnlockIndex(p)
    BY <1>0, <1>5 DEF LockIndex, WriteIndex, UnlockIndex
<1>10. CASE PlaceData(p) \/ ThinData(p) \/ CheckThin(p)
    BY <1>0, <1>10 DEF PlaceData, Know, AfterPack, ThinData, CheckThin
<1>6. CASE ListLoose(p) \/ ReadLoose(p) \/ Flush(p) \/ NamePack(p)
    BY <1>0, <1>6 DEF ListLoose, ReadLoose, BeginPack, Flush, NamePack
<1>7. CASE ReadPack(p)
    BY <1>0, <1>7 DEF ReadPack
<1>8. CASE RemoveLoose(p) \/ LooseRemoved(p)
    BY <1>0, <1>8 DEF RemoveLoose, LooseRemoved
<1>9. CASE RemoveData(p) \/ RemoveIndex(p) \/ PacksRemoved(p) \/ Killed(p)
    BY <1>0, <1>9 DEF RemoveData, RemoveIndex, PacksRemoved, Killed
<1> QED
    BY <1>1, <1>2, <1>3, <1>4, <1>5, <1>6, <1>7, <1>8, <1>9, <1>10 DEF Work

-----------------------------------------------------------------------------
(* PackStore: where a job is                                               *)

WhereAt(p) ==
    /\ step[p] \in Looking <=> job[p].kind = "lookup" /\ step[p] # "idle"
    /\ step[p] \in Naming \cup Removing => job[p].pack \in PackNames
    /\ step[p] \in {"loose", "get", "read?", "read!", "read", "name"} \cup Removing => job[p].kind \in {"loose", "repack"}
    /\ step[p] \in Placing => job[p].kind \in {"pack", "loose", "repack"}
    /\ step[p] \in {"index", "write", "unlock", "fail"} => job[p].kind \in {"pack", "thin", "loose", "repack"}
    /\ step[p] \in {"data", "check"} => job[p].kind = "thin"

Where == \A p \in Procs : WhereAt(p)

LEMMA WhereStep ==
    ASSUME StoreTypeOK, Where, [StoreNext]_storeVars
    PROVE  Where'
<1> USE DEF storeDisk, packDir, known, history, Proceed, Over, Through
<1>1. CASE UNCHANGED storeVars \/ Tick
    BY <1>1 DEF storeVars, Tick, Where, WhereAt
<1>2. ASSUME NEW p \in Procs, Work(p) \/ Killed(p), WhereAt(p)' PROVE Where'
    <2>1. ASSUME NEW q \in Procs, q # p PROVE WhereAt(q)'
        BY <1>2, <2>1, OthersStay DEF Where, WhereAt
    <2> QED
        BY <1>2, <2>1 DEF Where
<1>3. SUFFICES ASSUME NEW p \in Procs, Work(p) \/ Killed(p) PROVE WhereAt(p)'
    BY <1>1, <1>2, <1>3 DEF StoreNext
<1> USE DEF WhereAt, Placing, Naming, Looking, Removing
<1>4. /\ step \in [Procs -> Labels] /\ job \in [Procs -> Jobs] /\ WhereAt(p)
      /\ job[p] \in Jobs /\ todo[p] \in SUBSET PackNames
    BY DEF StoreTypeOK, Where
<1>5. CASE UseCache(p) \/ Stamp(p)
    <2>1. UNCHANGED job
        BY <1>5 DEF UseCache, Stamp
    <2>2. \/ step[p] \in {"look?", "look!"} /\ step'[p] = "look"
          \/ step[p] \in {"read?", "read!"} /\ step'[p] = "read"
          \/ step[p] \in {"place?", "place!"} /\ step'[p] = "place"
          \/ step'[p] = "idle"
        BY <1>4, <1>5 DEF UseCache, Stamp, Then
    <2> QED
        BY <1>4, <2>1, <2>2
<1>18. CASE List(p)
    <2>1. job'[p].kind = job[p].kind /\ job'[p].pack = job[p].pack
        BY <1>4, <1>18 DEF List, Jobs
    <2>2. \/ step[p] = "look?" /\ step'[p] = "look!"
          \/ step[p] = "read?" /\ step'[p] = "read!"
          \/ step[p] = "place?" /\ step'[p] = "place!"
          \/ step[p] = "update" /\ step'[p] = "update!"
        BY <1>4, <1>18 DEF List
    <2> QED
        BY <1>4, <2>1, <2>2
<1>6. CASE Lookup(p)
    BY <1>4, <1>6 DEF Lookup, Begin, NoJob
<1>7. CASE AddPack(p)
    <2>1. PICK S \in PackAdds : Begin(p, [NoJob EXCEPT !.kind = "pack", !.pack = S], "index")
        BY <1>7 DEF AddPack
    <2>2. S \in PackNames
        BY PackStoreAssumption
    <2> QED
        BY <1>4, <2>1, <2>2 DEF Begin, NoJob
<1>19. CASE AddThinPack(p)
    <2>1. PICK S \in PackNames : Begin(p, [NoJob EXCEPT !.kind = "thin", !.pack = S], "data")
        BY <1>19 DEF AddThinPack
    <2> QED
        BY <1>4, <2>1 DEF Begin, NoJob
<1>20. CASE Pack(p, "loose") \/ Pack(p, "repack")
    BY <1>4, <1>20 DEF Pack, Begin, NoJob
<1>8. CASE LookPack(p) \/ LookLoose(p)
    BY <1>4, <1>8 DEF LookPack, LookLoose, Answer
<1>9. CASE AddObject(p)
    BY <1>4, <1>9 DEF AddObject
<1>10. CASE LockIndex(p) \/ WriteIndex(p) \/ UnlockIndex(p)
    BY <1>4, <1>10 DEF LockIndex, WriteIndex, UnlockIndex, Thin
<1>17. CASE PlaceData(p) \/ ThinData(p) \/ CheckThin(p)
    BY <1>4, <1>17 DEF PlaceData, AfterPack, ThinData, CheckThin
<1>21. CASE NamePack(p)
    BY <1>4, <1>21 DEF NamePack
<1>11. CASE ListLoose(p)
    BY <1>4, <1>11 DEF ListLoose
<1>12. CASE ReadLoose(p)
    <2>1. job'[p].kind = job[p].kind /\ job'[p].pack = job[p].pack \cup job[p].objects
        BY <1>4, <1>12 DEF ReadLoose, Jobs
    <2>2. job[p].pack \in SUBSET Objects /\ job[p].objects \in SUBSET Objects
        BY <1>4 DEF Jobs
    <2>3. \/ step'[p] \in {"idle", "read?"}
          \/ step'[p] = "index" /\ job[p].objects # {}
        BY <1>4, <1>12 DEF ReadLoose, BeginPack
    <2>4. job[p].kind \in {"loose", "repack"}
        BY <1>4, <1>12 DEF ReadLoose
    <2> QED
        BY <1>4, <2>1, <2>2, <2>3, <2>4 DEF PackNames
<1>13. CASE ReadPack(p)
    <2>1. step'[p] \in {"idle", "read"} /\ job'[p].kind = job[p].kind
        BY <1>4, <1>13 DEF ReadPack, Jobs
    <2> QED
        BY <1>4, <1>13, <2>1 DEF ReadPack
<1>14. CASE Flush(p)
    <2>1. job[p].pack \in SUBSET Objects
        BY <1>4 DEF Jobs
    <2> QED
        BY <1>4, <1>14, <2>1 DEF Flush, BeginPack, PackNames
<1>15. CASE \/ RemoveLoose(p) \/ LooseRemoved(p)
            \/ RemoveData(p) \/ RemoveIndex(p) \/ PacksRemoved(p)
    <2>1. job'[p].kind = job[p].kind /\ job'[p].pack = job[p].pack
        <3>1. \/ UNCHANGED job
              \/ \E objs : job' = [job EXCEPT ![p].objects = objs]
            BY <1>15 DEF RemoveLoose, LooseRemoved, RemoveData, RemoveIndex, PacksRemoved
        <3> QED
            BY <1>4, <3>1 DEF Jobs
    <2>2. step[p] \in Removing /\ step'[p] \in Removing \cup {"idle", "update"}
        BY <1>4, <1>15
            DEF RemoveLoose, LooseRemoved, RemoveData, RemoveIndex, PacksRemoved
    <2> QED
        BY <1>4, <2>1, <2>2
<1>16. CASE Killed(p)
    BY <1>4, <1>16 DEF Killed
<1> QED
    BY <1>3, <1>5, <1>6, <1>7, <1>8, <1>9, <1>10, <1>11, <1>12, <1>13, <1>14, <1>15, <1>16, <1>17, <1>18, <1>19, <1>20, <1>21 DEF Work

-----------------------------------------------------------------------------
(* PackStore: the files of a pack                                          *)

\* The steps that touch no pack on disk, but maybe the directory.
Aside(p) ==
    \/ UseCache(p) \/ List(p) \/ Stamp(p)
    \/ Lookup(p) \/ LookPack(p) \/ LookLoose(p)
    \/ AddObject(p) \/ AddPack(p) \/ AddThinPack(p)
    \/ UnlockIndex(p) \/ CheckThin(p)
    \/ Pack(p, "loose") \/ Pack(p, "repack")
    \/ ListLoose(p) \/ ReadLoose(p) \/ ReadPack(p) \/ Flush(p) \/ NamePack(p)
    \/ RemoveLoose(p) \/ LooseRemoved(p) \/ PacksRemoved(p)

\* Who has written one of the two files of its pack, and not the other: the data
\* first if the pack is thin.
Halfway(p) ==
    IF Thin(p) THEN step[p] \in {"index", "write"} ELSE step[p] \in {"unlock"} \cup Placing

LEMMA HalfwayIsBetween == \A p, S : Between(p, S) <=> job[p].pack = S /\ Halfway(p)
    BY DEF Between, Halfway, Placing

LEMMA AsideStep ==
    ASSUME StoreTypeOK, Where, NEW p \in Procs, Aside(p)
    PROVE  /\ UNCHANGED <<data, idx, clock, contended>> /\ mtime' \in {mtime, clock}
           /\ Halfway(p)' <=> Halfway(p)
           /\ Halfway(p) => /\ job'[p].pack = job[p].pack /\ job'[p].id = job[p].id
                            /\ Thin(p)' <=> Thin(p)
<1> USE DEF storeDisk, packDir, known, history, Proceed, Over, Through, Placing, Halfway, Thin
<1>1. /\ step \in [Procs -> Labels] /\ job \in [Procs -> Jobs] /\ WhereAt(p)
      /\ job[p] \in Jobs
    BY DEF StoreTypeOK, Where
<1>2. CASE UseCache(p) \/ Stamp(p)
    <2>1. UNCHANGED <<job, data, idx, mtime, clock, contended>>
        BY <1>2 DEF UseCache, Stamp
    <2>2. \/ step[p] \in {"look?", "look!"} /\ step'[p] = "look"
          \/ step[p] \in {"read?", "read!"} /\ step'[p] = "read"
          \/ step[p] \in {"place?", "place!"} /\ step'[p] = "place"
          \/ step[p] = "update!" /\ step'[p] = "idle"
        BY <1>1, <1>2 DEF UseCache, Stamp, Then
    <2> QED
        BY <2>1, <2>2
<1>3. CASE List(p)
    <2>1. job'[p].id = job[p].id /\ job'[p].pack = job[p].pack /\ job'[p].kind = job[p].kind
        BY <1>1, <1>3 DEF List, Jobs
    <2>2. \/ step[p] = "look?" /\ step'[p] = "look!"
          \/ step[p] = "read?" /\ step'[p] = "read!"
          \/ step[p] = "place?" /\ step'[p] = "place!"
          \/ step[p] = "update" /\ step'[p] = "update!"
        BY <1>1, <1>3 DEF List
    <2> QED
        BY <1>3, <2>1, <2>2 DEF List
<1>4. CASE \/ Lookup(p) \/ AddPack(p) \/ AddThinPack(p)
           \/ Pack(p, "loose") \/ Pack(p, "repack")
    <2>1. /\ UNCHANGED <<data, idx, clock, contended>> /\ mtime' \in {mtime, clock} /\ step[p] = "idle"
          /\ \/ step'[p] \in {"look?", "data", "loose"}
             \/ step'[p] = "index" /\ job'[p].kind = "pack"
        BY <1>1, <1>4 DEF Lookup, AddPack, AddThinPack, Pack, Begin, NoJob
    <2> QED
        BY <2>1
<1>5. CASE LookPack(p) \/ LookLoose(p)
    <2>1. step[p] = "look" /\ step'[p] \in {"look", "idle"}
        BY <1>1, <1>5 DEF LookPack, LookLoose, Answer
    <2>2. UNCHANGED <<data, idx, mtime, clock, contended>>
        BY <1>5 DEF LookPack, LookLoose
    <2> QED
        BY <2>1, <2>2
<1>6. CASE AddObject(p)
    BY <1>6 DEF AddObject
<1>7. CASE ListLoose(p) \/ ReadLoose(p) \/ Flush(p)
    <2>1. job'[p].kind = job[p].kind /\ job[p].kind # "thin"
        BY <1>1, <1>7 DEF ListLoose, ReadLoose, Flush, Jobs, WhereAt
    <2>2. step[p] \in {"loose", "get", "read"} /\ step'[p] \in {"get", "idle", "read?", "index"}
        BY <1>1, <1>7 DEF ListLoose, ReadLoose, Flush, BeginPack
    <2>3. UNCHANGED <<data, idx, clock, contended>> /\ mtime' \in {mtime, clock}
        BY <1>7 DEF ListLoose, ReadLoose, Flush, BeginPack
    <2> QED
        BY <2>1, <2>2, <2>3
<1>8. CASE ReadPack(p)
    <2>1. step[p] = "read" /\ step'[p] \in {"read", "idle"}
        BY <1>1, <1>8 DEF ReadPack
    <2> QED
        BY <1>8, <2>1 DEF ReadPack
<1>9. CASE RemoveLoose(p) \/ LooseRemoved(p) \/ PacksRemoved(p)
    <2>1. step[p] \in {"remove", "drop"} /\ step'[p] \in {"remove", "drop", "update", "idle"}
        BY <1>1, <1>9 DEF RemoveLoose, LooseRemoved, PacksRemoved
    <2> QED
        BY <1>9, <2>1 DEF RemoveLoose, LooseRemoved, PacksRemoved
<1>10. CASE UnlockIndex(p)
    BY <1>1, <1>10 DEF UnlockIndex
<1>11. CASE CheckThin(p) \/ NamePack(p)
    BY <1>1, <1>11 DEF CheckThin, NamePack
<1> QED
    BY <1>2, <1>3, <1>4, <1>5, <1>6, <1>7, <1>8, <1>9, <1>10, <1>11 DEF Aside

\* Two processes between the files of one pack contend for it; who is alone there
\* finds its own file, or none.
OneWriter ==
    \A p, q \in Procs, S \in PackNames :
       S \notin contended /\ Between(p, S) /\ Between(q, S) => p = q

OwnFile ==
    \A p \in Procs : job[p].pack \notin contended /\ Halfway(p) =>
       (IF Thin(p) THEN data ELSE idx)[job[p].pack] \in {job[p].id, None}

Timed ==
    /\ mtime <= clock
    /\ \A p \in Procs :
         /\ stamp[p] <= clock
         /\ step[p] \in {"unlock", "place?"} => stamp[p] <= mtime
         /\ step[p] = "place" => bypath[p] = {}

Writing == OneWriter /\ OwnFile

LEMMA WritingStep ==
    ASSUME StoreTypeOK, Where, Timed, Writing, FilesMatch, [StoreNext]_storeVars
    PROVE  Writing' /\ FilesMatch'
<1> USE DEF Proceed, Over, Writing
<1>1. CASE UNCHANGED storeVars \/ Tick
    BY <1>1 DEF storeVars, storeDisk, packDir, history, Tick, OneWriter, OwnFile, FilesMatch, Pairs,
        Between, Halfway, Thin
<1>2. SUFFICES ASSUME NEW p \in Procs, Work(p) \/ Killed(p) PROVE Writing' /\ FilesMatch'
    BY <1>1, <1>2 DEF StoreNext
<1>3. \A q \in Procs : q # p => step'[q] = step[q] /\ job'[q] = job[q]
    BY <1>2, OthersStay
<1>4. /\ step \in [Procs -> Labels] /\ job \in [Procs -> Jobs]
      /\ data \in [PackNames -> NoOrId] /\ idx \in [PackNames -> NoOrId] /\ idxLock \in [PackNames -> NoOrId]
      /\ contended \in SUBSET PackNames /\ job[p].id \in Nat /\ None \notin Nat
    BY PackStoreAssumption DEF StoreTypeOK, Jobs, NoOrId
<1>5. \A q \in Procs : Halfway(q) => job[q].pack \in PackNames
    BY DEF Where, WhereAt, Naming, Placing, Halfway
<1>6. \A q \in Procs : q # p => (Halfway(q)' <=> Halfway(q)) /\ (Thin(q)' <=> Thin(q))
    BY <1>3 DEF Halfway, Thin
<1>7. \A q, T : Between(q, T)' <=> job'[q].pack = T /\ Halfway(q)'
    BY DEF Between, Halfway, Placing
\* Where nothing is written, and nobody comes between the files.
<1>8. ASSUME UNCHANGED <<data, idx>>, contended \subseteq contended',
             /\ Halfway(p)' => /\ Halfway(p) /\ (Thin(p)' <=> Thin(p))
                               /\ job'[p].pack = job[p].pack /\ job'[p].id = job[p].id
             /\ Halfway(p) => Halfway(p)' \/ job[p].pack \in contended'
      PROVE  Writing' /\ FilesMatch'
    <2>1. \A q \in Procs : \A T : Between(q, T)' => Between(q, T)
        BY <1>3, <1>6, <1>7, <1>8, HalfwayIsBetween
    <2>2. \A q \in Procs : \A T : Between(q, T) => Between(q, T)' \/ T \in contended'
        BY <1>3, <1>6, <1>7, <1>8, HalfwayIsBetween
    <2>3. OneWriter'
        BY <1>8, <2>1 DEF OneWriter
    <2>4. OwnFile'
        BY <1>3, <1>6, <1>8 DEF OwnFile
    <2>5. FilesMatch'
        BY <1>8, <2>2 DEF FilesMatch, Pairs
    <2> QED
        BY <2>3, <2>4, <2>5
<1> DEFINE S == job[p].pack
\* One of the two files is written.
<1>9. ASSUME S \in PackNames, NEW n \in Nat, UNCHANGED job,
             \/ data' = [data EXCEPT ![S] = n] /\ idx' = idx
             \/ idx' = [idx EXCEPT ![S] = n] /\ data' = data,
             contended \subseteq contended',
             \A q \in Procs : q # p /\ Between(q, S) => S \in contended',
             S \notin contended' => \/ Halfway(p)' /\ n = job[p].id
                                       /\ (IF Thin(p) THEN data'[S] ELSE idx'[S]) = n
                                    \/ ~Halfway(p)' /\ (data'[S] # None /\ idx'[S] # None => data'[S] = idx'[S])
      PROVE  Writing' /\ FilesMatch'
    <2>1. \A q \in Procs : \A T : q # p => (Between(q, T)' <=> Between(q, T))
        BY <1>3, <1>6, <1>7, HalfwayIsBetween
    <2>2. \A T : Between(p, T) \/ Between(p, T)' => T = S
        BY <1>7, <1>9, HalfwayIsBetween
    <2>3. OneWriter'
        BY <1>9, <2>1, <2>2 DEF OneWriter
    <2>4. OwnFile'
        <3> SUFFICES ASSUME NEW q \in Procs, job[q].pack \notin contended', Halfway(q)'
                     PROVE  (IF Thin(q)' THEN data' ELSE idx')[job[q].pack] \in {job[q].id, None}
            BY <1>9 DEF OwnFile
        <3>1. CASE q = p
            <4>1. Thin(p)' <=> Thin(p)
                BY <1>9 DEF Thin
            <4>2. n = job[p].id /\ (IF Thin(p) THEN data'[S] ELSE idx'[S]) = n
                BY <1>9, <3>1
            <4> QED
                BY <1>4, <1>9, <3>1, <4>1, <4>2
        <3>2. CASE q # p
            <4>1. Halfway(q) /\ Between(q, job[q].pack) /\ job[q].pack \notin contended
                BY <1>6, <1>9, <3>2, HalfwayIsBetween
            <4>2. job[q].pack # S /\ job[q].pack \in PackNames
                BY <1>5, <1>9, <3>2, <4>1
            <4>3. (IF Thin(q) THEN data ELSE idx)[job[q].pack] \in {job[q].id, None}
                BY <4>1 DEF OwnFile
            <4>4. data'[job[q].pack] = data[job[q].pack] /\ idx'[job[q].pack] = idx[job[q].pack]
                BY <1>4, <1>9, <4>2
            <4> QED
                BY <1>6, <3>2, <4>3, <4>4
        <3> QED
            BY <3>1, <3>2
    <2>5. FilesMatch'
        <3> SUFFICES ASSUME NEW T \in PackNames, data'[T] # None, idx'[T] # None, T \notin contended'
                     PROVE  data'[T] = idx'[T] \/ \E q \in Procs : Between(q, T)'
            BY DEF FilesMatch, Pairs
        <3>1. CASE T = S
            BY <1>7, <1>9, <3>1
        <3>2. CASE T # S
            <4>1. T \in Pairs /\ data'[T] = data[T] /\ idx'[T] = idx[T] /\ T \notin contended
                BY <1>4, <1>9, <3>2 DEF Pairs
            <4>2. data[T] = idx[T] \/ \E q \in Procs : Between(q, T)
                BY <4>1 DEF FilesMatch
            <4> QED
                BY <2>1, <2>2, <3>2, <4>1, <4>2
        <3> QED
            BY <3>1, <3>2
    <2> QED
        BY <2>3, <2>4, <2>5
<1>10. CASE Aside(p)
    <2>1. UNCHANGED <<data, idx, contended>>
        BY <1>10, AsideStep
    <2>2. (Halfway(p)' <=> Halfway(p))
        BY <1>10, AsideStep
    <2>3. Halfway(p) => job'[p].pack = job[p].pack /\ job'[p].id = job[p].id /\ (Thin(p)' <=> Thin(p))
        BY <1>10, AsideStep
    <2> QED
        BY <1>8, <2>1, <2>2, <2>3
<1>11. CASE LockIndex(p)
    <2>1. /\ S \in PackNames /\ step[p] = "index" /\ UNCHANGED <<data, idx, job>> /\ contended \subseteq contended'
          /\ \/ step'[p] = "write"
             \/ step'[p] = "idle" /\ (Thin(p) => S \in contended')
        BY <1>4, <1>11 DEF LockIndex, Where, WhereAt, Naming, Contend
    <2> QED
        BY <1>8, <2>1 DEF Halfway, Placing, Thin
<1>12. CASE WriteIndex(p)
    <2>1. /\ S \in PackNames /\ step[p] = "write" /\ UNCHANGED <<data, job>>
        BY <1>12 DEF WriteIndex, Where, WhereAt, Naming
    <2>2. CASE idxLock[S] = None
        <3>1. step'[p] = "fail" /\ UNCHANGED idx /\ contended \subseteq contended' /\ (Thin(p) => S \in contended')
            BY <1>4, <1>12, <2>2 DEF WriteIndex, Contend
        <3> QED
            BY <1>8, <2>1, <3>1 DEF Halfway, Placing, Thin
    <2>3. CASE idxLock[S] # None
        <3>1. /\ step'[p] = "unlock" /\ idx' = [idx EXCEPT ![S] = idxLock[S]] /\ contended \subseteq contended'
              /\ idxLock[S] # job[p].id \/ (\E q \in Procs \ {p} : Between(q, S)) => S \in contended'
            BY <1>4, <1>12, <2>3 DEF WriteIndex, Contend
        <3>2. idxLock[S] \in Nat
            BY <1>4, <2>1, <2>3 DEF NoOrId
        <3>3. Halfway(p)' <=> ~Thin(p)
            BY <2>1, <3>1 DEF Halfway, Placing, Thin
        <3>4. S \notin contended' /\ Thin(p) => data[S] \in {job[p].id, None}
            BY <2>1, <3>1 DEF OwnFile, Halfway
        <3>5. idx'[S] = idxLock[S]
            BY <1>4, <2>1, <3>1
        <3> QED
            BY <1>9, <2>1, <3>1, <3>2, <3>3, <3>4, <3>5
    <2> QED
        BY <2>2, <2>3
<1>13. CASE ThinData(p)
    <2>1. /\ S \in PackNames /\ step'[p] = "index" /\ UNCHANGED <<idx, job>> /\ Thin(p)
          /\ data' = [data EXCEPT ![S] = job[p].id] /\ contended \subseteq contended'
          /\ (\E q \in Procs \ {p} : Between(q, S)) => S \in contended'
        BY <1>4, <1>13 DEF ThinData, Where, WhereAt, Naming, Contend, Thin
    <2>2. Halfway(p)'
        BY <2>1 DEF Halfway, Thin
    <2> QED
        BY <1>4, <1>9, <2>1, <2>2
<1>14. CASE PlaceData(p)
    <2>1. /\ S \in PackNames /\ ~InCache(p, S) /\ UNCHANGED <<idx, job, contended>> /\ step[p] = "place"
          /\ data' = [data EXCEPT ![S] = job[p].id]
        BY <1>14 DEF PlaceData, InCache, Timed, Where, WhereAt, Naming, Placing
    <2>2. step'[p] \in {"idle", "remove", "name"}
        BY <1>4, <1>14 DEF PlaceData, AfterPack
    <2>3. ~Thin(p) /\ Halfway(p) /\ ~Halfway(p)'
        BY <2>1, <2>2 DEF Where, WhereAt, Placing, Thin, Halfway
    <2>4. S \notin contended => idx[S] \in {job[p].id, None}
        BY <2>3 DEF OwnFile
    <2>5. \A q \in Procs : q # p /\ Between(q, S) => S \in contended
        BY <2>1, <2>3, HalfwayIsBetween DEF OneWriter
    <2>6. data'[S] = job[p].id
        BY <1>4, <2>1
    <2> QED
        BY <1>4, <1>9, <2>1, <2>3, <2>4, <2>5, <2>6
<1>15. CASE RemoveData(p) \/ RemoveIndex(p)
    <2>1. /\ \/ UNCHANGED data
             \/ \E T : data' = [data EXCEPT ![T] = None]
          /\ \/ UNCHANGED idx
             \/ \E T : idx' = [idx EXCEPT ![T] = None]
          /\ UNCHANGED contended
          /\ step[p] \in {"drop", "dropindex"} /\ step'[p] \in {"idle", "drop", "dropindex"}
        BY <1>4, <1>15 DEF RemoveData, RemoveIndex, Through
    <2>2. ~Halfway(p) /\ ~Halfway(p)'
        BY <2>1 DEF Halfway, Placing
    <2>3. \A q \in Procs : \A T : Between(q, T)' <=> Between(q, T)
        BY <1>3, <1>6, <1>7, <2>2, HalfwayIsBetween
    <2>4. OneWriter'
        BY <2>1, <2>3 DEF OneWriter
    <2>5. OwnFile'
        BY <1>3, <1>4, <1>5, <1>6, <2>1, <2>2 DEF OwnFile
    <2>6. FilesMatch'
        BY <1>4, <2>1, <2>3 DEF FilesMatch, Pairs
    <2> QED
        BY <2>4, <2>5, <2>6
<1>16. CASE Killed(p)
    <2>1. /\ UNCHANGED <<data, idx, job>> /\ step'[p] = "idle"
          /\ contended' = contended \cup {T \in PackNames : Between(p, T)}
        BY <1>4, <1>16 DEF Killed, storeDisk, packDir
    <2>2. ~Halfway(p)'
        BY <2>1 DEF Halfway, Placing
    <2>3. Halfway(p) => S \in contended'
        BY <1>5, <2>1, HalfwayIsBetween
    <2> QED
        BY <1>8, <2>1, <2>2, <2>3
<1> QED
    BY <1>2, <1>10, <1>11, <1>12, <1>13, <1>14, <1>15, <1>16 DEF Work, Aside

-----------------------------------------------------------------------------
(* PackStore: the disk                                                     *)

LEMMA StoreDiskStep ==
    ASSUME StoreTypeOK, Where, [StoreNext]_storeVars
    PROVE  StoreDisk'
<1> USE DEF storeDisk, packDir, known, history
<1>1. /\ StoreDisk /\ \A p \in Procs : job[p].id \in Nat /\ job[p].pack \in SUBSET Objects
      /\ \A p \in Procs : step[p] \in {"place", "data", "check"} => job[p].pack \in PackNames
    BY DEF StoreTypeOK, Jobs, StoreDisk, NoOrId, Where, WhereAt, Naming, Placing
<1>2. CASE UNCHANGED storeVars \/ Tick
    BY <1>1, <1>2 DEF storeVars, Tick, StoreDisk
<1>3. ASSUME NEW p \in Procs, Work(p) \/ Killed(p) PROVE StoreDisk'
    <2>1. CASE AddObject(p) \/ RemoveLoose(p)
        <3>1. /\ UNCHANGED <<data, idx, idxLock, mtime, clock, contended>>
              /\ looseObjects' \in SUBSET Objects /\ safe' \in SUBSET Objects
              /\ jobs' \in {jobs, jobs + 1}
            BY <1>1, <2>1 DEF AddObject, RemoveLoose, StoreDisk
        <3> QED
            BY <1>1, <3>1 DEF StoreDisk
    <2>2. CASE CheckThin(p)
        <3>1. /\ UNCHANGED <<looseObjects, data, idx, idxLock, mtime, clock, contended, jobs>>
              /\ safe' \in SUBSET Objects
            BY <1>1, <2>2 DEF CheckThin, StoreDisk
        <3> QED
            BY <1>1, <3>1 DEF StoreDisk
    <2>3. CASE Aside(p) /\ ~AddObject(p) /\ ~RemoveLoose(p) /\ ~CheckThin(p) /\ ~UnlockIndex(p)
        <3>1. UNCHANGED <<data, idx, clock, contended>> /\ mtime' \in {mtime, clock}
            BY <2>3, AsideStep
        <3>2. CASE \/ Lookup(p) \/ AddPack(p) \/ AddThinPack(p)
                   \/ Pack(p, "loose") \/ Pack(p, "repack")
            <4>1. UNCHANGED <<looseObjects, safe, idxLock>> /\ jobs' = jobs + 1
                BY <3>2 DEF Lookup, AddPack, AddThinPack, Pack, Begin
            <4> QED
                BY <1>1, <3>1, <4>1 DEF StoreDisk
        <3>3. CASE \/ UseCache(p) \/ List(p) \/ Stamp(p) \/ LookPack(p) \/ LookLoose(p)
                   \/ ListLoose(p) \/ ReadLoose(p) \/ ReadPack(p) \/ Flush(p)
                   \/ NamePack(p) \/ LooseRemoved(p) \/ PacksRemoved(p)
            <4>1. UNCHANGED <<looseObjects, safe, idxLock, jobs>>
                BY <3>3
                    DEF UseCache, List, Stamp, LookPack, LookLoose, ListLoose,
                        ReadLoose, ReadPack, Flush, NamePack, LooseRemoved, PacksRemoved
            <4> QED
                BY <1>1, <3>1, <4>1 DEF StoreDisk
        <3> QED
            BY <2>3, <3>2, <3>3 DEF Aside
    <2>4. CASE LockIndex(p) \/ UnlockIndex(p)
        <3>1. /\ UNCHANGED <<looseObjects, safe, data, idx, clock, jobs>> /\ mtime' \in {mtime, clock}
              /\ contended' \in SUBSET PackNames
              /\ \/ UNCHANGED idxLock
                 \/ \E n \in NoOrId : idxLock' = [idxLock EXCEPT ![job[p].pack] = n]
            <4>1. step[p] = "index" => job[p].pack \in PackNames
                BY DEF Where, WhereAt, Naming
            <4> QED
                BY <1>1, <2>4, <4>1 DEF LockIndex, UnlockIndex, Contend, StoreDisk, NoOrId
        <3> QED
            BY <1>1, <3>1 DEF StoreDisk
    <2>5. CASE WriteIndex(p)
        <3>1. step[p] = "write" /\ job[p].pack \in PackNames
            BY <2>5 DEF WriteIndex, Where, WhereAt, Naming
        <3>2. idxLock[job[p].pack] \in NoOrId /\ None \in NoOrId
            BY <1>1, <3>1 DEF StoreDisk, NoOrId
        <3>3. /\ UNCHANGED <<looseObjects, safe, data, clock, jobs>> /\ mtime' \in {mtime, clock}
              /\ contended' \in SUBSET PackNames
              /\ \/ UNCHANGED <<idx, idxLock>>
                 \/ /\ idx' = [idx EXCEPT ![job[p].pack] = idxLock[job[p].pack]]
                    /\ idxLock' = [idxLock EXCEPT ![job[p].pack] = None]
            BY <1>1, <2>5, <3>1 DEF WriteIndex, Contend, StoreDisk
        <3> QED
            BY <1>1, <3>2, <3>3 DEF StoreDisk
    <2>6. CASE PlaceData(p)
        BY <1>1, <2>6 DEF PlaceData, StoreDisk, NoOrId
    <2>9. CASE ThinData(p)
        BY <1>1, <2>9 DEF ThinData, Contend, StoreDisk, NoOrId
    <2>7. CASE RemoveData(p) \/ RemoveIndex(p)
        BY <1>1, <2>7 DEF RemoveData, RemoveIndex, StoreDisk, NoOrId
    <2>8. CASE Killed(p)
        BY <1>1, <2>8 DEF Killed, StoreDisk
    <2> QED
        BY <1>3, <2>1, <2>2, <2>3, <2>4, <2>5, <2>6, <2>7, <2>8, <2>9 DEF Work, Aside
<1> QED
    BY <1>2, <1>3 DEF StoreNext

LEMMA StoreKnownStep ==
    ASSUME StoreTypeOK, Where, [StoreNext]_storeVars
    PROVE  StoreKnown'
<1> USE DEF storeDisk, packDir, known, history
<1>1. /\ StoreKnown /\ clock \in Nat /\ todo \in [Procs -> SUBSET PackNames]
      /\ \A p \in Procs : job[p].listed \in SUBSET PackNames
      /\ \A p \in Procs : step[p] \in {"place", "check", "name"} => job[p].pack \in PackNames
      /\ data \in [PackNames -> NoOrId] /\ idx \in [PackNames -> NoOrId]
    BY DEF StoreTypeOK, Jobs, StoreKnown, Where, WhereAt, Naming, Placing, NoOrId, OpenFiles
<1>2. CASE UNCHANGED <<packCache, bypath, opened, stamp>>
    BY <1>1, <1>2 DEF StoreKnown
<1>9. Closed \in OpenFiles
    BY DEF Closed, OpenFiles, NoOrId
<1>10. ASSUME NEW p \in Procs, NEW S \in PackNames
       PROVE  /\ opened[p] \in [PackNames -> OpenFiles]
              /\ Index(p, S) \in NoOrId /\ Data(p, S) \in NoOrId
              /\ opened[p][S].idx \in NoOrId /\ opened[p][S].data \in NoOrId
    BY <1>1 DEF StoreKnown, Index, Data, OpenFiles
\* The files of one pack are opened.
<1>11. ASSUME NEW p \in Procs, NEW S \in PackNames, NEW files \in OpenFiles,
              opened' = [opened EXCEPT ![p][S] = files]
       PROVE  opened' \in [Procs -> [PackNames -> OpenFiles]]
    <2>1. opened' = [opened EXCEPT ![p] = [opened[p] EXCEPT ![S] = files]]
        BY <1>11
    <2>2. [opened[p] EXCEPT ![S] = files] \in [PackNames -> OpenFiles]
        BY <1>10
    <2> QED
        BY <1>1, <2>1, <2>2 DEF StoreKnown
<1>3. ASSUME NEW p \in Procs, Stamp(p) PROVE StoreKnown'
    <2>1. [S \in PackNames |-> IF S \in job[p].listed \cap packCache[p] THEN opened[p][S] ELSE Closed]
             \in [PackNames -> OpenFiles]
        BY <1>9, <1>10
    <2>2. opened' \in [Procs -> [PackNames -> OpenFiles]]
        BY <1>1, <1>3, <2>1 DEF Stamp, StoreKnown
    <2> QED
        BY <1>1, <1>3, <2>2 DEF Stamp, StoreKnown
<1>4. ASSUME NEW p \in Procs, LookPack(p) \/ ReadPack(p) PROVE StoreKnown'
    <2>1. /\ UNCHANGED <<packCache, bypath, stamp>>
          /\ \E S \in todo[p] :
               \E content \in {opened[p][S].data, Data(p, S)} :
                  opened' = [opened EXCEPT ![p][S] = [idx |-> Index(p, S), data |-> content]]
        BY <1>4 DEF LookPack, ReadPack
    <2>2. PICK S \in todo[p] :
             \E content \in {opened[p][S].data, Data(p, S)} :
                opened' = [opened EXCEPT ![p][S] = [idx |-> Index(p, S), data |-> content]]
        BY <2>1
    <2>3. PICK content \in {opened[p][S].data, Data(p, S)} :
             opened' = [opened EXCEPT ![p][S] = [idx |-> Index(p, S), data |-> content]]
        BY <2>2
    <2>4. S \in PackNames /\ [idx |-> Index(p, S), data |-> content] \in OpenFiles
        BY <1>1, <1>10 DEF OpenFiles
    <2> QED
        BY <1>1, <1>11, <2>1, <2>3, <2>4 DEF StoreKnown
<1>12. ASSUME NEW p \in Procs, NEW S \in PackNames, NEW files \in OpenFiles, Know(p, S, files),
              UNCHANGED <<packCache, stamp>>
       PROVE  StoreKnown'
    <2>1. opened' \in [Procs -> [PackNames -> OpenFiles]]
        BY <1>1, <1>11, <1>12 DEF Know, StoreKnown
    <2> QED
        BY <1>1, <1>12, <2>1 DEF Know, StoreKnown
<1>5. ASSUME NEW p \in Procs, PlaceData(p) \/ CheckThin(p) PROVE StoreKnown'
    <2> DEFINE S == job[p].pack
    <2>1. S \in PackNames /\ UNCHANGED <<packCache, stamp>>
        BY <1>1, <1>5 DEF PlaceData, CheckThin
    <2>2. [idx |-> idx[S], data |-> data[S]] \in OpenFiles
        BY <1>1, <2>1 DEF OpenFiles
    <2>3. \/ UNCHANGED <<bypath, opened>>
          \/ Know(p, S, Closed)
          \/ Know(p, S, [idx |-> idx[S], data |-> data[S]])
        BY <1>5 DEF PlaceData, CheckThin
    <2> QED
        BY <1>2, <1>9, <1>12, <2>1, <2>2, <2>3
<1>6. ASSUME NEW p \in Procs, Flush(p) \/ Killed(p) PROVE StoreKnown'
    <2>1. [S \in PackNames |-> Closed] \in [PackNames -> OpenFiles]
        BY <1>9
    <2>2. opened' = [opened EXCEPT ![p] = [S \in PackNames |-> Closed]]
        BY <1>6 DEF Flush, Killed
    <2>3. opened' \in [Procs -> [PackNames -> OpenFiles]]
        BY <1>1, <2>1, <2>2 DEF StoreKnown
    <2>4. packCache' \in [Procs -> SUBSET PackNames] /\ bypath' \in [Procs -> SUBSET PackNames]
        BY <1>1, <1>6 DEF Flush, Killed, StoreKnown
    <2>5. stamp' \in [Procs -> Nat]
        BY <1>1, <1>6 DEF Flush, Killed, StoreKnown
    <2> QED
        BY <2>3, <2>4, <2>5 DEF StoreKnown
<1>13. ASSUME NEW p \in Procs, NamePack(p) PROVE StoreKnown'
    <2> DEFINE S == job[p].pack
    <2>1. S \in PackNames /\ UNCHANGED <<packCache, bypath, stamp>>
        BY <1>1, <1>13 DEF NamePack
    <2>2. opened' = [opened EXCEPT ![p][S] = [opened[p][S] EXCEPT !.idx = Index(p, S)]]
        BY <1>13 DEF NamePack
    <2>3. [opened[p][S] EXCEPT !.idx = Index(p, S)] \in OpenFiles
        BY <1>10, <2>1 DEF OpenFiles
    <2> QED
        BY <1>1, <1>11, <2>1, <2>2, <2>3 DEF StoreKnown
<1>7. CASE UNCHANGED storeVars \/ Tick
    BY <1>2, <1>7 DEF storeVars, Tick
<1>8. ASSUME NEW p \in Procs,
              \/ UseCache(p) \/ List(p) \/ Lookup(p) \/ LookLoose(p)
              \/ AddObject(p) \/ AddPack(p) \/ AddThinPack(p)
              \/ Pack(p, "loose") \/ Pack(p, "repack") \/ ThinData(p)
              \/ LockIndex(p) \/ WriteIndex(p) \/ UnlockIndex(p) \/ ListLoose(p) \/ ReadLoose(p) \/ RemoveLoose(p) \/ LooseRemoved(p)
              \/ RemoveData(p) \/ RemoveIndex(p) \/ PacksRemoved(p)
       PROVE  UNCHANGED <<packCache, bypath, opened, stamp>>
    BY <1>8
        DEF UseCache, List, Lookup, LookLoose, AddObject, AddPack,
            AddThinPack, Pack, Begin, ThinData, LockIndex, WriteIndex, UnlockIndex,
            ListLoose, ReadLoose, BeginPack, RemoveLoose, LooseRemoved, RemoveData, RemoveIndex,
            PacksRemoved
<1> QED
    BY <1>2, <1>3, <1>4, <1>5, <1>6, <1>7, <1>8, <1>13 DEF StoreNext, Work

LEMMA StoreHistoryStep ==
    ASSUME StoreTypeOK, Where, [StoreNext]_storeVars
    PROVE  StoreHistory'
<1> USE DEF storeDisk, packDir, known, history
<1>1. /\ StoreHistory /\ todo \in [Procs -> SUBSET PackNames]
      /\ \A p \in Procs : job[p].listed \in SUBSET PackNames /\ job[p].pack \in SUBSET Objects
            /\ job[p].objects \in SUBSET Objects
    BY DEF StoreTypeOK, Jobs, StoreHistory
<1>2. CASE UNCHANGED <<disturbed, blind>>
    BY <1>1, <1>2 DEF StoreHistory
<1>3. ASSUME NEW p \in Procs, Stamp(p) PROVE StoreHistory'
    <2>1. (Pairs \ job[p].listed) \cup (job[p].listed \ Pairs) \in SUBSET PackNames
        BY <1>1 DEF Pairs
    <2>2. ASSUME NEW T \in SUBSET PackNames PROVE UNION T \in SUBSET Objects
        BY DEF PackNames
    <2>3. \E objs \in SUBSET Objects : blind' = [blind EXCEPT ![p] = objs]
        BY <1>3, <2>1, <2>2 DEF Stamp
    <2> QED
        BY <1>1, <1>3, <2>3 DEF Stamp, StoreHistory
<1>4. ASSUME NEW p \in Procs, NEW what, NEW where, Begin(p, what, where) PROVE StoreHistory'
    BY <1>1, <1>4 DEF Begin, StoreHistory
<1>5. ASSUME NEW objs \in SUBSET Objects, Disturb(objs), UNCHANGED blind PROVE StoreHistory'
    BY <1>1, <1>5 DEF Disturb, StoreHistory
<1>6. ASSUME NEW p \in Procs,
             WriteIndex(p) \/ PlaceData(p) \/ ThinData(p)
      PROVE  StoreHistory'
    <2>1. UNCHANGED blind /\ (UNCHANGED disturbed \/ Disturb(job[p].pack))
        BY <1>6 DEF WriteIndex, PlaceData, ThinData
    <2> QED
        BY <1>1, <1>2, <1>5, <2>1
<1>7. ASSUME NEW p \in Procs, RemoveLoose(p) \/ RemoveData(p) \/ RemoveIndex(p) PROVE StoreHistory'
    <2>1. \/ UNCHANGED disturbed
          \/ \E x \in job[p].objects : Disturb({x})
          \/ \E S \in todo[p] : Disturb(S)
          \/ Disturb(job[p].objects)
        BY <1>7 DEF RemoveLoose, RemoveData, RemoveIndex
    <2>2. UNCHANGED blind
        BY <1>7 DEF RemoveLoose, RemoveData, RemoveIndex
    <2>3. \A x \in job[p].objects : {x} \in SUBSET Objects
        BY <1>1
    <2>4. \A S \in todo[p] : S \in SUBSET Objects
        BY <1>1 DEF PackNames
    <2> QED
        BY <1>1, <1>2, <1>5, <2>1, <2>2, <2>3, <2>4
<1>8. ASSUME NEW p \in Procs, Killed(p) PROVE StoreHistory'
    BY <1>1, <1>8 DEF Killed, StoreHistory
<1>9. CASE UNCHANGED storeVars \/ Tick
    BY <1>2, <1>9 DEF storeVars, Tick
<1>10. ASSUME NEW p \in Procs,
              \/ Lookup(p) \/ AddPack(p) \/ AddThinPack(p)
              \/ Pack(p, "loose") \/ Pack(p, "repack")
       PROVE  StoreHistory'
    BY <1>4, <1>10 DEF Lookup, AddPack, AddThinPack, Pack
<1>11. ASSUME NEW p \in Procs,
              \/ UseCache(p) \/ List(p) \/ LookPack(p) \/ LookLoose(p)
              \/ AddObject(p) \/ ListLoose(p) \/ ReadLoose(p) \/ ReadPack(p)
              \/ LockIndex(p) \/ UnlockIndex(p) \/ CheckThin(p)
              \/ Flush(p) \/ NamePack(p) \/ LooseRemoved(p) \/ PacksRemoved(p)
       PROVE  UNCHANGED <<disturbed, blind>>
    BY <1>11
        DEF UseCache, List, LookPack, LookLoose, AddObject, ListLoose,
            ReadLoose, ReadPack, LockIndex, UnlockIndex, CheckThin,
            Flush, NamePack, LooseRemoved, PacksRemoved
<1> QED
    BY <1>2, <1>3, <1>6, <1>7, <1>8, <1>9, <1>10, <1>11 DEF StoreNext, Work

LEMMA TimedStep ==
    ASSUME StoreTypeOK, Where, Timed, [StoreNext]_storeVars
    PROVE  Timed'
<1> USE DEF storeDisk, packDir, known, history, Proceed, Over, Through
<1>1. /\ clock \in Nat /\ mtime \in Nat /\ stamp \in [Procs -> Nat] /\ step \in [Procs -> Labels]
      /\ bypath \in [Procs -> SUBSET PackNames]
    BY DEF StoreTypeOK
<1>2. CASE UNCHANGED storeVars \/ Tick
    BY <1>1, <1>2 DEF storeVars, Tick, Timed
<1>3. SUFFICES ASSUME NEW p \in Procs, Work(p) \/ Killed(p) PROVE Timed'
    BY <1>2, <1>3 DEF StoreNext
<1>4. \A q \in Procs : q # p => step'[q] = step[q] /\ stamp'[q] = stamp[q] /\ bypath'[q] = bypath[q]
    BY <1>3, OthersStay
<1>5. clock' = clock /\ mtime' \in {mtime, clock}
    <2>1. CASE Aside(p)
        BY <2>1, AsideStep
    <2>2. CASE ~Aside(p)
        BY <1>3, <2>2
            DEF Work, Aside, LockIndex, WriteIndex, PlaceData, ThinData, RemoveData,
                RemoveIndex, Killed
    <2> QED
        BY <2>1, <2>2
<1>6. /\ stamp'[p] <= clock
      /\ step'[p] \in {"unlock", "place?"} => stamp'[p] <= mtime'
      /\ step'[p] = "place" => bypath'[p] = {}
    <2> USE DEF Timed
    <2>1. CASE UseCache(p)
        BY <1>1, <2>1 DEF UseCache, Stale, Then
    <2>2. CASE List(p)
        BY <1>1, <2>2 DEF List
    <2>3. CASE Stamp(p)
        BY <1>1, <2>3 DEF Stamp, Then
    <2>4. CASE \/ Lookup(p) \/ AddPack(p) \/ AddThinPack(p)
               \/ Pack(p, "loose") \/ Pack(p, "repack")
        BY <1>1, <2>4 DEF Lookup, AddPack, AddThinPack, Pack, Begin
    <2>5. CASE AddObject(p)
        BY <1>1, <2>5 DEF AddObject
    <2>6. CASE WriteIndex(p)
        <3>1. /\ UNCHANGED stamp
              /\ \/ step'[p] = "fail"
                 \/ step'[p] = "unlock" /\ mtime' = clock
            BY <1>1, <2>6 DEF WriteIndex
        <3> QED
            BY <1>1, <3>1
    <2>7. CASE Killed(p)
        BY <1>1, <2>7 DEF Killed
    <2>8. CASE UnlockIndex(p)
        <3>1. /\ UNCHANGED stamp
              /\ \/ step'[p] \in {"idle", "check"}
                 \/ step[p] = "unlock" /\ step'[p] = "place?"
            BY <1>1, <2>8 DEF UnlockIndex
        <3> QED
            BY <1>1, <1>5, <3>1
    <2>9. CASE ~(\/ UseCache(p) \/ List(p) \/ Stamp(p) \/ Lookup(p) \/ AddPack(p)
                 \/ AddThinPack(p) \/ Pack(p, "loose") \/ Pack(p, "repack")
                 \/ AddObject(p) \/ WriteIndex(p) \/ UnlockIndex(p) \/ Killed(p))
        <3>1. UNCHANGED stamp
            BY <1>3, <2>9
                DEF Work, LookPack, LookLoose, LockIndex, PlaceData, ThinData, CheckThin,
                    ListLoose, ReadLoose, ReadPack, Flush, NamePack, RemoveLoose, LooseRemoved,
                    RemoveData, RemoveIndex, PacksRemoved
        <3>2. step'[p] \notin {"unlock", "place?", "place"}
            <4>1. CASE LookPack(p) \/ LookLoose(p)
                BY <1>1, <4>1 DEF LookPack, LookLoose, Answer
            <4>2. CASE LockIndex(p) \/ PlaceData(p) \/ ThinData(p) \/ CheckThin(p)
                BY <1>1, <4>2 DEF LockIndex, PlaceData, AfterPack, ThinData, CheckThin
            <4>3. CASE ListLoose(p) \/ ReadLoose(p) \/ Flush(p) \/ NamePack(p)
                BY <1>1, <4>3 DEF ListLoose, ReadLoose, BeginPack, Flush, NamePack
            <4>4. CASE ReadPack(p)
                BY <1>1, <4>4 DEF ReadPack
            <4>5. CASE RemoveLoose(p) \/ LooseRemoved(p) \/ PacksRemoved(p)
                BY <1>1, <4>5 DEF RemoveLoose, LooseRemoved, PacksRemoved
            <4>6. CASE RemoveData(p) \/ RemoveIndex(p)
                BY <1>1, <4>6 DEF RemoveData, RemoveIndex
            <4> QED
                BY <1>3, <2>9, <4>1, <4>2, <4>3, <4>4, <4>5, <4>6 DEF Work
        <3> QED
            BY <3>1, <3>2
    <2> QED
        BY <2>1, <2>2, <2>3, <2>4, <2>5, <2>6, <2>7, <2>8, <2>9
<1> QED
    BY <1>1, <1>4, <1>5, <1>6 DEF Timed

-----------------------------------------------------------------------------
(* PackStore: packing again keeps what it removes                          *)

\* A pack on disk has all these objects.
Within(S, packs) == \E T \in packs : S \subseteq T
Covered(S) == Within(S, Pairs)

\* From where the objects that are packed are known, to where the files are removed.
Gathered == {"read?", "read!", "read", "index", "write", "unlock", "name", "remove"} \cup Placing

\* What a process that packs again may remove is in the pack it wrote, or in one
\* that has all of it.
RepackingAt(p) ==
    /\ \A S \in job[p].old : S \subseteq job[p].pack
    /\ step[p] \in {"unlock"} \cup Placing => idx[job[p].pack] # None \/ Covered(job[p].pack)
    /\ step[p] \in {"name"} \cup Removing => Covered(job[p].pack)
    /\ step[p] \in Gathered /\ job[p].kind \in {"loose", "repack"} => job[p].objects \subseteq job[p].pack
    /\ step[p] \in {"drop", "dropindex"} => todo[p] \subseteq OldPacks(p)
    /\ step[p] = "dropindex" => job[p].objects \in OldPacks(p)

Repacking == \A p \in Procs : RepackingAt(p)

Kept == safe \subseteq looseObjects \cup UNION Pairs

\* A pack that is removed is not the one that has its objects.
LEMMA RemovedIsCovered ==
    ASSUME Repacking, NEW p \in Procs, NEW S \in OldPacks(p), Covered(job[p].pack)
    PROVE  \E T \in Pairs : S \subseteq T /\ T # S
<1>1. S \subseteq job[p].pack /\ S # job[p].pack
    BY DEF Repacking, RepackingAt, OldPacks
<1> QED
    BY <1>1 DEF Covered, Within

\* What a step removes from the packs.
LEMMA PairsStep ==
    ASSUME StoreTypeOK, Where, Repacking, [StoreNext]_storeVars
    PROVE  \/ Pairs \subseteq Pairs' /\ \A S \in PackNames : idx[S] # None => idx'[S] # None
           \/ \E S \in PackNames, T \in Pairs :
                 /\ S \subseteq T /\ S # T
                 /\ Pairs \ {S} \subseteq Pairs' /\ T \in Pairs'
                 /\ \A R \in PackNames : idx[R] # None => idx'[R] # None \/ R = S
<1>1. /\ data \in [PackNames -> NoOrId] /\ idx \in [PackNames -> NoOrId]
      /\ \A p \in Procs : job[p].id \in Nat /\ job[p].id # None /\ job[p].old \in SUBSET PackNames
      /\ None \notin Nat /\ todo \in [Procs -> SUBSET PackNames] /\ idxLock \in [PackNames -> NoOrId]
    BY PackStoreAssumption DEF StoreTypeOK, Jobs, NoOrId
<1>2. UNCHANGED <<data, idx>> => Pairs' = Pairs
    BY DEF Pairs
<1>3. CASE UNCHANGED storeVars \/ Tick
    BY <1>2, <1>3 DEF storeVars, storeDisk, packDir, Tick
<1>4. ASSUME NEW p \in Procs, Aside(p) \/ LockIndex(p) \/ Killed(p) PROVE UNCHANGED <<data, idx>>
    BY <1>4, AsideStep DEF LockIndex, Killed, storeDisk, packDir
<1>5. ASSUME NEW p \in Procs, WriteIndex(p)
      PROVE  Pairs \subseteq Pairs' /\ \A S \in PackNames : idx[S] # None => idx'[S] # None
    <2>1. data' = data /\ (idx' = idx \/ \E S, n : n # None /\ idx' = [idx EXCEPT ![S] = n])
        BY <1>5 DEF WriteIndex
    <2> QED
        BY <1>1, <2>1 DEF Pairs
<1>6. ASSUME NEW p \in Procs, PlaceData(p) \/ ThinData(p)
      PROVE  Pairs \subseteq Pairs' /\ \A S \in PackNames : idx[S] # None => idx'[S] # None
    <2>1. idx' = idx /\ (data' = data \/ \E S : data' = [data EXCEPT ![S] = job[p].id])
        BY <1>6 DEF PlaceData, ThinData
    <2> QED
        BY <1>1, <2>1 DEF Pairs
<1>7. ASSUME NEW p \in Procs, NEW S \in OldPacks(p), Covered(job[p].pack),
             \/ data' = [data EXCEPT ![S] = None] /\ idx' = idx
             \/ idx' = [idx EXCEPT ![S] = None] /\ data' = data
      PROVE  \E T \in Pairs :
                /\ S \in PackNames /\ S \subseteq T /\ S # T
                /\ Pairs \ {S} \subseteq Pairs' /\ T \in Pairs'
                /\ \A R \in PackNames : idx[R] # None => idx'[R] # None \/ R = S
    <2>1. PICK T \in Pairs : S \subseteq T /\ T # S
        BY <1>7, RemovedIsCovered
    <2>2. S \in PackNames
        BY <1>1 DEF OldPacks
    <2>3. Pairs \ {S} \subseteq Pairs'
        BY <1>1, <1>7 DEF Pairs
    <2>4. \A R \in PackNames : idx[R] # None => idx'[R] # None \/ R = S
        BY <1>1, <1>7
    <2> QED
        BY <2>1, <2>2, <2>3, <2>4
<1>8. ASSUME NEW p \in Procs, RemoveData(p)
      PROVE  \/ UNCHANGED <<data, idx>>
             \/ \E S \in OldPacks(p) : data' = [data EXCEPT ![S] = None] /\ idx' = idx
    BY <1>8 DEF RemoveData, Repacking, RepackingAt
<1>9. ASSUME NEW p \in Procs, RemoveIndex(p)
      PROVE  \/ UNCHANGED <<data, idx>>
             \/ \E S \in OldPacks(p) : idx' = [idx EXCEPT ![S] = None] /\ data' = data
    BY <1>9 DEF RemoveIndex, Repacking, RepackingAt
<1>10. ASSUME NEW p \in Procs, RemoveData(p) \/ RemoveIndex(p) PROVE Covered(job[p].pack)
    BY <1>10 DEF RemoveData, RemoveIndex, Repacking, RepackingAt, Removing
<1> QED
    BY <1>2, <1>3, <1>4, <1>5, <1>6, <1>7, <1>8, <1>9, <1>10 DEF StoreNext, Work, Aside

\* So what is in packs stays in packs, and all of a pack in one.
LEMMA CoveredStays ==
    ASSUME StoreTypeOK, Where, Repacking, [StoreNext]_storeVars
    PROVE  /\ \A S : Covered(S) => Covered(S)'
           /\ UNION Pairs \subseteq UNION Pairs'
           /\ \A S \in PackNames : idx[S] # None => idx'[S] # None \/ Covered(S)'
<1>1. CASE Pairs \subseteq Pairs' /\ \A S \in PackNames : idx[S] # None => idx'[S] # None
    BY <1>1 DEF Covered, Within
<1>2. ASSUME NEW S \in PackNames, NEW T \in Pairs, S \subseteq T, S # T,
             Pairs \ {S} \subseteq Pairs', T \in Pairs',
             \A R \in PackNames : idx[R] # None => idx'[R] # None \/ R = S
      PROVE  /\ \A R : Covered(R) => Covered(R)'
             /\ UNION Pairs \subseteq UNION Pairs'
             /\ \A R \in PackNames : idx[R] # None => idx'[R] # None \/ Covered(R)'
    <2>1. ASSUME NEW R, NEW Q \in Pairs, R \subseteq Q PROVE Covered(R)'
        BY <1>2, <2>1 DEF Covered, Within
    <2>2. UNION Pairs \subseteq UNION Pairs'
        BY <1>2
    <2>3. Covered(S)'
        BY <1>2 DEF Covered, Within
    <2> QED
        BY <1>2, <2>1, <2>2, <2>3 DEF Covered, Within
<1> QED
    BY <1>1, <1>2, PairsStep

LEMMA KeptStep ==
    ASSUME StoreTypeOK, Where, Timed, Repacking, Kept, [StoreNext]_storeVars
    PROVE  Kept'
<1>1. UNION Pairs \subseteq UNION Pairs'
    BY CoveredStays
<1>2. CASE UNCHANGED <<looseObjects, safe>>
    BY <1>1, <1>2 DEF Kept
<1>3. ASSUME NEW p \in Procs, AddObject(p) PROVE Kept'
    <2>1. \E x : looseObjects' = looseObjects \cup {x} /\ safe' = safe \cup {x}
        BY <1>3 DEF AddObject
    <2> QED
        BY <1>1, <2>1 DEF Kept
<1>4. /\ data \in [PackNames -> NoOrId] /\ idx \in [PackNames -> NoOrId]
      /\ \A p \in Procs : job[p].id \in Nat /\ job[p].id # None
      /\ \A p \in Procs : step[p] \in {"place", "check"} => job[p].pack \in PackNames
    BY PackStoreAssumption DEF StoreTypeOK, Jobs, NoOrId, Where, WhereAt, Naming, Placing
<1>5. ASSUME NEW p \in Procs, PlaceData(p) PROVE Kept'
    <2>1. /\ looseObjects' = looseObjects /\ idx' = idx /\ safe' = safe \cup job[p].pack
          /\ data' = [data EXCEPT ![job[p].pack] = job[p].id]
        BY <1>5 DEF PlaceData, InCache, Timed
    <2>2. CASE idx[job[p].pack] # None
        <3>1. job[p].pack \in Pairs'
            BY <1>4, <1>5, <2>1, <2>2 DEF Pairs, PlaceData
        <3> QED
            BY <1>1, <2>1, <3>1 DEF Kept
    <2>3. CASE Covered(job[p].pack)
        <3>1. Covered(job[p].pack)'
            BY <1>5, CoveredStays, <2>3 DEF PlaceData
        <3>2. PICK T \in Pairs' : job[p].pack \subseteq T
            BY <1>5, <3>1 DEF Covered, Within, PlaceData
        <3> QED
            BY <1>1, <2>1, <3>2 DEF Kept
    <2> QED
        BY <1>5, <2>2, <2>3 DEF Repacking, RepackingAt, Placing, PlaceData
<1>6. ASSUME NEW p \in Procs, CheckThin(p) PROVE Kept'
    <2> DEFINE S == job[p].pack
    <2>1. /\ UNCHANGED looseObjects
          /\ \/ S \in Sane /\ safe' = safe \cup S
             \/ safe' = safe
        BY <1>6 DEF CheckThin, storeDisk
    <2>2. S \in Sane => S \subseteq UNION Pairs
        BY DEF Sane
    <2> QED
        BY <1>1, <2>1, <2>2 DEF Kept
<1>7. ASSUME NEW p \in Procs, RemoveLoose(p) PROVE Kept'
    <2>1. /\ safe' = safe
          /\ \/ looseObjects' = looseObjects
             \/ \E x \in job[p].objects : looseObjects' = looseObjects \ {x}
        BY <1>7 DEF RemoveLoose
    <2>2. job[p].objects \subseteq job[p].pack /\ Covered(job[p].pack)
        BY <1>7 DEF RemoveLoose, Repacking, RepackingAt, Gathered, Removing, Where, WhereAt
    <2>3. job[p].objects \subseteq UNION Pairs
        BY <2>2 DEF Covered, Within
    <2> QED
        BY <1>1, <2>1, <2>3 DEF Kept
<1>8. CASE UNCHANGED storeVars \/ Tick
    BY <1>2, <1>8 DEF storeVars, storeDisk, history, Tick
<1>9. ASSUME NEW p \in Procs,
             \/ Lookup(p) \/ AddPack(p) \/ AddThinPack(p)
             \/ Pack(p, "loose") \/ Pack(p, "repack")
      PROVE  UNCHANGED <<looseObjects, safe>>
    BY <1>9 DEF Lookup, AddPack, AddThinPack, Pack, Begin, storeDisk
<1>10. ASSUME NEW p \in Procs,
              \/ UseCache(p) \/ List(p) \/ Stamp(p) \/ LookPack(p) \/ LookLoose(p)
              \/ LockIndex(p) \/ WriteIndex(p) \/ UnlockIndex(p) \/ ThinData(p)
              \/ ListLoose(p) \/ ReadLoose(p)
              \/ ReadPack(p) \/ Flush(p) \/ NamePack(p) \/ LooseRemoved(p) \/ RemoveData(p)
              \/ RemoveIndex(p) \/ PacksRemoved(p) \/ Killed(p)
       PROVE  UNCHANGED <<looseObjects, safe>>
    BY <1>10
        DEF UseCache, List, Stamp, LookPack, LookLoose, LockIndex, WriteIndex, UnlockIndex,
            ThinData, ListLoose, ReadLoose, ReadPack, Flush, NamePack, LooseRemoved, RemoveData,
            RemoveIndex, PacksRemoved, Killed, storeDisk, history
<1> QED
    BY <1>2, <1>3, <1>5, <1>6, <1>7, <1>8, <1>9, <1>10 DEF StoreNext, Work

LEMMA RepackingStep ==
    ASSUME StoreTypeOK, Where, Timed, Repacking, [StoreNext]_storeVars
    PROVE  Repacking'
<1> USE DEF Proceed, Over, Through
<1>1. /\ \A S : Covered(S) => Within(S, Pairs')
      /\ \A S \in PackNames : idx[S] # None => idx'[S] # None \/ Within(S, Pairs')
    BY CoveredStays DEF Covered
<1>2. /\ step \in [Procs -> Labels] /\ job \in [Procs -> Jobs]
      /\ todo \in [Procs -> SUBSET PackNames]
      /\ data \in [PackNames -> NoOrId] /\ idx \in [PackNames -> NoOrId]
      /\ idxLock \in [PackNames -> NoOrId] /\ None \notin Nat
      /\ \A q \in Procs : job[q] \in Jobs /\ job[q].id # None
    BY PackStoreAssumption DEF StoreTypeOK, Jobs, NoOrId
<1>3. \A q \in Procs : step[q] \in Naming \cup Removing => job[q].pack \in PackNames
    BY DEF Where, WhereAt
\* Who goes on where it was, with the same job.
<1>4. ASSUME NEW q \in Procs, step'[q] = step[q], job'[q] = job[q], todo'[q] = todo[q] PROVE RepackingAt(q)'
    <2>1. RepackingAt(q)
        BY DEF Repacking
    <2>2. OldPacks(q)' = OldPacks(q)
        BY <1>4 DEF OldPacks
    <2>3. step[q] \in {"unlock"} \cup Placing => idx'[job[q].pack] # None \/ Within(job[q].pack, Pairs')
        BY <1>1, <1>3, <2>1 DEF RepackingAt, Naming
    <2>4. step[q] \in {"name"} \cup Removing => Within(job[q].pack, Pairs')
        BY <1>1, <2>1 DEF RepackingAt
    <2> QED
        BY <1>4, <2>1, <2>2, <2>3, <2>4 DEF RepackingAt, Covered
<1>5. CASE UNCHANGED storeVars \/ Tick
    BY <1>4, <1>5 DEF storeVars, Tick, Repacking
<1>6. ASSUME NEW p \in Procs, Work(p) \/ Killed(p), RepackingAt(p)' PROVE Repacking'
    <2>1. \A q \in Procs : q # p => RepackingAt(q)'
        BY <1>4, <1>6, OthersStay
    <2> QED
        BY <1>6, <2>1 DEF Repacking
<1>23. SUFFICES ASSUME NEW p \in Procs, Work(p) \/ Killed(p) PROVE RepackingAt(p)'
    BY <1>5, <1>6, <1>23 DEF StoreNext
<1>7. RepackingAt(p)
    BY DEF Repacking
<1> USE DEF Placing, Removing, Gathered
\* Who is at none of the places that say something.
<1>8. ASSUME job'[p].old = job[p].old, job[p].pack \subseteq job'[p].pack,
             step'[p] \notin Gathered \cup Removing
      PROVE  RepackingAt(p)'
    BY <1>7, <1>8 DEF RepackingAt
<1>9. CASE \/ Lookup(p) \/ AddPack(p) \/ AddThinPack(p)
           \/ Pack(p, "loose") \/ Pack(p, "repack")
    <2>1. job'[p].old = {} /\ job'[p].objects = {} /\ step'[p] \in {"look?", "index", "data", "loose"}
        <3>1. CASE Lookup(p)
            BY <1>2, <3>1 DEF Lookup, Begin, NoJob
        <3>2. CASE AddPack(p)
            BY <1>2, <3>2 DEF AddPack, Begin, NoJob
        <3>3. CASE AddThinPack(p)
            <4>1. PICK S \in PackNames : Begin(p, [NoJob EXCEPT !.kind = "thin", !.pack = S], "data")
                BY <3>3 DEF AddThinPack
            <4> QED
                BY <1>2, <4>1 DEF Begin, NoJob
        <3>4. CASE Pack(p, "loose") \/ Pack(p, "repack")
            <4>1. PICK kind \in {"loose", "repack"} : Begin(p, [NoJob EXCEPT !.kind = kind], "loose")
                BY <3>4 DEF Pack
            <4> QED
                BY <1>2, <4>1 DEF Begin, NoJob
        <3> QED
            BY <1>9, <3>1, <3>2, <3>3, <3>4
    <2> QED
        BY <2>1 DEF RepackingAt
<1>10. CASE UseCache(p) \/ List(p) \/ Stamp(p)
    <2>1. /\ job'[p].old = job[p].old /\ job'[p].pack = job[p].pack /\ job'[p].objects = job[p].objects
          /\ job'[p].kind = job[p].kind
        BY <1>2, <1>10 DEF UseCache, List, Stamp, Jobs
    <2>2. \/ step[p] \in {"look?", "look!"} /\ step'[p] \in {"look!", "look"}
          \/ step[p] \in {"read?", "read!"} /\ step'[p] \in {"read!", "read"}
          \/ step[p] \in {"place?", "place!"} /\ step'[p] \in {"place!", "place"}
          \/ step[p] \in {"update", "update!"} /\ step'[p] \in {"update!", "idle"}
        BY <1>2, <1>10 DEF UseCache, List, Stamp, Then
    <2>3. step[p] \in Placing => idx'[job[p].pack] # None \/ Within(job[p].pack, Pairs')
        BY <1>1, <1>3, <1>7 DEF RepackingAt, Naming
    <2> QED
        BY <1>7, <2>1, <2>2, <2>3 DEF RepackingAt, Covered
<1>11. CASE LookPack(p) \/ LookLoose(p) \/ ListLoose(p)
    <2>1. job'[p].old = job[p].old /\ job'[p].pack = job[p].pack /\ step'[p] \in {"look", "idle", "get"}
        BY <1>2, <1>11 DEF LookPack, LookLoose, ListLoose, Answer, Jobs
    <2> QED
        BY <1>8, <2>1
<1>12. CASE AddObject(p)
    BY <1>4, <1>12 DEF AddObject
<1>13. CASE LockIndex(p) \/ WriteIndex(p) \/ UnlockIndex(p)
    <2>1. CASE step'[p] \in {"idle", "fail", "check"}
        <3>1. UNCHANGED job
            BY <1>13 DEF LockIndex, WriteIndex, UnlockIndex
        <3> QED
            BY <1>8, <2>1, <3>1
    <2>2. CASE LockIndex(p) /\ step'[p] = "write"
        <3>1. UNCHANGED job /\ step[p] = "index"
            BY <2>2 DEF LockIndex
        <3> QED
            BY <1>7, <2>2, <3>1 DEF RepackingAt
    <2>3. CASE WriteIndex(p) /\ step'[p] = "unlock"
        <3>1. UNCHANGED job /\ step[p] = "write"
            BY <2>3 DEF WriteIndex
        <3>2. job[p].pack \in PackNames
            BY <1>3, <3>1 DEF Naming
        <3>3. idx' = [idx EXCEPT ![job[p].pack] = idxLock[job[p].pack]] /\ idxLock[job[p].pack] # None
            BY <1>2, <2>3 DEF WriteIndex
        <3>4. idx'[job[p].pack] # None
            BY <1>2, <3>2, <3>3
        <3> QED
            BY <1>7, <2>3, <3>1, <3>4 DEF RepackingAt
    <2>4. CASE UnlockIndex(p) /\ step'[p] = "place?"
        <3>1. UNCHANGED job /\ step[p] = "unlock"
            BY <1>2, <2>4 DEF UnlockIndex
        <3>2. idx'[job[p].pack] # None \/ Within(job[p].pack, Pairs')
            BY <1>1, <1>3, <1>7, <3>1 DEF RepackingAt, Naming
        <3> QED
            BY <1>7, <2>4, <3>1, <3>2 DEF RepackingAt, Covered
    <2>5. \/ step'[p] \in {"idle", "fail", "check"}
          \/ LockIndex(p) /\ step'[p] = "write"
          \/ WriteIndex(p) /\ step'[p] = "unlock"
          \/ UnlockIndex(p) /\ step'[p] = "place?"
        BY <1>2, <1>13 DEF LockIndex, WriteIndex, UnlockIndex
    <2> QED
        BY <2>1, <2>2, <2>3, <2>4, <2>5
<1>24. CASE NamePack(p)
    <2>1. UNCHANGED job /\ step[p] = "name" /\ step'[p] \in {"idle", "remove"}
        BY <1>2, <1>24 DEF NamePack
    <2>2. Within(job[p].pack, Pairs')
        BY <1>1, <1>7, <2>1 DEF RepackingAt
    <2> QED
        BY <1>7, <2>1, <2>2 DEF RepackingAt, Covered
<1>14. CASE PlaceData(p)
    <2>1. UNCHANGED <<job, idx>> /\ data' = [data EXCEPT ![job[p].pack] = job[p].id] /\ step[p] = "place"
        BY <1>14 DEF PlaceData, InCache, Timed
    <2>2. \/ step'[p] = "idle"
          \/ step'[p] \in {"remove", "name"} /\ job[p].kind # "pack"
        BY <1>2, <1>14 DEF PlaceData, AfterPack
    <2>3. Within(job[p].pack, Pairs')
        <3>1. CASE idx[job[p].pack] # None
            <4>1. job[p].pack \in Pairs'
                BY <1>2, <1>3, <2>1, <3>1 DEF Pairs, Naming
            <4> QED
                BY <2>1, <4>1 DEF Within
        <3>2. CASE Covered(job[p].pack)
            BY <1>1, <2>1, <3>2
        <3> QED
            BY <1>7, <2>1, <3>1, <3>2 DEF RepackingAt
    <2> QED
        BY <1>7, <2>1, <2>2, <2>3 DEF RepackingAt, Covered
<1>25. CASE ThinData(p)
    <2>1. UNCHANGED job /\ step'[p] = "index" /\ job[p].kind = "thin"
        BY <1>2, <1>25 DEF ThinData, Where, WhereAt
    <2> QED
        BY <1>7, <2>1 DEF RepackingAt
<1>15. CASE CheckThin(p) \/ PacksRemoved(p) \/ Killed(p)
    <2>1. UNCHANGED job /\ step'[p] \in {"idle", "update"}
        BY <1>2, <1>15 DEF CheckThin, PacksRemoved, Killed
    <2> QED
        BY <1>8, <2>1
<1>16. CASE ReadLoose(p)
    <2>1. /\ job'[p].old = job[p].old /\ job'[p].objects = job[p].objects
          /\ job'[p].pack = job[p].pack \cup job[p].objects
        BY <1>2, <1>16 DEF ReadLoose, Jobs
    <2>2. step'[p] \in {"idle", "read?", "index"}
        BY <1>2, <1>16 DEF ReadLoose, BeginPack
    <2> QED
        BY <1>7, <2>1, <2>2 DEF RepackingAt
<1>17. CASE ReadPack(p)
    <2>1. CASE UNCHANGED job /\ step'[p] = "idle"
        BY <1>8, <2>1
    <2>2. CASE step'[p] = "read" /\ \E S \in todo[p] : job' = [job EXCEPT ![p].pack = @ \cup S, ![p].old = @ \cup {S}]
        <3>1. PICK S \in todo[p] : job' = [job EXCEPT ![p].pack = @ \cup S, ![p].old = @ \cup {S}]
            BY <2>2
        <3>2. /\ job'[p].old = job[p].old \cup {S} /\ job'[p].objects = job[p].objects
              /\ job'[p].pack = job[p].pack \cup S /\ job'[p].kind = job[p].kind
            BY <1>2, <3>1 DEF Jobs
        <3>3. job[p].kind \in {"loose", "repack"} => job[p].objects \subseteq job[p].pack
            BY <1>7, <1>17 DEF RepackingAt, ReadPack
        <3> QED
            BY <1>7, <2>2, <3>2, <3>3 DEF RepackingAt
    <2> QED
        BY <1>2, <1>17, <2>1, <2>2 DEF ReadPack
<1>18. CASE Flush(p)
    <2>1. UNCHANGED job /\ step[p] = "read" /\ step'[p] \in {"idle", "index"}
        BY <1>2, <1>18 DEF Flush, BeginPack
    <2> QED
        BY <1>7, <2>1 DEF RepackingAt
<1>19. CASE RemoveLoose(p)
    <2>1. CASE UNCHANGED job /\ step'[p] = "idle"
        BY <1>8, <2>1
    <2>2. CASE step' = step /\ \E x : job' = [job EXCEPT ![p].objects = @ \ {x}]
        <3>1. /\ job'[p].old = job[p].old /\ job'[p].objects \subseteq job[p].objects
              /\ job'[p].pack = job[p].pack /\ job'[p].kind = job[p].kind
            BY <1>2, <2>2 DEF Jobs
        <3>2. step[p] = "remove" /\ step'[p] = "remove" /\ Within(job[p].pack, Pairs')
            BY <1>1, <1>7, <1>19, <2>2 DEF RemoveLoose, RepackingAt
        <3> QED
            BY <1>7, <3>1, <3>2 DEF RepackingAt, Covered
    <2> QED
        BY <1>2, <1>19, <2>1, <2>2 DEF RemoveLoose
<1>20. CASE LooseRemoved(p)
    <2>1. /\ UNCHANGED job /\ step[p] = "remove"
          /\ \/ step'[p] = "idle"
             \/ step'[p] = "drop" /\ todo'[p] = OldPacks(p)
        BY <1>2, <1>20 DEF LooseRemoved
    <2>2. OldPacks(p)' = OldPacks(p)
        BY <2>1 DEF OldPacks
    <2>3. Within(job[p].pack, Pairs')
        BY <1>1, <1>7, <2>1 DEF RepackingAt
    <2> QED
        BY <1>7, <2>1, <2>2, <2>3 DEF RepackingAt, Covered
<1>21. CASE RemoveData(p)
    <2>1. CASE UNCHANGED job /\ step'[p] = "idle"
        BY <1>8, <2>1
    <2>2. CASE \E S \in todo[p] : /\ job' = [job EXCEPT ![p].objects = S]
                                  /\ step'[p] = "dropindex" /\ todo'[p] = todo[p] \ {S}
        <3>1. PICK S \in todo[p] : /\ job' = [job EXCEPT ![p].objects = S]
                                   /\ step'[p] = "dropindex" /\ todo'[p] = todo[p] \ {S}
            BY <2>2
        <3>2. /\ job'[p].old = job[p].old /\ job'[p].objects = S /\ job'[p].pack = job[p].pack
            BY <1>2, <3>1 DEF Jobs
        <3>3. step[p] = "drop" /\ Within(job[p].pack, Pairs') /\ OldPacks(p)' = OldPacks(p)
            BY <1>1, <1>7, <1>21, <3>2 DEF RemoveData, RepackingAt, OldPacks
        <3> QED
            BY <1>7, <3>1, <3>2, <3>3 DEF RepackingAt, Covered
    <2> QED
        BY <1>2, <1>21, <2>1, <2>2 DEF RemoveData
<1>22. CASE RemoveIndex(p)
    <2>1. CASE UNCHANGED job /\ step'[p] = "idle"
        BY <1>8, <2>1
    <2>2. CASE UNCHANGED <<job, todo>> /\ step'[p] = "drop"
        <3>1. step[p] = "dropindex" /\ Within(job[p].pack, Pairs') /\ OldPacks(p)' = OldPacks(p)
            BY <1>1, <1>7, <1>22, <2>2 DEF RemoveIndex, RepackingAt, OldPacks
        <3> QED
            BY <1>7, <2>2, <3>1 DEF RepackingAt, Covered
    <2> QED
        BY <1>2, <1>22, <2>1, <2>2 DEF RemoveIndex
<1> QED
    BY <1>23, <1>9, <1>10, <1>11, <1>12, <1>13, <1>14, <1>15, <1>16, <1>17, <1>18, <1>19, <1>20, <1>21, <1>22, <1>24, <1>25
        DEF Work

-----------------------------------------------------------------------------
(* PackStore: what a process knows of the directory                        *)

\* Whatever changes a pack on disk changes the time of the directory, and disturbs
\* every lookup of what is in the pack; a file aside or a lock changes the time alone.
LEMMA ChangesShow ==
    ASSUME StoreTypeOK, Where, Repacking, NEW p \in Procs, Work(p) \/ Killed(p)
    PROVE  \/ UNCHANGED <<data, idx>> /\ mtime' \in {mtime, clock}
           \/ \E S \in PackNames :
                 /\ mtime' = clock /\ Disturb(S)
                 /\ \A T \in PackNames : T # S => data'[T] = data[T] /\ idx'[T] = idx[T]
<1>1. /\ data \in [PackNames -> NoOrId] /\ idx \in [PackNames -> NoOrId]
      /\ step[p] \in {"write", "place", "data"} => job[p].pack \in PackNames
      /\ step[p] = "drop" => todo[p] \subseteq PackNames
      /\ step[p] = "dropindex" => job[p].objects \in PackNames
    BY DEF StoreTypeOK, NoOrId, Where, WhereAt, Naming, Placing, Repacking, RepackingAt, OldPacks, Jobs
<1>2. CASE Aside(p)
    BY <1>2, AsideStep
<1>3. CASE Killed(p)
    BY <1>3 DEF Killed, storeDisk, packDir
<1>7. CASE LockIndex(p)
    BY <1>7 DEF LockIndex
<1>4. CASE WriteIndex(p)
    BY <1>1, <1>4 DEF WriteIndex
<1>5. CASE PlaceData(p)
    BY <1>1, <1>5 DEF PlaceData
<1>6. CASE ThinData(p)
    BY <1>1, <1>6 DEF ThinData
<1>8. CASE RemoveData(p)
    BY <1>1, <1>8 DEF RemoveData
<1>9. CASE RemoveIndex(p)
    BY <1>1, <1>9 DEF RemoveIndex
<1> QED
    BY <1>2, <1>3, <1>4, <1>5, <1>6, <1>7, <1>8, <1>9 DEF Work, Aside

\* Who does not look at the directory again has not missed anything, but for what
\* changed while it listed; who reads all packs has them read, or on the list.
KnownAt(p) ==
    /\ mtime < stamp[p] =>
          \A S \in PackNames :
             \/ S \in Pairs <=> S \in Cached(p)
             \/ S \subseteq blind[p]
    /\ step[p] = "read" => Cached(p) \subseteq job[p].old \cup todo[p]

Known == \A p \in Procs : KnownAt(p)

LEMMA KnownStep ==
    ASSUME StoreTypeOK, Where, Timed, Repacking, Known, [StoreNext]_storeVars
    PROVE  Known'
<1> USE DEF Proceed, Over, Through
<1>1. /\ step \in [Procs -> Labels] /\ job \in [Procs -> Jobs]
      /\ todo \in [Procs -> SUBSET PackNames] /\ clock \in Nat /\ mtime \in Nat
      /\ packCache \in [Procs -> SUBSET PackNames] /\ bypath \in [Procs -> SUBSET PackNames]
      /\ stamp \in [Procs -> Nat] /\ blind \in [Procs -> SUBSET Objects]
    BY DEF StoreTypeOK
<1>2. UNCHANGED <<data, idx>> => Pairs' = Pairs
    BY DEF Pairs
\* Who goes on where it was, and knows what it knew.
<1>3. ASSUME NEW q \in Procs, UNCHANGED <<data, idx, mtime>> \/ mtime' = clock,
             step'[q] = step[q], job'[q] = job[q], todo'[q] = todo[q],
             packCache'[q] = packCache[q], bypath'[q] = bypath[q], stamp'[q] = stamp[q], blind'[q] = blind[q]
      PROVE  KnownAt(q)'
    <2>1. KnownAt(q) /\ stamp[q] <= clock
        BY DEF Known, Timed
    <2>2. Cached(q)' = Cached(q)
        BY <1>3 DEF Cached
    <2>3. CASE mtime' = clock
        BY <1>1, <1>3, <2>1, <2>2, <2>3 DEF KnownAt
    <2>4. CASE UNCHANGED <<data, idx, mtime>>
        BY <1>2, <1>3, <2>1, <2>2, <2>4 DEF KnownAt
    <2> QED
        BY <1>3, <2>3, <2>4
<1>4. CASE UNCHANGED storeVars \/ Tick
    BY <1>3, <1>4 DEF storeVars, storeDisk, packDir, known, history, Tick, Known
<1>5. ASSUME NEW p \in Procs, Work(p) \/ Killed(p), KnownAt(p)' PROVE Known'
    <2>1. UNCHANGED <<data, idx, mtime>> \/ mtime' = clock
        BY <1>5, ChangesShow
    <2>2. \A q \in Procs : q # p => KnownAt(q)'
        BY <1>3, <1>5, <2>1, OthersStay
    <2> QED
        BY <1>5, <2>2 DEF Known
<1>6. SUFFICES ASSUME NEW p \in Procs, Work(p) \/ Killed(p) PROVE KnownAt(p)'
    BY <1>4, <1>5, <1>6 DEF StoreNext
<1>7. KnownAt(p) /\ stamp[p] <= clock
    BY DEF Known, Timed
<1>8. UNCHANGED <<data, idx, mtime>> \/ mtime' = clock
    BY <1>6, ChangesShow
<1>9. ASSUME mtime' = clock, stamp'[p] \in Nat, stamp'[p] <= clock, step'[p] # "read" PROVE KnownAt(p)'
    BY <1>1, <1>9 DEF KnownAt
\* Who does not start to read, and knows what it knew.
<1>10. ASSUME step'[p] # "read",
              packCache'[p] = packCache[p], bypath'[p] = bypath[p], stamp'[p] = stamp[p], blind'[p] = blind[p]
       PROVE  KnownAt(p)'
    <2>1. Cached(p)' = Cached(p)
        BY <1>10 DEF Cached
    <2>2. CASE mtime' = clock
        BY <1>1, <1>7, <1>9, <1>10, <2>2
    <2>3. CASE UNCHANGED <<data, idx, mtime>>
        BY <1>2, <1>7, <1>10, <2>1, <2>3 DEF KnownAt
    <2> QED
        BY <1>8, <2>2, <2>3
<1>11. CASE UseCache(p)
    <2>1. UNCHANGED <<packCache, bypath, stamp, blind, data, idx, mtime, job>>
        BY <1>11 DEF UseCache, storeDisk, packDir, known, history
    <2>2. Cached(p)' = Cached(p) /\ Pairs' = Pairs
        BY <1>2, <2>1 DEF Cached
    <2>3. step'[p] = "read" => todo'[p] = Cached(p)
        BY <1>1, <1>11 DEF UseCache, Then
    <2> QED
        BY <1>7, <2>1, <2>2, <2>3 DEF KnownAt
<1>12. CASE List(p)
    <2>1. UNCHANGED <<packCache, bypath, stamp, blind>> /\ step'[p] # "read"
        BY <1>1, <1>12 DEF List, known, history
    <2> QED
        BY <1>10, <2>1
<1>13. CASE Stamp(p)
    <2> DEFINE list == job[p].listed
    <2>1. /\ UNCHANGED <<data, idx, mtime, job>> /\ stamp'[p] = clock
          /\ packCache'[p] = list /\ bypath'[p] = {}
        BY <1>1, <1>13 DEF Stamp, storeDisk, packDir
    <2>2. mtime < clock => blind'[p] = UNION ((Pairs \ list) \cup (list \ Pairs))
        BY <1>1, <1>13 DEF Stamp
    <2>3. Cached(p)' = list /\ Pairs' = Pairs
        BY <1>2, <2>1 DEF Cached
    <2>4. ASSUME mtime < clock, NEW S \in PackNames, ~(S \in Pairs <=> S \in list) PROVE S \subseteq blind'[p]
        BY <2>2, <2>4
    <2>5. step'[p] = "read" => todo'[p] = list
        BY <1>1, <1>13 DEF Stamp, Then
    <2> QED
        BY <2>1, <2>3, <2>4, <2>5 DEF KnownAt
<1>14. CASE \/ Lookup(p) \/ AddPack(p) \/ AddThinPack(p)
            \/ Pack(p, "loose") \/ Pack(p, "repack")
    <2>1. UNCHANGED <<packCache, bypath, stamp, blind>> /\ step[p] = "idle" /\ step'[p] # "read"
        BY <1>1, <1>14
            DEF Lookup, AddPack, AddThinPack, Pack, Begin, known
    <2> QED
        BY <1>10, <2>1
<1>15. CASE LookPack(p) \/ LookLoose(p)
    <2>1. UNCHANGED <<packCache, bypath, stamp, blind>> /\ step[p] = "look" /\ step'[p] \in {"look", "idle"}
        BY <1>1, <1>15 DEF LookPack, LookLoose, Answer, known, history
    <2> QED
        BY <1>10, <2>1
<1>16. CASE AddObject(p)
    BY <1>3, <1>16 DEF AddObject, packDir, known
<1>17. CASE LockIndex(p) \/ WriteIndex(p) \/ UnlockIndex(p) \/ NamePack(p)
    <2>1. UNCHANGED <<packCache, bypath, stamp, blind>> /\ step'[p] # "read"
        BY <1>1, <1>17 DEF LockIndex, WriteIndex, UnlockIndex, NamePack, known, history
    <2> QED
        BY <1>10, <2>1
<1>18. CASE PlaceData(p)
    <2>1. mtime' = clock /\ stamp' = stamp /\ step'[p] \in {"idle", "remove", "name"}
        BY <1>1, <1>18 DEF PlaceData, AfterPack, InCache, Timed
    <2> QED
        BY <1>1, <1>7, <1>9, <2>1
<1>19. CASE ThinData(p)
    <2>1. mtime' = clock /\ stamp' = stamp /\ step'[p] = "index"
        BY <1>1, <1>19 DEF ThinData, known
    <2> QED
        BY <1>1, <1>7, <1>9, <2>1
<1>26. CASE CheckThin(p)
    <2> DEFINE S == job[p].pack
    <2>1. UNCHANGED <<packCache, stamp, blind, data, idx, mtime>> /\ step'[p] = "idle"
        BY <1>1, <1>26 DEF CheckThin, storeDisk, packDir
    <2>2. \/ Cached(p)' = Cached(p)
          \/ S \in Pairs /\ Cached(p)' = Cached(p) \cup {S}
        BY <1>1, <1>26 DEF CheckThin, Know, Cached, Sane
    <2>3. Pairs' = Pairs
        BY <1>2, <2>1
    <2> QED
        BY <1>7, <2>1, <2>2, <2>3 DEF KnownAt
<1>20. CASE ListLoose(p) \/ ReadLoose(p)
    <2>1. UNCHANGED <<packCache, bypath, stamp, blind>> /\ step[p] \in {"loose", "get"} /\ step'[p] \in {"get", "idle", "read?", "index"}
        BY <1>1, <1>20 DEF ListLoose, ReadLoose, BeginPack, known, history
    <2> QED
        BY <1>10, <2>1
<1>21. CASE ReadPack(p)
    <2>1. UNCHANGED <<packCache, bypath, stamp, blind, data, idx, mtime>> /\ step[p] = "read"
        BY <1>21 DEF ReadPack, storeDisk, packDir, history
    <2>2. Cached(p)' = Cached(p) /\ Pairs' = Pairs
        BY <1>2, <2>1 DEF Cached
    <2>3. CASE step'[p] = "idle"
        BY <1>10, <2>1, <2>3
    <2>4. CASE step'[p] = "read" /\ job'[p].old \cup todo'[p] = job[p].old \cup todo[p]
        BY <1>7, <2>1, <2>2, <2>4 DEF KnownAt
    <2>5. ASSUME NEW S \in todo[p], job' = [job EXCEPT ![p].pack = @ \cup S, ![p].old = @ \cup {S}],
                 todo' = [todo EXCEPT ![p] = todo[p] \ {S}]
          PROVE  job'[p].old \cup todo'[p] = job[p].old \cup todo[p]
        <3>1. job'[p].old = job[p].old \cup {S} /\ todo'[p] = todo[p] \ {S}
            BY <1>1, <2>5 DEF Jobs
        <3> QED
            BY <3>1
    <2> QED
        BY <1>1, <1>21, <2>3, <2>4, <2>5 DEF ReadPack
<1>22. CASE Flush(p)
    <2>1. /\ UNCHANGED <<stamp, blind, data, idx, job>> /\ step[p] = "read" /\ todo[p] = {}
          /\ Cached(p)' = {}
        BY <1>1, <1>22 DEF Flush, history, Cached
    <2>2. CASE step'[p] = "index" /\ mtime' = clock
        BY <1>1, <1>7, <1>9, <2>1, <2>2
    <2>3. CASE job[p].pack = {} /\ step'[p] = "idle" /\ UNCHANGED mtime
        <3>1. \A S \in Cached(p) : S \subseteq {}
            BY <1>7, <2>1, <2>3 DEF KnownAt, Repacking, RepackingAt
        <3>2. Cached(p) \subseteq PackNames
            BY <1>1 DEF Cached
        <3>3. Cached(p) = {}
            BY <3>1, <3>2 DEF PackNames
        <3> QED
            BY <1>2, <1>7, <2>1, <2>3, <3>3 DEF KnownAt
    <2> QED
        BY <1>1, <1>22, <2>2, <2>3 DEF Flush, BeginPack
<1>23. CASE RemoveLoose(p) \/ LooseRemoved(p) \/ PacksRemoved(p)
    <2>1. /\ UNCHANGED <<packCache, bypath, stamp, blind>> /\ step[p] \in {"remove", "drop"}
          /\ step'[p] \in {"remove", "drop", "idle", "update"}
        BY <1>1, <1>23 DEF RemoveLoose, LooseRemoved, PacksRemoved, known, history
    <2> QED
        BY <1>10, <2>1
<1>24. CASE RemoveData(p) \/ RemoveIndex(p)
    <2>1. /\ UNCHANGED <<packCache, bypath, stamp, blind>> /\ step[p] \in {"dropindex", "drop"}
          /\ step'[p] \in {"drop", "dropindex", "idle"}
        BY <1>1, <1>24 DEF RemoveData, RemoveIndex, known
    <2> QED
        BY <1>10, <2>1
<1>25. CASE Killed(p)
    <2>1. stamp'[p] = 0 /\ step'[p] = "idle" /\ mtime' = mtime
        BY <1>1, <1>25 DEF Killed, storeDisk, packDir
    <2> QED
        BY <1>1, <2>1 DEF KnownAt
<1> QED
    BY <1>6, <1>11, <1>12, <1>13, <1>14, <1>15, <1>16, <1>17, <1>18, <1>19, <1>20, <1>21, <1>22, <1>23, <1>24, <1>25, <1>26
        DEF Work

-----------------------------------------------------------------------------
(* PackStore: lookups                                                      *)

\* What a lookup may rely on, unless it was disturbed.
LEMMA UndisturbedStays ==
    ASSUME StoreTypeOK, Where, Repacking, NEW p \in Procs, Work(p) \/ Killed(p),
           NEW q \in Procs, q # p \/ step[p] # "idle"
    PROVE  /\ disturbed[q] \subseteq disturbed'[q]
           /\ \A S \in Sane : S \in Sane' \/ S \subseteq disturbed'[q]
           /\ Pairs' = Pairs \/ disturbed'[q] # {}
           /\ looseObjects \subseteq looseObjects' \cup disturbed'[q]
<1> USE DEF storeDisk, packDir, known, history
<1>1. disturbed \in [Procs -> SUBSET Objects]
    BY DEF StoreTypeOK
<1>2. ASSUME NEW objs, Disturb(objs) PROVE disturbed'[q] = disturbed[q] \cup objs
    BY <1>2 DEF Disturb
<1>3. disturbed[q] \subseteq disturbed'[q] /\ looseObjects \subseteq looseObjects' \cup disturbed'[q]
    <2>1. CASE \/ Lookup(p) \/ AddPack(p) \/ AddThinPack(p)
               \/ Pack(p, "loose") \/ Pack(p, "repack")
        <3>1. looseObjects' = looseObjects /\ disturbed' = [disturbed EXCEPT ![p] = {}] /\ step[p] = "idle"
            BY <2>1 DEF Lookup, AddPack, AddThinPack, Pack, Begin
        <3> QED
            BY <1>1, <3>1
    <2>2. CASE AddObject(p)
        BY <2>2 DEF AddObject
    <2>3. CASE RemoveLoose(p)
        BY <1>2, <2>3 DEF RemoveLoose
    <2>4. CASE WriteIndex(p) \/ PlaceData(p) \/ ThinData(p)
        BY <1>2, <2>4 DEF WriteIndex, PlaceData, ThinData
    <2>5. CASE RemoveData(p) \/ RemoveIndex(p)
        BY <1>2, <2>5 DEF RemoveData, RemoveIndex
    <2>6. CASE \/ UseCache(p) \/ List(p) \/ Stamp(p) \/ LookPack(p) \/ LookLoose(p)
               \/ ListLoose(p) \/ ReadLoose(p) \/ ReadPack(p) \/ Flush(p) \/ NamePack(p)
               \/ LockIndex(p) \/ UnlockIndex(p) \/ CheckThin(p)
               \/ LooseRemoved(p) \/ PacksRemoved(p) \/ Killed(p)
        <3>1. UNCHANGED <<looseObjects, disturbed>>
            BY <2>6
                DEF UseCache, List, Stamp, LookPack, LookLoose, ListLoose,
                    ReadLoose, ReadPack, Flush, NamePack, LockIndex, UnlockIndex,
                    CheckThin, LooseRemoved, PacksRemoved, Killed
        <3> QED
            BY <3>1
    <2> QED
        BY <2>1, <2>2, <2>3, <2>4, <2>5, <2>6 DEF Work
<1>4. CASE UNCHANGED <<data, idx>>
    BY <1>3, <1>4 DEF Sane, Pairs
<1>5. CASE \E S \in PackNames :
              /\ mtime' = clock /\ Disturb(S)
              /\ \A T \in PackNames : T # S => data'[T] = data[T] /\ idx'[T] = idx[T]
    <2>1. PICK S \in PackNames :
              /\ Disturb(S)
              /\ \A T \in PackNames : T # S => data'[T] = data[T] /\ idx'[T] = idx[T]
        BY <1>5
    <2>2. S \subseteq disturbed'[q]
        BY <1>2, <2>1
    <2>3. disturbed'[q] # {}
        BY <2>2 DEF PackNames
    <2> QED
        BY <1>3, <2>1, <2>2, <2>3 DEF Sane, Pairs
<1> QED
    BY <1>4, <1>5, ChangesShow

\* As long as it looks, what was there when it began is in a file of its own, or in a
\* pack that it will still come to.
FoundAt(p) ==
    /\ job[p].kind = "lookup" /\ step[p] # "idle" => job[p].answer = None
    /\ step[p] \in Looking /\ job[p].there /\ job[p].object \notin disturbed[p] =>
         \/ job[p].object \in looseObjects
         \/ \E S \in Sane :
               /\ job[p].object \in S
               /\ step[p] = "look!" => S \in job[p].listed
               /\ step[p] = "look" /\ job[p].object \notin blind[p] => S \in todo[p]
    /\ step[p] = "look!" /\ disturbed[p] = {} => job[p].listed \subseteq Pairs
    /\ step[p] = "look" /\ disturbed[p] \cup blind[p] = {} => todo[p] \subseteq Pairs

AnsweredAt(p) ==
    job[p].kind = "lookup" /\ job[p].there =>
       /\ job[p].answer = "missing" => job[p].object \in disturbed[p] \cup blind[p]
       /\ job[p].answer = "IOError" => disturbed[p] \cup blind[p] # {}

Found == \A p \in Procs : FoundAt(p)

LEMMA FoundStep ==
    ASSUME StoreTypeOK, Where, Repacking, Known, Found, FoundUnlessMoved,
           [StoreNext]_storeVars
    PROVE  Found' /\ FoundUnlessMoved'
<1> USE DEF Proceed, Over, Through, Looking
<1>1. /\ step \in [Procs -> Labels] /\ job \in [Procs -> Jobs]
      /\ todo \in [Procs -> SUBSET PackNames] /\ \A q \in Procs : job[q] \in Jobs
      /\ packCache \in [Procs -> SUBSET PackNames] /\ bypath \in [Procs -> SUBSET PackNames]
      /\ disturbed \in [Procs -> SUBSET Objects] /\ blind \in [Procs -> SUBSET Objects]
      /\ mtime \in Nat /\ stamp \in [Procs -> Nat]
    BY DEF StoreTypeOK
<1>2. CASE UNCHANGED storeVars \/ Tick
    BY <1>2 DEF storeVars, storeDisk, packDir, known, history, Tick, Found, FoundAt, FoundUnlessMoved,
        Sane, Pairs
\* Who goes on where it was, with the same job: all there is was disturbed or stays.
<1>3. ASSUME NEW q \in Procs, step'[q] = step[q], job'[q] = job[q], todo'[q] = todo[q], blind'[q] = blind[q],
             disturbed[q] \subseteq disturbed'[q],
             \A S \in Sane : S \in Sane' \/ S \subseteq disturbed'[q],
             Pairs' = Pairs \/ disturbed'[q] # {},
             looseObjects \subseteq looseObjects' \cup disturbed'[q]
      PROVE  FoundAt(q)' /\ AnsweredAt(q)'
    <2>1. FoundAt(q) /\ AnsweredAt(q)
        BY DEF Found, FoundUnlessMoved, AnsweredAt
    <2>2. AnsweredAt(q)'
        BY <1>3, <2>1 DEF AnsweredAt
    <2>3. ASSUME step[q] \in Looking, job[q].there, job[q].object \notin disturbed'[q]
          PROVE  \/ job[q].object \in looseObjects'
                 \/ \E S \in Sane' :
                       /\ job[q].object \in S
                       /\ step[q] = "look!" => S \in job[q].listed
                       /\ step[q] = "look" /\ job[q].object \notin blind[q] => S \in todo[q]
        <3>1. job[q].object \notin disturbed[q]
            BY <1>3, <2>3
        <3>2. CASE job[q].object \in looseObjects
            BY <1>3, <2>3, <3>2
        <3>3. ASSUME NEW S \in Sane, job[q].object \in S PROVE S \in Sane'
            BY <1>3, <2>3, <3>3
        <3> QED
            BY <2>1, <2>3, <3>1, <3>2, <3>3 DEF FoundAt
    <2>4. /\ step[q] = "look!" /\ disturbed'[q] = {} => job[q].listed \subseteq Pairs'
          /\ step[q] = "look" /\ disturbed'[q] \cup blind[q] = {} => todo[q] \subseteq Pairs'
        <3>1. CASE disturbed'[q] = {}
            BY <1>3, <2>1, <3>1 DEF FoundAt
        <3>2. CASE disturbed'[q] # {}
            BY <3>2
        <3> QED
            BY <3>1, <3>2
    <2> QED
        BY <1>3, <2>1, <2>2, <2>3, <2>4 DEF FoundAt
<1>4. ASSUME NEW p \in Procs, Work(p) \/ Killed(p), FoundAt(p)' /\ AnsweredAt(p)'
      PROVE  Found' /\ FoundUnlessMoved'
    <2>1. \A q \in Procs : q # p => FoundAt(q)' /\ AnsweredAt(q)'
        BY <1>3, <1>4, OthersStay, UndisturbedStays
    <2> QED
        BY <1>4, <2>1 DEF Found, FoundUnlessMoved, AnsweredAt
<1>5. SUFFICES ASSUME NEW p \in Procs, Work(p) \/ Killed(p) PROVE FoundAt(p)' /\ AnsweredAt(p)'
    BY <1>2, <1>4, <1>5 DEF StoreNext
<1>6. FoundAt(p) /\ AnsweredAt(p) /\ WhereAt(p) /\ KnownAt(p)
    BY DEF Found, FoundUnlessMoved, AnsweredAt, Where, Known
\* Who does something else: no answer was given, and none is.
<1>7. ASSUME step[p] \notin Looking \cup {"idle"}, step'[p] \notin Looking, job'[p].kind = job[p].kind
      PROVE  FoundAt(p)' /\ AnsweredAt(p)'
    <2>1. job'[p].kind # "lookup"
        BY <1>6, <1>7 DEF WhereAt
    <2> QED
        BY <1>7, <2>1 DEF FoundAt, AnsweredAt
<1>8. CASE Lookup(p)
    <2>1. PICK x \in Objects :
            Begin(p, [NoJob EXCEPT !.kind = "lookup", !.object = x, !.there = x \in Stored], "look?")
        BY <1>8 DEF Lookup
    <2>2. /\ step'[p] = "look?" /\ job'[p].answer = None /\ job'[p].object = x /\ (job'[p].there <=> x \in Stored)
          /\ UNCHANGED <<looseObjects, data, idx>>
        BY <1>1, <2>1 DEF Begin, NoJob
    <2>3. x \in Stored => x \in looseObjects \/ \E S \in Sane : x \in S
        BY DEF Stored
    <2>4. Sane' = Sane /\ looseObjects' = looseObjects
        BY <2>2 DEF Sane, Pairs
    <2>5. None \notin {"missing", "IOError"}
        BY PackStoreAssumption DEF Answers
    <2> QED
        BY <2>2, <2>3, <2>4, <2>5 DEF FoundAt, AnsweredAt
<1>9. CASE UseCache(p) \/ List(p) \/ Stamp(p)
    <2>1. /\ UNCHANGED <<looseObjects, data, idx, mtime, disturbed>>
          /\ job'[p].kind = job[p].kind /\ job'[p].there = job[p].there /\ job'[p].object = job[p].object
          /\ job'[p].answer = job[p].answer
        BY <1>1, <1>9 DEF UseCache, List, Stamp, storeDisk, packDir, history, Jobs
    <2>2. Sane' = Sane /\ Pairs' = Pairs
        BY <2>1 DEF Sane, Pairs
    <2>3. CASE step[p] \notin Looking
        <3>1. step[p] # "idle" /\ step'[p] \notin Looking
            BY <1>1, <1>9, <2>3 DEF UseCache, List, Stamp, Then
        <3> QED
            BY <1>7, <2>1, <2>3, <3>1
    <2>4. CASE step[p] \in Looking
        <3>1. job[p].kind = "lookup" /\ job'[p].answer = None /\ None \notin {"missing", "IOError"}
            BY <1>6, <2>1, <2>4, PackStoreAssumption DEF WhereAt, FoundAt, Answers
        <3>2. AnsweredAt(p)'
            BY <3>1 DEF AnsweredAt
        <3>3. CASE List(p)
            <4>1. step'[p] = "look!" /\ job'[p].listed = Pairs
                BY <1>1, <2>4, <3>3 DEF List, Jobs
            <4>2. step[p] = "look?"
                BY <2>4, <3>3 DEF List
            <4>3. \A S \in Sane : S \in Pairs
                BY DEF Sane
            <4> QED
                BY <1>6, <2>1, <2>2, <3>1, <3>2, <4>1, <4>2, <4>3 DEF FoundAt
        <3>4. CASE UseCache(p)
            <4>1. step[p] = "look?" /\ step'[p] = "look" /\ todo'[p] = Cached(p) /\ UNCHANGED <<job, blind>>
                BY <1>1, <2>4, <3>4 DEF UseCache, Then, history
            <4>2. mtime < stamp[p]
                BY <1>1, <3>4 DEF UseCache, Stale
            <4>3. \A S \in PackNames : (S \in Pairs <=> S \in Cached(p)) \/ S \subseteq blind[p]
                BY <1>6, <4>1, <4>2 DEF KnownAt
            <4>4. \A S \in Sane : S \in Pairs /\ S \in PackNames
                BY DEF Sane, Pairs
            <4>5. ASSUME job[p].there, job[p].object \notin disturbed[p]
                  PROVE  \/ job[p].object \in looseObjects
                         \/ \E S \in Sane : job[p].object \in S /\ (job[p].object \notin blind[p] => S \in Cached(p))
                BY <1>6, <2>4, <4>3, <4>4, <4>5 DEF FoundAt
            <4>6. blind[p] = {} => Cached(p) \subseteq Pairs
                <5>1. Cached(p) \subseteq PackNames
                    BY <1>1 DEF Cached
                <5> QED
                    BY <4>3, <5>1 DEF PackNames
            <4> QED
                BY <2>1, <2>2, <3>1, <3>2, <4>1, <4>5, <4>6 DEF FoundAt
        <3>5. CASE Stamp(p)
            <4>1. step[p] = "look!" /\ step'[p] = "look" /\ todo'[p] = job[p].listed /\ UNCHANGED job
                BY <1>1, <2>4, <3>5 DEF Stamp, Then
            <4> QED
                BY <1>6, <2>1, <2>2, <3>1, <3>2, <4>1 DEF FoundAt
        <3> QED
            BY <1>9, <3>3, <3>4, <3>5
    <2> QED
        BY <2>3, <2>4
<1>10. CASE LookPack(p)
    <2>1. PICK S \in todo[p] :
             \/ job[p].object \notin S /\ Through(p, "look", todo[p] \ {S}) /\ UNCHANGED job
             \/ (Index(p, S) = None \/ Data(p, S) = None) /\ Answer(p, "IOError")
             \/ \E a \in {"found", "ChecksumMismatch", "misread"} : Answer(p, a)
        BY <1>10 DEF LookPack
    <2>2. UNCHANGED <<looseObjects, data, idx, disturbed, blind>> /\ step[p] = "look" /\ job[p].answer = None
        BY <1>6, <1>10 DEF LookPack, storeDisk, packDir, history, FoundAt, WhereAt
    <2>3. Sane' = Sane /\ Pairs' = Pairs
        BY <2>2 DEF Sane, Pairs
    <2>4. ASSUME NEW a, Answer(p, a)
          PROVE  job'[p].answer = a /\ step'[p] = "idle" /\ job'[p].there = job[p].there /\ job'[p].object = job[p].object
        BY <1>1, <2>4 DEF Answer, Jobs
    <2>5. ASSUME NEW a \in {"found", "ChecksumMismatch", "misread"}, Answer(p, a) PROVE FoundAt(p)' /\ AnsweredAt(p)'
        <3>1. job'[p].answer \in {"ChecksumMismatch", "found", "misread"} /\ step'[p] = "idle"
            BY <2>4, <2>5
        <3> QED
            BY <3>1 DEF FoundAt, AnsweredAt
    <2>6. CASE (Index(p, S) = None \/ Data(p, S) = None) /\ Answer(p, "IOError")
        <3>1. S \notin Pairs /\ S \in todo[p]
            BY <2>6 DEF Pairs, Index, Data
        <3>2. disturbed[p] \cup blind[p] # {}
            BY <1>6, <2>2, <3>1 DEF FoundAt
        <3>3. job'[p].answer = "IOError" /\ step'[p] = "idle"
            BY <2>4, <2>6
        <3> QED
            BY <2>2, <3>2, <3>3 DEF FoundAt, AnsweredAt
    <2>7. CASE job[p].object \notin S /\ Through(p, "look", todo[p] \ {S}) /\ UNCHANGED job
        <3>1. step'[p] = "look" /\ todo'[p] = todo[p] \ {S}
            BY <1>1, <2>7
        <3>2. AnsweredAt(p)'
            BY <1>6, <2>2, <2>7 DEF AnsweredAt
        <3> QED
            BY <1>6, <2>2, <2>3, <2>7, <3>1, <3>2 DEF FoundAt
    <2> QED
        BY <2>1, <2>5, <2>6, <2>7
<1>11. CASE LookLoose(p)
    <2>1. /\ step[p] = "look" /\ todo[p] = {} /\ UNCHANGED <<looseObjects, disturbed, blind>>
          /\ Answer(p, IF job[p].object \in looseObjects THEN "found" ELSE "missing")
        BY <1>11 DEF LookLoose, storeDisk, history
    <2>2. /\ step'[p] = "idle" /\ job'[p].there = job[p].there /\ job'[p].object = job[p].object
          /\ job'[p].answer = IF job[p].object \in looseObjects THEN "found" ELSE "missing"
        BY <1>1, <2>1 DEF Answer, Jobs
    <2>3. job[p].there /\ job[p].object \notin disturbed[p] \cup blind[p] => job[p].object \in looseObjects
        BY <1>6, <2>1 DEF FoundAt
    <2> QED
        BY <2>1, <2>2, <2>3 DEF FoundAt, AnsweredAt
<1>12. CASE AddObject(p)
    <2>1. UNCHANGED <<data, idx, mtime, step, job, todo, disturbed, blind>> /\ looseObjects \subseteq looseObjects'
        BY <1>12 DEF AddObject, packDir
    <2>2. Sane' = Sane /\ Pairs' = Pairs
        BY <2>1 DEF Sane, Pairs
    <2> QED
        BY <1>3, <2>1, <2>2
<1>13. CASE AddPack(p) \/ AddThinPack(p) \/ Pack(p, "loose") \/ Pack(p, "repack")
    <2>1. step'[p] \notin Looking /\ job'[p].kind # "lookup"
        <3>1. CASE AddPack(p)
            BY <1>1, <3>1 DEF AddPack, Begin, NoJob
        <3>2. CASE AddThinPack(p)
            <4>1. PICK S \in PackNames : Begin(p, [NoJob EXCEPT !.kind = "thin", !.pack = S], "data")
                BY <3>2 DEF AddThinPack
            <4> QED
                BY <1>1, <4>1 DEF Begin, NoJob
        <3>3. CASE Pack(p, "loose") \/ Pack(p, "repack")
            <4>1. PICK kind \in {"loose", "repack"} : Begin(p, [NoJob EXCEPT !.kind = kind], "loose")
                BY <3>3 DEF Pack
            <4> QED
                BY <1>1, <4>1 DEF Begin, NoJob
        <3> QED
            BY <1>13, <3>1, <3>2, <3>3
    <2> QED
        BY <2>1 DEF FoundAt, AnsweredAt
<1>14. CASE LockIndex(p) \/ WriteIndex(p) \/ UnlockIndex(p)
    <2>1. /\ step[p] \in {"index", "write", "unlock", "fail"} /\ UNCHANGED job
          /\ step'[p] \in {"idle", "write", "unlock", "fail", "place?", "check"}
        BY <1>1, <1>14 DEF LockIndex, WriteIndex, UnlockIndex
    <2> QED
        BY <1>7, <2>1
<1>19. CASE PlaceData(p) \/ ThinData(p) \/ CheckThin(p)
    <2>1. /\ step[p] \in {"place", "data", "check"} /\ UNCHANGED job
          /\ step'[p] \in {"idle", "remove", "name", "index"}
        BY <1>1, <1>19 DEF PlaceData, AfterPack, ThinData, CheckThin
    <2> QED
        BY <1>7, <2>1
<1>15. CASE ListLoose(p) \/ ReadLoose(p) \/ Flush(p) \/ NamePack(p)
    <2>1. /\ step[p] \in {"loose", "get", "read", "name"} /\ job'[p].kind = job[p].kind
          /\ step'[p] \in {"get", "read?", "index", "idle", "remove"}
        BY <1>1, <1>15 DEF ListLoose, ReadLoose, BeginPack, Flush, NamePack, Jobs
    <2> QED
        BY <1>7, <2>1
<1>16. CASE ReadPack(p)
    <2>1. step[p] = "read" /\ step'[p] \in {"read", "idle"} /\ job'[p].kind = job[p].kind
        BY <1>1, <1>16 DEF ReadPack, Jobs
    <2> QED
        BY <1>7, <2>1
<1>17. CASE \/ RemoveLoose(p) \/ LooseRemoved(p) \/ RemoveData(p) \/ RemoveIndex(p)
            \/ PacksRemoved(p)
    <2>1. step[p] \in Removing /\ step'[p] \in Removing \cup {"idle", "update"}
        BY <1>1, <1>17
            DEF RemoveLoose, LooseRemoved, RemoveData, RemoveIndex, PacksRemoved, Removing
    <2>2. UNCHANGED job \/ \E objs : job' = [job EXCEPT ![p].objects = objs]
        BY <1>17
            DEF RemoveLoose, LooseRemoved, RemoveData, RemoveIndex, PacksRemoved
    <2>3. job'[p].kind = job[p].kind
        BY <1>1, <2>2 DEF Jobs
    <2> QED
        BY <1>7, <2>1, <2>3 DEF Removing
<1>18. CASE Killed(p)
    <2>1. step[p] # "idle" /\ step'[p] = "idle" /\ UNCHANGED job
        BY <1>1, <1>18 DEF Killed
    <2>2. job[p].kind = "lookup" => job[p].answer = None /\ None \notin {"missing", "IOError"}
        BY <1>6, <2>1, PackStoreAssumption DEF FoundAt, Answers
    <2> QED
        BY <2>1, <2>2 DEF FoundAt, AnsweredAt
<1> QED
    BY <1>5, <1>8, <1>9, <1>10, <1>11, <1>12, <1>13, <1>14, <1>15, <1>16, <1>17, <1>18, <1>19 DEF Work

-----------------------------------------------------------------------------
(* PackStore: the inductive invariant                                      *)

\* All of it together is inductive.
PacksInvariant ==
    /\ StoreTypeOK /\ Where /\ Timed /\ Writing /\ FilesMatch
    /\ Repacking /\ Kept /\ Known /\ Found /\ FoundUnlessMoved

LEMMA PacksStart ==
    ASSUME StoreInit
    PROVE  PacksInvariant
<1>1. PICK at \in Stores : /\ looseObjects = at.loose
                           /\ data = [S \in PackNames |-> IF S \in at.packs THEN 0 ELSE None]
                           /\ idx = data
                           /\ safe = at.loose \cup UNION at.packs
    BY DEF StoreInit
<1>2. /\ at.loose \in SUBSET Objects /\ at.packs \in SUBSET PackNames /\ None \notin Nat
    BY PackStoreAssumption
<1>3. /\ idxLock = [S \in PackNames |-> None]
      /\ clock = 0 /\ mtime = 0 /\ jobs = 0 /\ contended = {}
      /\ step = [p \in Procs |-> "idle"] /\ job = [p \in Procs |-> NoJob]
      /\ todo = [p \in Procs |-> {}] /\ packCache = [p \in Procs |-> {}] /\ bypath = [p \in Procs |-> {}]
      /\ opened = [p \in Procs |-> [S \in PackNames |-> Closed]] /\ stamp = [p \in Procs |-> 0]
      /\ disturbed = [p \in Procs |-> {}] /\ blind = [p \in Procs |-> {}]
    BY DEF StoreInit
<1>4. \A p \in Procs : step[p] = "idle" /\ job[p] = NoJob
    BY <1>3
<1>5. StoreTypeOK
    <2>1. StoreDisk
        <3>1. data \in [PackNames -> NoOrId]
            BY <1>1 DEF NoOrId
        <3>2. UNION at.packs \in SUBSET Objects
            BY <1>2 DEF PackNames
        <3> QED
            BY <1>1, <1>2, <1>3, <3>1, <3>2 DEF StoreDisk, NoOrId
    <2>2. StoreWhere
        BY <1>3 DEF StoreWhere, Labels
    <2>3. StoreKnown /\ StoreHistory
        <3>1. Closed \in OpenFiles
            BY DEF Closed, OpenFiles, NoOrId
        <3> QED
            BY <1>3, <3>1 DEF StoreKnown, StoreHistory
    <2>4. StoreJob
        BY <1>3 DEF StoreJob, NoJob, Jobs
    <2> QED
        BY <2>1, <2>2, <2>3, <2>4, StoreTypeParts
<1>6. Where /\ Timed /\ Repacking
    BY <1>3, <1>4
        DEF Where, WhereAt, Timed, Repacking, RepackingAt, NoJob, Looking, Naming, Placing, Removing, Gathered
<1>7. Writing
    BY <1>4 DEF Writing, OneWriter, OwnFile, Between, Halfway, Placing
<1>8. FilesMatch
    BY <1>1 DEF FilesMatch, Pairs
<1>9. Kept
    <2>1. at.packs \subseteq Pairs
        BY <1>1, <1>2 DEF Pairs
    <2> QED
        BY <1>1, <2>1 DEF Kept
<1>10. Known
    <2> SUFFICES ASSUME NEW p \in Procs PROVE KnownAt(p)
        BY DEF Known
    <2>1. ~(mtime < stamp[p]) /\ step[p] # "read"
        BY <1>3, <1>4
    <2> QED
        BY <2>1 DEF KnownAt
<1>11. Found /\ FoundUnlessMoved
    BY <1>4 DEF Found, FoundAt, FoundUnlessMoved, NoJob, Looking
<1> QED
    BY <1>5, <1>6, <1>7, <1>8, <1>9, <1>10, <1>11 DEF PacksInvariant

LEMMA PacksStep ==
    ASSUME PacksInvariant, [StoreNext]_storeVars
    PROVE  PacksInvariant'
<1> USE DEF PacksInvariant
<1>1. StoreTypeOK'
    <2>1. StoreDisk' /\ StoreWhere' /\ StoreKnown' /\ StoreHistory' /\ StoreJob'
        BY StoreDiskStep, StoreWhereStep, StoreKnownStep, StoreHistoryStep, StoreJobStep
    <2> QED
        BY <2>1 DEF StoreTypeOK, StoreDisk, StoreWhere, StoreKnown, StoreHistory, StoreJob, NoOrId, OpenFiles
<1>2. Where' /\ Timed'
    BY WhereStep, TimedStep
<1>3. Writing' /\ FilesMatch'
    BY WritingStep
<1>4. Repacking' /\ Kept'
    BY RepackingStep, KeptStep
<1>5. Known'
    BY KnownStep
<1>6. Found' /\ FoundUnlessMoved'
    BY FoundStep
<1> QED
    BY <1>1, <1>2, <1>3, <1>4, <1>5, <1>6

\* What is kept in packs can be read, as long as the files belong together.
LEMMA KeptIsFound ==
    ASSUME Kept, FilesMatch
    PROVE  NothingLost
BY DEF Kept, FilesMatch, NothingLost, Stored, Sane

LEMMA PacksInvariantHolds == StoreSpec => []PacksInvariant
<1>1. StoreInit => PacksInvariant
    BY PacksStart
<1>2. PacksInvariant /\ [StoreNext]_storeVars => PacksInvariant'
    BY PacksStep
<1> QED
    BY <1>1, <1>2, PTL DEF StoreSpec

\* The store on disk and what each process knows have their types: PackStore, StoreTypeOK.
THEOREM StoreTypeCorrect == StoreSpec => []StoreTypeOK
<1>1. PacksInvariant => StoreTypeOK
    BY DEF PacksInvariant
<1> QED
    BY <1>1, PacksInvariantHolds, PTL

\* What was stored with success stays stored, whoever packs again and removes what
\* was packed, and whoever is killed at it: it is in a loose object or in the two files
\* of a pack.  The files can be read unless they were left apart (contended).
THEOREM StoreLosesNothing == StoreSpec => []NothingLost
<1>1. PacksInvariant => NothingLost
    BY KeptIsFound DEF PacksInvariant
<1> QED
    BY <1>1, PacksInvariantHolds, PTL

\* The index and the data of a pack are of one job, unless two jobs wrote the pack
\* at once, one was killed between the files, or a thin pack came to a lock of the index
\* that was not its own after it had put its data in place.
THEOREM PackFilesMatch == StoreSpec => []FilesMatch
<1>1. PacksInvariant => FilesMatch
    BY DEF PacksInvariant
<1> QED
    BY <1>1, PacksInvariantHolds, PTL

\* A lookup finds what was there when it began: what was listed earlier is looked at
\* again whenever the directory may have changed since.
THEOREM LookupsFind == StoreSpec => []FoundUnlessMoved
<1>1. PacksInvariant => FoundUnlessMoved
    BY DEF PacksInvariant
<1> QED
    BY <1>1, PacksInvariantHolds, PTL

-----------------------------------------------------------------------------
(* Worktree: paths, trees and entries                                      *)

LEMMA AboveFacts ==
    ASSUME NEW p \in Paths
    PROVE  /\ Above(p) \subseteq Paths /\ Parent[p] \in Above(p) \cup {0}
           /\ p \notin Above(p)
           /\ \A q \in Above(p) : Above(q) \subseteq Above(p)
<1>1. \A q \in Paths : Above(q) = {d \in Paths : \A up \in Ups(q) : d \in up}
    BY DEF Above, Ancestors
<1>2. \A q \in Paths, up \in SUBSET Paths :
         up \in Ups(q) <=> Parent[q] \in up \cup {0} /\ \A d \in up : Parent[d] \in up \cup {0}
    BY DEF Ups
<1>3. Parent[p] \in Above(p) \cup {0}
    <2>1. \A up \in Ups(p) : Parent[p] \in up \cup {0}
        BY DEF Ups
    <2>2. Parent[p] \in Paths \cup {0}
        BY TreePathsAssumption
    <2> QED
        BY <1>1, <2>1, <2>2
<1>4. p \notin Above(p)
    <2> DEFINE smaller == {q \in Paths : q < p}
    <2>1. \A q \in Paths : q \in Nat /\ Parent[q] \in Paths \cup {0} /\ Parent[q] \in Nat /\ Parent[q] < q
        <3>1. Paths \subseteq Nat
            BY TreePathsAssumption
        <3>2. \A q \in Paths : Parent[q] \in Paths \cup {0} /\ Parent[q] < q
            BY TreePathsAssumption
        <3>3. ASSUME NEW q \in Paths PROVE Parent[q] \in Nat
            <4>1. Parent[q] \in Paths \cup {0}
                BY <3>2
            <4>2. \A x : x \in Paths => x \in Nat
                BY <3>1
            <4> QED
                BY <4>1, <4>2
        <3> QED
            BY <3>1, <3>2, <3>3
    <2>2. \A q \in smaller : Parent[q] \in smaller \cup {0}
        <3> SUFFICES ASSUME NEW q \in smaller PROVE Parent[q] \in smaller \cup {0}
            OBVIOUS
        <3>1. q \in Nat /\ p \in Nat /\ q < p /\ Parent[q] \in Nat /\ Parent[q] < q /\ Parent[q] \in Paths \cup {0}
            BY <2>1
        <3> QED
            BY <3>1
    <2>3. Parent[p] \in smaller \cup {0} /\ p \notin smaller
        BY <2>1
    <2>4. smaller \in SUBSET Paths
        OBVIOUS
    <2>5. smaller \in Ups(p)
        BY <1>2, <2>2, <2>3, <2>4
    <2> QED
        BY <1>1, <2>3, <2>5
<1>5. ASSUME NEW q \in Above(p) PROVE Above(q) \subseteq Above(p)
    <2>1. q \in Paths
        BY <1>1
    <2>2. ASSUME NEW up \in Ups(p) PROVE up \in Ups(q)
        <3>1. up \in SUBSET Paths /\ q \in up
            BY <1>1 DEF Ups
        <3> QED
            BY <1>2, <2>1, <3>1
    <2> QED
        BY <1>1, <2>1, <2>2
<1> QED
    BY <1>1, <1>3, <1>4, <1>5

LEMMA BlobFacts ==
    /\ Absent \notin Blobs /\ Dir \notin Blobs /\ Absent # Dir
    /\ \A e \in Blobs : File(e) /\ e.kind \in {"file", "link"}
    /\ ~File(Absent) /\ ~File(Dir) /\ Dir.kind = "dir" /\ Absent.kind = "none"
    BY DEF Blobs, Absent, Dir, File

LEMMA IndexFacts ==
    /\ \A ix \in Indexes : DOMAIN ix \subseteq Paths /\ ix \in [DOMAIN ix -> Blobs]
    /\ \A ps \in SUBSET Paths : \A ix \in [ps -> Blobs] : ix \in Indexes
    /\ \A t : t \in Trees <=> t \in Indexes /\ Proper(DOMAIN t)
<1>1. \A ix \in Indexes : DOMAIN ix \subseteq Paths /\ ix \in [DOMAIN ix -> Blobs]
    BY DEF Indexes
<1>2. \A ps \in SUBSET Paths : \A ix \in [ps -> Blobs] : ix \in Indexes
    BY DEF Indexes
<1>3. ASSUME NEW t \in Trees PROVE t \in Indexes /\ Proper(DOMAIN t)
    BY DEF Indexes, Trees
<1>4. ASSUME NEW t \in Indexes, Proper(DOMAIN t) PROVE t \in Trees
    BY <1>4 DEF Indexes, Trees
<1> QED
    BY <1>1, <1>2, <1>3, <1>4

\* An entry of an index is set or taken out.
LEMMA EntryFacts ==
    ASSUME NEW ix \in Indexes, NEW f \in Paths
    PROVE  /\ Without(ix, f) \in Indexes
           /\ \A e \in Blobs : With(ix, f, e) \in Indexes
<1>1. DOMAIN ix \subseteq Paths /\ ix \in [DOMAIN ix -> Blobs]
    BY IndexFacts
<1>2. Without(ix, f) \in [DOMAIN ix \ {f} -> Blobs]
    BY <1>1 DEF Without
<1>3. \A e \in Blobs : With(ix, f, e) \in [DOMAIN ix \cup {f} -> Blobs]
    BY <1>1 DEF With
<1> QED
    BY <1>1, <1>2, <1>3, IndexFacts

\* What commit_tree makes of an index is a tree, and the index again if it was one.
LEMMA CommitTreeFacts ==
    ASSUME NEW ix \in Indexes
    PROVE  /\ CommitTree(ix) \in Trees
           /\ Proper(DOMAIN ix) => CommitTree(ix) = ix
<1> DEFINE standing == {p \in DOMAIN ix : Below(p) \cap DOMAIN ix = {}}
<1>1. DOMAIN ix \subseteq Paths /\ ix \in [DOMAIN ix -> Blobs]
    BY IndexFacts
<1>2. CommitTree(ix) = [p \in standing |-> ix[p]]
    BY DEF CommitTree
<1>3. standing \subseteq Paths /\ CommitTree(ix) \in [standing -> Blobs]
    BY <1>1, <1>2
<1>4. Proper(DOMAIN CommitTree(ix))
    BY <1>2 DEF Proper
<1>5. ASSUME Proper(DOMAIN ix) PROVE CommitTree(ix) = ix
    <2>1. standing = DOMAIN ix
        BY <1>5 DEF Proper
    <2> HIDE DEF standing
    <2> QED
        BY <1>1, <1>2, <2>1
<1> QED
    BY <1>3, <1>4, <1>5, IndexFacts

-----------------------------------------------------------------------------
(* Worktree: calls                                                         *)

\* What a process does
Acts(p) ==
    \/ Add(p) \/ Rm(p) \/ Commit(p) \/ StashPush(p) \/ Reset(p)
    \/ Open(p) \/ FileStep(p) \/ Write(p) \/ MakeCommit(p)

\* A reset goes through the files of its tree.
Listed ==
    \A p \in Procs : call[p].op = "reset" =>
       /\ phase[p] = "open" => left[p] = DOMAIN call[p].tree
       /\ phase[p] = "files" => left[p] \subseteq DOMAIN call[p].tree

\* What a process is doing with what in mind
AtHand(q) == <<call[q], phase[q], mem[q], left[q]>>

LEMMA StartedCall ==
    ASSUME WorkTypeOK, NEW p \in Procs,
           Add(p) \/ Rm(p) \/ Commit(p) \/ StashPush(p) \/ Reset(p)
    PROVE  \E c \in Calls, files \in SUBSET Paths :
              Call(p, c, files) /\ (c.op = "reset" => files = DOMAIN c.tree)
<1>1. NoEntries \in Trees
    <2>1. NoEntries \in [{} -> Blobs] /\ DOMAIN NoEntries = {}
        BY DEF NoEntries
    <2> QED
        BY <2>1, IndexFacts DEF Proper
<1>2. /\ \A o \in {"add", "commit", "stash"} : [NoCall EXCEPT !.op = o] \in Calls
      /\ \A b \in BOOLEAN : [NoCall EXCEPT !.op = "remove", !.cached = b] \in Calls
      /\ \A t \in Trees : [NoCall EXCEPT !.op = "reset", !.tree = t] \in Calls
    BY <1>1 DEF NoCall, Calls
<1>3. CASE Add(p)
    <2>1. Untracked(work, index) \subseteq Paths
        BY DEF Untracked, FilesIn
    <2>2. PICK ps \in Args : Call(p, [NoCall EXCEPT !.op = "add"], IF ps = {} THEN Untracked(work, index) ELSE ps)
        BY <1>3 DEF Add
    <2>3. ps \subseteq Paths
        BY WorktreeAssumption
    <2>4. [NoCall EXCEPT !.op = "add"].op = "add"
        BY DEF NoCall
    <2> QED
        BY <1>2, <2>1, <2>2, <2>3, <2>4
<1>4. CASE Rm(p)
    <2>1. PICK ps \in Args, b \in BOOLEAN : Call(p, [NoCall EXCEPT !.op = "remove", !.cached = b], ps)
        BY <1>4 DEF Rm
    <2>2. ps \subseteq Paths
        BY WorktreeAssumption
    <2>3. [NoCall EXCEPT !.op = "remove", !.cached = b].op = "remove"
        BY DEF NoCall
    <2> QED
        BY <1>2, <2>1, <2>2, <2>3
<1>5. CASE Commit(p) \/ StashPush(p)
    <2>1. PICK o \in {"commit", "stash"} : Call(p, [NoCall EXCEPT !.op = o], {})
        BY <1>5 DEF Commit, StashPush
    <2>2. [NoCall EXCEPT !.op = o].op # "reset" /\ [NoCall EXCEPT !.op = o] \in Calls
        BY <1>2 DEF NoCall
    <2>3. {} \in SUBSET Paths
        OBVIOUS
    <2> QED
        BY <2>1, <2>2, <2>3
<1>6. CASE Reset(p)
    <2>1. PICK t \in trees : Call(p, [NoCall EXCEPT !.op = "reset", !.tree = t], DOMAIN t)
        BY <1>6 DEF Reset
    <2>2. t \in Trees
        BY DEF WorkTypeOK
    <2>3. DOMAIN t \subseteq Paths
        BY <2>2, IndexFacts
    <2>4. [NoCall EXCEPT !.op = "reset", !.tree = t].tree = t
        BY DEF NoCall
    <2> QED
        BY <1>2, <2>1, <2>2, <2>3, <2>4
<1> QED
    BY <1>3, <1>4, <1>5, <1>6

LEMMA OthersAtHand ==
    ASSUME WorkTypeOK, NEW p \in Procs, Acts(p), NEW q \in Procs, q # p
    PROVE  /\ AtHand(q)' = AtHand(q)
           /\ calm'[q] => calm[q] /\ UNCHANGED <<work, index, head>>
<1> USE DEF WorkTypeOK, AtHand, Goes, Ends, Entered, Disturbs
<1>1. CASE Add(p) \/ Rm(p) \/ Commit(p) \/ StashPush(p) \/ Reset(p)
    BY <1>1, StartedCall DEF Call
<1>2. CASE Open(p)
    BY <1>2 DEF Open
<1>3. CASE FileStep(p)
    <2>1. PICK f \in left[p] : StageFile(p, f) \/ RemoveFile(p, f) \/ StashFile(p, f) \/ CheckOutFile(p, f)
        BY <1>3 DEF FileStep
    <2>2. UNCHANGED <<index, head, call>> /\ Disturbs(p)
        BY <1>3 DEF FileStep
    <2>3. CASE StageFile(p, f)
        BY <2>2, <2>3 DEF StageFile
    <2>4. CASE RemoveFile(p, f)
        BY <2>2, <2>4 DEF RemoveFile
    <2>5. CASE StashFile(p, f)
        BY <2>2, <2>5 DEF StashFile
    <2>6. CASE CheckOutFile(p, f)
        BY <2>2, <2>6 DEF CheckOutFile
    <2> QED
        BY <2>1, <2>3, <2>4, <2>5, <2>6
<1>4. CASE Write(p) \/ MakeCommit(p)
    BY <1>4 DEF Write, MakeCommit
<1> QED
    BY <1>1, <1>2, <1>3, <1>4 DEF Acts

-----------------------------------------------------------------------------
(* Worktree: the types                                                     *)

LEMMA WorkTypeStart == WorkInit => WorkTypeOK
<1> SUFFICES ASSUME WorkInit PROVE WorkTypeOK
    OBVIOUS
<1>1. PICK s \in Starts : head = s[1] /\ trees = {s[1], s[2]}
    BY DEF WorkInit
<1>2. s[1] \in Trees /\ s[2] \in Trees
    BY WorktreeAssumption
<1>3. head \in Indexes
    BY <1>1, <1>2, IndexFacts
<1>4. work \in [Paths -> Blobs \cup {Absent, Dir}]
    <2>1. work = CheckedOut(head) /\ DOMAIN head \subseteq Paths /\ head \in [DOMAIN head -> Blobs]
        BY <1>3, IndexFacts DEF WorkInit
    <2> QED
        BY <2>1 DEF CheckedOut
<1>5. NoEntries \in Indexes /\ NoEntries \in Trees
    <2>1. NoEntries \in [{} -> Blobs] /\ DOMAIN NoEntries = {}
        BY DEF NoEntries
    <2> QED
        BY <2>1, IndexFacts DEF Proper
<1>6. NoCall \in Calls
    BY <1>5 DEF NoCall, Calls
<1> QED
    BY <1>1, <1>2, <1>3, <1>4, <1>5, <1>6 DEF WorkInit, WorkTypeOK

\* The entry that a step of a call makes, and what it leaves behind
LEMMA EnteredTyped ==
    ASSUME WorkTypeOK, NEW p \in Procs, NEW f \in Paths, NEW e \in Blobs \cup {None}, Entered(p, f, e)
    PROVE  /\ mem' \in [Procs -> Indexes] /\ left' \in [Procs -> SUBSET Paths]
           /\ mem'[p] = IF e = None THEN Without(mem[p], f) ELSE With(mem[p], f, e)
           /\ left'[p] = left[p] \ {f}
           /\ UNCHANGED phase
<1>1. mem \in [Procs -> Indexes] /\ left \in [Procs -> SUBSET Paths] /\ mem[p] \in Indexes
    BY DEF WorkTypeOK
<1>2. Without(mem[p], f) \in Indexes /\ \A b \in Blobs : With(mem[p], f, b) \in Indexes
    BY <1>1, EntryFacts
<1>3. e # None => e \in Blobs
    OBVIOUS
<1> QED
    BY <1>1, <1>2, <1>3 DEF Entered

LEMMA EndsTyped ==
    ASSUME WorkTypeOK, NEW p \in Procs, NEW how \in {"done", "failed"}, Ends(p, how)
    PROVE  /\ mem' \in [Procs -> Indexes] /\ left' \in [Procs -> SUBSET Paths]
           /\ phase' \in [Procs -> {"open", "files", "done", "failed"}]
           /\ phase'[p] = how
<1>1. NoEntries \in Indexes
    <2>1. NoEntries \in [{} -> Blobs]
        BY DEF NoEntries
    <2> QED
        BY <2>1, IndexFacts
<1> QED
    BY <1>1 DEF WorkTypeOK, Ends, Goes

\* What a file of a tree makes of the working tree
LEMMA CheckOutTyped ==
    ASSUME WorkTypeOK, NEW p \in Procs, NEW f \in Paths, f \in DOMAIN call[p].tree
    PROVE  /\ call[p].tree[f] \in Blobs
           /\ work[f] # Dir => Built(work[f], call[p].tree[f]) \in Blobs
           /\ work[f] # Dir => [kind |-> Built(work[f], call[p].tree[f]).kind, sha |-> call[p].tree[f].sha] \in Blobs
           /\ WithDirs(work, f) \in [Paths -> Blobs \cup {Absent, Dir}]
<1> DEFINE e == call[p].tree[f]
           built == Built(work[f], e)
<1>1. e \in Blobs
    <2>1. call[p].tree \in Trees
        BY DEF WorkTypeOK, Calls
    <2> QED
        BY <2>1, IndexFacts
<1>2. work \in [Paths -> Blobs \cup {Absent, Dir}]
    BY DEF WorkTypeOK
<1>3. WithDirs(work, f) \in [Paths -> Blobs \cup {Absent, Dir}]
    BY <1>2 DEF WithDirs
<1>4. ASSUME work[f] # Dir PROVE built \in Blobs
    <2>1. work[f] \in Blobs \/ work[f] = Absent
        BY <1>2, <1>4
    <2>2. e.kind \in {"file", "link"} /\ Absent.kind = "none"
        BY <1>1, BlobFacts
    <2> QED
        BY <1>1, <2>1, <2>2 DEF Built, SameFile
<1>5. ASSUME built \in Blobs PROVE [kind |-> built.kind, sha |-> e.sha] \in Blobs
    BY <1>1, <1>5 DEF Blobs
<1> QED
    BY <1>1, <1>3, <1>4, <1>5

\* A step with one file
LEMMA FileTyped ==
    ASSUME WorkTypeOK, Listed, NEW p \in Procs, phase[p] = "files", NEW f \in left[p],
           StageFile(p, f) \/ RemoveFile(p, f) \/ StashFile(p, f) \/ CheckOutFile(p, f)
    PROVE  /\ work' \in [Paths -> Blobs \cup {Absent, Dir}]
           /\ mem' \in [Procs -> Indexes] /\ left' \in [Procs -> SUBSET Paths]
           /\ phase' \in [Procs -> {"open", "files", "done", "failed"}]
           /\ phase'[p] # "open" /\ (phase'[p] = "files" => left'[p] \subseteq left[p])
<1>1. /\ f \in Paths /\ work \in [Paths -> Blobs \cup {Absent, Dir}]
      /\ phase \in [Procs -> {"open", "files", "done", "failed"}]
    BY DEF WorkTypeOK
<1>2. \A e : File(e) /\ e \in Blobs \cup {Absent, Dir} => e \in Blobs
    BY BlobFacts
<1>3. CASE StageFile(p, f) \/ StashFile(p, f)
    <2> DEFINE e == IF Stat(work, f) /\ File(work[f]) THEN work[f] ELSE None
    <2>1. e \in Blobs \cup {None}
        BY <1>1, <1>2
    <2>2. UNCHANGED work /\ (Entered(p, f, e) \/ Ends(p, "failed"))
        BY <1>3 DEF StageFile, StashFile
    <2> HIDE DEF e
    <2> QED
        BY <1>1, <2>1, <2>2, EnteredTyped, EndsTyped
<1>4. CASE RemoveFile(p, f)
    <2>1. work' \in [Paths -> Blobs \cup {Absent, Dir}]
        BY <1>1, <1>4 DEF RemoveFile
    <2>2. Entered(p, f, None) \/ Ends(p, "failed")
        BY <1>4 DEF RemoveFile
    <2> QED
        BY <1>1, <2>1, <2>2, EnteredTyped, EndsTyped
<1>5. CASE CheckOutFile(p, f)
    <2>1. f \in DOMAIN call[p].tree
        BY <1>5 DEF CheckOutFile, Listed
    <2> DEFINE t == call[p].tree[f]
               built == Built(work[f], t)
    <2>2. CASE Ends(p, "failed") /\ UNCHANGED work
        BY <1>1, <2>2, EndsTyped
    <2>3. CASE work' = [WithDirs(work, f) EXCEPT ![f] = built] /\ work[f] # Dir
               /\ Entered(p, f, [kind |-> built.kind, sha |-> t.sha])
        <3>1. built \in Blobs /\ [kind |-> built.kind, sha |-> t.sha] \in Blobs
            BY <1>1, <2>1, <2>3, CheckOutTyped
        <3>2. WithDirs(work, f) \in [Paths -> Blobs \cup {Absent, Dir}]
            BY <1>1, <2>1, CheckOutTyped
        <3> HIDE DEF built, t
        <3>3. work' \in [Paths -> Blobs \cup {Absent, Dir}]
            BY <2>3, <3>1, <3>2
        <3> QED
            BY <1>1, <2>3, <3>1, <3>3, EnteredTyped
    <2> QED
        BY <1>5, <2>2, <2>3 DEF CheckOutFile
<1> QED
    BY <1>3, <1>4, <1>5

LEMMA UserSteps ==
    ASSUME WorkTypeOK, Put \/ Delete
    PROVE  /\ work' \in [Paths -> Blobs \cup {Absent, Dir}]
           /\ UNCHANGED <<index, head, trees, call, phase, mem, left, calls>>
           /\ calm' = [p \in Procs |-> FALSE] /\ edits' \in Nat
<1>1. work \in [Paths -> Blobs \cup {Absent, Dir}] /\ edits \in Nat
    BY DEF WorkTypeOK
<1>2. Entries \subseteq Blobs
    BY TreePathsAssumption
<1>3. CASE Put
    <2>1. PICK f \in Paths, e \in Entries : Edit([WithDirs(work, f) EXCEPT ![f] = e])
        BY <1>3 DEF Put
    <2>2. WithDirs(work, f) \in [Paths -> Blobs \cup {Absent, Dir}]
        BY <1>1 DEF WithDirs
    <2>3. [WithDirs(work, f) EXCEPT ![f] = e] \in [Paths -> Blobs \cup {Absent, Dir}]
        BY <1>2, <2>2
    <2> QED
        BY <1>1, <2>1, <2>3 DEF Edit
<1>4. CASE Delete
    <2>1. PICK f \in Paths : Edit([g \in Paths |-> IF g = f \/ g \in Below(f) THEN Absent ELSE work[g]])
        BY <1>4 DEF Delete
    <2>2. [g \in Paths |-> IF g = f \/ g \in Below(f) THEN Absent ELSE work[g]] \in [Paths -> Blobs \cup {Absent, Dir}]
        BY <1>1
    <2> QED
        BY <1>1, <2>1, <2>2 DEF Edit
<1> QED
    BY <1>3, <1>4

LEMMA WorkTypeStep ==
    ASSUME WorkTypeOK, Listed, [WorkNext]_workVars
    PROVE  WorkTypeOK'
<1>1. CASE UNCHANGED workVars
    BY <1>1 DEF workVars, WorkTypeOK
<1>2. CASE Put \/ Delete
    BY <1>2, UserSteps DEF WorkTypeOK
<1>3. ASSUME NEW p \in Procs, Add(p) \/ Rm(p) \/ Commit(p) \/ StashPush(p) \/ Reset(p)
      PROVE  WorkTypeOK'
    <2>1. PICK c \in Calls, files \in SUBSET Paths : Call(p, c, files)
        BY <1>3, StartedCall
    <2> QED
        BY <2>1 DEF WorkTypeOK, Call, Goes
<1>4. ASSUME NEW p \in Procs, Open(p) PROVE WorkTypeOK'
    <2>1. StashedPaths \subseteq Paths
        BY IndexFacts DEF StashedPaths, WorkTypeOK
    <2> HIDE DEF StashedPaths
    <2> QED
        BY <1>4, <2>1 DEF WorkTypeOK, Open, Goes
<1>5. ASSUME NEW p \in Procs, FileStep(p) PROVE WorkTypeOK'
    <2>1. PICK f \in left[p] : StageFile(p, f) \/ RemoveFile(p, f) \/ StashFile(p, f) \/ CheckOutFile(p, f)
        BY <1>5 DEF FileStep
    <2>2. /\ work' \in [Paths -> Blobs \cup {Absent, Dir}]
          /\ mem' \in [Procs -> Indexes] /\ left' \in [Procs -> SUBSET Paths]
          /\ phase' \in [Procs -> {"open", "files", "done", "failed"}]
        BY <1>5, <2>1, FileTyped DEF FileStep
    <2> QED
        BY <1>5, <2>2 DEF WorkTypeOK, FileStep, Disturbs
<1>6. ASSUME NEW p \in Procs, Write(p) PROVE WorkTypeOK'
    <2>1. mem[p] \in Indexes
        BY DEF WorkTypeOK
    <2> QED
        BY <1>6, <2>1, EndsTyped DEF WorkTypeOK, Write, Disturbs
<1>7. ASSUME NEW p \in Procs, MakeCommit(p) PROVE WorkTypeOK'
    <2>1. CommitTree(mem[p]) \in Trees
        BY CommitTreeFacts DEF WorkTypeOK
    <2>2. head' \in trees' /\ trees' \subseteq Trees
        BY <1>7, <2>1 DEF WorkTypeOK, MakeCommit
    <2> QED
        BY <1>7, <2>2, EndsTyped DEF WorkTypeOK, MakeCommit, Disturbs
<1> QED
    BY <1>1, <1>2, <1>3, <1>4, <1>5, <1>6, <1>7 DEF WorkNext

LEMMA ListedStep ==
    ASSUME WorkTypeOK, Listed, [WorkNext]_workVars
    PROVE  Listed'
<1>1. CASE UNCHANGED workVars
    BY <1>1 DEF workVars, Listed
<1>2. CASE Put \/ Delete
    BY <1>2, UserSteps DEF Listed
<1>3. SUFFICES ASSUME NEW p \in Procs, Acts(p), call'[p].op = "reset"
               PROVE  /\ phase'[p] = "open" => left'[p] = DOMAIN call'[p].tree
                      /\ phase'[p] = "files" => left'[p] \subseteq DOMAIN call'[p].tree
    <2>1. ASSUME NEW p \in Procs, Acts(p) PROVE Listed'
        <3>1. ASSUME NEW q \in Procs, q # p
              PROVE  call'[q] = call[q] /\ phase'[q] = phase[q] /\ left'[q] = left[q]
            BY <2>1, <3>1, OthersAtHand DEF AtHand
        <3>2. call'[p].op = "reset" =>
                 /\ phase'[p] = "open" => left'[p] = DOMAIN call'[p].tree
                 /\ phase'[p] = "files" => left'[p] \subseteq DOMAIN call'[p].tree
            BY <1>3, <2>1
        <3> QED
            BY <3>1, <3>2 DEF Listed
    <2> QED
        BY <1>1, <1>2, <2>1 DEF WorkNext, Acts
<1>4. CASE Add(p) \/ Rm(p) \/ Commit(p) \/ StashPush(p) \/ Reset(p)
    <2>1. PICK c \in Calls, files \in SUBSET Paths :
             Call(p, c, files) /\ (c.op = "reset" => files = DOMAIN c.tree)
        BY <1>4, StartedCall
    <2> QED
        BY <1>3, <2>1 DEF WorkTypeOK, Call, Goes
<1>5. CASE Open(p)
    BY <1>3, <1>5 DEF WorkTypeOK, Open, Goes, Listed
<1>6. CASE FileStep(p)
    <2>1. PICK f \in left[p] : StageFile(p, f) \/ RemoveFile(p, f) \/ StashFile(p, f) \/ CheckOutFile(p, f)
        BY <1>6 DEF FileStep
    <2>2. phase'[p] # "open" /\ (phase'[p] = "files" => left'[p] \subseteq left[p])
        BY <1>6, <2>1, FileTyped DEF FileStep
    <2> QED
        BY <1>3, <1>6, <2>2 DEF FileStep, Listed
<1>7. CASE Write(p) \/ MakeCommit(p)
    BY <1>7, EndsTyped DEF Write, MakeCommit
<1> QED
    BY <1>3, <1>4, <1>5, <1>6, <1>7 DEF Acts

-----------------------------------------------------------------------------
(* Worktree: what is there is in directories                               *)

\* What is there is in directories.
Rooted == \A f \in Paths : work[f] # Absent => \A d \in Above(f) : work[d] = Dir

\* Where a step changes the working tree
Changes(p, f) ==
    /\ f \in Paths
    /\ \/ File(work[f]) /\ work' = [work EXCEPT ![f] = Absent] /\ call[p].op = "remove"
       \/ /\ call[p].op = "reset" /\ f \in left[p] /\ f \in DOMAIN call[p].tree
          /\ work[f] # Dir /\ CanMakeDirs(work, f)
          /\ work' = [WithDirs(work, f) EXCEPT ![f] = Built(work[f], call[p].tree[f])]

LEMMA ChangedFiles ==
    ASSUME WorkTypeOK, Listed, NEW p \in Procs, Acts(p)
    PROVE  \/ UNCHANGED work
           \/ /\ phase[p] = "files"
              /\ \E f \in Paths : Changes(p, f)
<1>1. CASE Add(p) \/ Rm(p) \/ Commit(p) \/ StashPush(p) \/ Reset(p)
    BY <1>1, StartedCall DEF Call
<1>2. CASE Open(p) \/ Write(p) \/ MakeCommit(p)
    BY <1>2 DEF Open, Write, MakeCommit
<1>3. CASE FileStep(p)
    <2>1. PICK f \in left[p] : StageFile(p, f) \/ RemoveFile(p, f) \/ StashFile(p, f) \/ CheckOutFile(p, f)
        BY <1>3 DEF FileStep
    <2>2. f \in Paths /\ phase[p] = "files"
        BY <1>3 DEF WorkTypeOK, FileStep
    <2>3. CASE StageFile(p, f) \/ StashFile(p, f)
        BY <2>3 DEF StageFile, StashFile
    <2>4. CASE RemoveFile(p, f)
        BY <2>2, <2>4 DEF RemoveFile, Changes
    <2>5. CASE CheckOutFile(p, f)
        <3>1. f \in DOMAIN call[p].tree
            BY <2>2, <2>5 DEF CheckOutFile, Listed
        <3> QED
            BY <2>2, <2>5, <3>1 DEF CheckOutFile, Changes
    <2> QED
        BY <2>1, <2>3, <2>4, <2>5
<1> QED
    BY <1>1, <1>2, <1>3 DEF Acts

\* A file is put where its directories are, or can be made.
LEMMA PutKeepsRooted ==
    ASSUME WorkTypeOK, Rooted, NEW f \in Paths, work[f] # Dir, CanMakeDirs(work, f),
           NEW e \in Blobs, work' = [WithDirs(work, f) EXCEPT ![f] = e]
    PROVE  Rooted' /\ \A h \in Paths : h # f /\ work[h] # Absent => work'[h] = work[h]
<1>1. \A h \in Paths : work'[h] = IF h = f THEN e ELSE IF h \in Above(f) /\ work[h] = Absent THEN Dir ELSE work[h]
    BY DEF WithDirs
<1>2. \A d \in Above(f) : d \in Paths /\ d # f /\ work'[d] = Dir
    BY <1>1, AboveFacts DEF CanMakeDirs
<1>3. ASSUME NEW h \in Paths, work'[h] # Absent, NEW d \in Above(h) PROVE work'[d] = Dir
    <2>1. d \in Paths /\ (h \in Above(f) => Above(h) \subseteq Above(f))
        BY AboveFacts
    <2>2. CASE h = f \/ h \in Above(f)
        BY <1>2, <1>3, <2>1, <2>2
    <2>3. CASE h # f /\ h \notin Above(f)
        <3>1. work[d] = Dir
            BY <1>1, <1>3, <2>3 DEF Rooted
        <3>2. d # f /\ work[d] # Absent
            BY <3>1, BlobFacts
        <3> QED
            BY <1>1, <2>1, <3>1, <3>2
    <2> QED
        BY <2>2, <2>3
<1> QED
    BY <1>1, <1>3 DEF Rooted

LEMMA RootedStart == WorkInit => Rooted
<1> SUFFICES ASSUME WorkInit, NEW f \in Paths, work[f] # Absent, NEW d \in Above(f) PROVE work[d] = Dir
    BY DEF Rooted
<1>1. head \in Trees /\ Proper(DOMAIN head) /\ DOMAIN head \subseteq Paths
    BY WorkTypeStart, IndexFacts DEF WorkTypeOK
<1>2. \A p \in Paths : work[p] = IF p \in DOMAIN head THEN head[p]
                                 ELSE IF Below(p) \cap DOMAIN head # {} THEN Dir ELSE Absent
    BY DEF WorkInit, CheckedOut
<1>3. PICK g \in DOMAIN head : g = f \/ g \in Below(f)
    BY <1>2
<1>4. d \in Paths /\ g \in Paths /\ (f \in Above(g) => d \in Above(g))
    BY <1>1, AboveFacts
<1>5. g \in Below(d)
    BY <1>3, <1>4 DEF Below
<1>6. d \notin DOMAIN head
    BY <1>1, <1>5 DEF Proper
<1> QED
    BY <1>2, <1>4, <1>5, <1>6

LEMMA RootedStep ==
    ASSUME WorkTypeOK, Listed, Rooted, [WorkNext]_workVars
    PROVE  Rooted'
<1>1. CASE UNCHANGED work
    BY <1>1 DEF Rooted
<1>2. CASE Put
    <2>1. PICK f \in Paths, e \in Entries : /\ CanMakeDirs(work, f) /\ work[f] # Dir
                                            /\ work' = [WithDirs(work, f) EXCEPT ![f] = e]
        BY <1>2 DEF Put, Edit
    <2>2. e \in Blobs
        BY TreePathsAssumption
    <2> QED
        BY <2>1, <2>2, PutKeepsRooted
<1>3. CASE Delete
    <2>1. PICK f \in Paths : work' = [g \in Paths |-> IF g = f \/ g \in Below(f) THEN Absent ELSE work[g]]
        BY <1>3 DEF Delete, Edit
    <2>2. ASSUME NEW h \in Paths, work'[h] # Absent, NEW d \in Above(h) PROVE work'[d] = Dir
        <3>1. d \in Paths /\ Above(d) \subseteq Above(h)
            BY AboveFacts
        <3>2. h # f /\ f \notin Above(h) /\ work[h] # Absent
            BY <2>1, <2>2 DEF Below
        <3>3. d # f /\ d \notin Below(f)
            BY <3>1, <3>2 DEF Below
        <3> QED
            BY <2>1, <3>1, <3>2, <3>3 DEF Rooted
    <2> QED
        BY <2>2 DEF Rooted
<1>4. ASSUME NEW p \in Procs, NEW f \in Paths, Changes(p, f) PROVE Rooted'
    <2>1. CASE File(work[f]) /\ work' = [work EXCEPT ![f] = Absent]
        <3>1. \A h \in Paths : work'[h] = IF h = f THEN Absent ELSE work[h]
            BY <2>1 DEF WorkTypeOK
        <3>2. ASSUME NEW h \in Paths, work'[h] # Absent, NEW d \in Above(h) PROVE work'[d] = Dir
            <4>1. d \in Paths /\ work[d] = Dir
                BY <3>1, <3>2, AboveFacts DEF Rooted
            <4>2. d # f
                BY <2>1, <4>1, BlobFacts
            <4> QED
                BY <3>1, <4>1, <4>2
        <3> QED
            BY <3>2 DEF Rooted
    <2>2. CASE /\ f \in DOMAIN call[p].tree /\ work[f] # Dir /\ CanMakeDirs(work, f)
               /\ work' = [WithDirs(work, f) EXCEPT ![f] = Built(work[f], call[p].tree[f])]
        BY <2>2, CheckOutTyped, PutKeepsRooted
    <2> QED
        BY <1>4, <2>1, <2>2 DEF Changes
<1> QED
    BY <1>1, <1>2, <1>3, <1>4, ChangedFiles DEF WorkNext, Acts, workVars

-----------------------------------------------------------------------------
(* Worktree: reset                                                         *)

\* A reset that nobody ran into has the files it is through with in the working tree
\* and in its Index object.
RestoredAt(p, f) ==
    /\ f \in DOMAIN mem[p] /\ mem[p][f].sha = call[p].tree[f].sha
    /\ work[f] = call[p].tree[f] \/ (work[f].kind = "link" /\ call[p].tree[f].kind = "file")

Restoring ==
    \A p \in Procs : phase[p] = "files" /\ call[p].op = "reset" /\ calm[p] =>
       \A f \in DOMAIN call[p].tree \ left[p] : RestoredAt(p, f)

\* What reset promises of one process
RestoredBy(p) ==
    Undisturbed(p, "reset") =>
       \A f \in DOMAIN call[p].tree :
          /\ f \in DOMAIN index /\ index[f].sha = call[p].tree[f].sha
          /\ work[f] = call[p].tree[f] \/ (work[f].kind = "link" /\ call[p].tree[f].kind = "file")

\* One more file is checked out.
LEMMA FileRestored ==
    ASSUME WorkTypeOK, Listed, Rooted, Restoring, NEW p \in Procs, calm[p],
           NEW f \in left[p], phase[p] = "files", CheckOutFile(p, f), phase'[p] = "files", UNCHANGED call
    PROVE  \A g \in DOMAIN call'[p].tree \ left'[p] : RestoredAt(p, g)'
<1> DEFINE t == call[p].tree
           built == Built(work[f], t[f])
           e == [kind |-> built.kind, sha |-> t[f].sha]
<1>1. /\ f \in Paths /\ t \in Indexes /\ DOMAIN t \subseteq Paths /\ mem[p] \in Indexes
      /\ work \in [Paths -> Blobs \cup {Absent, Dir}]
    BY IndexFacts DEF WorkTypeOK, Calls
<1>2. call[p].op = "reset" /\ f \in DOMAIN t
    BY DEF CheckOutFile, Listed
<1>3. /\ CanMakeDirs(work, f) /\ work[f] # Dir
      /\ work' = [WithDirs(work, f) EXCEPT ![f] = built]
      /\ Entered(p, f, e)
    BY DEF CheckOutFile, Ends, Goes, WorkTypeOK
<1>4. t[f] \in Blobs /\ built \in Blobs /\ e \in Blobs
    BY <1>1, <1>2, <1>3, CheckOutTyped
<1>5. mem'[p] = With(mem[p], f, e) /\ left'[p] = left[p] \ {f}
    <2>1. e # None
        BY <1>4, TreePathsAssumption
    <2> HIDE DEF e
    <2> QED
        BY <1>1, <1>3, <1>4, <2>1, EnteredTyped
<1>6. work'[f] = built
    <2>1. WithDirs(work, f) \in [Paths -> Blobs \cup {Absent, Dir}]
        BY <1>1, <1>2, CheckOutTyped
    <2> HIDE DEF built
    <2> QED
        BY <1>1, <1>3, <2>1
<1>7. built = t[f] \/ (built.kind = "link" /\ t[f].kind = "file")
    <2>1. \A a, b \in Blobs : a.kind = b.kind /\ a.sha = b.sha => a = b
        BY DEF Blobs
    <2>2. CASE SameFile(work[f], t[f])
        <3>1. work[f] \in Blobs
            BY <1>4, <2>2 DEF Built
        <3> QED
            BY <1>4, <2>1, <2>2, <3>1 DEF Built, SameFile
    <2>3. CASE ~SameFile(work[f], t[f])
        BY <2>3 DEF Built
    <2> QED
        BY <2>2, <2>3
<1>8. RestoredAt(p, f)'
    <2>1. f \in DOMAIN mem'[p] /\ mem'[p][f] = e
        BY <1>5 DEF With
    <2>2. e.sha = t[f].sha
        OBVIOUS
    <2> HIDE DEF e, built
    <2> QED
        BY <1>6, <1>7, <2>1, <2>2 DEF RestoredAt
<1>9. ASSUME NEW g \in DOMAIN t \ left[p], g # f PROVE RestoredAt(p, g)'
    <2>1. RestoredAt(p, g)
        BY <1>2, <1>9 DEF Restoring
    <2>2. t[g] \in Blobs /\ g \in Paths
        BY <1>1, IndexFacts
    <2>3. work[g] # Absent
        BY <2>1, <2>2, BlobFacts DEF RestoredAt
    <2>4. work'[g] = work[g]
        BY <1>1, <1>3, <1>4, <1>9, <2>2, <2>3, PutKeepsRooted
    <2>5. g \in DOMAIN mem'[p] /\ mem'[p][g] = mem[p][g]
        BY <1>5, <1>9, <2>1 DEF With, RestoredAt
    <2> QED
        BY <2>1, <2>4, <2>5 DEF RestoredAt
<1> QED
    BY <1>5, <1>8, <1>9

LEMMA RestoringStep ==
    ASSUME WorkTypeOK, Listed, Rooted, Restoring, ResetRestores, [WorkNext]_workVars
    PROVE  Restoring' /\ ResetRestores'
<1>0. ResetRestores <=> \A q \in Procs : RestoredBy(q)
    BY DEF ResetRestores, RestoredBy
<1>1. ResetRestores' <=> \A q \in Procs : RestoredBy(q)'
    BY DEF ResetRestores, RestoredBy
<1>2. CASE UNCHANGED workVars
    BY <1>2 DEF workVars, Restoring, RestoredAt, ResetRestores, Undisturbed
<1>3. CASE Put \/ Delete
    <2>1. \A q \in Procs : ~calm'[q]
        BY <1>3, UserSteps
    <2> QED
        BY <2>1 DEF Restoring, ResetRestores, Undisturbed
<1>4. ASSUME NEW p \in Procs, Acts(p) PROVE Restoring' /\ ResetRestores'
    <2>1. ASSUME NEW q \in Procs, q # p
          PROVE  /\ RestoredBy(q)'
                 /\ phase'[q] = "files" /\ call'[q].op = "reset" /\ calm'[q] =>
                       \A f \in DOMAIN call'[q].tree \ left'[q] : RestoredAt(q, f)'
        <3>1. /\ call'[q] = call[q] /\ phase'[q] = phase[q] /\ mem'[q] = mem[q] /\ left'[q] = left[q]
              /\ calm'[q] => calm[q] /\ UNCHANGED <<work, index, head>>
            BY <1>4, <2>1, OthersAtHand DEF AtHand
        <3>2. RestoredBy(q)
            BY <1>0
        <3> QED
            BY <3>1, <3>2 DEF RestoredBy, Undisturbed, Restoring, RestoredAt
    <2>2. /\ RestoredBy(p)'
          /\ phase'[p] = "files" /\ call'[p].op = "reset" /\ calm'[p] =>
                \A f \in DOMAIN call'[p].tree \ left'[p] : RestoredAt(p, f)'
        <3>1. CASE Add(p) \/ Rm(p) \/ Commit(p) \/ StashPush(p) \/ Reset(p)
            <4>1. phase'[p] = "open"
                BY <3>1, StartedCall DEF Call, Goes, WorkTypeOK
            <4> QED
                BY <4>1 DEF RestoredBy, Undisturbed
        <3>2. CASE Open(p)
            <4>1. phase'[p] = "files" /\ UNCHANGED call
                BY <3>2 DEF Open, Goes, WorkTypeOK
            <4>2. call[p].op = "reset" => left'[p] = DOMAIN call[p].tree
                BY <3>2 DEF Open, WorkTypeOK, Listed
            <4> QED
                BY <4>1, <4>2 DEF RestoredBy, Undisturbed
        <3>3. CASE FileStep(p)
            <4>1. PICK f \in left[p] : StageFile(p, f) \/ RemoveFile(p, f) \/ StashFile(p, f) \/ CheckOutFile(p, f)
                BY <3>3 DEF FileStep
            <4>2. phase[p] = "files" /\ UNCHANGED call /\ (calm'[p] => calm[p])
                BY <3>3 DEF FileStep, Disturbs
            <4>3. phase'[p] # "done"
                BY <4>1, <4>2 DEF StageFile, RemoveFile, StashFile, CheckOutFile, Entered, Ends, Goes, WorkTypeOK
            <4>4. call[p].op = "reset" => CheckOutFile(p, f)
                BY <4>1 DEF StageFile, RemoveFile, StashFile
            <4> QED
                BY <4>2, <4>3, <4>4, FileRestored DEF RestoredBy, Undisturbed
        <3>4. CASE Write(p)
            <4>1. /\ phase[p] = "files" /\ left[p] = {} /\ index' = mem[p] /\ UNCHANGED <<work, call>>
                  /\ phase'[p] = "done" /\ (calm'[p] => calm[p])
                BY <3>4, EndsTyped DEF Write, Disturbs
            <4>2. call[p].op = "reset" /\ calm[p] => \A f \in DOMAIN call[p].tree : RestoredAt(p, f)
                BY <4>1 DEF Restoring
            <4> QED
                BY <4>1, <4>2 DEF RestoredBy, Undisturbed, RestoredAt
        <3>5. CASE MakeCommit(p)
            <4>1. phase'[p] = "done" /\ call'[p].op # "reset"
                BY <3>5, EndsTyped DEF MakeCommit
            <4> QED
                BY <4>1 DEF RestoredBy, Undisturbed
        <3> QED
            BY <1>4, <3>1, <3>2, <3>3, <3>4, <3>5 DEF Acts
    <2>3. \A q \in Procs :
             /\ RestoredBy(q)'
             /\ phase'[q] = "files" /\ call'[q].op = "reset" /\ calm'[q] =>
                   \A f \in DOMAIN call'[q].tree \ left'[q] : RestoredAt(q, f)'
        BY <2>1, <2>2
    <2> QED
        BY <1>1, <2>3 DEF Restoring
<1> QED
    BY <1>2, <1>3, <1>4 DEF WorkNext, Acts

-----------------------------------------------------------------------------
(* Worktree: stash                                                         *)

\* A stash that nobody ran into has, of the files it is through with, what is in the
\* working tree.
StashedAt(p, f) ==
    /\ f \in DOMAIN mem[p] <=> File(work[f])
    /\ f \in DOMAIN mem[p] => mem[p][f] = work[f]

Stashing ==
    \A p \in Procs : phase[p] = "files" /\ call[p].op = "stash" /\ calm[p] =>
       /\ DOMAIN mem[p] \subseteq DOMAIN index /\ left[p] \subseteq DOMAIN index
       /\ \A f \in DOMAIN index \ left[p] : StashedAt(p, f)

\* What stash promises of one process
StashedBy(p) ==
    Undisturbed(p, "stash") => Snapshot(work, FilesIn(work) \cap DOMAIN index) \in trees

\* One more file is stashed.
LEMMA FileStashed ==
    ASSUME WorkTypeOK, Rooted, Stashing, NEW p \in Procs, calm[p], NEW f \in left[p],
           phase[p] = "files", StashFile(p, f), phase'[p] = "files", UNCHANGED <<index, call>>
    PROVE  /\ DOMAIN mem'[p] \subseteq DOMAIN index /\ left'[p] \subseteq DOMAIN index
           /\ \A g \in DOMAIN index \ left'[p] : StashedAt(p, g)'
<1> DEFINE there == Stat(work, f) /\ File(work[f])
           e == IF there THEN work[f] ELSE None
<1>1. /\ f \in Paths /\ work \in [Paths -> Blobs \cup {Absent, Dir}]
      /\ mem[p] \in Indexes /\ index \in Indexes
    BY DEF WorkTypeOK
<1>2. /\ call[p].op = "stash" /\ UNCHANGED work
      /\ Entered(p, f, e)
    BY DEF StashFile, Ends, Goes, WorkTypeOK
<1>3. there <=> File(work[f])
    <2>1. ASSUME File(work[f]) PROVE Stat(work, f)
        <3>1. work[f] # Absent
            BY <2>1, BlobFacts
        <3>2. Parent[f] = 0 \/ work[Parent[f]] = Dir
            BY <1>1, <3>1, AboveFacts DEF Rooted
        <3> QED
            BY <3>1, <3>2, BlobFacts DEF Stat, At
    <2> QED
        BY <2>1
<1>4. there => work[f] \in Blobs
    BY <1>1, BlobFacts
<1>5. /\ mem'[p] = IF there THEN With(mem[p], f, work[f]) ELSE Without(mem[p], f)
      /\ left'[p] = left[p] \ {f}
    <2>1. e \in Blobs \cup {None} /\ (e = None <=> ~there)
        BY <1>4, TreePathsAssumption
    <2>2. there => e = work[f]
        OBVIOUS
    <2> HIDE DEF e, there
    <2> QED
        BY <1>1, <1>2, <2>1, <2>2, EnteredTyped
<1> HIDE DEF there, e
<1>6. DOMAIN mem[p] \subseteq DOMAIN index /\ left[p] \subseteq DOMAIN index
    BY <1>2 DEF Stashing
<1>7. DOMAIN mem'[p] = IF there THEN DOMAIN mem[p] \cup {f} ELSE DOMAIN mem[p] \ {f}
    BY <1>5 DEF With, Without
<1>8. StashedAt(p, f)'
    <2>1. there => mem'[p][f] = work[f]
        BY <1>5 DEF With
    <2> QED
        BY <1>2, <1>3, <1>7, <2>1 DEF StashedAt
<1>9. ASSUME NEW g \in DOMAIN index \ left[p], g # f PROVE StashedAt(p, g)'
    <2>1. StashedAt(p, g)
        BY <1>2, <1>9 DEF Stashing
    <2>2. g \in DOMAIN mem[p] => mem'[p][g] = mem[p][g]
        BY <1>5, <1>9 DEF With, Without
    <2> QED
        BY <1>2, <1>7, <1>9, <2>1, <2>2 DEF StashedAt
<1> QED
    BY <1>5, <1>6, <1>7, <1>8, <1>9

\* A stash that is through with all files commits what is there.
LEMMA StashCommitted ==
    ASSUME WorkTypeOK, Rooted, Stashing, NEW p \in Procs, calm[p], call[p].op = "stash",
           phase[p] = "files", left[p] = {}
    PROVE  CommitTree(mem[p]) = Snapshot(work, FilesIn(work) \cap DOMAIN index)
<1>1. /\ DOMAIN mem[p] \subseteq DOMAIN index
      /\ \A f \in DOMAIN index : StashedAt(p, f)
    BY DEF Stashing
<1>2. mem[p] \in Indexes /\ DOMAIN mem[p] \subseteq Paths /\ mem[p] \in [DOMAIN mem[p] -> Blobs]
    BY IndexFacts DEF WorkTypeOK
<1>3. DOMAIN mem[p] = FilesIn(work) \cap DOMAIN index
    BY <1>1, <1>2 DEF StashedAt, FilesIn
<1>4. Proper(DOMAIN mem[p])
    <2> SUFFICES ASSUME NEW f \in DOMAIN mem[p], NEW g \in DOMAIN mem[p], f \in Above(g) PROVE FALSE
        BY DEF Proper, Below
    <2>1. File(work[f]) /\ File(work[g])
        BY <1>1 DEF StashedAt
    <2>2. work[f] = Dir
        BY <1>2, <2>1, BlobFacts DEF Rooted
    <2> QED
        BY <2>1, <2>2, BlobFacts
<1>5. mem[p] = Snapshot(work, DOMAIN mem[p])
    <2>1. \A f \in DOMAIN mem[p] : mem[p][f] = work[f]
        BY <1>1 DEF StashedAt
    <2> QED
        BY <1>2, <2>1 DEF Snapshot
<1> QED
    BY <1>2, <1>3, <1>4, <1>5, CommitTreeFacts

LEMMA StashingStep ==
    ASSUME WorkTypeOK, Listed, Rooted, Stashing, StashHoldsFiles, [WorkNext]_workVars
    PROVE  Stashing' /\ StashHoldsFiles'
<1>0. StashHoldsFiles <=> \A q \in Procs : StashedBy(q)
    BY DEF StashHoldsFiles, StashedBy
<1>1. StashHoldsFiles' <=> \A q \in Procs : StashedBy(q)'
    BY DEF StashHoldsFiles, StashedBy
<1>2. CASE UNCHANGED workVars
    BY <1>2 DEF workVars, Stashing, StashedAt, StashHoldsFiles, Undisturbed
<1>3. CASE Put \/ Delete
    <2>1. \A q \in Procs : ~calm'[q]
        BY <1>3, UserSteps
    <2> QED
        BY <2>1 DEF Stashing, StashHoldsFiles, Undisturbed
<1>4. ASSUME NEW p \in Procs, Acts(p) PROVE Stashing' /\ StashHoldsFiles'
    <2>1. trees \subseteq trees'
        <3>1. CASE Add(p) \/ Rm(p) \/ Commit(p) \/ StashPush(p) \/ Reset(p)
            BY <3>1, StartedCall DEF Call
        <3> QED
            BY <1>4, <3>1 DEF Acts, Open, FileStep, Write, MakeCommit
    <2>2. ASSUME NEW q \in Procs, q # p
          PROVE  /\ StashedBy(q)'
                 /\ phase'[q] = "files" /\ call'[q].op = "stash" /\ calm'[q] =>
                       /\ DOMAIN mem'[q] \subseteq DOMAIN index' /\ left'[q] \subseteq DOMAIN index'
                       /\ \A f \in DOMAIN index' \ left'[q] : StashedAt(q, f)'
        <3>1. /\ call'[q] = call[q] /\ phase'[q] = phase[q] /\ mem'[q] = mem[q] /\ left'[q] = left[q]
              /\ calm'[q] => calm[q] /\ UNCHANGED <<work, index, head>>
            BY <1>4, <2>2, OthersAtHand DEF AtHand
        <3>2. StashedBy(q)
            BY <1>0
        <3> QED
            BY <2>1, <3>1, <3>2 DEF StashedBy, Undisturbed, Stashing, StashedAt
    <2>3. /\ StashedBy(p)'
          /\ phase'[p] = "files" /\ call'[p].op = "stash" /\ calm'[p] =>
                /\ DOMAIN mem'[p] \subseteq DOMAIN index' /\ left'[p] \subseteq DOMAIN index'
                /\ \A f \in DOMAIN index' \ left'[p] : StashedAt(p, f)'
        <3>1. CASE Add(p) \/ Rm(p) \/ Commit(p) \/ StashPush(p) \/ Reset(p)
            <4>1. phase'[p] = "open"
                BY <3>1, StartedCall DEF Call, Goes, WorkTypeOK
            <4> QED
                BY <4>1 DEF StashedBy, Undisturbed
        <3>2. CASE Open(p)
            <4>1. phase'[p] = "files" /\ UNCHANGED <<index, call>> /\ mem'[p] = index
                BY <3>2 DEF Open, Goes, WorkTypeOK
            <4>2. call[p].op = "stash" => left'[p] = DOMAIN index
                BY <3>2 DEF Open, WorkTypeOK, StashedPaths
            <4> QED
                BY <4>1, <4>2 DEF StashedBy, Undisturbed
        <3>3. CASE FileStep(p)
            <4>1. PICK f \in left[p] : StageFile(p, f) \/ RemoveFile(p, f) \/ StashFile(p, f) \/ CheckOutFile(p, f)
                BY <3>3 DEF FileStep
            <4>2. phase[p] = "files" /\ UNCHANGED <<index, call>> /\ (calm'[p] => calm[p])
                BY <3>3 DEF FileStep, Disturbs
            <4>3. phase'[p] # "done"
                BY <4>1, <4>2 DEF StageFile, RemoveFile, StashFile, CheckOutFile, Entered, Ends, Goes, WorkTypeOK
            <4>4. call[p].op = "stash" => StashFile(p, f)
                BY <4>1 DEF StageFile, RemoveFile, CheckOutFile
            <4> QED
                BY <4>2, <4>3, <4>4, FileStashed DEF StashedBy, Undisturbed
        <3>4. CASE Write(p)
            <4>1. phase'[p] = "done" /\ call'[p].op # "stash"
                BY <3>4, EndsTyped DEF Write
            <4> QED
                BY <4>1 DEF StashedBy, Undisturbed
        <3>5. CASE MakeCommit(p)
            <4>1. /\ phase[p] = "files" /\ left[p] = {} /\ UNCHANGED <<work, index, call>>
                  /\ CommitTree(mem[p]) \in trees'
                  /\ phase'[p] = "done" /\ (calm'[p] => calm[p])
                BY <3>5, EndsTyped DEF MakeCommit, Disturbs
            <4> QED
                BY <4>1, StashCommitted DEF StashedBy, Undisturbed, Snapshot, FilesIn
        <3> QED
            BY <1>4, <3>1, <3>2, <3>3, <3>4, <3>5 DEF Acts
    <2>4. \A q \in Procs :
             /\ StashedBy(q)'
             /\ phase'[q] = "files" /\ call'[q].op = "stash" /\ calm'[q] =>
                   /\ DOMAIN mem'[q] \subseteq DOMAIN index' /\ left'[q] \subseteq DOMAIN index'
                   /\ \A f \in DOMAIN index' \ left'[q] : StashedAt(q, f)'
        BY <2>2, <2>3
    <2> QED
        BY <1>1, <2>4 DEF Stashing
<1> QED
    BY <1>2, <1>3, <1>4 DEF WorkNext, Acts

-----------------------------------------------------------------------------
(* Worktree: the inductive invariant                                       *)

TreesInvariant ==
    /\ WorkTypeOK /\ Listed /\ Rooted
    /\ Restoring /\ ResetRestores /\ Stashing /\ StashHoldsFiles

LEMMA TreesStart ==
    ASSUME WorkInit
    PROVE  TreesInvariant
<1>1. \A p \in Procs : phase[p] = "done" /\ call[p].op = "none"
    BY DEF WorkInit, NoCall
<1>2. Listed /\ Restoring /\ ResetRestores /\ Stashing /\ StashHoldsFiles
    BY <1>1 DEF Listed, Restoring, ResetRestores, Stashing, StashHoldsFiles, Undisturbed
<1> QED
    BY <1>2, WorkTypeStart, RootedStart DEF TreesInvariant

LEMMA TreesStep ==
    ASSUME TreesInvariant, [WorkNext]_workVars
    PROVE  TreesInvariant'
    BY WorkTypeStep, ListedStep, RootedStep, RestoringStep, StashingStep DEF TreesInvariant

LEMMA TreesInvariance == WorkSpec => []TreesInvariant
    BY TreesStart, TreesStep, PTL DEF WorkSpec

\* The types of the working tree, the index and the commits, and of what a call holds
\* in memory: Worktree, WorkTypeOK.
THEOREM WorkTypeCorrect == WorkSpec => []WorkTypeOK
<1>1. TreesInvariant => WorkTypeOK
    BY DEF TreesInvariant
<1> QED
    BY <1>1, TreesInvariance, PTL

\* A reset that nobody ran into has put back every file, whatever was there before; a
\* stash that nobody ran into holds the files as they are.
THEOREM CallsKeepTheFiles == WorkSpec => []CallsKeepFiles
<1>1. TreesInvariant => CallsKeepFiles
    BY DEF TreesInvariant, CallsKeepFiles
<1> QED
    BY <1>1, TreesInvariance, PTL

-----------------------------------------------------------------------------
(* Status: directories on the way to a file                                *)

\* The way from the top to a file goes down from a directory that is above it.
LEMMA WayDown ==
    ASSUME NEW f \in Paths, NEW d \in Above(f), Parent[f] # d
    PROVE  \E c \in Above(f) : Parent[c] = d
<1> SUFFICES ASSUME \A c \in Above(f) : Parent[c] # d PROVE FALSE
    OBVIOUS
<1> DEFINE up == Above(f) \ {d}
<1>1. Above(f) \subseteq Paths /\ Parent[f] \in Above(f) \cup {0}
    BY AboveFacts
<1>2. \A q \in up : Parent[q] \in up \cup {0}
    <2> SUFFICES ASSUME NEW q \in up PROVE Parent[q] \in up \cup {0}
        OBVIOUS
    <2>1. q \in Paths /\ Above(q) \subseteq Above(f)
        BY <1>1, AboveFacts
    <2>2. Parent[q] \in Above(q) \cup {0}
        BY <2>1, AboveFacts
    <2>3. Parent[q] # d
        OBVIOUS
    <2> QED
        BY <2>1, <2>2, <2>3
<1>3. up \in Ups(f)
    BY <1>1, <1>2 DEF Ups
<1>4. \A q \in Above(f) : \A u \in Ups(f) : q \in u
    BY DEF Above, Ancestors
<1> QED
    BY <1>3, <1>4

\* It begins at the top.
LEMMA WayFromTop ==
    ASSUME NEW f \in Paths, Parent[f] # 0
    PROVE  \E a \in Above(f) : Parent[a] = 0
<1> DEFINE R == OpToRel(<, Nat)
<1>1. Above(f) \subseteq Paths /\ Above(f) # {}
    BY AboveFacts
<1>2. Paths \subseteq Nat
    BY TreePathsAssumption
<1>3. PICK a \in Above(f) : \A b \in Above(f) : ~(<<b, a>> \in R)
    <2>1. IsWellFoundedOn(R, Nat)
        BY NatLessThanWellFounded
    <2>2. Above(f) \subseteq Nat
        BY <1>1, <1>2
    <2> HIDE DEF R
    <2> QED
        BY <1>1, <2>1, <2>2, WFMin
<1>4. a \in Paths /\ Above(a) \subseteq Above(f) /\ Parent[a] \in Above(a) \cup {0}
    BY <1>1, AboveFacts
<1>5. ASSUME Parent[a] # 0 PROVE FALSE
    <2>1. Parent[a] \in Above(f) /\ Parent[a] < a
        BY <1>4, <1>5, TreePathsAssumption
    <2>2. Parent[a] \in Nat /\ a \in Nat
        BY <1>1, <1>2, <1>4, <2>1
    <2>3. <<Parent[a], a>> \in R
        BY <2>1, <2>2 DEF OpToRel
    <2> QED
        BY <1>3, <2>1, <2>3
<1> QED
    BY <1>5

-----------------------------------------------------------------------------
(* Status: what it has seen                                                *)

\* What was always alike, the Index object has as the index and HEAD do.
SeesAlike ==
    /\ alike \subseteq AlikeNow
    /\ statusAt # "none" => alike \cap Staged(statusIndex, index) = {}
    /\ listing \cap alike = {}

\* What was always unlike is staged, or is in the listing once it was compared; if it
\* is in no index, it is in the listing or in a directory that will be walked.
SeesUnlike ==
    /\ unlike \subseteq UnlikeNow
    /\ ~crossed =>
          /\ statusAt \in {"head", "index"} => statusIndex = index
          /\ statusAt \in {"index", "files", "walk"} => unlike \cap Staged(statusIndex, head) \subseteq listing
          /\ statusAt = "files" => (unlike \cap DOMAIN statusIndex) \ unread \subseteq listing
          /\ statusAt = "walk" =>
                \A f \in unlike \ listing : f \notin DOMAIN statusIndex /\ Above(f) \cap unread # {}

\* When no status is made nothing is listed; only files of the index are compared.
StatusIdle ==
    /\ statusAt = "none" => listing = {} /\ alike = {} /\ unlike = {}
    /\ statusAt = "files" => unread \subseteq DOMAIN statusIndex

StatusInvariant ==
    TreesInvariant /\ StatusTypeOK /\ StatusIdle /\ SeesAlike /\ SeesUnlike

\* A step of others
LEMMA OthersSeen ==
    ASSUME StatusInvariant, StatusTypeOK', WorkTypeOK', WorkNext, Meanwhile
    PROVE  StatusIdle' /\ SeesAlike' /\ SeesUnlike'
<1>1. UNCHANGED <<statusAt, statusIndex, unread, listing>>
    BY DEF Meanwhile, lookVars
<1>2. /\ alike' \subseteq alike /\ alike' \subseteq AlikeNow'
      /\ unlike' \subseteq unlike /\ unlike' \subseteq UnlikeNow'
      /\ unlike' # {} => head' = head
      /\ ~crossed' => ~crossed /\ (statusAt \in {"head", "index"} => index' = index)
    <2>1. alike' \subseteq alike /\ alike' \subseteq AlikeNow'
        BY DEF Meanwhile
    <2>2. unlike' = IF head' = head THEN unlike \cap UnlikeNow' ELSE {}
        BY DEF Meanwhile
    <2>3. ~crossed' => ~crossed /\ (statusAt \in {"head", "index"} => index' = index)
        BY DEF Meanwhile
    <2> QED
        BY <2>1, <2>2, <2>3
<1>3. StatusIdle'
    BY <1>1, <1>2 DEF StatusIdle, StatusInvariant
<1>4. SeesAlike'
    <2>1. ASSUME NEW f \in alike', f \in Staged(statusIndex, index'), statusAt # "none" PROVE FALSE
        <3>1. f \in AlikeNow /\ f \in AlikeNow' /\ f \notin Staged(statusIndex, index)
            BY <1>2, <2>1 DEF SeesAlike, StatusInvariant
        <3>2. f \notin Staged(index, head) /\ f \notin Staged(index', head')
            BY <3>1 DEF AlikeNow
        <3>3. index' = index \/ head' = head
            <4>1. CASE Put \/ Delete
                BY <4>1, UserSteps DEF StatusInvariant, TreesInvariant
            <4>2. ASSUME NEW p \in Procs, Acts(p) PROVE index' = index \/ head' = head
                <5>1. CASE Add(p) \/ Rm(p) \/ Commit(p) \/ StashPush(p) \/ Reset(p)
                    BY <5>1, StartedCall DEF Call, StatusInvariant, TreesInvariant
                <5> QED
                    BY <4>2, <5>1 DEF Acts, Open, FileStep, Write, MakeCommit
            <4> QED
                BY <4>1, <4>2 DEF WorkNext, Acts
        <3> QED
            BY <2>1, <3>1, <3>2, <3>3 DEF Staged
    <2>2. listing' \cap alike' = {}
        BY <1>1, <1>2 DEF SeesAlike, StatusInvariant
    <2> QED
        BY <1>1, <1>2, <2>1, <2>2 DEF SeesAlike
<1>5. SeesUnlike'
    <2>1. ASSUME ~crossed', unlike' # {} PROVE ~crossed /\ head' = head
        BY <1>2, <2>1
    <2>2. ~crossed' /\ statusAt \in {"head", "index"} => statusIndex = index'
        BY <1>2 DEF SeesUnlike, StatusInvariant
    <2>3. ~crossed' /\ statusAt \in {"index", "files", "walk"} =>
             unlike' \cap Staged(statusIndex, head') \subseteq listing
        BY <1>2, <2>1 DEF SeesUnlike, StatusInvariant
    <2>4. ~crossed' /\ statusAt = "files" => (unlike' \cap DOMAIN statusIndex) \ unread \subseteq listing
        BY <1>2 DEF SeesUnlike, StatusInvariant
    <2>5. ~crossed' /\ statusAt = "walk" =>
             \A f \in unlike' \ listing : f \notin DOMAIN statusIndex /\ Above(f) \cap unread # {}
        BY <1>2 DEF SeesUnlike, StatusInvariant
    <2> QED
        BY <1>1, <1>2, <2>2, <2>3, <2>4, <2>5 DEF SeesUnlike
<1> QED
    BY <1>3, <1>4, <1>5

LEMMA StatusTypeStep ==
    ASSUME StatusInvariant, WorkTypeOK', [StatusNext]_statusVars
    PROVE  StatusTypeOK'
<1>1. /\ index \in Indexes /\ DOMAIN index \subseteq Paths /\ NoEntries \in Indexes
      /\ DOMAIN head \subseteq Paths /\ DOMAIN statusIndex \subseteq Paths
    <2>1. head \in Indexes
        BY IndexFacts DEF StatusInvariant, TreesInvariant, WorkTypeOK
    <2>2. NoEntries \in [{} -> Blobs]
        BY DEF NoEntries
    <2> QED
        BY <2>1, <2>2, IndexFacts DEF StatusInvariant, TreesInvariant, WorkTypeOK, StatusTypeOK
<1>2. StatusTypeOK
    BY DEF StatusInvariant
<1>3. CASE WorkNext /\ Meanwhile
    <2>1. alike' \subseteq Paths /\ unlike' \subseteq Paths /\ crossed' \in BOOLEAN
        BY <1>2, <1>3 DEF StatusTypeOK, Meanwhile
    <2> QED
        BY <1>2, <1>3, <2>1 DEF StatusTypeOK, Meanwhile, lookVars
<1>4. CASE BeginStatus
    <2>1. AlikeNow \subseteq Paths /\ UnlikeNow \subseteq Paths
        BY DEF AlikeNow, UnlikeNow
    <2> QED
        BY <1>1, <1>2, <1>4, <2>1 DEF BeginStatus, StatusTypeOK
<1>5. CASE ReadHead
    <2>1. Staged(statusIndex, head) \subseteq Paths
        BY <1>1 DEF Staged
    <2> QED
        BY <1>2, <1>5, <2>1 DEF ReadHead, StatusTypeOK, sinceVars
<1>6. CASE ReadIndex
    BY <1>1, <1>2, <1>6 DEF ReadIndex, StatusTypeOK, sinceVars
<1>7. CASE FailStatus \/ ReturnStatus
    BY <1>1, <1>2, <1>7 DEF FailStatus, ReturnStatus, EndStatus, StatusTypeOK
<1>8. CASE CompareFile
    <2>1. PICK f \in unread : /\ listing' = IF Changed(work, statusIndex, f) THEN listing \cup {f} ELSE listing
                              /\ unread' = unread \ {f}
        BY <1>8 DEF CompareFile
    <2>2. listing' \subseteq Paths /\ unread' \subseteq Paths
        BY <1>2, <2>1 DEF StatusTypeOK
    <2> QED
        BY <1>2, <1>8, <2>2 DEF CompareFile, StatusTypeOK, sinceVars
<1>9. CASE WalkTop \/ WalkOn
    <2>1. PICK d : WalkDirectory(d)
        BY <1>9 DEF WalkTop, WalkOn
    <2>2. listing' \subseteq Paths /\ unread' \subseteq Paths
        BY <1>2, <2>1 DEF WalkDirectory, StatusTypeOK
    <2> QED
        BY <1>2, <2>1, <2>2 DEF WalkDirectory, StatusTypeOK, sinceVars
<1>10. CASE UNCHANGED statusVars
    BY <1>2, <1>10 DEF StatusTypeOK, statusVars, lookVars, sinceVars
<1> QED
    BY <1>3, <1>4, <1>5, <1>6, <1>7, <1>8, <1>9, <1>10 DEF StatusNext

\* A file is compared: what was always alike has not changed, what was always unlike
\* is found changed, unless it is staged.
LEMMA ComparedSeen ==
    ASSUME StatusInvariant, NEW f \in unread, statusAt = "files", ~Unreadable(work, f)
    PROVE  /\ Changed(work, statusIndex, f) /\ f \in DOMAIN statusIndex => f \notin alike
           /\ f \in unlike \cap DOMAIN statusIndex =>
                 f \in Staged(statusIndex, head) \/ Changed(work, statusIndex, f)
<1>1. /\ f \in Paths /\ work \in [Paths -> Blobs \cup {Absent, Dir}]
      /\ Rooted /\ SeesAlike /\ SeesUnlike
    BY DEF StatusInvariant, TreesInvariant, WorkTypeOK, StatusTypeOK
<1>2. Stat(work, f) => File(work[f])
    <2>1. Stat(work, f) => work[f] # Dir /\ work[f] # Absent
        BY DEF Unreadable, Stat
    <2> QED
        BY <1>1, <2>1, BlobFacts
<1>3. ASSUME f \in alike, f \in DOMAIN statusIndex PROVE ~Changed(work, statusIndex, f)
    <2>1. f \notin Staged(index, head) /\ AsIn(work, head, f) /\ f \notin Staged(statusIndex, index)
        BY <1>1, <1>3 DEF SeesAlike, AlikeNow
    <2>2. f \in DOMAIN head /\ statusIndex[f] = head[f]
        BY <1>3, <2>1 DEF Staged
    <2>3. File(work[f]) /\ work[f].sha = statusIndex[f].sha
        BY <2>1, <2>2 DEF AsIn
    <2>4. Stat(work, f)
        <3>1. work[f] # Absent
            BY <2>3, BlobFacts
        <3>2. Parent[f] = 0 \/ work[Parent[f]] = Dir
            BY <1>1, <3>1, AboveFacts DEF Rooted
        <3> QED
            BY <3>1, <3>2, BlobFacts DEF Stat, At
    <2> QED
        BY <2>3, <2>4 DEF Changed
<1>4. ASSUME f \in unlike, f \in DOMAIN statusIndex, f \notin Staged(statusIndex, head)
      PROVE  Changed(work, statusIndex, f)
    <2>1. f \in DOMAIN head /\ statusIndex[f] = head[f]
        BY <1>4 DEF Staged
    <2>2. ~(File(work[f]) /\ work[f].sha = head[f].sha)
        BY <1>1, <1>4, <2>1 DEF SeesUnlike, UnlikeNow, AsIn
    <2> QED
        BY <1>2, <2>1, <2>2 DEF Changed
<1> QED
    BY <1>3, <1>4

\* What is unlike and in no index is a file that the walk finds.
LEMMA UntrackedSeen ==
    ASSUME StatusInvariant, NEW f \in unlike, f \notin DOMAIN statusIndex, f \notin Staged(statusIndex, head)
    PROVE  f \in Untracked(work, statusIndex) /\ \A d \in Above(f) : work[d] = Dir
<1>1. f \in Paths /\ Rooted /\ SeesUnlike
    BY DEF StatusInvariant, TreesInvariant, StatusTypeOK
<1>2. f \notin DOMAIN head
    BY DEF Staged
<1>3. File(work[f]) /\ ~ToDir(work[f])
    BY <1>1, <1>2 DEF SeesUnlike, UnlikeNow, AsIn
<1>4. work[f] # Absent
    BY <1>3, BlobFacts
<1> QED
    BY <1>1, <1>3, <1>4 DEF Rooted, Untracked, FilesIn

\* What was always alike is not untracked.
LEMMA AlikeTracked ==
    ASSUME StatusInvariant, NEW f \in alike, statusAt # "none"
    PROVE  f \notin Untracked(work, statusIndex)
<1>1. f \notin Staged(index, head) /\ AsIn(work, head, f) /\ f \notin Staged(statusIndex, index)
    BY DEF StatusInvariant, SeesAlike, AlikeNow
<1>2. f \notin DOMAIN statusIndex => f \notin DOMAIN head
    BY <1>1 DEF Staged
<1> QED
    BY <1>1, <1>2 DEF AsIn, Untracked, FilesIn

\* A directory is walked: the files in it are in the listing, the way to the others
\* goes on in one of its directories.
LEMMA WalkSeen ==
    ASSUME StatusInvariant, NEW d \in Paths \cup {0}, WalkDirectory(d), ~crossed,
           NEW f \in unlike, f \notin listing',
           f \notin DOMAIN statusIndex, f \notin Staged(statusIndex, head),
           d = 0 \/ Above(f) \cap unread # {}
    PROVE  Above(f) \cap unread' # {}
<1> DEFINE inside == {g \in Paths : Parent[g] = d /\ At(work, d) = Dir}
<1>1. /\ f \in Paths /\ f \in Untracked(work, statusIndex)
      /\ Above(f) \subseteq Paths /\ \A c \in Above(f) : work[c] = Dir
    BY UntrackedSeen, AboveFacts DEF StatusInvariant, StatusTypeOK
<1>2. /\ listing' = listing \cup (inside \cap Untracked(work, statusIndex))
      /\ unread' = (unread \ {d}) \cup {c \in inside : work[c] = Dir}
    BY DEF WalkDirectory
<1>3. f \notin inside
    BY <1>1, <1>2
<1>4. CASE d \notin Above(f) /\ d # 0
    BY <1>2, <1>4
<1>5. CASE d \in Above(f) \/ d = 0
    <2>1. At(work, d) = Dir
        BY <1>1, <1>5 DEF At
    <2>2. Parent[f] # d
        BY <1>1, <1>3, <2>1
    <2>3. PICK c \in Above(f) : Parent[c] = d
        BY <1>1, <1>5, <2>2, WayDown, WayFromTop
    <2>4. c \in unread'
        BY <1>1, <1>2, <2>1, <2>3
    <2> QED
        BY <2>4
<1> QED
    BY <1>4, <1>5

LEMMA StatusSeen ==
    ASSUME StatusInvariant, StatusTypeOK',
           BeginStatus \/ ReadHead \/ ReadIndex \/ FailStatus \/ CompareFile \/ WalkTop \/ WalkOn \/ ReturnStatus
    PROVE  StatusIdle' /\ SeesAlike' /\ SeesUnlike'
<1>0. StatusTypeOK /\ StatusIdle /\ SeesAlike /\ SeesUnlike
    BY DEF StatusInvariant
<1>1. UNCHANGED <<work, index, head>> /\ AlikeNow' = AlikeNow /\ UnlikeNow' = UnlikeNow
    <2>1. UNCHANGED <<work, index, head>>
        BY DEF BeginStatus, ReadHead, ReadIndex, FailStatus, CompareFile, WalkTop, WalkOn, ReturnStatus,
               WalkDirectory, EndStatus, workVars
    <2> QED
        BY <2>1 DEF AlikeNow, UnlikeNow
<1>2. CASE BeginStatus
    <2>1. /\ statusAt = "none" /\ statusAt' = "head" /\ statusIndex' = index
          /\ alike' = AlikeNow /\ unlike' = UnlikeNow /\ listing' = {}
        BY <1>0, <1>2 DEF BeginStatus, StatusIdle
    <2>2. Staged(index, index) = {}
        BY DEF Staged
    <2> QED
        BY <1>1, <2>1, <2>2 DEF StatusIdle, SeesAlike, SeesUnlike
<1>3. CASE ReadHead
    <2>1. /\ statusAt = "head" /\ statusAt' = "index" /\ listing' = Staged(statusIndex, head)
          /\ UNCHANGED <<statusIndex, unread, alike, unlike, crossed>>
        BY <1>3 DEF ReadHead, sinceVars
    <2>2. ASSUME NEW f \in alike PROVE f \notin Staged(statusIndex, head)
        <3>1. f \notin Staged(statusIndex, index) /\ f \notin Staged(index, head)
            BY <1>0, <2>1, <2>2 DEF SeesAlike, AlikeNow
        <3> QED
            BY <3>1 DEF Staged
    <2> QED
        BY <1>0, <1>1, <2>1, <2>2 DEF StatusIdle, SeesAlike, SeesUnlike
<1>4. CASE ReadIndex
    <2>1. /\ statusAt = "index" /\ statusAt' = "files" /\ statusIndex' = index /\ unread' = DOMAIN index
          /\ UNCHANGED <<listing, alike, unlike, crossed>>
        BY <1>4 DEF ReadIndex, sinceVars
    <2>2. Staged(index, index) = {}
        BY DEF Staged
    <2> QED
        BY <1>0, <1>1, <2>1, <2>2 DEF StatusIdle, SeesAlike, SeesUnlike
<1>5. CASE FailStatus \/ ReturnStatus
    BY <1>5 DEF FailStatus, ReturnStatus, EndStatus, StatusIdle, SeesAlike, SeesUnlike
<1>6. CASE CompareFile
    <2>1. PICK f \in unread :
             /\ ~Unreadable(work, f)
             /\ listing' = IF Changed(work, statusIndex, f) THEN listing \cup {f} ELSE listing
             /\ unread' = unread \ {f}
        BY <1>6 DEF CompareFile
    <2>2. statusAt = "files" /\ UNCHANGED <<statusAt, statusIndex, alike, unlike, crossed>>
        BY <1>6 DEF CompareFile, sinceVars
    <2>3. f \in DOMAIN statusIndex
        BY <1>0, <2>2 DEF StatusIdle
    <2> QED
        BY <1>0, <1>1, <2>1, <2>2, <2>3, ComparedSeen DEF StatusIdle, SeesAlike, SeesUnlike
<1>7. CASE WalkTop \/ WalkOn
    <2>1. PICK d \in unread \cup {0} :
             /\ WalkDirectory(d)
             /\ \/ statusAt = "files" /\ unread = {} /\ d = 0
                \/ statusAt = "walk" /\ d \in unread
        BY <1>7 DEF WalkTop, WalkOn
    <2>2. /\ statusAt' = "walk" /\ UNCHANGED <<statusIndex, alike, unlike, crossed>>
          /\ listing \subseteq listing' /\ listing' \subseteq listing \cup Untracked(work, statusIndex)
        BY <2>1 DEF WalkDirectory, sinceVars
    <2>3. SeesAlike'
        BY <1>0, <1>1, <2>1, <2>2, AlikeTracked DEF SeesAlike
    <2>4. ASSUME ~crossed, NEW f \in unlike \ listing'
          PROVE  f \notin DOMAIN statusIndex /\ Above(f) \cap unread' # {}
        <3>1. f \notin listing /\ f \notin Staged(statusIndex, head)
            BY <1>0, <2>1, <2>2, <2>4 DEF SeesUnlike
        <3>2. f \notin DOMAIN statusIndex /\ (d = 0 \/ Above(f) \cap unread # {})
            BY <1>0, <2>1, <2>4, <3>1 DEF SeesUnlike
        <3>3. d \in Paths \cup {0}
            BY <1>0 DEF StatusTypeOK
        <3> QED
            BY <2>1, <2>4, <3>1, <3>2, <3>3, WalkSeen
    <2>5. SeesUnlike'
        BY <1>0, <1>1, <2>1, <2>2, <2>4 DEF SeesUnlike
    <2> QED
        BY <2>2, <2>3, <2>5 DEF StatusIdle
<1> QED
    BY <1>2, <1>3, <1>4, <1>5, <1>6, <1>7

\* What status reports is so, and it misses nothing, whatever calls go on at the same
\* time, unless one writes the index between its two readings: Status, StatusTruthful.
THEOREM StatusTellsTheTruth == StatusSpec => []StatusTruthful
<1>1. ASSUME StatusInit PROVE StatusInvariant
    <2>1. WorkInit => TreesInvariant
        BY TreesStart
    <2>2. NoEntries \in Indexes
        <3>1. NoEntries \in [{} -> Blobs]
            BY DEF NoEntries
        <3> QED
            BY <3>1, IndexFacts
    <2> QED
        BY <1>1, <2>1, <2>2 DEF StatusInit, StatusInvariant, StatusTypeOK, StatusIdle, SeesAlike, SeesUnlike
<1>2. ASSUME StatusInvariant, [StatusNext]_statusVars PROVE StatusInvariant'
    <2>1. [WorkNext]_workVars
        BY <1>2 DEF StatusNext, BeginStatus, ReadHead, ReadIndex, FailStatus, CompareFile, WalkTop, WalkOn,
                    ReturnStatus, WalkDirectory, EndStatus, statusVars
    <2>2. TreesInvariant'
        BY <1>2, <2>1, TreesStep DEF StatusInvariant
    <2>3. StatusTypeOK'
        BY <1>2, <2>2, StatusTypeStep DEF TreesInvariant
    <2>4. StatusIdle' /\ SeesAlike' /\ SeesUnlike'
        <3>1. CASE WorkNext /\ Meanwhile
            BY <1>2, <2>2, <2>3, <3>1, OthersSeen DEF TreesInvariant
        <3>2. CASE UNCHANGED statusVars
            BY <1>2, <3>2 DEF statusVars, workVars, lookVars, sinceVars, StatusInvariant,
                              StatusIdle, SeesAlike, SeesUnlike, AlikeNow, UnlikeNow
        <3> QED
            BY <1>2, <2>3, <3>1, <3>2, StatusSeen DEF StatusNext
    <2> QED
        BY <2>2, <2>3, <2>4 DEF StatusInvariant
<1>3. ASSUME StatusInvariant PROVE StatusTruthful
    <2>1. Reports /\ ~crossed => unlike \subseteq listing
        BY <1>3 DEF StatusInvariant, SeesUnlike, Reports
    <2> QED
        BY <1>3, <2>1 DEF StatusInvariant, SeesAlike, StatusTruthful
<1> QED
    BY <1>1, <1>2, <1>3, PTL DEF StatusSpec

=============================================================================
