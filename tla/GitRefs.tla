------------------------------- MODULE GitRefs -------------------------------
(***************************************************************************)
(* The references of a git repository on disk, as dulwich keeps them:      *)
(* loose files, the file packed-refs, and a lock file beside each file     *)
(* that is written (dulwich/file.py, refs.py), with the operations that    *)
(* change them: commit, branch, tag, stash, switching HEAD, and a push     *)
(* that arrives (repo.py, porcelain.py, stash.py, server.py).              *)
(*                                                                         *)
(* Several processes work on the repository at the same time.  Every read  *)
(* of a file, every creation of a lock, every write, rename and removal is *)
(* a step of its own, and a process may be killed between any two.  A      *)
(* process keeps what it once read of packed-refs, until it opens the      *)
(* repository again.                                                       *)
(*                                                                         *)
(* A lock file is renamed and removed by its name, whoever has made it.    *)
(* close() removes it once more after the rename, when another process may *)
(* have made a new one: from then on two processes may be at work on one   *)
(* file.  A file that nothing was written to is empty; while a process     *)
(* still has it open for writing, the contents are the process.            *)
(***************************************************************************)
EXTENDS Dulwich, Integers, FiniteSets

CONSTANTS HEAD, Stash, PackedRefs,  \* model values: names of files
          Empty,      \* a model value: the contents of an empty file
          Branches,   \* the names of branches and tags
          MaxCommits, \* bound on the commits there are, one per operation and the first
          MaxOps,     \* bound on the operations started
          MaxKills    \* bound on the processes killed

Names == Branches \cup {HEAD, Stash}
Files == Names \cup {PackedRefs}
Commits == 1 .. MaxCommits

ASSUME NamesAssumption ==
    /\ None \notin Names \cup Commits \cup Procs
    /\ PackedRefs \notin Names /\ Names \cap Commits = {}
    /\ Empty \notin Names \cup Commits \cup Procs \cup {None}
    /\ Procs \cap (Names \cup Commits) = {}
ASSUME NoneAssumption ==
    \A x \in Procs \cup {None, Empty} : x \notin [Names -> Commits \cup {None}]
ASSUME BoundAssumption == MaxCommits \in Nat /\ MaxOps \in 0 .. MaxCommits - 1 /\ MaxKills \in Nat

VARIABLES
    loose,    \* the contents of the loose files: a commit, the name of a ref, None
    packed,   \* the contents of packed-refs
    lock,     \* who made the lock file of a file
    written,  \* whether a process has written its lock file
    parent,   \* the first parent of each commit
    made,     \* the commits 1 .. made exist
    pc,       \* what each process does next
    op,       \* the operation it is in
    prim,     \* the change of a ref it is in: cas, set, add, remove, symref
    name,     \* the ref that change is asked for
    real,     \* the ref it leads to, and the one being read on the way
    got,      \* what was read at the end of the chain
    old,      \* old_ref
    new,      \* new_ref
    cache,    \* _packed_refs: None or what was read
    ops, kills,
    kept,     \* history: commits on refs, reported done and not taken off since
    robbed    \* history: the files whose lock another process has removed

disk == <<loose, packed, lock, written, robbed>>
local == <<op, prim, name, real, got, old, new>>
bounds == <<ops, kills>>
vars == <<disk, parent, made, pc, local, cache, bounds, kept>>

-----------------------------------------------------------------------------
NoRefs == [r \in Names |-> None]
IsRef(contents) == contents \in Commits \cup Names
IsEmpty(contents) == contents \in Procs \cup {Empty}

\* What a reader sees who opens the repository now.
Value(r) == IF IsRef(loose[r]) THEN loose[r] ELSE packed[r]

\* A commit and those before it: what is in every set of commits that has it
\* and the parents of its members.
ParentsIn(S) == \A n \in S : parent[n] # 0 => parent[n] \in S
History(c) == {k \in Commits : \A S \in SUBSET Commits : c \in S /\ ParentsIn(S) => k \in S}

(* get_packed_refs reads the file on its first call only, and raises if it *)
(* has no first line, but not on the next call.                            *)
CacheOf(p) == IF cache[p] # None THEN cache[p] ELSE IF IsEmpty(packed) THEN NoRefs ELSE packed
Raises(p) == cache[p] = None /\ IsEmpty(packed)
CacheAfter(p, reads) == IF reads THEN [cache EXCEPT ![p] = CacheOf(p)] ELSE cache

\* read_ref: the loose file, else, also for an empty one, what this process knows of packed-refs.
ReadRef(p, r) == IF IsRef(loose[r]) THEN loose[r] ELSE CacheOf(p)[r]
CacheAfterRead(p, r) == CacheAfter(p, ~IsRef(loose[r]))
ReadRaises(p, r) == ~IsRef(loose[r]) /\ Raises(p)

Init ==
    /\ \E b \in Branches :
         \E where \in {"loose", "packed", "both", "unborn"} :
           /\ loose = [r \in Names |-> IF r = HEAD THEN b
                                       ELSE IF r = b /\ where \in {"loose", "both"} THEN 1 ELSE None]
           /\ packed = [r \in Names |-> IF r = b /\ where \in {"packed", "both"} THEN 1 ELSE None]
    /\ lock = [f \in Files |-> None] /\ written = [p \in Procs |-> FALSE] /\ robbed = {}
    /\ parent = [c \in Commits |-> 0]
    /\ made = 1
    /\ pc = [p \in Procs |-> "idle"]
    /\ op = [p \in Procs |-> None] /\ prim = [p \in Procs |-> None]
    /\ name = [p \in Procs |-> HEAD] /\ real = [p \in Procs |-> HEAD]
    /\ got = [p \in Procs |-> None] /\ old = [p \in Procs |-> None]
    /\ new = [p \in Procs |-> None]
    /\ cache = [p \in Procs |-> None]
    /\ ops = 0 /\ kills = 0
    /\ kept = {}

Goto(p, where) == pc' = [pc EXCEPT ![p] = where]

\* The operation returns or raises.
Leave(p) == Goto(p, "idle") /\ UNCHANGED local

-----------------------------------------------------------------------------
(* An operation starts, on the repository it has open or on one it opens   *)
(* for it, as every function of porcelain.py does.                         *)

Asks(p, what, r) ==
    /\ pc[p] = "idle" /\ ops < MaxOps
    /\ ops' = ops + 1
    /\ op' = [op EXCEPT ![p] = what]
    /\ name' = [name EXCEPT ![p] = r] /\ real' = [real EXCEPT ![p] = r]
    /\ got' = [got EXCEPT ![p] = None] /\ old' = [old EXCEPT ![p] = None]
    /\ UNCHANGED <<disk, parent, made, kills, kept>>

Opens(p) == cache' \in {cache, [cache EXCEPT ![p] = None]}

\* commit, branch_create and tag_create, stash_push: the value of HEAD is needed first.
Start(p) ==
    /\ \E what \in {"commit", "branch", "force", "stash"} : Asks(p, what, HEAD) /\ Opens(p)
    /\ prim' = [prim EXCEPT ![p] = "read"] /\ new' = [new EXCEPT ![p] = None]
    /\ Goto(p, "follow")

\* receive-pack tells the refs it has, and reads packed-refs for that.
StartPush(p) ==
    /\ ~IsEmpty(packed)
    /\ \E r \in Branches : Asks(p, "push", r)
    /\ cache' \in {[cache EXCEPT ![p] = c] : c \in {CacheOf(p), packed}}
    /\ prim' = [prim EXCEPT ![p] = "read"] /\ new' = [new EXCEPT ![p] = None]
    /\ Goto(p, "follow")

\* branch_delete and tag_delete.
StartDelete(p) ==
    /\ \E r \in Branches : Asks(p, "delete", r) /\ Opens(p)
    /\ prim' = [prim EXCEPT ![p] = "remove"] /\ new' = [new EXCEPT ![p] = None]
    /\ Goto(p, "lock")

\* update_head and symbolic_ref: HEAD to a branch, which has to be there.
StartSwitch(p) ==
    /\ Asks(p, "switch", HEAD) /\ Opens(p)
    /\ prim' = [prim EXCEPT ![p] = "symref"]
    /\ \E r \in Branches : new' = [new EXCEPT ![p] = r]
    /\ Goto(p, "find")

\* update_head(detached): HEAD is deleted, then set to the commit.
StartDetach(p) ==
    \E c \in 1 .. made :
       /\ Asks(p, "detach", HEAD) /\ Opens(p)
       /\ prim' = [prim EXCEPT ![p] = "remove"] /\ new' = [new EXCEPT ![p] = c]
       /\ Goto(p, "lock")

-----------------------------------------------------------------------------
Find(p) ==
    /\ pc[p] = "find"
    /\ IF ReadRef(p, new[p]) = None \/ ReadRaises(p, new[p]) THEN Leave(p)
       ELSE Goto(p, "lock") /\ UNCHANGED local
    /\ cache' = CacheAfterRead(p, new[p])
    /\ UNCHANGED <<disk, parent, made, bounds, kept>>

IsSymref(contents) == contents \in Names

\* follow: one ref of the chain is read.
Hop(p) ==
    /\ pc[p] = "follow"
    /\ LET contents == ReadRef(p, real[p])
       IN  IF IsSymref(contents)
           THEN real' = [real EXCEPT ![p] = contents] /\ UNCHANGED <<pc, got>>
           ELSE IF ReadRaises(p, real[p]) THEN Goto(p, "idle") /\ UNCHANGED <<real, got>>
           ELSE got' = [got EXCEPT ![p] = contents] /\ UNCHANGED real
                /\ Goto(p, IF prim[p] = "read" THEN "decide" ELSE "followed")
    /\ cache' = CacheAfterRead(p, real[p])
    /\ UNCHANGED <<disk, parent, made, op, prim, name, old, new, bounds, kept>>

\* The change of ref r that comes next, which follows r first.
Change(p, what, r) ==
    /\ prim' = [prim EXCEPT ![p] = what]
    /\ name' = [name EXCEPT ![p] = r] /\ real' = [real EXCEPT ![p] = r]
    /\ Goto(p, IF what = "remove" THEN "lock" ELSE "follow")

\* do_commit: the parent is what the ref was, the commit is stored, and the
\* ref is moved on if it is still that, or made if it was not there.
CommitOn(p, r) ==
    /\ made < MaxCommits
    /\ made' = made + 1
    /\ parent' = [parent EXCEPT ![made + 1] = IF got[p] = None THEN 0 ELSE got[p]]
    /\ new' = [new EXCEPT ![p] = made + 1]
    /\ old' = [old EXCEPT ![p] = got[p]]
    /\ Change(p, IF got[p] = None THEN "add" ELSE "cas", r)
    /\ UNCHANGED <<op, got>>

DecideCommit(p) ==
    /\ pc[p] = "decide" /\ op[p] \in {"commit", "stashed"}
    /\ CommitOn(p, name[p])
    /\ UNCHANGED <<disk, cache, bounds, kept>>

\* A branch or tag of the value of HEAD, which raises KeyError if there is none.
DecideBranch(p) ==
    /\ pc[p] = "decide" /\ op[p] \in {"branch", "force"}
    /\ IF got[p] = None THEN Leave(p)
       ELSE /\ new' = [new EXCEPT ![p] = got[p]]
            /\ \E r \in Branches : Change(p, IF op[p] = "force" THEN "set" ELSE "add", r)
            /\ UNCHANGED <<op, got, old>>
    /\ UNCHANGED <<disk, parent, made, cache, bounds, kept>>

\* Stash.push: the ref of the stash is set to HEAD, and then committed to.
DecideStash(p) ==
    /\ pc[p] = "decide" /\ op[p] = "stash"
    /\ IF got[p] = None THEN Leave(p)
       ELSE /\ new' = [new EXCEPT ![p] = got[p]]
            /\ Change(p, "set", Stash)
            /\ UNCHANGED <<op, got, old>>
    /\ UNCHANGED <<disk, parent, made, cache, bounds, kept>>

\* The client names the value it was told, or none, and the new one, or none
\* to delete.  Objects it sends are made by then.
DecidePush(p) ==
    /\ pc[p] = "decide" /\ op[p] = "push"
    /\ old' = [old EXCEPT ![p] = got[p]]
    /\ \E c \in (1 .. made) \cup {None} :
         /\ new' = [new EXCEPT ![p] = c]
         /\ Change(p, IF c = None THEN "remove" ELSE "cas", name[p])
    /\ UNCHANGED <<disk, parent, made, op, got, cache, bounds, kept>>

-----------------------------------------------------------------------------
\* GitFile(..., 'wb'): the lock file is created, or FileLocked is raised.  remove
\* and set_symbolic_ref do not follow.  add_if_new is over if there is a value.
Lock(p) ==
    /\ pc[p] \in {"followed", "lock"}
    /\ IF \/ prim[p] = "add" /\ got[p] # None
          \/ lock[real[p]] # None
       THEN Leave(p) /\ UNCHANGED <<lock, written>>
       ELSE /\ lock' = [lock EXCEPT ![real[p]] = p]
            /\ written' = [written EXCEPT ![p] = FALSE]
            /\ Goto(p, "locked")
            /\ UNCHANGED local
    /\ UNCHANGED <<loose, packed, robbed, parent, made, cache, bounds, kept>>

\* A mistake: what was read before the lock was taken.
ReadBefore(p, r) == got[p]

\* The value the old one is compared with, read again under the lock.
ReadLocked(p, r) == IF loose[r] # None THEN loose[r] ELSE CacheOf(p)[r]

\* A mistake: nothing is looked up again.
NeverExists(p) == FALSE

\* add_if_new looks for the file of the ref it leads to, and for the name it
\* was called with among the packed ones.
Exists(p) == loose[real[p]] # None \/ CacheOf(p)[name[p]] # None

\* Under the lock: may the change be made?
Allowed(p) ==
    CASE prim[p] = "cas" -> ReadLocked(p, real[p]) = old[p]
      [] prim[p] = "add" -> ~Exists(p)
      [] prim[p] = "remove" /\ op[p] = "push" -> ReadLocked(p, real[p]) = old[p]
      [] OTHER -> TRUE

\* Whether packed-refs is asked for; symref asks for the old value, for the reflog.
ReadsPacked(p) ==
    CASE prim[p] \in {"cas", "add"} -> loose[real[p]] = None
      [] prim[p] = "remove" /\ op[p] = "push" -> loose[real[p]] = None
      [] prim[p] = "symref" -> ~IsRef(loose[IF loose[HEAD] \in Names THEN loose[HEAD] ELSE HEAD])
      [] OTHER -> FALSE

(* A refusal aborts.  An exception does so in remove and symref; in the    *)
(* other two it leaves the with statement, which closes the file as it is. *)
CheckUnderLock(p) ==
    /\ pc[p] = "locked"
    /\ CASE ReadsPacked(p) /\ Raises(p) /\ prim[p] \in {"cas", "add"} ->
              /\ op' = [op EXCEPT ![p] = "raised"] /\ new' = [new EXCEPT ![p] = Empty]
              /\ Goto(p, "close") /\ UNCHANGED <<prim, name, real, got, old>>
         [] ReadsPacked(p) /\ Raises(p) /\ prim[p] \notin {"cas", "add"} ->
              Goto(p, "giveup") /\ UNCHANGED local
         [] OTHER ->
              /\ Goto(p, IF ~Allowed(p) THEN "giveup" ELSE IF prim[p] = "remove" THEN "unlink" ELSE "close")
              /\ UNCHANGED local
    /\ cache' = CacheAfter(p, ReadsPacked(p))
    /\ UNCHANGED <<disk, parent, made, bounds, kept>>

\* What a write does to the commits known to be on the ref: a commit adds one,
\* any other write leaves those that come before its value.
Keeps(p) ==
    {k \in kept : k[1] # real[p] \/ (new[p] \in Commits /\ k[2] \in History(new[p]))
                    \/ (op[p] \in {"commit", "stashed"})}
        \cup (IF op[p] \in {"commit", "stashed"} THEN {<<real[p], new[p]>>} ELSE {})

\* close: the buffer is written to the file this process has open, wherever it is now.
FlushLock(p) ==
    /\ pc[p] = "close"
    /\ written' = [written EXCEPT ![p] = TRUE]
    /\ loose' = IF loose[real[p]] = p THEN [loose EXCEPT ![real[p]] = new[p]] ELSE loose
    /\ Goto(p, "rename")
    /\ UNCHANGED <<packed, lock, robbed, parent, made, local, cache, bounds, kept>>

\* What is in the lock file that q has made for a ref.
LockText(q) == IF written[q] /\ prim[q] # "remove" THEN new[q] ELSE q

\* The lock file takes the place of the file; there may be none.
Rename(p) ==
    /\ pc[p] = "rename"
    /\ IF lock[real[p]] = None THEN Goto(p, "giveup") /\ UNCHANGED <<loose, lock, kept>>
       ELSE /\ loose' = [loose EXCEPT ![real[p]] = LockText(lock[real[p]])]
            /\ lock' = [lock EXCEPT ![real[p]] = None]
            /\ kept' = Keeps(p)
            /\ Goto(p, "cleanup")
    /\ UNCHANGED <<packed, written, robbed, parent, made, local, cache, bounds>>

\* abort: what is called like the lock file is removed, whoever has made it.
RemoveLock(p, f) ==
    /\ lock' = [lock EXCEPT ![f] = None]
    /\ robbed' = IF lock[f] \in {None, p} THEN robbed ELSE robbed \cup {f}

\* abort after a rename, an exception or a refusal, and when the lock file was only for
\* the lock.  A file that is closed unwritten stays empty.
Release(p) ==
    /\ pc[p] \in {"cleanup", "giveup", "removed"}
    /\ RemoveLock(p, real[p])
    /\ loose' = IF loose[real[p]] # p THEN loose
                ELSE [loose EXCEPT ![real[p]] = IF prim[p] = "symref" THEN new[p] ELSE Empty]
    /\ CASE pc[p] = "cleanup" /\ op[p] = "stash" ->
              /\ op' = [op EXCEPT ![p] = "stashed"]
              /\ prim' = [prim EXCEPT ![p] = "read"]
              /\ name' = [name EXCEPT ![p] = Stash] /\ real' = [real EXCEPT ![p] = Stash]
              /\ Goto(p, "follow") /\ UNCHANGED <<got, old, new>>
         [] pc[p] = "removed" /\ op[p] = "detach" ->
              Change(p, "set", HEAD) /\ UNCHANGED <<op, got, old, new>>
         [] OTHER -> Leave(p)
    /\ UNCHANGED <<packed, written, parent, made, cache, bounds, kept>>

-----------------------------------------------------------------------------
\* remove_if_equals: the loose file goes first.
Unlink(p) ==
    /\ pc[p] = "unlink"
    /\ loose' = [loose EXCEPT ![real[p]] = None]
    /\ kept' = {k \in kept : k[1] # real[p]}
    /\ Goto(p, IF cache[p] = None THEN "removed" ELSE "lockpacked")
    /\ UNCHANGED <<packed, lock, written, robbed, parent, made, local, cache, bounds>>

\* A mistake: the exception leaves the lock of the ref behind.
RaiseAtOnce(p) == Goto(p, "idle")

\* The exception passes the finally of remove_if_equals.
RaiseLocked(p) == Goto(p, "giveup")

\* _remove_packed_ref: packed-refs is locked ...
LockPacked(p) ==
    /\ pc[p] = "lockpacked"
    /\ IF lock[PackedRefs] # None THEN RaiseLocked(p) /\ UNCHANGED lock
       ELSE lock' = [lock EXCEPT ![PackedRefs] = p] /\ Goto(p, "readpacked")
    /\ UNCHANGED <<loose, packed, written, robbed, parent, made, local, cache, bounds, kept>>

\* ... and read again.
ReadPacked(p) ==
    /\ pc[p] = "readpacked"
    /\ cache' = [cache EXCEPT ![p] = IF IsEmpty(packed) THEN NoRefs ELSE packed]
    /\ Goto(p, IF IsEmpty(packed) THEN "failpacked"
               ELSE IF packed[real[p]] = None THEN "cleanpacked" ELSE "repack")
    /\ UNCHANGED <<disk, parent, made, local, bounds, kept>>

\* It is written without the ref ...
Repack(p) ==
    /\ pc[p] = "repack"
    /\ cache' = [cache EXCEPT ![p][real[p]] = None]
    /\ written' = [written EXCEPT ![p] = TRUE]
    /\ packed' = IF packed = p THEN cache'[p] ELSE packed
    /\ Goto(p, "renamepacked")
    /\ UNCHANGED <<loose, lock, robbed, parent, made, local, bounds, kept>>

PackedText(q) == IF written[q] THEN cache[q] ELSE q

\* ... and renamed.
RenamePacked(p) ==
    /\ pc[p] = "renamepacked"
    /\ IF lock[PackedRefs] = None THEN Goto(p, "failpacked") /\ UNCHANGED <<packed, lock>>
       ELSE /\ packed' = PackedText(lock[PackedRefs])
            /\ lock' = [lock EXCEPT ![PackedRefs] = None]
            /\ Goto(p, "cleanpacked")
    /\ UNCHANGED <<loose, written, robbed, parent, made, local, cache, bounds, kept>>

ReleasePacked(p) ==
    /\ pc[p] \in {"cleanpacked", "failpacked"}
    /\ RemoveLock(p, PackedRefs)
    /\ packed' = IF packed = p THEN Empty ELSE packed
    /\ Goto(p, IF pc[p] = "cleanpacked" THEN "removed" ELSE "giveup")
    /\ UNCHANGED <<loose, written, parent, made, local, cache, bounds, kept>>

\* The process is killed; its lock files stay.
Kill(p) ==
    /\ pc[p] \notin {"idle", "killed"} /\ kills < MaxKills
    /\ kills' = kills + 1
    /\ Goto(p, "killed")
    /\ UNCHANGED <<disk, parent, made, local, cache, ops, kept>>

Step(p) ==
    \/ Start(p) \/ StartPush(p) \/ StartDelete(p) \/ StartSwitch(p) \/ StartDetach(p)
    \/ Find(p) \/ Hop(p) \/ DecideCommit(p) \/ DecideBranch(p) \/ DecideStash(p) \/ DecidePush(p)
    \/ Lock(p) \/ CheckUnderLock(p) \/ FlushLock(p) \/ Rename(p) \/ Release(p)
    \/ Unlink(p) \/ LockPacked(p) \/ ReadPacked(p) \/ Repack(p) \/ RenamePacked(p)
    \/ ReleasePacked(p) \/ Kill(p)

Terminated == \A p \in Procs : pc[p] \in {"idle", "killed"}

Next == (\E p \in Procs : Step(p)) \/ (Terminated /\ UNCHANGED vars)

Spec == Init /\ [][Next]_vars

-----------------------------------------------------------------------------
(* Properties.                                                             *)

States == {"idle", "find", "follow", "followed", "decide", "lock", "locked", "close", "rename",
           "cleanup", "giveup", "unlink", "lockpacked", "readpacked", "repack", "renamepacked",
           "cleanpacked", "failpacked", "removed", "killed"}
Contents == [Names -> Commits \cup {None}]

TypeOK ==
    /\ loose \in [Names -> Commits \cup Names \cup Procs \cup {None, Empty}]
    /\ packed \in Contents \cup Procs \cup {Empty}
    /\ lock \in [Files -> Procs \cup {None}] /\ written \in [Procs -> BOOLEAN]
    /\ made \in Commits
    /\ parent \in [Commits -> 0 .. MaxCommits]
    /\ pc \in [Procs -> States]
    /\ op \in [Procs -> {"commit", "branch", "force", "stash", "stashed", "push", "delete",
                         "switch", "detach", "raised", None}]
    /\ prim \in [Procs -> {"read", "cas", "set", "add", "remove", "symref", None}]
    /\ name \in [Procs -> Names] /\ real \in [Procs -> Names]
    /\ got \in [Procs -> Commits \cup {None}] /\ old \in [Procs -> Commits \cup {None}]
    /\ new \in [Procs -> Commits \cup Names \cup {None, Empty}]
    /\ cache \in [Procs -> Contents \cup {None}]
    /\ ops \in 0 .. MaxOps /\ kills \in 0 .. MaxKills

\* No process has removed the lock that another had made for this ref or for packed-refs.
Unrobbed(r) == r \notin robbed /\ PackedRefs \notin robbed

(* A compare-and-swap (set_if_equals with an old value) that has got as    *)
(* far as renaming its file overwrites the value it compared with, or      *)
(* nothing: the update of another process is never lost, for all that the  *)
(* packed refs it compares with may be out of date, as long as no other    *)
(* process has removed a lock on the way by its name.                      *)
SwapLosesNoUpdate ==
    \A p \in Procs :
       pc[p] \in {"close", "rename"} /\ prim[p] = "cas" /\ Unrobbed(real[p]) =>
           Value(real[p]) \in {old[p], None}

(* A commit that was reported done stays in the history of the ref it was  *)
(* made on, until somebody deletes that ref or sets it to something else:  *)
(* commits, branches, stashes and pushes of other processes build on it,   *)
(* as long as none of them has removed the lock of another.                *)
CommitsKept ==
    \A k \in kept : Unrobbed(k[1]) => Value(k[1]) \in Commits /\ k[2] \in History(Value(k[1]))

(* Whatever way an operation ends, by success, refusal or exception, it    *)
(* leaves no lock file, also when another process has moved or removed     *)
(* what it had made; only a process that was killed does.                  *)
NoLockLeft == \A f \in Files, p \in Procs : lock[f] = p => pc[p] # "idle"

=============================================================================
