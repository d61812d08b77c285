------------------------------- MODULE Worktree -------------------------------
(***************************************************************************)
(* The working tree, the index and HEAD of a dulwich repository: add,      *)
(* remove, commit, reset and stash of porcelain.py, with repo.py, index.py *)
(* and stash.py.  Module Status adds porcelain.status.                     *)
(*                                                                         *)
(* A call reads the whole index when it starts and writes the whole index  *)
(* when it ends; nothing is locked in between.  Other processes and the    *)
(* user change files and the index between any two steps.  A killed        *)
(* process is one that takes no further step: what it had in memory is     *)
(* gone, what it did to files stays.                                       *)
(***************************************************************************)
EXTENDS TreePaths

CONSTANTS
    Starts,      \* the trees of HEAD and of another commit at the start
    Args,        \* the sets of paths a call is given; {}: none
    DirLinks,    \* what links say that lead to a directory; the others dangle
    MaxCalls,    \* bound: calls
    MaxEdits     \* bound: changes by the user

VARIABLES
    work,        \* the working tree: what is at a path
    index,       \* the index file: a function from paths to entries
    head,        \* the tree of the commit HEAD names
    trees,       \* the trees of all commits
    call,        \* what a process is doing
    phase,       \* and how far it is
    mem,         \* its Index object
    left,        \* the paths it has left
    calm,        \* nobody else changed the working tree or the index since it began
    calls, edits

workVars == <<work, index, head, trees, call, phase, mem, left, calm, calls, edits>>

Absent == [kind |-> "none", sha |-> None]
Dir == [kind |-> "dir", sha |-> None]
File(e) == e.kind \in {"file", "link"}
NoEntries == [p \in {} |-> Absent]

At(w, p) == IF p = 0 THEN Dir ELSE w[p]

\* lstat finds something at a path.
Stat(w, p) == At(w, Parent[p]).kind = "dir" /\ w[p] # Absent
\* It fails with ENOTDIR, not with ENOENT: a file is where a directory should be.
NotDir(w, p) == \E d \in Above(p) : w[d].kind = "file"

\* os.makedirs of the directories that a path is in, where nothing is in the way
CanMakeDirs(w, p) == \A d \in Above(p) : w[d] \in {Absent, Dir}
WithDirs(w, p) == [q \in Paths |-> IF q \in Above(p) /\ w[q] = Absent THEN Dir ELSE w[q]]

FilesIn(w) == {p \in Paths : File(w[p])}
ToDir(e) == e.kind = "link" /\ e.sha \in DirLinks
Snapshot(w, ps) == [p \in ps |-> w[p]]
Without(f, p) == [q \in DOMAIN f \ {p} |-> f[q]]
With(f, p, e) == [q \in DOMAIN f \cup {p} |-> IF q = p THEN e ELSE f[q]]

\* commit_tree, of an index in the order of its names: where there is an entry for
\* a file and others for files in a directory of its name, the directory remains.
CommitTree(entries) ==
    LET kept == {p \in DOMAIN entries : Below(p) \cap DOMAIN entries = {}}
    IN  [p \in kept |-> entries[p]]

CheckedOut(t) ==
    [p \in Paths |-> IF p \in DOMAIN t THEN t[p]
                     ELSE IF Below(p) \cap DOMAIN t # {} THEN Dir ELSE Absent]

NoCall == [op |-> "none", tree |-> NoEntries, cached |-> FALSE]

ASSUME WorktreeAssumption == Starts \subseteq Trees \X Trees /\ Args \subseteq SUBSET Paths

WorkInit ==
    /\ \E s \in Starts : head = s[1] /\ trees = {s[1], s[2]}
    /\ index = head /\ work = CheckedOut(head)
    /\ call = [p \in Procs |-> NoCall]
    /\ phase = [p \in Procs |-> "done"]
    /\ mem = [p \in Procs |-> NoEntries]
    /\ left = [p \in Procs |-> {}]
    /\ calm = [p \in Procs |-> FALSE]
    /\ calls = 0 /\ edits = 0

-----------------------------------------------------------------------------
\* get_untracked_paths: files that are not in the index.  os.walk takes a link to a
\* directory for a directory, and does not follow it.
Untracked(w, ix) == {p \in FilesIn(w) : ~ToDir(w[p])} \ DOMAIN ix

-----------------------------------------------------------------------------
(* Calls                                                                   *)

\* What a step of p does to the calm of the others.
Disturbs(p) ==
    calm' = [q \in Procs |->
               calm[q] /\ (q = p \/ (work' = work /\ index' = index /\ head' = head))]

Goes(p, to) == phase' = [phase EXCEPT ![p] = to]

Call(p, c, files) ==
    /\ phase[p] \in {"done", "failed"} /\ calls < MaxCalls
    /\ calls' = calls + 1
    /\ call' = [call EXCEPT ![p] = c]
    /\ left' = [left EXCEPT ![p] = files]
    /\ calm' = [calm EXCEPT ![p] = TRUE]
    /\ Goes(p, "open")
    /\ UNCHANGED <<work, index, head, trees, mem, edits>>

\* A call ends; its Index object is gone.
Ends(p, how) ==
    /\ Goes(p, how)
    /\ mem' = [mem EXCEPT ![p] = NoEntries]
    /\ left' = [left EXCEPT ![p] = {}]

\* porcelain.add; without paths it takes those that are not in the index.
Add(p) ==
    \E ps \in Args :
       LET files == IF ps = {} THEN Untracked(work, index) ELSE ps
       IN  Call(p, [NoCall EXCEPT !.op = "add"], files)

Rm(p) ==
    \E ps \in Args, cached \in BOOLEAN :
       Call(p, [NoCall EXCEPT !.op = "remove", !.cached = cached], ps)

Commit(p) == Call(p, [NoCall EXCEPT !.op = "commit"], {})

StashPush(p) == Call(p, [NoCall EXCEPT !.op = "stash"], {})

\* porcelain.reset to the tree of some commit
Reset(p) == \E t \in trees : Call(p, [NoCall EXCEPT !.op = "reset", !.tree = t], DOMAIN t)

\* Stash.push takes the paths that the index has.
StashedPaths == DOMAIN index

\* open_index
Open(p) ==
    /\ phase[p] = "open"
    /\ mem' = [mem EXCEPT ![p] = index]
    /\ left' = [left EXCEPT ![p] = IF call[p].op = "stash" THEN StashedPaths ELSE @]
    /\ Goes(p, "files")
    /\ UNCHANGED <<work, index, head, trees, call, calm, calls, edits>>

\* p is done with path f: the entry of f is now e (None: there is none).
Entered(p, f, e) ==
    /\ mem' = [mem EXCEPT ![p] = IF e = None THEN Without(@, f) ELSE With(@, f, e)]
    /\ left' = [left EXCEPT ![p] = @ \ {f}]
    /\ UNCHANGED phase

\* Repo.stage: a file that is gone, or is a directory now, is taken out of the index.
StageFile(p, f) ==
    /\ call[p].op = "add"
    /\ Entered(p, f, IF Stat(work, f) /\ File(work[f]) THEN work[f] ELSE None)
    /\ UNCHANGED work

\* porcelain.remove: the contents of the file itself decide nothing.
RemoveFile(p, f) ==
    LET there == ~call[p].cached /\ Stat(work, f) /\ File(work[f])
        committed == IF f \in DOMAIN head THEN head[f].sha ELSE None
        \* tree_lookup_path finds a file where it looks for a directory
        noTree == Above(f) \cap DOMAIN head # {}
        known == f \in DOMAIN mem[p] /\ (there => ~noTree /\ mem[p][f].sha = committed)
    IN  /\ call[p].op = "remove"
        /\ \/ ~known /\ Ends(p, "failed") /\ UNCHANGED work
           \/ /\ known
              /\ work' = IF there THEN [work EXCEPT ![f] = Absent] ELSE work
              /\ Entered(p, f, None)

\* iter_fresh_objects
StashFile(p, f) ==
    /\ call[p].op = "stash" /\ UNCHANGED work
    /\ \/ NotDir(work, f) /\ Ends(p, "failed")
       \/ /\ ~NotDir(work, f)
          /\ Entered(p, f, IF Stat(work, f) /\ File(work[f]) THEN work[f] ELSE None)

\* A mistake: files of one size are taken to have one content.
SameSize(old, e) == old.kind = e.kind

\* build_file_from_blob leaves a file alone that has the content already.
SameFile(old, e) == old.kind = e.kind /\ old.sha = e.sha

\* What is at f after build_file_from_blob: a link is replaced, but a file is
\* written through a link.
Built(old, e) ==
    IF SameFile(old, e) \/ (e.kind = "file" /\ old.kind = "link") THEN old ELSE e

\* build_index_from_tree, for one file, in the order of the paths.
CheckOutFile(p, f) ==
    LET e == call[p].tree[f]
        new == Built(work[f], e)
        \* Nothing can be read through a dangling link, nothing written to a directory.
        through == work[f].kind = "link" /\ e.kind = "file"
    IN  /\ call[p].op = "reset" /\ \A g \in left[p] : f <= g
        /\ \/ /\ ~CanMakeDirs(work, f) \/ work[f] = Dir \/ through
              /\ Ends(p, "failed") /\ UNCHANGED work
           \/ /\ CanMakeDirs(work, f) /\ work[f] # Dir /\ (through => ~ToDir(work[f]))
              /\ work' = [WithDirs(work, f) EXCEPT ![f] = new]
              /\ Entered(p, f, [kind |-> new.kind, sha |-> e.sha])

FileStep(p) ==
    /\ phase[p] = "files"
    /\ \E f \in left[p] : StageFile(p, f) \/ RemoveFile(p, f) \/ StashFile(p, f) \/ CheckOutFile(p, f)
    /\ UNCHANGED <<index, head, trees, call, calls, edits>>
    /\ Disturbs(p)

\* Index.write
Write(p) ==
    /\ phase[p] = "files" /\ left[p] = {} /\ call[p].op \in {"add", "remove", "reset"}
    /\ index' = mem[p]
    /\ Ends(p, "done")
    /\ UNCHANGED <<work, head, trees, call, calls, edits>>
    /\ Disturbs(p)

\* do_commit; HEAD and its parents are the matter of GitRefs.
MakeCommit(p) ==
    /\ phase[p] = "files" /\ left[p] = {} /\ call[p].op \in {"commit", "stash"}
    /\ head' = IF call[p].op = "commit" THEN CommitTree(mem[p]) ELSE head
    /\ trees' = trees \cup {CommitTree(mem[p])}
    /\ Ends(p, "done")
    /\ UNCHANGED <<work, index, call, calls, edits>>
    /\ Disturbs(p)

-----------------------------------------------------------------------------
(* The user                                                                *)

Edit(w) ==
    /\ edits < MaxEdits /\ w # work
    /\ work' = w /\ edits' = edits + 1
    /\ calm' = [p \in Procs |-> FALSE]
    /\ UNCHANGED <<index, head, trees, call, phase, mem, left, calls>>

\* A file is written; the directories it is in are made.  A link to a directory is
\* only where no other path is looked for below.
Put ==
    \E f \in Paths, e \in Entries :
       /\ CanMakeDirs(work, f) /\ work[f] # Dir /\ (ToDir(e) => Below(f) = {})
       /\ Edit([WithDirs(work, f) EXCEPT ![f] = e])

\* A file is deleted, or a directory with all there is in it.
Delete ==
    \E f \in Paths :
       Edit([g \in Paths |-> IF g = f \/ g \in Below(f) THEN Absent ELSE work[g]])

WorkNext ==
    \/ Put \/ Delete
    \/ \E p \in Procs :
         \/ Add(p) \/ Rm(p) \/ Commit(p) \/ StashPush(p) \/ Reset(p)
         \/ Open(p) \/ FileStep(p) \/ Write(p) \/ MakeCommit(p)

WorkSpec == WorkInit /\ [][WorkNext]_workVars

-----------------------------------------------------------------------------
(* Properties                                                              *)

\* What an index can be: some paths with their entries
Indexes == UNION {[ps -> Blobs] : ps \in SUBSET Paths}
Calls ==
    [op : {"none", "add", "remove", "commit", "stash", "reset"}, tree : Trees, cached : BOOLEAN]

WorkTypeOK ==
    /\ work \in [Paths -> Blobs \cup {Absent, Dir}]
    /\ index \in Indexes /\ head \in trees /\ trees \subseteq Trees
    /\ call \in [Procs -> Calls]
    /\ phase \in [Procs -> {"open", "files", "done", "failed"}]
    /\ mem \in [Procs -> Indexes]
    /\ left \in [Procs -> SUBSET Paths]
    /\ calm \in [Procs -> BOOLEAN]
    /\ calls \in Nat /\ edits \in Nat

Undisturbed(p, op) == phase[p] = "done" /\ calm[p] /\ call[p].op = op

\* After porcelain.reset every file of the commit is in the working tree and in the
\* index with the commit's content, whatever a call that failed or was killed had
\* left, but for a link that a file was written through.
ResetRestores ==
    \A p \in Procs : Undisturbed(p, "reset") =>
       \A f \in DOMAIN call[p].tree :
          /\ f \in DOMAIN index /\ index[f].sha = call[p].tree[f].sha
          /\ work[f] = call[p].tree[f] \/ (work[f].kind = "link" /\ call[p].tree[f].kind = "file")

\* The stash has the files of the working tree that are in the index, as they are.
StashHoldsFiles ==
    \A p \in Procs :
       Undisturbed(p, "stash") => Snapshot(work, FilesIn(work) \cap DOMAIN index) \in trees

\* What porcelain.reset puts back and what a stash keeps.
CallsKeepFiles == ResetRestores /\ StashHoldsFiles
=============================================================================
