------------------------------ MODULE MCWorktree ------------------------------
(* A directory 1 with a directory 2 in it, there a file 3, and two more files. *)
EXTENDS Status, TreeDiff

MCPaths == 1 .. 5
MCParent == <<0, 1, 2, 0, 0>>

MCEntries ==
    {[kind |-> "file", sha |-> s] : s \in {"a", "b"}} \cup {[kind |-> "link", sha |-> s] : s \in {"c", "d"}}

\* What a link to a directory says; a link with "c" dangles.
MCDirLinks == {"d"}

\* "a" and "b" are alike (66), "c" is like neither (33), "d" like none.
MCContent ==
    [a |-> <<1, 1, 1, 1, 2, 0>>, b |-> <<1, 1, 1, 1, 3, 0>>, c |-> <<2, 0, 3, 0, 4, 0>>, d |-> <<5, 0>>]

F(s) == [kind |-> "file", sha |-> s]

MCStarts ==
    {<<3 :> F("a") @@ 4 :> F("b"), 4 :> F("a")>>,
     <<3 :> F("b") @@ 5 :> F("b"), 3 :> F("a") @@ 4 :> F("a") @@ 5 :> F("c")>>,
     <<4 :> [kind |-> "link", sha |-> "c"] @@ 5 :> F("c"), 4 :> F("b") @@ 5 :> F("a")>>,
     <<1 :> F("a"), 3 :> F("b")>>}

MCArgs == {{}, {3}, {2, 3}}

Symmetry == Permutations(Procs)
-----------------------------------------------------------------------------
\* Made to the old tree, the changes that the rename detector reports give the new
\* tree; no file is named twice as the new place of something, none is taken away twice.
RenamesKeepTree ==
    (\A p \in Procs : phase[p] = "done") =>
       \A t \in trees, unchanged \in BOOLEAN :
          LET changes == ChangesWithRenames(t, CommitTree(index), unchanged)
          IN  Applied(t, changes) = CommitTree(index) /\ OncePerPath(changes)

\* For two parents, the conflicts of a merge are the files that neither parent has as
\* the merge has them, and those that were deleted and differ in the parents.
TwoParentConflicts ==
    (\A p \in Procs : phase[p] = "done") =>
       \A s, t \in trees :
          LET m == CommitTree(index)
              has(r, f) == f \in DOMAIN m /\ f \in DOMAIN r /\ r[f] = m[f]
          IN  MergeConflicts(<<s, t>>, m) =
                {f \in DOMAIN m : ~has(s, f) /\ ~has(t, f)}
                \cup {f \in (DOMAIN s \cap DOMAIN t) \ DOMAIN m : s[f].sha # t[f].sha}

\* commit_tree_changes makes the new tree of the old one and what differs, unless a
\* directory becomes a file: the file is then taken for the directory.
ChangesRebuildTree ==
    (\A p \in Procs : phase[p] = "done") =>
       \A t \in trees :
          LET m == CommitTree(index)
              differ == {f \in DOMAIN t \cup DOMAIN m : ~(f \in DOMAIN t \cap DOMAIN m /\ t[f] = m[f])}
              changes == [f \in differ |-> IF f \in DOMAIN m THEN m[f] ELSE None]
              becomesFile == \E f \in DOMAIN m : Below(f) \cap DOMAIN t # {}
          IN  CommitTreeChanges(0, t, changes) = IF becomesFile THEN None ELSE m

\* What diff_tree.py says of a change and of a merge is right, and a tree is made
\* again from it.
DiffsAreRight == RenamesKeepTree /\ TwoParentConflicts /\ ChangesRebuildTree
=============================================================================
