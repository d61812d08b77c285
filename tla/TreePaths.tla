------------------------------ MODULE TreePaths ------------------------------
(***************************************************************************)
(* The paths of a working tree and the trees of commits: what the modules  *)
(* Worktree and TreeDiff have in common.                                   *)
(*                                                                         *)
(* Paths are numbers in the order of the names; Parent[p] is the directory *)
(* a path is in, 0 the top.  A tree is a function from the paths of its    *)
(* files to entries: what kind of file, and which content.                 *)
(***************************************************************************)
EXTENDS Dulwich, Naturals

CONSTANTS
    Paths, Parent,
    Entries      \* the files that occur: [kind, sha]

\* Files and symbolic links with the contents of Entries
Blobs == [kind : {"file", "link"}, sha : {e.sha : e \in Entries}]

ASSUME TreePathsAssumption ==
    /\ Paths \subseteq Nat \ {0}
    /\ \A p \in Paths : Parent[p] \in {q \in Paths \cup {0} : q < p}
    /\ Entries \subseteq Blobs /\ None \notin Blobs

\* Up from p to the top: all that has the parent of p and the parents of what it has.
Ups(p) ==
    {up \in SUBSET Paths : Parent[p] \in up \cup {0} /\ \A q \in up : Parent[q] \in up \cup {0}}

Ancestors == [p \in Paths |-> {q \in Paths : \A up \in Ups(p) : q \in up}]

\* The directories that a path is in, and the paths in a directory
Above(p) == Ancestors[p]
Below(p) == {q \in Paths : p \in Above(q)}

\* A path is a file or a directory.
Proper(ps) == \A p \in ps : Below(p) \cap ps = {}

\* The trees there may be.
Trees == UNION {[ps -> Blobs] : ps \in {ps \in SUBSET Paths : Proper(ps)}}
=============================================================================
