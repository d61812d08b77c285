------------------------------ MODULE MCGitRefs ------------------------------
(* Two processes on a repository with two branches, one of them there.     *)
EXTENDS GitRefs, TLC

Symmetry == Permutations(Procs)
=============================================================================
