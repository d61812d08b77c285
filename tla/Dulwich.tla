------------------------------- MODULE Dulwich -------------------------------
(* What the modules about a repository have in common: the processes that     *)
(* work on it side by side, and Python's None.                                *)
CONSTANTS
    Procs,       \* the processes
    None         \* a model value: no contents, no process, no answer
=============================================================================
