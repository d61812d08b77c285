CONSTANTS
    Procs = {p, q}
    HEAD = HEAD
    Stash = Stash
    PackedRefs = PackedRefs
    Empty = Empty
    Branches = {master, topic}
    MaxCommits = 4
    MaxOps = 3
    MaxKills = 1
    None = None
SPECIFICATION Spec
SYMMETRY Symmetry
INVARIANTS SwapLosesNoUpdate CommitsKept NoLockLeft
