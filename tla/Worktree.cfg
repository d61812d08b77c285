CONSTANTS
    Paths <- MCPaths
    Parent <- MCParent
    Entries <- MCEntries
    Content <- MCContent
    Newline = 0
    BlockSize = 4
    Threshold = 60
    Rewrite = 50
    Harder = TRUE
    None = None
    Procs = {p, q}
    Starts <- MCStarts
    Args <- MCArgs
    DirLinks <- MCDirLinks
    MaxCalls = 2
    MaxEdits = 1
SYMMETRY Symmetry
SPECIFICATION StatusSpec
INVARIANTS StatusTruthful CallsKeepFiles DiffsAreRight
CHECK_DEADLOCK FALSE
