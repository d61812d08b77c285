SPECIFICATION Spec
CONSTANTS
    Bits <- MCBits
    Size = 4
    Block <- MCBlock
    Ranges <- MCRanges
    EndOfChip = 99
    BufferLen = 3
    Align = 2
    Jobs <- MCJobs
    MaxJobs = 1
INVARIANTS
    JobsTellTheTruth
    ChunksOnBorders
PROPERTIES
    OtherBlocksKept
    JobEnds
CHECK_DEADLOCK FALSE
