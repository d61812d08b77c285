SPECIFICATION Spec
CONSTANTS
    Bits <- MCBits
    FlashSize = 8
    PageSize = 2
    SectorSize = 4
    PageErase = TRUE
    BufferSize = 3
    Word = 24
    Ranges <- SomeRanges
    FlashImages <- MCFlashImages
    RamImages <- MCRamImages
    ChipFaults = TRUE
    DriverFaults = TRUE
    MaxCalls = 2
INVARIANTS
    FlashedIsVerified
PROPERTIES
    WriteConfined
    EraseConfined
    ServiceSpec
    CallReturns
CHECK_DEADLOCK FALSE
