SPECIFICATION Spec
CONSTANTS
    Bits <- MCBits
    MainSize = 4
    InfoSize = 4
    InfoKSize = 4
    PageSize = 2
    BlockSize = 4
    Devices <- MCDevices
    Ranges <- MCRanges
    Flashes <- MCFlashes
    Payloads <- MCPayloads
    Faults = TRUE
    MaxCalls = 4
INVARIANTS
    OkMeansDone
    AnswersAboutTheArea
PROPERTIES
    OnlyTheNamedArea
    FlashKeepsTheRestOnceSelected
    CallReturns
CHECK_DEADLOCK FALSE
