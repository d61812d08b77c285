SPECIFICATION Spec
CONSTANTS
    Devices <- MCDevices
    BusOf <- MCBusOf
    SizeOf <- MCSizeOf
    Borders <- MCBorders
    BlockSize = 2
    Word = 16
    Versions = {3, 4}
    Offsets <- MCOffsets
    Dirt <- MCDirt
    MaxCalls = 3
INVARIANTS
    EasyEraseClears
PROPERTIES
    OnlyDetectedChanges
    EasyEraseConfined
CHECK_DEADLOCK FALSE
