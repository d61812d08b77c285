CONSTANTS
    Procs = {p, q}
    NObjects = 2
    Stores <- MCStores
    PackAdds <- MCPackAdds
    ThinPacks <- MCThinPacks
    Streams <- MCStreams
    MaxJobs = 3
    MaxClock = 1
    None = None
    Groups = 3
    NamesPerGroup = 2
    Half = 2
    OffsetEnd = 5
    MaxEntries = 3
    Byte = 4
    Septet = 2
    Low = 2
    MaxCopy = 4
    MaxInsert = 2
    Sources <- MCSources
    Targets <- MCTargets
    Records <- MCRecords
    Missing = Missing
SYMMETRY Symmetry
SPECIFICATION StoreSpec
INVARIANTS NothingLost FilesMatch FoundUnlessMoved PacksReadable
CHECK_DEADLOCK FALSE
