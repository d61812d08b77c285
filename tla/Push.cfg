CONSTANTS
    Commits = {"c1", "c2", "c3", "c4"}
    Trees = {"t1", "t2", "t3"}
    Blobs = {"b1", "b2"}
    Tags = {}
    Parents <- MCParents
    TreeOf <- MCTreeOf
    Entries <- MCEntries
    Target <- MCTarget
    Time <- MCTime
    Clients = {"p", "q"}
    Refs = {"main", "topic"}
    TheirRefs <- MCTheirRefs
    Mine <- MCMine
    MaxPushes = 2
    MaxFaults = 1
    None = None
    PrefixSize = 2
    RecvSize = 3
    ZlibSize = 2
    MaxSideband = 3
    WriterSize = 5
    TrailerSize = 3
    Reports <- MCReports
    Packs <- MCPacks
    Pieces <- MCPieces
    FlushPkt = FlushPkt
SPECIFICATION Spec
INVARIANTS ServerComplete SuccessTookEffect StreamsArrive
PROPERTY PushEnds
CHECK_DEADLOCK FALSE
