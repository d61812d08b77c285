CONSTANTS
    Commits = {"c1", "c2", "c3", "c4", "c5"}
    Trees = {"t1", "t2", "t3"}
    Blobs = {"b1", "b2"}
    Tags = {"g1"}
    Parents <- MCParents
    TreeOf <- MCTreeOf
    Entries <- MCEntries
    Target <- MCTarget
    Time <- MCTime
    Refs = {main, topic}
    Main = main
    TheirRefs <- MCTheirRefs
    OurRefs <- MCOurRefs
    MaxFetches = 2
    MaxPushes = 1
    MaxFaults = 1
    None = None
    MaxExtraCommits = 3
    Clocks <- MCClocks
    LastTime = 2
    Depths <- MCDepths
    AskedFor <- MCAskedFor
    TagRefs = {"g1"}
SPECIFICATION Spec
INVARIANTS RefsComplete UndisturbedSucceeds HistoryIsRight
PROPERTY CallEnds
CHECK_DEADLOCK FALSE
