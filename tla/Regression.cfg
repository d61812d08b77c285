CONSTANTS
    Ports <- MCPorts
    Memories <- MCMemories
    MemorySize <- MCSize
    TestSize = 2
    Campaigns <- MCCampaigns
    MaxFaults = 2
SPECIFICATION TestSpec
INVARIANTS VerdictIsRight ArchiveIsOwn
