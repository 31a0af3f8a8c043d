SPECIFICATION FairSpec
CONSTANTS
    router = router
    laptop = laptop
    lan = lan
    None = None
    Peers <- MCPeers
    Nets <- MCNets
    Docs <- MCDocs
    InitialPolicies <- MCGrouped
    Changes <- MCSettlingChanges
    MaxChanges = 2
    Faults <- MCFaultsCaught
    MaxFaults = 2
    SnapshotReads = TRUE
INVARIANTS
    AppliedIsLive
PROPERTIES
    InSyncTells
    TableConverges
    PeersConverge
    RoutesConverge
