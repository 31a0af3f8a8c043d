SPECIFICATION Spec
CONSTANTS
    router = router
    laptop = laptop
    lan = lan
    None = None
    Peers <- MCPeers
    Nets <- MCNets
    Docs <- MCOneDoc
    InitialPolicies <- MCGrouped
    Changes <- MCEveryChange
    MaxChanges = 2
    Faults <- MCEveryFault
    MaxFaults = 2
    SnapshotReads = FALSE
INVARIANTS
    TypeOK
PROPERTIES
    RoutesFollowWireGuard
