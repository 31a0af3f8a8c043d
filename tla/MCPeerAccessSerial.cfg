SPECIFICATION Spec
CONSTANTS
    laptop = laptop
    server = server
    alice = alice
    timer = timer
    r1 = r1
    r2 = r2
    UserPeers <- MCUserPeers
    ServerPeers <- MCServerPeers
    Users <- MCUsers
    Requests <- MCOneRequest
    Sweeper = timer
    Lifetimes <- MCLifetimes
    MaxTime = 2
    MaxSessions = 2
    Operations <- MCSerialOperations
    Serial = TRUE
INVARIANTS
    TypeOK
    OneLiveSession
    ActiveMeansLive
PROPERTIES
    RequestsTakeEffectAtOnce
    SweepLeavesNobodyOverdue
    KillSwitchIsComplete
