SPECIFICATION FairSpec
CONSTANTS
    laptop = laptop
    server = server
    alice = alice
    timer = timer
    r1 = r1
    r2 = r2
    UserPeers <- MCUserPeers
    ServerPeers <- MCNoPeers
    Users <- MCUsers
    Requests <- MCOneRequest
    Sweeper = timer
    Lifetimes <- MCLifetimes
    MaxTime = 3
    MaxSessions = 2
    Operations <- MCExpiryOperations
    Serial = FALSE
PROPERTIES
    OverdueAccessEnds
