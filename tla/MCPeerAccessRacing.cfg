SPECIFICATION Spec
CONSTANTS
    laptop = laptop
    server = server
    alice = alice
    timer = timer
    r1 = r1
    r2 = r2
    UserPeers <- MCUserPeers
    ServerPeers <- MCNoPeers
    Users <- MCUsers
    Requests <- MCTwoRequests
    Sweeper = timer
    Lifetimes <- MCOneLifetime
    MaxTime = 2
    MaxSessions = 2
    Operations <- MCRacingOperations
    Serial = FALSE
SYMMETRY RequestSymmetry
INVARIANTS
    ActiveUserHasAuthenticated
PROPERTIES
    ClosedRowsStayClosed
