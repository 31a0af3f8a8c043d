SPECIFICATION Spec
CONSTANTS
    s1 = s1
    g1 = g1
    t1 = t1
    r1 = r1
    r2 = r2
    Services <- MCServices
    Groups <- MCGroups
    Tokens <- MCTokens
    Expiring <- MCTokens
    Requests <- MCRequests
    AuthRows <- MCAuthRows
    FilterRows <- MCFilterRows
    AccessRows <- MCAccessRows
    Callers <- MCCallers
    Initial <- MCInitial
    StopInternal = TRUE
    StopExternal = FALSE
    MaxEdits = 3
INVARIANTS
    TypeOK
    EntrantsAsStated
    CommittedRenders
PROPERTIES
    RevokedTokenIsRefused
CHECK_DEADLOCK FALSE
