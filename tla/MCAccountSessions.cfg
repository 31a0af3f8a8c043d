SPECIFICATION Spec
CONSTANTS
    u1 = u1
    g1 = g1
    r1 = r1
    r2 = r2
    Users <- MCUsers
    Groups <- MCGroups
    Requests <- MCRequests
    Scenarios <- MCScenarios
    MaxEdits = 2
    MaxRows = 2
    MaxStep = 3
INVARIANTS
    TypeOK
    AdminSessionsAreCurrent
    SsoClaimsAreCurrent
    OneSignInPerCode
    EnrolmentIsConfirmed
PROPERTIES
    RevokedIsRefused
CHECK_DEADLOCK FALSE
