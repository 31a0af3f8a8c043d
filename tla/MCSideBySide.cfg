SPECIFICATION Spec
CONSTANTS
    p1 = p1
    p2 = p2
    x = x
    y = y
    web = web
    r1 = r1
    r2 = r2
    fr = fr
    de = de
    c1 = c1
    c2 = c2
    alice = alice
    bob = bob
    Peers <- MCPeers
    Records <- MCRecords
    Labels <- MCLabels
    Hostnames <- MCHostnames
    RecordRows <- MCRecordRows
    StartPeers <- MCStartPeers
    MaxNameEdits = 2
    ZoneFaultKinds <- MCZoneFaultKinds
    MaxZoneFaults = 2
    Documents <- MCDocuments
    Pushable <- MCPushable
    Rejected <- MCRejected
    Unstartable <- MCUnstartable
    MaxDatasets = 2
    MaxDocuments = 2
    ProxyFaultKinds <- MCProxyFaultKinds
    MaxProxyFaults = 1
    Callers <- MCCallers
    MaxAttempts = 2
    Window = 3
    MaxTime = 9
    PortalPeers <- MCPortalPeers
    Users <- MCUsers
    Owner <- MCOwner
    Admins <- MCAdmins
    ProviderChecksChallenge = FALSE
    MaxStarts = 2
    Columns <- MCColumns
    Rendered <- MCRendered
    Values <- MCValues
    StartPolicy <- MCStartPolicy
    Storers <- MCRequests
    MaxStores = 3
INVARIANTS
    TypeOK
    
    ProxyRunsOneDocument
    BudgetHolds
    SignInAnswersItsOwnRequest
    
PROPERTIES
    ZoneSurvives
    
    ProxyConverges
    StoreSupersedes
CHECK_DEADLOCK FALSE
