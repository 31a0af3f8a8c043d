SPECIFICATION Spec
CONSTANTS
    p1 = p1
    p2 = p2
    lan = lan
    branch = branch
    staff = staff
    office = office
    office2 = office2
    Slugs <- MCSlugs
    Peers <- MCPeers
    Nets <- MCNets
    Refs <- MCRefs
    RuleRows <- MCRuleRows
    Documents <- MCDocuments
    Behind <- MCBehind
    Carried <- MCCarried
    InternalNets <- MCInternalNets
    Clashing <- MCClashing
    Initial <- MCInitial
    HasWan = TRUE
    Restricted = TRUE
    PortalAnswers = TRUE
    DnsInQuarantine = TRUE
    PingInQuarantine = FALSE
    MaxEdits = 3
INVARIANTS
    TypeOK
    VerdictAsStated
PROPERTIES
    DeletingOpensNothing
    ImportDoesWhatItShows
CHECK_DEADLOCK FALSE
