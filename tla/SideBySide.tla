----------------------------- MODULE SideBySide -----------------------------
(***************************************************************************)
(* Five components that share no state, checked side by side: a behaviour  *)
(* picks one of them and the others stay where they start, so that their   *)
(* state spaces add up instead of multiplying.  The resolver and the proxy *)
(* of the gateway, the rate limiter, the sign-in through an identity       *)
(* provider, and the stored versions of the ruleset.                       *)
(***************************************************************************)
EXTENDS Naturals, FiniteSets

\* The constants of each component, described in its module; where two of
\* them use one name, these are told apart.
CONSTANTS
    Peers, Records, Labels, Hostnames, RecordRows, StartPeers,
    MaxNameEdits, ZoneFaultKinds, MaxZoneFaults,
    Documents, Pushable, Rejected, Unstartable, MaxDatasets,
    MaxDocuments, ProxyFaultKinds, MaxProxyFaults,
    Callers, MaxAttempts, Window, MaxTime,
    PortalPeers, Users, Owner, Admins, ProviderChecksChallenge, MaxStarts,
    Columns, Rendered, Values, StartPolicy, Storers, MaxStores

VARIABLES
    topic,
    peers, records, draft, hostname, nameEdits, zoneDisk, resolver, zoneApplied, zoneStep,
    zoneTarget, zonePrevious, zoneCut, zoneFaults,
    want, proxyEdits, dataset, map, stamp, refresh, proxyDisk, proxy, proxyApplied, proxyStep,
    proxyTarget, proxyPrevious, proxyCut, proxyFaults,
    now, hits, attempts, promise,
    started, stored, codes, redeemed, callbacks, active, signedIn,
    policy, versions, requests, stores, vouched, sent

dnsVars == <<peers, records, draft, hostname, nameEdits, zoneDisk, resolver, zoneApplied,
             zoneStep, zoneTarget, zonePrevious, zoneCut, zoneFaults>>
proxyVars == <<want, proxyEdits, dataset, map, stamp, refresh, proxyDisk, proxy, proxyApplied,
               proxyStep, proxyTarget, proxyPrevious, proxyCut, proxyFaults>>
limiterVars == <<now, hits, attempts, promise>>
oidcVars == <<started, stored, codes, redeemed, callbacks, active, signedIn>>
versionVars == <<policy, versions, requests, stores, vouched, sent>>

Dns == INSTANCE InternalDns WITH
    MaxEdits <- MaxNameEdits, Faults <- ZoneFaultKinds, MaxFaults <- MaxZoneFaults,
    edits <- nameEdits, disk <- zoneDisk, daemon <- resolver, applied <- zoneApplied,
    step <- zoneStep, target <- zoneTarget, previous <- zonePrevious, cut <- zoneCut,
    faults <- zoneFaults

Proxy == INSTANCE ProxyApplier WITH
    MaxEdits <- MaxDocuments, Faults <- ProxyFaultKinds, MaxFaults <- MaxProxyFaults,
    edits <- proxyEdits, disk <- proxyDisk, daemon <- proxy, applied <- proxyApplied,
    step <- proxyStep, target <- proxyTarget, previous <- proxyPrevious, cut <- proxyCut,
    faults <- proxyFaults

Limiter == INSTANCE RateLimiter WITH calls <- attempts

Oidc == INSTANCE OidcSignIn WITH Peers <- PortalPeers, calls <- callbacks

Versions == INSTANCE RulesetVersions WITH Requests <- Storers

ASSUME ResolverConfigured == Dns!Configured
ASSUME LimiterConfigured == Limiter!Configured
ASSUME ProviderConfigured == Oidc!Configured
ASSUME StoresConfigured == Versions!Configured

Init == /\ topic \in {"resolver", "proxy", "limiter", "oidc", "versions"}
        /\ Dns!Init /\ Proxy!Init /\ Limiter!Init /\ Oidc!Init /\ Versions!Init
        \* One document to start with unless it is the proxy that moves.
        /\ topic # "proxy" => want = CHOOSE d \in Documents : TRUE

OthersOfDns == UNCHANGED <<proxyVars, limiterVars, oidcVars, versionVars>>
OthersOfProxy == UNCHANGED <<dnsVars, limiterVars, oidcVars, versionVars>>

NamesMove == topic = "resolver" /\ Dns!Next /\ OthersOfDns
ProxyMoves == topic = "proxy" /\ Proxy!Next /\ OthersOfProxy
LimiterMoves == /\ topic = "limiter" /\ Limiter!Next
                /\ UNCHANGED <<dnsVars, proxyVars, oidcVars, versionVars>>
OidcMoves == /\ topic = "oidc" /\ Oidc!Next
             /\ UNCHANGED <<dnsVars, proxyVars, limiterVars, versionVars>>
VersionsMove == /\ topic = "versions" /\ Versions!Next
                /\ UNCHANGED <<dnsVars, proxyVars, limiterVars, oidcVars>>

Next == /\ UNCHANGED topic
        /\ NamesMove \/ ProxyMoves \/ LimiterMoves \/ OidcMoves \/ VersionsMove
vars == <<topic, dnsVars, proxyVars, limiterVars, oidcVars, versionVars>>

Spec == /\ Init /\ [][Next]_vars
        /\ WF_vars(UNCHANGED topic /\ topic = "resolver" /\ Dns!Agent /\ OthersOfDns)
        /\ WF_vars(UNCHANGED topic /\ topic = "proxy" /\ Proxy!Agent /\ OthersOfProxy)
        /\ WF_vars(UNCHANGED topic /\ topic = "proxy" /\ Proxy!Geo /\ OthersOfProxy)

\* The type invariants of the five, each stated with its module.
TypeOK == Dns!TypeOK /\ Proxy!TypeOK /\ Limiter!TypeOK /\ Oidc!TypeOK /\ Versions!TypeOK

\* InternalDns
ZoneSurvives == Dns!ZoneSurvives
ResolverAnswersOneZone == Dns!ResolverAnswersOneZone
ResolverConverges == topic = "resolver" => Dns!ResolverConverges
EveryZoneRenders == Dns!EveryZoneRenders
CheckedRecordsRender == Dns!CheckedRecordsRender
ResolverCutsAreRepaired == Dns!CutsAreRepaired

\* ProxyApplier
ProxyRunsOneDocument == Proxy!ProxyRunsOneDocument
ProxyConverges == topic = "proxy" => Proxy!ProxyConverges
ProxyComesBack == topic = "proxy" => Proxy!ProxyComesBack
ProxyCutsAreRepaired == Proxy!CutsAreRepaired
GeoFilterComesAlive == topic = "proxy" => Proxy!GeoFilterComesAlive

\* RateLimiter and OidcSignIn
BudgetHolds == Limiter!BudgetHolds
SignInAnswersItsOwnRequest == Oidc!SignInAnswersItsOwnRequest

\* RulesetVersions
StoreSupersedes == Versions!StoreSupersedes
SentIsAudited == Versions!SentIsAudited
OnePending == Versions!OnePending
PolicyIsStored == Versions!PolicyIsStored

=============================================================================
