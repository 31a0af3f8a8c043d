---------------------------- MODULE GatewayAgent ----------------------------
(***************************************************************************)
(* The gateway: an agent polls the control plane for the desired state,    *)
(* brings nftables, WireGuard, the routing table, the resolver and the     *)
(* proxy to it, and reports.  The control plane is reduced to its policy,  *)
(* which any request may change at any moment, and to the table            *)
(* ruleset_versions.                                                       *)
(*                                                                         *)
(* One tick of run_once is a chain of steps (tick.phase):                  *)
(*                                                                         *)
(*   idle -> rendering -> rendered -> fetched -> loaded -> sync -> routes -> record ->  *)
(*   dns -> proxy -> report -> idle                                        *)
(*                                                                         *)
(* An error in the ruleset's half goes on with "dns"; an exception nobody  *)
(* catches ends the tick.  Every outcome a command can have besides        *)
(* success is a fault, named, enabled by the constant Faults and bounded   *)
(* by MaxFaults; so are the loss of a report, a crash, a reboot and a      *)
(* hand edit.  A poll that fails changes nothing and is a stuttering step. *)
(*                                                                         *)
(* Abstracted: dry_run is off and every subsystem is managed; a route that *)
(* a local address forbids is never asked for; the files that go back      *)
(* after a refused configuration can be written.                           *)
(***************************************************************************)
EXTENDS DesiredState, TLC

CONSTANTS
    InitialPolicies,    \* policies the gateway may be installed under
    Changes,            \* kinds of policy change this instance makes
    MaxChanges,         \* bound on their number
    Faults,             \* faults that may occur
    MaxFaults,          \* bound on their number
    SnapshotReads       \* TRUE: a poll sees one policy

AllChanges == {"register", "state", "delete", "member", "route", "file"}
AllFaults == {"rejected", "unclear", "missing", "unrestored",
              "wg_fails", "wg_hangs",
              "route_fails", "delete_fails", "routes_refused", "ip_hangs",
              "file_fails", "daemon_dies", "file_hangs",
              "report_lost", "crash", "crash_unrecorded", "crash_unloaded",
              "reboot", "hand_edit"}

ASSUME AgentAssumption ==
    /\ InitialPolicies \subseteq Policies
    /\ Changes \subseteq AllChanges
    /\ MaxChanges \in Nat
    /\ Faults \subseteq AllFaults
    /\ MaxFaults \in Nat
    /\ SnapshotReads \in BOOLEAN
    /\ None \notin Rulesets

VARIABLES
    policy,     \* the tables of the control plane
    changes,    \* changes so far
    versions,   \* ruleset_versions: digest -> status
    order,      \* digests that have an applied_at, in pairs: the first no later
    tick,       \* the run_once in progress
    applied,    \* the agent's memory of what is live
    table,      \* the nftables table in the kernel
    lastGood,   \* the applier's last good ruleset, in memory and on disk
    wg,         \* the peers of the WireGuard interface
    routes,     \* tunnel routes in the kernel
    known,      \* routes.json
    disk,       \* the files of each slot
    served,     \* what each slot's daemon has loaded
    faults      \* faults so far

control == <<policy, changes, versions, order>>
dataplane == <<table, lastGood, wg, routes, known, disk, served>>
vars == <<control, tick, applied, dataplane, faults>>

Parts == {"ruleset"} \cup Slots

NoState == [ruleset |-> None, peers |-> None, routes |-> {},
            file |-> [s \in Slots |-> None]]
Resting == [phase |-> "idle", doc |-> NoState, tried |-> {}, failed |-> {}, record |-> {}]
Forgotten == [ruleset |-> None, file |-> [s \in Slots |-> None]]

Interfaces == UNION {[P -> SUBSET Nets] : P \in SUBSET Peers}
NoPeers == [p \in {} |-> {}]

Phases == {"idle", "rendering", "rendered", "fetched", "loaded", "sync", "routes", "record", "report"}
            \cup Slots

\* What a poll answers, the local state of a tick, what the agent remembers.
Answers == [ruleset: Rulesets \cup {None}, peers: Interfaces \cup {None},
            routes: SUBSET Nets, file: [Slots -> Docs \cup {None}]]
Ticks == [phase: Phases, doc: Answers, tried: SUBSET Parts, failed: SUBSET Parts,
          record: SUBSET Nets]
Memories == [ruleset: Rulesets \cup {None}, file: [Slots -> Docs \cup {None}]]

\* The digests that have an applied_at.
Stamped == {pair[1] : pair \in order}

VersionsOK ==
    /\ DOMAIN versions \subseteq Rulesets
    /\ \A d \in DOMAIN versions : versions[d] \in {"pending", "applied", "failed", "superseded"}
    /\ order \subseteq (DOMAIN versions) \X (DOMAIN versions)
    /\ \A d, e \in Stamped : <<d, e>> \in order \/ <<e, d>> \in order
    /\ \A d, e \in Stamped : <<d, e>> \in order /\ <<e, d>> \in order => d = e

\* The dataplane only ever holds what was rendered, and the agent only
\* remembers what it was sent.
GatewayOK ==
    /\ policy \in Policies
    /\ changes \in 0..MaxChanges
    /\ tick \in Ticks
    /\ tick.failed \subseteq tick.tried
    /\ applied \in Memories
    /\ table \in Rulesets \cup {None}
    /\ lastGood \in Rulesets \cup {None}
    /\ wg \in Interfaces
    /\ routes \subseteq Nets /\ known \subseteq Nets
    /\ disk \in [Slots -> Docs \cup {None}]
    /\ served \in [Slots -> Docs \cup {None}]
    /\ faults \in 0..MaxFaults

TypeOK == VersionsOK /\ GatewayOK

Init ==
    /\ policy \in InitialPolicies
    /\ changes = 0
    /\ versions = [d \in {Ruleset(policy)} |-> "pending"]
    /\ order = {}
    /\ tick = Resting
    /\ applied = Forgotten
    /\ table = None /\ lastGood = None
    /\ wg = NoPeers
    /\ routes = {} /\ known = {}
    /\ disk = [s \in Slots |-> None] /\ served = [s \in Slots |-> None]
    /\ faults = 0

-----------------------------------------------------------------------------
(* The control plane                                                       *)

\* A digest that is known is left as it is; a new one supersedes what is pending.
StoreVersion(d) ==
    IF d \in DOMAIN versions THEN versions
    ELSE [x \in DOMAIN versions \cup {d} |->
            IF x = d THEN "pending"
            ELSE IF versions[x] = "pending" THEN "superseded" ELSE versions[x]]

\* A request changes the policy and regenerates the ruleset in one transaction.
\* Requests come one after another here; what overlapping ones leave in
\* ruleset_versions is in RulesetVersions.
Change(kind, pol) ==
    /\ kind \in Changes
    /\ changes < MaxChanges
    /\ SnapshotReads => tick.phase \notin {"rendering", "rendered"}
    /\ policy' = pol
    /\ changes' = changes + 1
    /\ versions' = StoreVersion(Ruleset(pol))
    /\ UNCHANGED <<order, tick, applied, dataplane, faults>>

\* A peer registers, with or without a group.
Register(p, grouped) ==
    /\ policy.state[p] = "absent"
    /\ Change("register", [policy EXCEPT !.state[p] = "staging",
                             !.member = IF grouped THEN @ \cup {p} ELSE @])

\* A peer authenticates, is confined, disabled or revoked.
SetState(p, s) ==
    /\ policy.state[p] \in States
    /\ s \in AdminTransitions[policy.state[p]]
    /\ Change("state", [policy EXCEPT !.state[p] = s])

DeletePeer(p) ==
    /\ policy.state[p] # "absent"
    /\ Change("delete", Without(policy, p))

\* The peer's last group or zone is taken away, or it gets its first.
SetMember(p) ==
    /\ policy.state[p] # "absent"
    /\ Change("member", [policy EXCEPT !.member = IF p \in @ THEN @ \ {p} ELSE @ \cup {p}])

\* A zone route is created, enabled, disabled, deleted or given a carrier.
SetRoute(n, v) ==
    /\ v # policy.via[n]
    /\ v \in Peers => policy.state[v] # "absent"
    /\ Change("route", [policy EXCEPT !.via[n] = v])

\* A DNS record or a service changes, or no longer renders.
SetFile(s, d) ==
    /\ d # policy.file[s]
    /\ Change("file", [policy EXCEPT !.file[s] = d])

\* Mutant: a version applied again keeps its first applied_at.
MarkReportedOnce(d, success) ==
    /\ versions' =
         IF d \in DOMAIN versions
         THEN [versions EXCEPT ![d] = IF success THEN "applied" ELSE "failed"]
         ELSE IF success THEN [x \in DOMAIN versions \cup {d} |->
                                 IF x = d THEN "applied" ELSE versions[x]]
         ELSE versions
    /\ order' = IF success /\ d \in DOMAIN versions /\ d \notin Stamped
                THEN order \cup {<<e, d>> : e \in Stamped \cup {d}} ELSE order

\* The outcome of an apply reaches the control plane.  A digest it has never
\* rendered is added, and gets no applied_at.
MarkReported(d, success) ==
    /\ versions' =
         IF d \in DOMAIN versions
         THEN [versions EXCEPT ![d] = IF success THEN "applied" ELSE "failed"]
         ELSE IF success THEN [x \in DOMAIN versions \cup {d} |->
                                 IF x = d THEN "applied" ELSE versions[x]]
         ELSE versions
    /\ order' = IF success /\ d \in DOMAIN versions
                THEN {pair \in order : pair[1] # d} \cup {<<e, d>> : e \in Stamped \cup {d}}
                ELSE order

-----------------------------------------------------------------------------
(* The agent                                                               *)

Fault(f) ==
    /\ f \in Faults
    /\ faults < MaxFaults
    /\ faults' = faults + 1

Goto(phase) == tick' = [tick EXCEPT !.phase = phase]

\* A part fails: noted, and the tick goes on with the named phase.
Fail(part, phase) ==
    tick' = [tick EXCEPT !.phase = phase, !.failed = @ \cup {part}]

\* An exception that no handler of run_once catches, as NftError from a command
\* that timed out is: main logs it and sleeps.
Escape == tick' = Resting

\* GET /agent/state renders the ruleset first: groups, zones and their routes...
Poll ==
    /\ tick.phase = "idle"
    /\ tick' = [tick EXCEPT !.phase = "rendering", !.doc.ruleset = Ruleset(policy)]
    /\ UNCHANGED <<control, applied, dataplane, faults>>

\* ... and the peers, in a statement of their own.
Render ==
    /\ tick.phase = "rendering"
    /\ tick' = [tick EXCEPT !.phase = "rendered",
                   !.doc.ruleset = [Ruleset(policy) EXCEPT !.nets = tick.doc.ruleset.nets]]
    /\ UNCHANGED <<control, applied, dataplane, faults>>

\* Then it queries the peers and the routes again, and renders the files.
Collect ==
    /\ tick.phase = "rendered"
    /\ tick' = [tick EXCEPT !.phase = "fetched", !.doc.peers = Interface(policy),
                            !.doc.routes = Routes(policy), !.doc.file = policy.file]
    /\ UNCHANGED <<control, applied, dataplane, faults>>

SkipRuleset ==
    /\ tick.phase = "fetched" /\ tick.doc.ruleset = applied.ruleset
    /\ Goto("dns")
    /\ UNCHANGED <<control, applied, dataplane, faults>>

\* nft -c, then nft -f, which replaces the table in one transaction or leaves it.
LoadTable ==
    /\ tick.phase = "fetched" /\ tick.doc.ruleset # applied.ruleset
    /\ table' = tick.doc.ruleset
    /\ tick' = [tick EXCEPT !.phase = "loaded", !.tried = {"ruleset"}]
    /\ UNCHANGED <<control, applied, lastGood, wg, routes, known, disk, served, faults>>

\* Mutant: a ruleset that is rejected does not count as tried.
LoadFailsUntried ==
    /\ tick.phase = "fetched" /\ tick.doc.ruleset # applied.ruleset
    /\ \/ Fault("rejected") /\ UNCHANGED table
       \/ Fault("unclear") /\ table' = tick.doc.ruleset
    /\ tick' = [tick EXCEPT !.phase = "dns", !.failed = {"ruleset"}]
    /\ UNCHANGED <<control, applied, lastGood, wg, routes, known, disk, served>>

\* Rejected: nothing was committed.  Unclear: the command timed out after all.
LoadFails ==
    /\ tick.phase = "fetched" /\ tick.doc.ruleset # applied.ruleset
    /\ \/ Fault("rejected") /\ UNCHANGED table
       \/ Fault("unclear") /\ table' = tick.doc.ruleset
    /\ tick' = [tick EXCEPT !.phase = "dns", !.tried = {"ruleset"}, !.failed = {"ruleset"}]
    /\ UNCHANGED <<control, applied, lastGood, wg, routes, known, disk, served>>

\* Mutant: the routes come before the peers.
CheckTableThenRoutes ==
    /\ tick.phase = "loaded"
    /\ lastGood' = tick.doc.ruleset
    /\ Goto("routes")
    /\ UNCHANGED <<control, applied, table, wg, routes, known, disk, served, faults>>

\* nft list table finds it: from now on this is the ruleset to fall back to.
CheckTable ==
    /\ tick.phase = "loaded"
    /\ lastGood' = tick.doc.ruleset
    /\ Goto("sync")
    /\ UNCHANGED <<control, applied, table, wg, routes, known, disk, served, faults>>

\* Mutant: a table that went missing is not restored.
CheckFailsUnrestored ==
    /\ tick.phase = "loaded"
    /\ \/ Fault("unclear") /\ UNCHANGED table
       \/ (Fault("missing") \/ Fault("unrestored")) /\ table' = None
    /\ Fail("ruleset", "dns")
    /\ UNCHANGED <<control, applied, lastGood, wg, routes, known, disk, served>>

\* The listing timed out; or the table is not there and the last good ruleset is
\* loaded again, which may fail too.
CheckFails ==
    /\ tick.phase = "loaded"
    /\ \/ Fault("unclear") /\ UNCHANGED table
       \/ Fault("missing") /\ table' = lastGood
       \/ Fault("unrestored") /\ table' = None
    /\ Fail("ruleset", "dns")
    /\ UNCHANGED <<control, applied, lastGood, wg, routes, known, disk, served>>

\* Mutant: peers are added and never taken off.
SyncPeersAdding ==
    /\ tick.phase = "sync"
    /\ wg' = tick.doc.peers @@ wg
    /\ Goto("routes")
    /\ UNCHANGED <<control, applied, table, lastGood, routes, known, disk, served, faults>>

\* wg syncconf, peers only.
SyncPeers ==
    /\ tick.phase = "sync"
    /\ wg' = tick.doc.peers
    /\ Goto("routes")
    /\ UNCHANGED <<control, applied, table, lastGood, routes, known, disk, served, faults>>

\* WireGuardError is reported; a time-out is an NftError and escapes.
SyncFails ==
    /\ tick.phase = "sync"
    /\ \/ Fault("wg_fails") /\ Fail("ruleset", "dns") /\ UNCHANGED wg
       \/ Fault("wg_hangs") /\ Escape /\ wg' \in {wg, tick.doc.peers}
    /\ UNCHANGED <<control, applied, table, lastGood, routes, known, disk, served>>

ToRemove == known \ tick.doc.routes
ToAdd == tick.doc.routes \ known
\* Routes that are in the kernel and not in the file are somebody else's.
Taken == ToAdd \cap routes

\* Mutant: the file is only written when a route was added.
PassOverForgetting(removed, added) ==
    /\ routes' = (routes \ removed) \cup added
    /\ tick' = [tick EXCEPT
          !.phase = IF added = {} THEN "dns" ELSE "record",
          !.record = (known \ ToRemove) \cup added,
          !.failed = IF added = ToAdd THEN @ ELSE @ \cup {"ruleset"}]

\* The routes of one pass: all the removals, then every addition that is not
\* taken; a problem with one does not stop the others.  The file is written once,
\* afterwards, and only if something changed.
PassOver(removed, added) ==
    /\ routes' = (routes \ removed) \cup added
    /\ tick' = [tick EXCEPT
          !.phase = IF ToRemove \cup added = {} THEN "dns" ELSE "record",
          !.record = (known \ ToRemove) \cup added,
          !.failed = IF added = ToAdd THEN @ ELSE @ \cup {"ruleset"}]

ApplyRoutes ==
    /\ tick.phase = "routes"
    /\ PassOver(ToRemove, ToAdd \ Taken)
    /\ UNCHANGED <<control, applied, table, lastGood, wg, known, disk, served, faults>>

\* ip route add fails and is reported; ip route del fails and is only logged; the
\* local addresses cannot be listed and no route is touched; a command times out
\* between two changes and the exception escapes.
RoutesFail ==
    /\ tick.phase = "routes"
    /\ \/ Fault("route_fails") /\ \E a \in SUBSET (ToAdd \ Taken) : PassOver(ToRemove, a)
       \/ Fault("routes_refused") /\ Fail("ruleset", "dns") /\ UNCHANGED routes
       \/ Fault("delete_fails") /\ \E d \in SUBSET ToRemove : PassOver(d, ToAdd \ Taken)
       \/ /\ Fault("ip_hangs")
          /\ Escape
          /\ \E d \in SUBSET ToRemove, a \in SUBSET (ToAdd \ Taken) :
                /\ a # {} => d = ToRemove
                /\ routes' = (routes \ d) \cup a
    /\ UNCHANGED <<control, applied, table, lastGood, wg, known, disk, served>>

RecordRoutes ==
    /\ tick.phase = "record"
    /\ known' = tick.record
    /\ Goto("dns")
    /\ UNCHANGED <<control, applied, table, lastGood, wg, routes, disk, served, faults>>

After == [dns |-> "proxy", proxy |-> "report"]

\* A slot without a document, or with one that is already applied.
SkipFile(s) ==
    /\ tick.phase = s
    /\ tick.doc.file[s] \in {None, applied.file[s]}
    /\ Goto(After[s])
    /\ UNCHANGED <<control, applied, dataplane, faults>>

\* The applier compares the files on disk.  Files that are current are left, and
\* the daemon is started if it is down; new ones are written, tested, loaded.
ApplyFile(s) ==
    /\ tick.phase = s
    /\ tick.doc.file[s] \notin {None, applied.file[s]}
    /\ disk' = [disk EXCEPT ![s] = tick.doc.file[s]]
    /\ served' = IF disk[s] = tick.doc.file[s] /\ served[s] # None THEN served
                 ELSE [served EXCEPT ![s] = tick.doc.file[s]]
    /\ tick' = [tick EXCEPT !.phase = After[s], !.tried = @ \cup {s}]
    /\ UNCHANGED <<control, applied, table, lastGood, wg, routes, known, faults>>

\* Refused by its test or by the daemon: the previous files are back, and loaded
\* again if the daemon was touched, which it may not survive.  A time-out escapes
\* and leaves the new files where they are; so does a crash before the reload.
FileFails(s) ==
    /\ tick.phase = s
    /\ tick.doc.file[s] \notin {None, applied.file[s]}
    /\ \/ /\ \/ Fault("file_fails") /\ served' \in {served, [served EXCEPT ![s] = disk[s]]}
             \/ Fault("daemon_dies") /\ served' = [served EXCEPT ![s] = None]
          /\ tick' = [tick EXCEPT !.phase = After[s], !.tried = @ \cup {s}, !.failed = @ \cup {s}]
          /\ UNCHANGED <<applied, disk>>
       \/ /\ Fault("file_hangs")
          /\ Escape
          /\ disk' = [disk EXCEPT ![s] = tick.doc.file[s]]
          /\ served' \in {served, [served EXCEPT ![s] = tick.doc.file[s]]}
          /\ UNCHANGED applied
       \/ /\ Fault("crash_unloaded")
          /\ Escape
          /\ disk' = [disk EXCEPT ![s] = tick.doc.file[s]]
          /\ applied' = Forgotten
          /\ UNCHANGED served
    /\ UNCHANGED <<control, table, lastGood, wg, routes, known>>

\* Mutant: the digest is remembered whether or not the part failed.
OutcomeWhateverHappened ==
    [ruleset |-> IF "ruleset" \in tick.tried THEN tick.doc.ruleset ELSE applied.ruleset,
     file |-> [s \in Slots |-> IF s \in tick.tried THEN tick.doc.file[s] ELSE applied.file[s]]]

\* What run_once returns: a part that failed keeps its previous digest.
Outcome ==
    [ruleset |-> IF "ruleset" \in tick.tried \ tick.failed
                 THEN tick.doc.ruleset ELSE applied.ruleset,
     file |-> [s \in Slots |-> IF s \in tick.tried \ tick.failed
                               THEN tick.doc.file[s] ELSE applied.file[s]]]

Report ==
    /\ tick.phase = "report"
    /\ IF tick.tried = {} THEN UNCHANGED <<versions, order>>
       ELSE MarkReported(tick.doc.ruleset, "ruleset" \notin tick.failed)
    /\ applied' = Outcome
    /\ tick' = Resting
    /\ UNCHANGED <<policy, changes, dataplane, faults>>

\* The report is best effort: one that is lost is not sent again.
ReportLost ==
    /\ tick.phase = "report" /\ tick.tried # {}
    /\ Fault("report_lost")
    /\ applied' = Outcome
    /\ tick' = Resting
    /\ UNCHANGED <<control, dataplane>>

-----------------------------------------------------------------------------
(* What happens to the gateway                                             *)

\* The agent dies between two steps and is started again.
Crash ==
    /\ IF tick.phase = "record" THEN Fault("crash_unrecorded") ELSE Fault("crash")
    /\ tick' = Resting
    /\ applied' = Forgotten
    /\ UNCHANGED <<control, dataplane>>

\* The kernel forgets the table, the peers and the routes, and the daemons are
\* not started at boot; files survive.
Reboot ==
    /\ Fault("reboot")
    /\ tick' = Resting
    /\ applied' = Forgotten
    /\ table' = None
    /\ wg' = NoPeers
    /\ routes' = {}
    /\ served' = [s \in Slots |-> None]
    /\ UNCHANGED <<control, lastGood, known, disk>>

\* Somebody deletes the table.
HandEdit ==
    /\ Fault("hand_edit")
    /\ table' = None
    /\ UNCHANGED <<control, tick, applied, lastGood, wg, routes, known, disk, served>>

-----------------------------------------------------------------------------
Requests ==
    \/ \E p \in Peers, s \in States : SetState(p, s)
    \/ \E p \in Peers : DeletePeer(p) \/ SetMember(p) \/ \E g \in BOOLEAN : Register(p, g)
    \/ \E n \in Nets, v \in Peers \cup {Off, Gateway} : SetRoute(n, v)
    \/ \E s \in Slots, d \in Docs \cup {None} : SetFile(s, d)

Work ==
    \/ Poll \/ Render \/ Collect
    \/ SkipRuleset \/ LoadTable \/ CheckTable \/ SyncPeers \/ ApplyRoutes \/ RecordRoutes
    \/ \E s \in Slots : SkipFile(s) \/ ApplyFile(s)
    \/ Report

Misfortune ==
    \/ LoadFails \/ CheckFails \/ SyncFails \/ RoutesFail
    \/ \E s \in Slots : FileFails(s)
    \/ ReportLost \/ Crash \/ Reboot \/ HandEdit

Next == Requests \/ Work \/ Misfortune

Spec == Init /\ [][Next]_vars

(* The agent's loop never ends: it polls for ever, and takes every step it can. *)
FairSpec == Spec /\ WF_vars(Work)
-----------------------------------------------------------------------------
(* Properties of the control plane's records                               *)

\* The dashboard's verdict.
InSync ==
    LET live == {d \in DOMAIN versions : versions[d] = "applied"}
        current == Ruleset(policy)
    IN \* ORDER BY applied_at DESC LIMIT 1: a row without one comes first.
       IF live \subseteq Stamped THEN current \in live /\ \A d \in live : <<d, current>> \in order
       ELSE live \ Stamped = {current}

\* in_sync ends up saying whether the box is running what the database describes,
\* when polls read one policy and requests do not overlap: a ruleset that nobody
\* stored is reported into a row without an applied_at, which comes first ever after.
InSyncTells == <>[](InSync <=> table = Ruleset(policy))

-----------------------------------------------------------------------------
(* Properties of the agent                                                 *)

\* What the agent remembers as applied is live, so that skipping an unchanged
\* digest is right.
AppliedIsLive ==
    "ruleset" \notin tick.tried /\ applied.ruleset # None => table = applied.ruleset

\* A route into the tunnel is only added once the peer that carries it is on the
\* interface: reconcile's order, whatever failed or changed in between.
RoutesFollowWireGuard ==
    [][\A n \in routes' \ routes : \E p \in DOMAIN wg : n \in wg[p]]_vars

\* Once the policy and the gateway's luck have settled, each subsystem reaches
\* what the policy describes, and stays there.
TableConverges == <>[](table = Ruleset(policy))
PeersConverge == <>[](wg = Interface(policy))
RoutesConverge == <>[](routes = Routes(policy))
FilesConverge ==
    <>[](\A s \in Slots : policy.file[s] = None \/ served[s] = policy.file[s])

\* The subsystems are independent: a tick that ends without a crash has tried
\* every file that is not applied, whatever became of the ruleset.
EveryTickTriesEverything ==
    [][tick.phase \notin {"idle", "rendering", "rendered"} /\ tick'.phase = "idle" /\ ~Crash /\ ~Reboot =>
          \A s \in Slots : tick.doc.file[s] \in {None, applied.file[s]} \/ s \in tick.tried]_vars

-----------------------------------------------------------------------------
(* The strengthenings the proofs rest on                                   *)

\* The peers a tick puts on the interface carry the routes it will add.
Carried(nets, interface) == \A n \in nets : \E p \in DOMAIN interface : n \in interface[p]

CarriersFirst ==
    /\ tick.phase \in {"fetched", "loaded", "sync"} => Carried(tick.doc.routes, tick.doc.peers)
    /\ tick.phase = "routes" => Carried(tick.doc.routes, wg)

\* Faults that strike before the table is checked, or that the agent outlives or
\* forgets everything by.
CaughtFaults == {"rejected", "missing", "file_fails", "daemon_dies", "report_lost",
                 "crash", "crash_unloaded"}

\* What the agent remembers as applied is live and is what it would fall back to.
Remembered == applied.ruleset # None => applied.ruleset = table /\ applied.ruleset = lastGood

\* Where a tick stands decides what may be said of the table; the routes in the
\* kernel are on record, or about to be, so that none is taken for a foreign one.
MemoryIsSound ==
    /\ tick.phase \in {"idle", "rendering", "rendered", "fetched"} =>
          tick.tried = {} /\ tick.failed = {} /\ Remembered
    /\ tick.phase = "loaded" =>
          /\ tick.tried = {"ruleset"} /\ tick.failed = {}
          /\ table = tick.doc.ruleset
          /\ applied.ruleset # None => applied.ruleset = lastGood
    /\ tick.phase \in {"sync", "routes", "record"} =>
          /\ tick.tried = {"ruleset"} /\ tick.failed = {}
          /\ table = tick.doc.ruleset /\ lastGood = tick.doc.ruleset
    /\ tick.phase \in {"dns", "proxy", "report"} =>
          IF "ruleset" \in tick.tried \ tick.failed
          THEN table = tick.doc.ruleset /\ lastGood = tick.doc.ruleset
          ELSE Remembered

RoutesOnRecord ==
    /\ tick.phase # "record" => routes \subseteq known
    /\ tick.phase = "record" => routes \subseteq tick.record
=============================================================================
