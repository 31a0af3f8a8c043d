---------------------------- MODULE InternalDns ----------------------------
(***************************************************************************)
(* The zone the gateway's resolver answers, from the rows of the database  *)
(* to the daemon: which names the control plane renders, the requests that *)
(* move them, and the agent installing the two files of a zone.            *)
(*                                                                         *)
(* Names are model values.  A name inside the zone is written short or     *)
(* fully qualified, the two being one name once rendered; a name outside   *)
(* the zone belongs to the captive portal or to a published service.  One  *)
(* address family is modelled.  The order of the names of an address and   *)
(* the options of the daemon, which settings fix, are left out: a zone is  *)
(* the hosts file, a set of (address, name), and the aliases, which are    *)
(* all that varies in the configuration file.                              *)
(***************************************************************************)
EXTENDS Naturals, FiniteSets

CONSTANTS
    Peers,        \* a peer stands for its own tunnel address too
    Records,      \* identifiers of rows of dns_records
    Labels,       \* names inside the zone
    Hostnames,    \* names outside it, for the service and the portal
    RecordRows,   \* the rows a record request may leave behind
    StartPeers,   \* the fleet the database starts with
    MaxEdits,     \* bound on the requests
    Faults,       \* what may go wrong on the gateway: see the fault actions
    MaxFaults     \* bound on how often

VARIABLES
    peers,        \* peers.state and peers.dns_label
    records,      \* dns_records
    draft,        \* of each record, the request that has flushed and not committed
    hostname,     \* internal_hostname of the service, if it is published
    edits,        \* requests so far
    disk,         \* the hosts and configuration files of the gateway
    daemon,       \* the resolver: running or not, and what it has loaded
    applied,      \* the agent's digest of the zone it installed, in memory
    step,         \* where the agent is in DnsApplier.apply
    target,       \* the zone it is installing
    previous,     \* the files it found
    cut,          \* an apply was cut off, and the resolver not restarted since
    faults        \* faults so far

rows == <<peers, records, draft, hostname, edits>>
agent == <<applied, step, target, previous, cut>>
vars == <<rows, disk, daemon, agent, faults>>

None == "none"

(***************************************************************************)
(* Rows                                                                    *)
(***************************************************************************)

\* staging, quarantined and active peers have a name; the others keep their
\* row, their address and their label, and lose the name.
NamedStates == {"named"}
States == {"absent", "disabled", "revoked"} \cup NamedStates

PeerRow == [state : States, label : Labels \cup {None}]

\* A name as an administrator writes it.
Written == [base : Labels, full : BOOLEAN]
Qualify(written) == written.base

GatewayName == "gw"
PortalName == "portal"
Names == Labels \cup Hostnames \cup {GatewayName, PortalName}
InZone == Labels \cup {GatewayName}

\* The schema of a record, and the fleet before the first request.
Configured ==
    /\ \A row \in RecordRows : row.kind \in {"A", "CNAME"} /\ row.name \in Written
    /\ None \notin Labels
    /\ StartPeers \in [Peers -> PeerRow]
    /\ \A p \in Peers : StartPeers[p].state = "absent" <=> StartPeers[p].label = None
    /\ MaxEdits \in Nat /\ MaxFaults \in Nat

NoRecord == [kind |-> None]
NoDraft == [kind |-> "no draft"]
Rows(table) == {r \in Records : table[r].kind # None}

(***************************************************************************)
(* The projection                                                          *)
(***************************************************************************)

\* Hosts in force: the gateway, the named peers, the portal, the published
\* service, and the enabled address records.
Hosts(fleet, published, table) ==
    {<<"gateway", GatewayName>>, <<"portal", PortalName>>}
    \cup {<<p, fleet[p].label>> : p \in {q \in Peers : fleet[q].state \in NamedStates}}
    \cup {<<"gateway", h>> : h \in {published} \ {None}}
    \cup {<<table[r].value, Qualify(table[r].name)>> :
            r \in {q \in Rows(table) : table[q].enabled /\ table[q].kind = "A"}}

NamesOf(hosts) == {h[2] : h \in hosts}

\* Enabled aliases, as <<row, alias, target>>: two rows may claim one alias.
Aliases(table) ==
    {<<r, Qualify(table[r].name), table[r].value>> :
        r \in {q \in Rows(table) : table[q].enabled /\ table[q].kind = "CNAME"}}

\* An alias whose target has gone is dropped.
LiveKeepingDead(aliases, known) == aliases
Live(aliases, known) == {a \in aliases : a[3] \in known}

Projection(fleet, published, table) ==
    LET hosts == Hosts(fleet, published, table)
    IN  [hosts |-> hosts, aliases |-> Live(Aliases(table), NamesOf(hosts))]

External(published) == {PortalName, published} \ {None}

\* One device to a name; nothing outside the zone but what is declared; an
\* alias is nobody's name, is claimed once, and leads somewhere.
Valid(spec, external) ==
    /\ \A h, i \in spec.hosts : h[2] = i[2] => h[1] = i[1]
    /\ NamesOf(spec.hosts) \subseteq InZone \cup external
    /\ \A a \in spec.aliases :
        /\ a[2] \notin NamesOf(spec.hosts)
        /\ a[3] \in NamesOf(spec.hosts)
    /\ \A a, b \in spec.aliases : a[2] = b[2] => a = b

Renders(fleet, published, table) ==
    Valid(Projection(fleet, published, table), External(published))

\* The two files: addresses in one, aliases in the other.
Zone(fleet, published, table) ==
    LET spec == Projection(fleet, published, table)
    IN  [hosts |-> spec.hosts, conf |-> {<<a[2], a[3]>> : a \in spec.aliases}]

\* What GET /api/v1/agent/state answers: a zone, or none when it cannot be
\* rendered.
Published(fleet, name, table) ==
    IF Renders(fleet, name, table) THEN {Zone(fleet, name, table)} ELSE {}

NoFiles == [hosts |-> {}, conf |-> {<<None, None>>}]
NoZone == [hosts |-> {}, conf |-> {}]

(***************************************************************************)
(* Requests                                                                *)
(***************************************************************************)

Init ==
    /\ peers = StartPeers
    /\ records = [r \in Records |-> NoRecord]
    /\ draft = [r \in Records |-> NoDraft]
    /\ hostname = None
    /\ edits = 0
    /\ disk = NoFiles
    /\ daemon = [up |-> FALSE, loaded |-> NoFiles]
    /\ applied = NoZone
    /\ step = "idle"
    /\ target = NoZone
    /\ previous = NoFiles
    /\ cut = FALSE
    /\ faults = 0

Away == UNCHANGED <<disk, daemon, agent, faults>>
Edit ==
    /\ edits < MaxEdits
    /\ edits' = edits + 1
    /\ Away

\* The requests that have flushed an edit of a record; whoever commits beside
\* them changes what they have checked.
Drafted == {r \in Records : draft[r] # NoDraft}
Crossing(done) ==
    [r \in Records |-> IF r \in Drafted \ done THEN [draft[r] EXCEPT !.crossed = TRUE] ELSE NoDraft]

\* A record request answers 409 to a second row of the same written name, to
\* an alias of a name nobody has, and to a zone that would not render.
UniqueName(table, r) ==
    \A q \in Rows(table) \ {r} : table[q].name # table[r].name
TargetExists(fleet, published, table, r) ==
    table[r].kind = "CNAME" =>
        table[r].value \in NamesOf(Hosts(fleet, published, table))

\* Two requests for one row, or for one name, wait for each other at the row
\* and at the unique index: so do those that free a name another one wants.
NamesHeld(r) == {draft[q].row.name : q \in {o \in Drafted \ {r} : draft[o].row # NoRecord}}
                \cup {records[q].name : q \in (Drafted \ {r}) \cap Rows(records)}

\* The flush and the checks, on the rows as committed and this request's own.
Draft(r, row) ==
    /\ draft[r] = NoDraft
    /\ Renders(peers, hostname, [records EXCEPT ![r] = row])
    /\ draft' = [draft EXCEPT ![r] = [row |-> row, crossed |-> FALSE]]
    /\ Edit
    /\ UNCHANGED <<peers, records, hostname>>

DraftRow(r, row) ==
    LET table == [records EXCEPT ![r] = row]
    IN  /\ UniqueName(table, r)
        /\ row.name \notin NamesHeld(r)
        /\ TargetExists(peers, hostname, table, r)
        /\ Draft(r, row)

CreateRecord(r, row) == records[r] = NoRecord /\ DraftRow(r, row)
UpdateRecord(r, row) == records[r] \notin {NoRecord, row} /\ DraftRow(r, row)
DeleteRecord(r) == records[r] # NoRecord /\ Draft(r, NoRecord)

\* The COMMIT looks at nothing again.
CommitRecord(r) ==
    /\ r \in Drafted
    /\ records' = [records EXCEPT ![r] = draft[r].row]
    /\ draft' = Crossing({r})
    /\ UNCHANGED <<peers, hostname, edits>> /\ Away

\* The request fails after all.
DropDraft(r) ==
    /\ r \in Drafted
    /\ draft' = [draft EXCEPT ![r] = NoDraft]
    /\ UNCHANGED <<peers, records, hostname, edits>> /\ Away

\* Peers and services are saved without looking at the zone, so that one step
\* is all there is to see of them.  A label is unique among the peers, those
\* without a name included.
FreeLabel(p, label) == \A q \in Peers \ {p} : peers[q].label # label

SetPeer(p, row) ==
    /\ Edit
    /\ peers' = [peers EXCEPT ![p] = row]
    /\ draft' = Crossing({})
    /\ UNCHANGED <<records, hostname>>

CreatePeer(p, label) ==
    /\ peers[p].state = "absent"
    /\ FreeLabel(p, label)
    /\ SetPeer(p, [state |-> "named", label |-> label])

RenamePeer(p, label) ==
    /\ peers[p].state # "absent"
    /\ peers[p].label # label
    /\ FreeLabel(p, label)
    /\ SetPeer(p, [peers[p] EXCEPT !.label = label])

\* An administrator disables, revokes or lets back in; revoked is final.
MovePeer(p, state) ==
    /\ peers[p].state \in {"named", "disabled"}
    /\ state \in {"named", "disabled", "revoked"} \ {peers[p].state}
    /\ SetPeer(p, [peers[p] EXCEPT !.state = state])

DeletePeer(p) ==
    /\ peers[p].state # "absent"
    /\ SetPeer(p, [state |-> "absent", label |-> None])

\* The lockdown of the kill switch.
Lockdown ==
    /\ Edit
    /\ peers' = [p \in Peers |-> IF peers[p].state \in NamedStates
                                 THEN [peers[p] EXCEPT !.state = "disabled"] ELSE peers[p]]
    /\ peers' # peers
    /\ draft' = Crossing({})
    /\ UNCHANGED <<records, hostname>>

PublishService(h) ==
    /\ Edit
    /\ h # hostname
    /\ hostname' = h
    /\ draft' = Crossing({})
    /\ UNCHANGED <<peers, records>>

(***************************************************************************)
(* The agent: one poll, and DnsApplier.apply step by step                  *)
(***************************************************************************)

Goto(s) == step' = s
Running(zone) == [up |-> TRUE, loaded |-> zone]
Stopped == [daemon EXCEPT !.up = FALSE]
Applying == UNCHANGED <<rows, target, previous, applied>>
SameCut == UNCHANGED cut

\* A file that differs is written; when both are already there, what is left
\* to check is whether the resolver runs.
Poll ==
    /\ step = "idle"
    /\ \E zone \in Published(peers, hostname, records) :
        /\ zone # applied
        /\ target' = zone
        /\ previous' = disk
        /\ Goto(IF disk = zone THEN "current" ELSE "write conf")
    /\ UNCHANGED <<rows, disk, daemon, applied, cut, faults>>

\* The end of apply: the agent remembers the digest, or keeps the old one and
\* tries again at the next poll.
Finish == applied' = target /\ Goto("idle") /\ UNCHANGED <<rows, target, previous>>
GiveUp == Goto("idle") /\ Applying

\* A command fails on its own account only as one of the faults.
Fault(kind) == kind \in Faults /\ faults < MaxFaults /\ faults' = faults + 1
NoFault == UNCHANGED faults

\* One that times out raises an exception which apply does not catch: nothing
\* is put back, and the poll is over.  systemd goes on with what it was asked,
\* so that the unit may be as it was, down or up with the files there are.
HangsUp == Fault("hang") /\ GiveUp
RestartHangs == HangsUp /\ daemon' \in {daemon, Stopped, Running(disk)}

CurrentUnasked ==
    /\ step = "current"
    /\ Finish /\ NoFault
    /\ SameCut
    /\ UNCHANGED <<daemon, disk>>

\* A resolver that is up is taken for one that has loaded the files.
Current ==
    /\ step = "current"
    /\ \/ daemon.up /\ Finish /\ NoFault /\ UNCHANGED daemon /\ SameCut
       \/ ~daemon.up /\ Finish /\ NoFault /\ daemon' = Running(disk) /\ cut' = FALSE
       \/ ~daemon.up /\ GiveUp /\ Fault("fail") /\ UNCHANGED daemon /\ SameCut
       \/ daemon.up /\ HangsUp /\ UNCHANGED daemon /\ SameCut
       \/ ~daemon.up /\ RestartHangs /\ SameCut
    /\ UNCHANGED disk

WriteConf ==
    /\ step = "write conf"
    /\ disk' = [disk EXCEPT !.conf = target.conf]
    /\ Goto("write hosts")
    /\ Applying /\ SameCut /\ UNCHANGED <<daemon, faults>>

WriteHosts ==
    /\ step = "write hosts"
    /\ disk' = [disk EXCEPT !.hosts = target.hosts]
    /\ Goto("test")
    /\ Applying /\ SameCut /\ UNCHANGED <<daemon, faults>>

\* dnsmasq --test; a rejected zone leaves both files as they were, one whose
\* test times out leaves the new ones, never tested.
RestoreHosts == disk' = [disk EXCEPT !.hosts = previous.hosts]
Restore == disk' = previous

Test ==
    /\ step = "test"
    /\ \/ Goto("signal") /\ NoFault /\ UNCHANGED disk /\ SameCut
       \/ Goto("idle") /\ Fault("reject") /\ Restore /\ SameCut
       \/ HangsUp /\ UNCHANGED disk /\ cut' = TRUE
    /\ Applying /\ UNCHANGED daemon

\* A reload reads the hosts file again and nothing else; a changed
\* configuration needs a restart.  Only a unit that runs can be reloaded.
Signalled == IF previous.conf # target.conf THEN Running(disk)
             ELSE [daemon EXCEPT !.loaded.hosts = disk.hosts]

Signal ==
    /\ step = "signal"
    /\ previous.conf # target.conf \/ daemon.up
    /\ daemon' = Signalled
    /\ cut' = (cut /\ previous.conf = target.conf)
    /\ Finish /\ UNCHANGED <<disk, faults>>

SignalHangs ==
    /\ step = "signal"
    /\ Fault("hang") /\ GiveUp
    /\ daemon' \in IF previous.conf # target.conf THEN {daemon, Stopped, Signalled}
                   ELSE IF daemon.up THEN {daemon, Signalled} ELSE {daemon}
    /\ cut' = TRUE
    /\ UNCHANGED disk

\* A failed restart takes the resolver down, a failed reload leaves it.
SignalFails ==
    /\ step = "signal"
    /\ \/ Fault("fail")
       \/ previous.conf = target.conf /\ ~daemon.up /\ NoFault
    /\ daemon' = IF previous.conf # target.conf THEN Stopped ELSE daemon
    /\ Restore
    /\ Goto("put back")
    /\ Applying /\ SameCut

\* The best effort that follows, whose own result is not looked at.  The unit
\* does not start without a configuration.
PutBack ==
    /\ step = "put back"
    /\ \/ disk # NoFiles /\ daemon' = Running(disk) /\ NoFault
       \/ disk = NoFiles /\ daemon' = Stopped /\ NoFault
       \/ daemon' = Stopped /\ Fault("fail")
       \/ disk # NoFiles /\ daemon' \in {daemon, Stopped, Running(disk)} /\ Fault("hang")
    /\ GiveUp /\ SameCut
    /\ UNCHANGED disk

\* The gateway reboots: the resolver is not enabled at boot, and the agent
\* remembers nothing.  Or only the agent is restarted, between two polls or in
\* the middle of one.
Forget == applied' = NoZone /\ Goto("idle") /\ UNCHANGED <<rows, target, previous, disk>>
Reboot == Fault("reboot") /\ daemon' = Stopped /\ cut' = FALSE /\ Forget
AgentRestart ==
    /\ Fault("restart")
    /\ cut' = (cut \/ (step \in {"write hosts", "test", "signal"} /\ disk # previous))
    /\ UNCHANGED daemon
    /\ Forget

(***************************************************************************)
(* The specification                                                       *)
(***************************************************************************)

Agent == Poll \/ Current \/ WriteConf \/ WriteHosts \/ Test
         \/ Signal \/ SignalHangs \/ SignalFails \/ PutBack

Request ==
    \/ \E r \in Records, row \in RecordRows : CreateRecord(r, row) \/ UpdateRecord(r, row)
    \/ \E r \in Records : DeleteRecord(r) \/ CommitRecord(r) \/ DropDraft(r)
    \/ \E p \in Peers, l \in Labels : CreatePeer(p, l) \/ RenamePeer(p, l)
    \/ \E p \in Peers, s \in States : MovePeer(p, s)
    \/ \E p \in Peers : DeletePeer(p)
    \/ Lockdown
    \/ \E h \in Hostnames \cup {None} : PublishService(h)

Next == Request \/ Agent \/ Reboot \/ AgentRestart

\* The agent polls for as long as it runs; nobody has to make a request.
Fairness == WF_vars(Agent)

Spec == Init /\ [][Next]_vars /\ Fairness

(***************************************************************************)
(* Properties                                                              *)
(***************************************************************************)

TypeOK ==
    /\ peers \in [Peers -> PeerRow]
    /\ \A p \in Peers : peers[p].state = "absent" <=> peers[p].label = None
    /\ \A r \in Rows(records) : records[r] \in RecordRows
    /\ draft \in [Records -> {NoDraft} \cup [row : RecordRows \cup {NoRecord}, crossed : BOOLEAN]]
    /\ hostname \in Hostnames \cup {None}
    /\ step \in {"idle", "current", "write conf", "write hosts", "test", "signal", "put back"}
    /\ daemon.up \in BOOLEAN
    /\ cut \in BOOLEAN
    /\ edits \in 0 .. MaxEdits /\ faults \in 0 .. MaxFaults

\* A zone that renders goes on rendering through everything but giving a
\* peer or a service a name: an edit of a record is refused when it would
\* break it, unless another request commits between its check and its COMMIT;
\* and a peer that loses its name takes down the aliases that led to it and
\* nothing else (services/dns.py build_spec: revoking a peer, or the kill
\* switch, must not stop the fleet resolving).
Given == Hosts(peers, hostname, [r \in Records |-> NoRecord])
CommitsCrossed == \E r \in Drafted : draft[r].crossed /\ records'[r] # records[r]

ZoneSurvives ==
    [][Given' \subseteq Given /\ Renders(peers, hostname, records) /\ ~CommitsCrossed
        => Renders(peers', hostname', records')]_vars

\* Without that exception it is false: the check is of a zone that has changed.
CheckedRecordsRender ==
    [][Given' \subseteq Given /\ Renders(peers, hostname, records)
        => Renders(peers', hostname', records')]_vars

\* Between two polls the resolver answers from both files of one zone, the
\* one the agent remembers: never the addresses of one zone with the aliases
\* of another (dns_digest: the two are only meaningful as a pair).  The time
\* after an apply that was cut off, by a command that timed out or by a kill,
\* is excepted, until the resolver has loaded both files again.
AnswersOneZone == /\ applied # NoZone => disk = applied
                  /\ daemon.up => daemon.loaded = disk
ResolverAnswersOneZone == step = "idle" /\ ~cut => AnswersOneZone

\* Without that exception it is false: the new files stay, the next poll finds
\* them current, and the resolver goes on with what it had.
CutsAreRepaired == step = "idle" => AnswersOneZone

\* When the zone can be rendered for good, the resolver ends up running and
\* answering it, through refused zones, failed restarts, reboots and time-outs
\* that cut nothing off or were made good by a later zone; unless the files put
\* back did not start either, and are wanted again: the agent remembers them as
\* applied, and nothing starts the resolver.
LeftDown == step = "idle" /\ ~daemon.up /\ applied \notin {NoZone, target}
ResolverConverges ==
    <>[](Renders(peers, hostname, records) /\ ~cut /\ ~LeftDown)
        => <>[](daemon.up /\ daemon.loaded = Zone(peers, hostname, records))

\* The label of a peer is stored so that a clash is a conflict on the request
\* that caused it, and never pushed out to the resolver (peers.py _dns_label).
EveryZoneRenders == Renders(peers, hostname, records)

(***************************************************************************)
(* Why the resolver answers one zone                                       *)
(***************************************************************************)

IsZone(z) == z = [hosts |-> z.hosts, conf |-> z.conf]

FilesAreZones ==
    /\ IsZone(disk) /\ IsZone(previous) /\ IsZone(target) /\ IsZone(applied)
    /\ daemon = [up |-> daemon.up, loaded |-> daemon.loaded]

\* What the resolver runs, and the agent remembers, when files are these.
Answers(files) ==
    /\ applied # NoZone => files = applied
    /\ daemon.up => daemon.loaded = files

\* Where each file is in the middle of a poll: until the last step succeeds,
\* what the agent found is what the resolver runs and what comes back.  After
\* an apply that was cut off only the files are known.
FilesFollowTheStep ==
    /\ step \in {"idle", "current", "put back"} /\ ~cut => Answers(disk)
    /\ step = "current" => disk = target
    /\ step \in {"write conf", "write hosts", "test", "signal"} /\ ~cut => Answers(previous)
    /\ step = "write conf" => disk = previous
    /\ step = "write hosts" => disk = [previous EXCEPT !.conf = target.conf]
    /\ step \in {"test", "signal"} => disk = target

\* A draft that nobody has crossed leaves a zone that renders.
DraftsRender ==
    \A r \in Drafted : ~draft[r].crossed =>
        Renders(peers, hostname, [records EXCEPT ![r] = draft[r].row])

=============================================================================
