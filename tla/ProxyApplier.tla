---------------------------- MODULE ProxyApplier ----------------------------
(***************************************************************************)
(* The agent installing the configuration of the reverse proxy:            *)
(* ProxyApplier.apply step by step, the country map it builds first        *)
(* (GeoBuilder), and the timer that downloads the dataset the map is built *)
(* from.  The daemon loads a configuration, the pattern files and the      *)
(* country map when it reloads, and pattern files alone over its runtime   *)
(* socket.                                                                 *)
(*                                                                         *)
(* A document is what the control plane publishes: a configuration, a      *)
(* function from the names of the managed files to their contents, and the *)
(* countries its filters name.  All of them are abstract values; the text  *)
(* they are rendered to is not modelled.                                   *)
(***************************************************************************)
EXTENDS Naturals, FiniteSets, Functions

CONSTANTS
    Documents,    \* [conf, files, countries]
    Pushable,     \* the files that can be pushed over the runtime socket
    Rejected,     \* the configurations haproxy -c refuses
    Unstartable,  \* those it accepts and the daemon will not start on
    MaxEdits,     \* bound on the documents published
    MaxDatasets,  \* bound on the downloads of the country dataset
    Faults,       \* what may go wrong on the gateway: see the fault actions
    MaxFaults     \* bound on how often

VARIABLES
    want,         \* the document the control plane publishes
    edits,
    dataset,      \* which download of the dataset is there, 0 for none
    map,          \* the country map on disk
    stamp,        \* the countries the map is stamped for
    refresh,      \* what geo-refresh --rebuild has left to do
    disk,         \* the configuration and the managed files
    daemon,       \* running or not, and what it has loaded
    applied,      \* the document whose digest the agent remembers
    step,         \* where the agent is
    target,       \* the document it is installing
    previous,     \* what it found on disk
    cut,          \* an apply was cut off, and the proxy has not started since
    faults

geo == <<dataset, map, stamp, refresh>>
agent == <<applied, target, previous, cut>>
vars == <<want, edits, geo, disk, daemon, step, agent, faults>>

None == "none"
NoCountries == {}

NoMap == [there |-> FALSE, for |-> NoCountries, from |-> 0]
EmptyMap == [there |-> TRUE, for |-> NoCountries, from |-> 0]
MapOf(countries) == [there |-> TRUE, for |-> countries, from |-> dataset]

NoRefresh == [next |-> "download", for |-> NoCountries]
NoFiles == [conf |-> None, files |-> <<>>]
NoDocument == [conf |-> None, files |-> <<>>, countries |-> NoCountries]
Text(document) == [conf |-> document.conf, files |-> document.files]

Init ==
    /\ want \in Documents
    /\ edits = 0
    /\ dataset = 0
    /\ map = NoMap /\ stamp = NoCountries /\ refresh = NoRefresh
    /\ disk = NoFiles
    /\ daemon = [up |-> FALSE, text |-> NoFiles, map |-> NoMap]
    /\ applied = NoDocument
    /\ step = "idle"
    /\ target = NoDocument
    /\ previous = NoFiles
    /\ cut = FALSE
    /\ faults = 0

Publish(document) ==
    /\ edits < MaxEdits
    /\ document # want
    /\ want' = document
    /\ edits' = edits + 1
    /\ UNCHANGED <<geo, disk, daemon, step, agent, faults>>

(***************************************************************************)
(* The country map                                                         *)
(***************************************************************************)

\* What the map was built for, if that is known: a stamp is worth nothing
\* without its map.
Current == IF map = NoMap THEN NoCountries ELSE stamp

BuildAndStamp(countries) ==
    map' = MapOf(IF dataset = 0 THEN NoCountries ELSE countries) /\ stamp' = countries

\* GeoBuilder.build: nobody filters by country, and the map goes; it is
\* already built for these; there is no dataset, and an empty map is written
\* without a stamp; or it is built and stamped.
Build(countries) ==
    CASE countries = NoCountries -> map' = NoMap /\ stamp' = NoCountries
      [] countries # NoCountries /\ Current = countries -> UNCHANGED <<map, stamp>>
      [] countries # NoCountries /\ Current # countries /\ dataset = 0 ->
            map' = EmptyMap /\ stamp' = NoCountries
      [] OTHER -> map' = MapOf(countries) /\ stamp' = countries

\* geo-refresh --rebuild, a process of its own: the download replaces the
\* dataset; with a stamp, the map is removed and then built again.
Download ==
    /\ refresh = NoRefresh
    /\ dataset < MaxDatasets
    /\ dataset' = dataset + 1
    /\ refresh' = IF Current = NoCountries THEN NoRefresh
                  ELSE [next |-> "forget", for |-> Current]
    /\ UNCHANGED <<want, edits, map, stamp, disk, daemon, step, agent, faults>>

ForgetMap ==
    /\ refresh.next = "forget"
    /\ Build(NoCountries)
    /\ refresh' = [refresh EXCEPT !.next = "build"]
    /\ UNCHANGED <<want, edits, dataset, disk, daemon, step, agent, faults>>

Rebuild ==
    /\ refresh.next = "build"
    /\ Build(refresh.for)
    /\ refresh' = NoRefresh
    /\ UNCHANGED <<want, edits, dataset, disk, daemon, step, agent, faults>>

(***************************************************************************)
(* One tick of the agent                                                   *)
(***************************************************************************)

Goto(s) == step' = s
Steady == UNCHANGED <<want, edits, dataset, refresh>>
GeoUnchanged == UNCHANGED <<map, stamp>>
Doing == UNCHANGED <<target, previous, applied>>
SameCut == UNCHANGED cut

Fault(kind) == kind \in Faults /\ faults < MaxFaults /\ faults' = faults + 1
NoFault == UNCHANGED faults

\* ensure_geo comes before anything is validated, and only when the digest of
\* the document is not the one the agent remembers.
Tick ==
    /\ step = "idle"
    /\ want # applied
    /\ target' = want
    /\ Build(want.countries)
    /\ Goto("compare")
    /\ UNCHANGED <<want, edits, dataset, refresh, disk, daemon, applied, previous, cut, faults>>

Changed == {f \in DOMAIN target.files :
              f \notin DOMAIN previous.files \/ previous.files[f] # target.files[f]}

Compare ==
    /\ step = "compare"
    /\ previous' = disk
    /\ Goto(IF disk = Text(target) THEN "current" ELSE "write files")
    /\ Steady /\ GeoUnchanged /\ UNCHANGED <<disk, daemon, target, applied, cut, faults>>

Finish == applied' = target /\ Goto("idle") /\ UNCHANGED <<target, previous>>
GiveUp == Goto("idle") /\ Doing

\* haproxy -c, and the daemon itself, refuse a configuration that names a file
\* or a country map which is not on disk, and read no other file.
Naming(conf) == {d \in Documents : d.conf = conf}
FilesNamed(conf) == UNION {DOMAIN d.files : d \in Naming(conf)}
NamesMap(conf) == \E d \in Naming(conf) : d.countries # NoCountries

Parses(text) == /\ text.conf \notin Rejected \cup {None}
                /\ FilesNamed(text.conf) \subseteq DOMAIN text.files
                /\ NamesMap(text.conf) => map # NoMap

Read(text) == [text EXCEPT !.files = Restrict(text.files, FilesNamed(text.conf))]
Loaded == [up |-> TRUE, text |-> Read(disk), map |-> IF NamesMap(disk.conf) THEN map ELSE NoMap]
Stopped == [daemon EXCEPT !.up = FALSE]

\* systemctl restart: the unit stops, and starts if it can.
Starts(text) == Parses(text) /\ text.conf \notin Unstartable
RestartOk == Starts(disk) /\ NoFault /\ daemon' = Loaded
RestartFails(kind) ==
    /\ daemon' = Stopped
    /\ \/ ~Starts(disk) /\ NoFault
       \/ Fault(kind)

\* A command that times out raises an exception which apply does not catch:
\* nothing is put back, and the tick is over.  systemd goes on with what it was
\* asked, so that the unit may be as it was, down or up with what there is.
HangsUp == Fault("hang") /\ GiveUp
Reloaded == IF Starts(disk) THEN {daemon, Loaded} ELSE {daemon}
RestartHangs == daemon' \in {Stopped} \cup Reloaded

CurrentUnasked ==
    /\ step = "current"
    /\ Finish /\ NoFault
    /\ SameCut
    /\ Steady /\ GeoUnchanged /\ UNCHANGED <<disk, daemon>>

\* The files are right: what is left to check is whether the proxy runs.  One
\* that is up is taken for one that has loaded them.
CurrentText ==
    /\ step = "current"
    /\ \/ daemon.up /\ Finish /\ NoFault /\ UNCHANGED daemon /\ SameCut
       \/ ~daemon.up /\ RestartOk /\ Finish /\ cut' = FALSE
       \/ ~daemon.up /\ RestartFails("start") /\ GiveUp /\ SameCut
       \/ daemon.up /\ HangsUp /\ UNCHANGED daemon /\ SameCut
       \/ ~daemon.up /\ HangsUp /\ RestartHangs /\ SameCut
    /\ Steady /\ GeoUnchanged /\ UNCHANGED disk

\* Changed files are written and stale ones removed, then the configuration.
WriteFiles ==
    /\ step = "write files"
    /\ disk' = [disk EXCEPT !.files = target.files]
    /\ Goto("write conf")
    /\ Steady /\ GeoUnchanged /\ Doing /\ SameCut /\ UNCHANGED <<daemon, faults>>

WriteConf ==
    /\ step = "write conf"
    /\ disk' = [disk EXCEPT !.conf = target.conf]
    /\ Goto("validate")
    /\ Steady /\ GeoUnchanged /\ Doing /\ SameCut /\ UNCHANGED <<daemon, faults>>

Restore == disk' = previous

\* Only pattern files moved, and they can be pushed.
CanSync == /\ previous.conf = target.conf
           /\ daemon.up
           /\ Changed # {} /\ Changed \subseteq Pushable

\* haproxy -c, and the question whether the unit is active that follows when
\* the configuration has not changed; both may time out.
Validate ==
    /\ step = "validate"
    /\ \/ Parses(disk) /\ Goto(IF CanSync THEN "sync" ELSE "reload")
            /\ NoFault /\ UNCHANGED disk /\ SameCut
       \/ ~Parses(disk) /\ Goto("idle") /\ NoFault /\ Restore /\ SameCut
       \/ HangsUp /\ UNCHANGED disk /\ cut' = TRUE
    /\ Steady /\ GeoUnchanged /\ Doing /\ UNCHANGED daemon

\* The daemon takes the pushed files; a push that fails part of the way
\* leaves some of them, and the reload that follows reads all of them.
PushedOf(files) == [f \in DOMAIN daemon.text.files |->
                      IF f \in files THEN target.files[f] ELSE daemon.text.files[f]]
Push(files) ==
    daemon' = [daemon EXCEPT !.text.files = PushedOf(files)]

SyncAnyhow ==
    /\ step = "sync"
    /\ \E some \in SUBSET Changed :
        some \subseteq DOMAIN daemon.text.files /\ Push(some) /\ Finish /\ NoFault
    /\ Steady /\ GeoUnchanged /\ SameCut /\ UNCHANGED disk

Sync ==
    /\ step = "sync"
    /\ \/ Changed \subseteq DOMAIN daemon.text.files /\ Push(Changed) /\ Finish /\ NoFault
       \/ \E some \in SUBSET Changed \ {Changed} :
            /\ some \subseteq DOMAIN daemon.text.files
            /\ Push(some)
            /\ Goto("reload") /\ Doing
            /\ \/ Fault("push")
               \/ ~(Changed \subseteq DOMAIN daemon.text.files) /\ NoFault
    /\ Steady /\ GeoUnchanged /\ SameCut /\ UNCHANGED disk

\* A reload of a running daemon; failing that, a restart; failing that, the
\* previous files come back and the daemon with them, as far as it can.
Reload ==
    /\ step = "reload"
    /\ \/ daemon.up /\ RestartOk /\ Finish /\ cut' = FALSE
       \/ ~daemon.up /\ NoFault /\ Goto("restart") /\ Doing /\ UNCHANGED daemon /\ SameCut
       \/ daemon.up /\ (Fault("start") \/ (~Starts(disk) /\ NoFault))
            /\ Goto("restart") /\ Doing /\ UNCHANGED daemon /\ SameCut
       \/ daemon.up /\ HangsUp /\ daemon' \in Reloaded /\ cut' = TRUE
    /\ Steady /\ GeoUnchanged /\ UNCHANGED disk

Restart ==
    /\ step = "restart"
    /\ \/ RestartOk /\ Finish /\ UNCHANGED disk /\ cut' = FALSE
       \/ RestartFails("start") /\ Restore /\ Goto("put back") /\ Doing /\ SameCut
       \/ HangsUp /\ RestartHangs /\ UNCHANGED disk /\ cut' = TRUE
    /\ Steady /\ GeoUnchanged

PutBack ==
    /\ step = "put back"
    /\ RestartOk \/ RestartFails("put back") \/ (Fault("hang") /\ RestartHangs)
    /\ GiveUp
    /\ Steady /\ GeoUnchanged /\ SameCut /\ UNCHANGED disk

\* A reboot leaves the proxy stopped and the agent without its memory; or the
\* agent alone is restarted, between two ticks or in the middle of one.
Amnesia == applied' = NoDocument /\ Goto("idle") /\ UNCHANGED <<target, previous, disk>>
Reboot ==
    /\ Fault("reboot")
    /\ daemon' = Stopped
    /\ refresh' = NoRefresh
    /\ Amnesia
    /\ cut' = FALSE
    /\ UNCHANGED <<want, edits, dataset>> /\ GeoUnchanged
AgentRestart ==
    /\ Fault("restart")
    /\ Amnesia
    /\ cut' = (cut \/ step \in {"write conf", "validate", "sync", "reload", "restart"})
    /\ Steady /\ GeoUnchanged /\ UNCHANGED daemon

(***************************************************************************)
(* The specification                                                       *)
(***************************************************************************)

Agent == Tick \/ Compare \/ CurrentText \/ WriteFiles \/ WriteConf \/ Validate \/ Sync
         \/ Reload \/ Restart \/ PutBack
Geo == ForgetMap \/ Rebuild

Next == \/ \E d \in Documents : Publish(d)
        \/ Download \/ Geo
        \/ Agent
        \/ Reboot \/ AgentRestart

\* The agent ticks for as long as it runs and a refresh that began goes on;
\* nobody has to publish, and no timer promises that a download succeeds.
Fairness == WF_vars(Agent) /\ WF_vars(Geo)

Spec == Init /\ [][Next]_vars /\ Fairness

(***************************************************************************)
(* Properties                                                              *)
(***************************************************************************)

TypeOK ==
    /\ want \in Documents
    /\ applied \in Documents \cup {NoDocument}
    /\ target \in Documents \cup {NoDocument}
    /\ daemon.up \in BOOLEAN
    /\ cut \in BOOLEAN
    /\ map.from \in 0 .. dataset
    /\ stamp \subseteq map.for
    /\ step \in {"idle", "compare", "current", "write files", "write conf", "validate", "sync",
                 "reload", "restart", "put back"}

\* Between two ticks a running proxy has loaded what is on disk now, file
\* by file, however it came there: by a reload, by a push that succeeded, or
\* by a push that failed half way (apply: a partially synced proxy is worse
\* than a reloaded one; what is pushed must also be on disk).  The time after
\* an apply that was cut off, by a command that timed out or by a kill, is
\* excepted, until the proxy has started or reloaded.
RunsOneDocument == /\ applied # NoDocument => disk = Text(applied)
                   /\ daemon.up => daemon.text = Read(disk)
ProxyRunsOneDocument == step = "idle" /\ ~cut => RunsOneDocument

\* Without that exception it is false: the new files stay, the next tick finds
\* them current, and the proxy goes on with what it had.
CutsAreRepaired == step = "idle" => RunsOneDocument

\* A document the daemon accepts ends up running, once the control plane
\* stays with it, through rejected predecessors, failed starts, failed pushes,
\* reboots, refreshes that run beside the applier, and time-outs that cut
\* nothing off or were made good by a later document ...
Acceptable(d) == d.conf \notin Rejected \cup Unstartable
Runs(d) == daemon.up /\ daemon.text = Text(d)

\* ... unless the files put back did not start, the restart having failed again
\* or their country map being gone: the agent remembers them as applied, and if
\* they are wanted again nothing starts the daemon.
LeftDown == step = "idle" /\ ~daemon.up /\ applied \notin {NoDocument, target}
ProxyConverges ==
    \A d \in Documents :
        Acceptable(d) /\ <>[](want = d /\ ~cut /\ ~LeftDown) => <>[]Runs(d)

\* Without that exception it is false.
ProxyComesBack ==
    \A d \in Documents : Acceptable(d) /\ <>[](want = d /\ ~cut) => <>[]Runs(d)

\* An empty map is retried rather than taken for finished, so that a filter
\* by country comes alive when the dataset arrives (geo.py build,
\* docs/architecture.md).
GeoFilterComesAlive ==
    \A d \in Documents :
        Acceptable(d) /\ d.countries # NoCountries /\ <>[](want = d /\ dataset > 0)
            => <>(daemon.up /\ daemon.map.for = d.countries)

(***************************************************************************)
(* Why the proxy runs one document                                         *)
(***************************************************************************)

IsText(text) == text = [conf |-> text.conf, files |-> text.files]

FilesAreTexts ==
    /\ IsText(disk) /\ IsText(previous)
    /\ daemon = [up |-> daemon.up, text |-> daemon.text, map |-> daemon.map]
    /\ daemon.up \in BOOLEAN

Remembers(text) == applied # NoDocument => text = Text(applied)
Answers(text) == daemon.up => daemon.text = Read(text)

\* Where the files are in the middle of a tick.  A push may fail part of the
\* way, so from there until the daemon has started again nothing is known of
\* what it runs; nor is it after an apply that was cut off.
FilesFollowTheStep ==
    /\ step \in {"idle", "compare", "current"} /\ ~cut => Remembers(disk) /\ Answers(disk)
    /\ step = "current" => disk = Text(target)
    /\ step \in {"write files", "write conf", "validate", "sync"} /\ ~cut => Answers(previous)
    /\ step \in {"write files", "write conf", "validate", "sync", "reload", "restart", "put back"}
        /\ ~cut => Remembers(previous)
    /\ step = "write files" => disk = previous
    /\ step = "write conf" => disk = [previous EXCEPT !.files = target.files]
    /\ step \in {"validate", "sync", "reload", "restart"} => disk = Text(target)
    /\ step = "sync" => CanSync /\ FilesNamed(disk.conf) \subseteq DOMAIN disk.files
    /\ step = "put back" => disk = previous /\ ~daemon.up

=============================================================================
