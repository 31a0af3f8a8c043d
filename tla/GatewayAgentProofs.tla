------------------------- MODULE GatewayAgentProofs -------------------------
(***************************************************************************)
(* Theorems about GatewayAgent, for every fleet, every set of networks and *)
(* files, every number of changes and faults, and polls that may read      *)
(* several policies.                                                       *)
(***************************************************************************)
EXTENDS GatewayAgent, TLAPS

-----------------------------------------------------------------------------
(* Types                                                                   *)

\* What the control plane derives from a policy is a ruleset, an interface and
\* a set of networks.
LEMMA DerivedTyped ==
    ASSUME NEW pol \in Policies
    PROVE  /\ Ruleset(pol) \in Rulesets
           /\ Interface(pol) \in Interfaces
           /\ Routes(pol) \subseteq Nets
<1>1. PeersIn(pol, {"active"}) \subseteq Peers /\ PeersIn(pol, Confined) \subseteq Peers
  BY DEF PeersIn
<1>2. Ruleset(pol) \in Rulesets
  BY <1>1 DEF Ruleset, Rulesets
<1>3. Interface(pol) \in Interfaces
  <2>1. PeersIn(pol, Present) \in SUBSET Peers
    BY DEF PeersIn
  <2>2. Interface(pol) \in [PeersIn(pol, Present) -> SUBSET Nets]
    BY DEF Interface
  <2> QED BY <2>1, <2>2 DEF Interfaces
<1> QED BY <1>2, <1>3 DEF Routes

\* A tick at rest, and a memory that was lost.
LEMMA RestTyped == Resting \in Ticks /\ Resting.failed = {} /\ Forgotten \in Memories
BY DEF Resting, Ticks, Phases, Answers, NoState, Parts, Forgotten, Memories

\* The gateway starts well typed.
LEMMA InitTyped == Init => GatewayOK
<1> SUFFICES ASSUME Init PROVE GatewayOK
  OBVIOUS
<1>1. wg \in Interfaces
  <2>1. NoPeers \in [{} -> SUBSET Nets]
    BY DEF NoPeers
  <2> QED BY <2>1 DEF Init, Interfaces
<1>2. policy \in Policies /\ MaxChanges \in Nat /\ MaxFaults \in Nat
  BY AgentAssumption DEF Init
<1> QED BY <1>1, <1>2, RestTyped DEF Init, GatewayOK

\* A change of the policy leaves a policy.
LEMMA RequestsTyped ==
    ASSUME GatewayOK, Requests
    PROVE  GatewayOK'
<1>0. policy \in Policies
  BY DEF GatewayOK
<1>1. ASSUME NEW kind, NEW pol \in Policies, Change(kind, pol) PROVE GatewayOK'
  BY <1>1, AgentAssumption DEF Change, GatewayOK, dataplane
<1>2. ASSUME NEW p \in Peers, NEW s \in States, SetState(p, s) PROVE GatewayOK'
  <2>1. [policy EXCEPT !.state[p] = s] \in Policies
    BY <1>0 DEF Policies
  <2> QED BY <1>1, <1>2, <2>1 DEF SetState
<1>3. ASSUME NEW p \in Peers, DeletePeer(p) PROVE GatewayOK'
  <2>1. Without(policy, p) \in Policies
    BY <1>0 DEF Policies, Without
  <2> QED BY <1>1, <1>3, <2>1 DEF DeletePeer
<1>4. ASSUME NEW p \in Peers, SetMember(p) PROVE GatewayOK'
  <2>1. [policy EXCEPT !.member = IF p \in @ THEN @ \ {p} ELSE @ \cup {p}] \in Policies
    BY <1>0 DEF Policies
  <2> QED BY <1>1, <1>4, <2>1 DEF SetMember
<1>5. ASSUME NEW p \in Peers, NEW g \in BOOLEAN, Register(p, g) PROVE GatewayOK'
  <2>1. [policy EXCEPT !.state[p] = "staging",
                       !.member = IF g THEN @ \cup {p} ELSE @] \in Policies
    BY <1>0 DEF Policies, States
  <2> QED BY <1>1, <1>5, <2>1 DEF Register
<1>6. ASSUME NEW n \in Nets, NEW v \in Peers \cup {Off, Gateway}, SetRoute(n, v)
      PROVE GatewayOK'
  <2>1. [policy EXCEPT !.via[n] = v] \in Policies
    BY <1>0 DEF Policies
  <2> QED BY <1>1, <1>6, <2>1 DEF SetRoute
<1>7. ASSUME NEW s \in Slots, NEW d \in Docs \cup {None}, SetFile(s, d) PROVE GatewayOK'
  <2>1. [policy EXCEPT !.file[s] = d] \in Policies
    BY <1>0 DEF Policies
  <2> QED BY <1>1, <1>7, <2>1 DEF SetFile
<1> QED BY <1>2, <1>3, <1>4, <1>5, <1>6, <1>7 DEF Requests

\* A tick that is under way knows its ruleset, and its peers once it has them all,
\* and notes that it tries the ruleset when it does.
Answered ==
    /\ tick.phase # "idle" => tick.doc.ruleset \in Rulesets
    /\ tick.phase \notin {"idle", "rendering", "rendered"} => tick.doc.peers \in Interfaces
    /\ tick.phase \in {"loaded", "sync", "routes"} => "ruleset" \in tick.tried
    /\ tick.phase \in {"idle", "rendering", "rendered", "fetched"} => tick.tried = {}

Typed == GatewayOK /\ Answered

\* The fields of a tick, and that moving on keeps them.
LEMMA TickFields ==
    ASSUME tick \in Ticks
    PROVE  /\ tick.phase \in Phases /\ tick.doc \in Answers
           /\ tick.tried \subseteq Parts /\ tick.failed \subseteq Parts
           /\ tick.record \subseteq Nets
           /\ tick.doc.ruleset \in Rulesets \cup {None}
           /\ tick.doc.peers \in Interfaces \cup {None}
           /\ tick.doc.routes \subseteq Nets
           /\ tick.doc.file \in [Slots -> Docs \cup {None}]
BY DEF Ticks, Answers

\* A step that moves a tick on, and may note what was tried, what failed and what
\* there is to record.
LEMMA TickOn ==
    ASSUME Typed, NEW x \in Phases \ {"idle", "rendering", "rendered", "fetched"},
           NEW tried \in SUBSET Parts, NEW failed \in SUBSET tried,
           NEW record \in SUBSET Nets,
           tick.phase \notin {"idle", "rendering", "rendered"},
           x \in {"loaded", "sync", "routes"} => "ruleset" \in tried,
           tick' = [tick EXCEPT !.phase = x, !.tried = tried, !.failed = failed,
                                !.record = record]
    PROVE  /\ tick' \in Ticks /\ tick'.failed \subseteq tick'.tried /\ Answered'
           /\ tick'.phase = x /\ tick'.doc = tick.doc
BY DEF Typed, GatewayOK, Answered, Ticks

\* A tick that ends.
LEMMA TickEnds ==
    ASSUME tick' = Resting
    PROVE  tick' \in Ticks /\ tick'.failed \subseteq tick'.tried /\ Answered'
BY RestTyped DEF Answered, Resting

\* The polls keep the types.
LEMMA PollTyped ==
    ASSUME Typed, Poll \/ Render \/ Collect
    PROVE  Typed'
<1>0. /\ Ruleset(policy) \in Rulesets /\ Interface(policy) \in Interfaces
      /\ Routes(policy) \subseteq Nets /\ policy.file \in [Slots -> Docs \cup {None}]
      /\ tick \in Ticks /\ tick.failed \subseteq tick.tried
  BY DerivedTyped DEF Typed, GatewayOK, Policies
<1>1. ASSUME tick' \in Ticks, tick'.failed \subseteq tick'.tried, Answered',
             UNCHANGED <<control, applied, dataplane, faults>>
      PROVE  Typed'
  BY <1>1 DEF Typed, GatewayOK, control, dataplane
<1>2. CASE Poll
  <2>1. tick' = [tick EXCEPT !.phase = "rendering", !.doc.ruleset = Ruleset(policy)]
    BY <1>2 DEF Poll
  <2>2. tick' \in Ticks /\ tick'.failed \subseteq tick'.tried /\ Answered'
    <3>1. tick.tried = {}
      BY <1>2 DEF Poll, Typed, Answered
    <3> QED BY <1>0, <2>1, <3>1 DEF Ticks, Answers, Phases, Answered
  <2> QED BY <1>1, <1>2, <2>2 DEF Poll
<1>3. CASE Render
  <2> DEFINE rules == [Ruleset(policy) EXCEPT !.nets = tick.doc.ruleset.nets]
  <2>1. rules \in Rulesets
    BY <1>0, <1>3 DEF Render, Typed, Answered, Rulesets
  <2>2. tick' = [tick EXCEPT !.phase = "rendered", !.doc.ruleset = rules]
    BY <1>3 DEF Render
  <2>3. tick' \in Ticks /\ tick'.failed \subseteq tick'.tried /\ Answered'
    <3> HIDE DEF rules
    <3>1. tick.tried = {}
      BY <1>3 DEF Render, Typed, Answered
    <3> QED BY <1>0, <2>1, <2>2, <3>1 DEF Ticks, Answers, Phases, Answered
  <2> QED BY <1>1, <1>3, <2>3 DEF Render
<1>4. CASE Collect
  <2>1. tick' = [tick EXCEPT !.phase = "fetched", !.doc.peers = Interface(policy),
                             !.doc.routes = Routes(policy), !.doc.file = policy.file]
    BY <1>4 DEF Collect
  <2>2. tick.doc.ruleset \in Rulesets /\ tick.tried = {}
    BY <1>4 DEF Collect, Typed, Answered
  <2>3. tick' \in Ticks /\ tick'.failed \subseteq tick'.tried /\ Answered'
    BY <1>0, <2>1, <2>2 DEF Ticks, Answers, Phases, Answered
  <2> QED BY <1>1, <1>4, <2>3 DEF Collect
<1> QED BY <1>2, <1>3, <1>4

\* A pass over the routes, whole or not.
LEMMA PassTyped ==
    ASSUME Typed, tick.phase = "routes",
           NEW removed, NEW added \in SUBSET ToAdd, PassOver(removed, added)
    PROVE  /\ routes' \subseteq Nets
           /\ tick' \in Ticks /\ tick'.failed \subseteq tick'.tried /\ Answered'
           /\ tick'.doc = tick.doc /\ tick'.phase \in {"dns", "record"}
<1>0. tick \in Ticks /\ tick.failed \subseteq tick.tried
  BY DEF Typed, GatewayOK
<1>1. ToAdd \subseteq Nets /\ known \subseteq Nets /\ routes \subseteq Nets
  BY <1>0, TickFields DEF ToAdd, Typed, GatewayOK
<1> DEFINE x == IF ToRemove \cup added = {} THEN "dns" ELSE "record"
           rec == (known \ ToRemove) \cup added
           bad == IF added = ToAdd THEN tick.failed ELSE tick.failed \cup {"ruleset"}
<1>2. x \in {"dns", "record"} /\ rec \subseteq Nets
  BY <1>1
<1>3. tick' = [tick EXCEPT !.phase = x, !.record = rec, !.failed = bad]
  BY DEF PassOver
<1>4. bad \in SUBSET tick.tried /\ tick.tried \subseteq Parts
  BY <1>0, TickFields DEF Typed, Answered
<1>5. tick' = [tick EXCEPT !.phase = x, !.tried = tick.tried, !.failed = bad, !.record = rec]
  BY <1>0, <1>3 DEF Ticks
<1>6. routes' \subseteq Nets
  BY <1>1 DEF PassOver
<1> HIDE DEF x, rec, bad
<1>7. x \in Phases \ {"idle", "rendering", "rendered", "fetched"}
  BY <1>2 DEF Phases, Slots
<1>8. /\ tick' \in Ticks /\ tick'.failed \subseteq tick'.tried /\ Answered'
      /\ tick'.phase = x /\ tick'.doc = tick.doc
  BY <1>2, <1>4, <1>5, <1>7, TickOn
<1> QED BY <1>2, <1>6, <1>8

\* The ruleset's half of a tick keeps the types.
LEMMA RulesetHalfTyped ==
    ASSUME Typed,
           SkipRuleset \/ LoadTable \/ LoadFails \/ CheckTable \/ CheckFails
              \/ SyncPeers \/ SyncFails \/ ApplyRoutes \/ RoutesFail \/ RecordRoutes
    PROVE  Typed'
<1>0. /\ tick \in Ticks /\ tick.failed \subseteq tick.tried
      /\ tick.tried \subseteq Parts /\ tick.record \subseteq Nets
      /\ MaxFaults \in Nat /\ "ruleset" \in Parts
  BY TickFields, AgentAssumption DEF Typed, GatewayOK, Parts
<1>a. ASSUME tick' \in Ticks, tick'.failed \subseteq tick'.tried, Answered',
             table' \in Rulesets \cup {None}, lastGood' \in Rulesets \cup {None},
             wg' \in Interfaces, routes' \subseteq Nets, known' \subseteq Nets,
             faults' \in 0..MaxFaults, UNCHANGED <<control, applied, disk, served>>
      PROVE  Typed'
  BY <1>a DEF Typed, GatewayOK, control
<1>b. ASSUME NEW f, Fault(f) PROVE faults' \in 0..MaxFaults
  BY <1>b, <1>0 DEF Fault, Typed, GatewayOK
<1>c. /\ table \in Rulesets \cup {None} /\ lastGood \in Rulesets \cup {None}
      /\ wg \in Interfaces /\ routes \subseteq Nets /\ known \subseteq Nets
      /\ faults \in 0..MaxFaults
  BY DEF Typed, GatewayOK
<1>d. ASSUME NEW x \in Phases \ {"idle", "rendering", "rendered", "fetched"},
             x \in {"loaded", "sync", "routes"} => "ruleset" \in tick.tried,
             tick.phase \notin {"idle", "rendering", "rendered"}, Goto(x)
      PROVE  tick' \in Ticks /\ tick'.failed \subseteq tick'.tried /\ Answered'
  <2>1. tick' = [tick EXCEPT !.phase = x, !.tried = tick.tried, !.failed = tick.failed,
                             !.record = tick.record]
    BY <1>0, <1>d DEF Goto, Ticks
  <2> QED BY <1>0, <1>d, <2>1, TickOn
<1>e. ASSUME tick.phase \in {"loaded", "sync", "routes"}, Fail("ruleset", "dns")
      PROVE  tick' \in Ticks /\ tick'.failed \subseteq tick'.tried /\ Answered'
  <2>1. tick' = [tick EXCEPT !.phase = "dns", !.tried = tick.tried,
                             !.failed = tick.failed \cup {"ruleset"}, !.record = tick.record]
    BY <1>0, <1>e DEF Fail, Ticks
  <2>2. tick.failed \cup {"ruleset"} \in SUBSET tick.tried
    BY <1>0, <1>e DEF Typed, Answered
  <2>3. "dns" \in Phases \ {"idle", "rendering", "rendered", "fetched"}
    BY DEF Phases, Slots
  <2>4. /\ tick' \in Ticks /\ tick'.phase = "dns" /\ tick'.doc = tick.doc
        /\ tick'.tried = tick.tried /\ tick'.failed = tick.failed \cup {"ruleset"}
    BY <1>0, <2>1, <2>2, <2>3 DEF Ticks
  <2> QED BY <1>e, <2>2, <2>4 DEF Typed, Answered
<1>1. CASE SkipRuleset
  BY <1>1, <1>a, <1>c, <1>d DEF SkipRuleset, Phases, Slots, dataplane
<1>2. CASE LoadTable
  <2>1. tick' = [tick EXCEPT !.phase = "loaded", !.tried = {"ruleset"},
                             !.failed = tick.failed, !.record = tick.record]
    BY <1>0, <1>2 DEF LoadTable, Ticks
  <2>2. tick.failed \subseteq {"ruleset"}
    BY <1>0, <1>2 DEF LoadTable, Typed, Answered
  <2>3. tick' \in Ticks /\ tick'.failed \subseteq tick'.tried /\ Answered'
    <3>1. "loaded" \in Phases \ {"idle", "rendering", "rendered", "fetched"}
      BY DEF Phases
    <3>2. /\ {"ruleset"} \in SUBSET Parts /\ tick.record \in SUBSET Nets
          /\ tick.failed \in SUBSET {"ruleset"}
      BY <1>0, <2>2
    <3>3. /\ tick' \in Ticks /\ tick'.phase = "loaded" /\ tick'.doc = tick.doc
          /\ tick'.tried = {"ruleset"} /\ tick'.failed = tick.failed
      BY <1>0, <2>1, <3>1, <3>2 DEF Ticks
    <3> QED BY <1>2, <3>2, <3>3 DEF LoadTable, Typed, Answered
  <2> QED BY <1>2, <1>a, <1>c, <2>3 DEF LoadTable, Typed, Answered
<1>3. CASE LoadFails
  <2>1. tick' = [tick EXCEPT !.phase = "dns", !.tried = {"ruleset"},
                             !.failed = {"ruleset"}, !.record = tick.record]
    BY <1>0, <1>3 DEF LoadFails, Ticks
  <2>2. tick' \in Ticks /\ tick'.failed \subseteq tick'.tried /\ Answered'
    <3>1. "dns" \in Phases \ {"idle", "rendering", "rendered", "fetched"}
      BY DEF Phases, Slots
    <3>2. {"ruleset"} \in SUBSET Parts /\ tick.record \in SUBSET Nets
      BY <1>0
    <3>3. /\ tick' \in Ticks /\ tick'.phase = "dns" /\ tick'.doc = tick.doc
          /\ tick'.tried = {"ruleset"} /\ tick'.failed = {"ruleset"}
      BY <1>0, <2>1, <3>1, <3>2 DEF Ticks
    <3> QED BY <1>3, <3>3 DEF LoadFails, Typed, Answered
  <2>3. table' \in Rulesets \cup {None} /\ faults' \in 0..MaxFaults
    BY <1>3, <1>b, <1>c DEF LoadFails, Typed, Answered
  <2> QED BY <1>3, <1>a, <1>c, <2>2, <2>3 DEF LoadFails
<1>4. CASE CheckTable
  <2>1. tick' \in Ticks /\ tick'.failed \subseteq tick'.tried /\ Answered'
    BY <1>4, <1>d DEF CheckTable, Phases, Typed, Answered
  <2> QED BY <1>4, <1>a, <1>c, <2>1 DEF CheckTable, Typed, Answered
<1>5. CASE CheckFails
  <2>1. tick' \in Ticks /\ tick'.failed \subseteq tick'.tried /\ Answered'
    BY <1>5, <1>e DEF CheckFails
  <2>2. table' \in Rulesets \cup {None} /\ faults' \in 0..MaxFaults
    BY <1>5, <1>b, <1>c DEF CheckFails
  <2> QED BY <1>5, <1>a, <1>c, <2>1, <2>2 DEF CheckFails
<1>6. CASE SyncPeers
  <2>1. tick' \in Ticks /\ tick'.failed \subseteq tick'.tried /\ Answered'
    BY <1>6, <1>d DEF SyncPeers, Phases, Typed, Answered
  <2> QED BY <1>6, <1>a, <1>c, <2>1 DEF SyncPeers, Typed, Answered
<1>7. CASE SyncFails
  <2>1. tick' \in Ticks /\ tick'.failed \subseteq tick'.tried /\ Answered'
    BY <1>7, <1>e, TickEnds DEF SyncFails, Escape
  <2>2. wg' \in Interfaces /\ faults' \in 0..MaxFaults
    BY <1>7, <1>b, <1>c DEF SyncFails, Typed, Answered
  <2> QED BY <1>7, <1>a, <1>c, <2>1, <2>2 DEF SyncFails
<1>8. CASE ApplyRoutes
  <2>1. /\ routes' \subseteq Nets
        /\ tick' \in Ticks /\ tick'.failed \subseteq tick'.tried /\ Answered'
    BY <1>8, PassTyped DEF ApplyRoutes
  <2> QED BY <1>8, <1>a, <1>c, <2>1 DEF ApplyRoutes
<1>9. CASE RoutesFail
  <2>1. /\ routes' \subseteq Nets
        /\ tick' \in Ticks /\ tick'.failed \subseteq tick'.tried /\ Answered'
    <3>1. CASE \E d : \E a \in SUBSET ToAdd : PassOver(d, a)
      BY <1>9, <3>1, PassTyped DEF RoutesFail
    <3>2. CASE Fail("ruleset", "dns") /\ UNCHANGED routes
      BY <1>9, <1>c, <1>e, <3>2 DEF RoutesFail
    <3>3. CASE Escape /\ \E d \in SUBSET ToRemove, a \in SUBSET (ToAdd \ Taken) :
                            routes' = (routes \ d) \cup a
      <4>1. ToAdd \subseteq Nets
        BY <1>0, TickFields DEF ToAdd
      <4> QED BY <1>c, <3>3, <4>1, TickEnds DEF Escape
    <3>4. \/ \E a \in SUBSET (ToAdd \ Taken) : PassOver(ToRemove, a)
          \/ Fail("ruleset", "dns") /\ UNCHANGED routes
          \/ \E d \in SUBSET ToRemove : PassOver(d, ToAdd \ Taken)
          \/ Escape /\ \E d \in SUBSET ToRemove, a \in SUBSET (ToAdd \ Taken) :
                            routes' = (routes \ d) \cup a
      BY <1>9 DEF RoutesFail
    <3>5. ASSUME NEW d, NEW a \in SUBSET (ToAdd \ Taken), PassOver(d, a)
          PROVE  \E e : \E b \in SUBSET ToAdd : PassOver(e, b)
      <4>1. a \in SUBSET ToAdd
        OBVIOUS
      <4> QED BY <3>5, <4>1
    <3> QED BY <3>1, <3>2, <3>3, <3>4, <3>5
  <2>2. faults' \in 0..MaxFaults
    BY <1>9, <1>b DEF RoutesFail
  <2> QED BY <1>9, <1>a, <1>c, <2>1, <2>2 DEF RoutesFail
<1>10. CASE RecordRoutes
  <2>1. tick' \in Ticks /\ tick'.failed \subseteq tick'.tried /\ Answered'
    BY <1>10, <1>d DEF RecordRoutes, Phases, Slots
  <2> QED BY <1>0, <1>10, <1>a, <1>c, <2>1 DEF RecordRoutes
<1> QED BY <1>1, <1>2, <1>3, <1>4, <1>5, <1>6, <1>7, <1>8, <1>9, <1>10

\* The files' half, the report, and what happens to the gateway keep the types.
LEMMA RestOfTickTyped ==
    ASSUME Typed,
           \/ \E s \in Slots : SkipFile(s) \/ ApplyFile(s) \/ FileFails(s)
           \/ Report \/ ReportLost \/ Crash \/ Reboot \/ HandEdit
    PROVE  Typed'
<1>0. /\ tick \in Ticks /\ tick.failed \subseteq tick.tried /\ applied \in Memories
      /\ tick.tried \subseteq Parts
      /\ tick.doc.ruleset \in Rulesets \cup {None}
      /\ tick.doc.file \in [Slots -> Docs \cup {None}]
      /\ MaxFaults \in Nat /\ faults \in 0..MaxFaults
  BY TickFields, AgentAssumption DEF Typed, GatewayOK
<1>a. ASSUME tick' \in Ticks, tick'.failed \subseteq tick'.tried, Answered',
             applied' \in Memories, wg' \in Interfaces, table' \in Rulesets \cup {None},
             routes' \subseteq Nets, faults' \in 0..MaxFaults,
             disk' \in [Slots -> Docs \cup {None}], served' \in [Slots -> Docs \cup {None}],
             UNCHANGED <<policy, changes, lastGood, known>>
      PROVE  Typed'
  BY <1>a DEF Typed, GatewayOK
<1>b. ASSUME NEW f, Fault(f) PROVE faults' \in 0..MaxFaults
  BY <1>b, <1>0 DEF Fault
<1>c. /\ table \in Rulesets \cup {None} /\ wg \in Interfaces /\ routes \subseteq Nets
      /\ disk \in [Slots -> Docs \cup {None}] /\ served \in [Slots -> Docs \cup {None}]
  BY DEF Typed, GatewayOK
<1>d. Outcome \in Memories
  BY <1>0 DEF Outcome, Memories
<1>1. ASSUME NEW s \in Slots, SkipFile(s) PROVE Typed'
  <2>1. After[s] \in {"proxy", "report"} /\ After[s] \in Phases
    BY DEF After, Slots, Phases
  <2>2. tick' = [tick EXCEPT !.phase = After[s]] /\ tick.phase = s
    BY <1>1 DEF SkipFile, Goto
  <2>3. /\ tick' \in Ticks /\ tick'.phase = After[s] /\ tick'.doc = tick.doc
        /\ tick'.tried = tick.tried /\ tick'.failed = tick.failed
    BY <1>0, <2>1, <2>2 DEF Ticks
  <2>4. Answered'
    BY <2>1, <2>2, <2>3 DEF Typed, Answered, Slots
  <2> QED BY <1>0, <1>1, <1>a, <1>c, <2>3, <2>4 DEF SkipFile, control, dataplane
<1>2. ASSUME NEW s \in Slots, ApplyFile(s) PROVE Typed'
  <2>1. After[s] \in {"proxy", "report"} /\ After[s] \in Phases /\ s \in Parts
    BY DEF After, Slots, Phases, Parts
  <2>2. tick' = [tick EXCEPT !.phase = After[s], !.tried = tick.tried \cup {s}] /\ tick.phase = s
    BY <1>2 DEF ApplyFile
  <2>3. /\ tick' \in Ticks /\ tick'.phase = After[s] /\ tick'.doc = tick.doc
        /\ tick'.tried = tick.tried \cup {s} /\ tick'.failed = tick.failed
    BY <1>0, <2>1, <2>2 DEF Ticks
  <2>4. Answered'
    BY <2>1, <2>2, <2>3 DEF Typed, Answered, Slots
  <2>5. disk' \in [Slots -> Docs \cup {None}] /\ served' \in [Slots -> Docs \cup {None}]
    BY <1>0, <1>2, <1>c DEF ApplyFile
  <2> QED BY <1>0, <1>2, <1>a, <1>c, <2>3, <2>4, <2>5 DEF ApplyFile, control
<1>3. ASSUME NEW s \in Slots, FileFails(s) PROVE Typed'
  <2>1. After[s] \in {"proxy", "report"} /\ After[s] \in Phases /\ s \in Parts
    BY DEF After, Slots, Phases, Parts
  <2>2. \/ Escape
        \/ /\ tick.phase = s
           /\ tick' = [tick EXCEPT !.phase = After[s], !.tried = tick.tried \cup {s},
                                   !.failed = tick.failed \cup {s}]
    BY <1>3 DEF FileFails
  <2>3. tick' \in Ticks /\ tick'.failed \subseteq tick'.tried /\ Answered'
    <3>1. CASE Escape
      BY <3>1, TickEnds DEF Escape
    <3>2. CASE ~Escape
      <4>1. /\ tick' \in Ticks /\ tick'.phase = After[s] /\ tick'.doc = tick.doc
            /\ tick'.tried = tick.tried \cup {s} /\ tick'.failed = tick.failed \cup {s}
        <5>1. tick' = [tick EXCEPT !.phase = After[s], !.tried = tick.tried \cup {s},
                                   !.failed = tick.failed \cup {s}]
          BY <2>2, <3>2
        <5>2. /\ tick.tried \cup {s} \in SUBSET Parts
              /\ tick.failed \cup {s} \in SUBSET Parts
          BY <1>0, <2>1
        <5> QED BY <1>0, <2>1, <5>1, <5>2 DEF Ticks
      <4>2. tick.phase = s
        BY <2>2, <3>2
      <4>3. Answered'
        BY <2>1, <4>1, <4>2 DEF Typed, Answered, Slots
      <4> QED BY <1>0, <4>1, <4>3
    <3> QED BY <3>1, <3>2
  <2>4. /\ disk' \in [Slots -> Docs \cup {None}] /\ served' \in [Slots -> Docs \cup {None}]
        /\ faults' \in 0..MaxFaults /\ applied' \in Memories
    BY <1>0, <1>3, <1>b, <1>c, RestTyped DEF FileFails
  <2> QED BY <1>3, <1>a, <1>c, <2>3, <2>4 DEF FileFails, control
<1>4. CASE Report
  BY <1>0, <1>4, <1>a, <1>c, <1>d, TickEnds DEF Report, dataplane
<1>5. CASE ReportLost
  BY <1>5, <1>a, <1>b, <1>c, <1>d, TickEnds DEF ReportLost, dataplane, control
<1>6. CASE Crash
  BY <1>6, <1>a, <1>b, <1>c, RestTyped, TickEnds DEF Crash, dataplane, control
<1>7. CASE Reboot
  <2>1. NoPeers \in Interfaces
    <3>1. NoPeers \in [{} -> SUBSET Nets]
      BY DEF NoPeers
    <3> QED BY <3>1 DEF Interfaces
  <2> QED BY <1>7, <1>a, <1>b, <1>c, <2>1, RestTyped, TickEnds DEF Reboot, control
<1>8. CASE HandEdit
  BY <1>0, <1>8, <1>a, <1>b, <1>c DEF HandEdit, control, Typed, Answered
<1> QED BY <1>1, <1>2, <1>3, <1>4, <1>5, <1>6, <1>7, <1>8

\* The types are an invariant.
LEMMA TypedStep == Typed /\ [Next]_vars => Typed'
<1> SUFFICES ASSUME Typed, [Next]_vars PROVE Typed'
  OBVIOUS
<1>1. CASE Requests
  <2>1. GatewayOK'
    BY <1>1, RequestsTyped DEF Typed
  <2>2. UNCHANGED tick
    BY <1>1 DEF Requests, SetState, DeletePeer, SetMember, Register, SetRoute, SetFile, Change
  <2> QED BY <2>1, <2>2 DEF Typed, Answered
<1>2. CASE Work
  BY <1>2, PollTyped, RulesetHalfTyped, RestOfTickTyped DEF Work
<1>3. CASE Misfortune
  BY <1>3, RulesetHalfTyped, RestOfTickTyped DEF Misfortune
<1>4. CASE UNCHANGED vars
  BY <1>4 DEF vars, control, dataplane, Typed, GatewayOK, Answered
<1> QED BY <1>1, <1>2, <1>3, <1>4 DEF Next

LEMMA TypedInvariant == Spec => []Typed
<1>1. Init => Typed
  BY InitTyped DEF Init, Typed, Answered, Resting, NoState
<1> QED BY <1>1, TypedStep, PTL DEF Spec

-----------------------------------------------------------------------------
(* The control plane's records                                             *)

\* A version that is stored stays stored, and what is rendered is stored.
LEMMA StoreKeeps ==
    ASSUME NEW d
    PROVE  DOMAIN StoreVersion(d) = DOMAIN versions \cup {d}
BY DEF StoreVersion

\* What a step may do to the versions.
LEMMA VersionSteps ==
    ASSUME [Next]_vars
    PROVE  \/ UNCHANGED <<versions, order, policy>>
           \/ \E kind, pol : Change(kind, pol)
           \/ Report /\ \E success \in BOOLEAN : MarkReported(tick.doc.ruleset, success)
           \/ Report /\ UNCHANGED <<versions, order, policy>>
<1>1. CASE Requests
  BY <1>1 DEF Requests, SetState, DeletePeer, SetMember, Register, SetRoute, SetFile
<1>2. CASE Report
  <2>1. ("ruleset" \notin tick.failed) \in BOOLEAN
    OBVIOUS
  <2> QED BY <1>2, <2>1 DEF Report
<1>3. CASE Work /\ ~Report
  <2>1. UNCHANGED control
    BY <1>3 DEF Work, Poll, Render, Collect, SkipRuleset, LoadTable, CheckTable, SyncPeers,
                ApplyRoutes, RecordRoutes, SkipFile, ApplyFile
  <2> QED BY <2>1 DEF control
<1>4. CASE Misfortune
  <2>1. UNCHANGED control
    BY <1>4 DEF Misfortune, LoadFails, CheckFails, SyncFails, RoutesFail, FileFails,
                ReportLost, Crash, Reboot, HandEdit
  <2> QED BY <2>1 DEF control
<1>5. CASE UNCHANGED vars
  BY <1>5 DEF vars, control
<1> QED BY <1>1, <1>2, <1>3, <1>4, <1>5 DEF Next

\* A version that is stamped now is the latest.
LEMMA StampedLast ==
    ASSUME VersionsOK, NEW d \in DOMAIN versions,
           order' = {pair \in order : pair[1] # d} \cup {<<e, d>> : e \in Stamped \cup {d}}
    PROVE  /\ order' \subseteq (DOMAIN versions) \X (DOMAIN versions)
           /\ \A e, f \in Stamped' : <<e, f>> \in order' \/ <<f, e>> \in order'
           /\ \A e, f \in Stamped' : <<e, f>> \in order' /\ <<f, e>> \in order' => e = f
<1>1. /\ \A pair \in order : pair \in (DOMAIN versions) \X (DOMAIN versions)
      /\ Stamped \subseteq DOMAIN versions
  BY DEF VersionsOK, Stamped
<1>2. /\ \A e, f \in Stamped : <<e, f>> \in order \/ <<f, e>> \in order
      /\ \A e, f \in Stamped : <<e, f>> \in order /\ <<f, e>> \in order => e = f
  BY DEF VersionsOK
<1>3. \A e, f : <<e, f>> \in order'
                  <=> \/ <<e, f>> \in order /\ e # d
                      \/ e \in Stamped \cup {d} /\ f = d
  BY <1>1
<1>4. Stamped' \subseteq Stamped \cup {d}
  BY <1>1 DEF Stamped
<1>5. order' \subseteq (DOMAIN versions) \X (DOMAIN versions)
  BY <1>1
<1>6. ASSUME NEW e \in Stamped', NEW f \in Stamped'
      PROVE  <<e, f>> \in order' \/ <<f, e>> \in order'
  BY <1>2, <1>3, <1>4
<1>7. ASSUME NEW e \in Stamped', NEW f \in Stamped', <<e, f>> \in order', <<f, e>> \in order'
      PROVE  e = f
  BY <1>2, <1>3, <1>4, <1>7
<1> QED
  BY <1>5, <1>6, <1>7

\* Every part of the gateway, of the tick, of the agent's memory and of the control
\* plane's records stays in range, whatever fails and however torn a poll is: what
\* is in the kernel, on disk and in a daemon was rendered, a part only fails that
\* was tried, and the versions that have an applied_at are in one order.
THEOREM GatewayTypeCorrect == Spec => []TypeOK
<1>1. Init => VersionsOK
  <2> SUFFICES ASSUME Init PROVE VersionsOK
    OBVIOUS
  <2>1. policy \in Policies
    BY AgentAssumption DEF Init
  <2> QED
    BY <2>1, DerivedTyped DEF Init, VersionsOK, Stamped
<1>2. VersionsOK /\ Typed /\ [Next]_vars => VersionsOK'
  <2> SUFFICES ASSUME VersionsOK, Typed, Typed', [Next]_vars PROVE VersionsOK'
    BY TypedStep
  <2>1. ASSUME NEW kind, NEW pol, Change(kind, pol) PROVE VersionsOK'
    <3>1. /\ versions' = StoreVersion(Ruleset(pol)) /\ UNCHANGED order /\ policy' = pol
      BY <2>1 DEF Change
    <3>2. pol \in Policies
      BY <3>1 DEF Typed, GatewayOK
    <3>3. Ruleset(pol) \in Rulesets
      BY <3>2, DerivedTyped
    <3>4. DOMAIN versions' = DOMAIN versions \cup {Ruleset(pol)} /\ Stamped' = Stamped
      BY <3>1, StoreKeeps DEF Stamped
    <3>5. \A d \in DOMAIN versions' : versions'[d] \in {"pending", "applied", "failed", "superseded"}
      BY <3>1 DEF StoreVersion, VersionsOK
    <3> QED
      BY <3>1, <3>3, <3>4, <3>5 DEF VersionsOK
  <2>2. ASSUME Report, NEW success \in BOOLEAN, MarkReported(tick.doc.ruleset, success)
        PROVE  VersionsOK'
    <3> DEFINE d == tick.doc.ruleset
    <3>1. d \in Rulesets
      BY <2>2 DEF Report, Typed, Answered
    <3>2. /\ DOMAIN versions \subseteq DOMAIN versions' /\ DOMAIN versions' \subseteq Rulesets
          /\ \A e \in DOMAIN versions' :
               versions'[e] \in {"pending", "applied", "failed", "superseded"}
      BY <2>2, <3>1 DEF MarkReported, VersionsOK
    <3>3. CASE UNCHANGED order
      <4>1. Stamped' = Stamped
        BY <3>3 DEF Stamped
      <4> QED
        BY <3>2, <3>3, <4>1 DEF VersionsOK
    <3>4. CASE d \in DOMAIN versions
               /\ order' = {pair \in order : pair[1] # d} \cup {<<e, d>> : e \in Stamped \cup {d}}
      BY <3>2, <3>4, StampedLast DEF VersionsOK
    <3> QED
      BY <2>2, <3>3, <3>4 DEF MarkReported
  <2>3. CASE UNCHANGED <<versions, order>>
    <3>1. Stamped' = Stamped
      BY <2>3 DEF Stamped
    <3> QED
      BY <2>3, <3>1 DEF VersionsOK
  <2> QED
    BY <2>1, <2>2, <2>3, VersionSteps
<1>3. Typed /\ VersionsOK => TypeOK
  BY DEF Typed, TypeOK
<1> QED
  BY <1>1, <1>2, <1>3, TypedInvariant, PTL DEF Spec

-----------------------------------------------------------------------------
(* Routes and the peers that carry them                                    *)

\* The routes and the interface of one policy fit: the control plane leaves out
\* the routes of peers it leaves out.
LEMMA RoutesFit ==
    ASSUME NEW pol
    PROVE  Carried(Routes(pol), Interface(pol))
<1> SUFFICES ASSUME NEW n \in Routes(pol)
             PROVE  \E p \in DOMAIN Interface(pol) : n \in Interface(pol)[p]
  BY DEF Carried
<1>1. n \in Nets /\ pol.via[n] \in PeersIn(pol, Present)
  BY DEF Routes
<1>2. DOMAIN Interface(pol) = PeersIn(pol, Present)
  BY DEF Interface
<1>3. n \in Interface(pol)[pol.via[n]]
  BY <1>1 DEF Interface
<1> QED BY <1>1, <1>2, <1>3

\* The carriers stay first through every step.
LEMMA CarriersStayFirst == Typed /\ CarriersFirst /\ [Next]_vars => CarriersFirst'
<1> SUFFICES ASSUME Typed, CarriersFirst, [Next]_vars PROVE CarriersFirst'
  OBVIOUS
<1>0. tick \in Ticks /\ Resting.phase = "idle"
  BY DEF Typed, GatewayOK, Resting
<1>a. ASSUME tick'.phase \notin {"fetched", "loaded", "sync", "routes"} PROVE CarriersFirst'
  BY <1>a DEF CarriersFirst
<1>1. CASE Requests
  BY <1>1 DEF Requests, SetState, DeletePeer, SetMember, Register, SetRoute, SetFile, Change,
              dataplane, CarriersFirst, Carried
<1>2. CASE Work
  <2>1. CASE Poll \/ Render \/ SkipRuleset \/ RecordRoutes \/ Report
    BY <1>0, <1>a, <2>1 DEF Poll, Render, SkipRuleset, RecordRoutes, Report, Goto, Ticks
  <2>2. CASE Collect
    <3>1. /\ tick'.phase = "fetched" /\ tick'.doc.routes = Routes(policy)
          /\ tick'.doc.peers = Interface(policy)
      BY <1>0, <2>2 DEF Collect, Ticks, Answers
    <3> HIDE DEF Collect
    <3> QED BY <3>1, RoutesFit DEF CarriersFirst
  <2>3. CASE LoadTable
    <3>1. tick.phase = "fetched" /\ tick'.phase = "loaded" /\ tick'.doc = tick.doc
      BY <1>0, <2>3 DEF LoadTable, Ticks
    <3> QED BY <3>1 DEF CarriersFirst, Carried
  <2>4. CASE CheckTable
    <3>1. tick.phase = "loaded" /\ tick'.phase = "sync" /\ tick'.doc = tick.doc
      BY <1>0, <2>4 DEF CheckTable, Goto, Ticks
    <3> QED BY <3>1 DEF CarriersFirst, Carried
  <2>5. CASE SyncPeers
    <3>1. /\ tick.phase = "sync" /\ tick'.phase = "routes" /\ tick'.doc = tick.doc
          /\ wg' = tick.doc.peers
      BY <1>0, <2>5 DEF SyncPeers, Goto, Ticks
    <3> QED BY <3>1 DEF CarriersFirst, Carried
  <2>6. CASE ApplyRoutes
    BY <1>0, <1>a, <2>6 DEF ApplyRoutes, PassOver, Ticks
  <2>7. ASSUME NEW s \in Slots, SkipFile(s) \/ ApplyFile(s) PROVE CarriersFirst'
    <3>1. After[s] \in {"proxy", "report"}
      BY DEF After, Slots
    <3> QED BY <1>0, <1>a, <2>7, <3>1 DEF SkipFile, ApplyFile, Goto, Ticks
  <2> QED BY <1>2, <2>1, <2>2, <2>3, <2>4, <2>5, <2>6, <2>7 DEF Work
<1>3. CASE Misfortune
  <2>1. CASE LoadFails
    BY <1>0, <1>a, <2>1 DEF LoadFails, Ticks
  <2>2. CASE CheckFails
    BY <1>0, <1>a, <2>2 DEF CheckFails, Fail, Ticks
  <2>3. CASE SyncFails
    BY <1>0, <1>a, <2>3 DEF SyncFails, Fail, Escape, Ticks
  <2>4. CASE RoutesFail
    BY <1>0, <1>a, <2>4 DEF RoutesFail, PassOver, Fail, Escape, Ticks
  <2>5. ASSUME NEW s \in Slots, FileFails(s) PROVE CarriersFirst'
    <3>1. After[s] \in {"proxy", "report"}
      BY DEF After, Slots
    <3> QED BY <1>0, <1>a, <2>5, <3>1 DEF FileFails, Escape, Ticks
  <2>6. CASE ReportLost \/ Crash \/ Reboot
    BY <1>0, <1>a, <2>6 DEF ReportLost, Crash, Reboot
  <2>7. CASE HandEdit
    BY <2>7 DEF HandEdit, CarriersFirst, Carried
  <2> QED BY <1>3, <2>1, <2>2, <2>3, <2>4, <2>5, <2>6, <2>7 DEF Misfortune
<1>4. CASE UNCHANGED vars
  BY <1>4 DEF vars, dataplane, CarriersFirst, Carried
<1> QED BY <1>1, <1>2, <1>3, <1>4 DEF Next

\* A route is only added by a pass over the routes, and then it is a route of the
\* tick.
LEMMA AddedRoutes ==
    ASSUME Typed, [Next]_vars, NEW n \in routes' \ routes
    PROVE  tick.phase = "routes" /\ n \in tick.doc.routes
<1>1. CASE ApplyRoutes
  BY <1>1 DEF ApplyRoutes, PassOver, ToAdd
<1>2. CASE RoutesFail
  BY <1>2 DEF RoutesFail, PassOver, ToAdd
<1>3. CASE ~ApplyRoutes /\ ~RoutesFail
  <2>1. CASE Reboot
    BY <2>1 DEF Reboot
  <2>2. CASE ~Reboot
    <3>1. UNCHANGED routes
      <4>1. CASE Requests
        BY <4>1 DEF Requests, SetState, DeletePeer, SetMember, Register, SetRoute, SetFile,
                    Change, dataplane
      <4>2. CASE Work
        BY <1>3, <4>2 DEF Work, Poll, Render, Collect, SkipRuleset, LoadTable, CheckTable,
                          SyncPeers, RecordRoutes, SkipFile, ApplyFile, Report, dataplane
      <4>3. CASE Misfortune
        BY <1>3, <2>2, <4>3 DEF Misfortune, LoadFails, CheckFails, SyncFails, FileFails,
                                ReportLost, Crash, HandEdit, dataplane
      <4>4. CASE UNCHANGED vars
        BY <4>4 DEF vars, dataplane
      <4> QED BY <4>1, <4>2, <4>3, <4>4 DEF Next
    <3> QED BY <3>1
  <2> QED BY <2>1, <2>2
<1> QED BY <1>1, <1>2, <1>3

\* reconcile's order: a route into the tunnel is added only when the peer that
\* carries it is on the interface, whatever fails and however torn a poll is.
THEOREM CarriersComeFirst == Spec => RoutesFollowWireGuard
<1>1. Init => CarriersFirst
  BY DEF Init, CarriersFirst, Resting
<1>2. Typed /\ CarriersFirst /\ [Next]_vars
        => \A n \in routes' \ routes : \E p \in DOMAIN wg : n \in wg[p]
  BY AddedRoutes DEF CarriersFirst, Carried
<1>3. Typed /\ CarriersFirst /\ [Next]_vars
        => [\A n \in routes' \ routes : \E p \in DOMAIN wg : n \in wg[p]]_vars
  BY <1>2
<1> QED BY <1>1, <1>3, CarriersStayFirst, TypedInvariant, PTL DEF Spec, RoutesFollowWireGuard

-----------------------------------------------------------------------------
(* What the agent remembers                                                *)

Sound == MemoryIsSound /\ RoutesOnRecord

\* A request changes nothing at the gateway; nor does the progress of a poll.
LEMMA SoundWhilePolling ==
    ASSUME Typed, Sound, Requests \/ Poll \/ Render \/ Collect \/ UNCHANGED vars
    PROVE  Sound'
<1>0. tick \in Ticks
  BY DEF Typed, GatewayOK
<1>1. CASE Requests \/ UNCHANGED vars
  <2>1. UNCHANGED <<tick, applied, table, lastGood, routes, known>>
    BY <1>1 DEF Requests, SetState, DeletePeer, SetMember, Register, SetRoute, SetFile, Change,
                dataplane, vars
  <2> QED BY <2>1 DEF Sound, MemoryIsSound, RoutesOnRecord, Remembered
<1>2. CASE Poll \/ Render \/ Collect
  <2>1. /\ tick.phase \in {"idle", "rendering", "rendered"}
        /\ tick'.phase \in {"rendering", "rendered", "fetched"}
        /\ tick'.tried = tick.tried /\ tick'.failed = tick.failed
    BY <1>0, <1>2 DEF Poll, Render, Collect, Ticks, Answers
  <2>2. UNCHANGED <<applied, table, lastGood, routes, known>>
    BY <1>2 DEF Poll, Render, Collect, dataplane
  <2> QED BY <2>1, <2>2 DEF Sound, MemoryIsSound, RoutesOnRecord, Remembered
<1> QED BY <1>1, <1>2

\* The ruleset's half of a tick, when only what is caught goes wrong.
LEMMA SoundWhileApplying ==
    ASSUME Faults \subseteq CaughtFaults, Typed, Sound,
           SkipRuleset \/ LoadTable \/ LoadFails \/ CheckTable \/ CheckFails
              \/ SyncPeers \/ SyncFails \/ ApplyRoutes \/ RoutesFail \/ RecordRoutes
    PROVE  Sound'
<1>0. tick \in Ticks /\ tick.failed \subseteq tick.tried
  BY DEF Typed, GatewayOK
<1>1. CASE SkipRuleset
  <2>1. /\ tick.phase = "fetched" /\ tick'.phase = "dns"
        /\ tick'.tried = tick.tried /\ tick'.failed = tick.failed
        /\ UNCHANGED <<applied, table, lastGood, routes, known>>
    BY <1>0, <1>1 DEF SkipRuleset, Goto, Ticks, dataplane
  <2> QED BY <2>1 DEF Sound, MemoryIsSound, RoutesOnRecord, Remembered
<1>2. CASE LoadTable
  <2>1. /\ tick.phase = "fetched" /\ tick'.phase = "loaded" /\ tick'.doc = tick.doc
        /\ tick'.tried = {"ruleset"} /\ tick'.failed = tick.failed
        /\ table' = tick.doc.ruleset /\ UNCHANGED <<applied, lastGood, routes, known>>
    BY <1>0, <1>2 DEF LoadTable, Ticks
  <2> QED BY <2>1 DEF Sound, MemoryIsSound, RoutesOnRecord, Remembered
<1>3. CASE LoadFails
  <2>1. /\ tick.phase = "fetched" /\ tick'.phase = "dns"
        /\ tick'.tried = {"ruleset"} /\ tick'.failed = {"ruleset"}
        /\ UNCHANGED <<applied, lastGood, routes, known>>
    BY <1>0, <1>3 DEF LoadFails, Ticks
  <2>2. UNCHANGED table
    BY <1>3 DEF LoadFails, Fault, CaughtFaults
  <2> QED BY <2>1, <2>2 DEF Sound, MemoryIsSound, RoutesOnRecord, Remembered
<1>4. CASE CheckTable
  <2>1. /\ tick.phase = "loaded" /\ tick'.phase = "sync" /\ tick'.doc = tick.doc
        /\ tick'.tried = tick.tried /\ tick'.failed = tick.failed
        /\ lastGood' = tick.doc.ruleset /\ UNCHANGED <<applied, table, routes, known>>
    BY <1>0, <1>4 DEF CheckTable, Goto, Ticks
  <2> QED BY <2>1 DEF Sound, MemoryIsSound, RoutesOnRecord
<1>5. CASE CheckFails
  <2>1. /\ tick.phase = "loaded" /\ tick'.phase = "dns"
        /\ tick'.tried = tick.tried /\ tick'.failed = tick.failed \cup {"ruleset"}
        /\ UNCHANGED <<applied, lastGood, routes, known>>
    BY <1>0, <1>5 DEF CheckFails, Fail, Ticks, Parts
  <2>2. table' = lastGood
    BY <1>5 DEF CheckFails, Fault, CaughtFaults
  <2> QED BY <2>1, <2>2 DEF Sound, MemoryIsSound, RoutesOnRecord, Remembered
<1>6. CASE SyncPeers
  <2>1. /\ tick.phase = "sync" /\ tick'.phase = "routes" /\ tick'.doc = tick.doc
        /\ tick'.tried = tick.tried /\ tick'.failed = tick.failed
        /\ UNCHANGED <<applied, table, lastGood, routes, known>>
    BY <1>0, <1>6 DEF SyncPeers, Goto, Ticks
  <2> QED BY <2>1 DEF Sound, MemoryIsSound, RoutesOnRecord
<1>7. CASE SyncFails \/ RoutesFail
  BY <1>7 DEF SyncFails, RoutesFail, Fault, CaughtFaults
<1>8. CASE ApplyRoutes
  <2>1. tick.phase = "routes" /\ routes \subseteq known
    BY <1>8 DEF ApplyRoutes, Sound, RoutesOnRecord
  <2>2. ToAdd \ Taken = ToAdd
    BY <2>1 DEF ToAdd, Taken
  <2>3. PassOver(ToRemove, ToAdd)
    BY <1>8, <2>2 DEF ApplyRoutes
  <2>4. /\ tick'.phase = IF ToRemove \cup ToAdd = {} THEN "dns" ELSE "record"
        /\ tick'.record = (known \ ToRemove) \cup ToAdd /\ tick'.doc = tick.doc
        /\ tick'.tried = tick.tried /\ tick'.failed = tick.failed
    BY <1>0, <2>3 DEF PassOver, Ticks
  <2>5. routes' = (routes \ ToRemove) \cup ToAdd
    BY <2>3 DEF PassOver
  <2>6. UNCHANGED <<applied, table, lastGood, known>>
    BY <1>8 DEF ApplyRoutes
  <2>7. MemoryIsSound'
    BY <2>1, <2>4, <2>6 DEF Sound, MemoryIsSound
  <2>8. RoutesOnRecord'
    BY <2>1, <2>4, <2>5, <2>6 DEF RoutesOnRecord
  <2> QED BY <2>7, <2>8 DEF Sound
<1>9. CASE RecordRoutes
  <2>1. /\ tick.phase = "record" /\ tick'.phase = "dns" /\ tick'.doc = tick.doc
        /\ tick'.tried = tick.tried /\ tick'.failed = tick.failed
        /\ known' = tick.record /\ UNCHANGED <<applied, table, lastGood, routes>>
    BY <1>0, <1>9 DEF RecordRoutes, Goto, Ticks
  <2> QED BY <2>1 DEF Sound, MemoryIsSound, RoutesOnRecord
<1> QED BY <1>1, <1>2, <1>3, <1>4, <1>5, <1>6, <1>7, <1>8, <1>9

\* The rest of a tick: a tick that ends remembers a ruleset that is live, or nothing.
LEMMA SoundToTheEnd ==
    ASSUME Faults \subseteq CaughtFaults, Typed, Sound,
           \/ \E s \in Slots : SkipFile(s) \/ ApplyFile(s) \/ FileFails(s)
           \/ Report \/ ReportLost \/ Crash \/ Reboot \/ HandEdit
    PROVE  Sound'
<1>0. tick \in Ticks /\ tick.failed \subseteq tick.tried
  BY DEF Typed, GatewayOK
<1>a. ASSUME tick' = Resting, Remembered', UNCHANGED <<routes, known>>,
             tick.phase # "record"
      PROVE  Sound'
  BY <1>a DEF Resting, Sound, MemoryIsSound, RoutesOnRecord
<1>b. ASSUME applied' = Forgotten PROVE Remembered'
  BY <1>b DEF Forgotten, Remembered
<1>1. ASSUME NEW s \in Slots, SkipFile(s) \/ ApplyFile(s) \/ FileFails(s), tick' # Resting
      PROVE  Sound'
  <2>a. /\ s # "ruleset" /\ tick.phase = s /\ After[s] \in {"proxy", "report"}
        /\ \/ tick' = [tick EXCEPT !.phase = After[s]]
           \/ tick' = [tick EXCEPT !.phase = After[s], !.tried = @ \cup {s}]
           \/ tick' = [tick EXCEPT !.phase = After[s], !.tried = @ \cup {s},
                                   !.failed = @ \cup {s}]
    <3>1. s # "ruleset" /\ After[s] \in {"proxy", "report"}
      BY DEF After, Slots
    <3> QED BY <1>1, <3>1 DEF SkipFile, ApplyFile, FileFails, Escape, Goto
  <2>b. /\ tick'.phase = After[s] /\ tick'.doc = tick.doc
        /\ tick'.tried \in {tick.tried, tick.tried \cup {s}}
        /\ tick'.failed \in {tick.failed, tick.failed \cup {s}}
    BY <1>0, <2>a DEF Ticks
  <2>1. /\ tick.phase \in {"dns", "proxy"} /\ tick'.phase \in {"proxy", "report"}
        /\ tick'.doc = tick.doc
    BY <2>a, <2>b DEF Slots
  <2>2. ("ruleset" \in tick'.tried \ tick'.failed) <=> ("ruleset" \in tick.tried \ tick.failed)
    BY <2>a, <2>b
  <2>3. UNCHANGED <<applied, table, lastGood, routes, known>>
    BY <1>1 DEF SkipFile, ApplyFile, FileFails, Escape, dataplane
  <2> QED BY <2>1, <2>2, <2>3 DEF Sound, MemoryIsSound, RoutesOnRecord, Remembered
<1>2. ASSUME NEW s \in Slots, SkipFile(s) \/ ApplyFile(s) \/ FileFails(s), tick' = Resting
      PROVE  Sound'
  <2>1. FileFails(s) /\ Escape
    <3>1. After[s] \in {"proxy", "report"}
      BY DEF After, Slots
    <3> QED BY <1>0, <1>2, <3>1 DEF SkipFile, ApplyFile, FileFails, Goto, Escape, Resting, Ticks
  <2>2. applied' = Forgotten /\ tick.phase = s /\ UNCHANGED <<routes, known>>
    <3>1. After[s] \in {"proxy", "report"} /\ Resting.phase = "idle"
      BY DEF After, Slots, Resting
    <3>2. tick'.phase = "idle"
      BY <1>2, <3>1
    <3> QED BY <1>0, <2>1, <3>1, <3>2 DEF FileFails, Fault, CaughtFaults, Ticks
  <2> QED BY <1>2, <1>a, <1>b, <2>2 DEF Slots
<1>3. CASE Report \/ ReportLost
  <2>1. /\ tick.phase = "report" /\ tick' = Resting /\ applied' = Outcome
        /\ UNCHANGED <<table, lastGood, routes, known>>
    BY <1>3 DEF Report, ReportLost, dataplane
  <2>2. applied'.ruleset = IF "ruleset" \in tick.tried \ tick.failed
                           THEN tick.doc.ruleset ELSE applied.ruleset
    BY <2>1 DEF Outcome
  <2>3. Remembered'
    BY <2>1, <2>2 DEF Sound, MemoryIsSound, Remembered
  <2> QED BY <1>a, <2>1, <2>3
<1>4. CASE Crash
  BY <1>4, <1>a, <1>b DEF Crash, Fault, CaughtFaults, dataplane
<1>5. CASE Reboot \/ HandEdit
  BY <1>5 DEF Reboot, HandEdit, Fault, CaughtFaults
<1> QED BY <1>1, <1>2, <1>3, <1>4, <1>5

\* When only faults strike that the agent catches before the table is checked, or
\* outlives, or forgets everything by, what it remembers as applied is in the
\* kernel: skipping an unchanged digest is right, however torn a poll is.
THEOREM MemoryIsLive ==
    ASSUME Faults \subseteq CaughtFaults
    PROVE  Spec => []AppliedIsLive
<1>1. Init => Sound
  BY DEF Init, Sound, MemoryIsSound, RoutesOnRecord, Remembered, Resting, Forgotten
<1>2. Typed /\ Sound /\ [Next]_vars => Sound'
  BY SoundWhilePolling, SoundWhileApplying, SoundToTheEnd DEF Next, Work, Misfortune
<1>3. Typed /\ Sound => AppliedIsLive
  <2>1. Typed => tick.phase \in Phases
    BY TickFields DEF Typed, GatewayOK
  <2> QED BY <2>1 DEF Sound, MemoryIsSound, Remembered, AppliedIsLive, Phases, Slots
<1> QED BY <1>1, <1>2, <1>3, TypedInvariant, PTL DEF Spec

=============================================================================
