---------------------------- MODULE AccessPolicy ----------------------------
(***************************************************************************)
(* The access policy: groups, zones with the networks behind them, rules   *)
(* and the peers they apply to; the requests that edit it, the import of a *)
(* document among them; and the two filter chains rendered from it.        *)
(*                                                                         *)
(* Hosts stand for addresses, one family of them: each peer has one, each  *)
(* network one, and there is one on the internet.  A chain is a sequence   *)
(* of entries, and a packet gets the verdict of the first that matches.    *)
(*                                                                         *)
(* A request renders the policy it would leave before it commits, so one   *)
(* that does not render changes nothing.  Requests are taken one at a time.*)
(***************************************************************************)
EXTENDS Integers, FiniteSets, Sequences, SequencesExt

CONSTANTS
    Slugs,          \* names of groups and zones
    Peers, Nets,    \* tunnel addresses; networks that zones may route
    Refs,           \* identifiers of rules, which order rules of one priority
    RuleRows,       \* rules as they may be written
    Documents,      \* documents that may be imported
    Behind,         \* networks that lie behind a peer; the others are LANs of the gateway
    Carried,        \* routes that may be made
    InternalNets,   \* hosts in the gateway's internal networks
    HasWan,         \* the gateway has an outside interface
    Restricted,     \* what peers reach on the gateway is restricted
    PortalAnswers,  \* the portal has an address in this family
    DnsInQuarantine, PingInQuarantine,
    Clashing,       \* sets of slugs that give the same name to a set
    Initial,        \* policies to start from
    MaxEdits        \* bound on the edits

VARIABLES
    policy,     \* the rows
    last,       \* the last edit, and what its response said of it (history)
    edits       \* edits so far

vars == <<policy, last, edits>>

\* A packet is of a flow, and for a port or of a protocol.
Flows == {"new", "established", "invalid"}
Ports == {"portal", "dns", "ping", "proxy", "icmp_error", "other"}

Internet == "internet"
Gateway == "gateway"
Hosts == Peers \cup Nets \cup {Internet}
NoSlug == "no slug"

\* A row of the table that groups and zones share.
Row == [there: BOOLEAN, kind: {"group", "zone"}, exit: BOOLEAN, intra: BOOLEAN]
NoRow == [there |-> FALSE, kind |-> "group", exit |-> FALSE, intra |-> FALSE]

\* One end of a rule: anyone, a network, or a row by its slug.  The kind says
\* what the row was when the rule was written.
Endpoints == [kind: {"any"}, of: {NoSlug}] \cup [kind: {"cidr"}, of: Hosts]
               \cup [kind: {"group", "zone"}, of: Slugs]
Rule == [there: BOOLEAN, enabled: BOOLEAN, priority: 1..2, action: {"accept", "drop"},
         src: Endpoints, dst: Endpoints, port: {"any"} \cup Ports]
Anyone == [kind |-> "any", of |-> NoSlug]
NoRule == [there |-> FALSE, enabled |-> FALSE, priority |-> 1, action |-> "drop",
           src |-> Anyone, dst |-> Anyone, port |-> "any"]
Columns == {"enabled", "priority", "action", "src", "dst", "port"}
Names(rule) == {e.of : e \in {e \in {rule.src, rule.dst} : e.kind \in {"group", "zone"}}}

\* A network of a zone, and the peer that carries it; none if the gateway does.
Route == [zone: Slugs, net: Nets, via: Peers \cup {Gateway}]

Member == [state: {"active", "confined", "off"}, groups: SUBSET Slugs, zone: Slugs \cup {NoSlug}]

Policy == [rows: [Slugs -> Row], peers: [Peers -> Member], routes: SUBSET Route,
           rules: [Refs -> Rule]]

\* Foreign keys: no row, route or rule refers to a row that is gone.
Rows(p) == {s \in Slugs : p.rows[s].there}
RefersToRows(p) ==
    /\ \A r \in p.routes : r.zone \in Rows(p)
    /\ \A f \in Refs : Names(p.rules[f]) \subseteq Rows(p)
    /\ \A h \in Peers : p.peers[h].groups \cup ({p.peers[h].zone} \ {NoSlug}) \subseteq Rows(p)

\* A document, as its schema has it.
IsDocument(d) ==
    /\ DOMAIN d.groups \subseteq Slugs /\ DOMAIN d.rules \subseteq Refs
    /\ \A s \in DOMAIN d.groups : d.groups[s] \in [kind: {"group", "zone"}, exit: BOOLEAN]
    /\ \A f \in DOMAIN d.rules : d.rules[f] \in Rule /\ d.rules[f].there

ASSUME PolicyAssumption ==
    /\ Refs \subseteq Nat /\ IsFiniteSet(Refs) /\ IsFiniteSet(Slugs)
    /\ Gateway \notin Hosts /\ NoSlug \notin Slugs
    /\ Initial \subseteq Policy /\ \A p \in Initial : RefersToRows(p)
    /\ RuleRows \subseteq {r \in Rule : r.there}
    /\ Behind \subseteq Nets
    /\ Carried \subseteq Route
    /\ \A d \in Documents : IsDocument(d)
    /\ InternalNets \subseteq Hosts
    /\ {HasWan, Restricted, PortalAnswers, DnsInQuarantine, PingInQuarantine} \subseteq BOOLEAN
    /\ MaxEdits \in Nat

-----------------------------------------------------------------------------
(* Rendering                                                               *)

Kind(p, s) == p.rows[s].kind
Of(p, kind) == {s \in Slugs : p.rows[s].there /\ p.rows[s].kind = kind}

\* validate_spec: no two sets of one name, no way out without an interface, a
\* network carried by one peer, and a peer's zone a zone.
Renders(p) ==
    /\ \A kind \in {"group", "zone"} : \A c \in Clashing : Cardinality(c \cap Of(p, kind)) <= 1
    /\ \A s \in Slugs : p.rows[s].there /\ p.rows[s].exit => HasWan
    /\ \A r, q \in p.routes :
         Kind(p, r.zone) = "zone" /\ Kind(p, q.zone) = "zone" /\ r.net = q.net
           /\ r.via # Gateway /\ q.via # Gateway => r.via = q.via
    /\ \A h \in Peers : p.peers[h].zone # NoSlug => Kind(p, p.peers[h].zone) = "zone"

\* The sets: active peers of a group; of a zone, with the networks behind it.
GroupSet(p, s) == {h \in Peers : p.peers[h].state = "active" /\ s \in p.peers[h].groups}
ZoneSet(p, s) ==
    {h \in Peers : p.peers[h].state = "active" /\ p.peers[h].zone = s}
      \cup {r.net : r \in {r \in p.routes : r.zone = s}}
Confined(p) == {h \in Peers : p.peers[h].state = "confined"}

\* Mutant: the kind that the rule was written with decides.
EndpointSetAsWritten(p, e) ==
    CASE e.kind = "any" -> Hosts
      [] e.kind = "cidr" -> {e.of}
      [] e.kind = "zone" -> ZoneSet(p, e.of)
      [] OTHER -> GroupSet(p, e.of)

\* The row's own kind decides which set an endpoint is.
EndpointSet(p, e) ==
    CASE e.kind = "any" -> Hosts
      [] e.kind = "cidr" -> {e.of}
      [] OTHER -> IF Kind(p, e.of) = "zone" THEN ZoneSet(p, e.of) ELSE GroupSet(p, e.of)

\* An entry of a chain: which packets it matches, and the verdict.
Entry(src, dst, flows, ports, verdict) ==
    [src |-> src, dst |-> dst, flows |-> flows, ports |-> ports, verdict |-> verdict]
All(src, dst, verdict) == Entry(src, dst, Flows, Ports, verdict)

\* Hosts behind the tunnel's interface; the others are behind the outside one.
Tunnel == Peers \cup Behind

\* What the gateway itself answers; before it, what a confined peer may have of it.
InputChain(p) ==
    LET from(src, port) == Entry(src, {Gateway}, Flows, {port}, "accept")
        when(cond, entry) == IF cond THEN <<entry>> ELSE <<>>
    IN
    <<All(Hosts \ Tunnel, {Gateway}, "accept"),
      Entry(Hosts, {Gateway}, {"invalid"}, Ports, "drop")>>
      \o when(PortalAnswers, from(Confined(p), "portal"))
      \o when(DnsInQuarantine, from(Confined(p), "dns"))
      \o when(PingInQuarantine, from(Confined(p), "ping"))
      \o <<All(Confined(p), {Gateway}, "drop"),
           Entry(Hosts, {Gateway}, {"established"}, Ports, "accept"),
           from(Hosts, "icmp_error")>>
      \o (IF Restricted
          THEN when(PortalAnswers, from(Hosts, "portal"))
                 \o when(DnsInQuarantine, from(Hosts, "dns"))
                 \o when(PingInQuarantine, from(Hosts, "ping"))
                 \o <<from(Hosts, "proxy"), All(Hosts, {Gateway}, "drop")>>
          ELSE <<All(Hosts, {Gateway}, "accept")>>)

\* sort_key: the rules by priority, and by identifier within one.
Ordered(p) ==
    LET on == {f \in Refs : p.rules[f].there /\ p.rules[f].enabled}
        first(f, g) == \/ p.rules[f].priority < p.rules[g].priority
                       \/ p.rules[f].priority = p.rules[g].priority /\ f < g
    IN  CHOOSE s \in [1..Cardinality(on) -> on] : \A i, j \in DOMAIN s : i < j => first(s[i], s[j])

\* What passes through the gateway: nothing of a confined peer, then flows that
\* are open, the rules, the zones that talk to themselves, and the ways out.
ForwardChain(p) ==
    LET acl == Ordered(p)
        intra == SetToSeq({s \in Of(p, "zone") : p.rows[s].intra})
        exits == SetToSeq({s \in Slugs : p.rows[s].there /\ p.rows[s].exit})
        foreign == Hosts \ Tunnel
    IN
    <<All(foreign, foreign, "accept"),
      Entry(Hosts, Hosts, {"invalid"}, Ports, "drop"),
      All(Confined(p), Hosts, "drop"), All(Hosts, Confined(p), "drop"),
      Entry(Hosts, Hosts, {"established"}, Ports, "accept"),
      Entry(Hosts, Hosts, Flows, {"icmp_error"}, "accept")>>
      \o [i \in DOMAIN acl |->
            LET r == p.rules[acl[i]] IN
            Entry(EndpointSet(p, r.src), EndpointSet(p, r.dst), Flows,
                  IF r.port = "any" THEN Ports ELSE {r.port}, r.action)]
      \o [i \in DOMAIN intra |-> All(ZoneSet(p, intra[i]), ZoneSet(p, intra[i]), "accept")]
      \o [i \in DOMAIN exits |->
            All(EndpointSet(p, [kind |-> Kind(p, exits[i]), of |-> exits[i]]),
                foreign \ InternalNets, "accept")]
      \o <<All(Hosts, Hosts, "drop")>>

Packets == [src: Hosts, dst: {Gateway}, flow: Flows, port: Ports]
             \cup [src: Hosts, dst: Hosts, flow: Flows, port: {"icmp_error", "proxy", "other"}]

Matches(e, k) == k.src \in e.src /\ k.dst \in e.dst /\ k.flow \in e.flows /\ k.port \in e.ports

\* The verdict of the first entry that matches; the last one matches all.
Verdict(chain, k) == chain[SelectInSeq(chain, LAMBDA e : Matches(e, k))].verdict

\* The packets that the rendered ruleset lets through.
Passing(p) ==
    LET input == InputChain(p)
        forward == ForwardChain(p)
    IN  {k \in Packets : Verdict(IF k.dst = Gateway THEN input ELSE forward, k) = "accept"}

-----------------------------------------------------------------------------
(* Edits                                                                   *)

\* A request that changes the rows; it is refused when they do not render.
Commit(p, what) ==
    /\ edits < MaxEdits
    /\ p # policy
    /\ Renders(p)
    /\ policy' = p /\ last' = what /\ edits' = edits + 1

Edited(p) == Commit(p, [op |-> "edit"])

\* Mutant: the peers keep the row, which a new one of its name takes over.
WithoutRowsOnly(p, gone) ==
    [p EXCEPT !.rows = [s \in Slugs |-> IF s \in gone THEN NoRow ELSE p.rows[s]]]

\* Mutant: a rule that names the row stays, for anyone.
WithoutNames(p, gone) ==
    LET end(e) == IF e.of \in gone THEN Anyone ELSE e IN
    [rows |-> [s \in Slugs |-> IF s \in gone THEN NoRow ELSE p.rows[s]],
     peers |-> [h \in Peers |->
                  [p.peers[h] EXCEPT !.groups = @ \ gone,
                                     !.zone = IF @ \in gone THEN NoSlug ELSE @]],
     routes |-> {r \in p.routes : r.zone \notin gone},
     rules |-> [f \in Refs |-> [p.rules[f] EXCEPT !.src = end(@), !.dst = end(@)]]]

\* A row that goes takes its routes and the rules that name it, and leaves
\* its peers without it.
Without(p, gone) ==
    [rows |-> [s \in Slugs |-> IF s \in gone THEN NoRow ELSE p.rows[s]],
     peers |-> [h \in Peers |->
                  [p.peers[h] EXCEPT !.groups = @ \ gone,
                                     !.zone = IF @ \in gone THEN NoSlug ELSE @]],
     routes |-> {r \in p.routes : r.zone \notin gone},
     rules |-> [f \in Refs |->
                  IF Names(p.rules[f]) \cap gone # {} THEN NoRule ELSE p.rules[f]]]

Create(s, kind, exit, intra) ==
    /\ ~policy.rows[s].there
    /\ Edited([policy EXCEPT !.rows[s] =
                 [there |-> TRUE, kind |-> kind, exit |-> exit, intra |-> intra]])
CreateGroup(s, exit) == Create(s, "group", exit, FALSE)
CreateZone(s, exit, intra) == Create(s, "zone", exit, intra)

UpdateGroup(s, exit) ==
    /\ s \in Of(policy, "group")
    /\ Edited([policy EXCEPT !.rows[s].exit = exit])
UpdateZone(s, exit, intra) ==
    /\ s \in Of(policy, "zone")
    /\ Edited([policy EXCEPT !.rows[s].exit = exit, !.rows[s].intra = intra])

Delete(s, kind) ==
    /\ s \in Of(policy, kind)
    /\ Commit(Without(policy, {s}), [op |-> "delete", of |-> s])
DeleteGroup(s) == Delete(s, "group")
DeleteZone(s) == Delete(s, "zone")

\* A zone routes a network once.
CreateRoute(r) ==
    /\ r.zone \in Of(policy, "zone")
    /\ \A q \in policy.routes : q.zone = r.zone => q.net # r.net
    /\ Edited([policy EXCEPT !.routes = @ \cup {r}])
\* Disabled, a route is as good as gone.
DeleteRoute(r) == Edited([policy EXCEPT !.routes = @ \ {r}])
UpdateRoute(r, via) ==
    /\ r \in policy.routes
    /\ Edited([policy EXCEPT !.routes = (@ \ {r}) \cup {[r EXCEPT !.via = via]}])

\* _group_id: an endpoint names a row, and the row has the kind it says.
Resolves(ends) ==
    \A e \in ends : e.kind \in {"group", "zone"} => e.of \in Of(policy, e.kind)
CreateRule(f, rule) ==
    /\ ~policy.rules[f].there /\ Resolves({rule.src, rule.dst})
    /\ Edited([policy EXCEPT !.rules[f] = rule])
\* Only the columns that the request names change, and only an end that it
\* names is resolved again: the other stays, even if its row changed its kind.
UpdateRule(f, rule, named) ==
    LET column(c) == IF c \in named THEN rule[c] ELSE policy.rules[f][c] IN
    /\ policy.rules[f].there /\ Resolves({rule[side] : side \in named \cap {"src", "dst"}})
    /\ Edited([policy EXCEPT !.rules[f] =
                 [there |-> TRUE, enabled |-> column("enabled"), priority |-> column("priority"),
                  action |-> column("action"), src |-> column("src"), dst |-> column("dst"),
                  port |-> column("port")]])
DeleteRule(f) ==
    /\ policy.rules[f].there
    /\ Edited([policy EXCEPT !.rules[f] = NoRule])

\* A peer is put in groups and in at most one zone, and a login, an expiry or
\* an administrator moves its state.
AssignGroups(h, groups) ==
    groups \subseteq Of(policy, "group") /\ Edited([policy EXCEPT !.peers[h].groups = groups])
AssignZone(h, s) ==
    s \in Of(policy, "zone") \cup {NoSlug} /\ Edited([policy EXCEPT !.peers[h].zone = s])
MoveState(h, state) == Edited([policy EXCEPT !.peers[h].state = state])

-----------------------------------------------------------------------------
(* Import                                                                  *)

Written(d, s) == [kind |-> d.groups[s].kind, exit |-> d.groups[s].exit]
Stored(p, s) == [kind |-> p.rows[s].kind, exit |-> p.rows[s].exit]
Rules(p) == {f \in Refs : p.rules[f].there}

\* _validate_document, and the constraint on the rules' columns.
WellFormed(p, d) ==
    \A f \in DOMAIN d.rules : Names(d.rules[f]) \subseteq DOMAIN d.groups \cup Rows(p)

\* compute_diff: what the response says an import changes.
Diff(p, d, prune) ==
    [created |-> DOMAIN d.groups \ Rows(p),
     updated |-> {s \in DOMAIN d.groups \cap Rows(p) : Written(d, s) # Stored(p, s)},
     deleted |-> IF prune THEN Rows(p) \ DOMAIN d.groups ELSE {},
     rules_created |-> DOMAIN d.rules \ Rules(p),
     rules_updated |-> {f \in DOMAIN d.rules \cap Rules(p) : d.rules[f] # p.rules[f]},
     rules_deleted |-> IF prune THEN Rules(p) \ DOMAIN d.rules ELSE {}]

\* Mutant: a rule that is there already keeps its ends.
AppliedKeepingEnds(p, d, prune) ==
    LET written == [p EXCEPT
            !.rows = [s \in Slugs |->
                        IF s \in DOMAIN d.groups
                        THEN [p.rows[s] EXCEPT !.there = TRUE, !.kind = d.groups[s].kind,
                                               !.exit = d.groups[s].exit]
                        ELSE p.rows[s]],
            !.rules = [f \in Refs |->
                         IF f \in DOMAIN d.rules
                         THEN IF p.rules[f].there
                              THEN [d.rules[f] EXCEPT !.src = p.rules[f].src, !.dst = p.rules[f].dst]
                              ELSE d.rules[f]
                         ELSE p.rules[f]]]
    IN  IF prune THEN Without(written, Rows(p) \ DOMAIN d.groups) ELSE written

\* apply_document: groups, then rules, and then what the document leaves out.
\* What a document does not hold, a row keeps.
Applied(p, d, prune) ==
    LET written == [p EXCEPT
            !.rows = [s \in Slugs |->
                        IF s \in DOMAIN d.groups
                        THEN [p.rows[s] EXCEPT !.there = TRUE, !.kind = d.groups[s].kind,
                                               !.exit = d.groups[s].exit]
                        ELSE p.rows[s]],
            !.rules = [f \in Refs |-> IF f \in DOMAIN d.rules THEN d.rules[f] ELSE p.rules[f]]]
        pruned == [written EXCEPT
            !.rules = [f \in Refs |-> IF f \in DOMAIN d.rules THEN written.rules[f] ELSE NoRule]]
    IN  IF prune THEN Without(pruned, Rows(p) \ DOMAIN d.groups) ELSE written

Import(d, prune) ==
    /\ WellFormed(policy, d)
    /\ Commit(Applied(policy, d, prune),
              [op |-> "import", shown |-> Diff(policy, d, prune), of |-> d])

-----------------------------------------------------------------------------
Init ==
    /\ policy \in Initial
    /\ last = [op |-> "none"]
    /\ edits = 0

EditRows(s) ==
    \/ \E exit \in BOOLEAN : CreateGroup(s, exit) \/ UpdateGroup(s, exit)
    \/ \E exit, intra \in BOOLEAN : CreateZone(s, exit, intra) \/ UpdateZone(s, exit, intra)
    \/ DeleteGroup(s) \/ DeleteZone(s)
EditRoutes ==
    \/ \E r \in Carried : CreateRoute(r)
    \/ \E r \in policy.routes : DeleteRoute(r) \/ \E via \in Peers \cup {Gateway} : UpdateRoute(r, via)
EditRules(f) ==
    \/ \E rule \in RuleRows :
         CreateRule(f, rule) \/ \E named \in SUBSET Columns : UpdateRule(f, rule, named)
    \/ DeleteRule(f)
EditPeer(h) ==
    \/ \E groups \in SUBSET Slugs : AssignGroups(h, groups)
    \/ \E s \in Slugs \cup {NoSlug} : AssignZone(h, s)
    \/ \E state \in {"active", "confined", "off"} : MoveState(h, state)

Next ==
    \/ \E s \in Slugs : EditRows(s)
    \/ EditRoutes
    \/ \E f \in Refs : EditRules(f)
    \/ \E h \in Peers : EditPeer(h)
    \/ \E d \in Documents, prune \in BOOLEAN : Import(d, prune)

Spec == Init /\ [][Next]_vars

-----------------------------------------------------------------------------
(* What the policy promises                                                *)

\* No row, route or rule is left that refers to one that is gone.
TypeOK == policy \in Policy /\ RefersToRows(policy) /\ edits \in 0..MaxEdits

\* Who a host is, row by row: an active peer that is in the group, or in the
\* zone, or a host of a network of the zone.
Belongs(p, h, s) ==
    /\ p.rows[s].there
    /\ \/ /\ h \in Peers /\ p.peers[h].state = "active"
          /\ IF p.rows[s].kind = "zone" THEN p.peers[h].zone = s ELSE s \in p.peers[h].groups
       \/ \E r \in p.routes : p.rows[s].kind = "zone" /\ r.zone = s /\ r.net = h
Ends(p, e, h) ==
    CASE e.kind = "any" -> TRUE [] e.kind = "cidr" -> h = e.of [] OTHER -> Belongs(p, h, e.of)
Deciding(p, k) ==
    {f \in Refs : /\ p.rules[f].there /\ p.rules[f].enabled
                  /\ p.rules[f].port \in {"any", k.port}
                  /\ Ends(p, p.rules[f].src, k.src) /\ Ends(p, p.rules[f].dst, k.dst)}

\* Of the rules that apply, the one of least priority and identifier.
Decider(p, k) ==
    LET least == CHOOSE n \in 1..2 : /\ \E f \in Deciding(p, k) : p.rules[f].priority = n
                                     /\ \A f \in Deciding(p, k) : p.rules[f].priority >= n
    IN  CHOOSE f \in Deciding(p, k) :
          /\ p.rules[f].priority = least
          /\ \A g \in Deciding(p, k) : p.rules[g].priority = least => f <= g

\* The policy in words: a confined peer has the portal, names and echo, and is
\* reached by nobody, whatever is open; a flow that is open goes on; of the
\* rules that apply, the first decides; then a zone may talk to itself, a way
\* out leads outside and nowhere else, and all the rest is refused.
MayPass(p, k) ==
    IF k.src \notin Tunnel /\ k.dst \notin Tunnel THEN TRUE
    ELSE IF k.flow = "invalid" THEN FALSE
    ELSE IF k.src \in Confined(p) THEN
        /\ k.dst = Gateway
        /\ \/ k.port = "portal" /\ PortalAnswers
           \/ k.port = "dns" /\ DnsInQuarantine
           \/ k.port = "ping" /\ PingInQuarantine
    ELSE IF k.dst \in Confined(p) THEN FALSE
    ELSE IF k.flow = "established" \/ k.port = "icmp_error" THEN TRUE
    ELSE IF k.dst = Gateway THEN
        \/ ~Restricted
        \/ k.port = "proxy"
        \/ k.port = "portal" /\ PortalAnswers
        \/ k.port = "dns" /\ DnsInQuarantine
        \/ k.port = "ping" /\ PingInQuarantine
    ELSE IF Deciding(p, k) # {} THEN
        p.rules[Decider(p, k)].action = "accept"
    ELSE
        \/ \E s \in Slugs : /\ p.rows[s].kind = "zone" /\ p.rows[s].intra
                            /\ Belongs(p, k.src, s) /\ Belongs(p, k.dst, s)
        \/ \E s \in Slugs : /\ p.rows[s].exit /\ Belongs(p, k.src, s)
                            /\ k.dst \notin Tunnel \cup InternalNets

\* What is rendered lets through what the policy says, for every packet and
\* however the policy came about.
VerdictAsStated == Passing(policy) = {k \in Packets : MayPass(policy, k)}

\* Deleting a group or a zone opens nothing, unless a rule that refused
\* something goes with it.
DeletingOpensNothing ==
    [][last'.op = "delete" =>
         \/ \E f \in Refs : /\ policy.rules[f].there /\ policy.rules[f].action = "drop"
                            /\ ~policy'.rules[f].there
         \/ Passing(policy') \subseteq Passing(policy)]_vars

\* The promise without the condition.
DeletingNarrows ==
    [][last'.op = "delete" => Passing(policy') \subseteq Passing(policy)]_vars

\* What changed between two policies, in the words of a response.
Changed(p, q) ==
    [created |-> Rows(q) \ Rows(p),
     updated |-> {s \in Rows(p) \cap Rows(q) : Stored(p, s) # Stored(q, s)},
     deleted |-> Rows(p) \ Rows(q),
     rules_created |-> Rules(q) \ Rules(p),
     rules_updated |-> {f \in Rules(p) \cap Rules(q) : p.rules[f] # q.rules[f]},
     rules_deleted |-> Rules(p) \ Rules(q)]

\* An import changes what its response shows, as long as the document's rules
\* name only groups that the document has.
SelfContained(d) == \A f \in DOMAIN d.rules : Names(d.rules[f]) \subseteq DOMAIN d.groups
ImportDoesWhatItShows ==
    [][last'.op = "import" /\ SelfContained(last'.of)
         => Changed(policy, policy') = last'.shown]_vars

\* The promise without the condition.
PreviewIsWhatHappens ==
    [][last'.op = "import" => Changed(policy, policy') = last'.shown]_vars
=============================================================================
