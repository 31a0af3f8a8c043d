------------------------- MODULE AccessPolicyProofs -------------------------
(***************************************************************************)
(* The properties of AccessPolicy for every set of slugs, peers, networks, *)
(* rules and documents.                                                    *)
(***************************************************************************)
EXTENDS AccessPolicy, TLAPS, FiniteSetTheorems, WellFoundedInduction

-----------------------------------------------------------------------------
(* Rows, routes and rules                                                  *)

\* The policies that there may be.
Sound(p) == p \in Policy /\ RefersToRows(p)

LEMMA NoRuleIsARule == NoRule \in Rule /\ Names(NoRule) = {}
BY DEF NoRule, Rule, Endpoints, Anyone, Names

LEMMA NoRowIsARow == NoRow \in Row
BY DEF NoRow, Row

LEMMA WithoutParts ==
    ASSUME NEW p, NEW gone
    PROVE  /\ \A s \in Slugs : Without(p, gone).rows[s] = IF s \in gone THEN NoRow ELSE p.rows[s]
           /\ \A f \in Refs : Without(p, gone).rules[f] =
                IF Names(p.rules[f]) \cap gone # {} THEN NoRule ELSE p.rules[f]
BY DEF Without

\* What is left without some rows is sound.
LEMMA WithoutSound ==
    ASSUME NEW p \in Policy, RefersToRows(p), NEW gone
    PROVE  Sound(Without(p, gone))
<1> DEFINE q == Without(p, gone)
<1>1. q = [rows |-> q.rows, peers |-> q.peers, routes |-> q.routes, rules |-> q.rules]
  BY DEF Without
<1>2. q.rows \in [Slugs -> Row] /\ Rows(q) = Rows(p) \ gone
  <2>1. q.rows = [s \in Slugs |-> IF s \in gone THEN NoRow ELSE p.rows[s]]
    BY DEF Without
  <2> HIDE DEF q
  <2> QED
    BY <2>1, NoRowIsARow DEF Policy, Rows, NoRow
<1>3. q.routes \subseteq Route /\ \A r \in q.routes : r.zone \in Rows(p) \ gone
  BY DEF Without, Policy, RefersToRows
<1>4. q.rules \in [Refs -> Rule] /\ \A f \in Refs : Names(q.rules[f]) \subseteq Rows(p) \ gone
  <2>1. q.rules = [f \in Refs |-> IF Names(p.rules[f]) \cap gone # {} THEN NoRule ELSE p.rules[f]]
    BY DEF Without
  <2> HIDE DEF q
  <2> QED
    BY <2>1, NoRuleIsARule DEF Policy, RefersToRows
<1>5. /\ q.peers \in [Peers -> Member]
      /\ \A h \in Peers : q.peers[h].groups \cup ({q.peers[h].zone} \ {NoSlug}) \subseteq Rows(p) \ gone
  <2>1. q.peers = [h \in Peers |-> [p.peers[h] EXCEPT !.groups = @ \ gone,
                                                      !.zone = IF @ \in gone THEN NoSlug ELSE @]]
    BY DEF Without
  <2> HIDE DEF q
  <2>2. \A h \in Peers :
          LET m == p.peers[h] IN
          /\ m \in Member /\ m.groups \cup ({m.zone} \ {NoSlug}) \subseteq Rows(p)
          /\ q.peers[h] = [m EXCEPT !.groups = @ \ gone, !.zone = IF @ \in gone THEN NoSlug ELSE @]
    BY <2>1 DEF Policy, RefersToRows
  <2>3. ASSUME NEW h \in Peers
        PROVE  /\ q.peers[h] \in Member
               /\ q.peers[h].groups \cup ({q.peers[h].zone} \ {NoSlug}) \subseteq Rows(p) \ gone
    <3> DEFINE m == p.peers[h]
    <3>1. m = [state |-> m.state, groups |-> m.groups, zone |-> m.zone]
      BY <2>2 DEF Member
    <3>2. q.peers[h] = [state |-> m.state, groups |-> m.groups \ gone,
                        zone |-> IF m.zone \in gone THEN NoSlug ELSE m.zone]
      BY <2>2, <3>1
    <3>3. /\ m.state \in {"active", "confined", "off"} /\ m.groups \subseteq Slugs
          /\ m.zone \in Slugs \cup {NoSlug} /\ m.groups \cup ({m.zone} \ {NoSlug}) \subseteq Rows(p)
      BY <2>2 DEF Member
    <3> HIDE DEF m
    <3> QED
      BY <3>2, <3>3 DEF Member
  <2> QED
    BY <2>1, <2>3
<1> HIDE DEF q
<1>6. q \in Policy
  BY <1>1, <1>2, <1>3, <1>4, <1>5 DEF Policy
<1>7. RefersToRows(q)
  BY <1>2, <1>3, <1>4, <1>5 DEF RefersToRows
<1> QED
  BY <1>6, <1>7 DEF Sound, q

\* A policy is its parts.
LEMMA Parts ==
    ASSUME NEW p \in Policy
    PROVE  /\ p = [rows |-> p.rows, peers |-> p.peers, routes |-> p.routes, rules |-> p.rules]
           /\ p.rows \in [Slugs -> Row] /\ p.peers \in [Peers -> Member]
           /\ p.routes \subseteq Route /\ p.rules \in [Refs -> Rule]
BY DEF Policy

\* Rows that keep what is there, and routes, rules and peers that refer to what
\* is there, leave a policy sound.
LEMMA SoundRows ==
    ASSUME NEW p, Sound(p), NEW rows \in [Slugs -> Row], \A s \in Rows(p) : rows[s].there
    PROVE  Sound([p EXCEPT !.rows = rows])
<1> DEFINE q == [p EXCEPT !.rows = rows]
<1>1. q = [rows |-> rows, peers |-> p.peers, routes |-> p.routes, rules |-> p.rules]
  BY Parts DEF Sound
<1> HIDE DEF q
<1>2. q \in Policy
  BY <1>1, Parts DEF Sound, Policy
<1>3. Rows(p) \subseteq Rows(q)
  BY <1>1 DEF Rows
<1>4. RefersToRows(q)
  BY <1>1, <1>3 DEF Sound, RefersToRows
<1> QED
  BY <1>2, <1>4 DEF Sound, q

LEMMA SoundRoutes ==
    ASSUME NEW p, Sound(p), NEW routes \in SUBSET Route, \A r \in routes : r.zone \in Rows(p)
    PROVE  Sound([p EXCEPT !.routes = routes])
<1> DEFINE q == [p EXCEPT !.routes = routes]
<1>1. q = [rows |-> p.rows, peers |-> p.peers, routes |-> routes, rules |-> p.rules]
  BY Parts DEF Sound
<1> HIDE DEF q
<1>2. q \in Policy
  BY <1>1, Parts DEF Sound, Policy
<1>3. RefersToRows(q)
  BY <1>1 DEF Sound, RefersToRows, Rows
<1> QED
  BY <1>2, <1>3 DEF Sound, q

LEMMA SoundRule ==
    ASSUME NEW p, Sound(p), NEW f \in Refs, NEW rule \in Rule, Names(rule) \subseteq Rows(p)
    PROVE  Sound([p EXCEPT !.rules[f] = rule])
<1> DEFINE q == [p EXCEPT !.rules[f] = rule]
<1>1. q = [rows |-> p.rows, peers |-> p.peers, routes |-> p.routes,
           rules |-> [p.rules EXCEPT ![f] = rule]]
  BY Parts DEF Sound
<1> HIDE DEF q
<1>2. q \in Policy
  BY <1>1, Parts DEF Sound, Policy
<1>3. \A g \in Refs : q.rules[g] = IF g = f THEN rule ELSE p.rules[g]
  BY <1>1, Parts DEF Sound
<1>4. RefersToRows(q)
  BY <1>1, <1>3 DEF Sound, RefersToRows, Rows
<1> QED
  BY <1>2, <1>4 DEF Sound, q

LEMMA SoundPeer ==
    ASSUME NEW p, Sound(p), NEW h \in Peers, NEW m \in Member,
           m.groups \cup ({m.zone} \ {NoSlug}) \subseteq Rows(p)
    PROVE  Sound([p EXCEPT !.peers[h] = m])
<1> DEFINE q == [p EXCEPT !.peers[h] = m]
<1>1. q = [rows |-> p.rows, peers |-> [p.peers EXCEPT ![h] = m], routes |-> p.routes,
           rules |-> p.rules]
  BY Parts DEF Sound
<1> HIDE DEF q
<1>2. q \in Policy
  BY <1>1, Parts DEF Sound, Policy
<1>3. \A g \in Peers : q.peers[g] = IF g = h THEN m ELSE p.peers[g]
  BY <1>1, Parts DEF Sound
<1>4. RefersToRows(q)
  BY <1>1, <1>3 DEF Sound, RefersToRows, Rows
<1> QED
  BY <1>2, <1>4 DEF Sound, q

\* What a document writes, part by part.
WrittenRows(p, d) ==
    [s \in Slugs |->
        IF s \in DOMAIN d.groups
        THEN [p.rows[s] EXCEPT !.there = TRUE, !.kind = d.groups[s].kind, !.exit = d.groups[s].exit]
        ELSE p.rows[s]]
WrittenRules(p, d) == [f \in Refs |-> IF f \in DOMAIN d.rules THEN d.rules[f] ELSE p.rules[f]]
PrunedRules(d) == [f \in Refs |-> IF f \in DOMAIN d.rules THEN d.rules[f] ELSE NoRule]
With(p, rows, rules) == [rows |-> rows, peers |-> p.peers, routes |-> p.routes, rules |-> rules]

LEMMA AppliedParts ==
    ASSUME NEW p \in Policy, NEW d, IsDocument(d), NEW prune \in BOOLEAN
    PROVE  /\ prune => Applied(p, d, prune) = Without(With(p, WrittenRows(p, d), PrunedRules(d)),
                                                      Rows(p) \ DOMAIN d.groups)
           /\ ~prune => Applied(p, d, prune) = With(p, WrittenRows(p, d), WrittenRules(p, d))
<1> DEFINE rows == WrittenRows(p, d)
           rules == WrittenRules(p, d)
           u == [p EXCEPT !.rows = rows]
           v == [p EXCEPT !.rows = rows, !.rules = rules]
           left == [f \in Refs |-> IF f \in DOMAIN d.rules THEN v.rules[f] ELSE NoRule]
<1>1. Applied(p, d, prune) =
        IF prune THEN Without([v EXCEPT !.rules = left], Rows(p) \ DOMAIN d.groups) ELSE v
  BY DEF Applied, WrittenRows, WrittenRules
<1> HIDE DEF rows, rules
<1>2. v = With(p, rows, rules)
  <2>1. u = With(p, rows, p.rules)
    BY Parts DEF With
  <2>2. v = [u EXCEPT !.rules = rules]
    BY Parts
  <2> HIDE DEF u
  <2>3. [u EXCEPT !.rules = rules] = With(p, rows, rules)
    BY <2>1 DEF With
  <2> QED
    BY <2>2, <2>3
<1> HIDE DEF v
<1>3. \A f \in Refs : left[f] = IF f \in DOMAIN d.rules THEN d.rules[f] ELSE NoRule
  BY <1>2 DEF With, rules, WrittenRules
<1>4. left = PrunedRules(d)
  BY <1>3 DEF PrunedRules
<1> HIDE DEF left
<1>5. [v EXCEPT !.rules = left] = With(p, rows, left)
  BY <1>2 DEF With
<1> QED
  BY <1>1, <1>2, <1>4, <1>5 DEF rows, rules

LEMMA WrittenRowsTyped ==
    ASSUME NEW p, Sound(p), NEW d, IsDocument(d)
    PROVE  /\ WrittenRows(p, d) \in [Slugs -> Row]
           /\ \A s \in Slugs : /\ WrittenRows(p, d)[s].there <=> s \in Rows(p) \cup DOMAIN d.groups
                               /\ s \notin DOMAIN d.groups => WrittenRows(p, d)[s] = p.rows[s]
                               /\ s \in DOMAIN d.groups =>
                                    /\ WrittenRows(p, d)[s].kind = d.groups[s].kind
                                    /\ WrittenRows(p, d)[s].exit = d.groups[s].exit
<1> DEFINE rows == WrittenRows(p, d)
<1>0. rows = [s \in Slugs |-> rows[s]]
  BY DEF WrittenRows
<1> SUFFICES ASSUME NEW s \in Slugs
             PROVE  /\ rows[s] \in Row
                    /\ rows[s].there <=> s \in Rows(p) \cup DOMAIN d.groups
                    /\ s \notin DOMAIN d.groups => rows[s] = p.rows[s]
                    /\ s \in DOMAIN d.groups => /\ rows[s].kind = d.groups[s].kind
                                                /\ rows[s].exit = d.groups[s].exit
  BY <1>0
<1>1. p.rows[s] \in Row
  BY Parts DEF Sound
<1>2. CASE s \in DOMAIN d.groups
  <2>1. d.groups[s] \in [kind: {"group", "zone"}, exit: BOOLEAN]
    BY <1>2 DEF IsDocument
  <2>2. rows[s] = [p.rows[s] EXCEPT !.there = TRUE, !.kind = d.groups[s].kind,
                                    !.exit = d.groups[s].exit]
    BY <1>2 DEF WrittenRows
  <2> HIDE DEF rows
  <2> QED
    BY <1>1, <1>2, <2>1, <2>2 DEF Row
<1>3. CASE s \notin DOMAIN d.groups
  BY <1>1, <1>3 DEF Rows, WrittenRows
<1> QED
  BY <1>2, <1>3

\* A document leaves a sound policy: what it prunes goes with what refers to it.
LEMMA AppliedSound ==
    ASSUME NEW p, Sound(p), NEW d, IsDocument(d), WellFormed(p, d), NEW prune \in BOOLEAN
    PROVE  Sound(Applied(p, d, prune))
<1>1. \A f \in DOMAIN d.rules : /\ d.rules[f] \in Rule
                                /\ Names(d.rules[f]) \subseteq Rows(p) \cup DOMAIN d.groups
  BY DEF IsDocument, WellFormed
<1>2. \A f \in Refs : p.rules[f] \in Rule /\ Names(p.rules[f]) \subseteq Rows(p)
  BY Parts DEF Sound, RefersToRows
<1>3. ASSUME NEW rules \in [Refs -> Rule],
             \A f \in Refs : Names(rules[f]) \subseteq Rows(p) \cup DOMAIN d.groups
      PROVE  Sound(With(p, WrittenRows(p, d), rules))
  <2> DEFINE q == With(p, WrittenRows(p, d), rules)
  <2>1. q \in Policy
    BY <1>3, WrittenRowsTyped, Parts DEF Sound, Policy, With
  <2>2. Rows(q) = Rows(p) \cup DOMAIN d.groups
    BY WrittenRowsTyped DEF Rows, IsDocument, With
  <2>3. RefersToRows(q)
    BY <1>3, <2>2 DEF Sound, RefersToRows, With
  <2> QED
    BY <2>1, <2>3 DEF Sound
<1>4. Sound(With(p, WrittenRows(p, d), WrittenRules(p, d)))
  BY <1>1, <1>2, <1>3 DEF WrittenRules
<1>5. Sound(With(p, WrittenRows(p, d), PrunedRules(d)))
  BY <1>1, <1>3, NoRuleIsARule DEF PrunedRules
<1> QED
  BY <1>4, <1>5, AppliedParts, WithoutSound DEF Sound

\* What is committed is sound.
LEMMA CommitSound ==
    ASSUME TypeOK, NEW p, Sound(p), NEW what, Commit(p, what)
    PROVE  TypeOK'
<1>1. policy' = p /\ edits < MaxEdits /\ edits' = edits + 1
  BY DEF Commit
<1>2. edits' \in 0..MaxEdits
  BY <1>1, PolicyAssumption DEF TypeOK
<1> QED
  BY <1>1, <1>2 DEF TypeOK, Sound

LEMMA RowEditsSound ==
    ASSUME TypeOK, NEW s \in Slugs, EditRows(s)
    PROVE  TypeOK'
<1>1. Sound(policy) /\ policy.rows \in [Slugs -> Row]
  BY Parts DEF TypeOK, Sound
<1>2. ASSUME NEW row \in Row, row.there
      PROVE  Sound([policy EXCEPT !.rows[s] = row])
  <2> DEFINE rows == [policy.rows EXCEPT ![s] = row]
  <2>1. rows \in [Slugs -> Row] /\ \A t \in Rows(policy) : rows[t].there
    BY <1>1, <1>2 DEF Rows
  <2>2. Sound([policy EXCEPT !.rows = rows])
    <3> HIDE DEF rows
    <3> QED
      BY <1>1, <2>1, SoundRows
  <2> QED
    BY <2>2
<1>3. ASSUME NEW kind \in {"group", "zone"}, NEW exit \in BOOLEAN, NEW intra \in BOOLEAN,
             Create(s, kind, exit, intra)
      PROVE  TypeOK'
  <2>1. [there |-> TRUE, kind |-> kind, exit |-> exit, intra |-> intra] \in Row
    BY DEF Row
  <2>2. Sound([policy EXCEPT !.rows[s] =
                 [there |-> TRUE, kind |-> kind, exit |-> exit, intra |-> intra]])
    BY <1>2, <2>1
  <2> QED
    BY <1>3, <2>2, CommitSound DEF Create, Edited
<1>4. ASSUME NEW exit \in BOOLEAN, UpdateGroup(s, exit)
      PROVE  TypeOK'
  <2>1. [policy.rows[s] EXCEPT !.exit = exit] \in Row /\ [policy.rows[s] EXCEPT !.exit = exit].there
    BY <1>1, <1>4 DEF UpdateGroup, Of, Row
  <2>2. Sound([policy EXCEPT !.rows[s] = [policy.rows[s] EXCEPT !.exit = exit]])
    BY <1>2, <2>1
  <2>3. [policy EXCEPT !.rows[s].exit = exit] =
          [policy EXCEPT !.rows[s] = [policy.rows[s] EXCEPT !.exit = exit]]
    BY <1>1, Parts DEF TypeOK
  <2> QED
    BY <1>4, <2>2, <2>3, CommitSound DEF UpdateGroup, Edited
<1>5. ASSUME NEW exit \in BOOLEAN, NEW intra \in BOOLEAN, UpdateZone(s, exit, intra)
      PROVE  TypeOK'
  <2> DEFINE row == [policy.rows[s] EXCEPT !.exit = exit, !.intra = intra]
  <2>1. row \in Row /\ row.there
    BY <1>1, <1>5 DEF UpdateZone, Of, Row
  <2>2. Sound([policy EXCEPT !.rows[s] = row])
    <3> HIDE DEF row
    <3> QED
      BY <1>2, <2>1
  <2>3. [policy EXCEPT !.rows[s].exit = exit, !.rows[s].intra = intra] = [policy EXCEPT !.rows[s] = row]
    BY <1>1, Parts DEF TypeOK
  <2>4. Edited([policy EXCEPT !.rows[s].exit = exit, !.rows[s].intra = intra])
    BY <1>5 DEF UpdateZone
  <2> HIDE DEF row
  <2> QED
    BY <2>2, <2>3, <2>4, CommitSound DEF Edited
<1>6. ASSUME NEW kind, Delete(s, kind)
      PROVE  TypeOK'
  BY <1>1, <1>6, WithoutSound, CommitSound DEF Delete, TypeOK
<1> QED
  BY <1>3, <1>4, <1>5, <1>6 DEF EditRows, CreateGroup, CreateZone, DeleteGroup, DeleteZone

LEMMA RouteEditsSound ==
    ASSUME TypeOK, EditRoutes
    PROVE  TypeOK'
<1>1. Sound(policy) /\ policy.routes \subseteq Route /\ \A r \in policy.routes : r.zone \in Rows(policy)
  BY Parts DEF TypeOK, Sound, RefersToRows
<1>2. ASSUME NEW routes \in SUBSET Route, \A r \in routes : r.zone \in Rows(policy),
             Edited([policy EXCEPT !.routes = routes])
      PROVE  TypeOK'
  BY <1>1, <1>2, SoundRoutes, CommitSound DEF Edited
<1>3. ASSUME NEW r \in Carried, CreateRoute(r)
      PROVE  TypeOK'
  <2>1. r \in Route /\ r.zone \in Rows(policy)
    BY <1>3, PolicyAssumption DEF CreateRoute, Of, Rows
  <2>2. Edited([policy EXCEPT !.routes = policy.routes \cup {r}])
    BY <1>3 DEF CreateRoute
  <2>3. policy.routes \cup {r} \in SUBSET Route /\ \A q \in policy.routes \cup {r} : q.zone \in Rows(policy)
    BY <1>1, <2>1
  <2> QED
    BY <1>2, <2>2, <2>3
<1>4. ASSUME NEW r \in policy.routes, DeleteRoute(r)
      PROVE  TypeOK'
  <2>1. Edited([policy EXCEPT !.routes = policy.routes \ {r}])
    BY <1>4 DEF DeleteRoute
  <2> QED
    BY <1>1, <1>2, <2>1
<1>5. ASSUME NEW r \in policy.routes, NEW via \in Peers \cup {Gateway}, UpdateRoute(r, via)
      PROVE  TypeOK'
  <2>1. [r EXCEPT !.via = via] \in Route /\ [r EXCEPT !.via = via].zone = r.zone
    BY <1>1 DEF Route
  <2>2. Edited([policy EXCEPT !.routes = (policy.routes \ {r}) \cup {[r EXCEPT !.via = via]}])
    BY <1>5 DEF UpdateRoute
  <2> DEFINE routes == (policy.routes \ {r}) \cup {[r EXCEPT !.via = via]}
  <2>3. routes \in SUBSET Route /\ \A q \in routes : q.zone \in Rows(policy)
    BY <1>1, <2>1
  <2> HIDE DEF routes
  <2>4. Edited([policy EXCEPT !.routes = routes])
    BY <2>2 DEF routes
  <2> QED
    BY <1>2, <2>3, <2>4
<1> QED
  BY <1>3, <1>4, <1>5 DEF EditRoutes

LEMMA RuleEditsSound ==
    ASSUME TypeOK, NEW f \in Refs, EditRules(f)
    PROVE  TypeOK'
<1>1. Sound(policy)
  BY DEF TypeOK, Sound
<1>2. ASSUME NEW rule \in Rule, Names(rule) \subseteq Rows(policy),
             Edited([policy EXCEPT !.rules[f] = rule])
      PROVE  TypeOK'
  BY <1>1, <1>2, SoundRule, CommitSound DEF Edited
<1>3. ASSUME NEW rule \in RuleRows, CreateRule(f, rule)
      PROVE  TypeOK'
  <2>1. rule \in Rule /\ Names(rule) \subseteq Rows(policy)
    BY <1>3, PolicyAssumption DEF CreateRule, Resolves, Names, Of, Rows
  <2> QED
    BY <1>2, <1>3, <2>1 DEF CreateRule
<1>4. ASSUME NEW rule \in RuleRows, NEW named \in SUBSET Columns, UpdateRule(f, rule, named)
      PROVE  TypeOK'
  <2> DEFINE old == policy.rules[f]
             column(c) == IF c \in named THEN rule[c] ELSE old[c]
             new == [there |-> TRUE, enabled |-> column("enabled"), priority |-> column("priority"),
                     action |-> column("action"), src |-> column("src"), dst |-> column("dst"),
                     port |-> column("port")]
  <2>1. rule \in Rule /\ old \in Rule /\ Names(old) \subseteq Rows(policy)
    BY <1>1, Parts, PolicyAssumption DEF Sound, RefersToRows
  <2>2. /\ "src" \in named /\ rule.src.kind \in {"group", "zone"} => rule.src.of \in Rows(policy)
        /\ "dst" \in named /\ rule.dst.kind \in {"group", "zone"} => rule.dst.of \in Rows(policy)
    BY <1>4 DEF UpdateRule, Resolves, Of, Rows
  <2>3. Edited([policy EXCEPT !.rules[f] = new])
    BY <1>4 DEF UpdateRule
  <2> HIDE DEF old
  <2>4. new \in Rule
    BY <2>1 DEF Rule
  <2>5. Names(new) \subseteq Rows(policy)
    BY <2>1, <2>2 DEF Names
  <2> HIDE DEF new
  <2> QED
    BY <1>2, <2>3, <2>4, <2>5
<1>5. ASSUME DeleteRule(f)
      PROVE  TypeOK'
  BY <1>2, <1>5, NoRuleIsARule DEF DeleteRule
<1> QED
  BY <1>3, <1>4, <1>5 DEF EditRules

LEMMA PeerEditsSound ==
    ASSUME TypeOK, NEW h \in Peers, EditPeer(h)
    PROVE  TypeOK'
<1> DEFINE m == policy.peers[h]
<1>1. Sound(policy) /\ policy.peers \in [Peers -> Member]
  BY Parts DEF TypeOK, Sound
<1>2. m \in Member /\ m.groups \cup ({m.zone} \ {NoSlug}) \subseteq Rows(policy)
  BY <1>1 DEF Sound, RefersToRows
<1>3. ASSUME NEW n \in Member, n.groups \cup ({n.zone} \ {NoSlug}) \subseteq Rows(policy),
             Edited([policy EXCEPT !.peers[h] = n])
      PROVE  TypeOK'
  BY <1>1, <1>3, SoundPeer, CommitSound DEF Edited
<1>4. ASSUME NEW groups \in SUBSET Slugs, AssignGroups(h, groups)
      PROVE  TypeOK'
  <2>1. [m EXCEPT !.groups = groups] \in Member /\ [m EXCEPT !.groups = groups].groups = groups
          /\ [m EXCEPT !.groups = groups].zone = m.zone
    BY <1>2 DEF Member
  <2>2. groups \subseteq Rows(policy) /\ Edited([policy EXCEPT !.peers[h].groups = groups])
    BY <1>4 DEF AssignGroups, Of, Rows
  <2>3. [policy EXCEPT !.peers[h].groups = groups] =
          [policy EXCEPT !.peers[h] = [m EXCEPT !.groups = groups]]
    BY <1>1, Parts DEF TypeOK
  <2> HIDE DEF m
  <2> QED
    BY <1>2, <1>3, <2>1, <2>2, <2>3
<1>5. ASSUME NEW s \in Slugs \cup {NoSlug}, AssignZone(h, s)
      PROVE  TypeOK'
  <2>1. [m EXCEPT !.zone = s] \in Member /\ [m EXCEPT !.zone = s].groups = m.groups
          /\ [m EXCEPT !.zone = s].zone = s
    BY <1>2 DEF Member
  <2>2. {s} \ {NoSlug} \subseteq Rows(policy) /\ Edited([policy EXCEPT !.peers[h].zone = s])
    BY <1>5 DEF AssignZone, Of, Rows
  <2>3. [policy EXCEPT !.peers[h].zone = s] = [policy EXCEPT !.peers[h] = [m EXCEPT !.zone = s]]
    BY <1>1, Parts DEF TypeOK
  <2> HIDE DEF m
  <2> QED
    BY <1>2, <1>3, <2>1, <2>2, <2>3
<1>6. ASSUME NEW state \in {"active", "confined", "off"}, MoveState(h, state)
      PROVE  TypeOK'
  <2>1. [m EXCEPT !.state = state] \in Member /\ [m EXCEPT !.state = state].groups = m.groups
          /\ [m EXCEPT !.state = state].zone = m.zone
    BY <1>2 DEF Member
  <2>2. Edited([policy EXCEPT !.peers[h].state = state])
    BY <1>6 DEF MoveState
  <2>3. [policy EXCEPT !.peers[h].state = state] = [policy EXCEPT !.peers[h] = [m EXCEPT !.state = state]]
    BY <1>1, Parts DEF TypeOK
  <2> HIDE DEF m
  <2> QED
    BY <1>2, <1>3, <2>1, <2>2, <2>3
<1> QED
  BY <1>4, <1>5, <1>6 DEF EditPeer

LEMMA ImportSound ==
    ASSUME TypeOK, NEW d \in Documents, NEW prune \in BOOLEAN, Import(d, prune)
    PROVE  TypeOK'
<1>1. Sound(policy) /\ IsDocument(d) /\ WellFormed(policy, d)
  BY PolicyAssumption DEF TypeOK, Sound, Import
<1>2. Sound(Applied(policy, d, prune))
  BY <1>1, AppliedSound
<1> QED
  BY <1>2, CommitSound DEF Import

LEMMA PolicyInit == Init => TypeOK
<1> SUFFICES ASSUME Init PROVE TypeOK
  OBVIOUS
<1>1. policy \in Policy /\ RefersToRows(policy)
  BY PolicyAssumption DEF Init
<1>2. edits \in 0..MaxEdits
  BY PolicyAssumption DEF Init
<1> QED
  BY <1>1, <1>2 DEF TypeOK

LEMMA PolicyStep == TypeOK /\ [Next]_vars => TypeOK'
<1>1. TypeOK /\ Next => TypeOK'
  BY RowEditsSound, RouteEditsSound, RuleEditsSound, PeerEditsSound, ImportSound DEF Next
<1>2. TypeOK /\ UNCHANGED vars => TypeOK'
  BY DEF vars, TypeOK
<1> QED
  BY <1>1, <1>2

\* Whatever is edited, deleted or imported, no row, route or rule is left that
\* refers to one that is gone (models.py, the ON DELETE clauses of the foreign
\* keys; services/policies.py, apply_document).
THEOREM PolicyTypeCorrect == Spec => []TypeOK
BY PolicyInit, PolicyStep, PTL DEF Spec

-----------------------------------------------------------------------------
(* What an import shows                                                    *)

\* The rows that an import leaves, and what they hold.
LEMMA RowsApplied ==
    ASSUME NEW p, Sound(p), NEW d, IsDocument(d), NEW prune \in BOOLEAN,
           NEW q, q = Applied(p, d, prune)
    PROVE  /\ Rows(q) = IF prune THEN DOMAIN d.groups ELSE Rows(p) \cup DOMAIN d.groups
           /\ \A s \in Rows(q) : Stored(q, s) = IF s \in DOMAIN d.groups THEN Written(d, s)
                                                ELSE Stored(p, s)
<1> DEFINE rows == WrittenRows(p, d)
           gone == Rows(p) \ DOMAIN d.groups
<1>1. /\ Rows(p) \subseteq Slugs /\ DOMAIN d.groups \subseteq Slugs
      /\ \A s \in Slugs : rows[s].there <=> s \in Rows(p) \cup DOMAIN d.groups
      /\ \A s \in Slugs : [kind |-> rows[s].kind, exit |-> rows[s].exit] =
                          IF s \in DOMAIN d.groups THEN Written(d, s) ELSE Stored(p, s)
  BY WrittenRowsTyped DEF Rows, IsDocument, Written, Stored
<1>2. \A s \in Slugs : q.rows[s] = IF prune /\ s \in gone THEN NoRow ELSE rows[s]
  <2> HIDE DEF rows, gone
  <2>1. CASE prune
    <3>1. q = Without(With(p, rows, PrunedRules(d)), gone)
      BY <2>1, AppliedParts DEF Sound, rows, gone
    <3>2. With(p, rows, PrunedRules(d)).rows = rows
      BY DEF With
    <3>3. \A s \in Slugs : q.rows[s] = IF s \in gone THEN NoRow ELSE With(p, rows, PrunedRules(d)).rows[s]
      BY <3>1, WithoutParts
    <3> QED
      BY <2>1, <3>2, <3>3
  <2>2. CASE ~prune
    <3>1. q = With(p, rows, WrittenRules(p, d))
      BY <2>2, AppliedParts DEF Sound, rows
    <3>2. q.rows = rows
      BY <3>1 DEF With
    <3> QED
      BY <2>2, <3>2
  <2> QED
    BY <2>1, <2>2
<1> HIDE DEF rows
<1>3. \A s \in Slugs : q.rows[s].there <=> (s \in Rows(p) \cup DOMAIN d.groups /\ ~(prune /\ s \in gone))
  BY <1>1, <1>2 DEF NoRow
<1>4. Rows(q) = IF prune THEN DOMAIN d.groups ELSE Rows(p) \cup DOMAIN d.groups
  BY <1>1, <1>3 DEF Rows
<1>5. \A s \in Rows(q) : q.rows[s] = rows[s] /\ s \in Slugs
  BY <1>1, <1>2, <1>4
<1> QED
  BY <1>1, <1>4, <1>5 DEF Stored

\* The rules it leaves: pruned groups take none of the document's rules along.
LEMMA RulesApplied ==
    ASSUME NEW p, Sound(p), NEW d, IsDocument(d), SelfContained(d), NEW prune \in BOOLEAN,
           NEW q, q = Applied(p, d, prune)
    PROVE  \A f \in Refs : q.rules[f] = IF f \in DOMAIN d.rules THEN d.rules[f]
                                        ELSE IF prune THEN NoRule ELSE p.rules[f]
<1>1. CASE prune
  <2> DEFINE w == With(p, WrittenRows(p, d), PrunedRules(d))
  <2>1. \A f \in Refs : q.rules[f] = IF Names(w.rules[f]) \cap (Rows(p) \ DOMAIN d.groups) # {}
                                    THEN NoRule ELSE w.rules[f]
    <3>1. q = Without(w, Rows(p) \ DOMAIN d.groups)
      BY <1>1, AppliedParts DEF Sound
    <3> HIDE DEF w
    <3> QED
      BY <3>1, WithoutParts
  <2>2. w.rules = PrunedRules(d)
    BY DEF With
  <2>3. \A f \in Refs : Names(PrunedRules(d)[f]) \subseteq DOMAIN d.groups
    BY NoRuleIsARule DEF PrunedRules, SelfContained
  <2> QED
    BY <1>1, <2>1, <2>2, <2>3 DEF PrunedRules
<1>2. CASE ~prune
  <2>1. q = With(p, WrittenRows(p, d), WrittenRules(p, d))
    BY <1>2, AppliedParts DEF Sound
  <2> QED
    BY <1>2, <2>1 DEF With, WrittenRules
<1> QED
  BY <1>1, <1>2

LEMMA ImportAsShown ==
    ASSUME NEW p, Sound(p), NEW d, IsDocument(d), SelfContained(d), NEW prune \in BOOLEAN
    PROVE  Changed(p, Applied(p, d, prune)) = Diff(p, d, prune)
<1> DEFINE q == Applied(p, d, prune)
<1>1. /\ Rows(q) = IF prune THEN DOMAIN d.groups ELSE Rows(p) \cup DOMAIN d.groups
      /\ \A s \in Rows(q) : Stored(q, s) = IF s \in DOMAIN d.groups THEN Written(d, s)
                                           ELSE Stored(p, s)
  BY RowsApplied
<1>2. \A f \in Refs : q.rules[f] = IF f \in DOMAIN d.rules THEN d.rules[f]
                                   ELSE IF prune THEN NoRule ELSE p.rules[f]
  BY RulesApplied
<1>3. DOMAIN d.rules \subseteq Refs /\ \A f \in DOMAIN d.rules : d.rules[f].there
  BY DEF IsDocument
<1> HIDE DEF q
<1>4. Rules(q) = IF prune THEN DOMAIN d.rules ELSE Rules(p) \cup DOMAIN d.rules
  BY <1>2, <1>3 DEF Rules, NoRule
<1>5. Rules(p) \subseteq Refs
  BY DEF Rules
<1>6. {s \in Rows(p) \cap Rows(q) : Stored(p, s) # Stored(q, s)} =
      {s \in DOMAIN d.groups \cap Rows(p) : Written(d, s) # Stored(p, s)}
  BY <1>1
<1>7. {f \in Rules(p) \cap Rules(q) : p.rules[f] # q.rules[f]} =
      {f \in DOMAIN d.rules \cap Rules(p) : d.rules[f] # p.rules[f]}
  BY <1>2, <1>4, <1>5
<1>8. /\ Rows(q) \ Rows(p) = DOMAIN d.groups \ Rows(p)
      /\ Rows(p) \ Rows(q) = IF prune THEN Rows(p) \ DOMAIN d.groups ELSE {}
      /\ Rules(q) \ Rules(p) = DOMAIN d.rules \ Rules(p)
      /\ Rules(p) \ Rules(q) = IF prune THEN Rules(p) \ DOMAIN d.rules ELSE {}
  BY <1>1, <1>4
<1> QED
  BY <1>6, <1>7, <1>8 DEF Changed, Diff, q

\* The steps of one kind: only an import writes that it was one.
LEMMA EditsAreNamed ==
    ASSUME Next
    PROVE  \/ last'.op = "edit"
           \/ \E s \in Slugs, kind \in {"group", "zone"} : Delete(s, kind) /\ last' = [op |-> "delete", of |-> s]
           \/ \E d \in Documents, prune \in BOOLEAN :
                Import(d, prune) /\ last' = [op |-> "import", shown |-> Diff(policy, d, prune), of |-> d]
<1>1. ASSUME NEW p, Edited(p)
      PROVE  last'.op = "edit"
  BY <1>1 DEF Edited, Commit
<1>2. ASSUME NEW s \in Slugs, EditRows(s)
      PROVE  \/ last'.op = "edit"
             \/ \E kind \in {"group", "zone"} : Delete(s, kind)
  BY <1>1, <1>2 DEF EditRows, CreateGroup, CreateZone, Create, UpdateGroup, UpdateZone, DeleteGroup,
                    DeleteZone
<1>3. ASSUME EditRoutes
      PROVE  last'.op = "edit"
  BY <1>1, <1>3 DEF EditRoutes, CreateRoute, DeleteRoute, UpdateRoute
<1>4. ASSUME NEW f \in Refs, EditRules(f)
      PROVE  last'.op = "edit"
  BY <1>1, <1>4 DEF EditRules, CreateRule, UpdateRule, DeleteRule
<1>5. ASSUME NEW h \in Peers, EditPeer(h)
      PROVE  last'.op = "edit"
  BY <1>1, <1>5 DEF EditPeer, AssignGroups, AssignZone, MoveState
<1>6. ASSUME NEW s, NEW kind, Delete(s, kind)
      PROVE  last' = [op |-> "delete", of |-> s]
  BY <1>6 DEF Delete, Commit
<1>7. ASSUME NEW d, NEW prune, Import(d, prune)
      PROVE  last' = [op |-> "import", shown |-> Diff(policy, d, prune), of |-> d]
  BY <1>7 DEF Import, Commit
<1> QED
  BY <1>2, <1>3, <1>4, <1>5, <1>6, <1>7 DEF Next

\* An import creates, changes and deletes exactly the groups, zones and rules that
\* its response shows (services/policies.py, compute_diff and apply_document),
\* pruned or not, for a document whose rules name only groups it has.
THEOREM ImportsDoWhatTheyShow == Spec => ImportDoesWhatItShows
<1>1. ASSUME TypeOK, [Next]_vars
      PROVE  [last'.op = "import" /\ SelfContained(last'.of)
                => Changed(policy, policy') = last'.shown]_vars
  <2>1. CASE UNCHANGED vars
    BY <2>1
  <2>2. CASE Next
    <3> SUFFICES ASSUME last'.op = "import", SelfContained(last'.of)
                 PROVE  Changed(policy, policy') = last'.shown
      OBVIOUS
    <3>1. PICK d \in Documents, prune \in BOOLEAN :
            Import(d, prune) /\ last' = [op |-> "import", shown |-> Diff(policy, d, prune), of |-> d]
      BY <2>2, EditsAreNamed
    <3>2. Sound(policy) /\ IsDocument(d) /\ SelfContained(d)
      BY <1>1, <3>1, PolicyAssumption DEF TypeOK, Sound
    <3>3. policy' = Applied(policy, d, prune)
      BY <3>1 DEF Import, Commit
    <3> QED
      BY <3>1, <3>2, <3>3, ImportAsShown
  <2> QED
    BY <1>1, <2>1, <2>2
<1> QED
  BY <1>1, PolicyInit, PolicyStep, PTL DEF Spec, ImportDoesWhatItShows

-----------------------------------------------------------------------------
(* Sequences                                                               *)

\* A non-empty set of naturals has a least element.
LEMMA LeastNatural ==
    ASSUME NEW I \in SUBSET Nat, I # {}
    PROVE  Min(I) \in I /\ \A i \in I : Min(I) <= i
<1> DEFINE R == {ss \in Nat \X Nat : ss[1] < ss[2]}
<1>1. IsWellFoundedOn(R, Nat)
  BY NatLessThanWellFounded, Zenon DEF OpToRel
<1>2. \E x \in I : \A y \in I : ~(<<y, x>> \in R)
  <2> HIDE DEF R
  <2> QED
    BY <1>1, WFMin
<1>3. PICK x \in I : \A y \in I : ~(<<y, x>> \in R)
  BY <1>2
<1>4. ASSUME NEW y \in I PROVE x <= y
  <2>1. x \in Nat /\ y \in Nat
    OBVIOUS
  <2>2. <<y, x>> \in Nat \X Nat /\ <<y, x>>[1] = y /\ <<y, x>>[2] = x
    BY <2>1
  <2>3. ~(y < x)
    BY <1>3, <2>2
  <2> QED
    BY <2>1, <2>3
<1> QED
  BY <1>4 DEF Min

\* The listing of a finite set has each element of it.
LEMMA Listed ==
    ASSUME NEW S, IsFiniteSet(S)
    PROVE  /\ Cardinality(S) \in Nat
           /\ SetToSeq(S) \in [1..Cardinality(S) -> S]
           /\ \A x \in S : \E i \in 1..Cardinality(S) : SetToSeq(S)[i] = x
<1> DEFINE n == Cardinality(S)
<1>1. n \in Nat /\ ExistsBijection(1..n, S)
  BY FS_CardinalityType
<1>2. \E f \in [1..n -> S] : IsInjective(f)
  BY <1>1 DEF ExistsBijection, Bijection, Injection
<1>3. SetToSeq(S) \in [1..n -> S] /\ IsInjective(SetToSeq(S))
  BY <1>2 DEF SetToSeq
<1>4. IsFiniteSet(1..n) /\ Cardinality(1..n) = n
  BY <1>1, FS_Interval
<1>5. SetToSeq(S) \in Surjection(1..n, S)
  BY <1>3, <1>4, FS_Injection DEF Injection
<1> QED
  BY <1>1, <1>3, <1>5 DEF Surjection

-----------------------------------------------------------------------------
(* The verdict of a chain                                                  *)

Entries == [src: SUBSET (Hosts \cup {Gateway}), dst: SUBSET (Hosts \cup {Gateway}),
            flows: SUBSET Flows, ports: SUBSET Ports, verdict: {"accept", "drop"}]

\* What a part of a chain says of a packet, if anything.
Result(chain, k) ==
    IF \E i \in 1..Len(chain) : Matches(chain[i], k) THEN Verdict(chain, k) ELSE "none"

\* The entry i is the first to match.
IsFirst(chain, k, i) ==
    /\ i \in 1..Len(chain) /\ Matches(chain[i], k)
    /\ \A j \in 1..Len(chain) : Matches(chain[j], k) => i <= j

LEMMA FirstDecides ==
    ASSUME NEW chain \in Seq(Entries), NEW k, NEW i, IsFirst(chain, k, i)
    PROVE  Verdict(chain, k) = chain[i].verdict /\ Result(chain, k) = chain[i].verdict
<1> DEFINE I == {j \in 1..Len(chain) : Matches(chain[j], k)}
<1>1. i \in I /\ \A j \in I : i <= j
  BY DEF IsFirst
<1>2. I \subseteq Nat
  OBVIOUS
<1>3. Min(I) = i
  <2> HIDE DEF I
  <2>1. \A j \in I : (\A l \in I : j <= l) => j = i
    BY <1>1, <1>2
  <2> QED
    BY <1>1, <2>1 DEF Min
<1>4. Verdict(chain, k) = chain[Min(I)].verdict
  BY <1>1 DEF Verdict, SelectInSeq
<1> QED
  BY <1>1, <1>3, <1>4 DEF Result

LEMMA SomeIsFirst ==
    ASSUME NEW chain \in Seq(Entries), NEW k, \E i \in 1..Len(chain) : Matches(chain[i], k)
    PROVE  \E i \in 1..Len(chain) : IsFirst(chain, k, i)
<1> DEFINE I == {j \in 1..Len(chain) : Matches(chain[j], k)}
<1>1. I \in SUBSET Nat /\ I # {}
  OBVIOUS
<1>2. Min(I) \in I /\ \A i \in I : Min(I) <= i
  <2> HIDE DEF I
  <2> QED
    BY <1>1, LeastNatural
<1> QED
  BY <1>2 DEF IsFirst

LEMMA SaysOrNot ==
    ASSUME NEW chain \in Seq(Entries), NEW k
    PROVE  /\ Result(chain, k) \in {"accept", "drop", "none"}
           /\ Result(chain, k) = "none" <=> \A i \in 1..Len(chain) : ~Matches(chain[i], k)
<1>1. CASE \E i \in 1..Len(chain) : Matches(chain[i], k)
  <2>1. PICK i \in 1..Len(chain) : IsFirst(chain, k, i)
    BY <1>1, SomeIsFirst
  <2>2. Result(chain, k) = chain[i].verdict /\ chain[i] \in Entries
    BY <2>1, FirstDecides
  <2> QED
    BY <1>1, <2>2 DEF Entries
<1>2. CASE ~\E i \in 1..Len(chain) : Matches(chain[i], k)
  BY <1>2 DEF Result
<1> QED
  BY <1>1, <1>2

\* Of two parts, the first that says something decides.
LEMMA ResultOfTwo ==
    ASSUME NEW a \in Seq(Entries), NEW b \in Seq(Entries), NEW k
    PROVE  /\ a \o b \in Seq(Entries)
           /\ Result(a \o b, k) = IF Result(a, k) = "none" THEN Result(b, k) ELSE Result(a, k)
<1> DEFINE c == a \o b
<1>1. /\ c \in Seq(Entries) /\ Len(c) = Len(a) + Len(b)
      /\ Len(a) \in Nat /\ Len(b) \in Nat
      /\ \A i \in 1..Len(a) : c[i] = a[i]
      /\ \A i \in 1..Len(b) : c[Len(a) + i] = b[i]
      /\ \A i \in 1..Len(c) :
           i \in 1..Len(a) \/ (i > Len(a) /\ i - Len(a) \in 1..Len(b) /\ c[i] = b[i - Len(a)])
  <2>1. Len(a) \in Nat /\ Len(b) \in Nat /\ c \in Seq(Entries) /\ Len(c) = Len(a) + Len(b)
    OBVIOUS
  <2>2. \A i \in 1..(Len(a) + Len(b)) : c[i] = IF i <= Len(a) THEN a[i] ELSE b[i - Len(a)]
    OBVIOUS
  <2> HIDE DEF c
  <2>3. ASSUME NEW i \in 1..Len(b) PROVE c[Len(a) + i] = b[i]
    <3>1. /\ Len(a) + i \in 1..(Len(a) + Len(b))
          /\ ~(Len(a) + i <= Len(a)) /\ (Len(a) + i) - Len(a) = i
      BY <2>1
    <3> QED
      BY <2>2, <3>1
  <2>4. ASSUME NEW i \in 1..Len(c), ~(i <= Len(a))
        PROVE  i > Len(a) /\ i - Len(a) \in 1..Len(b) /\ c[i] = b[i - Len(a)]
    <3>1. i \in 1..(Len(a) + Len(b)) /\ i > Len(a) /\ i - Len(a) \in 1..Len(b)
      BY <2>1, <2>4
    <3> QED
      BY <2>2, <2>4, <3>1
  <2>5. ASSUME NEW i \in 1..Len(a) PROVE c[i] = a[i]
    BY <2>1, <2>2
  <2> QED
    BY <2>1, <2>3, <2>4, <2>5
<1> HIDE DEF c
<1>2. CASE \E i \in 1..Len(a) : Matches(a[i], k)
  <2>1. PICK i \in 1..Len(a) : IsFirst(a, k, i)
    BY <1>2, SomeIsFirst
  <2>2. IsFirst(c, k, i)
    <3>1. ASSUME NEW j \in 1..Len(c), Matches(c[j], k) PROVE i <= j
      BY <1>1, <2>1, <3>1 DEF IsFirst
    <3> QED
      BY <1>1, <2>1, <3>1 DEF IsFirst
  <2>3. Result(a, k) = a[i].verdict /\ Result(c, k) = c[i].verdict /\ Result(a, k) # "none"
    BY <1>1, <1>2, <2>1, <2>2, FirstDecides, SaysOrNot
  <2> QED
    BY <1>1, <2>3 DEF c
<1>3. CASE (\A i \in 1..Len(a) : ~Matches(a[i], k)) /\ \E i \in 1..Len(b) : Matches(b[i], k)
  <2>1. PICK i \in 1..Len(b) : IsFirst(b, k, i)
    BY <1>3, SomeIsFirst
  <2>2. IsFirst(c, k, Len(a) + i)
    <3>1. ASSUME NEW j \in 1..Len(c), Matches(c[j], k) PROVE Len(a) + i <= j
      <4>1. j - Len(a) \in 1..Len(b) /\ Matches(b[j - Len(a)], k)
        BY <1>1, <1>3, <3>1
      <4>2. i <= j - Len(a)
        BY <2>1, <4>1 DEF IsFirst
      <4> QED
        BY <1>1, <4>1, <4>2
    <3> QED
      BY <1>1, <2>1, <3>1 DEF IsFirst
  <2>3. Result(b, k) = b[i].verdict /\ Result(c, k) = c[Len(a) + i].verdict /\ Result(a, k) = "none"
    BY <1>1, <1>3, <2>1, <2>2, FirstDecides, SaysOrNot
  <2> QED
    BY <1>1, <2>3 DEF c
<1>4. CASE (\A i \in 1..Len(a) : ~Matches(a[i], k)) /\ \A i \in 1..Len(b) : ~Matches(b[i], k)
  <2>1. \A i \in 1..Len(c) : ~Matches(c[i], k)
    BY <1>1, <1>4
  <2> QED
    BY <1>1, <1>4, <2>1, SaysOrNot DEF c
<1> QED
  BY <1>2, <1>3, <1>4

LEMMA ResultOfNone ==
    ASSUME NEW k
    PROVE  <<>> \in Seq(Entries) /\ Result(<<>>, k) = "none"
BY DEF Result

LEMMA ResultOfOne ==
    ASSUME NEW e \in Entries, NEW k
    PROVE  /\ <<e>> \in Seq(Entries)
           /\ Result(<<e>>, k) = IF Matches(e, k) THEN e.verdict ELSE "none"
<1>1. <<e>> \in Seq(Entries) /\ Len(<<e>>) = 1 /\ <<e>>[1] = e
  OBVIOUS
<1>2. CASE Matches(e, k)
  <2>1. IsFirst(<<e>>, k, 1)
    BY <1>1, <1>2 DEF IsFirst
  <2>2. Result(<<e>>, k) = <<e>>[1].verdict
    BY <1>1, <2>1, FirstDecides
  <2> QED
    BY <1>1, <1>2, <2>2
<1>3. CASE ~Matches(e, k)
  BY <1>1, <1>3, SaysOrNot
<1> QED
  BY <1>1, <1>2, <1>3

LEMMA ResultOfTwoEntries ==
    ASSUME NEW c \in Seq(Entries), Len(c) = 2, NEW k
    PROVE
           Result(c, k) = IF Matches(c[1], k) THEN c[1].verdict
                          ELSE IF Matches(c[2], k) THEN c[2].verdict ELSE "none"
<1>1. CASE Matches(c[1], k)
  <2>1. IsFirst(c, k, 1)
    BY <1>1 DEF IsFirst
  <2> QED
    BY <1>1, <2>1, FirstDecides
<1>2. CASE ~Matches(c[1], k) /\ Matches(c[2], k)
  <2>1. IsFirst(c, k, 2)
    BY <1>2 DEF IsFirst
  <2> QED
    BY <1>2, <2>1, FirstDecides
<1>3. CASE ~Matches(c[1], k) /\ ~Matches(c[2], k)
  <2>1. \A i \in 1..Len(c) : ~Matches(c[i], k)
    BY <1>3
  <2> QED
    BY <1>3, <2>1, SaysOrNot
<1> QED
  BY <1>1, <1>2, <1>3

LEMMA ResultOfThree ==
    ASSUME NEW c \in Seq(Entries), Len(c) = 3, NEW k
    PROVE
           Result(c, k) = IF Matches(c[1], k) THEN c[1].verdict
                          ELSE IF Matches(c[2], k) THEN c[2].verdict
                          ELSE IF Matches(c[3], k) THEN c[3].verdict ELSE "none"
<1>1. CASE Matches(c[1], k)
  <2>1. IsFirst(c, k, 1)
    BY <1>1 DEF IsFirst
  <2> QED
    BY <1>1, <2>1, FirstDecides
<1>2. CASE ~Matches(c[1], k) /\ Matches(c[2], k)
  <2>1. IsFirst(c, k, 2)
    BY <1>2 DEF IsFirst
  <2> QED
    BY <1>2, <2>1, FirstDecides
<1>3. CASE ~Matches(c[1], k) /\ ~Matches(c[2], k) /\ Matches(c[3], k)
  <2>1. IsFirst(c, k, 3)
    BY <1>3 DEF IsFirst
  <2> QED
    BY <1>3, <2>1, FirstDecides
<1>4. CASE ~Matches(c[1], k) /\ ~Matches(c[2], k) /\ ~Matches(c[3], k)
  <2>1. \A i \in 1..Len(c) : ~Matches(c[i], k)
    BY <1>4
  <2> QED
    BY <1>4, <2>1, SaysOrNot
<1> QED
  BY <1>1, <1>2, <1>3, <1>4

LEMMA ResultWhen ==
    ASSUME NEW cond \in BOOLEAN, NEW e \in Entries, NEW k
    PROVE  LET part == IF cond THEN <<e>> ELSE <<>> IN
           /\ part \in Seq(Entries)
           /\ Result(part, k) = IF cond /\ Matches(e, k) THEN e.verdict ELSE "none"
<1>1. CASE cond
  BY <1>1, ResultOfOne
<1>2. CASE ~cond
  BY <1>2, ResultOfNone
<1> QED
  BY <1>1, <1>2

LEMMA PacketParts ==
    ASSUME NEW k \in Packets
    PROVE  /\ k.src \in Hosts /\ k.flow \in Flows /\ k.port \in Ports
           /\ k.dst = Gateway \/ k.dst \in Hosts
BY DEF Packets, Ports

LEMMA HostsParts ==
    /\ Tunnel \subseteq Hosts /\ Gateway \notin Hosts
    /\ \A p : Confined(p) \subseteq Peers /\ Confined(p) \subseteq Tunnel
    /\ Restricted \in BOOLEAN /\ PortalAnswers \in BOOLEAN
    /\ DnsInQuarantine \in BOOLEAN /\ PingInQuarantine \in BOOLEAN
<1>1. Behind \subseteq Nets /\ Gateway \notin Hosts
  BY PolicyAssumption
<1>2. Tunnel \subseteq Hosts
  BY <1>1 DEF Tunnel, Hosts
<1>3. \A p : Confined(p) \subseteq Peers /\ Confined(p) \subseteq Tunnel
  BY DEF Confined, Tunnel
<1>4. {Restricted, PortalAnswers, DnsInQuarantine, PingInQuarantine} \subseteq BOOLEAN
  BY PolicyAssumption
<1> QED
  BY <1>1, <1>2, <1>3, <1>4

\* What the gateway answers of itself is what the policy says.
LEMMA InputAsStated ==
    ASSUME NEW p, NEW k \in Packets, k.dst = Gateway
    PROVE  Verdict(InputChain(p), k) = "accept" <=> MayPass(p, k)
<1> DEFINE C == Confined(p)
           from(src, port) == Entry(src, {Gateway}, Flows, {port}, "accept")
           when(cond, entry) == IF cond THEN <<entry>> ELSE <<>>
           head == <<All(Hosts \ Tunnel, {Gateway}, "accept"),
                     Entry(Hosts, {Gateway}, {"invalid"}, Ports, "drop")>>
           open == <<All(C, {Gateway}, "drop"),
                     Entry(Hosts, {Gateway}, {"established"}, Ports, "accept"),
                     from(Hosts, "icmp_error")>>
           last2 == <<from(Hosts, "proxy"), All(Hosts, {Gateway}, "drop")>>
           w1 == when(PortalAnswers, from(C, "portal"))
           w2 == when(DnsInQuarantine, from(C, "dns"))
           w3 == when(PingInQuarantine, from(C, "ping"))
           h1 == when(PortalAnswers, from(Hosts, "portal"))
           h2 == when(DnsInQuarantine, from(Hosts, "dns"))
           h3 == when(PingInQuarantine, from(Hosts, "ping"))
           some == h1 \o h2 \o h3 \o last2
           any == <<All(Hosts, {Gateway}, "accept")>>
           tail == IF Restricted THEN some ELSE any
<1>1. InputChain(p) = head \o w1 \o w2 \o w3 \o open \o tail
  BY DEF InputChain
<1>k. k.src \in Hosts /\ k.flow \in Flows /\ k.port \in Ports /\ k.dst = Gateway
  BY PacketParts
<1>h. /\ Tunnel \subseteq Hosts /\ Gateway \notin Hosts /\ C \subseteq Tunnel /\ C \subseteq Peers
      /\ Restricted \in BOOLEAN /\ PortalAnswers \in BOOLEAN
      /\ DnsInQuarantine \in BOOLEAN /\ PingInQuarantine \in BOOLEAN
  BY HostsParts
<1>s. /\ Hosts \in SUBSET (Hosts \cup {Gateway}) /\ {Gateway} \in SUBSET (Hosts \cup {Gateway})
      /\ Hosts \ Tunnel \in SUBSET (Hosts \cup {Gateway}) /\ C \in SUBSET (Hosts \cup {Gateway})
      /\ Flows \in SUBSET Flows /\ Ports \in SUBSET Ports
      /\ {"invalid"} \in SUBSET Flows /\ {"established"} \in SUBSET Flows
      /\ \A port \in Ports : {port} \in SUBSET Ports
  BY <1>h DEF Flows
<1>2. /\ head \in Seq(Entries)
      /\ Result(head, k) = IF k.src \notin Tunnel THEN "accept"
                            ELSE IF k.flow = "invalid" THEN "drop" ELSE "none"
  <2> DEFINE e == All(Hosts \ Tunnel, {Gateway}, "accept")
             f == Entry(Hosts, {Gateway}, {"invalid"}, Ports, "drop")
  <2>1. e \in Entries /\ e.verdict = "accept" /\ (Matches(e, k) <=> k.src \notin Tunnel)
    BY <1>s, <1>k, <1>h DEF All, Entry, Entries, Matches
  <2>2. f \in Entries /\ f.verdict = "drop" /\ (Matches(f, k) <=> k.flow = "invalid")
    BY <1>s, <1>k, <1>h DEF Entry, Entries, Matches
  <2> HIDE DEF e, f
  <2>3. <<e, f>> \in Seq(Entries) /\ Len(<<e, f>>) = 2 /\ <<e, f>>[1] = e /\ <<e, f>>[2] = f
    BY <2>1, <2>2
  <2>4. Result(<<e, f>>, k) = IF Matches(e, k) THEN e.verdict
                              ELSE IF Matches(f, k) THEN f.verdict ELSE "none"
    BY <2>3, ResultOfTwoEntries
  <2>5. head = <<e, f>>
    BY DEF e, f
  <2> QED
    BY <2>1, <2>2, <2>3, <2>4, <2>5
<1>3. ASSUME NEW cond \in BOOLEAN, NEW src \in {C, Hosts}, NEW port \in Ports
      PROVE  /\ when(cond, from(src, port)) \in Seq(Entries)
             /\ Result(when(cond, from(src, port)), k) =
                  IF cond /\ k.src \in src /\ k.port = port THEN "accept" ELSE "none"
  <2> DEFINE e == from(src, port)
  <2>1. e \in Entries /\ e.verdict = "accept"
        /\ (Matches(e, k) <=> k.src \in src /\ k.port = port)
    BY <1>s, <1>k, <1>h DEF Entry, Entries, Matches
  <2> HIDE DEF e
  <2>2. when(cond, e) \in Seq(Entries)
        /\ Result(when(cond, e), k) = IF cond /\ Matches(e, k) THEN e.verdict ELSE "none"
    BY <2>1, ResultWhen
  <2>3. when(cond, from(src, port)) = when(cond, e)
    BY DEF e
  <2> QED
    BY <2>1, <2>2, <2>3
<1>4. /\ open \in Seq(Entries)
      /\ Result(open, k) = IF k.src \in C THEN "drop"
                           ELSE IF k.flow = "established" THEN "accept"
                           ELSE IF k.port = "icmp_error" THEN "accept" ELSE "none"
  <2> DEFINE e == All(C, {Gateway}, "drop")
             f == Entry(Hosts, {Gateway}, {"established"}, Ports, "accept")
             g == from(Hosts, "icmp_error")
  <2>1. e \in Entries /\ e.verdict = "drop" /\ (Matches(e, k) <=> k.src \in C)
    BY <1>s, <1>k, <1>h DEF All, Entry, Entries, Matches
  <2>2. f \in Entries /\ f.verdict = "accept" /\ (Matches(f, k) <=> k.flow = "established")
    BY <1>s, <1>k, <1>h DEF Entry, Entries, Matches
  <2>3. g \in Entries /\ g.verdict = "accept" /\ (Matches(g, k) <=> k.port = "icmp_error")
    <3>1. "icmp_error" \in Ports
      BY DEF Ports
    <3> QED
      BY <3>1, <1>s, <1>k, <1>h DEF Entry, Entries, Matches
  <2> HIDE DEF e, f, g
  <2>4. /\ <<e, f, g>> \in Seq(Entries) /\ Len(<<e, f, g>>) = 3
        /\ <<e, f, g>>[1] = e /\ <<e, f, g>>[2] = f /\ <<e, f, g>>[3] = g
    BY <2>1, <2>2, <2>3
  <2>5. Result(<<e, f, g>>, k) = IF Matches(e, k) THEN e.verdict
                                 ELSE IF Matches(f, k) THEN f.verdict
                                 ELSE IF Matches(g, k) THEN g.verdict ELSE "none"
    BY <2>4, ResultOfThree
  <2>6. open = <<e, f, g>>
    BY DEF e, f, g
  <2> QED
    BY <2>1, <2>2, <2>3, <2>4, <2>5, <2>6
<1>5. /\ last2 \in Seq(Entries)
      /\ Result(last2, k) = IF k.port = "proxy" THEN "accept" ELSE "drop"
  <2> DEFINE e == from(Hosts, "proxy")
             f == All(Hosts, {Gateway}, "drop")
  <2>1. e \in Entries /\ e.verdict = "accept" /\ (Matches(e, k) <=> k.port = "proxy")
    <3>1. "proxy" \in Ports
      BY DEF Ports
    <3> QED
      BY <3>1, <1>s, <1>k, <1>h DEF Entry, Entries, Matches
  <2>2. f \in Entries /\ f.verdict = "drop" /\ Matches(f, k)
    BY <1>s, <1>k, <1>h DEF All, Entry, Entries, Matches
  <2> HIDE DEF e, f
  <2>3. <<e, f>> \in Seq(Entries) /\ Len(<<e, f>>) = 2 /\ <<e, f>>[1] = e /\ <<e, f>>[2] = f
    BY <2>1, <2>2
  <2>4. Result(<<e, f>>, k) = IF Matches(e, k) THEN e.verdict
                              ELSE IF Matches(f, k) THEN f.verdict ELSE "none"
    BY <2>3, ResultOfTwoEntries
  <2>5. last2 = <<e, f>>
    BY DEF e, f
  <2> QED
    BY <2>1, <2>2, <2>3, <2>4, <2>5
<1>6. any \in Seq(Entries) /\ Result(any, k) = "accept"
  <2> DEFINE e == All(Hosts, {Gateway}, "accept")
  <2>1. e \in Entries /\ e.verdict = "accept" /\ Matches(e, k)
    BY <1>s, <1>k, <1>h DEF All, Entry, Entries, Matches
  <2> HIDE DEF e
  <2>2. <<e>> \in Seq(Entries) /\ Result(<<e>>, k) = "accept"
    BY <2>1, ResultOfOne
  <2> QED
    BY <2>2 DEF e
<1>7. /\ w1 \in Seq(Entries) /\ w2 \in Seq(Entries) /\ w3 \in Seq(Entries)
      /\ Result(w1, k) = IF PortalAnswers /\ k.src \in C /\ k.port = "portal" THEN "accept" ELSE "none"
      /\ Result(w2, k) = IF DnsInQuarantine /\ k.src \in C /\ k.port = "dns" THEN "accept" ELSE "none"
      /\ Result(w3, k) = IF PingInQuarantine /\ k.src \in C /\ k.port = "ping" THEN "accept" ELSE "none"
  <2>1. "portal" \in Ports /\ "dns" \in Ports /\ "ping" \in Ports
    BY DEF Ports
  <2> QED
    BY <1>3, <1>h, <2>1
<1>8. /\ h1 \in Seq(Entries) /\ h2 \in Seq(Entries) /\ h3 \in Seq(Entries)
      /\ Result(h1, k) = IF PortalAnswers /\ k.port = "portal" THEN "accept" ELSE "none"
      /\ Result(h2, k) = IF DnsInQuarantine /\ k.port = "dns" THEN "accept" ELSE "none"
      /\ Result(h3, k) = IF PingInQuarantine /\ k.port = "ping" THEN "accept" ELSE "none"
  <2>1. "portal" \in Ports /\ "dns" \in Ports /\ "ping" \in Ports
    BY DEF Ports
  <2> QED
    BY <1>3, <1>h, <1>k, <2>1
<1> HIDE DEF C, when, from, head, open, last2, any, w1, w2, w3, h1, h2, h3
<1>9. /\ tail \in Seq(Entries)
      /\ Result(tail, k) = IF \/ ~Restricted \/ k.port = "proxy"
                              \/ k.port = "portal" /\ PortalAnswers
                              \/ k.port = "dns" /\ DnsInQuarantine
                              \/ k.port = "ping" /\ PingInQuarantine
                           THEN "accept" ELSE "drop"
  <2>1. /\ h1 \o h2 \in Seq(Entries)
        /\ Result(h1 \o h2, k) = IF Result(h1, k) = "none" THEN Result(h2, k) ELSE Result(h1, k)
    BY <1>8, ResultOfTwo
  <2> DEFINE s2 == h1 \o h2
  <2> HIDE DEF s2
  <2>2. /\ s2 \o h3 \in Seq(Entries)
        /\ Result(s2 \o h3, k) = IF Result(s2, k) = "none" THEN Result(h3, k) ELSE Result(s2, k)
    BY <2>1, <1>8, ResultOfTwo DEF s2
  <2> DEFINE s3 == s2 \o h3
  <2> HIDE DEF s3
  <2>3. /\ s3 \o last2 \in Seq(Entries)
        /\ Result(s3 \o last2, k) = IF Result(s3, k) = "none" THEN Result(last2, k) ELSE Result(s3, k)
    BY <2>2, <1>5, ResultOfTwo DEF s3
  <2>4. some = s3 \o last2
    BY DEF s2, s3
  <2> HIDE DEF some
  <2>5. /\ some \in Seq(Entries)
        /\ Result(some, k) = IF \/ k.port = "proxy"
                                \/ k.port = "portal" /\ PortalAnswers
                                \/ k.port = "dns" /\ DnsInQuarantine
                                \/ k.port = "ping" /\ PingInQuarantine
                             THEN "accept" ELSE "drop"
    BY <2>1, <2>2, <2>3, <2>4, <1>5, <1>8 DEF s2, s3
  <2> QED
    BY <2>5, <1>6, <1>h
<1> HIDE DEF tail
<1>10. \A a, b : a \in Seq(Entries) /\ b \in Seq(Entries)
          => /\ a \o b \in Seq(Entries)
             /\ Result(a \o b, k) = IF Result(a, k) = "none" THEN Result(b, k) ELSE Result(a, k)
  BY ResultOfTwo
<1> DEFINE c1 == head \o w1
           c2 == c1 \o w2
           c3 == c2 \o w3
           c4 == c3 \o open
           c5 == c4 \o tail
<1>11. c1 \in Seq(Entries)
       /\ Result(c1, k) = IF Result(head, k) = "none" THEN Result(w1, k) ELSE Result(head, k)
  BY <1>2, <1>7, <1>10
<1>12. c2 \in Seq(Entries)
       /\ Result(c2, k) = IF Result(c1, k) = "none" THEN Result(w2, k) ELSE Result(c1, k)
  <2> HIDE DEF c1
  <2> QED
    BY <1>11, <1>7, <1>10
<1>13. c3 \in Seq(Entries)
       /\ Result(c3, k) = IF Result(c2, k) = "none" THEN Result(w3, k) ELSE Result(c2, k)
  <2> HIDE DEF c2
  <2> QED
    BY <1>12, <1>7, <1>10
<1>14. c4 \in Seq(Entries)
       /\ Result(c4, k) = IF Result(c3, k) = "none" THEN Result(open, k) ELSE Result(c3, k)
  <2> HIDE DEF c3
  <2> QED
    BY <1>13, <1>4, <1>10
<1>15. c5 \in Seq(Entries)
       /\ Result(c5, k) = IF Result(c4, k) = "none" THEN Result(tail, k) ELSE Result(c4, k)
  <2> HIDE DEF c4
  <2> QED
    BY <1>14, <1>9, <1>10
<1>16. InputChain(p) = c5
  BY <1>1
<1> HIDE DEF c1, c2, c3, c4, c5
<1>17. Result(c5, k) # "none" /\ (Result(c5, k) = "accept" <=> MayPass(p, k))
  <2>1. k.dst \notin Tunnel /\ k.dst \notin Confined(p)
    BY <1>k, <1>h DEF C
  <2>2. k.flow \in {"new", "established", "invalid"}
    BY <1>k DEF Flows
  <2> QED
    BY <1>2, <1>4, <1>7, <1>9, <1>11, <1>12, <1>13, <1>14, <1>15, <1>k, <1>h, <2>1, <2>2
       DEF MayPass, C
<1> QED
  BY <1>15, <1>16, <1>17, SaysOrNot DEF Result

-----------------------------------------------------------------------------
(* The order of the rules                                                  *)

\* A finite set with a strict total order has a sorted listing: an element's
\* place is the number of those before it.
LEMMA SortedListing ==
    ASSUME NEW S, IsFiniteSet(S), NEW R,
           \A x \in S : <<x, x>> \notin R,
           \A x, y, z \in S : <<x, y>> \in R /\ <<y, z>> \in R => <<x, z>> \in R,
           \A x, y \in S : x # y => <<x, y>> \in R \/ <<y, x>> \in R
    PROVE  \E s \in [1..Cardinality(S) -> S] :
             \A i, j \in 1..Cardinality(S) : i < j => <<s[i], s[j]>> \in R
<1> DEFINE n == Cardinality(S)
           before(x) == {y \in S : <<y, x>> \in R}
           place == [x \in S |-> Cardinality(before(x)) + 1]
<1>1. n \in Nat /\ IsFiniteSet(1..n) /\ Cardinality(1..n) = n
  BY FS_CardinalityType, FS_Interval
<1>2. ASSUME NEW x \in S
      PROVE  IsFiniteSet(before(x)) /\ Cardinality(before(x)) \in Nat /\ Cardinality(before(x)) + 1 \in 1..n
  <2>1. before(x) \in SUBSET S /\ x \notin before(x)
    OBVIOUS
  <2> HIDE DEF before
  <2>2. IsFiniteSet(before(x)) /\ Cardinality(before(x)) <= n
        /\ (n = Cardinality(before(x)) => S = before(x))
    BY <2>1, FS_Subset
  <2>3. Cardinality(before(x)) \in Nat
    BY <2>2, FS_CardinalityType
  <2> QED
    BY <1>1, <2>1, <2>2, <2>3
<1>3. ASSUME NEW x \in S, NEW y \in S, <<x, y>> \in R
      PROVE  place[x] < place[y]
  <2>1. before(x) \in SUBSET before(y) /\ x \in before(y) /\ x \notin before(x)
    BY <1>3
  <2>2. IsFiniteSet(before(y)) /\ Cardinality(before(x)) \in Nat /\ Cardinality(before(y)) \in Nat
    BY <1>2
  <2>3. place[x] = Cardinality(before(x)) + 1 /\ place[y] = Cardinality(before(y)) + 1
    OBVIOUS
  <2> HIDE DEF before, place
  <2>4. /\ Cardinality(before(x)) <= Cardinality(before(y))
        /\ Cardinality(before(y)) = Cardinality(before(x)) => before(y) = before(x)
    BY <2>1, <2>2, FS_Subset
  <2> QED
    BY <2>1, <2>2, <2>3, <2>4
<1>4. place \in [S -> 1..n]
  BY <1>2
<1> HIDE DEF place
<1>5. place \in Injection(S, 1..n)
  <2>1. ASSUME NEW x \in S, NEW y \in S, place[x] = place[y] PROVE x = y
    <3>1. ~(place[x] < place[y]) /\ ~(place[y] < place[x])
      BY <1>1, <1>4, <2>1
    <3> QED
      BY <1>3, <3>1
  <2> QED
    BY <1>4, <2>1 DEF Injection, IsInjective
<1>6. \A i \in 1..n : \E x \in S : place[x] = i
  <2>1. place \in Surjection(S, 1..n)
    BY <1>1, <1>5, FS_Injection
  <2> QED
    BY <2>1 DEF Surjection
<1> DEFINE s == [i \in 1..n |-> CHOOSE x \in S : place[x] = i]
<1>7. s \in [1..n -> S] /\ \A i \in 1..n : place[s[i]] = i
  BY <1>6
<1> HIDE DEF s
<1>8. ASSUME NEW i \in 1..n, NEW j \in 1..n, i < j PROVE <<s[i], s[j]>> \in R
  <2>1. s[i] \in S /\ s[j] \in S /\ place[s[i]] = i /\ place[s[j]] = j
    BY <1>7
  <2>2. ~(j < i) /\ i # j
    BY <1>1, <1>8
  <2>3. ~(<<s[j], s[i]>> \in R)
    BY <1>3, <2>1, <2>2
  <2> QED
    BY <2>1, <2>2, <2>3
<1> QED
  BY <1>7, <1>8

\* The rules that are on.
On(p) == {f \in Refs : p.rules[f].there /\ p.rules[f].enabled}

\* A rule is before another.
Before(p, f, g) ==
    \/ p.rules[f].priority < p.rules[g].priority
    \/ p.rules[f].priority = p.rules[g].priority /\ f < g

LEMMA BeforeIsATotalOrder ==
    ASSUME NEW p \in Policy, NEW f \in Refs, NEW g \in Refs, NEW h \in Refs
    PROVE  /\ ~Before(p, f, f)
           /\ Before(p, f, g) /\ Before(p, g, h) => Before(p, f, h)
           /\ f # g => Before(p, f, g) \/ Before(p, g, f)
           /\ Before(p, f, g) => ~Before(p, g, f)
<1>1. f \in Nat /\ g \in Nat /\ h \in Nat
  BY PolicyAssumption
<1>2. /\ p.rules[f].priority \in 1..2 /\ p.rules[g].priority \in 1..2
      /\ p.rules[h].priority \in 1..2
  BY DEF Policy, Rule
<1> QED
  BY <1>1, <1>2 DEF Before

\* The rules that are on, each once and in their order.
LEMMA OrderedListsTheRules ==
    ASSUME NEW p \in Policy
    PROVE  LET n == Cardinality(On(p)) IN
           /\ n \in Nat /\ Ordered(p) \in [1..n -> On(p)]
           /\ \A i, j \in 1..n : i < j => Before(p, Ordered(p)[i], Ordered(p)[j])
           /\ \A f \in On(p) : \E i \in 1..n : Ordered(p)[i] = f
<1> DEFINE n == Cardinality(On(p))
           R == {fg \in Refs \X Refs : Before(p, fg[1], fg[2])}
           sorted(s) == \A i, j \in DOMAIN s : i < j => Before(p, s[i], s[j])
<1>1. On(p) \subseteq Refs /\ IsFiniteSet(On(p)) /\ n \in Nat
  BY PolicyAssumption, FS_Subset, FS_CardinalityType DEF On
<1>2. \A f, g \in Refs : <<f, g>> \in R <=> Before(p, f, g)
  OBVIOUS
<1> HIDE DEF R
<1>3. \E s \in [1..n -> On(p)] : \A i, j \in 1..n : i < j => <<s[i], s[j]>> \in R
  <2>1. \A f \in On(p) : <<f, f>> \notin R
    BY <1>1, <1>2, BeforeIsATotalOrder
  <2>2. \A f, g, h \in On(p) : <<f, g>> \in R /\ <<g, h>> \in R => <<f, h>> \in R
    BY <1>1, <1>2, BeforeIsATotalOrder
  <2>3. \A f, g \in On(p) : f # g => <<f, g>> \in R \/ <<g, f>> \in R
    BY <1>1, <1>2, BeforeIsATotalOrder
  <2> QED
    BY <1>1, <2>1, <2>2, <2>3, SortedListing
<1>4. \E s \in [1..n -> On(p)] : sorted(s)
  BY <1>1, <1>2, <1>3
<1>5. Ordered(p) = CHOOSE s \in [1..n -> On(p)] : sorted(s)
  BY DEF Ordered, On, Before
<1>6. Ordered(p) \in [1..n -> On(p)] /\ sorted(Ordered(p))
  <2> HIDE DEF sorted, n
  <2> QED
    BY <1>4, <1>5
<1>7. \A i, j \in 1..n : i < j => Before(p, Ordered(p)[i], Ordered(p)[j])
  BY <1>6
<1>8. Ordered(p) \in Injection(1..n, On(p))
  <2>1. ASSUME NEW i \in 1..n, NEW j \in 1..n, Ordered(p)[i] = Ordered(p)[j] PROVE i = j
    <3>1. Ordered(p)[i] \in Refs /\ Ordered(p)[j] \in Refs
      BY <1>1, <1>6
    <3>2. ~(i < j) /\ ~(j < i)
      BY <1>7, <2>1, <3>1, BeforeIsATotalOrder
    <3> QED
      BY <1>1, <3>2
  <2> QED
    BY <1>6, <2>1 DEF Injection, IsInjective
<1>9. Ordered(p) \in Surjection(1..n, On(p))
  BY <1>1, <1>8, FS_Injection, FS_Interval
<1> QED
  BY <1>1, <1>6, <1>7, <1>9 DEF Surjection

LEMMA DecidingParts ==
    ASSUME NEW p \in Policy, NEW k
    PROVE  /\ Deciding(p, k) \subseteq On(p) /\ Deciding(p, k) \subseteq Refs
           /\ \A f \in Deciding(p, k) : f \in Nat /\ p.rules[f].priority \in 1..2
BY PolicyAssumption DEF Deciding, On, Policy, Rule

\* The rule that is before the others that apply decides.
LEMMA TheFirstDecides ==
    ASSUME NEW p \in Policy, NEW k, NEW f \in Deciding(p, k),
           \A g \in Deciding(p, k) : g # f => Before(p, f, g)
    PROVE  Decider(p, k) = f
<1> DEFINE D == Deciding(p, k)
           least == CHOOSE n \in 1..2 : /\ \E g \in D : p.rules[g].priority = n
                                        /\ \A g \in D : p.rules[g].priority >= n
<1>1. f \in D /\ \A g \in D : g \in Nat /\ p.rules[g].priority \in 1..2
  BY DecidingParts
<1>2. \A g \in D : \/ p.rules[f].priority < p.rules[g].priority
                   \/ p.rules[f].priority = p.rules[g].priority /\ f <= g
  BY <1>1 DEF Before
<1>3. Decider(p, k) = CHOOSE g \in D : /\ p.rules[g].priority = least
                                       /\ \A h \in D : p.rules[h].priority = least => g <= h
  BY DEF Decider
<1>4. least = p.rules[f].priority
  <2>1. \A g \in D : p.rules[g].priority >= p.rules[f].priority
    BY <1>1, <1>2
  <2>2. ASSUME NEW n \in 1..2, \E g \in D : p.rules[g].priority = n,
               \A g \in D : p.rules[g].priority >= n
        PROVE  n = p.rules[f].priority
    BY <1>1, <2>1, <2>2
  <2> HIDE DEF D
  <2> QED
    BY <1>1, <2>1, <2>2
<1>5. ASSUME NEW g \in D, p.rules[g].priority = least,
             \A h \in D : p.rules[h].priority = least => g <= h
      PROVE  g = f
  BY <1>1, <1>2, <1>4, <1>5
<1>6. \A h \in D : p.rules[h].priority = least => f <= h
  BY <1>1, <1>2, <1>4
<1> HIDE DEF D, least
<1> QED
  BY <1>1, <1>3, <1>4, <1>5, <1>6

LEMMA SomeRuleIsFirst ==
    ASSUME NEW p \in Policy, NEW k, Deciding(p, k) # {}
    PROVE  \E f \in Deciding(p, k) : \A g \in Deciding(p, k) : g # f => Before(p, f, g)
<1> DEFINE D == Deciding(p, k)
           I == {i \in 1..Cardinality(On(p)) : Ordered(p)[i] \in D}
<1>1. /\ Cardinality(On(p)) \in Nat
      /\ \A i, j \in 1..Cardinality(On(p)) : i < j => Before(p, Ordered(p)[i], Ordered(p)[j])
      /\ \A f \in On(p) : \E i \in 1..Cardinality(On(p)) : Ordered(p)[i] = f
  BY OrderedListsTheRules
<1>2. I \in SUBSET Nat /\ I # {}
  BY <1>1, DecidingParts
<1>3. Min(I) \in I /\ \A i \in I : Min(I) <= i
  <2> HIDE DEF I
  <2> QED
    BY <1>2, LeastNatural
<1> DEFINE f == Ordered(p)[Min(I)]
<1>4. ASSUME NEW g \in D, g # f PROVE Before(p, f, g)
  <2>1. PICK j \in 1..Cardinality(On(p)) : Ordered(p)[j] = g
    BY <1>1, DecidingParts
  <2>2. j \in I /\ Min(I) # j
    BY <1>4, <2>1
  <2> HIDE DEF I, D
  <2>3. Min(I) < j
    <3>1. Min(I) \in Nat /\ j \in Nat /\ Min(I) <= j /\ Min(I) # j
      BY <1>2, <1>3, <2>2
    <3> HIDE DEF f
    <3> QED
      BY <3>1
  <2>4. Min(I) \in 1..Cardinality(On(p))
    BY <1>3 DEF I
  <2> QED
    BY <1>1, <2>1, <2>3, <2>4
<1> QED
  BY <1>3, <1>4

\* Who an end of a rule is, is whom its set holds.
LEMMA EndsAreSets ==
    ASSUME NEW p \in Policy, NEW e \in Endpoints, NEW h \in Hosts,
           e.kind \in {"group", "zone"} => e.of \in Rows(p)
    PROVE  /\ EndpointSet(p, e) \subseteq Hosts
           /\ h \in EndpointSet(p, e) <=> Ends(p, e, h)
<1>1. \A r \in p.routes : r.net \in Nets
  BY DEF Policy, Route
<1>2. CASE e.kind = "any"
  BY <1>2 DEF EndpointSet, Ends
<1>3. CASE e.kind = "cidr"
  <2>1. e.of \in Hosts
    BY <1>3 DEF Endpoints
  <2> QED
    BY <1>3, <2>1 DEF EndpointSet, Ends
<1>4. CASE e.kind \in {"group", "zone"}
  <2>1. e.of \in Slugs /\ p.rows[e.of].there
    BY <1>4 DEF Rows
  <2>2. Ends(p, e, h) <=> Belongs(p, h, e.of)
    BY <1>4 DEF Ends
  <2>3. EndpointSet(p, e) = IF Kind(p, e.of) = "zone" THEN ZoneSet(p, e.of) ELSE GroupSet(p, e.of)
    BY <1>4 DEF EndpointSet
  <2>4. ZoneSet(p, e.of) \subseteq Hosts /\ GroupSet(p, e.of) \subseteq Hosts
    BY <1>1 DEF ZoneSet, GroupSet, Hosts
  <2>5. CASE p.rows[e.of].kind = "zone"
    BY <2>1, <2>2, <2>3, <2>4, <2>5 DEF Belongs, Kind, ZoneSet
  <2>6. CASE p.rows[e.of].kind # "zone"
    BY <2>1, <2>2, <2>3, <2>4, <2>6 DEF Belongs, Kind, GroupSet
  <2> QED
    BY <2>5, <2>6
<1> QED
  BY <1>2, <1>3, <1>4 DEF Endpoints

LEMMA ResultOfSix ==
    ASSUME NEW c \in Seq(Entries), Len(c) = 6, NEW k
    PROVE
           Result(c, k) = IF Matches(c[1], k) THEN c[1].verdict
                          ELSE IF Matches(c[2], k) THEN c[2].verdict
                          ELSE IF Matches(c[3], k) THEN c[3].verdict
                          ELSE IF Matches(c[4], k) THEN c[4].verdict
                          ELSE IF Matches(c[5], k) THEN c[5].verdict
                          ELSE IF Matches(c[6], k) THEN c[6].verdict ELSE "none"
<1>1. CASE Matches(c[1], k) /\ \A j \in 1..0 : ~Matches(c[j], k)
  <2>1. IsFirst(c, k, 1)
    BY <1>1 DEF IsFirst
  <2> QED
    BY <1>1, <2>1, FirstDecides
<1>2. CASE Matches(c[2], k) /\ \A j \in 1..1 : ~Matches(c[j], k)
  <2>1. IsFirst(c, k, 2)
    BY <1>2 DEF IsFirst
  <2> QED
    BY <1>2, <2>1, FirstDecides
<1>3. CASE Matches(c[3], k) /\ \A j \in 1..2 : ~Matches(c[j], k)
  <2>1. IsFirst(c, k, 3)
    BY <1>3 DEF IsFirst
  <2> QED
    BY <1>3, <2>1, FirstDecides
<1>4. CASE Matches(c[4], k) /\ \A j \in 1..3 : ~Matches(c[j], k)
  <2>1. IsFirst(c, k, 4)
    BY <1>4 DEF IsFirst
  <2> QED
    BY <1>4, <2>1, FirstDecides
<1>5. CASE Matches(c[5], k) /\ \A j \in 1..4 : ~Matches(c[j], k)
  <2>1. IsFirst(c, k, 5)
    BY <1>5 DEF IsFirst
  <2> QED
    BY <1>5, <2>1, FirstDecides
<1>6. CASE Matches(c[6], k) /\ \A j \in 1..5 : ~Matches(c[j], k)
  <2>1. IsFirst(c, k, 6)
    BY <1>6 DEF IsFirst
  <2> QED
    BY <1>6, <2>1, FirstDecides
<1>7. CASE \A j \in 1..6 : ~Matches(c[j], k)
  BY <1>7, SaysOrNot
<1> QED
  BY <1>1, <1>2, <1>3, <1>4, <1>5, <1>6, <1>7


\* The rules, as a part of the chain.
Acl(p) == [i \in DOMAIN Ordered(p) |->
             LET r == p.rules[Ordered(p)[i]] IN
             Entry(EndpointSet(p, r.src), EndpointSet(p, r.dst), Flows,
                   IF r.port = "any" THEN Ports ELSE {r.port}, r.action)]

\* One rule, as an entry: it matches where the rule applies.
LEMMA RuleAsEntry ==
    ASSUME NEW p \in Policy, RefersToRows(p), NEW f \in On(p),
           NEW k \in Packets, k.dst \in Hosts
    PROVE  LET r == p.rules[f]
               e == Entry(EndpointSet(p, r.src), EndpointSet(p, r.dst), Flows,
                          IF r.port = "any" THEN Ports ELSE {r.port}, r.action)
           IN  /\ e \in Entries /\ e.verdict = r.action
               /\ Matches(e, k) <=> f \in Deciding(p, k)
<1> DEFINE r == p.rules[f]
           src == EndpointSet(p, r.src)
           dst == EndpointSet(p, r.dst)
           ports == IF r.port = "any" THEN Ports ELSE {r.port}
           e == Entry(src, dst, Flows, ports, r.action)
<1>1. f \in Refs /\ r \in Rule /\ r.there /\ r.enabled /\ Names(r) \subseteq Rows(p)
  BY DEF On, Policy, RefersToRows
<1>2. /\ r.src \in Endpoints /\ r.dst \in Endpoints
      /\ r.port \in {"any"} \cup Ports /\ r.action \in {"accept", "drop"}
  BY <1>1 DEF Rule
<1>3. /\ r.src.kind \in {"group", "zone"} => r.src.of \in Rows(p)
      /\ r.dst.kind \in {"group", "zone"} => r.dst.of \in Rows(p)
  BY <1>1 DEF Names
<1>4. k.src \in Hosts /\ k.flow \in Flows /\ k.port \in Ports
  BY PacketParts
<1>5. /\ src \subseteq Hosts /\ dst \subseteq Hosts
      /\ k.src \in src <=> Ends(p, r.src, k.src)
      /\ k.dst \in dst <=> Ends(p, r.dst, k.dst)
  BY <1>2, <1>3, <1>4, EndsAreSets
<1>6. ports \subseteq Ports /\ (k.port \in ports <=> r.port \in {"any", k.port})
  BY <1>2, <1>4 DEF Ports
<1>7. f \in Deciding(p, k) <=>
        r.port \in {"any", k.port} /\ Ends(p, r.src, k.src) /\ Ends(p, r.dst, k.dst)
  BY <1>1 DEF Deciding
<1> HIDE DEF r, src, dst, ports
<1>8. e \in Entries /\ e.verdict = r.action
  BY <1>2, <1>5, <1>6 DEF Entry, Entries
<1>9. Matches(e, k) <=> k.src \in src /\ k.dst \in dst /\ k.port \in ports
  BY <1>4 DEF Entry, Matches
<1> QED
  BY <1>5, <1>6, <1>7, <1>8, <1>9 DEF r, src, dst, ports

\* The rules, as a part of the chain, say what the first that applies says.
LEMMA RulesAsStated ==
    ASSUME NEW p \in Policy, RefersToRows(p), NEW k \in Packets, k.dst \in Hosts
    PROVE  /\ Acl(p) \in Seq(Entries)
           /\ Result(Acl(p), k) = IF Deciding(p, k) = {} THEN "none"
                                  ELSE p.rules[Decider(p, k)].action
<1> DEFINE n == Cardinality(On(p))
           acl == Ordered(p)
<1>1. /\ n \in Nat /\ acl \in [1..n -> On(p)]
      /\ \A i, j \in 1..n : i < j => Before(p, acl[i], acl[j])
      /\ \A f \in On(p) : \E i \in 1..n : acl[i] = f
  BY OrderedListsTheRules
<1>2. \A i \in 1..n : /\ Acl(p)[i] \in Entries
                      /\ Acl(p)[i].verdict = p.rules[acl[i]].action
                      /\ Matches(Acl(p)[i], k) <=> acl[i] \in Deciding(p, k)
  <2>1. ASSUME NEW i \in 1..n
        PROVE  /\ Acl(p)[i] \in Entries
               /\ Acl(p)[i].verdict = p.rules[acl[i]].action
               /\ Matches(Acl(p)[i], k) <=> acl[i] \in Deciding(p, k)
    <3> DEFINE f == acl[i]
               e == Entry(EndpointSet(p, p.rules[f].src), EndpointSet(p, p.rules[f].dst), Flows,
                          IF p.rules[f].port = "any" THEN Ports ELSE {p.rules[f].port},
                          p.rules[f].action)
    <3>1. f \in On(p)
      BY <1>1
    <3>2. Acl(p)[i] = e
      BY <1>1 DEF Acl
    <3> HIDE DEF f
    <3>3. e \in Entries /\ e.verdict = p.rules[f].action /\ (Matches(e, k) <=> f \in Deciding(p, k))
      BY <3>1, RuleAsEntry
    <3> HIDE DEF e
    <3> QED
      BY <3>2, <3>3 DEF f
  <2> QED
    BY <2>1
<1>3. Acl(p) \in Seq(Entries) /\ Len(Acl(p)) = n
  <2>1. DOMAIN Acl(p) = 1..n /\ Acl(p) \in [1..n -> Entries]
    <3>1. Acl(p) = [i \in 1..n |-> Acl(p)[i]]
      BY <1>1 DEF Acl
    <3> QED
      BY <1>2, <3>1
  <2> QED
    BY <1>1, <2>1
<1>4. CASE Deciding(p, k) = {}
  <2>1. \A i \in 1..Len(Acl(p)) : ~Matches(Acl(p)[i], k)
    BY <1>2, <1>3, <1>4
  <2> QED
    BY <1>3, <1>4, <2>1, SaysOrNot
<1>5. CASE Deciding(p, k) # {}
  <2>1. PICK f \in Deciding(p, k) : \A g \in Deciding(p, k) : g # f => Before(p, f, g)
    BY <1>5, SomeRuleIsFirst
  <2>2. PICK i \in 1..n : acl[i] = f
    BY <1>1, DecidingParts
  <2>3. ASSUME NEW j \in 1..n, Matches(Acl(p)[j], k) PROVE i <= j
    <3>1. acl[j] \in Deciding(p, k) /\ acl[j] \in Refs /\ f \in Refs
      BY <1>2, <2>3, DecidingParts
    <3>2. ~(j < i)
      BY <1>1, <2>1, <2>2, <3>1, BeforeIsATotalOrder
    <3> QED
      BY <1>1, <3>2
  <2>4. IsFirst(Acl(p), k, i)
    BY <1>2, <1>3, <2>2, <2>3 DEF IsFirst
  <2>5. Result(Acl(p), k) = p.rules[f].action
    BY <1>2, <1>3, <2>2, <2>4, FirstDecides
  <2>6. Decider(p, k) = f
    BY <2>1, TheFirstDecides
  <2> QED
    BY <1>3, <1>5, <2>5, <2>6
<1> QED
  BY <1>4, <1>5

\* A part that accepts between the sets of one or another row.
LEMMA AcceptingPart ==
    ASSUME NEW S, IsFiniteSet(S), NEW src \in [S -> SUBSET Hosts], NEW dst \in [S -> SUBSET Hosts],
           NEW part, NEW k \in Packets,
           part = [i \in DOMAIN SetToSeq(S) |->
                     All(src[SetToSeq(S)[i]], dst[SetToSeq(S)[i]], "accept")]
    PROVE  /\ part \in Seq(Entries)
           /\ Result(part, k) = IF \E x \in S : k.src \in src[x] /\ k.dst \in dst[x]
                                THEN "accept" ELSE "none"
<1> DEFINE n == Cardinality(S)
           list == SetToSeq(S)
<1>1. n \in Nat /\ list \in [1..n -> S] /\ \A x \in S : \E i \in 1..n : list[i] = x
  BY Listed
<1>2. part = [i \in 1..n |-> All(src[list[i]], dst[list[i]], "accept")]
  BY <1>1
<1>3. k.flow \in Flows /\ k.port \in Ports
  BY PacketParts
<1> HIDE DEF n, list
<1>4. ASSUME NEW i \in 1..n
      PROVE  /\ part[i] \in Entries /\ part[i].verdict = "accept"
             /\ Matches(part[i], k) <=> k.src \in src[list[i]] /\ k.dst \in dst[list[i]]
  <2>1. list[i] \in S /\ part[i] = All(src[list[i]], dst[list[i]], "accept")
    BY <1>1, <1>2
  <2> DEFINE a == src[list[i]]
             b == dst[list[i]]
  <2>2. a \subseteq Hosts /\ b \subseteq Hosts
    BY <2>1
  <2> HIDE DEF a, b
  <2>3. All(a, b, "accept") \in Entries /\ All(a, b, "accept").verdict = "accept"
    BY <2>2 DEF All, Entry, Entries
  <2>4. Matches(All(a, b, "accept"), k) <=> k.src \in a /\ k.dst \in b
    BY <1>3 DEF All, Entry, Matches
  <2> QED
    BY <2>1, <2>3, <2>4 DEF a, b
<1>5. part \in Seq(Entries) /\ Len(part) = n
  <2>1. part \in [1..n -> Entries]
    BY <1>2, <1>4
  <2> QED
    BY <1>1, <2>1
<1>6. CASE \E x \in S : k.src \in src[x] /\ k.dst \in dst[x]
  <2>1. PICK x \in S : k.src \in src[x] /\ k.dst \in dst[x]
    BY <1>6
  <2>2. PICK j \in 1..n : list[j] = x
    BY <1>1
  <2>3. \E i \in 1..Len(part) : Matches(part[i], k)
    BY <1>4, <1>5, <2>1, <2>2
  <2>4. PICK i \in 1..Len(part) : IsFirst(part, k, i)
    BY <1>5, <2>3, SomeIsFirst
  <2>5. Result(part, k) = part[i].verdict
    BY <1>5, <2>4, FirstDecides
  <2> QED
    BY <1>4, <1>5, <1>6, <2>5
<1>7. CASE ~\E x \in S : k.src \in src[x] /\ k.dst \in dst[x]
  <2>1. \A i \in 1..Len(part) : ~Matches(part[i], k)
    BY <1>1, <1>4, <1>5, <1>7
  <2> QED
    BY <1>5, <1>7, <2>1, SaysOrNot
<1> QED
  BY <1>6, <1>7

\* The zones that talk to themselves, as a part of the chain.
IntraPart(p) ==
    LET intra == SetToSeq({s \in Of(p, "zone") : p.rows[s].intra}) IN
    [i \in DOMAIN intra |-> All(ZoneSet(p, intra[i]), ZoneSet(p, intra[i]), "accept")]

\* The ways out, as a part of the chain.
ExitPart(p) ==
    LET exits == SetToSeq({s \in Slugs : p.rows[s].there /\ p.rows[s].exit}) IN
    [i \in DOMAIN exits |->
       All(EndpointSet(p, [kind |-> Kind(p, exits[i]), of |-> exits[i]]),
           (Hosts \ Tunnel) \ InternalNets, "accept")]

LEMMA IntraAsStated ==
    ASSUME NEW p \in Policy, NEW k \in Packets, k.dst \in Hosts
    PROVE  /\ IntraPart(p) \in Seq(Entries)
           /\ Result(IntraPart(p), k) =
                IF \E s \in Slugs : /\ p.rows[s].kind = "zone" /\ p.rows[s].intra
                                    /\ Belongs(p, k.src, s) /\ Belongs(p, k.dst, s)
                THEN "accept" ELSE "none"
<1> DEFINE S == {s \in Of(p, "zone") : p.rows[s].intra}
           list == SetToSeq(S)
           sets == [s \in S |-> ZoneSet(p, s)]
<1>1. S \in SUBSET Slugs /\ \A s \in S : p.rows[s].there /\ p.rows[s].kind = "zone" /\ p.rows[s].intra
  BY DEF Of
<1>2. IsFiniteSet(S)
  <2> HIDE DEF S
  <2> QED
    BY <1>1, PolicyAssumption, FS_Subset
<1>3. ASSUME NEW s \in Slugs, p.rows[s].kind = "zone", p.rows[s].there, NEW h \in Hosts
      PROVE  h \in ZoneSet(p, s) <=> Belongs(p, h, s)
  BY <1>3 DEF ZoneSet, Belongs
<1>4. \A s \in S : ZoneSet(p, s) \subseteq Hosts
  <2>1. \A r \in p.routes : r.net \in Nets
    BY DEF Policy, Route
  <2> QED
    BY <2>1 DEF ZoneSet, Hosts
<1>5. sets \in [S -> SUBSET Hosts] /\ \A s \in S : sets[s] = ZoneSet(p, s)
  BY <1>4
<1>6. IntraPart(p) = [i \in DOMAIN list |-> All(sets[list[i]], sets[list[i]], "accept")]
  <2>1. list \in [1..Cardinality(S) -> S]
    <3> HIDE DEF S
    <3> QED
      BY <1>2, Listed
  <2>2. IntraPart(p) = [i \in DOMAIN list |-> All(ZoneSet(p, list[i]), ZoneSet(p, list[i]), "accept")]
    BY DEF IntraPart
  <2> HIDE DEF S, list, sets
  <2>3. \A i \in DOMAIN list : sets[list[i]] = ZoneSet(p, list[i])
    BY <1>5, <2>1
  <2> QED
    BY <2>2, <2>3
<1> DEFINE part == IntraPart(p)
<1> HIDE DEF sets, part
<1>7. /\ part \in Seq(Entries)
      /\ Result(part, k) = IF \E s \in S : k.src \in sets[s] /\ k.dst \in sets[s]
                           THEN "accept" ELSE "none"
  <2> HIDE DEF S
  <2> QED
    BY <1>2, <1>5, <1>6, AcceptingPart DEF part
<1>8. (\E s \in S : k.src \in sets[s] /\ k.dst \in sets[s])
        <=> \E s \in Slugs : /\ p.rows[s].kind = "zone" /\ p.rows[s].intra
                             /\ Belongs(p, k.src, s) /\ Belongs(p, k.dst, s)
  <2>1. k.src \in Hosts
    BY PacketParts
  <2>2. \A s, h : Belongs(p, h, s) => p.rows[s].there
    BY DEF Belongs
  <2>3. \A s \in Slugs : s \in S <=> p.rows[s].there /\ p.rows[s].kind = "zone" /\ p.rows[s].intra
    BY DEF Of
  <2> HIDE DEF S
  <2> QED
    BY <1>1, <1>3, <1>5, <2>1, <2>2, <2>3
<1> QED
  BY <1>7, <1>8 DEF part

LEMMA ExitsAsStated ==
    ASSUME NEW p \in Policy, NEW k \in Packets, k.dst \in Hosts
    PROVE  /\ ExitPart(p) \in Seq(Entries)
           /\ Result(ExitPart(p), k) =
                IF \E s \in Slugs : /\ p.rows[s].exit /\ Belongs(p, k.src, s)
                                    /\ k.dst \notin Tunnel \cup InternalNets
                THEN "accept" ELSE "none"
<1> DEFINE S == {s \in Slugs : p.rows[s].there /\ p.rows[s].exit}
           list == SetToSeq(S)
           end(s) == [kind |-> Kind(p, s), of |-> s]
           from == [s \in S |-> EndpointSet(p, end(s))]
           to == [s \in S |-> (Hosts \ Tunnel) \ InternalNets]
<1>1. S \in SUBSET Slugs /\ \A s \in S : p.rows[s].there /\ p.rows[s].exit
  OBVIOUS
<1>2. IsFiniteSet(S)
  <2> HIDE DEF S
  <2> QED
    BY <1>1, PolicyAssumption, FS_Subset
<1>3. ASSUME NEW s \in Slugs, p.rows[s].there, NEW h \in Hosts
      PROVE  /\ EndpointSet(p, end(s)) \subseteq Hosts
             /\ h \in EndpointSet(p, end(s)) <=> Belongs(p, h, s)
  <2>1. p.rows[s].kind \in {"group", "zone"}
    BY DEF Policy, Row
  <2>2. end(s) \in Endpoints /\ end(s).kind \in {"group", "zone"} /\ end(s).of = s
    BY <2>1 DEF Endpoints, Kind
  <2>3. end(s).of \in Rows(p)
    BY <1>3, <2>2 DEF Rows
  <2> HIDE DEF end
  <2>4. /\ EndpointSet(p, end(s)) \subseteq Hosts
        /\ h \in EndpointSet(p, end(s)) <=> Ends(p, end(s), h)
    BY <2>2, <2>3, EndsAreSets
  <2>5. Ends(p, end(s), h) <=> Belongs(p, h, s)
    BY <2>2 DEF Ends
  <2> QED
    BY <2>4, <2>5
<1>4. k.src \in Hosts
  BY PacketParts
<1>5. /\ from \in [S -> SUBSET Hosts] /\ to \in [S -> SUBSET Hosts]
      /\ \A s \in S : from[s] = EndpointSet(p, end(s)) /\ to[s] = (Hosts \ Tunnel) \ InternalNets
  <2>1. \A s \in S : EndpointSet(p, end(s)) \subseteq Hosts
    BY <1>3, <1>4
  <2> HIDE DEF S, end
  <2> QED
    BY <2>1
<1>6. ExitPart(p) = [i \in DOMAIN list |-> All(from[list[i]], to[list[i]], "accept")]
  <2>1. list \in [1..Cardinality(S) -> S]
    <3> HIDE DEF S
    <3> QED
      BY <1>2, Listed
  <2>2. ExitPart(p) = [i \in DOMAIN list |->
                         All(EndpointSet(p, end(list[i])), (Hosts \ Tunnel) \ InternalNets, "accept")]
    BY DEF ExitPart
  <2> HIDE DEF S, list, from, to, end
  <2>3. \A i \in DOMAIN list : /\ from[list[i]] = EndpointSet(p, end(list[i]))
                               /\ to[list[i]] = (Hosts \ Tunnel) \ InternalNets
    BY <1>5, <2>1
  <2> QED
    BY <2>2, <2>3
<1> DEFINE part == ExitPart(p)
<1> HIDE DEF from, to, part
<1>7. /\ part \in Seq(Entries)
      /\ Result(part, k) = IF \E s \in S : k.src \in from[s] /\ k.dst \in to[s]
                           THEN "accept" ELSE "none"
  <2> HIDE DEF S
  <2> QED
    BY <1>2, <1>5, <1>6, AcceptingPart DEF part
<1>8. (\E s \in S : k.src \in from[s] /\ k.dst \in to[s])
        <=> \E s \in Slugs : /\ p.rows[s].exit /\ Belongs(p, k.src, s)
                             /\ k.dst \notin Tunnel \cup InternalNets
  <2>1. \A s, h : Belongs(p, h, s) => p.rows[s].there
    BY DEF Belongs
  <2>2. \A s \in Slugs : s \in S <=> p.rows[s].there /\ p.rows[s].exit
    OBVIOUS
  <2>3. \A s \in S : k.src \in from[s] <=> Belongs(p, k.src, s)
    BY <1>3, <1>4, <1>5
  <2>4. \A s \in S : k.dst \in to[s] <=> k.dst \notin Tunnel \cup InternalNets
    BY <1>5
  <2> HIDE DEF S
  <2> QED
    BY <1>1, <2>1, <2>2, <2>3, <2>4
<1> QED
  BY <1>7, <1>8 DEF part

\* What passes through the gateway is what the policy says.
LEMMA ForwardAsStated ==
    ASSUME NEW p \in Policy, RefersToRows(p), NEW k \in Packets, k.dst \in Hosts
    PROVE  Verdict(ForwardChain(p), k) = "accept" <=> MayPass(p, k)
<1> DEFINE C == Confined(p)
           foreign == Hosts \ Tunnel
           e1 == All(foreign, foreign, "accept")
           e2 == Entry(Hosts, Hosts, {"invalid"}, Ports, "drop")
           e3 == All(C, Hosts, "drop")
           e4 == All(Hosts, C, "drop")
           e5 == Entry(Hosts, Hosts, {"established"}, Ports, "accept")
           e6 == Entry(Hosts, Hosts, Flows, {"icmp_error"}, "accept")
           e7 == All(Hosts, Hosts, "drop")
           head == <<e1, e2, e3, e4, e5, e6>>
           acl == Acl(p)
           intra == IntraPart(p)
           exits == ExitPart(p)
           rest == <<e7>>
<1>1. ForwardChain(p) = head \o acl \o intra \o exits \o rest
  BY DEF ForwardChain, Acl, IntraPart, ExitPart
<1>2. k.src \in Hosts /\ k.flow \in Flows /\ k.port \in Ports /\ k.dst \in Hosts
  BY PacketParts
<1>3. Tunnel \subseteq Hosts /\ Gateway \notin Hosts /\ C \subseteq Tunnel
  BY HostsParts
<1>4. /\ {"invalid"} \subseteq Flows /\ {"established"} \subseteq Flows
      /\ {"icmp_error"} \subseteq Ports
  BY DEF Flows, Ports
<1>5. /\ e1 \in Entries /\ e1.verdict = "accept"
      /\ Matches(e1, k) <=> k.src \notin Tunnel /\ k.dst \notin Tunnel
  BY <1>2, <1>3 DEF All, Entry, Entries, Matches
<1>6. e2 \in Entries /\ e2.verdict = "drop" /\ (Matches(e2, k) <=> k.flow = "invalid")
  BY <1>2, <1>3, <1>4 DEF All, Entry, Entries, Matches
<1>7. e3 \in Entries /\ e3.verdict = "drop" /\ (Matches(e3, k) <=> k.src \in C)
  BY <1>2, <1>3 DEF All, Entry, Entries, Matches
<1>8. e4 \in Entries /\ e4.verdict = "drop" /\ (Matches(e4, k) <=> k.dst \in C)
  BY <1>2, <1>3 DEF All, Entry, Entries, Matches
<1>9. e5 \in Entries /\ e5.verdict = "accept" /\ (Matches(e5, k) <=> k.flow = "established")
  BY <1>2, <1>3, <1>4 DEF All, Entry, Entries, Matches
<1>10. e6 \in Entries /\ e6.verdict = "accept" /\ (Matches(e6, k) <=> k.port = "icmp_error")
  BY <1>2, <1>3, <1>4 DEF All, Entry, Entries, Matches
<1>11. e7 \in Entries /\ e7.verdict = "drop" /\ Matches(e7, k)
  BY <1>2, <1>3 DEF All, Entry, Entries, Matches
<1> HIDE DEF e1, e2, e3, e4, e5, e6, e7
<1>12. /\ head \in Seq(Entries) /\ Len(head) = 6
       /\ head[1] = e1 /\ head[2] = e2 /\ head[3] = e3
       /\ head[4] = e4 /\ head[5] = e5 /\ head[6] = e6
  BY <1>5, <1>6, <1>7, <1>8, <1>9, <1>10
<1>13. rest \in Seq(Entries) /\ Result(rest, k) = "drop"
  BY <1>11, ResultOfOne
<1> HIDE DEF head, rest
<1>14. Result(head, k) = IF k.src \notin Tunnel /\ k.dst \notin Tunnel THEN "accept"
                         ELSE IF k.flow = "invalid" THEN "drop"
                         ELSE IF k.src \in C THEN "drop"
                         ELSE IF k.dst \in C THEN "drop"
                         ELSE IF k.flow = "established" THEN "accept"
                         ELSE IF k.port = "icmp_error" THEN "accept" ELSE "none"
  <2>1. Result(head, k) = IF Matches(head[1], k) THEN head[1].verdict
                          ELSE IF Matches(head[2], k) THEN head[2].verdict
                          ELSE IF Matches(head[3], k) THEN head[3].verdict
                          ELSE IF Matches(head[4], k) THEN head[4].verdict
                          ELSE IF Matches(head[5], k) THEN head[5].verdict
                          ELSE IF Matches(head[6], k) THEN head[6].verdict ELSE "none"
    BY <1>12, ResultOfSix
  <2> QED
    BY <2>1, <1>5, <1>6, <1>7, <1>8, <1>9, <1>10, <1>12
<1>15. /\ acl \in Seq(Entries)
       /\ Result(acl, k) = IF Deciding(p, k) = {} THEN "none" ELSE p.rules[Decider(p, k)].action
  BY RulesAsStated
<1>16. /\ intra \in Seq(Entries)
       /\ Result(intra, k) =
            IF \E s \in Slugs : /\ p.rows[s].kind = "zone" /\ p.rows[s].intra
                                /\ Belongs(p, k.src, s) /\ Belongs(p, k.dst, s)
            THEN "accept" ELSE "none"
  BY IntraAsStated
<1>17. /\ exits \in Seq(Entries)
       /\ Result(exits, k) =
            IF \E s \in Slugs : /\ p.rows[s].exit /\ Belongs(p, k.src, s)
                                /\ k.dst \notin Tunnel \cup InternalNets
            THEN "accept" ELSE "none"
  BY ExitsAsStated
<1> HIDE DEF acl, intra, exits
<1>18. \A a, b : a \in Seq(Entries) /\ b \in Seq(Entries)
          => /\ a \o b \in Seq(Entries)
             /\ Result(a \o b, k) = IF Result(a, k) = "none" THEN Result(b, k) ELSE Result(a, k)
  BY ResultOfTwo
<1> DEFINE c1 == head \o acl
           c2 == c1 \o intra
           c3 == c2 \o exits
           c4 == c3 \o rest
<1>19. /\ c1 \in Seq(Entries)
       /\ Result(c1, k) = IF Result(head, k) = "none" THEN Result(acl, k) ELSE Result(head, k)
  BY <1>12, <1>15, <1>18
<1>20. /\ c2 \in Seq(Entries)
       /\ Result(c2, k) = IF Result(c1, k) = "none" THEN Result(intra, k) ELSE Result(c1, k)
  <2> HIDE DEF c1
  <2> QED
    BY <1>19, <1>16, <1>18
<1>21. /\ c3 \in Seq(Entries)
       /\ Result(c3, k) = IF Result(c2, k) = "none" THEN Result(exits, k) ELSE Result(c2, k)
  <2> HIDE DEF c2
  <2> QED
    BY <1>20, <1>17, <1>18
<1>22. /\ c4 \in Seq(Entries)
       /\ Result(c4, k) = IF Result(c3, k) = "none" THEN Result(rest, k) ELSE Result(c3, k)
  <2> HIDE DEF c3
  <2> QED
    BY <1>21, <1>13, <1>18
<1>23. ForwardChain(p) = c4
  BY <1>1
<1> HIDE DEF c1, c2, c3, c4
<1>24. ASSUME Deciding(p, k) # {} PROVE p.rules[Decider(p, k)].action \in {"accept", "drop"}
  <2>1. Decider(p, k) \in Deciding(p, k)
    BY <1>24, SomeRuleIsFirst, TheFirstDecides
  <2> QED
    BY <2>1, DecidingParts DEF Policy, Rule
<1>25. Result(c4, k) # "none" /\ (Result(c4, k) = "accept" <=> MayPass(p, k))
  <2>1. k.dst # Gateway
    BY <1>2, <1>3
  <2> QED
    BY <1>13, <1>14, <1>15, <1>16, <1>17, <1>19, <1>20, <1>21, <1>22, <1>24, <2>1 DEF MayPass, C
<1> QED
  BY <1>22, <1>23, <1>25, SaysOrNot DEF Result

\* The rendered ruleset lets through the packets that the policy says.
LEMMA PassingIsMayPass ==
    ASSUME NEW p \in Policy, RefersToRows(p)
    PROVE  Passing(p) = {k \in Packets : MayPass(p, k)}
<1>1. ASSUME NEW k \in Packets
      PROVE  Verdict(IF k.dst = Gateway THEN InputChain(p) ELSE ForwardChain(p), k) = "accept"
               <=> MayPass(p, k)
  <2>1. CASE k.dst = Gateway
    BY <2>1, InputAsStated
  <2>2. CASE k.dst # Gateway
    BY <2>2, PacketParts, ForwardAsStated
  <2> QED
    BY <2>1, <2>2
<1>2. Passing(p) =
        {k \in Packets :
           Verdict(IF k.dst = Gateway THEN InputChain(p) ELSE ForwardChain(p), k) = "accept"}
  BY DEF Passing
<1> QED
  BY <1>1, <1>2

\* Whatever the rows, the routes, the rules and the settings, and however the
\* policy came about, the ruleset rendered from it (generator.render) lets
\* through the packets that the policy says and no other.
THEOREM VerdictsAreAsStated == Spec => []VerdictAsStated
<1>1. TypeOK => VerdictAsStated
  BY PassingIsMayPass DEF TypeOK, VerdictAsStated
<1> QED
  BY <1>1, PolicyTypeCorrect, PTL

\* A host is where it was, once a row is gone, except in that row.
LEMMA BelongsWithout ==
    ASSUME NEW p \in Policy, NEW s \in Slugs, NEW t \in Slugs, NEW h
    PROVE  Belongs(Without(p, {s}), h, t) <=> t # s /\ Belongs(p, h, t)
<1> DEFINE q == Without(p, {s})
<1> SUFFICES Belongs(q, h, t) <=> t # s /\ Belongs(p, h, t)
  OBVIOUS
<1>1. /\ q.rows[t] = IF t = s THEN NoRow ELSE p.rows[t]
      /\ \A r : r \in q.routes <=> r \in p.routes /\ r.zone # s
  BY DEF Without
<1>2. ASSUME NEW g \in Peers
      PROVE  /\ q.peers[g].state = p.peers[g].state
             /\ q.peers[g].groups = p.peers[g].groups \ {s}
             /\ q.peers[g].zone = IF p.peers[g].zone = s THEN NoSlug ELSE p.peers[g].zone
  <2>1. p.peers[g] \in Member
    BY DEF Policy
  <2>2. q.peers[g] = [p.peers[g] EXCEPT !.groups = @ \ {s}, !.zone = IF @ \in {s} THEN NoSlug ELSE @]
    BY DEF Without
  <2> HIDE DEF q
  <2> QED
    BY <2>1, <2>2 DEF Member
<1>3. NoSlug # t
  BY PolicyAssumption
<1> HIDE DEF q
<1>4. CASE t = s
  BY <1>1, <1>4 DEF Belongs, NoRow
<1>5. CASE t # s
  <2>1. q.rows[t] = p.rows[t]
    BY <1>1, <1>5
  <2>2. ASSUME h \in Peers
        PROVE  /\ q.peers[h].state = p.peers[h].state
               /\ t \in q.peers[h].groups <=> t \in p.peers[h].groups
               /\ q.peers[h].zone = t <=> p.peers[h].zone = t
    BY <1>2, <1>3, <1>5, <2>2
  <2>3. (\E r \in q.routes : p.rows[t].kind = "zone" /\ r.zone = t /\ r.net = h)
          <=> \E r \in p.routes : p.rows[t].kind = "zone" /\ r.zone = t /\ r.net = h
    BY <1>1, <1>5
  <2> QED
    BY <1>5, <2>1, <2>2, <2>3 DEF Belongs
<1> QED
  BY <1>4, <1>5

\* The rules that apply once a row is gone are those that applied and do not
\* name it.
LEMMA DecidingWithout ==
    ASSUME NEW p \in Policy, NEW s \in Slugs, NEW k
    PROVE  /\ Deciding(Without(p, {s}), k) = {f \in Deciding(p, k) : s \notin Names(p.rules[f])}
           /\ \A f \in Refs : s \notin Names(p.rules[f])
                                => Without(p, {s}).rules[f] = p.rules[f]
<1> DEFINE q == Without(p, {s})
<1>1. \A f \in Refs : q.rules[f] = IF s \in Names(p.rules[f]) THEN NoRule ELSE p.rules[f]
  BY WithoutParts
<1> HIDE DEF q
<1>2. ASSUME NEW e \in Endpoints, NEW h, e.kind \in {"group", "zone"} => e.of # s
      PROVE  Ends(q, e, h) <=> Ends(p, e, h)
  <2>1. CASE e.kind \in {"any", "cidr"}
    BY <2>1 DEF Ends
  <2>2. CASE e.kind \in {"group", "zone"}
    <3>1. e.of \in Slugs /\ e.of # s
      BY <1>2, <2>2 DEF Endpoints
    <3>2. Belongs(q, h, e.of) <=> Belongs(p, h, e.of)
      BY <3>1, BelongsWithout DEF q
    <3> QED
      BY <2>2, <3>2 DEF Ends
  <2> QED
    BY <2>1, <2>2 DEF Endpoints
<1>3. ASSUME NEW f \in Refs, s \notin Names(p.rules[f])
      PROVE  f \in Deciding(q, k) <=> f \in Deciding(p, k)
  <2>1. /\ p.rules[f].src \in Endpoints /\ p.rules[f].dst \in Endpoints
        /\ q.rules[f] = p.rules[f]
    BY <1>1, <1>3 DEF Policy, Rule
  <2>2. /\ p.rules[f].src.kind \in {"group", "zone"} => p.rules[f].src.of # s
        /\ p.rules[f].dst.kind \in {"group", "zone"} => p.rules[f].dst.of # s
    BY <1>3 DEF Names
  <2>3. /\ Ends(q, p.rules[f].src, k.src) <=> Ends(p, p.rules[f].src, k.src)
        /\ Ends(q, p.rules[f].dst, k.dst) <=> Ends(p, p.rules[f].dst, k.dst)
    BY <1>2, <2>1, <2>2
  <2> QED
    BY <2>1, <2>3 DEF Deciding
<1>4. ASSUME NEW f \in Refs, s \in Names(p.rules[f])
      PROVE  f \notin Deciding(q, k)
  BY <1>1, <1>4 DEF Deciding, NoRule
<1>5. Deciding(q, k) \subseteq Refs /\ Deciding(p, k) \subseteq Refs
  BY DEF Deciding
<1> QED
  BY <1>1, <1>3, <1>4, <1>5 DEF q

\* A packet that passes once a row is gone passed before, unless a rule that
\* refused went with the row.
LEMMA NothingOpens ==
    ASSUME NEW p \in Policy, RefersToRows(p), NEW s \in Slugs, NEW k \in Packets,
           MayPass(Without(p, {s}), k),
           \A f \in Refs : p.rules[f].there /\ p.rules[f].action = "drop"
                             => Without(p, {s}).rules[f].there
    PROVE  MayPass(p, k)
<1> DEFINE q == Without(p, {s})
<1>1. q \in Policy /\ MayPass(q, k)
  BY WithoutSound DEF Sound
<1>2. Confined(q) = Confined(p)
  <2>1. ASSUME NEW g \in Peers PROVE q.peers[g].state = p.peers[g].state
    <3>1. p.peers[g] \in Member
      BY DEF Policy
    <3>2. q.peers[g] = [p.peers[g] EXCEPT !.groups = @ \ {s}, !.zone = IF @ \in {s} THEN NoSlug ELSE @]
      BY DEF Without
    <3> HIDE DEF q
    <3> QED
      BY <3>1, <3>2 DEF Member
  <2> QED
    BY <2>1 DEF Confined
<1>3. /\ Deciding(q, k) = {f \in Deciding(p, k) : s \notin Names(p.rules[f])}
      /\ \A f \in Refs : s \notin Names(p.rules[f]) => q.rules[f] = p.rules[f]
  BY DecidingWithout
<1>4. \A t \in Slugs : \A h : Belongs(q, h, t) <=> t # s /\ Belongs(p, h, t)
  BY BelongsWithout
<1>5. \A t \in Slugs : t # s => q.rows[t] = p.rows[t]
  BY WithoutParts
<1>6. ASSUME NEW f \in Refs, p.rules[f].there, p.rules[f].action = "drop"
      PROVE  s \notin Names(p.rules[f])
  <2>1. q.rules[f].there
    BY <1>6
  <2>2. q.rules[f] = IF Names(p.rules[f]) \cap {s} # {} THEN NoRule ELSE p.rules[f]
    BY WithoutParts
  <2> QED
    BY <2>1, <2>2 DEF NoRule
<1> HIDE DEF q
<1>7. CASE Deciding(p, k) = {}
  <2>1. Deciding(q, k) = {}
    BY <1>3, <1>7
  <2>2. (\E t \in Slugs : /\ q.rows[t].kind = "zone" /\ q.rows[t].intra
                          /\ Belongs(q, k.src, t) /\ Belongs(q, k.dst, t))
          => \E t \in Slugs : /\ p.rows[t].kind = "zone" /\ p.rows[t].intra
                              /\ Belongs(p, k.src, t) /\ Belongs(p, k.dst, t)
    BY <1>4, <1>5
  <2>3. (\E t \in Slugs : /\ q.rows[t].exit /\ Belongs(q, k.src, t)
                          /\ k.dst \notin Tunnel \cup InternalNets)
          => \E t \in Slugs : /\ p.rows[t].exit /\ Belongs(p, k.src, t)
                              /\ k.dst \notin Tunnel \cup InternalNets
    BY <1>4, <1>5
  <2> QED
    BY <1>1, <1>2, <1>7, <2>1, <2>2, <2>3 DEF MayPass
<1>8. CASE Deciding(p, k) # {}
  <2>1. PICK f \in Deciding(p, k) : \A g \in Deciding(p, k) : g # f => Before(p, f, g)
    BY <1>8, SomeRuleIsFirst
  <2>2. Decider(p, k) = f /\ f \in Refs /\ p.rules[f].there /\ p.rules[f].action \in {"accept", "drop"}
    BY <2>1, TheFirstDecides DEF Deciding, Policy, Rule
  <2>3. CASE p.rules[f].action = "accept"
    BY <1>1, <1>2, <1>8, <2>2, <2>3 DEF MayPass
  <2>4. CASE p.rules[f].action = "drop"
    <3>1. f \in Deciding(q, k) /\ q.rules[f] = p.rules[f]
      BY <1>3, <1>6, <2>1, <2>2, <2>4
    <3>2. \A g \in Deciding(q, k) : g # f => Before(q, f, g)
      <4>1. \A g \in Deciding(q, k) : g \in Deciding(p, k) /\ g \in Refs /\ q.rules[g] = p.rules[g]
        BY <1>3, DecidingParts
      <4> QED
        BY <2>1, <3>1, <4>1 DEF Before
    <3>3. Decider(q, k) = f
      BY <1>1, <3>1, <3>2, TheFirstDecides
    <3> QED
      BY <1>1, <1>2, <1>8, <2>2, <2>4, <3>1, <3>3 DEF MayPass
  <2> QED
    BY <2>2, <2>3, <2>4
<1> QED
  BY <1>7, <1>8

\* A group or a zone that is deleted (api/v1/groups.py and zones.py, with the
\* cascades of models.py) opens nothing, unless a rule that refused something
\* goes with it: whatever the policy, and whatever its other rules.
THEOREM DeletionsOpenNothing == Spec => DeletingOpensNothing
<1>1. ASSUME TypeOK, TypeOK', [Next]_vars
      PROVE  [last'.op = "delete" =>
                \/ \E f \in Refs : /\ policy.rules[f].there /\ policy.rules[f].action = "drop"
                                   /\ ~policy'.rules[f].there
                \/ Passing(policy') \subseteq Passing(policy)]_vars
  <2>1. CASE UNCHANGED vars
    BY <2>1
  <2>2. CASE Next
    <3> SUFFICES ASSUME last'.op = "delete",
                        \A f \in Refs : policy.rules[f].there /\ policy.rules[f].action = "drop"
                                          => policy'.rules[f].there
                 PROVE  Passing(policy') \subseteq Passing(policy)
      OBVIOUS
    <3>1. PICK s \in Slugs, kind \in {"group", "zone"} : Delete(s, kind)
      BY <2>2, EditsAreNamed
    <3>2. policy' = Without(policy, {s})
      BY <3>1 DEF Delete, Commit
    <3>3. policy \in Policy /\ RefersToRows(policy) /\ policy' \in Policy /\ RefersToRows(policy')
      BY <1>1 DEF TypeOK
    <3>4. /\ Passing(policy) = {k \in Packets : MayPass(policy, k)}
          /\ Passing(policy') = {k \in Packets : MayPass(policy', k)}
      BY <3>3, PassingIsMayPass
    <3>5. ASSUME NEW k \in Packets, MayPass(policy', k)
          PROVE  MayPass(policy, k)
      BY <3>2, <3>3, <3>5, NothingOpens
    <3> QED
      BY <3>4, <3>5
  <2> QED
    BY <1>1, <2>1, <2>2
<1> QED
  BY <1>1, PolicyTypeCorrect, PTL DEF Spec, DeletingOpensNothing
=============================================================================
