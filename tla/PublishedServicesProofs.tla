----------------------- MODULE PublishedServicesProofs -----------------------
(***************************************************************************)
(* What is committed renders: an edit that was validated, and that no      *)
(* other one overlaps, leaves rows that the next one can be validated      *)
(* against.  Proved for every set of services, requests and rows, and      *)
(* whatever it is that makes the rows of a service valid.                  *)
(***************************************************************************)
EXTENDS PublishedServices, TLAPS

\* The rows of one service render: what Renders says of each.
RowsRender(s, rows, active) == Served(s, rows, active) # {} => Valid(rows, Served(s, rows, active))

\* An open edit is the only one, and what it would leave renders, if it still
\* applies when it commits: the service may have been deleted in between.
OpenEditFits(r) ==
    /\ req[r].service \in Services
    /\ \A o \in Requests : req[o] # Idle => o = r
    /\ req[r].edit.op = "put" => ~svc[req[r].service].there
    /\ (svc[req[r].service].there <=> req[r].edit.op # "put") =>
            RowsRender(req[r].service, Change(svc[req[r].service], req[r].edit), up)

RendersInv ==
    /\ svc = [s \in Services |-> svc[s]]
    /\ req = [r \in Requests |-> req[r]]
    /\ ~drifted => /\ \A s \in Services : RowsRender(s, svc[s], up)
                   /\ \A r \in Requests : req[r] # Idle => OpenEditFits(r)

\* Renders, service by service.
LEMMA RendersByService ==
    ASSUME NEW rows, NEW active
    PROVE  Renders(rows, active) <=> \A s \in Services : RowsRender(s, rows[s], active)
BY DEF Renders, RowsRender

\* A configuration to start from renders, and no edit is open.
LEMMA RendersInit == Init => RendersInv
<1> SUFFICES ASSUME Init PROVE RendersInv
  OBVIOUS
<1>1. svc = [s \in Services |-> svc[s]] /\ req = [r \in Requests |-> req[r]]
  BY DEF Init
<1>2. \A s \in Services : RowsRender(s, svc[s], up)
  BY RendersByService DEF Init
<1>3. \A r \in Requests : req[r] = Idle
  BY DEF Init
<1> QED
  BY <1>1, <1>2, <1>3 DEF RendersInv

\* An edit opens beside no other, or drifts.
LEMMA EditFits ==
    ASSUME RendersInv, NEW s \in Services, NEW e, Edit(s, e)
    PROVE  RendersInv'
<1> DEFINE changed == [svc EXCEPT ![s] = Change(@, e)]
<1>1. PICK r \in Requests : req[r] = Idle /\ req' = [req EXCEPT ![r] = [service |-> s, edit |-> e]]
  BY DEF Edit
<1>2. svc' = [t \in Services |-> svc'[t]] /\ req' = [o \in Requests |-> req'[o]]
  BY <1>1 DEF Edit, RendersInv
<1>3. SUFFICES ASSUME ~drifted'
               PROVE  /\ \A t \in Services : RowsRender(t, svc[t], up)'
                      /\ \A o \in Requests : req'[o] # Idle => OpenEditFits(o)'
  BY <1>2 DEF RendersInv
<1>4. ~drifted /\ \A o \in Requests : req[o] = Idle
  BY <1>3 DEF Edit
<1>5. \A t \in Services : RowsRender(t, svc[t], up)'
  BY <1>4 DEF RendersInv, Edit, RowsRender
<1>6. req'[r] = [service |-> s, edit |-> e] /\ \A o \in Requests \ {r} : req'[o] = Idle
  BY <1>1, <1>4 DEF RendersInv
<1>7. changed[s] = Change(svc[s], e)
  BY DEF RendersInv
<1>8. RowsRender(s, Change(svc[s], e), up)
  <2>1. Renders(changed, up)
    BY DEF Edit
  <2> HIDE DEF changed
  <2> QED
    BY <2>1, <1>7, RendersByService
<1>9. e.op = "put" => ~svc[s].there
  BY DEF Edit, Applies
<1>10. OpenEditFits(r)'
  BY <1>6, <1>8, <1>9 DEF OpenEditFits, Edit, RowsRender
<1> QED
  BY <1>5, <1>6, <1>10

\* What commits is what was validated, or does not apply any more.
LEMMA CommitFits ==
    ASSUME RendersInv, NEW r \in Requests, Commit(r)
    PROVE  RendersInv'
<1> DEFINE s == req[r].service
           e == req[r].edit
<1>1. svc' = [t \in Services |-> svc'[t]] /\ req' = [o \in Requests |-> req'[o]]
  BY DEF Commit, RendersInv
<1>2. SUFFICES ASSUME ~drifted'
               PROVE  /\ \A t \in Services : RowsRender(t, svc[t], up)'
                      /\ \A o \in Requests : req'[o] = Idle
  BY <1>1 DEF RendersInv
<1>3. req[r] # Idle /\ ~drifted /\ OpenEditFits(r)
  BY <1>2 DEF Commit, RendersInv
<1>4. \A o \in Requests : req'[o] = Idle
  BY <1>3 DEF Commit, RendersInv, OpenEditFits
<1>5. RowsRender(s, Change(svc[s], e), up)
  BY <1>3 DEF Commit, Applies, OpenEditFits
<1>6. s \in Services /\ svc'[s] = Change(svc[s], e) /\ \A t \in Services \ {s} : svc'[t] = svc[t]
  BY <1>3 DEF Commit, RendersInv, OpenEditFits
<1>7. up' = up
  BY DEF Commit
<1>8. \A t \in Services : RowsRender(t, svc[t], up)
  BY <1>3 DEF RendersInv
<1> QED
  BY <1>4, <1>5, <1>6, <1>7, <1>8 DEF RowsRender

\* A service that is deleted renders, and takes the edits of its rows along.
LEMMA DeletionFits ==
    ASSUME RendersInv, NEW s \in Services, DeleteService(s)
    PROVE  RendersInv'
<1>1. svc' = [t \in Services |-> svc'[t]] /\ req' = [o \in Requests |-> req'[o]]
  BY DEF DeleteService, RendersInv
<1>2. SUFFICES ASSUME ~drifted'
               PROVE  /\ \A t \in Services : RowsRender(t, svc[t], up)'
                      /\ \A o \in Requests : req'[o] # Idle => OpenEditFits(o)'
  BY <1>1 DEF RendersInv
<1>3. up' = up /\ req' = req /\ ~drifted /\ svc[s].there
  BY <1>2 DEF DeleteService
<1>4. svc'[s] = Absent /\ \A t \in Services \ {s} : svc'[t] = svc[t]
  BY DEF DeleteService, RendersInv
<1>5. \A t \in Services : RowsRender(t, svc[t], up)'
  BY RendersByService, <1>3 DEF DeleteService, RowsRender
<1>6. ASSUME NEW o \in Requests, req[o] # Idle
      PROVE  OpenEditFits(o)'
  <2>1. OpenEditFits(o)
    BY <1>3, <1>6 DEF RendersInv
  <2>2. CASE req[o].service = s
    BY <2>1, <2>2, <1>3, <1>4 DEF OpenEditFits, Absent
  <2>3. CASE req[o].service # s
    BY <2>1, <2>3, <1>3, <1>4 DEF OpenEditFits, RowsRender
  <2> QED
    BY <2>2, <2>3
<1> QED
  BY <1>3, <1>5, <1>6

\* Every step keeps it.
LEMMA RendersStep == RendersInv /\ [Next]_vars => RendersInv'
<1> SUFFICES ASSUME RendersInv, [Next]_vars PROVE RendersInv'
  OBVIOUS
<1>1. ASSUME NEW s \in Services, EditPolicy(s)
      PROVE  RendersInv'
  <2>1. CASE DeleteService(s)
    BY <2>1, DeletionFits
  <2>2. CASE \E e : Edit(s, e)
    BY <2>2, EditFits
  <2> QED
    BY <1>1, <2>1, <2>2 DEF EditPolicy, CreateService, UpdateEnabled, UpdateExposure, UpdatePort,
       AddAuthenticator, RemoveAuthenticator, AddFilter, RemoveFilter, AddAccessRule,
       RemoveAccessRule, CreateToken, RevokeToken, CreateAccount, DeleteAccount
<1>2. ASSUME NEW s \in Services, PeerMoves(s)
      PROVE  RendersInv'
  BY <1>2 DEF PeerMoves, RendersInv
<1>3. ASSUME NEW r \in Requests, Commit(r)
      PROVE  RendersInv'
  BY <1>3, CommitFits
<1>4. ASSUME NEW r \in Requests, Abort(r)
      PROVE  RendersInv'
  BY <1>4 DEF Abort, RendersInv, OpenEditFits, RowsRender
<1>5. ASSUME NEW g \in Groups, DeleteGroup(g)
      PROVE  RendersInv'
  <2>1. svc' = [t \in Services |-> svc'[t]] /\ req' = [o \in Requests |-> req'[o]]
    BY <1>5 DEF DeleteGroup, RendersInv
  <2>2. \A s \in Services : RowsRender(s, svc[s], up)'
    BY <1>5, RendersByService DEF DeleteGroup, RowsRender
  <2>3. ~drifted' => \A o \in Requests : req'[o] = Idle
    BY <1>5 DEF DeleteGroup
  <2> QED
    BY <2>1, <2>2, <2>3 DEF RendersInv
<1>6. CASE Poll
  BY <1>6 DEF Poll, RendersInv, OpenEditFits, RowsRender
<1>7. CASE UNCHANGED vars
  BY <1>7 DEF vars, RendersInv, OpenEditFits, RowsRender
<1> QED
  BY <1>1, <1>2, <1>3, <1>4, <1>5, <1>6, <1>7 DEF Next

\* No committed edit stops the ones after it, as long as edits do not overlap
\* and no upstream moves (api/routes/services.py _regenerate, which validates
\* every edit with the rows that are there).
THEOREM EditsKeepRendering == Spec => []CommittedRenders
<1>1. RendersInv => CommittedRenders
  BY RendersByService DEF RendersInv, CommittedRenders
<1> QED
  BY <1>1, RendersInit, RendersStep, PTL DEF Spec

-----------------------------------------------------------------------------
(* What runs                                                               *)

\* An edit that a request may hold.
IsEdit(e) ==
    \/ e.op = "put" /\ e.rows \in Initial
    \/ e.op = "set" /\ e.field \in {"enabled", "port", "account"} /\ e.value \in BOOLEAN
    \/ e.op = "set" /\ e.field = "exposure" /\ e.value \in Scopes
    \/ e.op \in {"add", "remove"} /\ \/ e.field = "auth" /\ e.value \in AuthRows
                                     \/ e.field = "filters" /\ e.value \in FilterRows
                                     \/ e.field = "access" /\ e.value \in AccessRows
                                     \/ e.field = "tokens" /\ e.value \in Tokens

\* What runs of a service was rendered from rows of that service, with the doors
\* it had then, and those rows were valid for the doors.
AsRendered(q) ==
    /\ q.rows \in Service
    /\ DOMAIN q.doors \subseteq q.rows.exposure
    /\ q.doors = RulesOf(q.rows, DOMAIN q.doors)
    /\ DOMAIN q.doors # {} => Valid(q.rows, DOMAIN q.doors)
    /\ q.tokens = q.rows.tokens /\ q.account = q.rows.account

ServicesInv ==
    /\ svc \in [Services -> Service]
    /\ \A s \in Services : Unique(svc[s])
    /\ up \subseteq Services
    /\ req = [r \in Requests |-> req[r]]
    /\ \A r \in Requests : req[r] # Idle => req[r].service \in Services /\ IsEdit(req[r].edit)
    /\ \A s \in Services : AsRendered(conf[s])
    /\ edits \in 0..MaxEdits /\ drifted \in BOOLEAN

\* An edit leaves rows of their type.
LEMMA ChangeTyped ==
    ASSUME NEW rows \in Service, NEW e, IsEdit(e)
    PROVE  Change(rows, e) \in Service
<1>1. CASE e.op = "put"
  BY <1>1, ServicesAssumption DEF IsEdit, Change
<1>2. CASE e.op = "set"
  <2>1. Change(rows, e) = [rows EXCEPT ![e.field] = e.value]
    BY <1>2 DEF Change
  <2>2. CASE e.field = "enabled" /\ e.value \in BOOLEAN
    BY <2>1, <2>2 DEF Service
  <2>3. CASE e.field = "port" /\ e.value \in BOOLEAN
    BY <2>1, <2>3 DEF Service
  <2>4. CASE e.field = "account" /\ e.value \in BOOLEAN
    BY <2>1, <2>4 DEF Service
  <2>5. CASE e.field = "exposure" /\ e.value \in Scopes
    BY <2>1, <2>5 DEF Service
  <2> QED
    BY <1>2, <2>2, <2>3, <2>4, <2>5 DEF IsEdit
<1>3. CASE e.op = "add"
  <2>1. Change(rows, e) = [rows EXCEPT ![e.field] = @ \cup {e.value}]
    BY <1>3 DEF Change
  <2>2. CASE e.field = "auth" /\ e.value \in Auths
    BY <2>1, <2>2 DEF Service
  <2>3. CASE e.field = "filters" /\ e.value \in Filters
    BY <2>1, <2>3 DEF Service
  <2>4. CASE e.field = "access" /\ e.value \in Accesses
    BY <2>1, <2>4 DEF Service
  <2>5. CASE e.field = "tokens" /\ e.value \in Tokens
    BY <2>1, <2>5 DEF Service
  <2> QED
    BY <1>3, <2>2, <2>3, <2>4, <2>5, ServicesAssumption DEF IsEdit
<1>4. CASE e.op = "remove"
  <2>1. Change(rows, e) = [rows EXCEPT ![e.field] = @ \ {e.value}]
    BY <1>4 DEF Change
  <2>2. CASE e.field = "auth"
    BY <2>1, <2>2 DEF Service
  <2>3. CASE e.field = "filters"
    BY <2>1, <2>3 DEF Service
  <2>4. CASE e.field = "access"
    BY <2>1, <2>4 DEF Service
  <2>5. CASE e.field = "tokens"
    BY <2>1, <2>5 DEF Service
  <2> QED
    BY <1>4, <2>2, <2>3, <2>4, <2>5 DEF IsEdit
<1> QED
  BY <1>1, <1>2, <1>3, <1>4 DEF IsEdit

\* What Rendered gives of each service is as rendered.
LEMMA RenderedIsAsRendered ==
    ASSUME NEW rows \in [Services -> Service], NEW active, Renders(rows, active), NEW s \in Services
    PROVE  AsRendered(Rendered(rows, active)[s])
<1> DEFINE doors == Served(s, rows[s], active)
           q == [doors |-> RulesOf(rows[s], doors), tokens |-> rows[s].tokens,
                 account |-> rows[s].account, rows |-> rows[s]]
<1>1. Rendered(rows, active)[s] = q
  BY DEF Rendered
<1>2. doors \subseteq rows[s].exposure /\ rows[s] \in Service
  BY DEF Served
<1>3. doors # {} => Valid(rows[s], doors)
  BY RendersByService DEF RowsRender
<1> HIDE DEF doors
<1>4. DOMAIN RulesOf(rows[s], doors) = doors
  BY DEF RulesOf
<1> QED
  BY <1>1, <1>2, <1>3, <1>4 DEF AsRendered

LEMMA ServicesInit == Init => ServicesInv
<1> SUFFICES ASSUME Init PROVE ServicesInv
  OBVIOUS
<1>1. svc \in [Services -> Service] /\ \A s \in Services : Unique(svc[s])
  BY ServicesAssumption DEF Init
<1>2. \A s \in Services : AsRendered(conf[s])
  BY <1>1, RenderedIsAsRendered DEF Init
<1>3. req = [r \in Requests |-> req[r]] /\ \A r \in Requests : req[r] = Idle
  BY DEF Init
<1>4. up = Services /\ edits = 0 /\ drifted = FALSE
  BY DEF Init
<1>5. up \subseteq Services /\ edits \in 0..MaxEdits /\ drifted \in BOOLEAN
  <2>1. MaxEdits \in Nat
    BY ServicesAssumption
  <2>2. edits \in 0..MaxEdits
    BY <1>4, <2>1
  <2> QED
    BY <1>4, <2>2
<1> QED
  BY <1>1, <1>2, <1>3, <1>5 DEF ServicesInv

\* The rows of one service change to rows of their type.
LEMMA CommitTyped ==
    ASSUME ServicesInv, NEW r \in Requests, Commit(r)
    PROVE  ServicesInv'
<1>1. /\ req[r] # Idle /\ Unique(Change(svc[req[r].service], req[r].edit))
      /\ svc' = [svc EXCEPT ![req[r].service] = Change(@, req[r].edit)]
      /\ req' = [req EXCEPT ![r] = Idle]
      /\ UNCHANGED <<up, conf, edits, drifted>>
  BY DEF Commit
<1>2. Change(svc[req[r].service], req[r].edit) \in Service
  BY <1>1, ChangeTyped DEF ServicesInv
<1>3. svc' \in [Services -> Service] /\ \A s \in Services : Unique(svc'[s])
  BY <1>1, <1>2 DEF ServicesInv
<1>4. req' = [o \in Requests |-> req'[o]] /\ \A o \in Requests : req'[o] \in {Idle, req[o]}
  BY <1>1 DEF ServicesInv
<1> QED
  BY <1>1, <1>3, <1>4 DEF ServicesInv

\* Rows of their type open an edit of theirs.
LEMMA EditTyped ==
    ASSUME ServicesInv, NEW s \in Services, NEW e, IsEdit(e), Edit(s, e)
    PROVE  ServicesInv'
<1>1. PICK r \in Requests : req' = [req EXCEPT ![r] = [service |-> s, edit |-> e]]
  BY DEF Edit
<1>2. /\ edits < MaxEdits /\ edits' = edits + 1 /\ drifted' \in BOOLEAN
      /\ UNCHANGED <<svc, up, conf>>
  BY DEF Edit
<1>3. edits' \in 0..MaxEdits
  BY <1>2, ServicesAssumption DEF ServicesInv
<1>4. /\ req' = [o \in Requests |-> req'[o]]
      /\ \A o \in Requests : req'[o] = req[o] \/ req'[o] = [service |-> s, edit |-> e]
  BY <1>1 DEF ServicesInv
<1> QED
  BY <1>2, <1>3, <1>4 DEF ServicesInv

\* What goes with a group leaves rows of their type, no two of one kind.
LEMMA GroupGoneTyped ==
    ASSUME NEW rows \in Service, Unique(rows), NEW g \in Groups
    PROVE  LET left == [rows EXCEPT !.auth = {[a EXCEPT !.groups = @ \ {g}] : a \in @},
                                    !.access = {a \in @ : a.source # g}]
           IN  left \in Service /\ Unique(left)
<1> DEFINE auth == {[a EXCEPT !.groups = @ \ {g}] : a \in rows.auth}
           access == {a \in rows.access : a.source # g}
           left == [rows EXCEPT !.auth = {[a EXCEPT !.groups = @ \ {g}] : a \in @},
                                !.access = {a \in @ : a.source # g}]
<1>1. rows.auth \subseteq Auths /\ rows.access \subseteq Accesses
  BY DEF Service
<1>2. \A a \in rows.auth : /\ [a EXCEPT !.groups = @ \ {g}] \in Auths
                           /\ [a EXCEPT !.groups = @ \ {g}].kind = a.kind
                           /\ [a EXCEPT !.groups = @ \ {g}].scope = a.scope
  BY <1>1 DEF Auths
<1>3. auth \subseteq Auths /\ access \subseteq Accesses
  BY <1>1, <1>2
<1>4. \A a, b \in auth : a.kind = b.kind /\ a.scope = b.scope => a = b
  <2> SUFFICES ASSUME NEW a \in auth, NEW b \in auth, a.kind = b.kind, a.scope = b.scope
               PROVE  a = b
    OBVIOUS
  <2>1. PICK x \in rows.auth : a = [x EXCEPT !.groups = @ \ {g}]
    OBVIOUS
  <2>2. PICK y \in rows.auth : b = [y EXCEPT !.groups = @ \ {g}]
    OBVIOUS
  <2>3. x.kind = y.kind /\ x.scope = y.scope
    BY <1>2, <2>1, <2>2
  <2> QED
    BY <2>1, <2>2, <2>3 DEF Unique
<1> HIDE DEF auth, access
<1>5. [rows EXCEPT !.auth = auth, !.access = access] \in Service
  BY <1>3 DEF Service
<1>6. [rows EXCEPT !.auth = auth, !.access = access].auth = auth
  BY DEF Service
<1>7. left = [rows EXCEPT !.auth = auth, !.access = access]
  BY DEF auth, access
<1> QED
  BY <1>4, <1>5, <1>6, <1>7 DEF Unique

LEMMA ServicesStep == ServicesInv /\ [Next]_vars => ServicesInv'
<1> SUFFICES ASSUME ServicesInv, [Next]_vars PROVE ServicesInv'
  OBVIOUS
<1>1. ASSUME NEW s \in Services, EditPolicy(s)
      PROVE  ServicesInv'
  <2>1. CASE DeleteService(s)
    <3>1. Absent \in Service /\ Unique(Absent)
      BY DEF Absent, Service, Scopes, Unique
    <3>2. svc' \in [Services -> Service] /\ \A t \in Services : Unique(svc'[t])
      BY <2>1, <3>1 DEF DeleteService, ServicesInv
    <3> QED
      BY <2>1, <3>2, ServicesAssumption DEF DeleteService, ServicesInv
  <2>2. CASE \E e : IsEdit(e) /\ Edit(s, e)
    BY <2>2, EditTyped
  <2>3. CASE \/ \E rows \in Initial : CreateService(s, rows)
             \/ \E b \in BOOLEAN : UpdateEnabled(s, b) \/ UpdatePort(s, b)
             \/ \E x \in Scopes : UpdateExposure(s, x)
             \/ CreateAccount(s) \/ DeleteAccount(s)
    BY <2>2, <2>3 DEF CreateService, UpdateEnabled, UpdatePort, UpdateExposure, CreateAccount,
                      DeleteAccount, IsEdit
  <2>4. CASE \/ \E a \in AuthRows : AddAuthenticator(s, a) \/ RemoveAuthenticator(s, a)
             \/ \E f \in FilterRows : AddFilter(s, f) \/ RemoveFilter(s, f)
             \/ \E a \in AccessRows : AddAccessRule(s, a) \/ RemoveAccessRule(s, a)
             \/ \E t \in Tokens : CreateToken(s, t) \/ RevokeToken(s, t)
    BY <2>2, <2>4 DEF AddAuthenticator, RemoveAuthenticator, AddFilter, RemoveFilter,
                      AddAccessRule, RemoveAccessRule, CreateToken, RevokeToken, IsEdit
  <2> QED
    BY <1>1, <2>1, <2>3, <2>4 DEF EditPolicy
<1>2. ASSUME NEW s \in Services, PeerMoves(s)
      PROVE  ServicesInv'
  BY <1>2, ServicesAssumption DEF PeerMoves, ServicesInv
<1>3. ASSUME NEW r \in Requests, Commit(r)
      PROVE  ServicesInv'
  BY <1>3, CommitTyped
<1>4. ASSUME NEW r \in Requests, Abort(r)
      PROVE  ServicesInv'
  BY <1>4 DEF Abort, ServicesInv
<1>5. ASSUME NEW g \in Groups, DeleteGroup(g)
      PROVE  ServicesInv'
  <2>1. svc' \in [Services -> Service] /\ \A s \in Services : Unique(svc'[s])
    BY <1>5, GroupGoneTyped DEF DeleteGroup, ServicesInv
  <2>2. /\ edits < MaxEdits /\ edits' = edits + 1 /\ drifted' \in BOOLEAN
        /\ UNCHANGED <<up, req, conf>>
    BY <1>5 DEF DeleteGroup
  <2>3. edits' \in 0..MaxEdits
    BY <2>2, ServicesAssumption DEF ServicesInv
  <2> QED
    BY <2>1, <2>2, <2>3 DEF ServicesInv
<1>6. CASE Poll
  <2>1. \A s \in Services : AsRendered(conf'[s])
    BY <1>6, RenderedIsAsRendered DEF Poll, ServicesInv
  <2> QED
    BY <1>6, <2>1 DEF Poll, ServicesInv
<1>7. CASE UNCHANGED vars
  BY <1>7 DEF vars, ServicesInv
<1> QED
  BY <1>1, <1>2, <1>3, <1>4, <1>5, <1>6, <1>7 DEF Next

\* The rows keep the constraints of their tables (models.py, ServiceAuth's
\* uq_service_auth_kind among them), overlapping edits and deleted groups
\* included, and what runs has no door that its service was not given.
THEOREM ServicesTypeCorrect == Spec => []TypeOK
<1>1. ServicesInv => TypeOK
  BY DEF ServicesInv, TypeOK, AsRendered
<1> QED
  BY <1>1, ServicesInit, ServicesStep, PTL DEF Spec

-----------------------------------------------------------------------------
(* Who gets in                                                             *)

\* A refusal applies to a caller when all its conditions hold.
Refuses(refusal, c, q) == \A k \in refusal : Holds(k, c, q)

\* What the tests say of a caller.
LEMMA AddressTests ==
    ASSUME NEW c \in AllCallers, NEW q
    PROVE  /\ Holds(Is("listed"), c, q) <=> c.listed
           /\ Holds(Not("listed"), c, q) <=> ~c.listed
           /\ Holds(Is("fast"), c, q) <=> c.fast
<1>1. c.listed \in BOOLEAN /\ c.fast \in BOOLEAN
  BY DEF AllCallers
<1> QED
  BY <1>1 DEF Holds, Is, Not

LEMMA GroupTests ==
    ASSUME NEW c \in AllCallers, NEW q, NEW g \in Groups
    PROVE  /\ Holds(Is(g), c, q) <=> g \in c.sets
           /\ Holds(Not(g), c, q) <=> g \notin c.sets
<1>1. g # "listed" /\ g # "fast" /\ g # "auth"
  BY ServicesAssumption
<1>2. /\ Is(g).test = g /\ Is(g).is = TRUE
      /\ Not(g).test = g /\ Not(g).is = FALSE
  BY DEF Is, Not
<1>3. /\ Holds(Is(g), c, q) <=> (TRUE = (g \in c.sets))
      /\ Holds(Not(g), c, q) <=> (FALSE = (g \in c.sets))
  BY <1>1, <1>2 DEF Holds
<1> QED
  BY <1>3

LEMMA AuthTests ==
    ASSUME NEW c \in AllCallers, NEW q, q.account \in BOOLEAN, NEW a \in Auths
    PROVE  Holds(NotProven(a), c, q) <=> ~Presents(c, a, q.tokens, q.account)
<1>1. /\ c.peer \in BOOLEAN /\ c.account \in BOOLEAN
      /\ c.cookie # NoCookie => c.cookie.admin \in BOOLEAN
  BY DEF AllCallers, Claims, NoCookie
<1>2. a.kind \in AuthKinds /\ a.admin \in BOOLEAN
  BY DEF Auths
<1>3. Presents(c, a, q.tokens, q.account) \in BOOLEAN
  BY <1>1, <1>2 DEF Presents, AuthKinds
<1>4. NotProven(a).test = "auth" /\ NotProven(a).is = FALSE /\ NotProven(a).row = a
  BY DEF NotProven
<1>5. Holds(NotProven(a), c, q) <=> (FALSE = Presents(c, a, q.tokens, q.account))
  BY <1>4 DEF Holds
<1> QED
  BY <1>3, <1>5

\* Whether the source of a rule is the caller's.
Matches(a, c) == CASE a.source = "any" -> TRUE
                   [] a.source = "range" -> c.listed
                   [] OTHER -> a.source \in c.sets

LEMMA SourceTests ==
    ASSUME NEW c \in AllCallers, NEW q, NEW a \in Accesses, a.source # "any"
    PROVE  /\ Holds(Is(SourceTest(a)), c, q) <=> Matches(a, c)
           /\ Holds(Not(SourceTest(a)), c, q) <=> ~Matches(a, c)
<1>1. CASE a.source = "range"
  BY <1>1, AddressTests DEF SourceTest, Matches
<1>2. CASE a.source \in Groups
  <2>1. a.source # "range"
    BY <1>2, ServicesAssumption
  <2> QED
    BY <1>2, <2>1, GroupTests DEF SourceTest, Matches
<1> QED
  BY <1>1, <1>2 DEF Accesses, Sources

\* No filter refuses exactly when the lists and, over HTTP, the rate limits pass.
LEMMA FiltersAsStated ==
    ASSUME NEW rows \in Service, NEW door, NEW c \in AllCallers, NEW q
    PROVE  (\A refusal \in FilterRefusals(rows, door) : ~Refuses(refusal, c, q)) <=>
           Screened(rows, door, c) /\ (WithinRate(rows, door, c) \/ rows.kind = "tcp")
<1> DEFINE filters == Covering(rows.filters, door)
<1>1. /\ Refuses({Is("listed")}, c, q) <=> c.listed
      /\ Refuses({Not("listed")}, c, q) <=> ~c.listed
      /\ Refuses({Is("fast")}, c, q) <=> c.fast
  BY AddressTests DEF Refuses
<1> HIDE DEF filters
<1>2. (\A refusal \in FilterRefusals(rows, door) : ~Refuses(refusal, c, q)) <=>
      /\ \A f \in filters : f.kind = "deny" => ~Refuses({Is("listed")}, c, q)
      /\ \A f \in filters : f.kind = "allow" => ~Refuses({Not("listed")}, c, q)
      /\ \A f \in filters : f.kind = "rate" /\ rows.kind = "http" => ~Refuses({Is("fast")}, c, q)
  BY DEF FilterRefusals, filters
<1>3. rows.kind = "http" <=> rows.kind # "tcp"
  BY DEF Service
<1> QED
  BY <1>1, <1>2, <1>3 DEF filters, Screened, WithinRate

\* No access rule refuses exactly when the rules grant access, or there are none.
LEMMA AccessAsStated ==
    ASSUME NEW rows \in Service, NEW door, NEW c \in AllCallers, NEW q
    PROVE  (\A refusal \in AccessRefusals(rows, door) : ~Refuses(refusal, c, q)) <=>
           Granted(rows, door, c) \/ rows.access = {}
<1> DEFINE meant == {a \in rows.access : door = "internal" \/ a.source \notin Groups}
           allows == {a \in meant : a.action = "allow"}
           denies == {a \in meant : a.action = "deny"}
           OfDeny(a) == IF a.source = "any" THEN {} ELSE {Is(SourceTest(a))}
           ofAllows == {Not(SourceTest(a)) : a \in allows}
           anyone == \E a \in allows : a.source = "any"
<1>1. meant \subseteq Accesses
  BY DEF Service
<1>2. denies = meant \ allows
  BY <1>1 DEF Accesses
<1>3. AccessRefusals(rows, door) =
        {OfDeny(a) : a \in denies} \cup (IF allows = {} \/ anyone THEN {} ELSE {ofAllows})
  BY DEF AccessRefusals
<1>4. \A a \in meant : Refuses(OfDeny(a), c, q) <=> Matches(a, c)
  <2> SUFFICES ASSUME NEW a \in meant
               PROVE  Refuses(OfDeny(a), c, q) <=> Matches(a, c)
    OBVIOUS
  <2>1. CASE a.source = "any"
    BY <2>1 DEF Refuses, Matches
  <2>2. CASE a.source # "any"
    BY <2>2, <1>1, SourceTests DEF Refuses
  <2> QED
    BY <2>1, <2>2
<1>5. ~anyone => (Refuses(ofAllows, c, q) <=> \A a \in allows : ~Matches(a, c))
  <2> SUFFICES ASSUME ~anyone
               PROVE  Refuses(ofAllows, c, q) <=> \A a \in allows : ~Matches(a, c)
    OBVIOUS
  <2>1. \A a \in allows : Holds(Not(SourceTest(a)), c, q) <=> ~Matches(a, c)
    BY <1>1, SourceTests
  <2> QED
    BY <2>1 DEF Refuses
<1>6. anyone => \E a \in allows : Matches(a, c)
  BY DEF Matches
<1> HIDE DEF meant, allows, denies, OfDeny, ofAllows, anyone
<1>7. (\A refusal \in AccessRefusals(rows, door) : ~Refuses(refusal, c, q)) <=>
        /\ \A a \in denies : ~Refuses(OfDeny(a), c, q)
        /\ allows = {} \/ anyone \/ ~Refuses(ofAllows, c, q)
  BY <1>3
<1>8. \A a \in denies : a \in meant
  BY DEF denies
<1>9. (\A refusal \in AccessRefusals(rows, door) : ~Refuses(refusal, c, q)) <=>
        /\ \A a \in denies : ~Matches(a, c)
        /\ allows = {} \/ \E a \in allows : Matches(a, c)
  BY <1>4, <1>5, <1>6, <1>7, <1>8
<1>10. Granted(rows, door, c) <=>
        /\ rows.access # {}
        /\ \A a \in meant \ allows : ~Matches(a, c)
        /\ allows = {} \/ \E a \in allows : Matches(a, c)
  BY DEF Granted, Matches, meant, allows
<1>11. rows.access = {} => meant = {} /\ allows = {}
  BY DEF meant, allows
<1> QED
  BY <1>2, <1>9, <1>10, <1>11

\* No authenticator refuses exactly when one of them admits the caller: it does
\* no harm that a row with a requirement is tried as the first single sign-on
\* row, when that is the row itself or one without a requirement.
LEMMA AuthAsStated ==
    ASSUME NEW rows \in Service, NEW door, Guarded(rows, door), ~TwoRequirements(rows, door),
           NEW c \in AllCallers, NEW q, q.tokens = rows.tokens, q.account = rows.account
    PROVE  (\A refusal \in AuthRefusals(rows, door) : ~Refuses(refusal, c, q)) <=>
           \E a \in Covering(rows.auth, door) : Presents(c, a, rows.tokens, rows.account)
<1> DEFINE auths == Covering(rows.auth, door)
           Tried(a) == IF a.groups # {} \/ a.admin THEN CHOOSE b \in FirstSso(auths) : TRUE ELSE a
           Admitted(a) == Presents(c, a, rows.tokens, rows.account)
<1>1. auths \subseteq Auths /\ auths # {}
  BY DEF Service, Covering, Guarded
<1>2. CASE \E a \in auths : a.kind = "public"
  <2>1. AuthRefusals(rows, door) = {}
    BY <1>2 DEF AuthRefusals
  <2>2. \E a \in auths : Admitted(a)
    BY <1>2 DEF Presents
  <2> QED
    BY <2>1, <2>2
<1>3. CASE \A a \in auths : a.kind # "public"
  <2>1. AuthRefusals(rows, door) = {{NotProven(Tried(a)) : a \in auths}}
    BY <1>1, <1>3 DEF AuthRefusals
  <2>2. ASSUME NEW a \in auths
        PROVE  Tried(a) \in auths /\ (Admitted(a) => Admitted(Tried(a)))
    <3>1. CASE a.groups # {} \/ a.admin
      <4>1. a.kind = "foxguard_sso"
        BY <1>1, <3>1 DEF Auths
      <4>2. FirstSso(auths) # {}
        <5>1. CASE \E b \in auths : b.kind = "foxguard_sso" /\ b.priority = 1
          BY <1>1, <5>1 DEF FirstSso, Auths
        <5>2. CASE \A b \in auths : b.kind = "foxguard_sso" => b.priority # 1
          BY <1>1, <4>1, <5>2 DEF FirstSso, Auths
        <5> QED
          BY <5>1, <5>2
      <4>3. Tried(a) \in FirstSso(auths)
        BY <3>1, <4>2
      <4>4. Tried(a) \in auths /\ Tried(a).kind = "foxguard_sso"
        BY <4>3 DEF FirstSso
      <4> HIDE DEF Tried
      <4>5. Tried(a) # a => Tried(a).groups = {} /\ ~Tried(a).admin
        BY <3>1, <4>1, <4>4 DEF TwoRequirements
      <4>6. Admitted(a) => c.cookie # NoCookie
        BY <4>1 DEF Presents
      <4>7. Tried(a).groups = {} /\ ~Tried(a).admin /\ c.cookie # NoCookie => Admitted(Tried(a))
        BY <4>4 DEF Presents
      <4> HIDE DEF Admitted, auths
      <4> QED
        BY <4>4, <4>5, <4>6, <4>7
    <3>2. CASE ~(a.groups # {} \/ a.admin)
      BY <3>2
    <3> QED
      BY <3>1, <3>2
  <2>3. \A a \in auths : Holds(NotProven(Tried(a)), c, q) <=> ~Admitted(Tried(a))
    <3>1. q.account \in BOOLEAN
      BY DEF Service
    <3> QED
      BY <1>1, <2>2, <3>1, AuthTests
  <2> HIDE DEF auths, Tried, Admitted
  <2>4. Refuses({NotProven(Tried(a)) : a \in auths}, c, q) <=> \A a \in auths : ~Admitted(Tried(a))
    BY <2>3 DEF Refuses
  <2>5. (\A refusal \in AuthRefusals(rows, door) : ~Refuses(refusal, c, q)) <=>
          \E a \in auths : Admitted(a)
    BY <2>1, <2>2, <2>4
  <2> QED
    BY <2>5 DEF auths, Admitted
<1> QED
  BY <1>2, <1>3

\* A token proves the caller, revoked ones apart, whether it has expired or not.
LEMMA TokensAsStated ==
    ASSUME NEW rows \in Service, NEW door, NEW c
    PROVE  (\E a \in Covering(rows.auth, door) : Presents(c, a, rows.tokens, rows.account)) <=>
           Proves(rows, door, c) \/ LateToken(rows, door, c)
<1>1. ASSUME NEW a \in Auths
      PROVE  Presents(c, a, rows.tokens, rows.account) <=>
             \/ Presents(c, a, rows.tokens \ Lapsed(c), rows.account)
             \/ a.kind = "bearer" /\ c.tokens \cap rows.tokens \cap Lapsed(c) # {}
  <2>1. CASE a.kind = "bearer"
    BY <2>1 DEF Presents
  <2>2. CASE a.kind # "bearer"
    BY <2>2 DEF Presents, Auths, AuthKinds
  <2> QED
    BY <2>1, <2>2
<1>2. Covering(rows.auth, door) \subseteq Auths
  BY DEF Covering, Service
<1> QED
  BY <1>1, <1>2 DEF Proves, LateToken

\* One door of what runs lets in whom the rows say, and the departures.
LEMMA DoorAsStated ==
    ASSUME NEW q, AsRendered(q), NEW d \in DOMAIN q.doors,
           ~(q.rows.kind = "tcp" /\ DOMAIN q.doors = Doors), ~TwoRequirements(q.rows, d),
           NEW c \in AllCallers
    PROVE  Admits(q, d, c) <=> Entrant(q.rows, d, c)
<1> DEFINE rows == q.rows
<1>1. rows \in Service /\ DOMAIN q.doors \subseteq rows.exposure
  BY DEF AsRendered
<1>2. rows.kind \in {"http", "tcp"} /\ DOMAIN q.doors \subseteq Doors
  BY <1>1 DEF Service, Scopes, Doors
<1>3. q.doors[d] = DoorRefusals(rows, d)
  <2>1. q.doors[d] = DoorRefusals(rows, IF rows.kind = "http" THEN d
                           ELSE IF "external" \in DOMAIN q.doors THEN "external" ELSE "internal")
    BY DEF AsRendered, RulesOf
  <2>2. rows.kind = "http" \/ d = IF "external" \in DOMAIN q.doors THEN "external" ELSE "internal"
    BY <1>2 DEF Doors
  <2> QED
    BY <2>1, <2>2
<1>4. Guarded(rows, d)
  BY DEF AsRendered, Valid
<1>5. Admits(q, d, c) <=>
        /\ \A refusal \in FilterRefusals(rows, d) : ~Refuses(refusal, c, q)
        /\ \A refusal \in AccessRefusals(rows, d) : ~Refuses(refusal, c, q)
        /\ \A refusal \in AuthRefusals(rows, d) : ~Refuses(refusal, c, q)
  BY <1>3 DEF Admits, DoorRefusals, Refuses
<1>6. (\A refusal \in FilterRefusals(rows, d) : ~Refuses(refusal, c, q)) <=>
        Screened(rows, d, c) /\ (WithinRate(rows, d, c) \/ rows.kind = "tcp")
  BY <1>1, FiltersAsStated
<1>7. (\A refusal \in AccessRefusals(rows, d) : ~Refuses(refusal, c, q)) <=>
        Granted(rows, d, c) \/ rows.access = {}
  BY <1>1, AccessAsStated
<1>8. (\A refusal \in AuthRefusals(rows, d) : ~Refuses(refusal, c, q)) <=>
        Proves(rows, d, c) \/ LateToken(rows, d, c)
  BY <1>1, <1>4, AuthAsStated, TokensAsStated DEF AsRendered
<1> QED
  BY <1>5, <1>6, <1>7, <1>8 DEF Entrant

\* However the rows were edited, a door of what the proxy runs lets in the callers
\* that its rows and the documents admit (proxy/haproxy.py, the `http-request deny`
\* rules of a frontend), and beyond them only who is over the rate of a
\* passthrough service, who meets no access rule because there is none, and who
\* comes with an expired token; a passthrough service on both doors and two single
\* sign-on rows with different requirements left apart.
THEOREM EntrantsAreAsStated == Spec => []EntrantsAsStated
<1>1. \A rows, d, c : Policy(rows, d, c) => Entrant(rows, d, c)
  BY DEF Policy, Entrant
<1>2. ServicesInv => EntrantsAsStated
  BY <1>1, DoorAsStated, ServicesAssumption DEF ServicesInv, EntrantsAsStated, OneFrontend
<1> QED
  BY <1>2, ServicesInit, ServicesStep, PTL DEF Spec
=============================================================================
