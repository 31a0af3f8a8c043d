-------------------------- MODULE PublishedServices --------------------------
(***************************************************************************)
(* Services published through the gateway's reverse proxy: the rows an     *)
(* administrator edits, the configuration rendered from them, and what the *)
(* proxy that runs it does with a caller.                                  *)
(*                                                                         *)
(* Every refusal the renderer writes is a conjunction of conditions on the *)
(* caller, and a caller gets through when no refusal applies; which of the *)
(* refusals comes first decides only the answer it gets.  So a door is     *)
(* rendered as a set of sets of conditions.                                *)
(*                                                                         *)
(* An edit is validated in its own transaction, with its own change and    *)
(* without the changes of others that are still open, and then committed.  *)
(***************************************************************************)
EXTENDS Naturals, FiniteSets

CONSTANTS
    Services, Groups,
    Tokens,         \* bearer tokens that may be issued
    Expiring,       \* those issued with an expires_at
    AuthRows, FilterRows, AccessRows,   \* rows that edits add
    Callers,
    Requests,       \* transactions that may be open at once
    StopInternal, StopExternal,     \* what the door does when the upstream's peer is down
    Initial,        \* services as they may be created
    MaxEdits        \* bound on the edits

VARIABLES
    svc,        \* the rows of each service
    up,         \* services whose upstream peer is active
    req,        \* open edits, validated
    conf,       \* the configuration the proxy runs
    edits,      \* edits so far
    drifted     \* an edit overlapped another, or an upstream moved

vars == <<svc, up, req, conf, edits, drifted>>

-----------------------------------------------------------------------------
(* Rows                                                                    *)

Doors == {"internal", "external"}
Scopes == {{"internal"}, {"external"}, Doors}

\* Only single sign-on knows who the caller is, so only it asks for groups.
AuthKinds == {"peer_identity", "bearer", "basic", "foxguard_sso", "public"}
Auths == {a \in [kind: AuthKinds, scope: Scopes, groups: SUBSET Groups, admin: BOOLEAN,
                 priority: {1, 2}] :
            a.kind # "foxguard_sso" => a.groups = {} /\ ~a.admin}

\* An allow list and a deny list of addresses, or of countries; a rate.
Filters == [kind: {"allow", "deny", "rate"}, scope: Scopes]

\* Source: anyone, an address range, or the members of a group or zone.
Sources == {"any", "range"} \cup Groups
Accesses == [action: {"allow", "deny"}, source: Sources]

\* A caller as the proxy sees it: on the address list or not, a peer or not and
\* in which groups' addresses, over the rate or not, and what it presents; and
\* whether it comes late, when the tokens that expire have.
Claims == [groups: SUBSET Groups, admin: BOOLEAN]
NoCookie == [groups |-> {}]
AllCallers == [listed: BOOLEAN, peer: BOOLEAN, sets: SUBSET Groups, fast: BOOLEAN, late: BOOLEAN,
               tokens: SUBSET Tokens, account: BOOLEAN, cookie: Claims \cup {NoCookie}]

\* A passthrough service has a port of its own, or shares one by its TLS name.
Service == [there: BOOLEAN, enabled: BOOLEAN, kind: {"http", "tcp"}, port: BOOLEAN, exposure: Scopes,
            auth: SUBSET Auths, filters: SUBSET Filters, access: SUBSET Accesses,
            tokens: SUBSET Tokens, account: BOOLEAN]
Absent == [there |-> FALSE, enabled |-> FALSE, kind |-> "http", port |-> FALSE, exposure |-> Doors,
           auth |-> {}, filters |-> {}, access |-> {}, tokens |-> {}, account |-> FALSE]

\* uq_service_auth_kind.
Unique(rows) ==
    \A a, b \in rows.auth : a.kind = b.kind /\ a.scope = b.scope => a = b

\* No group bears the name of a test or of a source.
ASSUME ServicesAssumption ==
    /\ AuthRows \subseteq Auths /\ FilterRows \subseteq Filters /\ AccessRows \subseteq Accesses
    /\ Groups \cap {"any", "range", "listed", "fast", "auth"} = {}
    /\ \A a, b \in AuthRows : a.kind = "foxguard_sso" /\ b.kind = a.kind /\ a # b
                              => a.priority # b.priority
    /\ Callers \subseteq AllCallers /\ Expiring \subseteq Tokens
    /\ Initial \subseteq Service /\ \A rows \in Initial : Unique(rows)
    /\ StopInternal \in BOOLEAN /\ StopExternal \in BOOLEAN
    /\ MaxEdits \in Nat

\* doors_for: a service whose upstream is down may lose a door.
Served(s, rows, active) ==
    {d \in rows.exposure :
        /\ rows.enabled
        /\ s \in active \/ ~(IF d = "internal" THEN StopInternal ELSE StopExternal)}

Covering(set, door) == {x \in set : door \in x.scope}

\* _validate_policy: an authenticator is for the kind of service it is on, and is
\* able to admit somebody.
CanAdmit(rows, a) ==
    /\ a.kind = "peer_identity" => a.scope = {"internal"}
    /\ rows.kind = "tcp" => a.kind \in {"peer_identity", "public"}
    /\ a.kind = "basic" => rows.account
    /\ a.kind = "bearer" => rows.tokens # {}

\* A door has an authenticator, and one that is public has no other.
Guarded(rows, door) ==
    LET auths == Covering(rows.auth, door) IN
    /\ auths # {}
    /\ (\E a \in auths : a.kind = "public") => Cardinality(auths) = 1

Valid(rows, doors) ==
    /\ \A a \in rows.auth : CanAdmit(rows, a)
    /\ \A d \in doors : Guarded(rows, d)

\* A service that has no door is not looked at.
Renders(rows, active) ==
    \A s \in Services :
        LET doors == Served(s, rows[s], active) IN doors # {} => Valid(rows[s], doors)

-----------------------------------------------------------------------------
(* Rendering                                                               *)

\* A condition: a test and the outcome it wants; the row of an authenticator.
NoRow == [kind |-> "none"]
Is(test) == [test |-> test, is |-> TRUE, row |-> NoRow]
Not(test) == [test |-> test, is |-> FALSE, row |-> NoRow]
NotProven(a) == [test |-> "auth", is |-> FALSE, row |-> a]

FilterRefusals(rows, door) ==
    LET of(kind) == {f \in Covering(rows.filters, door) : f.kind = kind} IN
    {{Is("listed")} : f \in of("deny")}
      \cup {{Not("listed")} : f \in of("allow")}
      \cup {{Is("fast")} : f \in {f \in of("rate") : rows.kind = "http"}}

SourceTest(a) == IF a.source = "range" THEN "listed" ELSE a.source

\* Mutant: every allow rule has to match.
AccessRefusalsChained(rows, door) ==
    LET meant == {a \in rows.access : door = "internal" \/ a.source \notin Groups} IN
    {{IF a.action = "deny" THEN Is(SourceTest(a)) ELSE Not(SourceTest(a))} :
        a \in {a \in meant : a.source # "any"}}
      \cup {{} : a \in {a \in meant : a.source = "any" /\ a.action = "deny"}}

\* Each deny rule refuses; if there are allow rules, and none is for anyone, so
\* does matching none of them.  On the WAN the rules for groups are left out.
AccessRefusals(rows, door) ==
    LET meant == {a \in rows.access : door = "internal" \/ a.source \notin Groups}
        allows == {a \in meant : a.action = "allow"}
    IN
    {IF a.source = "any" THEN {} ELSE {Is(SourceTest(a))} :
        a \in {a \in meant : a.action = "deny"}}
      \cup (IF allows = {} \/ \E a \in allows : a.source = "any" THEN {}
            ELSE {{Not(SourceTest(a)) : a \in allows}})

\* One integer says whether the person may use the service, and it is computed
\* for the first of the single sign-on rows.
FirstSso(auths) ==
    {a \in auths : a.kind = "foxguard_sso"
        /\ \A b \in auths : b.kind = "foxguard_sso" => a.priority <= b.priority}

\* No authenticator that was tried admitted the caller.
AuthRefusals(rows, door) ==
    LET auths == Covering(rows.auth, door) IN
    IF auths = {} \/ \E a \in auths : a.kind = "public" THEN {}
    ELSE {{NotProven(IF a.groups # {} \/ a.admin
                     THEN CHOOSE b \in FirstSso(auths) : TRUE ELSE a) : a \in auths}}

DoorRefusals(rows, door) ==
    FilterRefusals(rows, door) \cup AccessRefusals(rows, door) \cup AuthRefusals(rows, door)

\* A passthrough service has one frontend, with the rules of one door.
RulesOf(rows, doors) ==
    [d \in doors |->
        DoorRefusals(rows, IF rows.kind = "http" THEN d
                           ELSE IF "external" \in doors THEN "external" ELSE "internal")]

\* The configuration with the files it refers to.  rows is history.
Rendered(rows, active) ==
    [s \in Services |->
        LET doors == Served(s, rows[s], active) IN
        [doors |-> RulesOf(rows[s], doors), tokens |-> rows[s].tokens,
         account |-> rows[s].account, rows |-> rows[s]]]

\* haproxy -c: a passthrough frontend without a port binds to no address.
Loads(rows, active) ==
    \A s \in Services :
        rows[s].kind = "tcp" /\ Served(s, rows[s], active) # {} => rows[s].port

-----------------------------------------------------------------------------
(* The proxy                                                               *)

Presents(c, a, tokens, account) ==
    CASE a.kind = "peer_identity" -> c.peer
      [] a.kind = "bearer" -> c.tokens \cap tokens # {}
      [] a.kind = "basic" -> c.account /\ account
      [] a.kind = "foxguard_sso" ->
            /\ c.cookie # NoCookie
            /\ a.groups # {} => a.groups \cap c.cookie.groups # {}
            /\ a.admin => c.cookie.admin
      [] a.kind = "public" -> TRUE

Holds(k, c, q) ==
    k.is = (CASE k.test = "listed" -> c.listed
              [] k.test = "fast" -> c.fast
              [] k.test = "auth" -> Presents(c, k.row, q.tokens, q.account)
              [] OTHER -> k.test \in c.sets)

Admits(q, door, c) ==
    /\ door \in DOMAIN q.doors
    /\ \A refusal \in q.doors[door] : \E k \in refusal : ~Holds(k, c, q)

-----------------------------------------------------------------------------
(* Edits                                                                   *)

Idle == [service |-> "none"]

Init ==
    /\ svc \in [Services -> Initial]
    /\ up = Services
    /\ Renders(svc, up) /\ Loads(svc, up)
    /\ req = [r \in Requests |-> Idle]
    /\ conf = Rendered(svc, up)
    /\ edits = 0 /\ drifted = FALSE

\* Each edit is a change of the rows of one service: what it adds and what it
\* takes away, so that two that overlap both take effect.
Change(rows, e) ==
    CASE e.op = "put" -> e.rows
      [] e.op = "set" -> [rows EXCEPT ![e.field] = e.value]
      [] e.op = "add" -> [rows EXCEPT ![e.field] = @ \cup {e.value}]
      [] e.op = "remove" -> [rows EXCEPT ![e.field] = @ \ {e.value}]

\* Adding what is there and removing what is not answer with an error; an edit
\* that changes nothing is left out.
Applies(rows, e) ==
    /\ rows.there <=> e.op # "put"
    /\ Change(rows, e) # rows
    /\ e.op = "add" => e.value \notin rows[e.field]
    /\ e.op = "remove" => e.value \in rows[e.field]

Edit(s, e) ==
    LET changed == [svc EXCEPT ![s] = Change(@, e)] IN
    /\ edits < MaxEdits
    /\ Applies(svc[s], e)
    /\ Unique(changed[s])
    /\ Renders(changed, up)
    /\ \E r \in Requests :
         /\ req[r] = Idle
         /\ req' = [req EXCEPT ![r] = [service |-> s, edit |-> e]]
    /\ edits' = edits + 1
    /\ drifted' = (drifted \/ \E r \in Requests : req[r] # Idle)
    /\ UNCHANGED <<svc, up, conf>>

\* Mutant: the same way in, twice.
CommitAnyway(r) ==
    /\ req[r] # Idle
    /\ LET s == req[r].service
           e == req[r].edit
       IN  /\ Applies(svc[s], e)
           /\ svc' = [svc EXCEPT ![s] = Change(@, e)]
    /\ req' = [req EXCEPT ![r] = Idle]
    /\ UNCHANGED <<up, conf, edits, drifted>>

Commit(r) ==
    /\ req[r] # Idle
    /\ LET s == req[r].service
           e == req[r].edit
       IN  /\ Applies(svc[s], e) /\ Unique(Change(svc[s], e))
           /\ svc' = [svc EXCEPT ![s] = Change(@, e)]
    /\ req' = [req EXCEPT ![r] = Idle]
    /\ UNCHANGED <<up, conf, edits, drifted>>

\* The rows went before the edit was written, or the request died.
Abort(r) ==
    /\ req[r] # Idle
    /\ req' = [req EXCEPT ![r] = Idle]
    /\ UNCHANGED <<svc, up, conf, edits, drifted>>

CreateService(s, rows) == Edit(s, [op |-> "put", rows |-> rows])
UpdateEnabled(s, b) == Edit(s, [op |-> "set", field |-> "enabled", value |-> b])
UpdateExposure(s, x) == Edit(s, [op |-> "set", field |-> "exposure", value |-> x])
UpdatePort(s, b) ==
    svc[s].kind = "tcp" /\ Edit(s, [op |-> "set", field |-> "port", value |-> b])
AddAuthenticator(s, a) == Edit(s, [op |-> "add", field |-> "auth", value |-> a])
RemoveAuthenticator(s, a) == Edit(s, [op |-> "remove", field |-> "auth", value |-> a])
AddFilter(s, f) == Edit(s, [op |-> "add", field |-> "filters", value |-> f])
RemoveFilter(s, f) == Edit(s, [op |-> "remove", field |-> "filters", value |-> f])
AddAccessRule(s, a) == Edit(s, [op |-> "add", field |-> "access", value |-> a])
RemoveAccessRule(s, a) == Edit(s, [op |-> "remove", field |-> "access", value |-> a])
CreateToken(s, t) == Edit(s, [op |-> "add", field |-> "tokens", value |-> t])
CreateAccount(s) == Edit(s, [op |-> "set", field |-> "account", value |-> TRUE])
DeleteAccount(s) == Edit(s, [op |-> "set", field |-> "account", value |-> FALSE])

\* Mutant: the last token goes without the configuration being looked at.
RevokeTokenUnchecked(s, t) ==
    /\ edits < MaxEdits
    /\ t \in svc[s].tokens
    /\ svc' = [svc EXCEPT ![s].tokens = @ \ {t}]
    /\ edits' = edits + 1
    /\ UNCHANGED <<up, req, conf, drifted>>

RevokeToken(s, t) == Edit(s, [op |-> "remove", field |-> "tokens", value |-> t])

\* The rows of a service go at once; nothing is left to validate.
DeleteService(s) ==
    /\ edits < MaxEdits /\ svc[s].there
    /\ svc' = [svc EXCEPT ![s] = Absent]
    /\ Renders(svc', up)
    /\ edits' = edits + 1
    /\ UNCHANGED <<up, req, conf, drifted>>

\* The rules for a group and the requirements of it go with the group.
DeleteGroup(g) ==
    /\ edits < MaxEdits
    /\ svc' = [s \in Services |->
                 [svc[s] EXCEPT !.auth = {[a EXCEPT !.groups = @ \ {g}] : a \in @},
                                !.access = {a \in @ : a.source # g}]]
    /\ svc' # svc
    /\ Renders(svc', up)
    /\ edits' = edits + 1
    /\ drifted' = (drifted \/ \E r \in Requests : req[r] # Idle)
    /\ UNCHANGED <<up, req, conf>>

\* A login, an expiry or the kill switch moves the upstream's peer, and looks at
\* the firewall rules alone.
PeerMoves(s) ==
    /\ edits < MaxEdits
    /\ up' = IF s \in up THEN up \ {s} ELSE up \cup {s}
    /\ edits' = edits + 1 /\ drifted' = TRUE
    /\ UNCHANGED <<svc, req, conf>>

\* Mutant: the files a configuration refers to are taken for unchanged with it.
PollRules ==
    /\ Renders(svc, up) /\ Loads(svc, up)
    /\ \E s \in Services : conf[s].doors # Rendered(svc, up)[s].doors
    /\ conf' = Rendered(svc, up)
    /\ UNCHANGED <<svc, up, req, edits, drifted>>

\* render_or_none and the agent: what does not render, or does not load, leaves
\* the proxy as it is.
Poll ==
    /\ Renders(svc, up) /\ Loads(svc, up)
    /\ conf' = Rendered(svc, up)
    /\ conf' # conf
    /\ UNCHANGED <<svc, up, req, edits, drifted>>

EditPolicy(s) ==
    \/ \E rows \in Initial : CreateService(s, rows)
    \/ \E b \in BOOLEAN : UpdateEnabled(s, b) \/ UpdatePort(s, b)
    \/ \E x \in Scopes : UpdateExposure(s, x)
    \/ \E a \in AuthRows : AddAuthenticator(s, a) \/ RemoveAuthenticator(s, a)
    \/ \E f \in FilterRows : AddFilter(s, f) \/ RemoveFilter(s, f)
    \/ \E a \in AccessRows : AddAccessRule(s, a) \/ RemoveAccessRule(s, a)
    \/ \E t \in Tokens : CreateToken(s, t) \/ RevokeToken(s, t)
    \/ CreateAccount(s) \/ DeleteAccount(s) \/ DeleteService(s)

Next ==
    \/ \E s \in Services : EditPolicy(s) \/ PeerMoves(s)
    \/ \E r \in Requests : Commit(r) \/ Abort(r)
    \/ \E g \in Groups : DeleteGroup(g)
    \/ Poll

\* The agent polls for ever.
Spec == Init /\ [][Next]_vars /\ WF_vars(Poll)

-----------------------------------------------------------------------------
(* What the doors promise                                                  *)

\* The rows satisfy the constraints of their tables, and what runs has the doors
\* its service was given.
TypeOK ==
    /\ svc \in [Services -> Service]
    /\ \A s \in Services : Unique(svc[s])
    /\ up \subseteq Services
    /\ \A r \in Requests : req[r] = Idle \/ req[r].service \in Services
    /\ \A s \in Services : DOMAIN conf[s].doors \subseteq conf[s].rows.exposure
    /\ edits \in 0..MaxEdits /\ drifted \in BOOLEAN

\* Who may use a service through a door, as its rows and the documents say it:
\* who is on no deny list and on the allow lists, within the rate limit, which
\* TCP passthrough has too (docs/proxy-spec.md 9) ...
Screened(rows, door, c) ==
    \A f \in Covering(rows.filters, door) :
        (f.kind = "allow" => c.listed) /\ (f.kind = "deny" => ~c.listed)

WithinRate(rows, door, c) == \A f \in Covering(rows.filters, door) : f.kind = "rate" => ~c.fast

\* ... whom no deny rule matches, and an allow rule does if there is any; an empty
\* list denies (docs/proxy-spec.md 5.4).  The rules for groups are for the tunnel.
Granted(rows, door, c) ==
    LET matches(a) == CASE a.source = "any" -> TRUE
                        [] a.source = "range" -> c.listed
                        [] OTHER -> a.source \in c.sets
        meant == {a \in rows.access : door = "internal" \/ a.source \notin Groups}
        allows == {a \in meant : a.action = "allow"}
    IN
    /\ rows.access # {}
    /\ \A a \in meant \ allows : ~matches(a)
    /\ allows = {} \/ \E a \in allows : matches(a)

\* ... and whom one of the authenticators admits, with a token that is neither
\* revoked nor expired (models.py ServiceToken.expires_at).
Lapsed(c) == IF c.late THEN Expiring ELSE {}
Proves(rows, door, c) ==
    \E a \in Covering(rows.auth, door) : Presents(c, a, rows.tokens \ Lapsed(c), rows.account)

Policy(rows, door, c) ==
    Screened(rows, door, c) /\ WithinRate(rows, door, c) /\ Granted(rows, door, c) /\ Proves(rows, door, c)

\* The code departs from that three times: a passthrough service is rendered
\* without its rate limits, a service without access rules is open to anyone who
\* authenticates, and nothing looks at expires_at.
LateToken(rows, door, c) ==
    \E a \in Covering(rows.auth, door) :
        a.kind = "bearer" /\ c.tokens \cap rows.tokens \cap Lapsed(c) # {}

Entrant(rows, door, c) ==
    /\ Screened(rows, door, c)
    /\ WithinRate(rows, door, c) \/ rows.kind = "tcp"
    /\ Granted(rows, door, c) \/ rows.access = {}
    /\ Proves(rows, door, c) \/ LateToken(rows, door, c)

\* Two more, in which what runs is not what the rows say: a passthrough service
\* with both doors, and two single sign-on rows with different requirements.
OneFrontend(s) == conf[s].rows.kind = "tcp" /\ DOMAIN conf[s].doors = Doors
TwoRequirements(rows, door) ==
    \E a, b \in Covering(rows.auth, door) :
        /\ a.kind = "foxguard_sso" /\ b.kind = "foxguard_sso" /\ a # b
        /\ a.groups # {} \/ a.admin
        /\ b.groups # {} \/ b.admin

\* At every door and whatever they present, the proxy lets in all the callers that
\* the rows it was rendered from and the documents admit, and nobody else but by
\* one of the departures above: nobody whom a filter, an access rule or every
\* authenticator refuses.
EntrantsAsStated ==
    \A s \in Services : \A d \in DOMAIN conf[s].doors :
        ~OneFrontend(s) /\ ~TwoRequirements(conf[s].rows, d) =>
            \A c \in Callers :
                /\ Policy(conf[s].rows, d, c) => Admits(conf[s], d, c)
                /\ Admits(conf[s], d, c) => Entrant(conf[s].rows, d, c)

\* The promise of the documents, without the departures.
NobodyElseEnters ==
    \A s \in Services : \A d \in DOMAIN conf[s].doors :
        ~OneFrontend(s) /\ ~TwoRequirements(conf[s].rows, d) =>
            \A c \in Callers : Admits(conf[s], d, c) => Policy(conf[s].rows, d, c)

\* The doors of a passthrough service are its own: one that the rows close to a
\* caller does not open because the other one is.
EachDoorItsOwnPolicy ==
    \A s \in Services : \A d \in DOMAIN conf[s].doors :
        OneFrontend(s) =>
            \A c \in Callers : Admits(conf[s], d, c) => Entrant(conf[s].rows, d, c)

\* What is committed can be rendered, so that no edit stops the ones after it,
\* as long as edits do not overlap and no upstream moves.
CommittedRenders == drifted \/ Renders(svc, up)

\* The promise without the condition.
EveryEditIsValidated == Renders(svc, up)

\* A token that was revoked comes to be refused, unless the configuration does
\* not render or load: then it is refused only after that is mended.
RevokedTokenIsRefused ==
    \A s \in Services, t \in Tokens :
        (t \notin svc[s].tokens /\ t \in conf[s].tokens) ~>
            \/ t \in svc[s].tokens \/ t \notin conf[s].tokens
            \/ ~Renders(svc, up) \/ ~Loads(svc, up)
=============================================================================
