--------------------------- MODULE AccountSessions ---------------------------
(***************************************************************************)
(* The accounts of people and what they open: administrator sessions, the  *)
(* single sign-on cookies a proxy verifies on its own, and the codes of a  *)
(* second factor.                                                          *)
(*                                                                         *)
(* A request is a transaction at READ COMMITTED: it reads the account,     *)
(* decides, perhaps revokes session rows with an UPDATE of its own, and at *)
(* the end flushes the columns that differ from what it read.  Any other   *)
(* request may commit in between.  A request that has no answer to give    *)
(* but an error writes nothing here and is left out, as is any request     *)
(* whose password is wrong.                                                *)
(*                                                                         *)
(* A password, a secret and a time step are numbers.  The expiry of a      *)
(* session happens at any moment; only the steps of the second factor are  *)
(* on a clock.                                                             *)
(***************************************************************************)
EXTENDS Naturals, FiniteSets

CONSTANTS
    Users, Groups,
    Requests,       \* transactions that may be open at once
    Scenarios,      \* sets of operations; a behaviour keeps to one of them
    MaxEdits,       \* bound on the changes to accounts and groups
    MaxRows,        \* bound on the sessions ever opened
    MaxStep         \* bound on the clock of the second factor

Operations == {"admin", "oidc", "sso", "portal",             \* the ways to sign in
               "flag", "password", "groups", "delete",       \* accounts
               "provision", "confirm", "disable",            \* the second factor
               "revoke", "expire", "regroup"}

ASSUME AccountsAssumption ==
    /\ Scenarios \subseteq SUBSET Operations
    /\ Users # {}
    /\ MaxEdits \in Nat /\ MaxRows \in Nat /\ MaxStep \in Nat \ {0}

VARIABLES
    ops,        \* the scenario
    account,    \* the rows of users, user_groups included
    exists,     \* accounts that have not been deleted
    row,        \* admin_sessions, sso_sessions and the cookies issued with them
    denied,     \* the denylist the proxy has loaded
    req,        \* open transactions
    step,       \* the current time step
    cuts,       \* times an account's admin and SSO sessions were to end
    confirmed,  \* secrets a correct code was shown for
    dropped,    \* groups that were ever deleted
    crossed,    \* a second factor was written by a request that had read another one
    edits       \* changes so far

store == <<account, exists, row>>
history == <<cuts, confirmed, dropped, crossed, edits>>
vars == <<ops, store, denied, req, step, history>>

Ids == 1..MaxRows
Secrets == 0..MaxEdits          \* 0: none
Steps == 0..(MaxStep + 1)       \* 0: no code was used yet
Codes == [secret: Secrets, step: Steps]
NoCode == [secret |-> 0, step |-> 0]
Cuts == [admin: Nat, sso: Nat]

Accounts == [active: BOOLEAN, admin: BOOLEAN, password: 0..MaxEdits,
             groups: SUBSET Groups,
             secret: Secrets, enabled: BOOLEAN, last: Steps]

\* kind "none": not opened yet.  A row that is gone leaves its cookie behind.
\* epoch, code and raced are history: the cuts when the account was read, the code
\* it was opened with, and whether a cut came between the reading and the commit.
Rows == [kind: {"none", "admin", "sso", "portal"}, user: Users,
         admin: BOOLEAN, groups: SUBSET Groups,
         revoked: BOOLEAN, expired: BOOLEAN, gone: BOOLEAN,
         epoch: Cuts, code: Codes, raced: BOOLEAN]

Idle == [op |-> "idle"]
Open == [op: Operations, user: Users, read: Accounts, new: Accounts,
         code: Codes, ends: SUBSET {"admin", "sso"},
         epoch: Cuts, swept: SUBSET Ids, done: BOOLEAN]

TypeOK ==
    /\ ops \in Scenarios
    /\ account \in [Users -> Accounts]
    /\ exists \subseteq Users
    /\ row \in [Ids -> Rows]
    /\ denied \subseteq Ids
    /\ req \in [Requests -> Open \cup {Idle}]
    /\ step \in Steps
    /\ cuts \in [Users -> Cuts]
    /\ confirmed \subseteq Secrets /\ dropped \subseteq Groups
    /\ crossed \in BOOLEAN /\ edits \in 0..MaxEdits

Unopened(u) ==
    [kind |-> "none", user |-> u, admin |-> FALSE, groups |-> {},
     revoked |-> FALSE, expired |-> FALSE, gone |-> FALSE,
     epoch |-> [admin |-> 0, sso |-> 0], code |-> NoCode, raced |-> FALSE]

\* An administrator in every group, who has a second factor only where a scenario
\* is about it.
Init ==
    /\ ops \in Scenarios
    /\ account = [u \in Users |->
                    [active |-> TRUE, admin |-> TRUE, password |-> 0, groups |-> Groups,
                     secret |-> 0, enabled |-> FALSE, last |-> 0]]
    /\ exists = Users
    /\ row = [i \in Ids |-> Unopened(CHOOSE u \in Users : TRUE)]
    /\ denied = {}
    /\ req = [r \in Requests |-> Idle]
    /\ step = 2
    /\ cuts = [u \in Users |-> [admin |-> 0, sso |-> 0]]
    /\ confirmed = {} /\ dropped = {} /\ crossed = FALSE /\ edits = 0

-----------------------------------------------------------------------------
(* Transactions                                                            *)

\* SQLAlchemy flushes the columns and the memberships that differ from what
\* was read; the rest keeps whatever is there by now.
Flushed(read, new, now) ==
    [f \in DOMAIN now |->
        IF f = "groups" THEN (now.groups \ (read.groups \ new.groups))
                                \cup (new.groups \ read.groups)
        ELSE IF new[f] # read[f] THEN new[f] ELSE now[f]]

\* The flush fails when a row it counts on is gone, or one it inserts is there.
Fits(q) ==
    /\ q.user \in exists
    /\ q.read.groups \ q.new.groups \subseteq account[q.user].groups
    /\ (q.new.groups \ q.read.groups) \cap (account[q.user].groups \cup dropped) = {}

Columns(acc) == [acc EXCEPT !.groups = {}]
SecondFactor(acc) == <<acc.secret, acc.enabled, acc.last>>

\* An UPDATE of the account's row waits for the transaction that has updated it.
Locked(r) ==
    \E o \in Requests \ {r} :
        /\ req[o] # Idle /\ req[o].done /\ req[o].user = req[r].user
        /\ Columns(req[o].read) # Columns(req[o].new)

\* Nothing is locked by a reading: the transaction goes on with what it saw.
Begin(r, op, u, new, code, ends) ==
    /\ op \in ops
    /\ req[r] = Idle
    /\ u \in exists
    /\ req' = [req EXCEPT ![r] =
                  [op |-> op, user |-> u, read |-> account[u], new |-> new,
                   code |-> code, ends |-> ends, epoch |-> cuts[u],
                   swept |-> {}, done |-> FALSE]]

Close(r) == req' = [req EXCEPT ![r] = Idle]

\* Every edit of an account counts against the bound.
Edit == edits < MaxEdits /\ edits' = edits + 1

\* Time-outs, dead workers and errors end a transaction without a trace.
Abort(r) ==
    /\ req[r] # Idle
    /\ Close(r)
    /\ UNCHANGED <<ops, store, denied, step, history>>

-----------------------------------------------------------------------------
(* The second factor                                                       *)

\* Mutant: the step that was used last is accepted again.
VerifiesReplaying(acc, code) ==
    /\ acc.secret # 0 /\ code.secret = acc.secret
    /\ code.step \in (step - 1)..(step + 1)
    /\ code.step >= acc.last

\* A code is good for its own step and the next one on either side, and only if
\* no code of that step or a later one was used.
Verifies(acc, code) ==
    /\ acc.secret # 0 /\ code.secret = acc.secret
    /\ code.step \in (step - 1)..(step + 1)
    /\ code.step > acc.last

\* Mutant: the second factor stays enforced while its secret is replaced.
BeginProvisionEnforced(r, u) ==
    /\ Edit
    /\ Begin(r, "provision", u,
             [account[u] EXCEPT !.secret = edits', !.last = 0], NoCode, {})
    /\ UNCHANGED <<ops, store, denied, step, cuts, confirmed, dropped, crossed>>

\* A fresh secret, not enforced yet, with no code used.
BeginProvision(r, u) ==
    /\ Edit
    /\ Begin(r, "provision", u,
             [account[u] EXCEPT !.secret = edits', !.enabled = FALSE, !.last = 0], NoCode, {})
    /\ UNCHANGED <<ops, store, denied, step, cuts, confirmed, dropped, crossed>>

\* Mutant: the step after the one that matched is spent.
BeginConfirmAhead(r, u, code) ==
    /\ Verifies(account[u], code)
    /\ Begin(r, "confirm", u,
             [account[u] EXCEPT !.enabled = TRUE, !.last = code.step + 1], code, {})
    /\ UNCHANGED <<ops, store, denied, step, history>>

\* One correct code, and the second factor is enforced.
BeginConfirm(r, u, code) ==
    /\ Verifies(account[u], code)
    /\ Begin(r, "confirm", u,
             [account[u] EXCEPT !.enabled = TRUE, !.last = code.step], code, {})
    /\ UNCHANGED <<ops, store, denied, step, history>>

BeginDisable(r, u) ==
    /\ Edit
    /\ Begin(r, "disable", u,
             [account[u] EXCEPT !.secret = 0, !.enabled = FALSE, !.last = 0], NoCode, {})
    /\ UNCHANGED <<ops, store, denied, step, cuts, confirmed, dropped, crossed>>

CommitTotp(r) ==
    LET q == req[r] IN
    /\ q.op \in {"provision", "confirm", "disable"}
    /\ Fits(q) /\ ~Locked(r)
    /\ account' = [account EXCEPT ![q.user] = Flushed(q.read, q.new, @)]
    /\ confirmed' = IF q.op = "confirm" THEN confirmed \cup {q.code.secret} ELSE confirmed
    /\ crossed' = (crossed \/ SecondFactor(q.read) # SecondFactor(account[q.user]))
    /\ Close(r)
    /\ UNCHANGED <<ops, exists, row, denied, step, cuts, dropped, edits>>

-----------------------------------------------------------------------------
(* Signing in                                                              *)

\* authenticate: an active account, and a code when it has a second factor.
Authenticates(acc, code) ==
    acc.active /\ IF acc.enabled THEN Verifies(acc, code) ELSE code = NoCode

\* The doors.  A provider's word replaces the password and the code, never the
\* account's own flags.
AdminLogin(acc, code) == acc.admin /\ Authenticates(acc, code)
OidcComplete(acc, code) == acc.active /\ acc.admin /\ code = NoCode
SsoLogin(acc, code) == Authenticates(acc, code)
PortalLogin(acc, code) == Authenticates(acc, code)

Admitted(via, acc, code) ==
    \/ via = "admin" /\ AdminLogin(acc, code)
    \/ via = "oidc" /\ OidcComplete(acc, code)
    \/ via = "sso" /\ SsoLogin(acc, code)
    \/ via = "portal" /\ PortalLogin(acc, code)

\* The step of the code is spent at once.
BeginLogin(r, via, u, code) ==
    LET acc == account[u] IN
    /\ Admitted(via, acc, code)
    /\ Begin(r, via, u, IF code = NoCode THEN acc ELSE [acc EXCEPT !.last = code.step], code, {})
    /\ UNCHANGED <<ops, store, denied, step, history>>

Kind == [admin |-> "admin", oidc |-> "admin", sso |-> "sso", portal |-> "portal"]

\* An edit that ends these sessions has done so for the rows it saw, and is open.
Sweeping(u, kind) ==
    \E r \in Requests : req[r] # Idle /\ req[r].user = u /\ req[r].done /\ kind \in req[r].ends

\* issue: the row, and for single sign-on a cookie with what was read as claims.
\* An administrator's session stamps last_login_at, and a code its step, on the
\* account's row.
CommitLogin(r) ==
    LET q == req[r]
        kind == Kind[q.op]
    IN
    /\ q.op \in DOMAIN Kind
    /\ Fits(q)
    /\ kind = "admin" \/ q.code # NoCode => ~Locked(r)
    /\ \E i \in Ids :
         /\ row[i].kind = "none" /\ \A j \in 1..(i - 1) : row[j].kind # "none"
         /\ row' = [row EXCEPT ![i] =
               [kind |-> kind, user |-> q.user,
                admin |-> q.read.admin, groups |-> q.read.groups,
                revoked |-> FALSE, expired |-> FALSE, gone |-> FALSE,
                epoch |-> q.epoch, code |-> q.code,
                raced |-> q.epoch # cuts[q.user] \/ Sweeping(q.user, kind)]]
    /\ account' = [account EXCEPT ![q.user] = Flushed(q.read, q.new, @)]
    /\ crossed' = (crossed \/ (q.code # NoCode
                                 /\ SecondFactor(q.read) # SecondFactor(account[q.user])))
    /\ Close(r)
    /\ UNCHANGED <<ops, exists, denied, step, cuts, confirmed, dropped, edits>>

Live(i) == row[i].kind \in {"admin", "sso"} /\ ~row[i].revoked /\ ~row[i].gone

\* resolve: the account is looked at on every request.
Resolves(i) ==
    /\ row[i].kind = "admin" /\ Live(i) /\ ~row[i].expired
    /\ row[i].user \in exists
    /\ account[row[i].user].active /\ account[row[i].user].admin

\* One session ends.  Its owner signs out with a token that is still good, or
\* with a cookie whose expiry nobody looks at; an administrator ends any.
Revoke(i) ==
    /\ "revoke" \in ops
    /\ Live(i)
    /\ row' = [row EXCEPT ![i].revoked = TRUE]
    /\ UNCHANGED <<ops, account, exists, denied, req, step, history>>

AdminLogout(i) == Resolves(i) /\ Revoke(i)
SsoLogout(i) == row[i].kind = "sso" /\ Revoke(i)
RevokeAdminSession(i) == row[i].kind = "admin" /\ Revoke(i)
RevokeSsoSession(i) == row[i].kind = "sso" /\ Revoke(i)

Expire(i) ==
    /\ "expire" \in ops
    /\ row[i].kind \in {"admin", "sso"} /\ ~row[i].expired
    /\ row' = [row EXCEPT ![i].expired = TRUE]
    /\ UNCHANGED <<ops, account, exists, denied, req, step, history>>

-----------------------------------------------------------------------------
(* Changes to accounts and groups                                          *)

\* is_active and is_admin: FALSE in the payload ends every session, whatever was
\* stored before.
BeginFlag(r, u, field, b) ==
    /\ Edit
    /\ Begin(r, "flag", u, [account[u] EXCEPT ![field] = b], NoCode,
             IF b THEN {} ELSE {"admin", "sso"})
    /\ UNCHANGED <<ops, store, denied, step, cuts, confirmed, dropped, crossed>>

\* Mutant: a new password is stored, and that is all.
BeginPasswordOnly(r, u) ==
    /\ Edit
    /\ Begin(r, "password", u, [account[u] EXCEPT !.password = edits'], NoCode, {})
    /\ UNCHANGED <<ops, store, denied, step, cuts, confirmed, dropped, crossed>>

\* A new password ends what was opened with the old one; a cookie stays.
BeginPassword(r, u) ==
    /\ Edit
    /\ Begin(r, "password", u, [account[u] EXCEPT !.password = edits'], NoCode, {"admin"})
    /\ UNCHANGED <<ops, store, denied, step, cuts, confirmed, dropped, crossed>>

\* Mutant: only the groups that were taken away count as a change.
BeginGroupsGrowing(r, u, G) ==
    /\ Edit
    /\ G \cap dropped = {}
    /\ Begin(r, "groups", u, [account[u] EXCEPT !.groups = G], NoCode,
             IF account[u].groups \subseteq G THEN {} ELSE {"sso"})
    /\ UNCHANGED <<ops, store, denied, step, cuts, confirmed, dropped, crossed>>

\* Memberships are claims of the cookies: any change ends those.
BeginGroups(r, u, G) ==
    /\ Edit
    /\ G \cap dropped = {}
    /\ Begin(r, "groups", u, [account[u] EXCEPT !.groups = G], NoCode,
             IF account[u].groups = G THEN {} ELSE {"sso"})
    /\ UNCHANGED <<ops, store, denied, step, cuts, confirmed, dropped, crossed>>

\* revoke_all_for_user and revoke_for_user: an UPDATE of the rows committed so far,
\* after the change of the account was written.
Sweep(r) ==
    LET q == req[r] IN
    /\ q # Idle /\ ~q.done /\ q.ends # {} /\ ~Locked(r)
    /\ req' = [req EXCEPT ![r].done = TRUE,
                          ![r].swept = {i \in Ids : Live(i) /\ row[i].user = q.user
                                                     /\ row[i].kind \in q.ends}]
    /\ UNCHANGED <<ops, store, denied, step, history>>

\* The sessions that a change should end.
Taken(q) ==
    LET lowered == (q.read.active /\ ~q.new.active) \/ (q.read.admin /\ ~q.new.admin) IN
    (IF lowered \/ q.read.password # q.new.password THEN {"admin"} ELSE {})
        \cup (IF lowered \/ q.read.groups # q.new.groups THEN {"sso"} ELSE {})

CommitUpdate(r) ==
    LET q == req[r] IN
    /\ q.op \in {"flag", "password", "groups"}
    /\ q.done \/ q.ends = {}
    /\ Fits(q) /\ ~Locked(r)
    /\ account' = [account EXCEPT ![q.user] = Flushed(q.read, q.new, @)]
    /\ row' = [i \in Ids |-> IF i \in q.swept THEN [row[i] EXCEPT !.revoked = TRUE] ELSE row[i]]
    /\ cuts' = [cuts EXCEPT ![q.user] =
                  [k \in {"admin", "sso"} |-> IF k \in Taken(q) THEN @[k] + 1 ELSE @[k]]]
    /\ Close(r)
    /\ UNCHANGED <<ops, exists, denied, step, confirmed, dropped, crossed, edits>>

\* The rows of an account go with it.
DeleteUser(u) ==
    /\ "delete" \in ops /\ Edit
    /\ u \in exists
    /\ \A r \in Requests : req[r] # Idle /\ req[r].user = u => ~req[r].done
    /\ exists' = exists \ {u}
    /\ row' = [i \in Ids |-> IF row[i].user = u /\ row[i].kind # "none"
                               THEN [row[i] EXCEPT !.gone = TRUE] ELSE row[i]]
    /\ UNCHANGED <<ops, account, denied, req, step, cuts, confirmed, dropped, crossed>>

\* The memberships of a group go with it, and no session ends.  Its slug is not
\* given to another group.
DeleteGroup(g) ==
    /\ "regroup" \in ops /\ Edit
    /\ g \notin dropped
    /\ \A r \in Requests :
         req[r] # Idle /\ req[r].done => (g \in req[r].read.groups <=> g \in req[r].new.groups)
    /\ account' = [u \in Users |-> [account[u] EXCEPT !.groups = @ \ {g}]]
    /\ dropped' = dropped \cup {g}
    /\ UNCHANGED <<ops, exists, row, denied, req, step, cuts, confirmed, crossed>>

-----------------------------------------------------------------------------
(* The proxy and the clock                                                 *)

\* revoked_jtis: what the agent gets when it polls.
Denylist == {i \in Ids : row[i].kind = "sso" /\ ~row[i].gone
                          /\ row[i].revoked /\ ~row[i].expired}

\* Mutant: a list of the same length is taken for the same list.
PushLonger ==
    /\ denied' = Denylist
    /\ Cardinality(denied') # Cardinality(denied)
    /\ UNCHANGED <<ops, store, req, step, history>>

\* The agent replaces the map of the running proxy.
Push ==
    /\ denied' = Denylist
    /\ denied' # denied
    /\ UNCHANGED <<ops, store, req, step, history>>

Tick ==
    /\ step < MaxStep
    /\ step' = step + 1
    /\ UNCHANGED <<ops, store, denied, req, history>>

BeginSome(r, u) ==
    \/ \E code \in Codes :
         \/ \E via \in DOMAIN Kind : BeginLogin(r, via, u, code)
         \/ BeginConfirm(r, u, code)
    \/ BeginProvision(r, u)
    \/ BeginDisable(r, u)
    \/ \E field \in {"active", "admin"}, b \in BOOLEAN : BeginFlag(r, u, field, b)
    \/ BeginPassword(r, u)
    \/ \E G \in SUBSET Groups : BeginGroups(r, u, G)

Next ==
    \/ \E r \in Requests :
         \/ \E u \in Users : BeginSome(r, u)
         \/ Sweep(r) \/ CommitUpdate(r) \/ CommitTotp(r) \/ CommitLogin(r) \/ Abort(r)
    \/ \E u \in Users : DeleteUser(u)
    \/ \E g \in Groups : DeleteGroup(g)
    \/ \E i \in Ids :
         \/ AdminLogout(i) \/ SsoLogout(i) \/ RevokeAdminSession(i) \/ RevokeSsoSession(i)
         \/ Expire(i)
    \/ Push \/ Tick

\* The agent polls for ever.
Spec == Init /\ [][Next]_vars /\ WF_vars(Push)

-----------------------------------------------------------------------------
(* What the sessions promise                                               *)

\* What the rendered configuration checks of a cookie, once it has the denylist.
Accepts(i) == row[i].kind = "sso" /\ ~row[i].expired /\ i \notin Denylist

\* A session of the admin API that is accepted was opened after the last
\* deactivation, demotion or new password of its account, unless one of those
\* committed while the sign-in was under way: also after the account was made an
\* active administrator again.
AdminSessionsAreCurrent ==
    \A i \in Ids :
        Resolves(i) /\ ~row[i].raced => row[i].epoch.admin = cuts[row[i].user].admin

Claims(i) ==
    LET acc == account[row[i].user] IN
    /\ acc.active
    /\ row[i].admin => acc.admin
    /\ row[i].groups \ dropped = acc.groups

\* What a cookie claims is what the account is, for the proxy asks nobody:
\* except for a sign-in that overlapped the change, a deleted account and a
\* deleted group.
SsoClaimsAreCurrent ==
    \A i \in Ids :
        Accepts(i) /\ ~row[i].raced /\ row[i].user \in exists => Claims(i)

\* A promise of revoke_for_user: taking an access away means now.
TakenAwayMeansNow == \A i \in Ids : Accepts(i) => row[i].user \in exists /\ Claims(i)

\* A code opens one session, as long as no two requests that write the second
\* factor overlap.
OneSignInPerCode ==
    \A i, j \in Ids :
        row[i].kind # "none" /\ row[i].code # NoCode /\ row[j].code = row[i].code /\ i # j
            => crossed

\* A second factor is enforced with a secret its owner has shown a code of,
\* under the same condition.
EnrolmentIsConfirmed ==
    \A u \in Users : account[u].enabled /\ ~crossed => account[u].secret \in confirmed

\* A revoked cookie comes to be refused by the running proxy, or is past its
\* expiry, or its row was deleted with the account.
RevokedIsRefused ==
    \A i \in Ids : i \in Denylist ~> (i \in denied \/ row[i].expired \/ row[i].gone)
=============================================================================
