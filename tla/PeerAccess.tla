----------------------------- MODULE PeerAccess -----------------------------
(***************************************************************************)
(* Who may use the network: the rows of the tables peers, users and        *)
(* sessions, and every request that writes peers.state or a session row.   *)
(*                                                                         *)
(* A request is a PostgreSQL transaction at READ COMMITTED driven through  *)
(* SQLAlchemy with autoflush off, and takes up to four steps:              *)
(*                                                                         *)
(*   Begin...   SELECT the peer row(s); every guard is decided on the copy *)
(*              read here, and the columns that differ from it are dirty   *)
(*   Snapshot   the bulk UPDATE of sessions starts: the rows it sees       *)
(*   Acquire    the UPDATE holds its row locks; rows another transaction   *)
(*              closed meanwhile no longer match and are skipped           *)
(*   Commit...  flush of the dirty columns (by primary key, whatever the   *)
(*              row holds by now) and COMMIT                               *)
(*                                                                         *)
(* A request that raises, times out or dies with its worker takes Abort    *)
(* instead.  Handlers whose outcome does not depend on what they read are  *)
(* a single step.  With Serial = TRUE requests run one at a time, which is *)
(* how the repository's tests drive the code.                              *)
(*                                                                         *)
(* Abstracted: credentials (a request here is one whose credentials        *)
(* verify; refusals write no peer and no session), addresses, names and    *)
(* groups, of which only the session lifetime they imply is kept.          *)
(***************************************************************************)
EXTENDS Integers, PeerStates

CONSTANTS
    UserPeers,      \* peers a person authenticates on through the portal
    ServerPeers,    \* peers that enroll with a key
    Users,          \* accounts
    Requests,       \* transactions that may be open at once
    Sweeper,        \* the one of them run by the expiry timer
    Lifetimes,      \* session lifetimes the groups can imply
    MaxTime,        \* bound on the clock
    MaxSessions,    \* bound on the session rows ever created
    Operations,     \* the requests this instance exercises
    Serial          \* TRUE: one request at a time

AllOperations == {"create", "delete", "groups", "owner", "account", "delete_user",
                  "create_key", "revoke_key", "login", "enroll", "logout",
                  "update", "killswitch", "sweep"}

\* NULL, which is nobody's identifier.
NoUser == "nobody"
NoPeer == "no peer"

ASSUME ConstantsAssumption ==
    /\ UserPeers \cap ServerPeers = {}
    /\ NoPeer \notin UserPeers \cup ServerPeers /\ NoUser \notin Users
    /\ Sweeper \in Requests
    /\ Lifetimes \subseteq Nat \ {0}
    /\ MaxTime \in Nat \ {0}
    /\ MaxSessions \in Nat
    /\ Operations \subseteq AllOperations
    /\ Serial \in BOOLEAN

Peers == UserPeers \cup ServerPeers
Sids == 1..MaxSessions

\* NULL dates, and the key that never expires.  The clock starts at 1.
Never == 0
NoKey == 0
Forever == -1

VARIABLES
    now,        \* the clock
    state,      \* peers.state, or "absent" before the INSERT, "deleted" after
    owner,      \* peers.owner_user_id
    lastAuth,   \* peers.last_authenticated_at
    lifetime,   \* the session lifetime the peer's current groups imply
    key,        \* expiry of the peer's enrollment key, NoKey when it has none
    account,    \* users.is_active, or "deleted"
    row,        \* the table sessions
    req         \* the open transactions

peerVars == <<state, owner, lastAuth, lifetime, key>>
vars == <<now, state, owner, lastAuth, lifetime, key, account, row, req>>

-----------------------------------------------------------------------------
(* Rows and transactions                                                   *)

RowStatus == {"free", "active", "revoked", "expired", "gone"}
Closed == {"revoked", "expired", "gone"}
FreeRow == [status |-> "free", peer |-> NoPeer, user |-> NoUser,
            auth |-> Never, exp |-> Never]

Keep == "keep"          \* the state column is not dirty
NoWrite == [p \in Peers |-> Keep]
NoDue == [p \in Peers |-> Never]

Idle == [phase |-> "idle", op |-> "none", on |-> {}, user |-> NoUser,
         write |-> NoWrite, revoke |-> {}, expire |-> {}, clear |-> FALSE,
         life |-> 0, at |-> Never, due |-> NoDue, mode |-> "none"]

Registered(p) == state[p] \in States
Live(s) == row[s].status = "active"
LiveOf(p) == {s \in Sids : Live(s) /\ row[s].peer = p}

\* The dirty state column of a single peer: written only if the value differs
\* from the one that was read.
Dirty(p, target) ==
    [NoWrite EXCEPT ![p] = IF state[p] = target THEN Keep ELSE target]

Sessions == [status: RowStatus, peer: UserPeers \cup {NoPeer},
             user: Users \cup {NoUser}, auth: Nat, exp: Nat]

Transactions == [phase: {"idle", "loaded", "updating", "updated"},
                 op: AllOperations \cup {"none"},
                 on: SUBSET Peers, user: Users \cup {NoUser},
                 write: [Peers -> States \cup {Keep}],
                 revoke: SUBSET Sids, expire: SUBSET Sids, clear: BOOLEAN,
                 life: Nat, at: Nat, due: [Peers -> Nat], mode: Modes \cup {"none"}]

\* Only server peers hold an enrollment key, only user peers hold sessions; the
\* rest says where every column and every pending write ranges.
TypeOK ==
    /\ now \in Nat \ {0}
    /\ state \in [Peers -> States \cup {"absent", "deleted"}]
    /\ owner \in [Peers -> Users \cup {NoUser}]
    /\ lastAuth \in [Peers -> Nat]
    /\ lifetime \in [Peers -> Lifetimes]
    /\ key \in [Peers -> Int]
    /\ \A p \in UserPeers : key[p] = NoKey
    /\ account \in [Users -> {"active", "inactive", "deleted"}]
    /\ row \in [Sids -> Sessions]
    /\ req \in [Requests -> Transactions]

Init ==
    /\ now = 1
    /\ state = [p \in Peers |-> "absent"]
    /\ owner = [p \in Peers |-> NoUser]
    /\ lastAuth = [p \in Peers |-> Never]
    /\ lifetime \in [Peers -> Lifetimes]
    /\ key = [p \in Peers |-> NoKey]
    /\ account = [u \in Users |-> "active"]
    /\ row = [s \in Sids |-> FreeRow]
    /\ req = [r \in Requests |-> Idle]

-----------------------------------------------------------------------------
(* Transactions                                                            *)

InFlight == {r \in Requests : req[r].phase # "idle"}

\* A request of kind op may start.  The timer's thread only sweeps.
MayRun(op) == op \in Operations /\ (Serial => InFlight = {})
MayStart(r, op) ==
    /\ MayRun(op)
    /\ req[r].phase = "idle"
    /\ r = Sweeper => op = "sweep"

\* Row locks on sessions are held from Acquire to the end of the transaction.
LocksFree(r, sids) ==
    \A q \in Requests \ {r} : req[q].phase = "updated" => req[q].revoke \cap sids = {}

\* The columns of peers a flush writes.
WriteState(r) ==
    state' = [p \in Peers |-> IF req[r].write[p] = Keep THEN state[p] ELSE req[r].write[p]]

\* An UPDATE by primary key of a row that is gone raises StaleDataError.
RowsStillThere(r) == \A p \in Peers : req[r].write[p] # Keep => Registered(p)

\* Mutant: authenticating again stacks sessions, losing access keeps them.
CloseNoRows(r) ==
    [s \in Sids |-> IF s \in req[r].expire THEN [row[s] EXCEPT !.status = "expired"]
                                           ELSE row[s]]

\* What the flush and the bulk UPDATE leave in the table sessions.
CloseRows(r) ==
    [s \in Sids |->
        CASE s \in req[r].expire            -> [row[s] EXCEPT !.status = "expired"]
          [] s \in req[r].revoke /\ Live(s) -> [row[s] EXCEPT !.status = "revoked"]
          [] OTHER                          -> row[s]]

Finish(r) == req' = [req EXCEPT ![r] = Idle]

\* The bulk UPDATE of revoke_sessions and of the kill switch: the live rows its
\* snapshot sees.  open_session stamps the clock here.
Snapshot(r) ==
    /\ req[r].phase = "loaded"
    /\ req[r].op \in {"login", "logout", "killswitch", "update"}
    /\ req[r].on # {}
    /\ req' = [req EXCEPT ![r].phase = "updating",
                          ![r].revoke = UNION {LiveOf(p) : p \in req[r].on},
                          ![r].at = now]
    /\ UNCHANGED <<now, peerVars, account, row>>

\* The UPDATE waits for the row locks and then rechecks its WHERE clause.
Acquire(r) ==
    /\ req[r].phase = "updating"
    /\ LocksFree(r, req[r].revoke)
    /\ req' = [req EXCEPT ![r].phase = "updated",
                          ![r].revoke = {s \in @ : Live(s)}]
    /\ UNCHANGED <<now, peerVars, account, row>>

\* The transaction rolls back: an exception, a lost connection, a deadlock
\* victim, a worker that died.
Abort(r) ==
    /\ req[r].phase # "idle"
    /\ Finish(r)
    /\ UNCHANGED <<now, peerVars, account, row>>

-----------------------------------------------------------------------------
(* Single-step handlers                                                    *)

\* POST /peers: a registered public key alone grants nothing.
CreatePeer(p) ==
    /\ MayRun("create")
    /\ state[p] = "absent"
    /\ state' = [state EXCEPT ![p] = "staging"]
    /\ \E u \in Users \cup {NoUser} :
          /\ u # NoUser => account[u] # "deleted"
          /\ owner' = [owner EXCEPT ![p] = u]
    /\ UNCHANGED <<now, lastAuth, lifetime, key, account, row, req>>

\* DELETE /peers/{id}: the session rows cascade away with the peer.
DeletePeer(p) ==
    /\ MayRun("delete")
    /\ Registered(p)
    /\ state' = [state EXCEPT ![p] = "deleted"]
    /\ owner' = [owner EXCEPT ![p] = NoUser]
    /\ lastAuth' = [lastAuth EXCEPT ![p] = Never]
    /\ key' = [key EXCEPT ![p] = NoKey]
    /\ row' = [s \in Sids |-> IF row[s].peer = p
                               THEN [row[s] EXCEPT !.status = "gone"] ELSE row[s]]
    /\ UNCHANGED <<now, lifetime, account, req>>

\* PATCH /peers/{id} with group_slugs, or an edit of a group's lifetime.
ChangeGroups(p, l) ==
    /\ MayRun("groups")
    /\ Registered(p)
    /\ lifetime' = [lifetime EXCEPT ![p] = l]
    /\ UNCHANGED <<now, state, owner, lastAuth, key, account, row, req>>

\* PATCH /peers/{id} with owner_user_id.
ChangeOwner(p, u) ==
    /\ MayRun("owner")
    /\ Registered(p)
    /\ u # NoUser => account[u] # "deleted"
    /\ owner' = [owner EXCEPT ![p] = u]
    /\ UNCHANGED <<now, state, lastAuth, lifetime, key, account, row, req>>

\* PATCH /users/{id} with is_active.  The account's peers are left alone.
SetAccount(u, value) ==
    /\ MayRun("account")
    /\ account[u] # "deleted"
    /\ account' = [account EXCEPT ![u] = value]
    /\ UNCHANGED <<now, peerVars, row, req>>

\* DELETE /users/{id}: peers.owner_user_id becomes NULL and the account's
\* session rows cascade away; the state of its peers is left alone.
DeleteUser(u) ==
    /\ MayRun("delete_user")
    /\ account[u] # "deleted"
    /\ account' = [account EXCEPT ![u] = "deleted"]
    /\ owner' = [p \in Peers |-> IF owner[p] = u THEN NoUser ELSE owner[p]]
    /\ row' = [s \in Sids |-> IF row[s].user = u
                               THEN [row[s] EXCEPT !.status = "gone"] ELSE row[s]]
    /\ UNCHANGED <<now, state, lastAuth, lifetime, key, req>>

\* Mutant: any type of peer is given a key.
CreateKeyForAnyPeer(p, expiry) ==
    /\ MayRun("create_key")
    /\ Registered(p)
    /\ expiry = Forever \/ expiry > now
    /\ key' = [key EXCEPT ![p] = expiry]
    /\ UNCHANGED <<now, state, owner, lastAuth, lifetime, account, row, req>>

\* POST /peers/{id}/enrollment-key: replaces the hash, whatever the state.
CreateKey(p, expiry) ==
    /\ MayRun("create_key")
    /\ Registered(p) /\ p \in ServerPeers
    /\ expiry = Forever \/ expiry > now
    /\ key' = [key EXCEPT ![p] = expiry]
    /\ UNCHANGED <<now, state, owner, lastAuth, lifetime, account, row, req>>

-----------------------------------------------------------------------------
(* The portal                                                              *)

\* POST /portal/login and GET /portal/oidc/callback with valid credentials.
BeginLogin(r, p) ==
    /\ MayStart(r, "login")
    /\ Registered(p) /\ p \in UserPeers
    /\ owner[p] # NoUser /\ account[owner[p]] = "active"
    /\ Allowed(SelfServiceTransitions, state[p], "active")
    /\ req' = [req EXCEPT ![r] = [Idle EXCEPT
                    !.phase = "loaded", !.op = "login", !.on = {p}, !.user = owner[p],
                    !.write = Dirty(p, "active"), !.life = lifetime[p]]]
    /\ UNCHANGED <<now, peerVars, account, row>>

\* Mutant: authenticating again refreshes an earlier row of the peer.
CommitLoginReusingRow(r) ==
    /\ req[r].phase = "updated" /\ req[r].op = "login"
    /\ account[req[r].user] # "deleted"
    /\ \E p \in req[r].on, s \in Sids :
          /\ Registered(p)
          /\ row[s].status = "free" \/ row[s].peer = p
          /\ lastAuth' = [lastAuth EXCEPT ![p] = req[r].at]
          /\ row' = [CloseRows(r) EXCEPT ![s] =
                        [status |-> "active", peer |-> p, user |-> req[r].user,
                         auth |-> req[r].at, exp |-> req[r].at + req[r].life]]
    /\ WriteState(r)
    /\ Finish(r)
    /\ UNCHANGED <<now, owner, lifetime, key, account>>

\* Flush: the closed rows, the new one, last_authenticated_at and the state.
CommitLogin(r) ==
    /\ req[r].phase = "updated" /\ req[r].op = "login"
    /\ account[req[r].user] # "deleted"
    /\ \E p \in req[r].on, s \in Sids :
          /\ Registered(p)
          /\ row[s].status = "free" /\ \A t \in Sids : t < s => row[t].status # "free"
          /\ lastAuth' = [lastAuth EXCEPT ![p] = req[r].at]
          /\ row' = [CloseRows(r) EXCEPT ![s] =
                        [status |-> "active", peer |-> p, user |-> req[r].user,
                         auth |-> req[r].at, exp |-> req[r].at + req[r].life]]
    /\ WriteState(r)
    /\ Finish(r)
    /\ UNCHANGED <<now, owner, lifetime, key, account>>

\* Mutant: logging out closes the session and leaves the access.
BeginLogoutKeepingState(r, p) ==
    /\ MayStart(r, "logout")
    /\ Registered(p) /\ p \in UserPeers
    /\ req' = [req EXCEPT ![r] = [Idle EXCEPT
                    !.phase = "loaded", !.op = "logout", !.on = {p}]]
    /\ UNCHANGED <<now, peerVars, account, row>>

\* POST /portal/logout.
BeginLogout(r, p) ==
    /\ MayStart(r, "logout")
    /\ Registered(p) /\ p \in UserPeers
    /\ req' = [req EXCEPT ![r] = [Idle EXCEPT
                    !.phase = "loaded", !.op = "logout", !.on = {p},
                    !.write = IF state[p] = "active" THEN Dirty(p, "quarantined")
                                                     ELSE NoWrite]]
    /\ UNCHANGED <<now, peerVars, account, row>>

CommitLogout(r) ==
    /\ req[r].phase = "updated" /\ req[r].op = "logout"
    /\ RowsStillThere(r)
    /\ WriteState(r)
    /\ row' = CloseRows(r)
    /\ Finish(r)
    /\ UNCHANGED <<now, owner, lastAuth, lifetime, key, account>>

-----------------------------------------------------------------------------
(* Enrollment                                                              *)

\* POST /enroll with the peer's current key.
BeginEnroll(r, p) ==
    /\ MayStart(r, "enroll")
    /\ Registered(p) /\ p \in ServerPeers
    /\ key[p] # NoKey /\ (key[p] = Forever \/ key[p] > now)
    /\ Allowed(SelfServiceTransitions, state[p], "active")
    /\ req' = [req EXCEPT ![r] = [Idle EXCEPT
                    !.phase = "loaded", !.op = "enroll", !.on = {p},
                    !.write = Dirty(p, "active")]]
    /\ UNCHANGED <<now, peerVars, account, row>>

CommitEnroll(r) ==
    /\ req[r].phase = "loaded" /\ req[r].op = "enroll"
    /\ \A p \in req[r].on : Registered(p)
    /\ WriteState(r)
    /\ Finish(r)
    /\ UNCHANGED <<now, owner, lastAuth, lifetime, key, account, row>>

-----------------------------------------------------------------------------
(* The admin API                                                           *)

\* Mutant: an administrator hands out "active" to any peer.
MayForceAny(p, target) == TRUE

\* A user peer becomes active by authenticating, never by an administrator.
MayForce(p, target) == target = "active" => p \in ServerPeers

\* PATCH /peers/{id} with a state.  Losing "active" ends the sessions.
BeginUpdate(r, p, target) ==
    /\ MayStart(r, "update")
    /\ Registered(p) /\ state[p] # target
    /\ Allowed(AdminTransitions, state[p], target)
    /\ MayForce(p, target)
    /\ req' = [req EXCEPT ![r] = [Idle EXCEPT
                    !.phase = "loaded", !.op = "update",
                    !.on = IF state[p] = "active" THEN {p} ELSE {},
                    !.write = Dirty(p, target)]]
    /\ UNCHANGED <<now, peerVars, account, row>>

CommitUpdate(r) ==
    /\ req[r].op = "update"
    /\ req[r].phase = IF req[r].on = {} THEN "loaded" ELSE "updated"
    /\ RowsStillThere(r)
    /\ WriteState(r)
    /\ row' = CloseRows(r)
    /\ Finish(r)
    /\ UNCHANGED <<now, owner, lastAuth, lifetime, key, account>>

\* DELETE /peers/{id}/enrollment-key?quarantine=...: any type of peer.
BeginRevokeKey(r, p, quarantine) ==
    /\ MayStart(r, "revoke_key")
    /\ Registered(p)
    /\ req' = [req EXCEPT ![r] = [Idle EXCEPT
                    !.phase = "loaded", !.op = "revoke_key", !.on = {p},
                    !.clear = key[p] # NoKey,
                    !.write = IF quarantine /\ state[p] # "revoked"
                              THEN Dirty(p, "quarantined") ELSE NoWrite]]
    /\ UNCHANGED <<now, peerVars, account, row>>

CommitRevokeKey(r) ==
    /\ req[r].phase = "loaded" /\ req[r].op = "revoke_key"
    /\ req[r].clear => \A p \in req[r].on : Registered(p)
    /\ RowsStillThere(r)
    /\ key' = [p \in Peers |-> IF p \in req[r].on /\ req[r].clear THEN NoKey ELSE key[p]]
    /\ WriteState(r)
    /\ Finish(r)
    /\ UNCHANGED <<now, owner, lastAuth, lifetime, account, row>>

\* POST /killswitch: every peer the mode acts on, every live session.
BeginKillSwitch(r, mode) ==
    /\ MayStart(r, "killswitch")
    /\ \A p \in Peers : state[p] \in ModeSources[mode] =>
                        Allowed(AdminTransitions, state[p], ModeTarget[mode])
    /\ req' = [req EXCEPT ![r] = [Idle EXCEPT
                    !.phase = "loaded", !.op = "killswitch", !.on = Peers, !.mode = mode,
                    !.write = [p \in Peers |-> IF state[p] \in ModeSources[mode]
                                                  /\ state[p] # ModeTarget[mode]
                                               THEN ModeTarget[mode] ELSE Keep]]]
    /\ UNCHANGED <<now, peerVars, account, row>>

CommitKillSwitch(r) ==
    /\ req[r].phase = "updated" /\ req[r].op = "killswitch"
    /\ RowsStillThere(r)
    /\ WriteState(r)
    /\ row' = CloseRows(r)
    /\ Finish(r)
    /\ UNCHANGED <<now, owner, lastAuth, lifetime, key, account>>

-----------------------------------------------------------------------------
(* The expiry sweep                                                        *)

\* Mutant: only peers with a live session row are looked at.
BeginSweepOfSessions(r) ==
    /\ MayStart(r, "sweep")
    /\ \A q \in InFlight : req[q].op # "sweep"
    /\ LET candidates == {p \in UserPeers : state[p] = "active" /\ LiveOf(p) # {}} IN
       req' = [req EXCEPT ![r] = [Idle EXCEPT
                    !.phase = "loaded", !.op = "sweep", !.on = candidates, !.at = now,
                    !.due = [p \in Peers |->
                        IF p \in candidates /\ lastAuth[p] # Never
                        THEN lastAuth[p] + lifetime[p] ELSE Never]]]
    /\ UNCHANGED <<now, peerVars, account, row>>

\* Under the advisory lock: the active user peers, and for each the deadline
\* its last authentication and its current groups imply.  A peer that never
\* authenticated is overdue at once.
BeginSweep(r) ==
    /\ MayStart(r, "sweep")
    /\ \A q \in InFlight : req[q].op # "sweep"
    /\ LET candidates == {p \in UserPeers : state[p] = "active"} IN
       req' = [req EXCEPT ![r] = [Idle EXCEPT
                    !.phase = "loaded", !.op = "sweep", !.on = candidates, !.at = now,
                    !.due = [p \in Peers |->
                        IF p \in candidates /\ lastAuth[p] # Never
                        THEN lastAuth[p] + lifetime[p] ELSE Never]]]
    /\ UNCHANGED <<now, peerVars, account, row>>

\* The latest live row of a peer; none if it has no live row.
LatestLive(p) == {s \in LiveOf(p) : \A t \in LiveOf(p) : row[t].auth <= row[s].auth}

\* Mutant: the more lenient of the two.
LaterDeadline(due, s) == IF s # 0 /\ row[s].exp > due THEN row[s].exp ELSE due

\* The stricter of the recomputed deadline and the one frozen at login.
Deadline(due, s) == IF s # 0 /\ row[s].exp < due THEN row[s].exp ELSE due
IsOver(deadline, at) == deadline <= at

\* The query for live rows, and the verdict on every candidate.
SweepRows(r) ==
    /\ req[r].phase = "loaded" /\ req[r].op = "sweep"
    /\ \E pick \in [req[r].on -> Sids \cup {0}] :
         /\ \A p \in req[r].on :
              IF LiveOf(p) = {} THEN pick[p] = 0 ELSE pick[p] \in LatestLive(p)
         /\ LET over == {p \in req[r].on : IsOver(Deadline(req[r].due[p], pick[p]), req[r].at)}
            IN req' = [req EXCEPT ![r].phase = "updated",
                         ![r].write = [p \in Peers |-> IF p \in over THEN "quarantined" ELSE Keep],
                         ![r].expire = {pick[p] : p \in over} \ {0}]
    /\ UNCHANGED <<now, peerVars, account, row>>

\* Every row the pass is about to write still exists.
PassFits(r) ==
    /\ RowsStillThere(r)
    /\ \A s \in req[r].expire : row[s].status # "gone"

CommitSweep(r) ==
    /\ req[r].phase = "updated" /\ req[r].op = "sweep"
    /\ PassFits(r)
    /\ LocksFree(r, req[r].expire)
    /\ WriteState(r)
    /\ row' = CloseRows(r)
    /\ Finish(r)
    /\ UNCHANGED <<now, owner, lastAuth, lifetime, key, account>>

-----------------------------------------------------------------------------
Tick ==
    /\ now < MaxTime
    /\ now' = now + 1
    /\ UNCHANGED <<peerVars, account, row, req>>

Keys == {Forever} \cup 1..(MaxTime + 1)

Records ==
    \/ \E p \in Peers : CreatePeer(p) \/ DeletePeer(p)
    \/ \E p \in Peers, l \in Lifetimes : ChangeGroups(p, l)
    \/ \E p \in Peers, u \in Users \cup {NoUser} : ChangeOwner(p, u)
    \/ \E u \in Users : SetAccount(u, "active") \/ SetAccount(u, "inactive") \/ DeleteUser(u)
    \/ \E p \in Peers, e \in Keys : CreateKey(p, e)

Begin(r) ==
    \/ \E p \in Peers : BeginLogin(r, p) \/ BeginLogout(r, p) \/ BeginEnroll(r, p)
    \/ \E p \in Peers, t \in States : BeginUpdate(r, p, t)
    \/ \E p \in Peers, q \in BOOLEAN : BeginRevokeKey(r, p, q)
    \/ \E m \in Modes : BeginKillSwitch(r, m)
    \/ BeginSweep(r)

Commit(r) ==
    \/ CommitLogin(r) \/ CommitLogout(r) \/ CommitEnroll(r) \/ CommitUpdate(r)
    \/ CommitRevokeKey(r) \/ CommitKillSwitch(r) \/ CommitSweep(r)

Next ==
    \/ Tick
    \/ Records
    \/ \E r \in Requests : Begin(r) \/ Snapshot(r) \/ Acquire(r) \/ SweepRows(r)
                             \/ Commit(r) \/ Abort(r)

Spec == Init /\ [][Next]_vars

(* The timer ticks for ever and survives a failed pass, so a sweep starts   *)
(* again and again.  Passes with something to write that are lost to         *)
(* anything but a row that vanished under them are finite in number (a pass  *)
(* with nothing to write commits or rolls back to the same tables).  Every   *)
(* transaction ends one way or the other and so gives its row locks back.    *)
Fairness ==
    /\ SF_vars(BeginSweep(Sweeper))
    /\ SF_vars(SweepRows(Sweeper))
    /\ SF_vars(CommitSweep(Sweeper))
    /\ \A r \in Requests : WF_vars(Abort(r) \/ Commit(r))
    /\ <>[][Abort(Sweeper) => req[Sweeper].write = NoWrite \/ ~PassFits(Sweeper)]_vars

FairSpec == Spec /\ Fairness

-----------------------------------------------------------------------------
(* Properties of every interleaving                                        *)

\* A user peer is never active unless somebody authenticated on it: the expiry
\* job's reading of an "active" peer with no last_authenticated_at as a bug.
ActiveUserHasAuthenticated ==
    \A p \in UserPeers : state[p] = "active" => lastAuth[p] # Never

\* A session row that was closed, by whom and however late, never reopens.
ClosedRowsStayClosed ==
    [][\A s \in Sids : row[s].status \in Closed => row'[s].status \in Closed]_vars

Overdue(p) ==
    /\ state[p] = "active"
    /\ \/ lastAuth[p] + lifetime[p] <= now
       \/ LiveOf(p) # {} /\ \A s \in LatestLive(p) : row[s].exp <= now

\* Access whose time has run out ends: the sweeper quarantines the peer, or
\* somebody authenticates on it again.
OverdueAccessEnds == \A p \in UserPeers : Overdue(p) ~> ~Overdue(p)

-----------------------------------------------------------------------------
(* Properties of requests that do not overlap                              *)

\* Nothing brings a peer back from "revoked"; it can only be deleted.
RevokedIsTerminal ==
    [][\A p \in Peers : state[p] = "revoked" => state'[p] \in {"revoked", "deleted"}]_vars

\* Exactly one session is live per peer.
OneLiveSession == \A p \in Peers : \A s, t \in LiveOf(p) : s = t

\* A user peer that is active and still owned by the account that opened its
\* session has that session live.
ActiveMeansLive ==
    \A p \in UserPeers : state[p] = "active" =>
        LiveOf(p) # {} \/ \E s \in Sids : row[s].peer = p /\ row[s].status = "gone"

\* killswitch.py: no session is live once the kill switch has committed, every
\* peer is down to the access its mode leaves, the confined ones too in a
\* lockdown, none has more reach than it had, and one that had no more than that
\* is left as it was: staging, disabled or revoked.
KillSwitchIsComplete ==
    [][\A r \in Requests : CommitKillSwitch(r) =>
          LET left == IF req[r].mode = "lockdown" THEN Reach["disabled"] ELSE Reach["quarantined"]
          IN  /\ \A s \in Sids : row'[s].status # "active"
              /\ \A p \in Peers : Registered(p) =>
                    /\ Reach[state'[p]] <= left
                    /\ Reach[state'[p]] <= Reach[state[p]]
                    /\ Reach[state[p]] <= left => state'[p] = state[p]]_vars

\* expiry.sweep: a peer the pass leaves active is within the lifetime its
\* current groups imply and within the deadline of every session it keeps.
SweepLeavesNobodyOverdue ==
    [][\A r \in Requests : CommitSweep(r) =>
          \A p \in UserPeers : state'[p] = "active" =>
             /\ lastAuth[p] + lifetime[p] > req[r].at
             /\ \A s \in Sids : row'[s].peer = p /\ row'[s].status = "active" =>
                                 row[s].exp > req[r].at]_vars

\* expiry.effective_deadline: the deadline frozen at login outlives every later
\* change of groups; a sweep never leaves a peer active past it.
FrozenDeadlineHolds ==
    [][\A r \in Requests : CommitSweep(r) =>
          \A p \in UserPeers : state'[p] = "active" =>
             \A s \in Sids : row[s].peer = p /\ row[s].auth = lastAuth[p] =>
                             row[s].exp > req[r].at]_vars

\* A peer that loses "active" keeps no live session.
LosingActiveEndsSessions ==
    [][\A p \in UserPeers : state[p] = "active" /\ state'[p] # "active" =>
          \A s \in Sids : row'[s].peer = p => row'[s].status # "active"]_vars

\* Revoking an enrollment key never widens what the peer reaches.
RevokingAKeyOnlyNarrows ==
    [][\A r \in Requests : CommitRevokeKey(r) =>
          \A p \in Peers : Registered(p) => Reach[state'[p]] <= Reach[state[p]]]_vars
-----------------------------------------------------------------------------
(* The strengthenings the proofs rest on                                   *)

\* A transaction about to make a user peer active is a login on that peer which
\* has stamped the time of the authentication.
StampedLogin(t) ==
    /\ t.op = "login" => /\ \E p \in UserPeers : t.on = {p}
                         /\ t.phase # "loaded" => t.at # Never
    /\ \A p \in UserPeers : t.write[p] = "active" => t.op = "login" /\ p \in t.on

LoginsCarryAStamp == \A r \in Requests : StampedLogin(req[r])

\* When requests do not overlap, the only open transaction still sees the rows it
\* read: a peer it moves was not revoked, a candidate of the sweep is active, and
\* a login closes every live row of its peer.
AtMostOneOpen == Serial => \A r, q \in InFlight : r = q

CurrentReads(t) ==
    /\ \A p \in Peers : state[p] = "revoked" => t.write[p] \in {Keep, "revoked"}
    /\ t.op = "sweep" => \A p \in t.on : state[p] = "active"
    /\ t.op = "login" /\ t.phase # "loaded" => \A p \in t.on : LiveOf(p) \subseteq t.revoke

ReadsAreCurrent == Serial => \A r \in InFlight : CurrentReads(req[r])

\* A session row that was opened is a user peer's, and a free one is nobody's.
RowsHavePeers ==
    \A s \in Sids : IF row[s].status = "free" THEN row[s] = FreeRow ELSE row[s].peer \in UserPeers

\* When requests do not overlap, what each request decided on is still what its
\* operation means for the rows as they are when it commits.
MeansLogin(t) ==
    \E p \in UserPeers : /\ t.on = {p} /\ t.write = Dirty(p, "active")
                         /\ state[p] \in Confined \cup {"active"}

MeansLogout(t) ==
    \E p \in UserPeers :
        /\ t.on = {p} /\ Registered(p)
        /\ t.write = IF state[p] = "active" THEN Dirty(p, "quarantined") ELSE NoWrite

MeansEnroll(t) ==
    \E p \in ServerPeers : /\ t.on = {p} /\ t.write = Dirty(p, "active")
                           /\ key[p] # NoKey /\ state[p] \in Confined \cup {"active"}

MeansUpdate(t) ==
    \E p \in Peers, target \in States :
        /\ t.on = (IF state[p] = "active" THEN {p} ELSE {}) /\ t.write = Dirty(p, target)
        /\ state[p] \in States \ {"revoked", target} /\ MayForce(p, target)

MeansKillSwitch(t) ==
    /\ t.on = Peers /\ t.mode \in Modes
    /\ t.write = [p \in Peers |->
                    IF state[p] \in ModeSources[t.mode] /\ state[p] # ModeTarget[t.mode]
                    THEN ModeTarget[t.mode] ELSE Keep]

\* Whose time is left at the clock of the pass.
TimeLeft(p, at) == /\ lastAuth[p] + lifetime[p] > at
                   /\ \A s \in LiveOf(p) : row[s].exp > at

\* The pass has read its candidates, or has decided on each of them.
MeansSweep(t) ==
    /\ t.on = {p \in UserPeers : state[p] = "active"}
    /\ IF t.phase = "loaded"
       THEN /\ t.write = NoWrite /\ t.expire = {}
            /\ \A p \in t.on : t.due[p] = IF lastAuth[p] # Never
                                           THEN lastAuth[p] + lifetime[p] ELSE Never
       ELSE \E over \in SUBSET t.on :
            /\ t.write = [p \in Peers |-> IF p \in over THEN "quarantined" ELSE Keep]
            /\ t.expire = UNION {LiveOf(p) : p \in over}
            /\ \A p \in t.on \ over : TimeLeft(p, t.at)

\* The rows the bulk UPDATE of any other request closes are the live ones of
\* the peers it is about.
MeansToClose(t) ==
    /\ t.op # "sweep" => t.expire = {}
    /\ t.revoke = IF t.phase = "loaded" \/ t.op = "sweep" THEN {}
                  ELSE UNION {LiveOf(p) : p \in t.on}

Means(t) ==
    /\ t.op \in Operations /\ MeansToClose(t)
    /\ t.op = "login" => MeansLogin(t)
    /\ t.op = "logout" => MeansLogout(t)
    /\ t.op = "enroll" => MeansEnroll(t)
    /\ t.op = "update" => MeansUpdate(t)
    /\ t.op = "killswitch" => MeansKillSwitch(t)
    /\ t.op = "sweep" => MeansSweep(t)

MeaningHolds == Serial => \A r \in InFlight : Means(req[r])

\* With keys left alone, a peer that is not active has no live session.
IdlePeersHaveNoSession == \A p \in Peers : state[p] # "active" => LiveOf(p) = {}
=============================================================================
