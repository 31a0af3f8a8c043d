-------------------------- MODULE PeerAccessProofs --------------------------
(***************************************************************************)
(* Theorems about PeerAccess, for every number of peers, accounts and      *)
(* overlapping requests.                                                   *)
(***************************************************************************)
EXTENDS PeerAccess, TLAPS

TypeInv == TypeOK /\ LoginsCarryAStamp

\* A transaction the invariant allows.
Sound(t) == t \in Transactions /\ StampedLogin(t)

\* A transaction that is not open is sound.
LEMMA IdleSound == Sound(Idle)
BY DEF Sound, StampedLogin, Idle, Transactions, NoUser, NoWrite, NoDue, Keep, Never, Peers

\* A dirty state column holds the state to be written.
LEMMA DirtyTyped ==
    ASSUME TypeOK, NEW p \in Peers, NEW target \in States
    PROVE  /\ Dirty(p, target) \in [Peers -> States \cup {Keep}]
           /\ NoWrite \in [Peers -> States \cup {Keep}]
           /\ Dirty(p, target)[p] \in {Keep, target}
           /\ \A q \in Peers \ {p} : Dirty(p, target)[q] = Keep
           /\ \A q \in Peers : NoWrite[q] = Keep
BY DEF Dirty, NoWrite

\* The empty tables are typed, and no transaction is open.
LEMMA InitTyped == Init => TypeInv
<1> SUFFICES ASSUME Init PROVE TypeInv
  OBVIOUS
<1>1. FreeRow \in Sessions
  BY DEF Sessions, FreeRow, RowStatus, NoPeer, NoUser, Never
<1>2. TypeOK
  <2>1. req \in [Requests -> Transactions]
    BY IdleSound DEF Init, Sound
  <2>2. row \in [Sids -> Sessions]
    BY <1>1 DEF Init
  <2> QED
    BY <2>1, <2>2 DEF Init, TypeOK, NoUser, Never, NoKey, Peers
<1>3. LoginsCarryAStamp
  BY IdleSound DEF Init, LoginsCarryAStamp, Sound
<1> QED BY <1>2, <1>3 DEF TypeInv

\* A step that replaces one open transaction by a sound one and writes no row.
LEMMA ReqStep ==
    ASSUME TypeInv, NEW r \in Requests, NEW t, Sound(t),
           req' = [req EXCEPT ![r] = t],
           UNCHANGED <<now, peerVars, account, row>>
    PROVE  TypeInv'
BY DEF TypeInv, TypeOK, LoginsCarryAStamp, Sound, peerVars

\* What a handler decides on the rows it reads is a sound transaction.
LEMMA BeginTyped ==
    ASSUME TypeInv, NEW r \in Requests, Begin(r)
    PROVE  TypeInv'
<1>1. ASSUME NEW p \in Peers, BeginLogin(r, p) PROVE TypeInv'
  <2> DEFINE t == [Idle EXCEPT
                    !.phase = "loaded", !.op = "login", !.on = {p}, !.user = owner[p],
                    !.write = Dirty(p, "active"), !.life = lifetime[p]]
  <2>1. t \in Transactions
    <3>1. /\ owner[p] \in Users \cup {NoUser}
          /\ lifetime[p] \in Nat
          /\ Dirty(p, "active") \in [Peers -> States \cup {Keep}]
      BY ConstantsAssumption, DirtyTyped DEF TypeInv, TypeOK, States
    <3> QED BY <3>1, IdleSound DEF Sound, Transactions, AllOperations
  <2>2. StampedLogin(t)
    BY <1>1, DirtyTyped, ConstantsAssumption
    DEF BeginLogin, TypeInv, StampedLogin, Idle, States, Keep, Peers
  <2> QED BY <1>1, <2>1, <2>2, ReqStep DEF BeginLogin, Sound
<1>2. ASSUME NEW p \in Peers, BeginLogout(r, p) PROVE TypeInv'
  <2> DEFINE w == IF state[p] = "active" THEN Dirty(p, "quarantined") ELSE NoWrite
             t == [Idle EXCEPT !.phase = "loaded", !.op = "logout", !.on = {p}, !.write = w]
  <2>1. w \in [Peers -> States \cup {Keep}] /\ \A q \in Peers : w[q] # "active"
    BY DirtyTyped DEF TypeInv, States, Keep
  <2>2. t \in Transactions
    BY <2>1, IdleSound DEF Sound, Transactions, AllOperations
  <2>3. StampedLogin(t)
    BY <2>1 DEF StampedLogin, Idle, Peers
  <2> QED BY <1>2, <2>2, <2>3, ReqStep DEF BeginLogout, Sound
<1>3. ASSUME NEW p \in Peers, BeginEnroll(r, p) PROVE TypeInv'
  <2> DEFINE t == [Idle EXCEPT !.phase = "loaded", !.op = "enroll", !.on = {p},
                               !.write = Dirty(p, "active")]
  <2>1. t \in Transactions
    BY DirtyTyped, IdleSound DEF TypeInv, Sound, Transactions, AllOperations, States
  <2>2. p \notin UserPeers
    BY <1>3, ConstantsAssumption DEF BeginEnroll
  <2>3. StampedLogin(t)
    BY <2>2, DirtyTyped DEF TypeInv, StampedLogin, Idle, Peers, States, Keep
  <2> QED BY <1>3, <2>1, <2>3, ReqStep DEF BeginEnroll, Sound
<1>4. ASSUME NEW p \in Peers, NEW s \in States, BeginUpdate(r, p, s) PROVE TypeInv'
  <2> DEFINE on == IF state[p] = "active" THEN {p} ELSE {}
             t == [Idle EXCEPT !.phase = "loaded", !.op = "update", !.on = on,
                               !.write = Dirty(p, s)]
  <2>1. t \in Transactions
    BY DirtyTyped, IdleSound DEF TypeInv, Sound, Transactions, AllOperations
  <2>2. s = "active" => p \notin UserPeers
    BY <1>4, ConstantsAssumption DEF BeginUpdate, MayForce
  <2>3. StampedLogin(t)
    BY <2>2, DirtyTyped DEF TypeInv, StampedLogin, Idle, Peers, Keep
  <2> QED BY <1>4, <2>1, <2>3, ReqStep DEF BeginUpdate, Sound
<1>5. ASSUME NEW p \in Peers, NEW q \in BOOLEAN, BeginRevokeKey(r, p, q) PROVE TypeInv'
  <2> DEFINE w == IF q /\ state[p] # "revoked" THEN Dirty(p, "quarantined") ELSE NoWrite
             clear == key[p] # NoKey
             t == [Idle EXCEPT !.phase = "loaded", !.op = "revoke_key", !.on = {p},
                               !.clear = clear, !.write = w]
  <2>1. w \in [Peers -> States \cup {Keep}] /\ \A x \in Peers : w[x] # "active"
    BY DirtyTyped DEF TypeInv, States, Keep
  <2>2. t \in Transactions
    <3>1. clear \in BOOLEAN
      OBVIOUS
    <3> HIDE DEF clear
    <3> QED BY <2>1, <3>1, IdleSound DEF Sound, Transactions, AllOperations
  <2>3. StampedLogin(t)
    BY <2>1 DEF StampedLogin, Idle, Peers
  <2> QED BY <1>5, <2>2, <2>3, ReqStep DEF BeginRevokeKey, Sound
<1>6. ASSUME NEW m \in Modes, BeginKillSwitch(r, m) PROVE TypeInv'
  <2> DEFINE w == [p \in Peers |-> IF state[p] \in ModeSources[m] /\ state[p] # ModeTarget[m]
                                   THEN ModeTarget[m] ELSE Keep]
             t == [Idle EXCEPT !.phase = "loaded", !.op = "killswitch", !.on = Peers,
                               !.mode = m, !.write = w]
  <2>1. w \in [Peers -> States \cup {Keep}] /\ \A x \in Peers : w[x] # "active"
    BY DEF Modes, ModeTarget, States, Keep
  <2>2. t \in Transactions
    BY <2>1, IdleSound DEF Sound, Transactions, AllOperations
  <2>3. StampedLogin(t)
    BY <2>1 DEF StampedLogin, Idle, Peers
  <2> QED BY <1>6, <2>2, <2>3, ReqStep DEF BeginKillSwitch, Sound
<1>7. CASE BeginSweep(r)
  <2> DEFINE c == {p \in UserPeers : state[p] = "active"}
             due == [p \in Peers |-> IF p \in c /\ lastAuth[p] # Never
                                     THEN lastAuth[p] + lifetime[p] ELSE Never]
             t == [Idle EXCEPT !.phase = "loaded", !.op = "sweep", !.on = c, !.at = now,
                               !.due = due]
  <2>1. due \in [Peers -> Nat]
    <3>1. \A p \in Peers : lastAuth[p] \in Nat /\ lifetime[p] \in Nat
      BY ConstantsAssumption DEF TypeInv, TypeOK
    <3> HIDE DEF c
    <3> QED BY <3>1 DEF Never
  <2>2. c \subseteq Peers /\ now \in Nat
    BY DEF TypeInv, TypeOK, Peers
  <2>3. t \in Transactions
    <3> HIDE DEF c, due
    <3> QED BY <2>1, <2>2, IdleSound DEF Sound, Transactions, AllOperations
  <2>4. StampedLogin(t)
    BY DEF StampedLogin, Idle, NoWrite, Keep, Peers
  <2> QED BY <1>7, <2>3, <2>4, ReqStep DEF BeginSweep, Sound
<1> QED BY <1>1, <1>2, <1>3, <1>4, <1>5, <1>6, <1>7 DEF Begin

-----------------------------------------------------------------------------
(* The steps of an open transaction                                        *)

\* The snapshot of the bulk UPDATE, its row locks, the sweep's verdict and a
\* rollback keep every transaction sound.
LEMMA MiddleTyped ==
    ASSUME TypeInv, NEW r \in Requests, Snapshot(r) \/ Acquire(r) \/ SweepRows(r)
    PROVE  TypeInv'
<1> USE DEF TypeInv
<1>0. req[r] \in Transactions /\ StampedLogin(req[r])
  BY DEF TypeOK, LoginsCarryAStamp
<1>1. CASE Snapshot(r)
  <2> DEFINE rev == UNION {LiveOf(p) : p \in req[r].on}
             t == [req[r] EXCEPT !.phase = "updating", !.revoke = rev, !.at = now]
  <2>1. rev \subseteq Sids /\ now \in Nat \ {0}
    BY DEF LiveOf, TypeOK
  <2>2. t \in Transactions /\ StampedLogin(t)
    <3> HIDE DEF rev
    <3>1. t \in Transactions
      BY <1>0, <2>1 DEF Transactions
    <3>2. StampedLogin(t)
      BY <1>0, <2>1 DEF StampedLogin, Transactions, Never
    <3> QED BY <3>1, <3>2
  <2>3. req' = [req EXCEPT ![r] = t]
    BY <1>1, <1>0 DEF Snapshot, TypeOK, Transactions
  <2> HIDE DEF t
  <2> QED BY <1>1, <2>2, <2>3, ReqStep DEF Snapshot, Sound
<1>2. CASE Acquire(r)
  <2> DEFINE rev == {s \in req[r].revoke : Live(s)}
             t == [req[r] EXCEPT !.phase = "updated", !.revoke = rev]
  <2>1. rev \subseteq Sids
    BY <1>0 DEF Transactions
  <2>2. t \in Transactions /\ StampedLogin(t)
    <3> HIDE DEF rev
    <3>1. t \in Transactions
      BY <1>0, <2>1 DEF Transactions
    <3>2. StampedLogin(t)
      BY <1>0, <1>2 DEF StampedLogin, Transactions, Acquire
    <3> QED BY <3>1, <3>2
  <2>3. req' = [req EXCEPT ![r] = t]
    BY <1>2, <1>0 DEF Acquire, TypeOK, Transactions
  <2> HIDE DEF t
  <2> QED BY <1>2, <2>2, <2>3, ReqStep DEF Acquire, Sound
<1>3. CASE SweepRows(r)
  <2>1. PICK pick \in [req[r].on -> Sids \cup {0}] :
          LET over == {p \in req[r].on : IsOver(Deadline(req[r].due[p], pick[p]), req[r].at)}
          IN req' = [req EXCEPT ![r].phase = "updated",
                       ![r].write = [p \in Peers |-> IF p \in over THEN "quarantined" ELSE Keep],
                       ![r].expire = {pick[p] : p \in over} \ {0}]
    BY <1>3 DEF SweepRows
  <2> DEFINE over == {p \in req[r].on : IsOver(Deadline(req[r].due[p], pick[p]), req[r].at)}
             w == [p \in Peers |-> IF p \in over THEN "quarantined" ELSE Keep]
             x == {pick[p] : p \in over} \ {0}
             t == [req[r] EXCEPT !.phase = "updated", !.write = w, !.expire = x]
  <2>2. w \in [Peers -> States \cup {Keep}] /\ \A p \in Peers : w[p] # "active"
    <3> HIDE DEF over
    <3> QED BY DEF States, Keep
  <2>3. x \subseteq Sids
    BY <2>1
  <2>4. req' = [req EXCEPT ![r] = t]
    <3>1. req' = [req EXCEPT ![r].phase = "updated", ![r].write = w, ![r].expire = x]
      BY <2>1
    <3> HIDE DEF w, x
    <3> QED BY <3>1, <1>0 DEF TypeOK, Transactions
  <2>5. t \in Transactions /\ StampedLogin(t)
    <3> HIDE DEF w, x
    <3>1. t \in Transactions
      BY <1>0, <2>2, <2>3 DEF Transactions
    <3>2. StampedLogin(t)
      BY <1>0, <1>3, <2>2 DEF StampedLogin, Transactions, SweepRows, Peers
    <3> QED BY <3>1, <3>2
  <2> HIDE DEF t
  <2> QED BY <1>3, <2>4, <2>5, ReqStep DEF SweepRows, Sound
<1> QED BY <1>1, <1>2, <1>3

-----------------------------------------------------------------------------
(* What a commit writes                                                    *)

\* A flush writes states to peers.state.
LEMMA WriteTyped ==
    ASSUME TypeInv, NEW r \in Requests, WriteState(r)
    PROVE  /\ state' \in [Peers -> States \cup {"absent", "deleted"}]
           /\ \A p \in Peers : state'[p] \in {state[p], req[r].write[p]}
BY DEF TypeInv, TypeOK, WriteState, Transactions

\* Closing rows only ever changes their status, from "active" to "revoked" or to
\* "expired".
LEMMA ClosedRows ==
    ASSUME TypeInv, NEW r \in Requests
    PROVE  /\ CloseRows(r) \in [Sids -> Sessions]
           /\ \A s \in Sids : /\ CloseRows(r)[s].peer = row[s].peer
                              /\ CloseRows(r)[s].status \in {row[s].status, "revoked", "expired"}
                              /\ CloseRows(r)[s].status = "active" => s \notin req[r].revoke
<1>1. row \in [Sids -> Sessions]
  BY DEF TypeInv, TypeOK
<1> QED BY <1>1 DEF CloseRows, Sessions, RowStatus, Live

\* A transaction that ends, whatever it wrote.
LEMMA EndTyped ==
    ASSUME TypeInv, NEW r \in Requests, Finish(r),
           state' \in [Peers -> States \cup {"absent", "deleted"}],
           lastAuth' \in [Peers -> Nat],
           key' \in [Peers -> Int], \A p \in UserPeers : key'[p] = NoKey,
           row' \in [Sids -> Sessions],
           UNCHANGED <<now, owner, lifetime, account>>
    PROVE  TypeInv'
BY IdleSound DEF TypeInv, TypeOK, LoginsCarryAStamp, Sound, Finish

\* Every commit leaves typed tables.
LEMMA CommitTyped ==
    ASSUME TypeInv, NEW r \in Requests, Commit(r) \/ Abort(r)
    PROVE  TypeInv'
<1>1. CASE Abort(r)
  BY <1>1, IdleSound, ReqStep DEF Abort, Finish
<1>2. CASE CommitLogin(r)
  <2>1. lastAuth' \in [Peers -> Nat] /\ row' \in [Sids -> Sessions]
    <3>1. PICK p \in req[r].on, s \in Sids :
            /\ lastAuth' = [lastAuth EXCEPT ![p] = req[r].at]
            /\ row' = [CloseRows(r) EXCEPT ![s] =
                        [status |-> "active", peer |-> p, user |-> req[r].user,
                         auth |-> req[r].at, exp |-> req[r].at + req[r].life]]
      BY <1>2 DEF CommitLogin
    <3>2. req[r] \in Transactions /\ p \in UserPeers
      BY <1>2 DEF CommitLogin, TypeInv, TypeOK, LoginsCarryAStamp, StampedLogin
    <3>3. [status |-> "active", peer |-> p, user |-> req[r].user,
           auth |-> req[r].at, exp |-> req[r].at + req[r].life] \in Sessions
      BY <3>2 DEF Sessions, Transactions, RowStatus
    <3> QED BY <3>1, <3>2, <3>3, ClosedRows DEF TypeInv, TypeOK, Transactions
  <2> QED BY <1>2, <2>1, WriteTyped, EndTyped DEF CommitLogin, TypeInv, TypeOK
<1>3. CASE CommitLogout(r) \/ CommitUpdate(r) \/ CommitKillSwitch(r) \/ CommitSweep(r)
  <2>1. WriteState(r) /\ Finish(r) /\ row' = CloseRows(r)
        /\ UNCHANGED <<now, owner, lastAuth, lifetime, key, account>>
    BY <1>3 DEF CommitLogout, CommitUpdate, CommitKillSwitch, CommitSweep
  <2> QED BY <2>1, WriteTyped, ClosedRows, EndTyped DEF TypeInv, TypeOK
<1>4. CASE CommitEnroll(r)
  BY <1>4, WriteTyped, EndTyped DEF CommitEnroll, TypeInv, TypeOK
<1>5. CASE CommitRevokeKey(r)
  <2>1. key' \in [Peers -> Int] /\ \A p \in UserPeers : key'[p] = NoKey
    BY <1>5 DEF CommitRevokeKey, TypeInv, TypeOK, NoKey, Peers
  <2> QED BY <1>5, <2>1, WriteTyped, EndTyped DEF CommitRevokeKey, TypeInv, TypeOK
<1> QED BY <1>1, <1>2, <1>3, <1>4, <1>5 DEF Commit

-----------------------------------------------------------------------------
(* The single-step handlers, and the whole                                 *)

\* So does every single-step handler.
LEMMA RecordsTyped == TypeInv /\ Records => TypeInv'
<1> SUFFICES ASSUME TypeInv, Records PROVE TypeInv'
  OBVIOUS
<1> USE ConstantsAssumption DEF TypeInv, TypeOK, LoginsCarryAStamp
<1>1. ASSUME NEW p \in Peers, CreatePeer(p) PROVE TypeInv'
  BY <1>1 DEF CreatePeer, States
<1>2. ASSUME NEW p \in Peers, DeletePeer(p) PROVE TypeInv'
  BY <1>2 DEF DeletePeer, Sessions, RowStatus, Never, NoKey, NoUser
<1>3. ASSUME NEW p \in Peers, NEW l \in Lifetimes, ChangeGroups(p, l) PROVE TypeInv'
  BY <1>3 DEF ChangeGroups
<1>4. ASSUME NEW p \in Peers, NEW u \in Users \cup {NoUser}, ChangeOwner(p, u) PROVE TypeInv'
  BY <1>4 DEF ChangeOwner
<1>5. ASSUME NEW u \in Users, NEW a \in {"active", "inactive"}, SetAccount(u, a)
      PROVE  TypeInv'
  BY <1>5 DEF SetAccount, peerVars
<1>6. ASSUME NEW u \in Users, DeleteUser(u) PROVE TypeInv'
  BY <1>6 DEF DeleteUser, Sessions, RowStatus, NoUser
<1>7. ASSUME NEW p \in Peers, NEW e \in Keys, CreateKey(p, e) PROVE TypeInv'
  BY <1>7 DEF CreateKey, Keys, Forever
<1> QED BY <1>1, <1>2, <1>3, <1>4, <1>5, <1>6, <1>7 DEF Records

\* The type invariant, with its login clause, is inductive.
LEMMA NextTyped == TypeInv /\ [Next]_vars => TypeInv'
<1> SUFFICES ASSUME TypeInv, [Next]_vars PROVE TypeInv'
  OBVIOUS
<1>1. CASE Tick
  BY <1>1 DEF Tick, TypeInv, TypeOK, LoginsCarryAStamp, peerVars
<1>2. CASE UNCHANGED vars
  BY <1>2 DEF vars, TypeInv, TypeOK, LoginsCarryAStamp
<1> QED BY <1>1, <1>2, RecordsTyped, BeginTyped, MiddleTyped, CommitTyped DEF Next

\* Every column and every pending write stays in range, only server peers hold
\* keys and only user peers hold sessions, however the requests overlap.
THEOREM TypeCorrect == Spec => []TypeOK
<1>1. Spec => []TypeInv
  BY InitTyped, NextTyped, PTL DEF Spec
<1>2. TypeInv => TypeOK
  BY DEF TypeInv
<1> QED BY <1>1, <1>2, PTL

-----------------------------------------------------------------------------
(* Nobody is active who did not authenticate                               *)

\* A transaction other than a login makes no user peer active.
LEMMA OthersGrantNothing ==
    ASSUME TypeInv, ActiveUserHasAuthenticated,
           NEW r \in Requests, req[r].op # "login", WriteState(r), lastAuth' = lastAuth
    PROVE  ActiveUserHasAuthenticated'
<1>1. \A p \in UserPeers : state'[p] = "active" => state[p] = "active"
  BY WriteTyped DEF TypeInv, LoginsCarryAStamp, StampedLogin, Peers
<1> QED BY <1>1 DEF ActiveUserHasAuthenticated

\* No step of any handler makes a user peer active without a recorded login.
LEMMA NextAuthenticated ==
    TypeInv /\ ActiveUserHasAuthenticated /\ [Next]_vars => ActiveUserHasAuthenticated'
<1> SUFFICES ASSUME TypeInv, ActiveUserHasAuthenticated, [Next]_vars
             PROVE  ActiveUserHasAuthenticated'
  OBVIOUS
<1>1. ASSUME UNCHANGED <<state, lastAuth>> PROVE ActiveUserHasAuthenticated'
  BY <1>1 DEF ActiveUserHasAuthenticated
<1>2. CASE Tick \/ UNCHANGED vars
  BY <1>1, <1>2 DEF Tick, vars, peerVars
<1>3. CASE Records
  <2>1. ASSUME NEW p \in Peers, CreatePeer(p) PROVE ActiveUserHasAuthenticated'
    BY <2>1 DEF CreatePeer, ActiveUserHasAuthenticated, TypeInv, TypeOK
  <2>2. ASSUME NEW p \in Peers, DeletePeer(p) PROVE ActiveUserHasAuthenticated'
    BY <2>2 DEF DeletePeer, ActiveUserHasAuthenticated, TypeInv, TypeOK, Peers
  <2> QED BY <1>1, <1>3, <2>1, <2>2
      DEF Records, ChangeGroups, ChangeOwner, SetAccount, DeleteUser, CreateKey, peerVars
<1>4. ASSUME NEW r \in Requests, Begin(r) \/ Snapshot(r) \/ Acquire(r) \/ SweepRows(r) \/ Abort(r)
      PROVE  ActiveUserHasAuthenticated'
  BY <1>1, <1>4 DEF Begin, BeginLogin, BeginLogout, BeginEnroll, BeginUpdate, BeginRevokeKey,
     BeginKillSwitch, BeginSweep, Snapshot, Acquire, SweepRows, Abort, peerVars
<1>5. ASSUME NEW r \in Requests, CommitLogin(r) PROVE ActiveUserHasAuthenticated'
  <2>1. PICK p \in UserPeers : req[r].on = {p} /\ req[r].at # Never
    BY <1>5 DEF CommitLogin, TypeInv, LoginsCarryAStamp, StampedLogin
  <2>2. lastAuth' = [lastAuth EXCEPT ![p] = req[r].at]
    BY <1>5, <2>1 DEF CommitLogin
  <2>3. \A q \in UserPeers : state'[q] = "active" => state[q] = "active" \/ q = p
    BY <1>5, <2>1, WriteTyped DEF CommitLogin, TypeInv, LoginsCarryAStamp, StampedLogin, Peers
  <2> QED BY <2>1, <2>2, <2>3 DEF ActiveUserHasAuthenticated, TypeInv, TypeOK, Peers
<1>6. ASSUME NEW r \in Requests,
             CommitLogout(r) \/ CommitEnroll(r) \/ CommitUpdate(r) \/ CommitRevokeKey(r)
                \/ CommitKillSwitch(r) \/ CommitSweep(r)
      PROVE  ActiveUserHasAuthenticated'
  BY <1>6, OthersGrantNothing
  DEF CommitLogout, CommitEnroll, CommitUpdate, CommitRevokeKey, CommitKillSwitch, CommitSweep
<1> QED BY <1>2, <1>3, <1>4, <1>5, <1>6 DEF Next, Commit

\* However requests overlap, whatever is lost or rolled back: a user peer that is
\* active has a recorded authentication, so that the sweep has a deadline for it.
THEOREM OnlyAuthenticatedUsersAreActive == Spec => []ActiveUserHasAuthenticated
<1>1. Init => ActiveUserHasAuthenticated
  BY DEF Init, ActiveUserHasAuthenticated, Peers
<1>2. Spec => []TypeInv
  BY InitTyped, NextTyped, PTL DEF Spec
<1> QED BY <1>1, <1>2, NextAuthenticated, PTL DEF Spec

-----------------------------------------------------------------------------
(* Closed rows                                                             *)

\* No step of any handler reopens a closed session row.
LEMMA RowsOnlyClose ==
    ASSUME TypeInv, [Next]_vars, NEW s \in Sids, row[s].status \in Closed
    PROVE  row'[s].status \in Closed
<1> USE DEF Closed
<1>1. CASE row' = row
  BY <1>1
<1>2. ASSUME NEW r \in Requests, row' = CloseRows(r) PROVE row'[s].status \in Closed
  BY <1>2, ClosedRows
<1>3. ASSUME NEW r \in Requests, CommitLogin(r) PROVE row'[s].status \in Closed
  <2>1. PICK t \in Sids : row[t].status = "free" /\ \E x : row' = [CloseRows(r) EXCEPT ![t] = x]
    BY <1>3 DEF CommitLogin
  <2> QED BY <2>1, ClosedRows DEF TypeInv, TypeOK
<1>4. ASSUME NEW p \in Peers, DeletePeer(p) PROVE row'[s].status \in Closed
  BY <1>4 DEF DeletePeer, TypeInv, TypeOK, Sessions
<1>5. ASSUME NEW u \in Users, DeleteUser(u) PROVE row'[s].status \in Closed
  BY <1>5 DEF DeleteUser, TypeInv, TypeOK, Sessions
<1>6. CASE Records
  BY <1>1, <1>4, <1>5, <1>6 DEF Records, CreatePeer, ChangeGroups, ChangeOwner, SetAccount, CreateKey
<1>7. ASSUME NEW r \in Requests, Begin(r) \/ Snapshot(r) \/ Acquire(r) \/ SweepRows(r) \/ Abort(r)
      PROVE  row' = row
  BY <1>7 DEF Begin, BeginLogin, BeginLogout, BeginEnroll, BeginUpdate, BeginRevokeKey,
     BeginKillSwitch, BeginSweep, Snapshot, Acquire, SweepRows, Abort
<1>8. ASSUME NEW r \in Requests, Commit(r) PROVE row'[s].status \in Closed
  BY <1>1, <1>2, <1>3, <1>8
  DEF Commit, CommitLogout, CommitEnroll, CommitUpdate, CommitRevokeKey, CommitKillSwitch, CommitSweep
<1> QED BY <1>1, <1>6, <1>7, <1>8 DEF Next, Tick, vars

\* However requests overlap, a session row that was closed never reopens: a late
\* sweep, logout or login only ever closes rows and opens fresh ones.
THEOREM ClosedForGood == Spec => ClosedRowsStayClosed
<1>1. TypeInv /\ [Next]_vars =>
        [\A s \in Sids : row[s].status \in Closed => row'[s].status \in Closed]_vars
  BY RowsOnlyClose
<1>2. Spec => []TypeInv
  BY InitTyped, NextTyped, PTL DEF Spec
<1> QED BY <1>1, <1>2, PTL DEF Spec, ClosedRowsStayClosed

-----------------------------------------------------------------------------
(* Requests that do not overlap                                            *)

\* When requests do not overlap, at most one transaction is open.
LEMMA OneAtATime ==
    ASSUME TypeInv, AtMostOneOpen, [Next]_vars
    PROVE  AtMostOneOpen'
<1> SUFFICES ASSUME Serial PROVE AtMostOneOpen'
  BY DEF AtMostOneOpen
<1>1. CASE req' = req
  BY <1>1 DEF AtMostOneOpen, InFlight
<1>2. ASSUME NEW r \in Requests, InFlight = {}, NEW t, req' = [req EXCEPT ![r] = t]
      PROVE  AtMostOneOpen'
  BY <1>2 DEF AtMostOneOpen, InFlight, TypeInv, TypeOK
<1>3. ASSUME NEW r \in Requests, r \in InFlight, NEW t, req' = [req EXCEPT ![r] = t]
      PROVE  AtMostOneOpen'
  BY <1>3 DEF AtMostOneOpen, InFlight, TypeInv, TypeOK
<1>4. ASSUME NEW r \in Requests, Begin(r) PROVE AtMostOneOpen'
  <2>1. InFlight = {}
    BY <1>4 DEF Begin, BeginLogin, BeginLogout, BeginEnroll, BeginUpdate, BeginRevokeKey,
       BeginKillSwitch, BeginSweep, MayStart, MayRun
  <2>2. \E t : req' = [req EXCEPT ![r] = t]
    BY <1>4 DEF Begin, BeginLogin, BeginLogout, BeginEnroll, BeginUpdate, BeginRevokeKey,
       BeginKillSwitch, BeginSweep
  <2> QED BY <2>1, <2>2, <1>2
<1>5. ASSUME NEW r \in Requests, Commit(r) \/ Abort(r) PROVE AtMostOneOpen'
  <2>1. Finish(r) /\ r \in InFlight
    BY <1>5 DEF Commit, CommitLogin, CommitLogout, CommitEnroll, CommitUpdate, CommitRevokeKey,
       CommitKillSwitch, CommitSweep, Abort, InFlight
  <2> QED BY <2>1, <1>3 DEF Finish
<1>6. ASSUME NEW r \in Requests, Snapshot(r) \/ Acquire(r) \/ SweepRows(r) PROVE AtMostOneOpen'
  <2>1. r \in InFlight /\ \A q \in Requests \ {r} : req'[q] = req[q]
    BY <1>6 DEF Snapshot, Acquire, SweepRows, InFlight, TypeInv, TypeOK
  <2> QED BY <2>1 DEF AtMostOneOpen, InFlight
<1> QED BY <1>1, <1>4, <1>5, <1>6
    DEF Next, Tick, Records, CreatePeer, DeletePeer, ChangeGroups, ChangeOwner, SetAccount,
        DeleteUser, CreateKey, vars

\* A request reads its rows and decides on them in one step.
LEMMA FreshReads ==
    ASSUME TypeInv, NEW r \in Requests, Begin(r)
    PROVE  \E t : /\ req' = [req EXCEPT ![r] = t]
                  /\ t.phase = "loaded"
                  /\ CurrentReads(t)
<1> USE DEF CurrentReads, Keep
<1>0. /\ \A p, q \in Peers, s \in States :
            Dirty(p, s)[q] = "keep" \/ (p = q /\ Dirty(p, s)[q] = s)
      /\ \A q \in Peers : NoWrite[q] = "keep"
  BY DEF Dirty, NoWrite
<1>1. ASSUME NEW p \in Peers, BeginLogin(r, p)
      PROVE  \E t : req' = [req EXCEPT ![r] = t] /\ t.phase = "loaded" /\ CurrentReads(t)
  <2> DEFINE t == [Idle EXCEPT
                    !.phase = "loaded", !.op = "login", !.on = {p}, !.user = owner[p],
                    !.write = Dirty(p, "active"), !.life = lifetime[p]]
  <2>1. state[p] # "revoked"
    BY <1>1 DEF BeginLogin, Allowed, SelfServiceTransitions, Confined, States
  <2>2. t.phase = "loaded" /\ CurrentReads(t)
    BY <1>0, <2>1 DEF Idle, States
  <2> QED BY <1>1, <2>2 DEF BeginLogin
<1>2. ASSUME NEW p \in Peers, BeginLogout(r, p)
      PROVE  \E t : req' = [req EXCEPT ![r] = t] /\ t.phase = "loaded" /\ CurrentReads(t)
  <2> DEFINE t == [Idle EXCEPT !.phase = "loaded", !.op = "logout", !.on = {p},
                    !.write = IF state[p] = "active" THEN Dirty(p, "quarantined") ELSE NoWrite]
  <2>1. t.phase = "loaded" /\ CurrentReads(t)
    BY <1>0 DEF Idle, States
  <2> QED BY <1>2, <2>1 DEF BeginLogout
<1>3. ASSUME NEW p \in Peers, BeginEnroll(r, p)
      PROVE  \E t : req' = [req EXCEPT ![r] = t] /\ t.phase = "loaded" /\ CurrentReads(t)
  <2> DEFINE t == [Idle EXCEPT !.phase = "loaded", !.op = "enroll", !.on = {p},
                    !.write = Dirty(p, "active")]
  <2>1. state[p] # "revoked"
    BY <1>3 DEF BeginEnroll, Allowed, SelfServiceTransitions, Confined, States
  <2>2. t.phase = "loaded" /\ CurrentReads(t)
    BY <1>0, <2>1 DEF Idle, States
  <2> QED BY <1>3, <2>2 DEF BeginEnroll
<1>4. ASSUME NEW p \in Peers, NEW s \in States, BeginUpdate(r, p, s)
      PROVE  \E t : req' = [req EXCEPT ![r] = t] /\ t.phase = "loaded" /\ CurrentReads(t)
  <2> DEFINE t == [Idle EXCEPT !.phase = "loaded", !.op = "update",
                    !.on = IF state[p] = "active" THEN {p} ELSE {}, !.write = Dirty(p, s)]
  <2>1. state[p] # "revoked"
    BY <1>4 DEF BeginUpdate, Allowed, AdminTransitions, States
  <2>2. t.phase = "loaded" /\ CurrentReads(t)
    BY <1>0, <2>1 DEF Idle
  <2> QED BY <1>4, <2>2 DEF BeginUpdate
<1>5. ASSUME NEW p \in Peers, NEW q \in BOOLEAN, BeginRevokeKey(r, p, q)
      PROVE  \E t : req' = [req EXCEPT ![r] = t] /\ t.phase = "loaded" /\ CurrentReads(t)
  <2> DEFINE w == IF q /\ state[p] # "revoked" THEN Dirty(p, "quarantined") ELSE NoWrite
             t == [Idle EXCEPT !.phase = "loaded", !.op = "revoke_key", !.on = {p},
                               !.clear = key[p] # NoKey, !.write = w]
  <2>1. \A x \in Peers : state[x] = "revoked" => w[x] = "keep"
    BY <1>0 DEF States
  <2>2. t.phase = "loaded" /\ t.op = "revoke_key" /\ t.write = w
    <3> HIDE DEF w
    <3> QED BY DEF Idle
  <2>3. CurrentReads(t)
    BY <2>1, <2>2
  <2> QED BY <1>5, <2>2, <2>3 DEF BeginRevokeKey
<1>6. ASSUME NEW m \in Modes, BeginKillSwitch(r, m)
      PROVE  \E t : req' = [req EXCEPT ![r] = t] /\ t.phase = "loaded" /\ CurrentReads(t)
  <2> DEFINE w == [p \in Peers |-> IF state[p] \in ModeSources[m] /\ state[p] # ModeTarget[m]
                                   THEN ModeTarget[m] ELSE Keep]
             t == [Idle EXCEPT !.phase = "loaded", !.op = "killswitch", !.on = Peers,
                               !.mode = m, !.write = w]
  <2>1. "revoked" \notin ModeSources[m]
    BY DEF Modes, ModeSources, Confined
  <2>2. t.phase = "loaded" /\ CurrentReads(t)
    BY <2>1 DEF Idle
  <2> QED BY <1>6, <2>2 DEF BeginKillSwitch
<1>7. CASE BeginSweep(r)
  <2> DEFINE c == {p \in UserPeers : state[p] = "active"}
             due == [p \in Peers |-> IF p \in c /\ lastAuth[p] # Never
                                     THEN lastAuth[p] + lifetime[p] ELSE Never]
             t == [Idle EXCEPT !.phase = "loaded", !.op = "sweep", !.on = c, !.at = now,
                               !.due = due]
  <2>1. t.phase = "loaded" /\ CurrentReads(t)
    <3> HIDE DEF due
    <3> QED BY <1>0 DEF Idle
  <2> QED BY <1>7, <2>1 DEF BeginSweep
<1> QED BY <1>1, <1>2, <1>3, <1>4, <1>5, <1>6, <1>7 DEF Begin

\* When requests do not overlap, no row changes under an open transaction.
LEMMA StillCurrent ==
    ASSUME TypeInv, AtMostOneOpen, ReadsAreCurrent, [Next]_vars
    PROVE  ReadsAreCurrent'
<1> SUFFICES ASSUME Serial PROVE ReadsAreCurrent'
  BY DEF ReadsAreCurrent
<1>1. CASE UNCHANGED <<state, row, req>>
  BY <1>1 DEF ReadsAreCurrent, InFlight, CurrentReads, LiveOf, Live
<1>2. CASE Records
  <2>1. InFlight = {}
    BY <1>2 DEF Records, MayRun, CreatePeer, DeletePeer, ChangeGroups, ChangeOwner, SetAccount,
       DeleteUser, CreateKey
  <2>2. req' = req
    BY <1>2 DEF Records, CreatePeer, DeletePeer, ChangeGroups, ChangeOwner, SetAccount,
       DeleteUser, CreateKey
  <2> QED BY <2>1, <2>2 DEF ReadsAreCurrent, InFlight
<1>3. ASSUME NEW r \in Requests, Begin(r) PROVE ReadsAreCurrent'
  <2>1. InFlight = {} /\ UNCHANGED <<state, row>>
    BY <1>3 DEF Begin, BeginLogin, BeginLogout, BeginEnroll, BeginUpdate, BeginRevokeKey,
       BeginKillSwitch, BeginSweep, MayStart, MayRun, peerVars
  <2>2. PICK t : req' = [req EXCEPT ![r] = t] /\ CurrentReads(t)
    BY <1>3, FreshReads
  <2>3. \A q \in InFlight' : q = r
    BY <2>1, <2>2 DEF InFlight, TypeInv, TypeOK
  <2>4. CurrentReads(t)'
    BY <2>1, <2>2 DEF CurrentReads, LiveOf, Live
  <2> QED BY <2>2, <2>3, <2>4 DEF ReadsAreCurrent, TypeInv, TypeOK
<1>4. ASSUME NEW r \in Requests, Commit(r) \/ Abort(r) PROVE ReadsAreCurrent'
  <2>1. Finish(r) /\ r \in InFlight
    BY <1>4 DEF Commit, CommitLogin, CommitLogout, CommitEnroll, CommitUpdate, CommitRevokeKey,
       CommitKillSwitch, CommitSweep, Abort, InFlight
  <2>2. InFlight' = {}
    BY <2>1 DEF Finish, Idle, InFlight, AtMostOneOpen, TypeInv, TypeOK
  <2> QED BY <2>2 DEF ReadsAreCurrent
<1>5. ASSUME NEW r \in Requests, Snapshot(r) \/ Acquire(r) \/ SweepRows(r) PROVE ReadsAreCurrent'
  <2>1. /\ r \in InFlight /\ \A q \in Requests \ {r} : req'[q] = req[q]
        /\ UNCHANGED <<state, row>>
    BY <1>5 DEF Snapshot, Acquire, SweepRows, InFlight, TypeInv, TypeOK, peerVars
  <2>2. \A q \in InFlight' : q = r
    BY <2>1 DEF InFlight, AtMostOneOpen
  <2>3. CurrentReads(req[r]) /\ req[r] \in Transactions
    BY <2>1 DEF ReadsAreCurrent, TypeInv, TypeOK
  <2>4. CASE Snapshot(r)
    <3>1. req'[r] = [req[r] EXCEPT !.phase = "updating",
                                   !.revoke = UNION {LiveOf(p) : p \in req[r].on}, !.at = now]
      BY <2>4, <2>3 DEF Snapshot, TypeInv, TypeOK, Transactions
    <3>2. /\ req'[r].op = req[r].op /\ req'[r].on = req[r].on /\ req'[r].write = req[r].write
          /\ req'[r].revoke = UNION {LiveOf(p) : p \in req[r].on}
      BY <3>1, <2>3 DEF Transactions
    <3> QED BY <2>1, <2>2, <2>3, <3>2 DEF ReadsAreCurrent, CurrentReads, LiveOf, Live
  <2>5. CASE Acquire(r)
    <3>1. req'[r] = [req[r] EXCEPT !.phase = "updated",
                                   !.revoke = {s \in req[r].revoke : Live(s)}]
      BY <2>5, <2>3 DEF Acquire, TypeInv, TypeOK, Transactions
    <3>2. /\ req'[r].op = req[r].op /\ req'[r].on = req[r].on /\ req'[r].write = req[r].write
          /\ req'[r].revoke = {s \in req[r].revoke : Live(s)}
          /\ req[r].phase # "loaded"
      BY <3>1, <2>3, <2>5 DEF Transactions, Acquire
    <3> QED BY <2>1, <2>2, <2>3, <3>2 DEF ReadsAreCurrent, CurrentReads, LiveOf, Live
  <2>6. CASE SweepRows(r)
    <3>1. PICK over, x : over \subseteq req[r].on /\
            req' = [req EXCEPT ![r].phase = "updated",
                      ![r].write = [p \in Peers |-> IF p \in over THEN "quarantined" ELSE Keep],
                      ![r].expire = x]
      <4>1. PICK pick \in [req[r].on -> Sids \cup {0}] :
              LET over == {p \in req[r].on : IsOver(Deadline(req[r].due[p], pick[p]), req[r].at)}
              IN req' = [req EXCEPT ![r].phase = "updated",
                           ![r].write = [p \in Peers |-> IF p \in over THEN "quarantined" ELSE Keep],
                           ![r].expire = {pick[p] : p \in over} \ {0}]
        BY <2>6 DEF SweepRows
      <4> DEFINE over == {p \in req[r].on : IsOver(Deadline(req[r].due[p], pick[p]), req[r].at)}
                 x == {pick[p] : p \in over} \ {0}
      <4>2. /\ over \in SUBSET req[r].on
            /\ req' = [req EXCEPT ![r].phase = "updated",
                         ![r].write = [p \in Peers |-> IF p \in over THEN "quarantined" ELSE Keep],
                         ![r].expire = x]
        BY <4>1
      <4> HIDE DEF over, x
      <4> QED BY <4>2
    <3>2. req[r].op = "sweep"
      BY <2>6 DEF SweepRows
    <3>3. /\ req'[r].op = "sweep" /\ req'[r].on = req[r].on
          /\ req'[r].write = [p \in Peers |-> IF p \in over THEN "quarantined" ELSE Keep]
      BY <3>1, <3>2, <2>3 DEF TypeInv, TypeOK, Transactions
    <3>4. \A p \in Peers : state[p] = "revoked" => req'[r].write[p] = Keep
      BY <3>1, <3>2, <3>3, <2>3 DEF CurrentReads
    <3> QED BY <2>1, <2>2, <2>3, <3>2, <3>3, <3>4 DEF ReadsAreCurrent, CurrentReads
  <2> QED BY <1>5, <2>4, <2>5, <2>6
<1> QED BY <1>1, <1>2, <1>3, <1>4, <1>5 DEF Next, Tick, vars, peerVars

SerialInv == TypeInv /\ AtMostOneOpen /\ ReadsAreCurrent

\* What holds at every step of requests that do not overlap.
LEMMA SerialInvariant == Spec => []SerialInv
<1>1. Init => SerialInv
  BY InitTyped DEF Init, SerialInv, AtMostOneOpen, ReadsAreCurrent, InFlight, Idle
<1>2. SerialInv /\ [Next]_vars => SerialInv'
  BY NextTyped, OneAtATime, StillCurrent DEF SerialInv
<1> QED BY <1>1, <1>2, PTL DEF Spec

\* A request that read a revoked peer moves it nowhere.
LEMMA RevokedStays ==
    ASSUME Serial, SerialInv, [Next]_vars, NEW p \in Peers, state[p] = "revoked"
    PROVE  state'[p] \in {"revoked", "deleted"}
<1>1. CASE state' = state
  BY <1>1
<1>2. ASSUME NEW r \in Requests, Commit(r) PROVE state'[p] \in {"revoked", "deleted"}
  <2>1. WriteState(r) /\ r \in InFlight
    BY <1>2 DEF Commit, CommitLogin, CommitLogout, CommitEnroll, CommitUpdate, CommitRevokeKey,
       CommitKillSwitch, CommitSweep, InFlight
  <2> QED BY <2>1 DEF WriteState, SerialInv, ReadsAreCurrent, CurrentReads
<1>3. CASE Records
  BY <1>1, <1>3 DEF Records, CreatePeer, DeletePeer, ChangeGroups, ChangeOwner, SetAccount,
     DeleteUser, CreateKey, SerialInv, TypeInv, TypeOK, peerVars
<1>4. ASSUME NEW r \in Requests, Begin(r) \/ Snapshot(r) \/ Acquire(r) \/ SweepRows(r) \/ Abort(r)
      PROVE  state' = state
  BY <1>4 DEF Begin, BeginLogin, BeginLogout, BeginEnroll, BeginUpdate, BeginRevokeKey,
     BeginKillSwitch, BeginSweep, Snapshot, Acquire, SweepRows, Abort, peerVars
<1> QED BY <1>1, <1>2, <1>3, <1>4 DEF Next, Tick, vars, peerVars

\* As long as requests do not overlap, no handler, kill switch or sweep leaves
\* "revoked": only the deletion of the peer does.  (When they overlap, a login
\* that read the peer before the revocation undoes it.)
THEOREM RevokedIsTerminalWhenSerial ==
    ASSUME Serial PROVE Spec => RevokedIsTerminal
<1>1. SerialInv /\ [Next]_vars =>
        [\A p \in Peers : state[p] = "revoked" => state'[p] \in {"revoked", "deleted"}]_vars
  BY RevokedStays
<1> QED BY <1>1, SerialInvariant, PTL DEF Spec, RevokedIsTerminal

-----------------------------------------------------------------------------
(* One live session                                                        *)

\* Rows that lose their status, or keep it, and stay with their peer.
LEMMA FewerLiveRows ==
    ASSUME OneLiveSession,
           \A s \in Sids : row'[s].status = "active" =>
              row[s].status = "active" /\ row'[s].peer = row[s].peer
    PROVE  OneLiveSession'
BY DEF OneLiveSession, LiveOf, Live

\* A login that closes every live row of its peer opens the only live one.
LEMMA StillOneLive ==
    ASSUME Serial, SerialInv, OneLiveSession, [Next]_vars
    PROVE  OneLiveSession'
<1> USE DEF SerialInv
<1>1. CASE row' = row
  BY <1>1, FewerLiveRows
<1>2. ASSUME NEW r \in Requests, row' = CloseRows(r) PROVE OneLiveSession'
  BY <1>2, ClosedRows, FewerLiveRows
<1>3. ASSUME NEW r \in Requests, CommitLogin(r) PROVE OneLiveSession'
  <2>1. PICK p \in UserPeers : req[r].on = {p}
    BY <1>3 DEF CommitLogin, TypeInv, LoginsCarryAStamp, StampedLogin
  <2>2. LiveOf(p) \subseteq req[r].revoke
    BY <1>3, <2>1 DEF CommitLogin, ReadsAreCurrent, CurrentReads, InFlight
  <2>3. PICK t, x : t \in Sids /\ x.peer = p /\ row' = [CloseRows(r) EXCEPT ![t] = x]
    BY <1>3, <2>1 DEF CommitLogin
  <2>4. \A s \in Sids \ {t} : row'[s].status = "active" =>
          /\ row[s].status = "active" /\ row'[s].peer = row[s].peer
          /\ row'[s].peer # p
    BY <2>2, <2>3, ClosedRows DEF LiveOf, Live
  <2>5. row'[t].peer = p
    BY <2>3, ClosedRows
  <2> QED BY <2>4, <2>5 DEF OneLiveSession, LiveOf, Live
<1>4. ASSUME NEW p \in Peers, DeletePeer(p) PROVE OneLiveSession'
  BY <1>4, FewerLiveRows DEF DeletePeer, TypeInv, TypeOK, Sessions
<1>5. ASSUME NEW u \in Users, DeleteUser(u) PROVE OneLiveSession'
  BY <1>5, FewerLiveRows DEF DeleteUser, TypeInv, TypeOK, Sessions
<1>6. CASE Records
  BY <1>1, <1>4, <1>5, <1>6 DEF Records, CreatePeer, ChangeGroups, ChangeOwner, SetAccount, CreateKey
<1>7. ASSUME NEW r \in Requests, Begin(r) \/ Snapshot(r) \/ Acquire(r) \/ SweepRows(r) \/ Abort(r)
      PROVE  row' = row
  BY <1>7 DEF Begin, BeginLogin, BeginLogout, BeginEnroll, BeginUpdate, BeginRevokeKey,
     BeginKillSwitch, BeginSweep, Snapshot, Acquire, SweepRows, Abort
<1>8. ASSUME NEW r \in Requests, Commit(r) PROVE OneLiveSession'
  BY <1>1, <1>2, <1>3, <1>8
  DEF Commit, CommitLogout, CommitEnroll, CommitUpdate, CommitRevokeKey, CommitKillSwitch, CommitSweep
<1> QED BY <1>1, <1>6, <1>7, <1>8 DEF Next, Tick, vars

\* As long as requests do not overlap, authenticating again replaces the live
\* session of the peer and never adds a second one.
THEOREM OneLiveSessionWhenSerial ==
    ASSUME Serial PROVE Spec => []OneLiveSession
<1>1. Init => OneLiveSession
  BY DEF Init, OneLiveSession, LiveOf, Live, FreeRow
<1>2. SerialInv /\ OneLiveSession /\ [Next]_vars => OneLiveSession'
  BY StillOneLive
<1> QED BY <1>1, <1>2, SerialInvariant, PTL DEF Spec
=============================================================================
