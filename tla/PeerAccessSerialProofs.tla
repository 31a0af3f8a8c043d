----------------------- MODULE PeerAccessSerialProofs -----------------------
(***************************************************************************)
(* Theorems about PeerAccess when requests do not overlap, for every fleet *)
(* and every set of accounts: the kill switch and the sweep do all they    *)
(* are for, and the transactions implement PeerLifecycle.                  *)
(***************************************************************************)
EXTENDS PeerAccessProofs, PeerAccessLifecycle

\* What the request of one handler decides is what its operation means for the
\* rows it has just read.
LEMMA FreshMeaning ==
    ASSUME TypeInv, NEW r \in Requests, Begin(r)
    PROVE  \E t : req' = [req EXCEPT ![r] = t] /\ Means(t)
<1> USE DEF Means, MeansToClose
<1>0. \A op : MayStart(r, op) => op \in Operations
  BY DEF MayStart, MayRun
<1>1. ASSUME NEW p \in Peers, BeginLogin(r, p)
      PROVE  \E t : req' = [req EXCEPT ![r] = t] /\ Means(t)
  <2>0. "login" \in Operations
    BY <1>0, <1>1 DEF BeginLogin
  <2> DEFINE t == [Idle EXCEPT
                    !.phase = "loaded", !.op = "login", !.on = {p}, !.user = owner[p],
                    !.write = Dirty(p, "active"), !.life = lifetime[p]]
  <2>1. p \in UserPeers /\ state[p] \in Confined \cup {"active"}
    BY <1>1 DEF BeginLogin, Allowed, SelfServiceTransitions, Confined, States, Registered
  <2>2. /\ t.phase = "loaded" /\ t.op = "login" /\ t.on = {p} /\ t.write = Dirty(p, "active")
        /\ t.revoke = {} /\ t.expire = {}
    BY DEF Idle
  <2> HIDE DEF t
  <2>3. Means(t)
    BY <2>0, <2>1, <2>2 DEF MeansLogin
  <2> QED BY <1>1, <2>3 DEF BeginLogin, t
<1>2. ASSUME NEW p \in Peers, BeginLogout(r, p)
      PROVE  \E t : req' = [req EXCEPT ![r] = t] /\ Means(t)
  <2>0. "logout" \in Operations
    BY <1>0, <1>2 DEF BeginLogout
  <2> DEFINE w == IF state[p] = "active" THEN Dirty(p, "quarantined") ELSE NoWrite
             t == [Idle EXCEPT !.phase = "loaded", !.op = "logout", !.on = {p}, !.write = w]
  <2>1. p \in UserPeers /\ Registered(p)
    BY <1>2 DEF BeginLogout
  <2>2. /\ t.phase = "loaded" /\ t.op = "logout" /\ t.on = {p} /\ t.write = w
        /\ t.revoke = {} /\ t.expire = {}
    BY DEF Idle
  <2> HIDE DEF t
  <2>3. Means(t)
    BY <2>0, <2>1, <2>2 DEF MeansLogout
  <2>4. req' = [req EXCEPT ![r] = t]
    BY <1>2 DEF BeginLogout, t
  <2> QED BY <2>3, <2>4
<1>3. ASSUME NEW p \in Peers, BeginEnroll(r, p)
      PROVE  \E t : req' = [req EXCEPT ![r] = t] /\ Means(t)
  <2>0. "enroll" \in Operations
    BY <1>0, <1>3 DEF BeginEnroll
  <2> DEFINE t == [Idle EXCEPT !.phase = "loaded", !.op = "enroll", !.on = {p},
                               !.write = Dirty(p, "active")]
  <2>1. p \in ServerPeers /\ key[p] # NoKey /\ state[p] \in Confined \cup {"active"}
    BY <1>3 DEF BeginEnroll, Allowed, SelfServiceTransitions, Confined, States, Registered
  <2>2. /\ t.phase = "loaded" /\ t.op = "enroll" /\ t.on = {p} /\ t.write = Dirty(p, "active")
        /\ t.revoke = {} /\ t.expire = {}
    BY DEF Idle
  <2> HIDE DEF t
  <2>3. Means(t)
    BY <2>0, <2>1, <2>2 DEF MeansEnroll
  <2> QED BY <1>3, <2>3 DEF BeginEnroll, t
<1>4. ASSUME NEW p \in Peers, NEW s \in States, BeginUpdate(r, p, s)
      PROVE  \E t : req' = [req EXCEPT ![r] = t] /\ Means(t)
  <2>0. "update" \in Operations
    BY <1>0, <1>4 DEF BeginUpdate
  <2> DEFINE on == IF state[p] = "active" THEN {p} ELSE {}
             t == [Idle EXCEPT !.phase = "loaded", !.op = "update", !.on = on,
                               !.write = Dirty(p, s)]
  <2>1. state[p] \in States \ {"revoked", s} /\ MayForce(p, s)
    BY <1>4 DEF BeginUpdate, Allowed, AdminTransitions, States, Registered
  <2>2. /\ t.phase = "loaded" /\ t.op = "update" /\ t.on = on /\ t.write = Dirty(p, s)
        /\ t.revoke = {} /\ t.expire = {}
    BY DEF Idle
  <2> HIDE DEF t
  <2>3. Means(t)
    BY <2>0, <2>1, <2>2 DEF MeansUpdate
  <2> QED BY <1>4, <2>3 DEF BeginUpdate, t
<1>5. ASSUME NEW p \in Peers, NEW q \in BOOLEAN, BeginRevokeKey(r, p, q)
      PROVE  \E t : req' = [req EXCEPT ![r] = t] /\ Means(t)
  <2>0. "revoke_key" \in Operations
    BY <1>0, <1>5 DEF BeginRevokeKey
  <2> DEFINE w == IF q /\ state[p] # "revoked" THEN Dirty(p, "quarantined") ELSE NoWrite
             t == [Idle EXCEPT !.phase = "loaded", !.op = "revoke_key", !.on = {p},
                               !.clear = key[p] # NoKey, !.write = w]
  <2>1. t.phase = "loaded" /\ t.op = "revoke_key" /\ t.revoke = {} /\ t.expire = {}
    BY DEF Idle
  <2> HIDE DEF t
  <2>2. Means(t)
    BY <2>0, <2>1
  <2> QED BY <1>5, <2>2 DEF BeginRevokeKey, t
<1>6. ASSUME NEW m \in Modes, BeginKillSwitch(r, m)
      PROVE  \E t : req' = [req EXCEPT ![r] = t] /\ Means(t)
  <2>0. "killswitch" \in Operations
    BY <1>0, <1>6 DEF BeginKillSwitch
  <2> DEFINE w == [p \in Peers |-> IF state[p] \in ModeSources[m] /\ state[p] # ModeTarget[m]
                                   THEN ModeTarget[m] ELSE Keep]
             t == [Idle EXCEPT !.phase = "loaded", !.op = "killswitch", !.on = Peers,
                               !.mode = m, !.write = w]
  <2>1. /\ t.phase = "loaded" /\ t.op = "killswitch" /\ t.on = Peers /\ t.write = w
        /\ t.mode = m
        /\ t.revoke = {} /\ t.expire = {}
    BY DEF Idle
  <2> HIDE DEF t
  <2>2. Means(t)
    BY <2>0, <2>1 DEF MeansKillSwitch
  <2> QED BY <1>6, <2>2 DEF BeginKillSwitch, t
<1>7. CASE BeginSweep(r)
  <2>0. "sweep" \in Operations
    BY <1>0, <1>7 DEF BeginSweep
  <2> DEFINE c == {p \in UserPeers : state[p] = "active"}
             due == [p \in Peers |-> IF p \in c /\ lastAuth[p] # Never
                                     THEN lastAuth[p] + lifetime[p] ELSE Never]
             t == [Idle EXCEPT !.phase = "loaded", !.op = "sweep", !.on = c, !.at = now,
                               !.due = due]
  <2>1. /\ t.phase = "loaded" /\ t.op = "sweep" /\ t.on = c /\ t.write = NoWrite
        /\ t.revoke = {} /\ t.expire = {} /\ t.due = due
    BY DEF Idle
  <2>2. \A p \in c : due[p] = IF lastAuth[p] # Never THEN lastAuth[p] + lifetime[p] ELSE Never
    BY DEF Peers
  <2> HIDE DEF t, due
  <2>3. Means(t)
    BY <2>0, <2>1, <2>2 DEF MeansSweep
  <2> QED BY <1>7, <2>3 DEF BeginSweep, t, due
<1> QED BY <1>1, <1>2, <1>3, <1>4, <1>5, <1>6, <1>7 DEF Begin

\* Nothing a request means changes while the rows it is about do not.
LEMMA SteadyMeaning ==
    ASSUME NEW t, Means(t), UNCHANGED <<peerVars, row>>
    PROVE  Means(t)'
<1>1. /\ UNCHANGED <<state, lastAuth, lifetime, key, row>>
      /\ \A p \in Peers : LiveOf(p)' = LiveOf(p)
      /\ \A p \in Peers, s \in States : Dirty(p, s)' = Dirty(p, s)
  BY DEF peerVars, LiveOf, Live, Dirty
<1>2. MeansToClose(t) => MeansToClose(t)'
  BY <1>1 DEF MeansToClose, LiveOf, Live
<1>3. /\ MeansLogin(t) => MeansLogin(t)'
      /\ MeansEnroll(t) => MeansEnroll(t)'
  BY <1>1 DEF MeansLogin, MeansEnroll, Peers, States
<1>4. MeansLogout(t) => MeansLogout(t)'
  BY <1>1 DEF MeansLogout, Registered, Peers, States
<1>5. MeansUpdate(t) => MeansUpdate(t)'
  BY <1>1 DEF MeansUpdate, MayForce
<1>6. MeansKillSwitch(t) => MeansKillSwitch(t)'
  BY <1>1 DEF MeansKillSwitch
<1>7. MeansSweep(t) => MeansSweep(t)'
  BY <1>1 DEF MeansSweep, TimeLeft, LiveOf, Live
<1> QED BY <1>2, <1>3, <1>4, <1>5, <1>6, <1>7 DEF Means

\* The snapshot of a bulk UPDATE, and the row locks it waits for, keep to the
\* live rows of the peers the request is about.
LEMMA UpdatingMeaning ==
    ASSUME TypeInv, NEW r \in Requests, Means(req[r]), Snapshot(r) \/ Acquire(r)
    PROVE  \E t : req' = [req EXCEPT ![r] = t] /\ Means(t)
<1> DEFINE u == req[r]
<1>0. u \in Transactions /\ Means(u)
  BY DEF TypeInv, TypeOK
<1>1. ASSUME NEW t, t.op = u.op, t.on = u.on, t.write = u.write, t.expire = u.expire,
             t.mode = u.mode,
             t.phase # "loaded", u.op = "sweep" => u.phase # "loaded" /\ t.at = u.at,
             t.revoke = IF t.op = "sweep" THEN {} ELSE UNION {LiveOf(p) : p \in t.on}
      PROVE  Means(t)
  <2> HIDE DEF u
  <2>0. t.op \in Operations
    BY <1>0, <1>1 DEF Means
  <2>1. MeansToClose(t)
    BY <1>0, <1>1 DEF Means, MeansToClose
  <2>2. /\ t.op = "login" => MeansLogin(t)
        /\ t.op = "logout" => MeansLogout(t)
        /\ t.op = "enroll" => MeansEnroll(t)
        /\ t.op = "update" => MeansUpdate(t)
    BY <1>0, <1>1 DEF Means, MeansLogin, MeansLogout, MeansEnroll, MeansUpdate
  <2>4. ASSUME t.op = "killswitch"
        PROVE  MeansKillSwitch(t)
    <3>1. MeansKillSwitch(u)
      BY <1>0, <1>1, <2>4 DEF Means
    <3>2. t.on = u.on /\ t.mode = u.mode /\ t.write = u.write
      BY <1>1
    <3> QED BY ONLY <3>1, <3>2 DEF MeansKillSwitch
  <2>3. t.op = "sweep" => MeansSweep(t)
    BY <1>0, <1>1 DEF Means, MeansSweep
  <2> QED BY <2>0, <2>1, <2>2, <2>3, <2>4 DEF Means
<1>2. CASE Snapshot(r)
  <2> DEFINE rev == UNION {LiveOf(p) : p \in u.on}
             t == [u EXCEPT !.phase = "updating", !.revoke = rev, !.at = now]
  <2>1. req' = [req EXCEPT ![r] = t]
    BY <1>2, <1>0 DEF Snapshot, TypeInv, TypeOK, Transactions
  <2>2. u.op # "sweep"
    BY <1>2 DEF Snapshot
  <2> HIDE DEF u
  <2>3. /\ t.op = u.op /\ t.on = u.on /\ t.write = u.write /\ t.expire = u.expire
        /\ t.mode = u.mode
        /\ t.phase # "loaded" /\ t.revoke = UNION {LiveOf(p) : p \in t.on}
    BY <1>0 DEF Transactions
  <2> HIDE DEF t
  <2> QED BY <1>1, <2>1, <2>2, <2>3
<1>3. CASE Acquire(r)
  <2> DEFINE rev == {s \in u.revoke : Live(s)}
             t == [u EXCEPT !.phase = "updated", !.revoke = rev]
  <2>1. req' = [req EXCEPT ![r] = t]
    BY <1>3, <1>0 DEF Acquire, TypeInv, TypeOK, Transactions
  <2>2. u.phase # "loaded"
    BY <1>3 DEF Acquire
  <2> HIDE DEF u
  <2>3. rev = IF u.op = "sweep" THEN {} ELSE UNION {LiveOf(p) : p \in u.on}
    BY <1>0, <2>2 DEF Means, MeansToClose, LiveOf
  <2>4. /\ t.op = u.op /\ t.on = u.on /\ t.write = u.write /\ t.expire = u.expire
        /\ t.mode = u.mode
        /\ t.phase # "loaded" /\ t.revoke = rev /\ t.at = u.at
    BY <1>0 DEF Transactions
  <2> HIDE DEF t, rev
  <2> QED BY <1>1, <2>1, <2>2, <2>3, <2>4
<1> QED BY <1>2, <1>3

\* The sweep decides on each of its candidates: it closes the one live row of
\* those whose time is over, and the others have time left.
LEMMA SweepMeaning ==
    ASSUME TypeInv, OneLiveSession, NEW r \in Requests, Means(req[r]), SweepRows(r)
    PROVE  \E t : req' = [req EXCEPT ![r] = t] /\ Means(t)
<1> DEFINE u == req[r]
<1>0. /\ u \in Transactions /\ u.phase = "loaded" /\ u.op = "sweep"
      /\ Means(u) /\ MeansSweep(u)
  BY DEF TypeInv, TypeOK, SweepRows, Means
<1>1. PICK pick \in [u.on -> Sids \cup {0}] :
         /\ \A p \in u.on : IF LiveOf(p) = {} THEN pick[p] = 0 ELSE pick[p] \in LatestLive(p)
         /\ LET over == {p \in u.on : IsOver(Deadline(u.due[p], pick[p]), u.at)}
            IN req' = [req EXCEPT ![r].phase = "updated",
                         ![r].write = [p \in Peers |-> IF p \in over THEN "quarantined" ELSE Keep],
                         ![r].expire = {pick[p] : p \in over} \ {0}]
  BY DEF SweepRows
<1> DEFINE over == {p \in u.on : IsOver(Deadline(u.due[p], pick[p]), u.at)}
           w == [p \in Peers |-> IF p \in over THEN "quarantined" ELSE Keep]
           x == {pick[p] : p \in over} \ {0}
           t == [u EXCEPT !.phase = "updated", !.write = w, !.expire = x]
<1>2. req' = [req EXCEPT ![r] = t]
  <2>1. req' = [req EXCEPT ![r].phase = "updated", ![r].write = w, ![r].expire = x]
    BY <1>1
  <2> HIDE DEF w, x
  <2> QED BY <2>1, <1>0 DEF TypeInv, TypeOK, Transactions
<1>3. u.on \subseteq UserPeers /\ u.on \subseteq Peers /\ u.at \in Nat
  BY <1>0 DEF MeansSweep, Transactions
<1> HIDE DEF u
<1>4. \A p \in u.on : LiveOf(p) = {pick[p]} \ {0} /\ 0 \notin Sids
  <2>1. 0 \notin Sids /\ \A p \in u.on : LatestLive(p) \subseteq LiveOf(p) /\ LiveOf(p) \subseteq Sids
    BY ConstantsAssumption DEF Sids, LatestLive, LiveOf
  <2>2. ASSUME NEW p \in u.on PROVE LiveOf(p) = {pick[p]} \ {0}
    <3>1. CASE LiveOf(p) = {}
      BY <1>1, <3>1
    <3>2. CASE LiveOf(p) # {}
      <4>1. pick[p] \in LiveOf(p) /\ pick[p] # 0
        BY <1>1, <2>1, <3>2
      <4> QED BY <1>3, <4>1 DEF OneLiveSession
    <3> QED BY <3>1, <3>2
  <2> QED BY <2>1, <2>2
<1>5. x = UNION {LiveOf(p) : p \in over}
  <2> HIDE DEF over
  <2>1. over \subseteq u.on
    BY DEF over
  <2> QED BY <1>4, <2>1
<1>6. ASSUME NEW p \in u.on \ over PROVE TimeLeft(p, u.at)
  <2>1. ~IsOver(Deadline(u.due[p], pick[p]), u.at)
    BY <1>6
  <2>2. /\ u.due[p] = IF lastAuth[p] # Never THEN lastAuth[p] + lifetime[p] ELSE Never
        /\ lastAuth[p] \in Nat /\ lifetime[p] \in Nat
    BY <1>0, <1>3, ConstantsAssumption DEF MeansSweep, TypeInv, TypeOK
  <2>3. \A s \in LiveOf(p) : s = pick[p] /\ s # 0 /\ row[s].exp \in Nat
    BY <1>4 DEF LiveOf, TypeInv, TypeOK, Sessions
  <2>4. u.due[p] > u.at /\ \A s \in LiveOf(p) : row[s].exp > u.at
    BY <1>3, <1>4, <2>1, <2>2, <2>3 DEF IsOver, Deadline, Never
  <2> QED BY <1>3, <2>2, <2>4 DEF TimeLeft, Never
<1>7. /\ t.op = "sweep" /\ t.on = u.on /\ t.phase = "updated" /\ t.revoke = {}
      /\ t.write = w /\ t.expire = x /\ t.at = u.at
  <2> HIDE DEF w, x
  <2>1. u.revoke = {}
    BY <1>0 DEF Means, MeansToClose
  <2> QED BY <1>0, <2>1 DEF Transactions
<1>8. over \in SUBSET u.on
  OBVIOUS
<1> HIDE DEF t, over
<1>9. MeansSweep(t)
  BY <1>0, <1>5, <1>6, <1>7, <1>8 DEF MeansSweep
<1>10. Means(t)
  BY <1>0, <1>7, <1>9 DEF Means, MeansToClose
<1> QED BY <1>2, <1>10

\* The three ways into the tables while requests do not overlap: a handler of
\* one step with nothing open, a commit that ends the open request, and steps
\* that write no row.
LEMMA SerialSteps ==
    ASSUME Serial, SerialInv, [Next]_vars
    PROVE  \/ UNCHANGED <<peerVars, row, req>>
           \/ Records /\ InFlight = {} /\ req' = req
           \/ \E r \in Requests : Begin(r) /\ InFlight = {} /\ UNCHANGED <<peerVars, row>>
           \/ \E r \in InFlight : /\ Snapshot(r) \/ Acquire(r) \/ SweepRows(r)
                                  /\ UNCHANGED <<peerVars, row>>
           \/ \E r \in InFlight : Abort(r) /\ InFlight' = {} /\ UNCHANGED <<peerVars, row>>
           \/ \E r \in InFlight : Commit(r) /\ InFlight' = {}
<1>1. CASE Tick \/ UNCHANGED vars
  BY <1>1 DEF Tick, vars, peerVars
<1>2. CASE Records
  <2>1. InFlight = {}
    BY <1>2 DEF Records, MayRun, CreatePeer, DeletePeer, ChangeGroups, ChangeOwner, SetAccount,
       DeleteUser, CreateKey
  <2>2. req' = req
    BY <1>2 DEF Records, CreatePeer, DeletePeer, ChangeGroups, ChangeOwner, SetAccount,
       DeleteUser, CreateKey
  <2> QED BY <1>2, <2>1, <2>2
<1>3. ASSUME NEW r \in Requests, Begin(r) PROVE InFlight = {} /\ UNCHANGED <<peerVars, row>>
  BY <1>3 DEF Begin, BeginLogin, BeginLogout, BeginEnroll, BeginUpdate, BeginRevokeKey,
     BeginKillSwitch, BeginSweep, MayStart, MayRun
<1>4. ASSUME NEW r \in Requests, Snapshot(r) \/ Acquire(r) \/ SweepRows(r)
      PROVE  r \in InFlight /\ UNCHANGED <<peerVars, row>>
  BY <1>4 DEF Snapshot, Acquire, SweepRows, InFlight
<1>5. ASSUME NEW r \in Requests, Commit(r) \/ Abort(r) PROVE r \in InFlight /\ InFlight' = {}
  <2>1. Finish(r) /\ r \in InFlight
    BY <1>5 DEF Commit, CommitLogin, CommitLogout, CommitEnroll, CommitUpdate, CommitRevokeKey,
       CommitKillSwitch, CommitSweep, Abort, InFlight
  <2> QED BY <2>1 DEF Finish, Idle, InFlight, SerialInv, AtMostOneOpen, TypeInv, TypeOK
<1>6. ASSUME NEW r \in Requests, Abort(r) PROVE UNCHANGED <<peerVars, row>>
  BY <1>6 DEF Abort
<1> QED BY <1>1, <1>2, <1>3, <1>4, <1>5, <1>6 DEF Next

\* What a request means it still means at its next step.
LEMMA MeaningKept ==
    ASSUME Serial, SerialInv, OneLiveSession, MeaningHolds, [Next]_vars
    PROVE  MeaningHolds'
<1> USE DEF SerialInv
<1>1. CASE UNCHANGED <<peerVars, row, req>>
  BY <1>1, SteadyMeaning DEF MeaningHolds, InFlight
<1>2. CASE InFlight' = {}
  BY <1>2 DEF MeaningHolds
<1>3. ASSUME NEW r \in Requests, NEW t, req' = [req EXCEPT ![r] = t], Means(t),
             InFlight \subseteq {r}, UNCHANGED <<peerVars, row>>
      PROVE  MeaningHolds'
  <2>1. Means(t)' /\ req'[r] = t /\ InFlight' \subseteq {r}
    BY <1>3, SteadyMeaning DEF InFlight, TypeInv, TypeOK
  <2> QED BY <2>1 DEF MeaningHolds
<1>4. ASSUME NEW r \in Requests, Begin(r), InFlight = {}, UNCHANGED <<peerVars, row>>
      PROVE  MeaningHolds'
  BY <1>3, <1>4, FreshMeaning
<1>5. ASSUME NEW r \in InFlight, Snapshot(r) \/ Acquire(r) \/ SweepRows(r),
             UNCHANGED <<peerVars, row>>
      PROVE  MeaningHolds'
  <2>1. r \in Requests /\ Means(req[r]) /\ InFlight \subseteq {r}
    BY <1>5 DEF MeaningHolds, AtMostOneOpen, InFlight
  <2> QED BY <1>3, <1>5, <2>1, UpdatingMeaning, SweepMeaning
<1>6. CASE Records /\ InFlight = {} /\ req' = req
  BY <1>2, <1>6 DEF InFlight
<1> QED BY <1>1, <1>2, <1>4, <1>5, <1>6, SerialSteps DEF InFlight

\* A commit closes the live rows its request is about, and leaves every other
\* row as it was.
LEMMA ClosesWhatItMeans ==
    ASSUME TypeInv, NEW r \in Requests, Means(req[r])
    PROVE  /\ req[r].expire \cup req[r].revoke \subseteq {s \in Sids : Live(s)}
           /\ \A s \in Sids : IF s \in req[r].expire \cup req[r].revoke
                              THEN CloseRows(r)[s].status \in {"revoked", "expired"}
                              ELSE CloseRows(r)[s] = row[s]
<1>1. req[r].expire \cup req[r].revoke \subseteq {s \in Sids : Live(s)}
  <2>1. req[r].expire \subseteq {s \in Sids : Live(s)}
    <3>1. CASE req[r].op # "sweep" \/ req[r].phase = "loaded"
      BY <3>1 DEF Means, MeansToClose, MeansSweep
    <3>2. CASE req[r].op = "sweep" /\ req[r].phase # "loaded"
      <4>1. PICK over \in SUBSET req[r].on : req[r].expire = UNION {LiveOf(p) : p \in over}
        BY <3>2 DEF Means, MeansSweep
      <4> QED BY <4>1 DEF LiveOf
    <3> QED BY <3>1, <3>2
  <2>2. req[r].revoke \subseteq {s \in Sids : Live(s)}
    BY DEF Means, MeansToClose, LiveOf
  <2> QED BY <2>1, <2>2
<1> QED BY <1>1 DEF CloseRows, TypeInv, TypeOK, Sessions

\* A session row is opened for a user peer and stays with it.
LEMMA RowsKeepPeers ==
    ASSUME Serial, SerialInv, MeaningHolds, RowsHavePeers, [Next]_vars
    PROVE  RowsHavePeers'
<1> USE DEF SerialInv
<1>1. CASE row' = row
  BY <1>1 DEF RowsHavePeers
<1>2. ASSUME NEW p \in Peers, DeletePeer(p) PROVE RowsHavePeers'
  <2>1. FreeRow.peer # p /\ \A s \in Sids : row[s] \in Sessions
    BY ConstantsAssumption DEF FreeRow, Peers, TypeInv, TypeOK
  <2> QED BY <1>2, <2>1 DEF DeletePeer, RowsHavePeers, Sessions
<1>3. ASSUME NEW u \in Users, DeleteUser(u) PROVE RowsHavePeers'
  <2>1. FreeRow.user # u /\ \A s \in Sids : row[s] \in Sessions
    BY ConstantsAssumption DEF FreeRow, TypeInv, TypeOK
  <2> QED BY <1>3, <2>1 DEF DeleteUser, RowsHavePeers, Sessions
<1>4. CASE Records
  BY <1>1, <1>2, <1>3, <1>4 DEF Records, CreatePeer, ChangeGroups, ChangeOwner, SetAccount, CreateKey
<1>5. ASSUME NEW r \in InFlight, Commit(r) PROVE RowsHavePeers'
  <2>0. r \in Requests /\ Means(req[r])
    BY <1>5 DEF InFlight, MeaningHolds
  <2>1. \A s \in Sids : IF CloseRows(r)[s].status = "free" THEN CloseRows(r)[s] = FreeRow
                        ELSE CloseRows(r)[s].peer \in UserPeers
    BY <2>0, ClosedRows, ClosesWhatItMeans DEF RowsHavePeers, Live
  <2>2. CASE row' = CloseRows(r)
    BY <2>1, <2>2 DEF RowsHavePeers
  <2>3. CASE CommitLogin(r)
    <3>1. PICK p \in UserPeers : req[r].on = {p}
      BY <2>0, <2>3 DEF CommitLogin, Means, MeansLogin
    <3>4. PICK t \in Sids : \E x : x.peer = p /\ x.status = "active" /\ row' = [CloseRows(r) EXCEPT ![t] = x]
      BY <2>3, <3>1 DEF CommitLogin
    <3>2. PICK x : x.peer = p /\ x.status = "active" /\ row' = [CloseRows(r) EXCEPT ![t] = x]
      BY <3>4
    <3>3. \A s \in Sids : row'[s] = IF s = t THEN x ELSE CloseRows(r)[s]
      BY <3>2, <2>0, ClosedRows
    <3> QED BY <2>1, <3>2, <3>3 DEF RowsHavePeers
  <2> QED BY <1>1, <1>5, <2>2, <2>3
      DEF Commit, CommitLogout, CommitEnroll, CommitUpdate, CommitRevokeKey, CommitKillSwitch, CommitSweep
<1> QED BY <1>1, <1>4, <1>5, SerialSteps

\* What holds at every step of requests that do not overlap, meaning included.
SerialMeaning == SerialInv /\ OneLiveSession /\ MeaningHolds /\ RowsHavePeers

LEMMA SerialMeaningInvariant ==
    ASSUME Serial PROVE Spec => []SerialMeaning
<1>1. Init => OneLiveSession /\ MeaningHolds /\ RowsHavePeers
  BY DEF Init, OneLiveSession, LiveOf, Live, FreeRow, MeaningHolds, InFlight, Idle, RowsHavePeers
<1>2. SerialInv /\ OneLiveSession /\ MeaningHolds /\ RowsHavePeers /\ [Next]_vars
        => OneLiveSession' /\ MeaningHolds' /\ RowsHavePeers'
  BY StillOneLive, MeaningKept, RowsKeepPeers
<1> QED BY <1>1, <1>2, SerialInvariant, PTL DEF Spec, SerialMeaning

-----------------------------------------------------------------------------
(* The kill switch and the sweep do all they are for                       *)

\* As long as requests do not overlap, when the kill switch returns no session is
\* live and every peer is down to what the mode leaves, a lockdown's confined
\* peers with it; nobody has gained, and who had no more is where it was,
\* whatever the fleet was doing.
THEOREM KillSwitchIsCompleteWhenSerial ==
    ASSUME Serial PROVE Spec => KillSwitchIsComplete
<1> DEFINE Left(mode) == IF mode = "lockdown" THEN Reach["disabled"] ELSE Reach["quarantined"]
           Narrows(p, left) ==
              /\ Reach[state'[p]] <= left
              /\ Reach[state'[p]] <= Reach[state[p]]
              /\ Reach[state[p]] <= left => state'[p] = state[p]
<1>1. ASSUME SerialMeaning, NEW r \in Requests, CommitKillSwitch(r)
      PROVE  /\ \A s \in Sids : row'[s].status # "active"
             /\ \A p \in Peers : Registered(p) => Narrows(p, Left(req[r].mode))
  <2>1. Means(req[r]) /\ req[r].op = "killswitch" /\ req[r].phase = "updated" /\ TypeInv
    BY <1>1 DEF CommitKillSwitch, SerialMeaning, MeaningHolds, InFlight, SerialInv
  <2> DEFINE m == req[r].mode
  <2>2. /\ req[r].on = Peers /\ m \in Modes
        /\ req[r].write = [p \in Peers |->
                IF state[p] \in ModeSources[m] /\ state[p] # ModeTarget[m]
                THEN ModeTarget[m] ELSE Keep]
    BY <2>1 DEF Means, MeansKillSwitch
  <2>3. ModeTarget[m] # Keep
    BY <2>2 DEF Modes, ModeTarget, Keep
  <2> HIDE DEF m
  <2>4. ASSUME NEW p \in Peers, Registered(p)
        PROVE  Narrows(p, Left(m))
    <3>1. state'[p] = IF state[p] \in ModeSources[m] THEN ModeTarget[m] ELSE state[p]
      BY <1>1, <2>2, <2>3 DEF CommitKillSwitch, WriteState
    <3>2. state[p] \in States
      BY <2>4 DEF Registered
    <3>3. /\ Reach["active"] = 3 /\ Reach["staging"] = 2 /\ Reach["quarantined"] = 2
          /\ Reach["disabled"] = 1 /\ Reach["revoked"] = 0
      BY DEF Reach, States, Confined
    <3>4. CASE m = "quarantine"
      <4>1. state'[p] = IF state[p] = "active" THEN "quarantined" ELSE state[p]
        BY <3>1, <3>4 DEF ModeSources, ModeTarget, Modes
      <4> QED BY <3>2, <3>3, <3>4, <4>1 DEF States
    <3>5. CASE m = "lockdown"
      <4>1. state'[p] = IF state[p] \in {"staging", "quarantined", "active"} THEN "disabled"
                        ELSE state[p]
        BY <3>1, <3>5 DEF ModeSources, ModeTarget, Modes, Confined
      <4> QED BY <3>2, <3>3, <3>5, <4>1 DEF States
    <3> QED BY <2>2, <3>4, <3>5 DEF Modes
  <2>5. ASSUME NEW s \in Sids PROVE row'[s].status # "active"
    <3>1. row' = CloseRows(r)
      BY <1>1 DEF CommitKillSwitch
    <3>2. Live(s) => s \in req[r].revoke
      BY <1>1, <2>1, <2>2 DEF Means, MeansToClose, LiveOf, Live, SerialMeaning, RowsHavePeers, Peers
    <3> QED BY <2>1, <3>1, <3>2, ClosesWhatItMeans DEF Live
  <2> QED BY <2>4, <2>5 DEF m
<1>2. SerialMeaning /\ [Next]_vars =>
        [\A r \in Requests : CommitKillSwitch(r) =>
          LET left == IF req[r].mode = "lockdown" THEN Reach["disabled"] ELSE Reach["quarantined"]
          IN  /\ \A s \in Sids : row'[s].status # "active"
              /\ \A p \in Peers : Registered(p) =>
                    /\ Reach[state'[p]] <= left
                    /\ Reach[state'[p]] <= Reach[state[p]]
                    /\ Reach[state[p]] <= left => state'[p] = state[p]]_vars
  BY <1>1
<1> QED BY <1>2, SerialMeaningInvariant, PTL DEF Spec, KillSwitchIsComplete

\* As long as requests do not overlap, a pass of the sweep leaves no peer active
\* whose time was over when it read the clock, by the lifetime its groups imply
\* now or by the deadline of its session.
THEOREM SweepIsCompleteWhenSerial ==
    ASSUME Serial PROVE Spec => SweepLeavesNobodyOverdue
<1>1. ASSUME SerialMeaning, NEW r \in Requests, CommitSweep(r),
             NEW p \in UserPeers, state'[p] = "active"
      PROVE  /\ lastAuth[p] + lifetime[p] > req[r].at
             /\ \A s \in Sids : row'[s].peer = p /\ row'[s].status = "active" =>
                                   row[s].exp > req[r].at
  <2>1. Means(req[r]) /\ req[r].op = "sweep" /\ req[r].phase = "updated" /\ TypeInv
    BY <1>1 DEF CommitSweep, SerialMeaning, MeaningHolds, InFlight, SerialInv
  <2>2. PICK over \in SUBSET req[r].on :
          /\ req[r].write = [q \in Peers |-> IF q \in over THEN "quarantined" ELSE Keep]
          /\ \A q \in req[r].on \ over : TimeLeft(q, req[r].at)
    BY <2>1 DEF Means, MeansSweep
  <2>3. p \notin over /\ state[p] = "active"
    BY <1>1, <2>2 DEF CommitSweep, WriteState, Keep, Peers
  <2>4. TimeLeft(p, req[r].at)
    BY <2>1, <2>2, <2>3 DEF Means, MeansSweep
  <2>5. \A s \in Sids : row'[s].peer = p /\ row'[s].status = "active" => s \in LiveOf(p)
    BY <1>1, <2>1, ClosesWhatItMeans DEF CommitSweep, LiveOf, Live
  <2> QED BY <2>4, <2>5 DEF TimeLeft
<1>2. SerialMeaning /\ [Next]_vars =>
        [\A r \in Requests : CommitSweep(r) =>
            \A p \in UserPeers : state'[p] = "active" =>
               /\ lastAuth[p] + lifetime[p] > req[r].at
               /\ \A s \in Sids : row'[s].peer = p /\ row'[s].status = "active" =>
                                   row[s].exp > req[r].at]_vars
  BY <1>1
<1> QED BY <1>2, SerialMeaningInvariant, PTL DEF Spec, SweepLeavesNobodyOverdue

-----------------------------------------------------------------------------
(* What each commit does to the standing of the peers and their sessions   *)

Spent == {s \in Sids : row[s].status # "free"}

\* The sessions of some peers end and nothing else moves in the table.
Closes(some) ==
    /\ \A p \in Peers : LiveOf(p)' = IF p \in some THEN {} ELSE LiveOf(p)
    /\ \A s \in Sids : ~Live(s) => row'[s] = row[s]
    /\ Spent' = Spent

\* A flush with one dirty state column moves one peer.
LEMMA OneDirtyColumn ==
    ASSUME TypeInv, NEW r \in Requests, NEW p \in Peers, NEW target \in States,
           WriteState(r), req[r].write = Dirty(p, target)
    PROVE  state' = [state EXCEPT ![p] = target]
<1>1. \A q \in Peers : Dirty(p, target)[q] =
        IF q = p THEN IF state[p] = target THEN Keep ELSE target ELSE Keep
  BY DEF Dirty, NoWrite
<1>2. Keep \notin States
  BY DEF Keep, States
<1> QED BY <1>1, <1>2 DEF WriteState, TypeInv, TypeOK

\* A flush with none moves nobody.
LEMMA NoDirtyColumn ==
    ASSUME TypeInv, NEW r \in Requests, WriteState(r), req[r].write = NoWrite
    PROVE  state' = state
BY DEF WriteState, NoWrite, TypeInv, TypeOK

\* The rows a commit closes are the live rows of some peers, and no others.
LEMMA RowsOfSomePeersClose ==
    ASSUME TypeInv, NEW r \in Requests, Means(req[r]), row' = CloseRows(r),
           NEW some \in SUBSET Peers,
           req[r].expire \cup req[r].revoke = UNION {LiveOf(p) : p \in some}
    PROVE  Closes(some)
<1> DEFINE over == req[r].expire \cup req[r].revoke
<1>1. \A s \in Sids : IF s \in over THEN row'[s].status \in {"revoked", "expired"}
                                    ELSE row'[s] = row[s]
  BY ClosesWhatItMeans
<1>2. \A s \in Sids : row'[s].peer = row[s].peer
  BY ClosedRows
<1>3. \A s \in Sids : s \in over <=> Live(s) /\ row[s].peer \in some
  BY DEF LiveOf
<1> HIDE DEF over
<1>4. \A p \in Peers : LiveOf(p)' = IF p \in some THEN {} ELSE LiveOf(p)
  BY <1>1, <1>2, <1>3 DEF LiveOf, Live
<1>5. \A s \in Sids : ~Live(s) => row'[s] = row[s]
  BY <1>1, <1>3
<1>6. Spent' = Spent
  BY <1>1, <1>3 DEF Spent, Live
<1> QED BY <1>4, <1>5, <1>6 DEF Closes

\* A login replaces whatever its peer had by one session, and makes it active.
LEMMA LoginTakesEffect ==
    ASSUME TypeInv, NEW r \in Requests, Means(req[r]), CommitLogin(r)
    PROVE  \E p \in UserPeers, s \in Sids :
             /\ state[p] \in Confined \cup {"active"}
             /\ state' = [state EXCEPT ![p] = "active"]
             /\ s \notin Spent /\ Spent' = Spent \cup {s}
             /\ \A q \in Peers : LiveOf(q)' = IF q = p THEN {s} ELSE LiveOf(q)
             /\ \A t \in Sids : ~Live(t) /\ t # s => row'[t] = row[t]
             /\ key' = key
<1>1. PICK p \in UserPeers : /\ req[r].on = {p} /\ req[r].write = Dirty(p, "active")
                             /\ state[p] \in Confined \cup {"active"}
  BY DEF CommitLogin, Means, MeansLogin
<1>0. PICK s \in Sids : /\ row[s].status = "free"
                       /\ \E x : /\ x.peer = p /\ x.status = "active"
                                /\ row' = [CloseRows(r) EXCEPT ![s] = x]
  BY <1>1 DEF CommitLogin
<1>2. PICK x : /\ x.peer = p /\ x.status = "active"
               /\ row' = [CloseRows(r) EXCEPT ![s] = x]
  BY <1>0
<1>3. req[r].expire \cup req[r].revoke = LiveOf(p)
  BY <1>1 DEF CommitLogin, Means, MeansToClose
<1>4. \A t \in Sids : row'[t] = IF t = s THEN x ELSE CloseRows(r)[t]
  BY <1>2, ClosedRows
<1>5. \A t \in Sids : /\ CloseRows(r)[t].peer = row[t].peer
                      /\ IF t \in LiveOf(p) THEN CloseRows(r)[t].status \in {"revoked", "expired"}
                                            ELSE CloseRows(r)[t] = row[t]
  BY <1>3, ClosedRows, ClosesWhatItMeans
<1>6. state' = [state EXCEPT ![p] = "active"]
  BY <1>1, OneDirtyColumn DEF CommitLogin, Peers, States
<1>7. \A q \in Peers : LiveOf(q)' = IF q = p THEN {s} ELSE LiveOf(q)
  BY <1>0, <1>2, <1>4, <1>5 DEF LiveOf, Live
<1>8. s \notin Spent /\ Spent' = Spent \cup {s}
  BY <1>0, <1>2, <1>4, <1>5 DEF Spent, LiveOf, Live
<1>9. \A t \in Sids : ~Live(t) /\ t # s => row'[t] = row[t]
  BY <1>4, <1>5 DEF LiveOf
<1>10. key' = key
  BY DEF CommitLogin
<1> QED BY <1>1, <1>6, <1>7, <1>8, <1>9, <1>10

\* A logout ends the session and the access it gave.
LEMMA LogoutTakesEffect ==
    ASSUME TypeInv, NEW r \in Requests, Means(req[r]), CommitLogout(r)
    PROVE  \E p \in UserPeers :
             /\ Registered(p) /\ Closes({p}) /\ key' = key
             /\ state' = [state EXCEPT ![p] = IF @ = "active" THEN "quarantined" ELSE @]
<1>1. PICK p \in UserPeers :
        /\ req[r].on = {p} /\ Registered(p)
        /\ req[r].write = IF state[p] = "active" THEN Dirty(p, "quarantined") ELSE NoWrite
  BY DEF CommitLogout, Means, MeansLogout
<1>2. WriteState(r) /\ row' = CloseRows(r) /\ key' = key
  BY DEF CommitLogout
<1>3. Closes({p})
  <2>1. req[r].expire \cup req[r].revoke = UNION {LiveOf(q) : q \in {p}}
    BY <1>1 DEF CommitLogout, Means, MeansToClose
  <2> QED BY <1>2, <2>1, RowsOfSomePeersClose DEF Peers
<1>4. state' = [state EXCEPT ![p] = IF @ = "active" THEN "quarantined" ELSE @]
  <2>1. CASE state[p] = "active"
    BY <1>1, <1>2, <2>1, OneDirtyColumn DEF Peers, States
  <2>2. CASE state[p] # "active"
    BY <1>1, <1>2, <2>2, NoDirtyColumn DEF TypeInv, TypeOK
  <2> QED BY <2>1, <2>2
<1> QED BY <1>1, <1>2, <1>3, <1>4

\* An enrollment makes a server peer with a key active.
LEMMA EnrollTakesEffect ==
    ASSUME TypeInv, NEW r \in Requests, Means(req[r]), CommitEnroll(r)
    PROVE  \E p \in ServerPeers :
             /\ key[p] # NoKey /\ state[p] \in Confined \cup {"active"}
             /\ state' = [state EXCEPT ![p] = "active"]
             /\ UNCHANGED <<row, key>>
<1>1. PICK p \in ServerPeers : /\ req[r].write = Dirty(p, "active") /\ key[p] # NoKey
                               /\ state[p] \in Confined \cup {"active"}
  BY DEF CommitEnroll, Means, MeansEnroll
<1> QED BY <1>1, OneDirtyColumn DEF CommitEnroll, Peers, States

\* An administrator moves one peer, and ends its sessions if it was active.
LEMMA UpdateTakesEffect ==
    ASSUME TypeInv, NEW r \in Requests, Means(req[r]), CommitUpdate(r)
    PROVE  \E p \in Peers, target \in States :
             /\ state[p] \in States \ {"revoked", target} /\ MayForce(p, target)
             /\ state' = [state EXCEPT ![p] = target]
             /\ Closes(IF state[p] = "active" THEN {p} ELSE {})
             /\ key' = key
<1>1. PICK p \in Peers, target \in States :
        /\ req[r].on = (IF state[p] = "active" THEN {p} ELSE {})
        /\ req[r].write = Dirty(p, target)
        /\ state[p] \in States \ {"revoked", target} /\ MayForce(p, target)
  BY DEF CommitUpdate, Means, MeansUpdate
<1>2. WriteState(r) /\ row' = CloseRows(r) /\ key' = key
  BY DEF CommitUpdate
<1>3. Closes(req[r].on)
  <2>1. req[r].expire \cup req[r].revoke = UNION {LiveOf(q) : q \in req[r].on}
    BY DEF CommitUpdate, Means, MeansToClose
  <2>2. req[r].on \in SUBSET Peers
    BY <1>1
  <2> QED BY <1>2, <2>1, <2>2, RowsOfSomePeersClose
<1> QED BY <1>1, <1>2, <1>3, OneDirtyColumn

\* The kill switch moves the whole fleet, in one of its modes, and ends every
\* session.
LEMMA KillSwitchTakesEffect ==
    ASSUME TypeInv, NEW r \in Requests, Means(req[r]), CommitKillSwitch(r)
    PROVE  \E m \in Modes :
             /\ state' = [p \in Peers |-> IF state[p] \in ModeSources[m] THEN ModeTarget[m]
                                                                        ELSE state[p]]
             /\ Closes(Peers) /\ key' = key
<1>1. PICK m \in Modes :
        req[r].write = [p \in Peers |-> IF state[p] \in ModeSources[m] /\ state[p] # ModeTarget[m]
                                        THEN ModeTarget[m] ELSE Keep]
  <2>1. MeansKillSwitch(req[r])
    BY DEF CommitKillSwitch, Means
  <2> QED BY <2>1 DEF MeansKillSwitch
<1>2. ModeTarget[m] # Keep
  BY DEF Modes, ModeTarget, Keep
<1>3. WriteState(r) /\ row' = CloseRows(r) /\ key' = key /\ req[r].on = Peers
  BY DEF CommitKillSwitch, Means, MeansKillSwitch
<1>4. state' = [p \in Peers |-> IF state[p] \in ModeSources[m] THEN ModeTarget[m] ELSE state[p]]
  BY <1>1, <1>2, <1>3 DEF WriteState
<1>5. req[r].expire \cup req[r].revoke = UNION {LiveOf(q) : q \in Peers}
  BY <1>3 DEF CommitKillSwitch, Means, MeansToClose
<1> QED BY <1>3, <1>4, <1>5, RowsOfSomePeersClose

\* A pass of the sweep quarantines some of the active user peers and ends their
\* sessions.
LEMMA SweepTakesEffect ==
    ASSUME TypeInv, NEW r \in Requests, Means(req[r]), CommitSweep(r)
    PROVE  \E over \in SUBSET {p \in UserPeers : state[p] = "active"} :
             /\ state' = [p \in Peers |-> IF p \in over THEN "quarantined" ELSE state[p]]
             /\ Closes(over) /\ key' = key
<1>1. PICK over \in SUBSET {p \in UserPeers : state[p] = "active"} :
        /\ req[r].write = [p \in Peers |-> IF p \in over THEN "quarantined" ELSE Keep]
        /\ req[r].expire = UNION {LiveOf(p) : p \in over}
  BY DEF CommitSweep, Means, MeansSweep
<1>2. WriteState(r) /\ row' = CloseRows(r) /\ key' = key
  BY DEF CommitSweep
<1>3. state' = [p \in Peers |-> IF p \in over THEN "quarantined" ELSE state[p]]
  <2>1. "quarantined" # Keep
    BY DEF Keep
  <2> QED BY <1>1, <1>2, <2>1 DEF WriteState
<1>4. req[r].expire \cup req[r].revoke = UNION {LiveOf(q) : q \in over}
  BY <1>1 DEF CommitSweep, Means, MeansToClose
<1>5. over \in SUBSET Peers
  BY <1>1 DEF Peers
<1> QED BY <1>2, <1>3, <1>4, <1>5, RowsOfSomePeersClose

-----------------------------------------------------------------------------
(* An active user peer has its session                                     *)

\* What stands behind an active user peer: its session, or the row of one that
\* went with its account.
Backed(p) == LiveOf(p) # {} \/ \E s \in Sids : row[s].peer = p /\ row[s].status = "gone"

\* A user peer that keeps its live sessions and its rows of deleted accounts
\* stays backed.
LEMMA StaysBacked ==
    ASSUME NEW p, Backed(p), LiveOf(p) \subseteq LiveOf(p)',
           \A s \in Sids : row[s].status = "gone" => row'[s] = row[s]
    PROVE  Backed(p)'
BY DEF Backed

\* No step leaves a user peer active with neither.
LEMMA ActiveStaysBacked ==
    ASSUME Serial, SerialMeaning, ActiveMeansLive, [Next]_vars
    PROVE  ActiveMeansLive'
<1> SUFFICES ASSUME NEW p \in UserPeers, state'[p] = "active" PROVE Backed(p)'
  BY DEF ActiveMeansLive, Backed
<1>0. p \in Peers /\ p \notin ServerPeers /\ (state[p] = "active" => Backed(p)) /\ TypeInv
  BY ConstantsAssumption DEF Peers, ActiveMeansLive, Backed, SerialMeaning, SerialInv
<1>1. ASSUME state[p] = "active", row' = row PROVE Backed(p)'
  BY <1>0, <1>1 DEF Backed, LiveOf, Live
<1>2. ASSUME NEW some, Closes(some), state[p] = "active", p \notin some PROVE Backed(p)'
  <2>1. LiveOf(p) \subseteq LiveOf(p)'
    BY <1>0, <1>2 DEF Closes
  <2>2. \A s \in Sids : row[s].status = "gone" => row'[s] = row[s]
    BY <1>2 DEF Closes, Live
  <2> QED BY <1>0, <1>2, <2>1, <2>2, StaysBacked
<1>3. CASE Records
  <2>1. ASSUME NEW q \in Peers, CreatePeer(q) PROVE Backed(p)'
    BY <1>0, <1>1, <2>1 DEF CreatePeer, TypeInv, TypeOK
  <2>2. ASSUME NEW q \in Peers, DeletePeer(q) PROVE Backed(p)'
    <3>1. p # q /\ state[p] = "active"
      BY <1>0, <2>2 DEF DeletePeer, TypeInv, TypeOK
    <3>2. \A s \in Sids : row[s].peer = p => row'[s] = row[s]
      BY <2>2, <3>1 DEF DeletePeer
    <3> QED BY <1>0, <3>1, <3>2 DEF Backed, LiveOf, Live
  <2>3. ASSUME NEW u \in Users, DeleteUser(u) PROVE Backed(p)'
    <3>1. \A s \in Sids : /\ row'[s].peer = row[s].peer
                          /\ row'[s].status \in {row[s].status, "gone"}
      BY <1>0, <2>3 DEF DeleteUser, TypeInv, TypeOK, Sessions
    <3>2. state[p] = "active"
      BY <2>3 DEF DeleteUser
    <3> QED BY <1>0, <3>1, <3>2 DEF Backed, LiveOf, Live
  <2> QED BY <1>1, <1>3, <2>1, <2>2, <2>3
      DEF Records, ChangeGroups, ChangeOwner, SetAccount, CreateKey, peerVars
<1>4. ASSUME NEW r \in InFlight, Commit(r) PROVE Backed(p)'
  <2>0. r \in Requests /\ Means(req[r])
    BY <1>4 DEF InFlight, MeaningHolds, SerialMeaning
  <2>1. CASE CommitLogin(r)
    <3>1. PICK q \in UserPeers, s \in Sids :
             /\ state' = [state EXCEPT ![q] = "active"]
             /\ s \notin Spent
             /\ \A x \in Peers : LiveOf(x)' = IF x = q THEN {s} ELSE LiveOf(x)
             /\ \A t \in Sids : ~Live(t) /\ t # s => row'[t] = row[t]
      BY <1>0, <2>0, <2>1, LoginTakesEffect
    <3>2. CASE p = q
      BY <1>0, <3>1, <3>2 DEF Backed
    <3>3. CASE p # q
      <4>1. state[p] = "active" /\ LiveOf(p)' = LiveOf(p)
        BY <1>0, <3>1, <3>3 DEF TypeInv, TypeOK
      <4>2. \A t \in Sids : row[t].status = "gone" => row'[t] = row[t]
        BY <3>1 DEF Live, Spent
      <4> QED BY <1>0, <4>1, <4>2, StaysBacked
    <3> QED BY <3>2, <3>3
  <2>2. CASE CommitLogout(r)
    <3>1. PICK q \in UserPeers :
             /\ Closes({q})
             /\ state' = [state EXCEPT ![q] = IF @ = "active" THEN "quarantined" ELSE @]
      BY <1>0, <2>0, <2>2, LogoutTakesEffect
    <3>2. p # q /\ state[p] = "active"
      BY <1>0, <3>1 DEF TypeInv, TypeOK
    <3> QED BY <1>2, <3>1, <3>2
  <2>3. CASE CommitEnroll(r)
    <3>1. PICK q \in ServerPeers : state' = [state EXCEPT ![q] = "active"] /\ row' = row
      BY <1>0, <2>0, <2>3, EnrollTakesEffect
    <3> QED BY <1>0, <1>1, <3>1 DEF TypeInv, TypeOK
  <2>4. CASE CommitUpdate(r)
    <3>1. PICK q \in Peers, target \in States :
             /\ state[q] \in States \ {"revoked", target} /\ MayForce(q, target)
             /\ state' = [state EXCEPT ![q] = target]
             /\ Closes(IF state[q] = "active" THEN {q} ELSE {})
      BY <1>0, <2>0, <2>4, UpdateTakesEffect
    <3>2. target = "active" => q # p
      BY <1>0, <3>1 DEF MayForce
    <3>3. p # q /\ state[p] = "active"
      BY <1>0, <3>1, <3>2 DEF TypeInv, TypeOK
    <3> QED BY <1>2, <3>1, <3>3
  <2>5. CASE CommitRevokeKey(r)
    <3>1. state[p] = "active" /\ row' = row
      BY <1>0, <2>0, <2>5, WriteTyped
      DEF CommitRevokeKey, TypeInv, LoginsCarryAStamp, StampedLogin
    <3> QED BY <1>1, <3>1
  <2>6. CASE CommitKillSwitch(r)
    <3>1. PICK m \in Modes :
            state' = [x \in Peers |-> IF state[x] \in ModeSources[m] THEN ModeTarget[m] ELSE state[x]]
      BY <1>0, <2>0, <2>6, KillSwitchTakesEffect
    <3>2. "active" \in ModeSources[m] /\ ModeTarget[m] # "active"
      BY DEF Modes, ModeSources, ModeTarget
    <3> QED BY <1>0, <3>1, <3>2
  <2>7. CASE CommitSweep(r)
    <3>1. PICK over \in SUBSET {x \in UserPeers : state[x] = "active"} :
             /\ state' = [x \in Peers |-> IF x \in over THEN "quarantined" ELSE state[x]]
             /\ Closes(over)
      BY <1>0, <2>0, <2>7, SweepTakesEffect
    <3>2. p \notin over /\ state[p] = "active"
      BY <1>0, <3>1
    <3> QED BY <1>2, <3>1, <3>2
  <2> QED BY <1>4, <2>1, <2>2, <2>3, <2>4, <2>5, <2>6, <2>7 DEF Commit
<1> QED BY <1>1, <1>3, <1>4, SerialSteps DEF SerialMeaning, peerVars

\* As long as requests do not overlap, a user peer that is active has its live
\* session, unless the session went with its account: whatever closes the last
\* session takes "active" away too.
THEOREM ActivePeersHaveTheirSession ==
    ASSUME Serial PROVE Spec => []ActiveMeansLive
<1>1. Init => ActiveMeansLive
  BY DEF Init, ActiveMeansLive, Peers
<1>2. SerialMeaning /\ ActiveMeansLive /\ [Next]_vars => ActiveMeansLive'
  BY ActiveStaysBacked
<1> QED BY <1>1, <1>2, SerialMeaningInvariant, PTL DEF Spec

-----------------------------------------------------------------------------
(* Sessions of active peers only                                           *)

\* When no enrollment key is revoked, whatever takes "active" away from a peer
\* takes its sessions too.
LEMMA SessionsGoWithActive ==
    ASSUME Serial, "revoke_key" \notin Operations, SerialMeaning,
           IdlePeersHaveNoSession, [Next]_vars
    PROVE  IdlePeersHaveNoSession'
<1>0. TypeInv
  BY DEF SerialMeaning, SerialInv
<1>1. ASSUME \A p \in Peers : LiveOf(p)' = LiveOf(p) \/ LiveOf(p)' = {} \/ state'[p] = "active",
             \A p \in Peers : state[p] = "active" => state'[p] = "active" \/ LiveOf(p)' = {}
      PROVE  IdlePeersHaveNoSession'
  BY <1>1 DEF IdlePeersHaveNoSession
<1>2. ASSUME NEW some, Closes(some),
             \A p \in Peers : state[p] = "active" => state'[p] = "active" \/ p \in some
      PROVE  IdlePeersHaveNoSession'
  BY <1>1, <1>2 DEF Closes
<1>3. ASSUME row' = row, \A p \in Peers : state[p] = "active" => state'[p] = "active"
      PROVE  IdlePeersHaveNoSession'
  BY <1>1, <1>3 DEF LiveOf, Live
<1>4. CASE Records
  <2>1. ASSUME NEW q \in Peers, CreatePeer(q) PROVE IdlePeersHaveNoSession'
    BY <1>0, <1>3, <2>1 DEF CreatePeer, TypeInv, TypeOK
  <2>2. ASSUME NEW q \in Peers, DeletePeer(q) PROVE IdlePeersHaveNoSession'
    <3>1. /\ LiveOf(q)' = {}
          /\ \A p \in Peers \ {q} : LiveOf(p)' = LiveOf(p)
      BY <1>0, <2>2 DEF DeletePeer, LiveOf, Live, TypeInv, TypeOK, Sessions
    <3>2. \A p \in Peers \ {q} : state'[p] = state[p]
      BY <1>0, <2>2 DEF DeletePeer, TypeInv, TypeOK
    <3> QED BY <1>1, <3>1, <3>2
  <2>3. ASSUME NEW u \in Users, DeleteUser(u) PROVE IdlePeersHaveNoSession'
    <3>1. state' = state /\ \A p \in Peers : LiveOf(p)' \subseteq LiveOf(p)
      BY <1>0, <2>3 DEF DeleteUser, LiveOf, Live, TypeInv, TypeOK, Sessions
    <3> QED BY <3>1 DEF IdlePeersHaveNoSession
  <2> QED BY <1>3, <1>4, <2>1, <2>2, <2>3
      DEF Records, ChangeGroups, ChangeOwner, SetAccount, CreateKey, peerVars
<1>5. ASSUME NEW r \in InFlight, Commit(r) PROVE IdlePeersHaveNoSession'
  <2>0. r \in Requests /\ Means(req[r]) /\ req[r].op # "revoke_key"
    BY <1>5 DEF InFlight, MeaningHolds, SerialMeaning, Means
  <2>1. CASE CommitLogin(r)
    <3>1. PICK q \in UserPeers, s \in Sids :
             /\ state' = [state EXCEPT ![q] = "active"]
             /\ \A x \in Peers : LiveOf(x)' = IF x = q THEN {s} ELSE LiveOf(x)
      BY <1>0, <2>0, <2>1, LoginTakesEffect
    <3> QED BY <1>0, <1>1, <3>1 DEF TypeInv, TypeOK
  <2>2. CASE CommitLogout(r)
    <3>1. PICK q \in UserPeers :
             /\ Closes({q})
             /\ state' = [state EXCEPT ![q] = IF @ = "active" THEN "quarantined" ELSE @]
      BY <1>0, <2>0, <2>2, LogoutTakesEffect
    <3> QED BY <1>0, <1>2, <3>1 DEF TypeInv, TypeOK
  <2>3. CASE CommitEnroll(r)
    <3>1. PICK q \in ServerPeers : state' = [state EXCEPT ![q] = "active"] /\ row' = row
      BY <1>0, <2>0, <2>3, EnrollTakesEffect
    <3> QED BY <1>0, <1>3, <3>1 DEF TypeInv, TypeOK
  <2>4. CASE CommitUpdate(r)
    <3>1. PICK q \in Peers, target \in States :
             /\ state' = [state EXCEPT ![q] = target]
             /\ Closes(IF state[q] = "active" THEN {q} ELSE {})
      BY <1>0, <2>0, <2>4, UpdateTakesEffect
    <3> QED BY <1>0, <1>2, <3>1 DEF TypeInv, TypeOK
  <2>5. CASE CommitRevokeKey(r)
    BY <2>0, <2>5 DEF CommitRevokeKey
  <2>6. CASE CommitKillSwitch(r)
    <3>1. Closes(Peers)
      BY <1>0, <2>0, <2>6, KillSwitchTakesEffect
    <3> QED BY <1>2, <3>1
  <2>7. CASE CommitSweep(r)
    <3>1. PICK over : /\ state' = [x \in Peers |-> IF x \in over THEN "quarantined" ELSE state[x]]
                      /\ Closes(over)
      BY <1>0, <2>0, <2>7, SweepTakesEffect
    <3> QED BY <1>2, <3>1
  <2> QED BY <1>5, <2>1, <2>2, <2>3, <2>4, <2>5, <2>6, <2>7 DEF Commit
<1>6. CASE UNCHANGED <<peerVars, row>>
  BY <1>3, <1>6 DEF peerVars
<1> QED BY <1>4, <1>5, <1>6, SerialSteps DEF SerialMeaning

-----------------------------------------------------------------------------
(* The transactions implement PeerLifecycle                                *)

\* Sessions that end, and nothing else, as the mapping shows it.
LEMMA MappedCloses ==
    ASSUME NEW some, Closes(some)
    PROVE  /\ [p \in Peers |-> LiveOf(p)]' = [p \in Peers |-> IF p \in some THEN {} ELSE LiveOf(p)]
           /\ {s \in Sids : row[s].status # "free"}' = {s \in Sids : row[s].status # "free"}
BY DEF Closes, Spent

\* A table of sessions nobody writes, as the mapping shows it.
LEMMA MappedRows ==
    ASSUME row' = row
    PROVE  /\ [p \in Peers |-> LiveOf(p)]' = [p \in Peers |-> LiveOf(p)]
           /\ {s \in Sids : row[s].status # "free"}' = {s \in Sids : row[s].status # "free"}
BY DEF LiveOf, Live

\* Keys nobody writes, as the mapping shows them.
LEMMA MappedKeys ==
    ASSUME key' = key
    PROVE  [p \in Peers |-> key[p] # NoKey]' = [p \in Peers |-> key[p] # NoKey]
OBVIOUS

LEMMA LifecyclePeers == Lifecycle!Peers = Peers
BY DEF Lifecycle!Peers, Peers

\* A login signs its peer in with a number nobody used.
LEMMA LoginSignsIn ==
    ASSUME TypeInv, NEW r \in Requests, Means(req[r]), CommitLogin(r)
    PROVE  Lifecycle!Next
<1>1. PICK p \in UserPeers, s \in Sids :
             /\ state[p] \in Confined \cup {"active"}
             /\ state' = [state EXCEPT ![p] = "active"]
             /\ s \notin Spent /\ Spent' = Spent \cup {s}
             /\ \A q \in Peers : LiveOf(q)' = IF q = p THEN {s} ELSE LiveOf(q)
             /\ key' = key
  BY LoginTakesEffect
<1>2. [q \in Peers |-> LiveOf(q)]' = [[q \in Peers |-> LiveOf(q)] EXCEPT ![p] = {s}]
  BY <1>1
<1>3. {t \in Sids : row[t].status # "free"}' = {t \in Sids : row[t].status # "free"} \cup {s}
  BY <1>1 DEF Spent
<1>4. s \notin {t \in Sids : row[t].status # "free"} /\ p \in Peers
  BY <1>1 DEF Spent, Peers
<1>5. Lifecycle!SignIn(p, s)
  BY <1>1, <1>2, <1>3, <1>4, MappedKeys DEF Lifecycle!SignIn, Lifecycle!Admissible, Confined
<1> QED BY <1>4, <1>5, LifecyclePeers DEF Lifecycle!Next

\* A logout signs its peer out.
LEMMA LogoutSignsOut ==
    ASSUME TypeInv, NEW r \in Requests, Means(req[r]), CommitLogout(r)
    PROVE  Lifecycle!Next
<1>1. PICK p \in UserPeers :
             /\ Registered(p) /\ Closes({p}) /\ key' = key
             /\ state' = [state EXCEPT ![p] = IF @ = "active" THEN "quarantined" ELSE @]
  BY LogoutTakesEffect
<1>2. p \in Peers /\ state[p] \notin {"absent", "deleted"}
  BY <1>1 DEF Peers, Registered, States
<1>3. [q \in Peers |-> LiveOf(q)]' = [[q \in Peers |-> LiveOf(q)] EXCEPT ![p] = {}]
  BY <1>1, <1>2 DEF Closes
<1>4. Lifecycle!SignOut(p)
  BY <1>1, <1>2, <1>3, MappedCloses, MappedKeys DEF Lifecycle!SignOut, Lifecycle!Unregistered
<1> QED BY <1>2, <1>4, LifecyclePeers DEF Lifecycle!Next

\* An enrollment enrolls its peer.
LEMMA EnrollEnrolls ==
    ASSUME TypeInv, NEW r \in Requests, Means(req[r]), CommitEnroll(r)
    PROVE  Lifecycle!Next
<1>1. PICK p \in ServerPeers :
             /\ key[p] # NoKey /\ state[p] \in Confined \cup {"active"}
             /\ state' = [state EXCEPT ![p] = "active"]
             /\ UNCHANGED <<row, key>>
  BY EnrollTakesEffect
<1>2. p \in Peers
  BY <1>1 DEF Peers
<1>3. Lifecycle!Enroll(p)
  BY <1>1, <1>2, MappedRows, MappedKeys DEF Lifecycle!Enroll, Lifecycle!Admissible, Confined
<1> QED BY <1>2, <1>3, LifecyclePeers DEF Lifecycle!Next

\* An update is an administrator's decision.
LEMMA UpdateDecides ==
    ASSUME TypeInv, IdlePeersHaveNoSession, NEW r \in Requests, Means(req[r]), CommitUpdate(r)
    PROVE  Lifecycle!Next
<1>1. PICK p \in Peers, target \in States :
             /\ state[p] \in States \ {"revoked", target} /\ MayForce(p, target)
             /\ state' = [state EXCEPT ![p] = target]
             /\ Closes(IF state[p] = "active" THEN {p} ELSE {})
             /\ key' = key
  BY UpdateTakesEffect
<1>2. state[p] \notin {"absent", "deleted", "revoked"} /\ target # state[p]
  BY <1>1 DEF States
<1>3. [q \in Peers |-> LiveOf(q)]' = [[q \in Peers |-> LiveOf(q)] EXCEPT ![p] = {}]
  BY <1>1 DEF Closes, IdlePeersHaveNoSession
<1>4. Lifecycle!Decide(p, target)
  BY <1>1, <1>2, <1>3, MappedCloses, MappedKeys
  DEF Lifecycle!Decide, Lifecycle!Unregistered, MayForce, States
<1> QED BY <1>4, LifecyclePeers DEF Lifecycle!Next, States

\* The kill switch takes the whole fleet dark.
LEMMA KillSwitchGoesDark ==
    ASSUME TypeInv, NEW r \in Requests, Means(req[r]), CommitKillSwitch(r)
    PROVE  Lifecycle!Next
<1>1. PICK m \in Modes :
             /\ state' = [p \in Peers |-> IF state[p] \in ModeSources[m] THEN ModeTarget[m]
                                                                        ELSE state[p]]
             /\ Closes(Peers) /\ key' = key
  BY KillSwitchTakesEffect
<1> DEFINE lockdown == m = "lockdown"
<1>2. ModeSources[m] = (IF lockdown THEN {"staging", "quarantined", "active"} ELSE {"active"})
      /\ ModeTarget[m] = (IF lockdown THEN "disabled" ELSE "quarantined")
  BY DEF Modes, ModeSources, ModeTarget, Confined
<1>3. state' = [p \in Peers |->
                  CASE lockdown /\ state[p] \in {"staging", "quarantined", "active"} -> "disabled"
                    [] ~lockdown /\ state[p] = "active" -> "quarantined"
                    [] OTHER -> state[p]]
  BY <1>1, <1>2
<1>4. [p \in Peers |-> LiveOf(p)]' = [p \in Peers |-> {}]
  BY <1>1 DEF Closes
<1>5. lockdown \in BOOLEAN
  OBVIOUS
<1> HIDE DEF lockdown
<1>6. Lifecycle!GoDark(lockdown)
  BY <1>1, <1>3, <1>4, MappedCloses, MappedKeys, LifecyclePeers
  DEF Lifecycle!GoDark, Lifecycle!Admissible
<1> QED BY <1>5, <1>6 DEF Lifecycle!Next

\* A pass of the sweep lets time run out for some.
LEMMA SweepRunsOut ==
    ASSUME TypeInv, NEW r \in Requests, Means(req[r]), CommitSweep(r)
    PROVE  Lifecycle!Next
<1>1. PICK over \in SUBSET {p \in UserPeers : state[p] = "active"} :
             /\ state' = [p \in Peers |-> IF p \in over THEN "quarantined" ELSE state[p]]
             /\ Closes(over) /\ key' = key
  BY SweepTakesEffect
<1>2. [p \in Peers |-> LiveOf(p)]' =
        [p \in Peers |-> IF p \in over THEN {} ELSE [q \in Peers |-> LiveOf(q)][p]]
  BY <1>1 DEF Closes
<1>3. Lifecycle!RunOut(over)
  BY <1>1, <1>2, MappedCloses, MappedKeys, LifecyclePeers DEF Lifecycle!RunOut
<1> QED BY <1>1, <1>3 DEF Lifecycle!Next

\* A row of peers is inserted for a peer that is registered.
LEMMA CreateRegisters ==
    ASSUME TypeInv, NEW p \in Peers, CreatePeer(p)
    PROVE  Lifecycle!Next
<1>1. Lifecycle!Register(p)
  BY MappedRows, MappedKeys DEF CreatePeer, Lifecycle!Register
<1> QED BY <1>1, LifecyclePeers DEF Lifecycle!Next

\* A deleted row takes the sessions and the key with it.
LEMMA DeleteRemoves ==
    ASSUME TypeInv, RowsHavePeers, NEW p \in Peers, DeletePeer(p)
    PROVE  Lifecycle!Next
<1>1. state[p] \notin {"absent", "deleted"} /\ state' = [state EXCEPT ![p] = "deleted"]
  BY DEF DeletePeer, Registered, States
<1>2. /\ \A s \in Sids : row[s] \in Sessions
      /\ \A s \in Sids : row'[s] = IF row[s].peer = p THEN [row[s] EXCEPT !.status = "gone"]
                                                      ELSE row[s]
  BY DEF DeletePeer, TypeInv, TypeOK
<1>3. \A q \in Peers : LiveOf(q)' = IF q = p THEN {} ELSE LiveOf(q)
  BY <1>2 DEF LiveOf, Live, Sessions
<1>4. [q \in Peers |-> LiveOf(q)]' = [[q \in Peers |-> LiveOf(q)] EXCEPT ![p] = {}]
  BY <1>3
<1>5. {s \in Sids : row[s].status # "free"}' = {s \in Sids : row[s].status # "free"}
  <2>1. \A s \in Sids : row[s].status = "free" => row[s].peer # p
    BY ConstantsAssumption DEF RowsHavePeers, FreeRow, Peers
  <2>2. \A s \in Sids : row[s].peer = p => row'[s].status = "gone"
    BY <1>2 DEF Sessions
  <2>3. \A s \in Sids : row[s].status # "free" <=> row'[s].status # "free"
    BY <1>2, <2>1, <2>2
  <2> QED BY <2>3
<1>6. [q \in Peers |-> key[q] # NoKey]' = [[q \in Peers |-> key[q] # NoKey] EXCEPT ![p] = FALSE]
  <2>1. key' = [key EXCEPT ![p] = NoKey] /\ key \in [Peers -> Int]
    BY DEF DeletePeer, TypeInv, TypeOK
  <2> QED BY <2>1
<1>7. Lifecycle!Remove(p)
  BY <1>1, <1>4, <1>5, <1>6 DEF Lifecycle!Remove, Lifecycle!Unregistered
<1> QED BY <1>7, LifecyclePeers DEF Lifecycle!Next

\* A deleted account takes its sessions and leaves its peers as they are.
LEMMA DeleteUserOrphans ==
    ASSUME TypeInv, OneLiveSession, RowsHavePeers, NEW u \in Users, DeleteUser(u)
    PROVE  Lifecycle!Next
<1> DEFINE some == {p \in UserPeers : \E s \in LiveOf(p) : row[s].user = u}
<1>1. /\ \A s \in Sids : row[s] \in Sessions
      /\ \A s \in Sids : row'[s] = IF row[s].user = u THEN [row[s] EXCEPT !.status = "gone"]
                                                      ELSE row[s]
      /\ UNCHANGED <<state, key>>
  BY DEF DeleteUser, TypeInv, TypeOK
<1>2. \A s \in Sids : /\ row'[s].peer = row[s].peer
                      /\ row'[s].status = IF row[s].user = u THEN "gone" ELSE row[s].status
  BY <1>1 DEF Sessions
<1>3. \A q \in Peers : LiveOf(q)' = {s \in LiveOf(q) : row[s].user # u}
  BY <1>2 DEF LiveOf, Live
<1>4. \A q \in Peers : LiveOf(q) # {} => q \in UserPeers
  BY DEF LiveOf, Live, RowsHavePeers
<1>5. \A q \in Peers : LiveOf(q)' = IF q \in some THEN {} ELSE LiveOf(q)
  BY <1>3, <1>4 DEF OneLiveSession
<1>6. {s \in Sids : row[s].status # "free"}' = {s \in Sids : row[s].status # "free"}
  <2>1. \A s \in Sids : row[s].status = "free" => row[s].user # u
    BY ConstantsAssumption DEF RowsHavePeers, FreeRow
  <2>2. \A s \in Sids : row[s].status # "free" <=> row'[s].status # "free"
    BY <1>2, <2>1
  <2> QED BY <2>2
<1>7. some \in SUBSET UserPeers
  OBVIOUS
<1> HIDE DEF some
<1>8. [p \in Peers |-> LiveOf(p)]' =
        [p \in Peers |-> IF p \in some THEN {} ELSE [q \in Peers |-> LiveOf(q)][p]]
  BY <1>5
<1>9. Lifecycle!Orphan(some)
  BY <1>1, <1>6, <1>8, MappedKeys, LifecyclePeers DEF Lifecycle!Orphan
<1> QED BY <1>7, <1>9 DEF Lifecycle!Next

\* A new enrollment key arms its peer.
LEMMA CreateKeyArms ==
    ASSUME TypeInv, NEW p \in Peers, NEW e \in Keys, CreateKey(p, e)
    PROVE  Lifecycle!Next
<1>1. e # NoKey
  BY DEF Keys, Forever, NoKey
<1>2. [q \in Peers |-> key[q] # NoKey]' = [[q \in Peers |-> key[q] # NoKey] EXCEPT ![p] = TRUE]
  <2>1. key' = [key EXCEPT ![p] = e] /\ key \in [Peers -> Int]
    BY DEF CreateKey, TypeInv, TypeOK
  <2> QED BY <1>1, <2>1
<1>3. /\ p \in ServerPeers /\ state[p] \notin {"absent", "deleted"} /\ state' = state
      /\ row' = row
  BY DEF CreateKey, Registered, States
<1>4. Lifecycle!Arm(p)
  BY <1>2, <1>3, MappedRows DEF Lifecycle!Arm, Lifecycle!Unregistered
<1> QED BY <1>4, LifecyclePeers DEF Lifecycle!Next

\* What the state of the rows has to be for a step to be one of PeerLifecycle.
Refines == SerialMeaning /\ IdlePeersHaveNoSession

\* Every step of requests that do not overlap, and leave keys alone, is one step
\* of PeerLifecycle or none.
LEMMA StepsRefine ==
    ASSUME Serial, "revoke_key" \notin Operations, Refines, [Next]_vars
    PROVE  [Lifecycle!Next]_(Lifecycle!vars)
<1>0. /\ TypeInv /\ OneLiveSession /\ RowsHavePeers /\ MeaningHolds /\ IdlePeersHaveNoSession
      /\ SerialInv
  BY DEF Refines, SerialMeaning, SerialInv
<1>1. ASSUME UNCHANGED <<state, key, row>> PROVE UNCHANGED Lifecycle!vars
  BY <1>1, MappedRows, MappedKeys DEF Lifecycle!vars
<1>2. CASE UNCHANGED <<peerVars, row>>
  BY <1>1, <1>2 DEF peerVars
<1>3. CASE Records
  <2>1. ASSUME NEW p \in Peers, NEW l \in Lifetimes, ChangeGroups(p, l)
        PROVE  UNCHANGED <<state, key, row>>
    BY <2>1 DEF ChangeGroups
  <2>2. ASSUME NEW p \in Peers, NEW u \in Users \cup {NoUser}, ChangeOwner(p, u)
        PROVE  UNCHANGED <<state, key, row>>
    BY <2>2 DEF ChangeOwner
  <2>3. ASSUME NEW u \in Users, NEW a \in {"active", "inactive"}, SetAccount(u, a)
        PROVE  UNCHANGED <<state, key, row>>
    BY <2>3 DEF SetAccount, peerVars
  <2> QED BY <1>0, <1>1, <1>3, <2>1, <2>2, <2>3, CreateRegisters, DeleteRemoves,
             DeleteUserOrphans, CreateKeyArms DEF Records
<1>4. ASSUME NEW r \in InFlight, Commit(r) PROVE Lifecycle!Next
  <2>0. r \in Requests /\ Means(req[r]) /\ req[r].op # "revoke_key"
    BY <1>0, <1>4 DEF InFlight, MeaningHolds, Means
  <2>1. ~CommitRevokeKey(r)
    BY <2>0 DEF CommitRevokeKey
  <2> QED BY <1>0, <1>4, <2>0, <2>1, LoginSignsIn, LogoutSignsOut, EnrollEnrolls, UpdateDecides,
             KillSwitchGoesDark, SweepRunsOut DEF Commit
<1> QED BY <1>0, <1>2, <1>3, <1>4, SerialSteps

\* Requests that do not overlap, and leave enrollment keys alone, implement
\* PeerLifecycle: each takes effect at once and as it is meant, whatever the
\* fleet, the accounts and the clock do.
THEOREM SerialRequestsRefine ==
    ASSUME Serial, "revoke_key" \notin Operations
    PROVE  Spec => RequestsTakeEffectAtOnce
<1>1. Init => Lifecycle!Init
  <2> SUFFICES ASSUME Init PROVE Lifecycle!Init
    OBVIOUS
  <2>1. state = [p \in Peers |-> "absent"]
    BY DEF Init
  <2>2. [p \in Peers |-> LiveOf(p)] = [p \in Peers |-> {}]
    BY DEF Init, LiveOf, Live, FreeRow
  <2>3. {s \in Sids : row[s].status # "free"} = {}
    BY DEF Init, FreeRow
  <2>4. [p \in Peers |-> key[p] # NoKey] = [p \in Peers |-> FALSE]
    BY DEF Init
  <2> QED BY <2>1, <2>2, <2>3, <2>4, LifecyclePeers DEF Lifecycle!Init
<1>2. Init => IdlePeersHaveNoSession
  BY DEF Init, IdlePeersHaveNoSession, LiveOf, Live, FreeRow
<1>3. SerialMeaning /\ IdlePeersHaveNoSession /\ [Next]_vars => IdlePeersHaveNoSession'
  BY SessionsGoWithActive
<1>4. SerialMeaning /\ IdlePeersHaveNoSession /\ [Next]_vars
        => [Lifecycle!Next]_(Lifecycle!vars)
  BY StepsRefine DEF Refines
<1> QED BY <1>1, <1>2, <1>3, <1>4, SerialMeaningInvariant, PTL
        DEF Spec, RequestsTakeEffectAtOnce, Lifecycle!Spec
=============================================================================
