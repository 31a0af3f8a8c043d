------------------------ MODULE AccountSessionsProofs ------------------------
(***************************************************************************)
(* Theorems about AccountSessions, for every number of accounts, groups,   *)
(* overlapping requests, sessions and edits.                               *)
(***************************************************************************)
EXTENDS AccountSessions, TLAPS

Logins == {"admin", "oidc", "sso", "portal"}
Updates == {"flag", "password", "groups"}

\* The code is one of the account's secret as it was read, later than any used.
Spends(q) ==
    /\ q.read.secret # 0 /\ q.code.secret = q.read.secret
    /\ q.read.last < q.code.step /\ q.new.last = q.code.step

SameAccess(a, b) == a.active = b.active /\ a.admin = b.admin /\ a.groups = b.groups
SameFactor(a, b) == a.secret = b.secret /\ a.enabled = b.enabled /\ a.last = b.last

\* What an operation makes of the account it read.
Meant(q) ==
    /\ q.op \in Operations \ Updates => SameAccess(q.new, q.read)
    /\ q.op \in Updates => SameFactor(q.new, q.read) /\ Taken(q) \subseteq q.ends
    /\ q.op \in Logins =>
          /\ q.new.secret = q.read.secret /\ q.new.enabled = q.read.enabled
          /\ IF q.code = NoCode THEN q.new.last = q.read.last ELSE Spends(q)
    /\ q.op = "confirm" => q.new.secret = q.read.secret /\ Spends(q)
    /\ q.op = "provision" => q.new.secret # 0 /\ ~q.new.enabled
    /\ q.op = "disable" => q.new.secret = 0 /\ ~q.new.enabled
    /\ q.op = "sso" => q.read.active

Typed ==
    /\ TypeOK
    /\ \A r \in Requests : req[r] # Idle => Meant(req[r])

-----------------------------------------------------------------------------
(* What a flush writes                                                     *)

\* A flush leaves an account.
LEMMA FlushedTyped ==
    ASSUME NEW read \in Accounts, NEW new \in Accounts, NEW now \in Accounts
    PROVE  Flushed(read, new, now) \in Accounts
BY DEF Flushed, Accounts

\* What a request did not change is left as it is by now, column by column.
LEMMA FlushedKeeps ==
    ASSUME NEW read \in Accounts, NEW new \in Accounts, NEW now \in Accounts
    PROVE  /\ new.active = read.active => Flushed(read, new, now).active = now.active
           /\ new.admin = read.admin => Flushed(read, new, now).admin = now.admin
           /\ new.groups = read.groups => Flushed(read, new, now).groups = now.groups
           /\ new.secret = read.secret => Flushed(read, new, now).secret = now.secret
           /\ new.enabled = read.enabled => Flushed(read, new, now).enabled = now.enabled
           /\ new.last = read.last => Flushed(read, new, now).last = now.last
BY DEF Flushed, Accounts

\* What was current when it was read is written as the request meant it.
LEMMA FlushedWrites ==
    ASSUME NEW read \in Accounts, NEW new \in Accounts, NEW now \in Accounts,
           SameFactor(read, now)
    PROVE  SameFactor(Flushed(read, new, now), new)
BY DEF Flushed, Accounts, SameFactor

\* A flag only falls if the request took it away; a group only comes if it gave it.
LEMMA FlushedLowers ==
    ASSUME NEW read \in Accounts, NEW new \in Accounts, NEW now \in Accounts
    PROVE  /\ now.active /\ ~Flushed(read, new, now).active => read.active /\ ~new.active
           /\ now.admin /\ ~Flushed(read, new, now).admin => read.admin /\ ~new.admin
           /\ Flushed(read, new, now).groups \subseteq now.groups \cup (new.groups \ read.groups)
BY DEF Flushed, Accounts

\* The secret is the one that is there or the one that is written.
LEMMA FlushedSecret ==
    ASSUME NEW read \in Accounts, NEW new \in Accounts, NEW now \in Accounts
    PROVE  Flushed(read, new, now).secret \in {now.secret, new.secret}
BY DEF Flushed, Accounts

\* The second factor of two accounts is the same if its columns are.
LEMMA FactorColumns ==
    ASSUME NEW a \in Accounts, NEW b \in Accounts, SecondFactor(a) = SecondFactor(b)
    PROVE  SameFactor(a, b)
BY DEF SecondFactor, SameFactor, Accounts

-----------------------------------------------------------------------------
(* Types                                                                   *)

\* Requests that open: with the account as it is, and a secret nobody has.
Opens(r) ==
    /\ req[r] = Idle
    /\ \E q \in Open :
         /\ req' = [req EXCEPT ![r] = q]
         /\ Meant(q) /\ ~q.done
         /\ q.user \in exists
         /\ q.read = account[q.user] /\ q.epoch = cuts[q.user]
         /\ IF q.op = "provision" THEN q.new.secret = edits + 1 /\ edits' = edits + 1
            ELSE q.new.secret \in {q.read.secret, 0}
    /\ edits' \in {edits, edits + 1} /\ edits' \in 0..MaxEdits
    /\ UNCHANGED <<ops, store, denied, step, cuts, confirmed, dropped, crossed>>

\* The transaction that Begin opens.
Opened(op, u, new, code, ends) ==
    [op |-> op, user |-> u, read |-> account[u], new |-> new, code |-> code, ends |-> ends,
     epoch |-> cuts[u], swept |-> {}, done |-> FALSE]

\* It is one, of the account as it is.
LEMMA BeginIs ==
    ASSUME Typed, NEW r \in Requests, NEW op \in Operations, NEW u \in Users,
           NEW new \in Accounts, NEW code \in Codes, NEW ends \in SUBSET {"admin", "sso"},
           Begin(r, op, u, new, code, ends)
    PROVE  /\ Opened(op, u, new, code, ends) \in Open
           /\ req[r] = Idle
           /\ req' = [req EXCEPT ![r] = Opened(op, u, new, code, ends)]
           /\ u \in exists
BY DEF Begin, Typed, TypeOK, Open, Opened

\* Every request opens so.
LEMMA BeginOpens ==
    ASSUME Typed, NEW r \in Requests, NEW u \in Users, BeginSome(r, u)
    PROVE  Opens(r)
<1> USE AccountsAssumption
<1>0. /\ account[u] \in Accounts /\ edits \in 0..MaxEdits
      /\ 0 \in Secrets /\ 0 \in Steps /\ NoCode \in Codes
      /\ {} \in SUBSET {"admin", "sso"}
  BY DEF Typed, TypeOK, NoCode, Codes, Secrets, Steps
<1>1. ASSUME NEW code \in Codes, NEW via \in DOMAIN Kind, BeginLogin(r, via, u, code)
      PROVE  Opens(r)
  <2> DEFINE new == IF code = NoCode THEN account[u] ELSE [account[u] EXCEPT !.last = code.step]
             q == Opened(via, u, new, code, {})
  <2>1. via \in Logins /\ via \in Operations
    BY DEF Kind, Logins, Operations
  <2>2. new \in Accounts
    BY <1>0 DEF Accounts, Codes
  <2>3. Begin(r, via, u, new, code, {})
    BY <1>1 DEF BeginLogin
  <2>4. q \in Open /\ req[r] = Idle /\ req' = [req EXCEPT ![r] = q] /\ u \in exists
    <3> HIDE DEF new
    <3> QED BY <1>0, <2>1, <2>2, <2>3, BeginIs
  <2>5. code = NoCode \/ Verifies(account[u], code)
    BY <1>1 DEF BeginLogin, Admitted, AdminLogin, OidcComplete, SsoLogin, PortalLogin, Authenticates
  <2>6. via = "sso" => account[u].active
    BY <1>1 DEF BeginLogin, Admitted, SsoLogin, Authenticates
  <2>7. Meant(q)
    BY <1>0, <2>1, <2>5, <2>6
       DEF Opened, Meant, Spends, Verifies, SameAccess, Logins, Updates, Accounts, Codes, Steps
  <2>8. q.new.secret = q.read.secret
    BY <1>0 DEF Opened, Accounts
  <2>9. UNCHANGED <<ops, store, denied, step, history>>
    BY <1>1 DEF BeginLogin
  <2> HIDE DEF new
  <2> QED
    BY <1>0, <2>1, <2>4, <2>7, <2>8, <2>9 DEF Opened, Opens, history, Logins
<1>2. ASSUME NEW code \in Codes, BeginConfirm(r, u, code)
      PROVE  Opens(r)
  <2> DEFINE new == [account[u] EXCEPT !.enabled = TRUE, !.last = code.step]
             q == Opened("confirm", u, new, code, {})
  <2>1. new \in Accounts
    BY <1>0 DEF Accounts, Codes
  <2>2. Begin(r, "confirm", u, new, code, {}) /\ Verifies(account[u], code)
    BY <1>2 DEF BeginConfirm
  <2>3. q \in Open /\ req[r] = Idle /\ req' = [req EXCEPT ![r] = q] /\ u \in exists
    <3>1. "confirm" \in Operations
      BY DEF Operations
    <3> HIDE DEF new
    <3> QED BY <1>0, <3>1, <2>1, <2>2, BeginIs
  <2>4. Meant(q)
    BY <1>0, <2>2 DEF Opened, Meant, Spends, Verifies, SameAccess, Logins, Updates, Accounts, Codes, Steps
  <2>5. q.new.secret = q.read.secret
    BY <1>0 DEF Opened, Accounts
  <2>6. UNCHANGED <<ops, store, denied, step, history>>
    BY <1>2 DEF BeginConfirm
  <2> HIDE DEF new
  <2> QED
    BY <1>0, <2>3, <2>4, <2>5, <2>6 DEF Opened, Opens, history
<1>3. CASE BeginProvision(r, u)
  <2> DEFINE new == [account[u] EXCEPT !.secret = edits', !.enabled = FALSE, !.last = 0]
             q == Opened("provision", u, new, NoCode, {})
  <2>1. edits' = edits + 1 /\ edits' \in 0..MaxEdits
    BY <1>0, <1>3 DEF BeginProvision, Edit
  <2>2. new \in Accounts
    <3>1. edits' \in Secrets
      BY <2>1 DEF Secrets
    <3> QED BY <1>0, <3>1 DEF Accounts
  <2>3. Begin(r, "provision", u, new, NoCode, {})
    BY <1>3 DEF BeginProvision
  <2>4. q \in Open /\ req[r] = Idle /\ req' = [req EXCEPT ![r] = q] /\ u \in exists
    <3>1. "provision" \in Operations
      BY DEF Operations
    <3> HIDE DEF new
    <3> QED BY <1>0, <3>1, <2>2, <2>3, BeginIs
  <2>5. Meant(q) /\ q.new.secret = edits + 1
    <3>1. /\ new.secret = edits + 1 /\ new.enabled = FALSE
          /\ new.active = account[u].active /\ new.admin = account[u].admin
          /\ new.groups = account[u].groups
      BY <1>0, <2>1 DEF Accounts
    <3>2. new.secret # 0
      BY <1>0, <3>1
    <3> HIDE DEF new
    <3> QED BY <3>1, <3>2 DEF Opened, Meant, SameAccess, Logins, Updates
  <2>6. UNCHANGED <<ops, store, denied, step, cuts, confirmed, dropped, crossed>>
    BY <1>3 DEF BeginProvision
  <2> HIDE DEF new
  <2> QED
    BY <2>1, <2>4, <2>5, <2>6 DEF Opened, Opens
<1>4. CASE BeginDisable(r, u)
  <2> DEFINE new == [account[u] EXCEPT !.secret = 0, !.enabled = FALSE, !.last = 0]
             q == Opened("disable", u, new, NoCode, {})
  <2>1. edits' = edits + 1 /\ edits' \in 0..MaxEdits
    BY <1>0, <1>4 DEF BeginDisable, Edit
  <2>2. new \in Accounts
    BY <1>0 DEF Accounts
  <2>3. Begin(r, "disable", u, new, NoCode, {})
    BY <1>4 DEF BeginDisable
  <2>4. q \in Open /\ req[r] = Idle /\ req' = [req EXCEPT ![r] = q] /\ u \in exists
    <3>1. "disable" \in Operations
      BY DEF Operations
    <3> HIDE DEF new
    <3> QED BY <1>0, <3>1, <2>2, <2>3, BeginIs
  <2>5. Meant(q) /\ q.new.secret = 0
    BY <1>0 DEF Opened, Meant, SameAccess, Logins, Updates, Accounts
  <2>6. UNCHANGED <<ops, store, denied, step, cuts, confirmed, dropped, crossed>>
    BY <1>4 DEF BeginDisable
  <2> HIDE DEF new
  <2> QED
    BY <2>1, <2>4, <2>5, <2>6 DEF Opened, Opens
<1>5. ASSUME NEW op \in Updates, NEW new \in Accounts, NEW ends \in SUBSET {"admin", "sso"},
             Begin(r, op, u, new, NoCode, ends), Edit,
             UNCHANGED <<ops, store, denied, step, cuts, confirmed, dropped, crossed>>,
             SameFactor(new, account[u]),
             (account[u].active /\ ~new.active) \/ (account[u].admin /\ ~new.admin) => ends = {"admin", "sso"},
             account[u].password # new.password => "admin" \in ends,
             account[u].groups # new.groups => "sso" \in ends
      PROVE  Opens(r)
  <2> DEFINE q == Opened(op, u, new, NoCode, ends)
  <2>1. op \in Operations
    BY <1>5 DEF Updates, Operations
  <2>2. q \in Open /\ req[r] = Idle /\ req' = [req EXCEPT ![r] = q] /\ u \in exists
    BY <1>0, <1>5, <2>1, BeginIs
  <2>3. Taken(q) \subseteq q.ends
    BY <1>5 DEF Opened, Taken
  <2>4. Meant(q) /\ op # "provision" /\ new.secret = account[u].secret
    BY <1>5, <2>3 DEF Opened, Meant, Updates, Logins, SameFactor
  <2>5. edits' = edits + 1 /\ edits' \in 0..MaxEdits
    BY <1>0, <1>5 DEF Edit
  <2> QED
    BY <1>5, <2>2, <2>4, <2>5 DEF Opened, Opens
<1>6. ASSUME NEW field \in {"active", "admin"}, NEW b \in BOOLEAN, BeginFlag(r, u, field, b)
      PROVE  Opens(r)
  <2> DEFINE new == [account[u] EXCEPT ![field] = b]
             ends == IF b THEN {} ELSE {"admin", "sso"}
  <2>1. new \in Accounts
    BY <1>0 DEF Accounts
  <2>2. SameFactor(new, account[u]) /\ new.password = account[u].password
        /\ new.groups = account[u].groups
    BY <1>0 DEF Accounts, SameFactor
  <2>3. b => ~(account[u].active /\ ~new.active) /\ ~(account[u].admin /\ ~new.admin)
    BY <1>0 DEF Accounts
  <2>4. Begin(r, "flag", u, new, NoCode, ends) /\ Edit
        /\ UNCHANGED <<ops, store, denied, step, cuts, confirmed, dropped, crossed>>
    BY <1>6 DEF BeginFlag
  <2>5. "flag" \in Updates /\ ends \in SUBSET {"admin", "sso"}
    BY DEF Updates
  <2>6. ~b => ends = {"admin", "sso"}
    OBVIOUS
  <2> HIDE DEF new, ends
  <2> QED
    BY <1>5, <2>1, <2>2, <2>3, <2>4, <2>5, <2>6
<1>7. CASE BeginPassword(r, u)
  <2> DEFINE new == [account[u] EXCEPT !.password = edits']
  <2>1. Begin(r, "password", u, new, NoCode, {"admin"}) /\ Edit
        /\ UNCHANGED <<ops, store, denied, step, cuts, confirmed, dropped, crossed>>
    BY <1>7 DEF BeginPassword
  <2>2. new \in Accounts
    BY <1>0, <2>1 DEF Accounts, Edit
  <2>3. SameFactor(new, account[u]) /\ SameAccess(new, account[u])
    BY <1>0 DEF Accounts, SameFactor, SameAccess
  <2>4. "password" \in Updates /\ {"admin"} \in SUBSET {"admin", "sso"}
    BY DEF Updates
  <2> HIDE DEF new
  <2> QED
    BY <1>5, <2>1, <2>2, <2>3, <2>4 DEF SameAccess
<1>8. ASSUME NEW G \in SUBSET Groups, BeginGroups(r, u, G)
      PROVE  Opens(r)
  <2> DEFINE new == [account[u] EXCEPT !.groups = G]
             ends == IF account[u].groups = G THEN {} ELSE {"sso"}
  <2>1. Begin(r, "groups", u, new, NoCode, ends) /\ Edit
        /\ UNCHANGED <<ops, store, denied, step, cuts, confirmed, dropped, crossed>>
    BY <1>8 DEF BeginGroups
  <2>2. new \in Accounts
    BY <1>0 DEF Accounts
  <2>3. /\ SameFactor(new, account[u]) /\ new.password = account[u].password
        /\ new.active = account[u].active /\ new.admin = account[u].admin /\ new.groups = G
    BY <1>0 DEF Accounts, SameFactor
  <2>4. "groups" \in Updates /\ ends \in SUBSET {"admin", "sso"}
    BY DEF Updates
  <2>5. account[u].groups # G => "sso" \in ends
    OBVIOUS
  <2> HIDE DEF new, ends
  <2> QED
    BY <1>5, <2>1, <2>2, <2>3, <2>4, <2>5
<1> QED
  BY <1>1, <1>2, <1>3, <1>4, <1>6, <1>7, <1>8 DEF BeginSome

\* An open request is one of the transactions of the model.
LEMMA OpenIs ==
    ASSUME Typed, NEW r \in Requests, req[r] # Idle
    PROVE  /\ req[r] \in Open /\ Meant(req[r])
           /\ req[r].user \in Users /\ account[req[r].user] \in Accounts
           /\ req[r].read \in Accounts /\ req[r].new \in Accounts /\ req[r].code \in Codes
           /\ Flushed(req[r].read, req[r].new, account[req[r].user]) \in Accounts
<1>1. req[r] \in Open /\ Meant(req[r])
  BY DEF Typed, TypeOK
<1>2. /\ req[r].user \in Users /\ req[r].read \in Accounts /\ req[r].new \in Accounts
      /\ req[r].code \in Codes
  BY <1>1 DEF Open
<1>3. account[req[r].user] \in Accounts
  BY <1>2 DEF Typed, TypeOK
<1> QED
  BY <1>1, <1>2, <1>3, FlushedTyped

\* A request of a known operation is open.
LEMMA OpenOp ==
    ASSUME NEW r \in Requests, req[r].op \in Operations
    PROVE  req[r] # Idle
BY DEF Idle, Operations

\* The rows and the transactions to start from.
LEMMA TypedInit == Init => Typed
<1> SUFFICES ASSUME Init PROVE Typed
  OBVIOUS
<1> USE AccountsAssumption
<1>1. PICK w \in Users : \A i \in Ids : row[i] = Unopened(w)
  BY DEF Init
<1>2. Unopened(w) \in Rows
  BY DEF Unopened, Rows, Cuts, Codes, NoCode, Secrets, Steps
<1>3. row \in [Ids -> Rows]
  BY <1>1, <1>2 DEF Init
<1>4. account \in [Users -> Accounts]
  BY DEF Init, Accounts, Secrets, Steps
<1>5. cuts \in [Users -> Cuts] /\ req \in [Requests -> Open \cup {Idle}]
  BY DEF Init, Cuts
<1>6. step \in Steps /\ edits \in 0..MaxEdits
  BY DEF Init, Steps
<1>7. \A r \in Requests : req[r] = Idle
  BY DEF Init
<1>8. ops \in Scenarios /\ exists \subseteq Users /\ denied \subseteq Ids
      /\ confirmed \subseteq Secrets /\ dropped \subseteq Groups /\ crossed \in BOOLEAN
  BY DEF Init
<1> QED
  BY <1>3, <1>4, <1>5, <1>6, <1>7, <1>8 DEF Typed, TypeOK

\* Closing a request and leaving the others keeps the transactions typed.
LEMMA CloseTyped ==
    ASSUME Typed, NEW r \in Requests, Close(r)
    PROVE  /\ req' \in [Requests -> Open \cup {Idle}]
           /\ \A o \in Requests : req'[o] # Idle => Meant(req[o]) /\ req'[o] = req[o]
BY DEF Typed, TypeOK, Close

\* Every step keeps the types.
LEMMA TypedStep == Typed /\ [Next]_vars => Typed'
<1> SUFFICES ASSUME Typed, [Next]_vars PROVE Typed'
  OBVIOUS
<1> USE AccountsAssumption
<1>1. ASSUME NEW r \in Requests, NEW u \in Users, BeginSome(r, u)
      PROVE  Typed'
  <2>1. Opens(r)
    BY <1>1, BeginOpens
  <2>2. PICK q \in Open : req' = [req EXCEPT ![r] = q] /\ Meant(q)
    BY <2>1 DEF Opens
  <2>3. req' \in [Requests -> Open \cup {Idle}]
        /\ \A o \in Requests : req'[o] # Idle => Meant(req'[o])
    BY <2>2 DEF Typed, TypeOK
  <2> QED
    BY <2>1, <2>3 DEF Opens, Typed, TypeOK, store, Meant, Taken, Ids
<1>2. ASSUME NEW r \in Requests, Sweep(r)
      PROVE  Typed'
  <2>1. req[r] # Idle /\ req[r] \in Open /\ Meant(req[r])
    BY <1>2, OpenIs DEF Sweep
  <2> DEFINE S == {i \in Ids : Live(i) /\ row[i].user = req[r].user /\ row[i].kind \in req[r].ends}
             q == [req[r] EXCEPT !.done = TRUE, !.swept = S]
  <2>2. req' = [req EXCEPT ![r] = q]
    BY <1>2 DEF Sweep, Typed, TypeOK
  <2>3. S \in SUBSET Ids
    OBVIOUS
  <2>4. q \in Open
    <3> HIDE DEF S
    <3> QED BY <2>1, <2>3 DEF Open
  <2>5. /\ q.op = req[r].op /\ q.read = req[r].read /\ q.new = req[r].new
        /\ q.ends = req[r].ends /\ q.code = req[r].code
    <3> HIDE DEF S
    <3> QED BY <2>1 DEF Open
  <2>6. Meant(q)
    <3> HIDE DEF q
    <3> QED BY <2>1, <2>5 DEF Meant, Taken, Spends
  <2>7. req' \in [Requests -> Open \cup {Idle}]
        /\ \A o \in Requests : req'[o] # Idle => Meant(req'[o])
    <3> HIDE DEF q
    <3> QED BY <2>2, <2>4, <2>6 DEF Typed, TypeOK
  <2> QED
    BY <1>2, <2>7 DEF Sweep, Typed, TypeOK, store, history
<1>3. ASSUME NEW r \in Requests, CommitUpdate(r)
      PROVE  Typed'
  <2> DEFINE q == req[r]
  <2>1. q # Idle /\ Close(r)
    BY <1>3, OpenOp DEF CommitUpdate, Operations
  <2>2. q.user \in Users /\ Flushed(q.read, q.new, account[q.user]) \in Accounts
    BY <2>1, OpenIs
  <2>3. account' = [account EXCEPT ![q.user] = Flushed(q.read, q.new, @)]
    BY <1>3 DEF CommitUpdate
  <2>4. account' \in [Users -> Accounts]
    BY <2>2, <2>3 DEF Typed, TypeOK
  <2>5. row' \in [Ids -> Rows]
    <3>1. \A i \in Ids : [row[i] EXCEPT !.revoked = TRUE] \in Rows
      BY DEF Typed, TypeOK, Rows
    <3> QED BY <1>3, <3>1 DEF CommitUpdate, Typed, TypeOK
  <2>6. cuts' \in [Users -> Cuts]
    <3>1. cuts[q.user] \in Cuts
      BY <2>2 DEF Typed, TypeOK
    <3> DEFINE c == [k \in {"admin", "sso"} |-> IF k \in Taken(q) THEN cuts[q.user][k] + 1
                                                                 ELSE cuts[q.user][k]]
    <3>2. c \in Cuts
      BY <3>1 DEF Cuts
    <3>3. cuts' = [cuts EXCEPT ![q.user] = c]
      BY <1>3 DEF CommitUpdate
    <3> HIDE DEF c
    <3> QED BY <3>2, <3>3 DEF Typed, TypeOK
  <2> QED
    BY <1>3, <2>1, <2>4, <2>5, <2>6, CloseTyped DEF CommitUpdate, Typed, TypeOK
<1>4. ASSUME NEW r \in Requests, CommitTotp(r)
      PROVE  Typed'
  <2> DEFINE q == req[r]
  <2>1. q # Idle /\ Close(r)
    BY <1>4, OpenOp DEF CommitTotp, Operations
  <2>2. q.user \in Users /\ Flushed(q.read, q.new, account[q.user]) \in Accounts /\ q.code \in Codes
    BY <2>1, OpenIs
  <2>3. account' = [account EXCEPT ![q.user] = Flushed(q.read, q.new, @)]
        /\ confirmed' \in {confirmed, confirmed \cup {q.code.secret}} /\ crossed' \in BOOLEAN
    BY <1>4 DEF CommitTotp
  <2>4. account' \in [Users -> Accounts] /\ confirmed' \subseteq Secrets
    BY <2>2, <2>3 DEF Typed, TypeOK, Codes
  <2> QED
    BY <1>4, <2>1, <2>3, <2>4, CloseTyped DEF CommitTotp, Typed, TypeOK
<1>5. ASSUME NEW r \in Requests, CommitLogin(r)
      PROVE  Typed'
  <2> DEFINE q == req[r]
  <2>1. q # Idle /\ Close(r) /\ Kind[q.op] \in {"admin", "sso", "portal"}
    BY <1>5, OpenOp DEF CommitLogin, Operations, Kind
  <2>2. /\ q.user \in Users /\ Flushed(q.read, q.new, account[q.user]) \in Accounts
        /\ q.code \in Codes /\ q \in Open
    BY <2>1, OpenIs
  <2>3. account' = [account EXCEPT ![q.user] = Flushed(q.read, q.new, @)] /\ crossed' \in BOOLEAN
    BY <1>5 DEF CommitLogin
  <2>4. account' \in [Users -> Accounts]
    BY <2>2, <2>3 DEF Typed, TypeOK
  <2>5. row' \in [Ids -> Rows]
    <3> DEFINE n == [kind |-> Kind[q.op], user |-> q.user,
                     admin |-> q.read.admin, groups |-> q.read.groups,
                     revoked |-> FALSE, expired |-> FALSE, gone |-> FALSE,
                     epoch |-> q.epoch, code |-> q.code,
                     raced |-> q.epoch # cuts[q.user] \/ Sweeping(q.user, Kind[q.op])]
    <3>1. q.read \in Accounts /\ q.epoch \in Cuts
      BY <2>2 DEF Open
    <3>2. n \in Rows
      BY <2>1, <2>2, <3>1 DEF Rows, Accounts
    <3>3. \E i \in Ids : row' = [row EXCEPT ![i] = n]
      BY <1>5 DEF CommitLogin
    <3> HIDE DEF n
    <3> QED BY <3>2, <3>3 DEF Typed, TypeOK
  <2> QED
    BY <1>5, <2>1, <2>3, <2>4, <2>5, CloseTyped DEF CommitLogin, Typed, TypeOK
<1>6. ASSUME NEW r \in Requests, Abort(r)
      PROVE  Typed'
  BY <1>6, CloseTyped DEF Abort, Typed, TypeOK, store, history
<1>7. ASSUME NEW u \in Users, DeleteUser(u)
      PROVE  Typed'
  <2>1. row' \in [Ids -> Rows]
    <3>1. \A i \in Ids : [row[i] EXCEPT !.gone = TRUE] \in Rows
      BY DEF Typed, TypeOK, Rows
    <3> QED BY <1>7, <3>1 DEF DeleteUser, Typed, TypeOK
  <2>2. edits' \in 0..MaxEdits
    BY <1>7 DEF DeleteUser, Edit, Typed, TypeOK
  <2> QED
    BY <1>7, <2>1, <2>2 DEF DeleteUser, Typed, TypeOK
<1>8. ASSUME NEW g \in Groups, DeleteGroup(g)
      PROVE  Typed'
  <2>1. account' \in [Users -> Accounts]
    <3>1. \A u \in Users : [account[u] EXCEPT !.groups = @ \ {g}] \in Accounts
      BY DEF Typed, TypeOK, Accounts
    <3> QED BY <1>8, <3>1 DEF DeleteGroup
  <2>2. edits' \in 0..MaxEdits /\ dropped' \subseteq Groups
    BY <1>8 DEF DeleteGroup, Edit, Typed, TypeOK
  <2> QED
    BY <1>8, <2>1, <2>2 DEF DeleteGroup, Typed, TypeOK
<1>9. ASSUME NEW i \in Ids, Revoke(i) \/ Expire(i)
      PROVE  Typed'
  <2>1. [row[i] EXCEPT !.revoked = TRUE] \in Rows /\ [row[i] EXCEPT !.expired = TRUE] \in Rows
    BY DEF Typed, TypeOK, Rows
  <2>2. row' \in [Ids -> Rows]
    BY <1>9, <2>1 DEF Revoke, Expire, Typed, TypeOK
  <2> QED
    BY <1>9, <2>2 DEF Revoke, Expire, Typed, TypeOK, history
<1>10. CASE Push
  BY <1>10 DEF Push, Denylist, Typed, TypeOK, store, history
<1>11. CASE Tick
  BY <1>11 DEF Tick, Typed, TypeOK, Steps, store, history
<1>12. CASE UNCHANGED vars
  BY <1>12 DEF vars, Typed, TypeOK, store, history
<1> QED
  BY <1>1, <1>2, <1>3, <1>4, <1>5, <1>6, <1>7, <1>8, <1>9, <1>10, <1>11, <1>12
     DEF Next, AdminLogout, SsoLogout, RevokeAdminSession, RevokeSsoSession

\* Every column of an account, of a session row and of an open request stays in
\* range, and each request writes what its operation means.
THEOREM AccountsTypeCorrect == Spec => []TypeOK
<1>1. Typed => TypeOK
  BY DEF Typed
<1> QED
  BY <1>1, TypedInit, TypedStep, PTL DEF Spec
-----------------------------------------------------------------------------
(* Sessions that are current                                               *)

\* A session that counts: live, and not opened while it should have ended.
Counts(i) == Live(i) /\ ~row[i].raced

\* What an edit ends, once it has looked, are all the sessions that count: one
\* that is opened before the edit commits is raced.
SweptAll ==
    \A r \in Requests : req[r] # Idle /\ req[r].done =>
        \A i \in Ids :
            Counts(i) /\ row[i].user = req[r].user /\ row[i].kind \in req[r].ends
                => i \in req[r].swept

\* An administrator's session that counts is of the last cut.
AdminCounts ==
    \A i \in Ids : Counts(i) /\ row[i].kind = "admin" => row[i].epoch.admin = cuts[row[i].user].admin

\* A cookie that counts claims what the account is.
ClaimsCount == \A i \in Ids : Counts(i) /\ row[i].kind = "sso" => Claims(i)

\* So does the sign-in that is about to issue one, as long as nothing was cut.
SameClaims(q) ==
    LET acc == account[q.user] IN
    /\ acc.active
    /\ q.read.admin => acc.admin
    /\ q.read.groups \ dropped = acc.groups
AboutToClaim ==
    \A r \in Requests : req[r] # Idle /\ req[r].op = "sso" =>
        /\ req[r].epoch.sso <= cuts[req[r].user].sso
        /\ req[r].epoch.sso = cuts[req[r].user].sso => SameClaims(req[r])

\* Nobody is in a group that is gone, and only a deleted account's rows are gone.
NoDroppedGroup == \A u \in Users : account[u].groups \cap dropped = {}
GoneWithUser == \A i \in Ids : row[i].kind # "none" /\ row[i].gone => row[i].user \notin exists

SessionInv == SweptAll /\ AdminCounts /\ ClaimsCount /\ AboutToClaim /\ NoDroppedGroup /\ GoneWithUser

\* Nothing is open and nobody has signed in.
LEMMA SessionInit == Init => SessionInv
<1> SUFFICES ASSUME Init PROVE SessionInv
  OBVIOUS
<1>1. \A i \in Ids : row[i].kind = "none"
  BY DEF Init, Unopened
<1>2. \A r \in Requests : req[r] = Idle
  BY DEF Init
<1>3. dropped = {}
  BY DEF Init
<1> QED
  BY <1>1, <1>2, <1>3
     DEF SessionInv, SweptAll, AdminCounts, ClaimsCount, AboutToClaim, NoDroppedGroup, GoneWithUser,
         Counts, Live

\* A request that opens has read what is there.
LEMMA SessionOpens ==
    ASSUME Typed, SessionInv, NEW r \in Requests, Opens(r)
    PROVE  SessionInv'
<1>1. PICK q \in Open : /\ req' = [req EXCEPT ![r] = q]
                        /\ ~q.done /\ q.user \in exists /\ Meant(q)
                        /\ q.read = account[q.user] /\ q.epoch = cuts[q.user]
  BY DEF Opens
<1>2. req'[r] = q /\ \A o \in Requests \ {r} : req'[o] = req[o]
  BY <1>1 DEF Typed, TypeOK
<1>3. UNCHANGED <<account, exists, row, cuts, dropped>>
  BY DEF Opens, store
<1>4. SweptAll'
  BY <1>1, <1>2, <1>3 DEF SessionInv, SweptAll, Counts, Live
<1>5. AboutToClaim'
  <2>1. q.user \in Users /\ cuts[q.user] \in Cuts
    BY <1>1 DEF Open, Typed, TypeOK
  <2>2. q.op = "sso" => q.epoch.sso <= cuts[q.user].sso /\ SameClaims(q)
    <3>1. account[q.user].groups \ dropped = account[q.user].groups
      BY <2>1 DEF SessionInv, NoDroppedGroup
    <3> QED
      BY <1>1, <2>1, <3>1 DEF Meant, SameClaims, Cuts
  <2> QED
    BY <1>2, <1>3, <2>2 DEF SessionInv, AboutToClaim, SameClaims
<1> QED
  BY <1>3, <1>4, <1>5
     DEF SessionInv, AdminCounts, ClaimsCount, NoDroppedGroup, GoneWithUser, Counts, Live, Claims

\* Looking for the sessions to end finds those that count.
LEMMA SessionSweep ==
    ASSUME Typed, SessionInv, NEW r \in Requests, Sweep(r)
    PROVE  SessionInv'
<1>1. req[r] \in Open /\ req[r] # Idle
  BY OpenIs DEF Sweep
<1> DEFINE S == {i \in Ids : Live(i) /\ row[i].user = req[r].user /\ row[i].kind \in req[r].ends}
<1>2. req' = [req EXCEPT ![r] = [req[r] EXCEPT !.done = TRUE, !.swept = S]]
  BY DEF Sweep, Typed, TypeOK
<1>3. /\ req'[r].user = req[r].user /\ req'[r].ends = req[r].ends /\ req'[r].swept = S
      /\ req'[r].op = req[r].op /\ req'[r].read = req[r].read /\ req'[r].epoch = req[r].epoch
      /\ \A o \in Requests \ {r} : req'[o] = req[o]
  <2> HIDE DEF S
  <2> QED BY <1>1, <1>2 DEF Typed, TypeOK, Open
<1>4. UNCHANGED <<account, exists, row, cuts, dropped>>
  BY DEF Sweep, store, history
<1>5. SweptAll'
  <2> SUFFICES ASSUME NEW o \in Requests, req'[o] # Idle /\ req'[o].done, NEW i \in Ids,
                      Counts(i)', row'[i].user = req'[o].user, row'[i].kind \in req'[o].ends
               PROVE  i \in req'[o].swept
    BY DEF SweptAll
  <2>1. CASE o = r
    BY <1>3, <1>4, <2>1 DEF Counts, Live
  <2>2. CASE o # r
    BY <1>3, <1>4, <2>2 DEF SessionInv, SweptAll, Counts, Live
  <2> QED
    BY <2>1, <2>2
<1>6. AboutToClaim'
  <2> HIDE DEF S
  <2> QED BY <1>1, <1>3, <1>4 DEF SessionInv, AboutToClaim, SameClaims
<1> QED
  BY <1>4, <1>5, <1>6
     DEF SessionInv, AdminCounts, ClaimsCount, NoDroppedGroup, GoneWithUser, Counts, Live, Claims

\* Rows that are unchanged or have ended keep what is said of the rows that count.
Narrowed ==
    \A i \in Ids : /\ row'[i].kind = row[i].kind /\ row'[i].user = row[i].user
                   /\ row'[i].epoch = row[i].epoch /\ row'[i].raced = row[i].raced
                   /\ row'[i].admin = row[i].admin /\ row'[i].groups = row[i].groups
                   /\ Counts(i)' => Counts(i)

\* An edit lowers an account only with the cookies and sessions that it ends.
LEMMA SessionUpdate ==
    ASSUME Typed, SessionInv, NEW r \in Requests, CommitUpdate(r)
    PROVE  SessionInv'
<1> DEFINE q == req[r]
           acc == account[q.user]
           new == Flushed(q.read, q.new, acc)
<1>1. q.op \in Updates /\ q # Idle /\ q \in Open /\ Meant(q)
      /\ q.user \in Users /\ acc \in Accounts /\ new \in Accounts
      /\ q.read \in Accounts /\ q.new \in Accounts
  BY OpenOp, OpenIs DEF CommitUpdate, Updates, Operations
<1>2. Taken(q) \subseteq q.ends /\ (q.done \/ q.ends = {})
  BY <1>1 DEF Meant, CommitUpdate
<1>3. /\ req'[r] = Idle /\ \A o \in Requests \ {r} : req'[o] = req[o]
      /\ UNCHANGED <<exists, dropped>>
  BY DEF CommitUpdate, Close, Typed, TypeOK
<1>4. account'[q.user] = new /\ \A u \in Users \ {q.user} : account'[u] = account[u]
  BY <1>1 DEF CommitUpdate, Typed, TypeOK
<1>5. \A i \in Ids : row'[i] = IF i \in q.swept THEN [row[i] EXCEPT !.revoked = TRUE] ELSE row[i]
  BY DEF CommitUpdate
<1>6. Narrowed /\ \A i \in Ids : i \in q.swept => ~Counts(i)'
  BY <1>5 DEF Narrowed, Counts, Live, Typed, TypeOK, Rows
<1>7. \A i \in Ids : row'[i].gone = row[i].gone
  BY <1>5 DEF Typed, TypeOK, Rows
<1>8. /\ cuts[q.user] \in Cuts
      /\ cuts'[q.user] = [k \in {"admin", "sso"} |-> IF k \in Taken(q) THEN cuts[q.user][k] + 1
                                                                      ELSE cuts[q.user][k]]
      /\ \A u \in Users \ {q.user} : cuts'[u] = cuts[u]
  BY <1>1 DEF CommitUpdate, Typed, TypeOK
<1>9. /\ cuts'[q.user].admin = IF "admin" \in Taken(q) THEN cuts[q.user].admin + 1
                                ELSE cuts[q.user].admin
      /\ cuts'[q.user].sso = IF "sso" \in Taken(q) THEN cuts[q.user].sso + 1 ELSE cuts[q.user].sso
  BY <1>8 DEF Cuts
\* An account that is not lowered keeps its claims true.
<1>10. "sso" \notin Taken(q) =>
         (acc.active => new.active) /\ (acc.admin => new.admin) /\ new.groups = acc.groups
  <2>1. "sso" \notin Taken(q) =>
          /\ ~(q.read.active /\ ~q.new.active) /\ ~(q.read.admin /\ ~q.new.admin)
          /\ q.read.groups = q.new.groups
    BY DEF Taken
  <2> QED
    BY <1>1, <2>1, FlushedLowers, FlushedKeeps
\* The sessions that count and are of a kind that was taken are swept.
<1>11. \A i \in Ids : Counts(i)' /\ row[i].user = q.user => row[i].kind \notin Taken(q)
  BY <1>1, <1>2, <1>6 DEF Narrowed, SessionInv, SweptAll
<1>12. SweptAll'
  BY <1>3, <1>6 DEF SessionInv, SweptAll, Narrowed
<1>13. AdminCounts'
  <2> SUFFICES ASSUME NEW i \in Ids, Counts(i)', row'[i].kind = "admin"
               PROVE  row'[i].epoch.admin = cuts'[row'[i].user].admin
    BY DEF AdminCounts
  <2>1. /\ Counts(i) /\ row[i].kind = "admin" /\ row[i].epoch.admin = cuts[row[i].user].admin
        /\ row'[i].user = row[i].user /\ row'[i].epoch = row[i].epoch /\ row[i].user \in Users
    BY <1>6 DEF Narrowed, SessionInv, AdminCounts, Typed, TypeOK, Rows
  <2>2. CASE row[i].user = q.user
    BY <1>9, <1>11, <2>1, <2>2
  <2>3. CASE row[i].user # q.user
    BY <1>8, <2>1, <2>3
  <2> QED
    BY <2>2, <2>3
<1>14. ClaimsCount'
  <2> SUFFICES ASSUME NEW i \in Ids, Counts(i)', row'[i].kind = "sso"
               PROVE  Claims(i)'
    BY DEF ClaimsCount
  <2>1. /\ Counts(i) /\ row[i].kind = "sso" /\ Claims(i) /\ row[i].user \in Users
        /\ row'[i].user = row[i].user /\ row'[i].admin = row[i].admin
        /\ row'[i].groups = row[i].groups
    BY <1>6 DEF Narrowed, SessionInv, ClaimsCount, Typed, TypeOK, Rows
  <2>2. CASE row[i].user = q.user
    BY <1>3, <1>4, <1>10, <1>11, <2>1, <2>2 DEF Claims
  <2>3. CASE row[i].user # q.user
    BY <1>3, <1>4, <2>1, <2>3 DEF Claims
  <2> QED
    BY <2>2, <2>3
<1>15. AboutToClaim'
  <2> SUFFICES ASSUME NEW o \in Requests \ {r}, req[o] # Idle, req[o].op = "sso"
               PROVE  /\ req[o].epoch.sso <= cuts'[req[o].user].sso
                      /\ req[o].epoch.sso = cuts'[req[o].user].sso =>
                           LET a == account'[req[o].user] IN
                           /\ a.active /\ (req[o].read.admin => a.admin)
                           /\ req[o].read.groups \ dropped' = a.groups
    BY <1>3 DEF AboutToClaim, SameClaims
  <2>1. /\ req[o].epoch.sso <= cuts[req[o].user].sso
        /\ req[o].epoch.sso = cuts[req[o].user].sso => SameClaims(req[o])
        /\ req[o].user \in Users /\ req[o].epoch \in Cuts /\ cuts[req[o].user] \in Cuts
    BY OpenIs DEF SessionInv, AboutToClaim, Open, Typed, TypeOK
  <2>2. CASE req[o].user # q.user
    BY <1>3, <1>4, <1>8, <2>1, <2>2 DEF SameClaims
  <2>3. CASE req[o].user = q.user /\ "sso" \in Taken(q)
    <3>1. cuts'[q.user].sso = cuts[q.user].sso + 1
      BY <1>9, <2>3
    <3>2. req[o].epoch.sso \in Nat /\ cuts[q.user].sso \in Nat
      BY <2>1, <2>3 DEF Cuts
    <3>3. req[o].epoch.sso < cuts'[q.user].sso
      BY <2>1, <2>3, <3>1, <3>2
    <3> QED BY <2>3, <3>1, <3>2, <3>3
  <2>4. CASE req[o].user = q.user /\ "sso" \notin Taken(q)
    <3>1. cuts'[q.user].sso = cuts[q.user].sso
      BY <1>9, <2>4
    <3> QED BY <1>3, <1>4, <1>10, <2>1, <2>4, <3>1 DEF SameClaims
  <2> QED
    BY <2>2, <2>3, <2>4
<1>16. NoDroppedGroup'
  <2>1. (q.new.groups \ q.read.groups) \cap dropped = {}
    BY DEF CommitUpdate, Fits
  <2>2. new.groups \subseteq acc.groups \cup (q.new.groups \ q.read.groups)
    BY <1>1, FlushedLowers
  <2>3. acc.groups \cap dropped = {}
    BY <1>1 DEF SessionInv, NoDroppedGroup
  <2> HIDE DEF new, acc
  <2>4. new.groups \cap dropped = {}
    BY <2>1, <2>2, <2>3
  <2> QED
    BY <1>3, <1>4, <2>4 DEF SessionInv, NoDroppedGroup
<1>17. GoneWithUser'
  BY <1>3, <1>6, <1>7 DEF Narrowed, SessionInv, GoneWithUser
<1> QED
  BY <1>12, <1>13, <1>14, <1>15, <1>16, <1>17 DEF SessionInv

\* Closing a request that leaves accounts' access and the rows as they are.
LEMMA SessionCloses ==
    ASSUME Typed, SessionInv, NEW r \in Requests, Close(r),
           UNCHANGED <<exists, row, cuts, dropped>>,
           \A u \in Users : SameAccess(account[u], account'[u])
    PROVE  SessionInv'
<1>1. req'[r] = Idle /\ \A o \in Requests \ {r} : req'[o] = req[o]
  BY DEF Close, Typed, TypeOK
<1>2. \A i \in Ids : row[i].user \in Users
  BY DEF Typed, TypeOK, Rows
<1>3. \A o \in Requests : req[o] # Idle => req[o].user \in Users
  BY OpenIs
<1>4. SweptAll' /\ AdminCounts'
  BY <1>1 DEF SessionInv, SweptAll, AdminCounts, Counts, Live
<1>5. ClaimsCount'
  BY <1>2 DEF SessionInv, ClaimsCount, Claims, Counts, Live, SameAccess
<1>6. AboutToClaim'
  BY <1>1, <1>3 DEF SessionInv, AboutToClaim, SameClaims, SameAccess
<1>7. NoDroppedGroup' /\ GoneWithUser'
  BY DEF SessionInv, NoDroppedGroup, GoneWithUser, SameAccess
<1> QED
  BY <1>4, <1>5, <1>6, <1>7 DEF SessionInv

\* What the second factor writes is nobody's claim.
LEMMA SessionTotp ==
    ASSUME Typed, SessionInv, NEW r \in Requests, CommitTotp(r)
    PROVE  SessionInv'
<1> DEFINE q == req[r]
<1>1. q.op \in Operations \ Updates /\ q # Idle
  BY OpenOp DEF CommitTotp, Updates, Operations
<1>2. /\ Meant(q) /\ q.user \in Users /\ account[q.user] \in Accounts
      /\ q.read \in Accounts /\ q.new \in Accounts
  BY <1>1, OpenIs
<1>3. SameAccess(account[q.user], Flushed(q.read, q.new, account[q.user]))
  BY <1>1, <1>2, FlushedKeeps DEF Meant, SameAccess
<1>4. \A u \in Users : SameAccess(account[u], account'[u])
  BY <1>2, <1>3 DEF CommitTotp, Typed, TypeOK, SameAccess
<1> QED
  BY <1>4, SessionCloses DEF CommitTotp

\* A session is opened with claims that are true and of the last cut, or raced.
LEMMA SessionLogin ==
    ASSUME Typed, SessionInv, NEW r \in Requests, CommitLogin(r)
    PROVE  SessionInv'
<1> DEFINE q == req[r]
           kind == Kind[q.op]
<1>1. q.op \in Operations \ Updates /\ q # Idle /\ q.op \in Logins /\ kind \in {"admin", "sso", "portal"}
  BY OpenOp DEF CommitLogin, Kind, Updates, Operations, Logins
<1>2. /\ Meant(q) /\ q.user \in Users /\ account[q.user] \in Accounts /\ q \in Open
      /\ q.read \in Accounts /\ q.new \in Accounts
  BY <1>1, OpenIs
<1>3. \A u \in Users : SameAccess(account[u], account'[u])
  <2>1. SameAccess(account[q.user], Flushed(q.read, q.new, account[q.user]))
    BY <1>1, <1>2, FlushedKeeps DEF Meant, SameAccess
  <2> QED
    BY <1>2, <2>1 DEF CommitLogin, Typed, TypeOK, SameAccess
<1>4. /\ req'[r] = Idle /\ \A o \in Requests \ {r} : req'[o] = req[o]
      /\ UNCHANGED <<exists, cuts, dropped>> /\ q.user \in exists
  BY DEF CommitLogin, Close, Fits, Typed, TypeOK
<1> DEFINE n == [kind |-> Kind[q.op], user |-> q.user,
                 admin |-> q.read.admin, groups |-> q.read.groups,
                 revoked |-> FALSE, expired |-> FALSE, gone |-> FALSE,
                 epoch |-> q.epoch, code |-> q.code,
                 raced |-> q.epoch # cuts[q.user] \/ Sweeping(q.user, Kind[q.op])]
<1>20. /\ n.kind = kind /\ n.user = q.user /\ n.epoch = q.epoch
       /\ n.admin = q.read.admin /\ n.groups = q.read.groups /\ n.gone = FALSE
       /\ ~n.raced => q.epoch = cuts[q.user] /\ ~Sweeping(q.user, kind)
  OBVIOUS
<1>5. PICK i \in Ids :
         /\ row[i].kind = "none" /\ \A j \in Ids \ {i} : row'[j] = row[j]
         /\ row'[i].kind = kind /\ row'[i].user = q.user /\ row'[i].epoch = q.epoch
         /\ row'[i].admin = q.read.admin /\ row'[i].groups = q.read.groups
         /\ row'[i].gone = FALSE
         /\ ~row'[i].raced => q.epoch = cuts[q.user] /\ ~Sweeping(q.user, kind)
  <2>1. PICK i \in Ids : row[i].kind = "none" /\ row' = [row EXCEPT ![i] = n]
    BY DEF CommitLogin
  <2>2. row'[i] = n /\ \A j \in Ids \ {i} : row'[j] = row[j]
    <3> HIDE DEF n
    <3> QED BY <2>1 DEF Typed, TypeOK
  <2>3. /\ row'[i].kind = kind /\ row'[i].user = q.user /\ row'[i].epoch = q.epoch
        /\ row'[i].admin = q.read.admin /\ row'[i].groups = q.read.groups
        /\ row'[i].gone = FALSE
        /\ ~row'[i].raced => q.epoch = cuts[q.user] /\ ~Sweeping(q.user, kind)
    <3> HIDE DEF n, q, kind
    <3> QED BY <1>20, <2>2
  <2> HIDE DEF n, q, kind
  <2> QED
    BY <2>1, <2>2, <2>3
<1>6. \A j \in Ids : row[j].user \in Users
  BY DEF Typed, TypeOK, Rows
<1>7. \A o \in Requests : req[o] # Idle => req[o].user \in Users
  BY OpenIs
<1>8. SweptAll'
  <2> SUFFICES ASSUME NEW o \in Requests, req'[o] # Idle /\ req'[o].done, NEW j \in Ids,
                      Counts(j)', row'[j].user = req'[o].user, row'[j].kind \in req'[o].ends
               PROVE  j \in req'[o].swept
    BY DEF SweptAll
  <2>1. CASE j = i
    BY <1>4, <1>5, <2>1 DEF Counts, Sweeping
  <2>2. CASE j # i
    BY <1>4, <1>5, <2>2 DEF SessionInv, SweptAll, Counts, Live
  <2> QED BY <2>1, <2>2
<1>9. AdminCounts'
  <2> SUFFICES ASSUME NEW j \in Ids, Counts(j)', row'[j].kind = "admin"
               PROVE  row'[j].epoch.admin = cuts'[row'[j].user].admin
    BY DEF AdminCounts
  <2>1. CASE j = i
    BY <1>4, <1>5, <2>1 DEF Counts
  <2>2. CASE j # i
    BY <1>4, <1>5, <2>2 DEF SessionInv, AdminCounts, Counts, Live
  <2> QED BY <2>1, <2>2
<1>10. ClaimsCount'
  <2> SUFFICES ASSUME NEW j \in Ids, Counts(j)', row'[j].kind = "sso"
               PROVE  Claims(j)'
    BY DEF ClaimsCount
  <2>1. CASE j = i
    <3>1. q.op = "sso" /\ q.epoch = cuts[q.user]
      <4>1. q.op \in {"admin", "oidc", "portal"} => kind # "sso"
        BY DEF Kind
      <4> HIDE DEF kind
      <4> QED BY <1>1, <1>5, <2>1, <4>1 DEF Counts, Logins
    <3>2. SameClaims(q)
      BY <1>1, <3>1 DEF SessionInv, AboutToClaim
    <3> QED
      BY <1>2, <1>3, <1>4, <1>5, <2>1, <3>2 DEF Claims, SameClaims, SameAccess
  <2>2. CASE j # i
    BY <1>3, <1>4, <1>5, <1>6, <2>2 DEF SessionInv, ClaimsCount, Counts, Live, Claims, SameAccess
  <2> QED BY <2>1, <2>2
<1>11. AboutToClaim'
  BY <1>3, <1>4, <1>7 DEF SessionInv, AboutToClaim, SameClaims, SameAccess
<1>12. NoDroppedGroup' /\ GoneWithUser'
  BY <1>3, <1>4, <1>5 DEF SessionInv, NoDroppedGroup, GoneWithUser, SameAccess
<1> QED
  BY <1>8, <1>9, <1>10, <1>11, <1>12 DEF SessionInv

\* Every step keeps it.
LEMMA SessionStep == Typed /\ SessionInv /\ [Next]_vars => SessionInv'
<1> SUFFICES ASSUME Typed, SessionInv, [Next]_vars PROVE SessionInv'
  OBVIOUS
<1>0. \A i \in Ids : row[i].user \in Users /\ row[i] \in Rows
  BY DEF Typed, TypeOK, Rows
<1>1. ASSUME NEW r \in Requests, NEW u \in Users, BeginSome(r, u)
      PROVE  SessionInv'
  BY <1>1, BeginOpens, SessionOpens
<1>2. ASSUME NEW r \in Requests, Abort(r)
      PROVE  SessionInv'
  BY <1>2, SessionCloses DEF Abort, store, history, SameAccess
<1>3. ASSUME NEW u \in Users, DeleteUser(u)
      PROVE  SessionInv'
  <2>1. \A i \in Ids : row'[i] = IF row[i].user = u /\ row[i].kind # "none"
                                  THEN [row[i] EXCEPT !.gone = TRUE] ELSE row[i]
    BY <1>3 DEF DeleteUser
  <2>2. Narrowed
    BY <1>0, <2>1 DEF Narrowed, Counts, Live, Rows
  <2>3. UNCHANGED <<account, req, cuts, dropped>> /\ exists' = exists \ {u}
    BY <1>3 DEF DeleteUser
  <2>4. GoneWithUser'
    BY <1>0, <2>1, <2>2, <2>3 DEF SessionInv, GoneWithUser, Narrowed, Rows
  <2> QED
    BY <2>2, <2>3, <2>4
       DEF SessionInv, SweptAll, AdminCounts, ClaimsCount, Claims, AboutToClaim, SameClaims,
           NoDroppedGroup, Narrowed
<1>4. ASSUME NEW g \in Groups, DeleteGroup(g)
      PROVE  SessionInv'
  <2>1. /\ \A u \in Users : account'[u].groups = account[u].groups \ {g}
                            /\ account'[u].active = account[u].active
                            /\ account'[u].admin = account[u].admin
        /\ dropped' = dropped \cup {g}
        /\ UNCHANGED <<exists, row, req, cuts>>
    BY <1>4 DEF DeleteGroup, Typed, TypeOK, Accounts
  <2>2. ClaimsCount'
    BY <1>0, <2>1 DEF SessionInv, ClaimsCount, Claims, Counts, Live
  <2>3. AboutToClaim'
    BY <2>1, OpenIs DEF SessionInv, AboutToClaim, SameClaims
  <2> QED
    BY <2>1, <2>2, <2>3
       DEF SessionInv, SweptAll, AdminCounts, NoDroppedGroup, GoneWithUser, Counts, Live
<1>5. ASSUME NEW i \in Ids, Revoke(i) \/ Expire(i)
      PROVE  SessionInv'
  <2>1. /\ \A j \in Ids \ {i} : row'[j] = row[j]
        /\ row'[i] \in {[row[i] EXCEPT !.revoked = TRUE], [row[i] EXCEPT !.expired = TRUE]}
        /\ UNCHANGED <<account, exists, req, cuts, dropped>>
    BY <1>5 DEF Revoke, Expire, history, Typed, TypeOK
  <2>2. Narrowed /\ \A j \in Ids : row'[j].gone = row[j].gone
    BY <1>0, <2>1 DEF Narrowed, Counts, Live, Rows
  <2> QED
    BY <2>1, <2>2
       DEF SessionInv, SweptAll, AdminCounts, ClaimsCount, Claims, AboutToClaim, SameClaims,
           NoDroppedGroup, GoneWithUser, Narrowed
<1>6. ASSUME UNCHANGED <<account, exists, row, req, cuts, dropped>>
      PROVE  SessionInv'
  BY <1>6 DEF SessionInv, SweptAll, AdminCounts, ClaimsCount, Claims, AboutToClaim, SameClaims,
              NoDroppedGroup, GoneWithUser, Counts, Live
<1> QED
  BY <1>1, <1>2, <1>3, <1>4, <1>5, <1>6, SessionSweep, SessionUpdate, SessionTotp, SessionLogin
     DEF Next, AdminLogout, SsoLogout, RevokeAdminSession, RevokeSsoSession, Push, Tick,
         vars, store, history

\* A session of the admin API that is accepted was opened after the last
\* deactivation, demotion or new password of its account, unless that committed
\* while the sign-in was under way (services/admin_auth.py resolve,
\* revoke_all_for_user).
THEOREM AdminSessionsEnd == Spec => []AdminSessionsAreCurrent
<1>1. SessionInv => AdminSessionsAreCurrent
  BY DEF SessionInv, AdminCounts, AdminSessionsAreCurrent, Resolves, Counts
<1> QED
  BY <1>1, TypedInit, TypedStep, SessionInit, SessionStep, PTL DEF Spec

\* An accepted cookie claims what the account is, though the proxy asks nobody,
\* but for sign-ins that overlapped the change (services/sso.py issue,
\* revoke_for_user).
THEOREM CookiesClaimTheTruth == Spec => []SsoClaimsAreCurrent
<1>1. Typed /\ SessionInv => SsoClaimsAreCurrent
  BY DEF Typed, TypeOK, Rows, SessionInv, ClaimsCount, GoneWithUser, SsoClaimsAreCurrent, Accepts,
         Denylist, Counts, Live
<1> QED
  BY <1>1, TypedInit, TypedStep, SessionInit, SessionStep, PTL DEF Spec

-----------------------------------------------------------------------------
(* The second factor                                                       *)

\* Secrets are numbered as they are made.
SecretsSoFar ==
    /\ \A u \in Users : account[u].secret <= edits
    /\ \A i \in Ids : row[i].code.secret <= edits
    /\ \A r \in Requests : req[r] # Idle =>
          req[r].read.secret <= edits /\ req[r].new.secret <= edits

\* A secret that is about to be stored is nobody's yet, nor is any code of it used.
Fresh(r) ==
    LET s == req[r].new.secret IN
    /\ \A u \in Users : account[u].secret # s
    /\ \A i \in Ids : row[i].code.secret # s
    /\ \A o \in Requests \ {r} : req[o] # Idle /\ req[o].op = "provision" => req[o].new.secret # s

Provisions(r) == req[r] # Idle /\ req[r].op = "provision"

\* An account spends the steps of its codes in order, and no two share a secret.
CodesInOrder ==
    /\ \A u, v \in Users : account[u].secret = account[v].secret /\ account[u].secret # 0 => u = v
    /\ \A i \in Ids : row[i].code # NoCode => row[i].code.secret # 0
    /\ \A u \in Users, i \in Ids :
          row[i].code # NoCode /\ row[i].code.secret = account[u].secret
              => row[i].code.step <= account[u].last
    /\ \A i, j \in Ids : row[i].code # NoCode /\ row[j].code = row[i].code => i = j

Enrolled == \A u \in Users : account[u].enabled => account[u].secret \in confirmed

FactorInv ==
    /\ SecretsSoFar
    /\ ~crossed => /\ CodesInOrder /\ Enrolled
                   /\ \A r \in Requests : Provisions(r) => Fresh(r)

\* Nobody has a secret.
LEMMA FactorInit == Init => FactorInv
<1> SUFFICES ASSUME Init PROVE FactorInv
  OBVIOUS
<1>1. \A u \in Users : account[u].secret = 0 /\ account[u].enabled = FALSE
  BY DEF Init
<1>2. \A i \in Ids : row[i].code = NoCode
  BY DEF Init, Unopened
<1>3. \A r \in Requests : req[r] = Idle
  BY DEF Init
<1>4. edits = 0
  BY DEF Init
<1> QED
  BY <1>1, <1>2, <1>3, <1>4
     DEF FactorInv, SecretsSoFar, CodesInOrder, Enrolled, Provisions, NoCode

\* The numbers that Typed gives.
LEMMA Numbers ==
    ASSUME Typed
    PROVE  /\ edits \in Nat
           /\ \A u \in Users : account[u].secret \in Nat /\ account[u].last \in Nat
           /\ \A i \in Ids : row[i].code \in Codes
                             /\ row[i].code.secret \in Nat /\ row[i].code.step \in Nat
           /\ \A r \in Requests : req[r] # Idle =>
                 req[r].read.secret \in Nat /\ req[r].new.secret \in Nat
<1> USE AccountsAssumption
<1>1. \A a \in Accounts : a.secret \in Nat /\ a.last \in Nat
  BY DEF Accounts, Secrets, Steps
<1>2. \A c \in Codes : c.secret \in Nat /\ c.step \in Nat
  BY DEF Codes, Secrets, Steps
<1>3. \A i \in Ids : row[i].code \in Codes
  BY DEF Typed, TypeOK, Rows
<1> QED
  BY <1>1, <1>2, <1>3, OpenIs DEF Typed, TypeOK

\* A request that opens reads what is there, or makes a secret of its own.
LEMMA FactorOpens ==
    ASSUME Typed, FactorInv, NEW r \in Requests, Opens(r)
    PROVE  FactorInv'
<1>1. PICK q \in Open :
         /\ req' = [req EXCEPT ![r] = q] /\ q.read = account[q.user] /\ q.user \in exists
         /\ IF q.op = "provision" THEN q.new.secret = edits + 1 /\ edits' = edits + 1
            ELSE q.new.secret \in {q.read.secret, 0}
  BY DEF Opens
<1>2. req'[r] = q /\ req[r] = Idle /\ \A o \in Requests \ {r} : req'[o] = req[o]
  BY <1>1 DEF Opens, Typed, TypeOK
<1>3. UNCHANGED <<account, row, confirmed, crossed>> /\ edits' \in {edits, edits + 1}
  BY DEF Opens, store
<1>4. q.user \in Users
  BY DEF Open
<1>5. SecretsSoFar'
  BY <1>1, <1>2, <1>3, <1>4, Numbers DEF FactorInv, SecretsSoFar
<1>6. ASSUME ~crossed, NEW o \in Requests, Provisions(o)'
      PROVE  Fresh(o)'
  <2>1. CASE o = r
    BY <1>1, <1>2, <1>3, <2>1, <1>6, Numbers DEF FactorInv, SecretsSoFar, Fresh, Provisions
  <2>2. CASE o # r
    <3>1. Fresh(o) /\ req'[o] = req[o] /\ req[o] # Idle
      BY <1>2, <1>3, <1>6, <2>2 DEF FactorInv, Provisions
    <3>2. q.op = "provision" => q.new.secret # req[o].new.secret
      BY <1>1, <3>1, Numbers DEF FactorInv, SecretsSoFar
    <3> QED
      BY <1>2, <1>3, <3>1, <3>2 DEF Fresh
  <2> QED BY <2>1, <2>2
<1> QED
  BY <1>3, <1>5, <1>6 DEF FactorInv, CodesInOrder, Enrolled

\* A step that leaves the second factors and the codes as they are, and opens no
\* request.
LEMMA FactorKept ==
    ASSUME Typed, FactorInv,
           \A u \in Users : SameFactor(account'[u], account[u]),
           \A i \in Ids : row'[i].code = row[i].code,
           \A r \in Requests : req'[r] = Idle
              \/ /\ req[r] # Idle /\ req'[r].op = req[r].op
                 /\ req'[r].new = req[r].new /\ req'[r].read = req[r].read,
           edits' \in Nat, edits <= edits', UNCHANGED <<confirmed, crossed>>
    PROVE  FactorInv'
<1>1. SecretsSoFar'
  BY Numbers DEF FactorInv, SecretsSoFar, SameFactor
<1>2. ~crossed' => CodesInOrder' /\ Enrolled'
  BY DEF FactorInv, CodesInOrder, Enrolled, SameFactor
<1>3. ~crossed' => \A r \in Requests : Provisions(r)' => Fresh(r)'
  BY DEF FactorInv, Provisions, Fresh, SameFactor
<1> QED
  BY <1>1, <1>2, <1>3 DEF FactorInv

\* Whose second factor a commit writes, and what is there when it does.
Writes(r, u, new) ==
    LET q == req[r] IN
    /\ q # Idle /\ u = q.user
    /\ account'[u] = new /\ \A v \in Users \ {u} : account'[v] = account[v]
    /\ req'[r] = Idle /\ \A o \in Requests \ {r} : req'[o] = req[o]
    /\ new.secret \in {account[u].secret, q.new.secret}
    /\ ~crossed' => ~crossed
    /\ ~crossed' /\ (q.op \in {"provision", "confirm", "disable"} \/ q.code # NoCode)
          => SameFactor(q.read, account[u]) /\ SameFactor(new, q.new)
    /\ q.op \in Logins /\ q.code = NoCode => SameFactor(new, account[u])
    /\ q.op \in Logins \cup {"provision", "confirm", "disable"}

\* A commit writes the second factor it means, unless it crossed another one.
LEMMA CommitWrites ==
    ASSUME Typed, NEW r \in Requests, CommitTotp(r) \/ CommitLogin(r)
    PROVE  Writes(r, req[r].user, Flushed(req[r].read, req[r].new, account[req[r].user]))
<1> DEFINE q == req[r]
           u == q.user
           new == Flushed(q.read, q.new, account[u])
<1>1. q # Idle
  BY OpenOp DEF CommitTotp, CommitLogin, Kind, Operations
<1>2. /\ u \in Users /\ account[u] \in Accounts /\ q.read \in Accounts /\ q.new \in Accounts
      /\ new \in Accounts
  BY <1>1, OpenIs
<1>3. account' = [account EXCEPT ![u] = new] /\ Close(r)
  BY DEF CommitTotp, CommitLogin
<1>4. account'[u] = new /\ \A v \in Users \ {u} : account'[v] = account[v]
  <2> HIDE DEF new
  <2> QED BY <1>2, <1>3 DEF Typed, TypeOK
<1>5. req'[r] = Idle /\ \A o \in Requests \ {r} : req'[o] = req[o]
  BY <1>3 DEF Close, Typed, TypeOK
<1>6. new.secret \in {account[u].secret, q.new.secret}
  BY <1>2, FlushedSecret
<1>7. /\ ~crossed' => ~crossed
      /\ ~crossed' /\ (q.op \in {"provision", "confirm", "disable"} \/ q.code # NoCode)
            => SecondFactor(q.read) = SecondFactor(account[u])
  <2>1. CASE CommitTotp(r)
    BY <2>1 DEF CommitTotp
  <2>2. CASE CommitLogin(r)
    <3>1. q.op \notin {"provision", "confirm", "disable"}
      BY <2>2 DEF CommitLogin, Kind
    <3> QED BY <2>2, <3>1 DEF CommitLogin
  <2> QED BY <2>1, <2>2
<1>8. SecondFactor(q.read) = SecondFactor(account[u]) =>
         SameFactor(q.read, account[u]) /\ SameFactor(new, q.new)
  <2>1. SameFactor(q.read, account[u]) => SameFactor(new, q.new)
    BY <1>2, FlushedWrites
  <2> HIDE DEF new, u, q
  <2> QED BY <1>2, <2>1, FactorColumns
<1>9. q.op \in Logins /\ q.code = NoCode => SameFactor(new, account[u])
  <2>1. q.op \in Logins /\ q.code = NoCode => SameFactor(q.new, q.read)
    BY <1>1, OpenIs DEF Meant, SameFactor
  <2>2. SameFactor(q.new, q.read) => SameFactor(new, account[u])
    BY <1>2, FlushedKeeps DEF SameFactor
  <2> HIDE DEF new, q, u
  <2> QED BY <2>1, <2>2
<1>10. q.op \in Logins \cup {"provision", "confirm", "disable"}
  BY DEF CommitTotp, CommitLogin, Kind, Logins
<1>11. Writes(r, u, new)
  <2> HIDE DEF new
  <2> QED BY <1>1, <1>4, <1>5, <1>6, <1>7, <1>8, <1>9, <1>10 DEF Writes
<1> QED
  BY <1>11

\* The bookkeeping of a commit: secrets stay numbered, and what the others are
\* about to store stays fresh.
LEMMA WritesFresh ==
    ASSUME Typed, FactorInv, NEW r \in Requests, NEW u \in Users, NEW new \in Accounts,
           Writes(r, u, new), edits' = edits,
           \A i \in Ids : \/ row'[i].code = row[i].code
                           \/ /\ row'[i].code = req[r].code
                              /\ req[r].code.secret \in {0, req[r].read.secret}
    PROVE  /\ SecretsSoFar'
           /\ ~crossed' /\ (\A i \in Ids : row'[i].code # row[i].code =>
                               req[r].code.secret \in {0, account[u].secret})
                => \A o \in Requests : Provisions(o)' => Fresh(o)'
<1> DEFINE q == req[r]
<1>2. SecretsSoFar'
  BY Numbers DEF FactorInv, SecretsSoFar, Writes
<1>3. ASSUME ~crossed', NEW o \in Requests, Provisions(o)',
             \A i \in Ids : row'[i].code # row[i].code => q.code.secret \in {0, account[u].secret}
      PROVE  Fresh(o)'
  <2> DEFINE s == req[o].new.secret
  <2>1. o # r /\ req'[o] = req[o] /\ Provisions(o) /\ ~crossed
    BY <1>3 DEF Writes, Provisions
  <2>2. Fresh(o) /\ s # 0
    BY <2>1, OpenIs DEF FactorInv, Provisions, Meant
  <2>3. \A v \in Users : account'[v].secret # s
    <3>1. account[u].secret # s
      BY <2>2 DEF Fresh
    <3>2. new.secret # s
      <4>1. CASE q.op = "provision"
        BY <2>1, <2>2, <3>1, <4>1 DEF Fresh, Writes
      <4>2. CASE q.op \in {"confirm", "disable"} \/ (q.op \in Logins /\ q.code # NoCode)
        <5>1. q # Idle /\ SameFactor(q.read, account[u]) /\ SameFactor(new, q.new)
          BY <1>3, <4>2 DEF Writes
        <5>2. Meant(q)
          BY <5>1, OpenIs
        <5>3. q.op = "confirm" \/ q.op \in Logins => q.new.secret = q.read.secret
          BY <5>2 DEF Meant
        <5>4. q.op = "disable" => q.new.secret = 0
          BY <5>2 DEF Meant
        <5> QED BY <2>2, <3>1, <4>2, <5>1, <5>3, <5>4 DEF SameFactor
      <4>3. CASE q.op \in Logins /\ q.code = NoCode
        <5>1. SameFactor(new, account[u])
          BY <4>3 DEF Writes
        <5> QED BY <3>1, <5>1 DEF SameFactor
      <4>4. q.op \in Logins \cup {"provision", "confirm", "disable"}
        BY DEF Writes
      <4> QED BY <4>1, <4>2, <4>3, <4>4
    <3> QED BY <2>2, <3>2 DEF Fresh, Writes
  <2>4. \A i \in Ids : row'[i].code.secret # s
    BY <1>3, <2>2 DEF Fresh
  <2>5. \A p \in Requests \ {o} : req'[p] # Idle /\ req'[p].op = "provision" => req'[p].new.secret # s
    BY <2>1, <2>2 DEF Fresh, Writes
  <2> QED
    BY <2>1, <2>3, <2>4, <2>5 DEF Fresh
<1> QED
  BY <1>2, <1>3
\* A sign-in fills one row, with the code it was made with.
LEMMA OneRow ==
    ASSUME Typed, NEW r \in Requests, CommitTotp(r) \/ CommitLogin(r)
    PROVE  \/ UNCHANGED row
           \/ \E i \in Ids : row'[i].code = req[r].code /\ \A j \in Ids \ {i} : row'[j] = row[j]
<1>1. CASE CommitTotp(r)
  BY <1>1 DEF CommitTotp
<1>2. CASE CommitLogin(r)
  <2> DEFINE q == req[r]
             n == [kind |-> Kind[q.op], user |-> q.user,
                   admin |-> q.read.admin, groups |-> q.read.groups,
                   revoked |-> FALSE, expired |-> FALSE, gone |-> FALSE,
                   epoch |-> q.epoch, code |-> q.code,
                   raced |-> q.epoch # cuts[q.user] \/ Sweeping(q.user, Kind[q.op])]
  <2>1. PICK i \in Ids : row' = [row EXCEPT ![i] = n]
    BY <1>2 DEF CommitLogin
  <2>2. n.code = req[r].code
    OBVIOUS
  <2> HIDE DEF n
  <2> QED BY <2>1, <2>2 DEF Typed, TypeOK
<1> QED
  BY <1>1, <1>2

\* A commit keeps the steps of each secret in order, and opens a session of its own.
LEMMA CommitInOrder ==
    ASSUME Typed, FactorInv, NEW r \in Requests, CommitTotp(r) \/ CommitLogin(r), ~crossed'
    PROVE  CodesInOrder' /\ Enrolled'
<1> DEFINE q == req[r]
           u == q.user
           new == Flushed(q.read, q.new, account[u])
<1>1. Writes(r, u, new)
  BY CommitWrites
<1>2. ~crossed /\ CodesInOrder /\ Enrolled /\ \A o \in Requests : Provisions(o) => Fresh(o)
  BY <1>1 DEF Writes, FactorInv
<1>3. /\ q # Idle /\ Meant(q) /\ u \in Users /\ account[u] \in Accounts /\ new \in Accounts
      /\ q.code \in Codes
  BY <1>1, OpenIs DEF Writes
<1>4. account'[u] = new /\ \A v \in Users \ {u} : account'[v] = account[v]
  BY <1>1 DEF Writes
<1>5. /\ confirmed \subseteq confirmed'
      /\ q.op = "confirm" => q.code.secret \in confirmed'
  <2>1. CommitLogin(r) => q.op # "confirm"
    BY DEF CommitLogin, Kind
  <2> QED BY <2>1 DEF CommitTotp, CommitLogin
<1>6. CASE q.op = "provision" \/ q.op = "disable"
  <2>1. UNCHANGED row
    BY <1>6 DEF CommitTotp, CommitLogin, Kind
  <2>2. new.secret = q.new.secret /\ new.enabled = q.new.enabled
    BY <1>1, <1>6 DEF Writes, SameFactor
  <2>3. /\ ~new.enabled
        /\ q.op = "disable" => new.secret = 0
        /\ q.op = "provision" => /\ \A v \in Users : account[v].secret # new.secret
                                 /\ \A i \in Ids : row[i].code.secret # new.secret
    BY <1>2, <1>3, <1>6, <2>2 DEF Meant, Provisions, Fresh
  <2> HIDE DEF new, u, q
  <2>4. CodesInOrder'
    BY <1>2, <1>3, <1>4, <1>6, <2>1, <2>3 DEF CodesInOrder
  <2>5. Enrolled'
    BY <1>2, <1>3, <1>4, <1>5, <2>3 DEF Enrolled
  <2> QED BY <2>4, <2>5
<1>7. CASE q.op = "confirm" \/ (q.op \in Logins /\ q.code # NoCode)
  <2>1. /\ new.secret = account[u].secret /\ account[u].secret # 0
        /\ q.code.secret = account[u].secret
        /\ account[u].last < q.code.step /\ new.last = q.code.step
    <3>1. SameFactor(q.read, account[u]) /\ SameFactor(new, q.new)
      BY <1>1, <1>7 DEF Writes
    <3>2. q.new.secret = q.read.secret /\ Spends(q)
      BY <1>3, <1>7 DEF Meant
    <3> HIDE DEF new, u, q
    <3> QED BY <3>1, <3>2 DEF SameFactor, Spends
  <2>2. q.op \in Logins => new.enabled = account[u].enabled
    <3>1. q.op \in Logins => SameFactor(q.read, account[u]) /\ SameFactor(new, q.new)
      BY <1>1, <1>7 DEF Writes, Logins
    <3>2. q.op \in Logins => q.new.enabled = q.read.enabled
      BY <1>3 DEF Meant
    <3> HIDE DEF new, u, q
    <3> QED BY <3>1, <3>2 DEF SameFactor
  <2>3. \/ UNCHANGED row
        \/ \E i \in Ids : row'[i].code = q.code /\ \A j \in Ids \ {i} : row'[j] = row[j]
    BY OneRow
  <2>4. Enrolled'
    <3>1. \A v \in Users \ {u} : account'[v].enabled => account'[v].secret \in confirmed'
      BY <1>2, <1>4, <1>5 DEF Enrolled
    <3>2. new.enabled => new.secret \in confirmed'
      <4> HIDE DEF new, u, q
      <4>1. CASE q.op = "confirm"
        BY <1>5, <2>1, <4>1
      <4>2. CASE q.op \in Logins
        BY <1>2, <1>3, <1>5, <2>1, <2>2, <4>2 DEF Enrolled
      <4> QED BY <1>7, <4>1, <4>2
    <3> QED BY <1>4, <3>1, <3>2 DEF Enrolled
  <2>5. /\ account[u].last \in Nat /\ q.code.step \in Nat
        /\ \A i \in Ids : row[i].code.step \in Nat
    BY <1>3, Numbers DEF Codes, Steps
  <2> HIDE DEF new, u, q
  <2>6. \A i \in Ids : row[i].code # NoCode /\ row[i].code.secret = account[u].secret
                          => row[i].code.step < q.code.step
    BY <1>2, <1>3, <2>1, <2>5 DEF CodesInOrder
  <2>7. CodesInOrder'
    <3>1. CASE UNCHANGED row
      BY <1>2, <1>3, <1>4, <2>1, <2>5, <2>6, <3>1 DEF CodesInOrder
    <3>2. ASSUME NEW i \in Ids, row'[i].code = q.code, \A j \in Ids \ {i} : row'[j] = row[j]
          PROVE  CodesInOrder'
      <4>1. \A v, w \in Users : account'[v].secret = account'[w].secret /\ account'[v].secret # 0 => v = w
        BY <1>2, <1>3, <1>4, <2>1 DEF CodesInOrder
      <4>2. \A j \in Ids : row'[j].code # NoCode => row'[j].code.secret # 0
        BY <1>2, <2>1, <3>2 DEF CodesInOrder
      <4>3. \A v \in Users, j \in Ids :
               row'[j].code # NoCode /\ row'[j].code.secret = account'[v].secret
                   => row'[j].code.step <= account'[v].last
        <5> SUFFICES ASSUME NEW v \in Users, NEW j \in Ids,
                            row'[j].code # NoCode, row'[j].code.secret = account'[v].secret
                     PROVE  row'[j].code.step <= account'[v].last
          OBVIOUS
        <5>1. CASE j = i
          <6>1. v = u
            BY <1>2, <1>3, <1>4, <2>1, <3>2, <5>1 DEF CodesInOrder
          <6> QED BY <1>4, <2>1, <2>5, <3>2, <5>1, <6>1
        <5>2. CASE j # i /\ v = u
          BY <1>4, <2>1, <2>5, <2>6, <3>2, <5>2
        <5>3. CASE j # i /\ v # u
          BY <1>2, <1>4, <3>2, <5>3 DEF CodesInOrder
        <5> QED BY <5>1, <5>2, <5>3
      <4>4. \A j, k \in Ids : row'[j].code # NoCode /\ row'[k].code = row'[j].code => j = k
        <5>1. \A j \in Ids : row[j].code # q.code \/ q.code = NoCode
          BY <2>1, <2>5, <2>6
        <5>2. \A j, k \in Ids \ {i} : row'[j].code # NoCode /\ row'[k].code = row'[j].code => j = k
          BY <1>2, <3>2 DEF CodesInOrder
        <5> QED BY <3>2, <5>1, <5>2
      <4> QED BY <4>1, <4>2, <4>3, <4>4 DEF CodesInOrder
    <3> QED BY <2>3, <3>1, <3>2
  <2> QED BY <2>4, <2>7
<1>8. CASE q.op \in Logins /\ q.code = NoCode
  <2>1. SameFactor(new, account[u])
    BY <1>1, <1>8 DEF Writes
  <2>2. \/ UNCHANGED row
        \/ \E i \in Ids : row'[i].code = q.code /\ \A j \in Ids \ {i} : row'[j] = row[j]
    BY OneRow
  <2> HIDE DEF new, u, q
  <2>3. \A v \in Users : SameFactor(account'[v], account[v])
    BY <1>3, <1>4, <2>1 DEF SameFactor
  <2>4. \A i \in Ids : row'[i].code = NoCode \/ row'[i] = row[i]
    BY <1>8, <2>2
  <2> QED BY <1>2, <1>5, <2>3, <2>4 DEF CodesInOrder, Enrolled, SameFactor
<1>9. q.op \in Logins \cup {"provision", "confirm", "disable"}
  BY <1>1 DEF Writes
<1> QED
  BY <1>6, <1>7, <1>8, <1>9

\* Every step keeps it.
LEMMA FactorStep == Typed /\ FactorInv /\ [Next]_vars => FactorInv'
<1> SUFFICES ASSUME Typed, FactorInv, [Next]_vars PROVE FactorInv'
  OBVIOUS
<1>0. edits \in Nat /\ \A i \in Ids : row[i] \in Rows
  BY Numbers DEF Typed, TypeOK
<1>1. ASSUME NEW r \in Requests, NEW u \in Users, BeginSome(r, u)
      PROVE  FactorInv'
  BY <1>1, BeginOpens, FactorOpens
<1>2. ASSUME NEW r \in Requests, CommitTotp(r) \/ CommitLogin(r)
      PROVE  FactorInv'
  <2> DEFINE q == req[r]
             new == Flushed(q.read, q.new, account[q.user])
  <2>1. Writes(r, q.user, new)
    BY <1>2, CommitWrites
  <2>2. q # Idle /\ Meant(q) /\ q.user \in Users /\ new \in Accounts
    BY <2>1, OpenIs DEF Writes
  <2>3. edits' = edits
    BY <1>2 DEF CommitTotp, CommitLogin
  <2>4. \A i \in Ids : row'[i].code \in {row[i].code, q.code}
    <3>1. \/ UNCHANGED row
          \/ \E i \in Ids : row'[i].code = q.code /\ \A j \in Ids \ {i} : row'[j] = row[j]
      BY <1>2, OneRow
    <3> HIDE DEF q
    <3> QED BY <3>1
  <2>5. (\E i \in Ids : row'[i].code # row[i].code) => q.op \in Logins
    BY <1>2 DEF CommitTotp, CommitLogin, Kind, Logins
  <2>6. q.code # NoCode => q.code.secret = q.read.secret \/ q.op \notin Logins
    BY <2>2 DEF Meant, Spends
  <2>7. (\E i \in Ids : row'[i].code # row[i].code) /\ ~crossed'
           => q.code.secret \in {0, account[q.user].secret}
    <3>1. NoCode.secret = 0
      BY DEF NoCode
    <3>2. q.op \in Logins /\ q.code # NoCode /\ ~crossed' => q.read.secret = account[q.user].secret
      BY <2>1 DEF Writes, SameFactor
    <3> HIDE DEF q, new
    <3> QED BY <2>5, <2>6, <3>1, <3>2
  <2>8. /\ SecretsSoFar'
        /\ ~crossed' => \A o \in Requests : Provisions(o)' => Fresh(o)'
    <3>1. NoCode.secret = 0
      BY DEF NoCode
    <3>2. \A i \in Ids : \/ row'[i].code = row[i].code
                         \/ row'[i].code = q.code /\ q.code.secret \in {0, q.read.secret}
      <4> HIDE DEF q, new
      <4> QED BY <2>4, <2>5, <2>6, <3>1
    <3> HIDE DEF new
    <3> QED BY <2>1, <2>2, <2>3, <2>7, <3>2, WritesFresh
  <2> QED
    BY <1>2, <2>8, CommitInOrder DEF FactorInv
<1>3. ASSUME NEW r \in Requests, CommitUpdate(r)
      PROVE  FactorInv'
  <2> DEFINE q == req[r]
             new == Flushed(q.read, q.new, account[q.user])
  <2>1. q # Idle /\ q.op \in Updates
    BY <1>3, OpenOp DEF CommitUpdate, Updates, Operations
  <2>2. /\ q.user \in Users /\ account[q.user] \in Accounts /\ q.read \in Accounts
        /\ q.new \in Accounts /\ SameFactor(q.new, q.read)
    BY <2>1, OpenIs DEF Meant
  <2>3. SameFactor(new, account[q.user])
    BY <2>2, FlushedKeeps DEF SameFactor
  <2>4. \A v \in Users : SameFactor(account'[v], account[v])
    <3>1. account' = [account EXCEPT ![q.user] = new]
      BY <1>3 DEF CommitUpdate
    <3> HIDE DEF new
    <3> QED BY <2>2, <2>3, <3>1 DEF Typed, TypeOK, SameFactor
  <2>5. \A i \in Ids : row'[i].code = row[i].code
    BY <1>0, <1>3 DEF CommitUpdate, Rows
  <2>6. \A o \in Requests : req'[o] = Idle \/ (req[o] # Idle /\ req'[o] = req[o])
    BY <1>3 DEF CommitUpdate, Close, Typed, TypeOK
  <2> QED
    BY <1>0, <1>3, <2>4, <2>5, <2>6, FactorKept DEF CommitUpdate
<1>4. ASSUME NEW r \in Requests, Sweep(r)
      PROVE  FactorInv'
  <2>1. \A o \in Requests : req'[o] = Idle
           \/ /\ req[o] # Idle /\ req'[o].op = req[o].op
              /\ req'[o].new = req[o].new /\ req'[o].read = req[o].read
    <3> DEFINE S == {i \in Ids : Live(i) /\ row[i].user = req[r].user /\ row[i].kind \in req[r].ends}
    <3>1. req[r] # Idle /\ req[r] \in Open
      BY <1>4, OpenIs DEF Sweep
    <3>2. req' = [req EXCEPT ![r] = [req[r] EXCEPT !.done = TRUE, !.swept = S]]
      BY <1>4 DEF Sweep, Typed, TypeOK
    <3> HIDE DEF S
    <3> QED BY <3>1, <3>2 DEF Typed, TypeOK, Open
  <2>2. UNCHANGED <<account, row, confirmed, crossed, edits>>
    BY <1>4 DEF Sweep, store, history
  <2> QED
    BY <1>0, <2>1, <2>2, FactorKept DEF SameFactor
<1>5. ASSUME NEW r \in Requests, Abort(r)
      PROVE  FactorInv'
  <2>1. \A o \in Requests : req'[o] = Idle \/ (req[o] # Idle /\ req'[o] = req[o])
    BY <1>5 DEF Abort, Close, Typed, TypeOK
  <2> QED
    BY <1>0, <1>5, <2>1, FactorKept DEF Abort, store, history, SameFactor
<1>6. ASSUME NEW u \in Users, DeleteUser(u)
      PROVE  FactorInv'
  <2>1. \A i \in Ids : row'[i].code = row[i].code
    BY <1>0, <1>6 DEF DeleteUser, Rows
  <2>2. UNCHANGED <<account, req, confirmed, crossed>> /\ edits' = edits + 1
    BY <1>6 DEF DeleteUser, Edit
  <2> QED
    BY <1>0, <2>1, <2>2, FactorKept DEF SameFactor
<1>7. ASSUME NEW g \in Groups, DeleteGroup(g)
      PROVE  FactorInv'
  <2>1. \A v \in Users : SameFactor(account'[v], account[v])
    BY <1>7 DEF DeleteGroup, Typed, TypeOK, Accounts, SameFactor
  <2>2. UNCHANGED <<row, req, confirmed, crossed>> /\ edits' = edits + 1
    BY <1>7 DEF DeleteGroup, Edit
  <2> QED
    BY <1>0, <2>1, <2>2, FactorKept
<1>8. ASSUME NEW i \in Ids, Revoke(i) \/ Expire(i)
      PROVE  FactorInv'
  <2>1. \A j \in Ids : row'[j].code = row[j].code
    BY <1>0, <1>8 DEF Revoke, Expire, Rows, Typed, TypeOK
  <2>2. UNCHANGED <<account, req, confirmed, crossed, edits>>
    BY <1>8 DEF Revoke, Expire, history
  <2> QED
    BY <1>0, <2>1, <2>2, FactorKept DEF SameFactor
<1>9. ASSUME UNCHANGED <<account, row, req, confirmed, crossed, edits>>
      PROVE  FactorInv'
  BY <1>0, <1>9, FactorKept DEF SameFactor
<1> QED
  BY <1>1, <1>2, <1>3, <1>4, <1>5, <1>6, <1>7, <1>8, <1>9
     DEF Next, AdminLogout, SsoLogout, RevokeAdminSession, RevokeSsoSession, Push, Tick,
         vars, store, history

\* A code of the second factor opens one session, whoever signs in where at the
\* same time, as long as no request writes a second factor it has not read
\* (services/totp.py verify_user_code).
THEOREM CodesAreSpentOnce == Spec => []OneSignInPerCode
<1>1. FactorInv => OneSignInPerCode
  BY DEF FactorInv, CodesInOrder, OneSignInPerCode
<1> QED
  BY <1>1, TypedInit, TypedStep, FactorInit, FactorStep, PTL DEF Spec

\* A second factor is enforced with a secret its owner has shown a code of, under
\* the same condition (services/totp.py confirm).
THEOREM FactorsAreConfirmed == Spec => []EnrolmentIsConfirmed
<1>1. FactorInv => EnrolmentIsConfirmed
  BY DEF FactorInv, Enrolled, EnrolmentIsConfirmed
<1> QED
  BY <1>1, TypedInit, TypedStep, FactorInit, FactorStep, PTL DEF Spec
=============================================================================
