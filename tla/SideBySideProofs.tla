-------------------------- MODULE SideBySideProofs --------------------------
(***************************************************************************)
(* The safety properties of the components of SideBySide, for every value  *)
(* of the constants.  Each component has an inductive invariant of its     *)
(* own; that the others do not disturb it is the first lemma.              *)
(***************************************************************************)
EXTENDS SideBySide, Sequences, TLAPS, FiniteSetTheorems

\* A step of the whole is, to each component, a step of its own or none.
LEMMA EachMovesAlone ==
    ASSUME [Next]_vars
    PROVE  /\ [Dns!Next]_(Dns!vars) /\ [Proxy!Next]_(Proxy!vars)
           /\ [Limiter!Next]_(Limiter!vars) /\ [Oidc!Next]_(Oidc!vars)
           /\ [Versions!Next]_(Versions!vars)
<1>1. /\ UNCHANGED dnsVars => UNCHANGED Dns!vars
      /\ UNCHANGED proxyVars => UNCHANGED Proxy!vars
      /\ UNCHANGED limiterVars => UNCHANGED Limiter!vars
      /\ UNCHANGED oidcVars => UNCHANGED Oidc!vars
      /\ UNCHANGED versionVars => UNCHANGED Versions!vars
  BY DEF dnsVars, proxyVars, limiterVars, oidcVars, versionVars, Dns!vars, Dns!rows, Dns!agent,
         Proxy!vars, Proxy!geo, Proxy!agent, Limiter!vars, Oidc!vars, Versions!vars
<1>2. CASE NamesMove
  <2>1. UNCHANGED proxyVars /\ UNCHANGED limiterVars /\ UNCHANGED oidcVars /\ UNCHANGED versionVars
    BY <1>2 DEF NamesMove, OthersOfDns
  <2> QED BY <1>1, <1>2, <2>1 DEF NamesMove
<1>3. CASE ProxyMoves
  <2>1. UNCHANGED dnsVars /\ UNCHANGED limiterVars /\ UNCHANGED oidcVars /\ UNCHANGED versionVars
    BY <1>3 DEF ProxyMoves, OthersOfProxy
  <2> QED BY <1>1, <1>3, <2>1 DEF ProxyMoves
<1>4. CASE LimiterMoves
  <2>1. UNCHANGED dnsVars /\ UNCHANGED proxyVars /\ UNCHANGED oidcVars /\ UNCHANGED versionVars
    BY <1>4 DEF LimiterMoves
  <2> QED BY <1>1, <1>4, <2>1 DEF LimiterMoves
<1>5. CASE OidcMoves
  <2>1. UNCHANGED dnsVars /\ UNCHANGED proxyVars /\ UNCHANGED limiterVars /\ UNCHANGED versionVars
    BY <1>5 DEF OidcMoves
  <2> QED BY <1>1, <1>5, <2>1 DEF OidcMoves
<1>6. CASE VersionsMove
  <2>1. UNCHANGED dnsVars /\ UNCHANGED proxyVars /\ UNCHANGED limiterVars /\ UNCHANGED oidcVars
    BY <1>6 DEF VersionsMove
  <2> QED BY <1>1, <1>6, <2>1 DEF VersionsMove
<1>7. CASE UNCHANGED vars
  <2>1. /\ UNCHANGED dnsVars /\ UNCHANGED proxyVars /\ UNCHANGED limiterVars
        /\ UNCHANGED oidcVars /\ UNCHANGED versionVars
    BY <1>7 DEF vars
  <2> QED BY <1>1, <2>1
<1> QED BY <1>2, <1>3, <1>4, <1>5, <1>6, <1>7 DEF Next

(***************************************************************************)
(* The rate limiter                                                        *)
(***************************************************************************)

\* The operators of FiniteSets, reached through the instances.
LEMMA OneCardinality ==
    ASSUME NEW S
    PROVE  /\ Limiter!Cardinality(S) = Cardinality(S)
           /\ Limiter!IsFiniteSet(S) = IsFiniteSet(S)
           /\ Oidc!Cardinality(S) = Cardinality(S)
BY DEF Cardinality, Limiter!Cardinality, IsFiniteSet, Limiter!IsFiniteSet, Oidc!Cardinality

LEMMA CountTo ==
    ASSUME NEW n \in Nat
    PROVE  IsFiniteSet(1 .. n) /\ Cardinality(1 .. n) = n
<1>1. /\ IsFiniteSet(1 .. n)
      /\ Cardinality(1 .. n) = IF 1 > n THEN 0 ELSE n - 1 + 1
  BY 1 \in Int, n \in Int, FS_Interval
<1> QED BY <1>1

\* What is left after pruning is the log without its aged prefix.
LEMMA PruneDropsTheAged ==
    ASSUME NEW log \in Seq(Nat)
    PROVE  /\ Limiter!Aged(log) \subseteq 1 .. Len(log)
           /\ IsFiniteSet(Limiter!Aged(log))
           /\ Cardinality(Limiter!Aged(log)) \in 0 .. Len(log)
           /\ Limiter!Prune(log) \in Seq(Nat)
           /\ Len(Limiter!Prune(log)) = Len(log) - Cardinality(Limiter!Aged(log))
           /\ \A i \in 1 .. Len(Limiter!Prune(log)) :
                 Limiter!Prune(log)[i] = log[i + Cardinality(Limiter!Aged(log))]
<1> DEFINE n == Cardinality(Limiter!Aged(log))
<1>1. Limiter!Aged(log) \subseteq 1 .. Len(log)
  BY DEF Limiter!Aged
<1>2. IsFiniteSet(1 .. Len(log)) /\ Cardinality(1 .. Len(log)) = Len(log)
  <2>1. Len(log) \in Nat
    OBVIOUS
  <2> QED BY <2>1, CountTo
<1>3. IsFiniteSet(Limiter!Aged(log)) /\ n \in 0 .. Len(log)
  BY <1>1, <1>2, FS_Subset, FS_CardinalityType
<1>4. Limiter!Prune(log) = SubSeq(log, n + 1, Len(log))
  BY OneCardinality DEF Limiter!Prune
<1> HIDE DEF n
<1>5. /\ SubSeq(log, n + 1, Len(log)) \in Seq(Nat)
      /\ Len(SubSeq(log, n + 1, Len(log))) = Len(log) - n
      /\ \A i \in 1 .. Len(log) - n : SubSeq(log, n + 1, Len(log))[i] = log[i + n]
  BY <1>3, SMTT(30)
<1> QED BY <1>1, <1>3, <1>4, <1>5 DEF n

LimiterInv ==
    /\ Limiter!TypeOK
    /\ Limiter!FailuresWereLetIn
    /\ Limiter!WaitCoversTheOldest

LEMMA HalvesRoundedUp ==
    ASSUME NEW x \in Int
    PROVE  x \div 2 \in Int /\ 2 * (x \div 2 + 1) > x /\ 2 * (x \div 2 + 1) <= x + 2
OBVIOUS

\* The room the requests in flight leave.
LEMMA RoomLeft ==
    ASSUME NEW S
    PROVE  /\ IsFiniteSet(Callers \ S) /\ Cardinality(Callers \ S) \in Nat
           /\ \A c \in Callers : c \in S =>
                Cardinality(Callers \ (S \ {c})) = Cardinality(Callers \ S) + 1
<1>1. IsFiniteSet(Callers)
  BY LimiterConfigured, OneCardinality DEF Limiter!Configured
<1>2. IsFiniteSet(Callers \ S) /\ Cardinality(Callers \ S) \in Nat
  BY <1>1, FS_Subset, FS_CardinalityType
<1>3. ASSUME NEW c \in Callers, c \in S
      PROVE  Cardinality(Callers \ (S \ {c})) = Cardinality(Callers \ S) + 1
  <2>1. Callers \ (S \ {c}) = (Callers \ S) \cup {c} /\ c \notin Callers \ S
    BY <1>3
  <2> QED BY <1>2, <2>1, FS_AddElement
<1> QED BY <1>2, <1>3

LEMMA LimiterStarts == ASSUME Init PROVE LimiterInv
<1>1. Limiter!Init
  BY DEF Init
<1>2. MaxAttempts \in Nat \ {0} /\ Window \in Nat \ {0} /\ MaxTime \in Nat
  BY LimiterConfigured DEF Limiter!Configured
<1>3. Limiter!TypeOK
  BY <1>1, <1>2 DEF Limiter!TypeOK, Limiter!Init, Limiter!NoPromise
<1>4. Limiter!FailuresWereLetIn
  <2>1. hits \in Seq(Nat) /\ Len(hits) = 0
    BY <1>1 DEF Limiter!Init
  <2> QED BY <1>2, <2>1, RoomLeft, OneCardinality DEF Limiter!FailuresWereLetIn
<1>5. Limiter!WaitCoversTheOldest
  BY <1>1 DEF Limiter!Init, Limiter!WaitCoversTheOldest
<1> QED BY <1>3, <1>4, <1>5 DEF LimiterInv

LEMMA LimiterKeeps == ASSUME LimiterInv, [Limiter!Next]_(Limiter!vars) PROVE LimiterInv'
<1>1. /\ MaxAttempts \in Nat \ {0} /\ Window \in Nat \ {0} /\ MaxTime \in Nat
      /\ hits \in Seq(Nat) /\ now \in 0 .. MaxTime /\ promise \in 0 .. MaxTime + Window + 2
      /\ \A i \in 1 .. Len(hits) : hits[i] \in 0 .. now
      /\ attempts \subseteq Callers
      /\ Len(hits) < MaxAttempts + Cardinality(Callers \ attempts)
  BY LimiterConfigured, OneCardinality
     DEF Limiter!Configured, LimiterInv, Limiter!TypeOK, Limiter!FailuresWereLetIn
<1> DEFINE pruned == Limiter!Prune(hits)
           n == Cardinality(Limiter!Aged(hits))
<1>2. /\ n \in 0 .. Len(hits)
      /\ pruned \in Seq(Nat) /\ Len(pruned) = Len(hits) - n
      /\ \A i \in 1 .. Len(pruned) : pruned[i] = hits[i + n]
      /\ \A i \in 1 .. Len(pruned) : pruned[i] \in 0 .. now
  <2>1. /\ n \in 0 .. Len(hits)
        /\ pruned \in Seq(Nat) /\ Len(pruned) = Len(hits) - n
        /\ \A i \in 1 .. Len(pruned) : pruned[i] = hits[i + n]
    BY <1>1, PruneDropsTheAged
  <2> HIDE DEF pruned, n
  <2>2. ASSUME NEW i \in 1 .. Len(pruned) PROVE pruned[i] \in 0 .. now
    <3>1. i + n \in 1 .. Len(hits)
      BY <1>1, <2>1
    <3> QED BY <1>1, <2>1, <3>1
  <2> QED BY <2>1, <2>2
<1> HIDE DEF pruned, n
<1>3. CASE Limiter!Tick
  <2>1. /\ now' \in 0 .. MaxTime /\ now <= now'
        /\ hits' = hits /\ attempts' = attempts /\ promise' = promise
    BY <1>1, <1>3 DEF Limiter!Tick
  <2>2. Limiter!TypeOK'
    BY <1>1, <2>1 DEF Limiter!TypeOK
  <2>3. Limiter!FailuresWereLetIn' /\ Limiter!WaitCoversTheOldest'
    BY <2>1 DEF LimiterInv, Limiter!FailuresWereLetIn, Limiter!WaitCoversTheOldest
  <2> QED BY <2>2, <2>3 DEF LimiterInv
<1>4. ASSUME NEW c \in Callers, Limiter!Check(c)
      PROVE  LimiterInv'
  <2>1. /\ hits' = pruned /\ now' = now /\ c \notin attempts
        /\ \/ Len(pruned) < MaxAttempts /\ attempts' = attempts \cup {c} /\ promise' = promise
           \/ Len(pruned) >= MaxAttempts /\ attempts' = attempts
              /\ promise' = Limiter!Promised(pruned)
    BY <1>1, <1>2, <1>4 DEF Limiter!Check, Limiter!Admitted, pruned
  <2>2. CASE Len(pruned) < MaxAttempts /\ attempts' = attempts \cup {c} /\ promise' = promise
    <3>1. Limiter!TypeOK'
      BY <1>1, <1>2, <2>1, <2>2 DEF Limiter!TypeOK
    <3>2. Limiter!FailuresWereLetIn'
      <4>1. Cardinality(Callers \ attempts') \in Nat
        BY RoomLeft
      <4> QED BY <1>1, <1>2, <2>1, <2>2, <4>1, OneCardinality DEF Limiter!FailuresWereLetIn
    <3>3. Limiter!WaitCoversTheOldest'
      BY <1>1, <1>2, <2>1, <2>2 DEF Limiter!WaitCoversTheOldest
    <3> QED BY <3>1, <3>2, <3>3 DEF LimiterInv
  <2>3. CASE Len(pruned) >= MaxAttempts /\ attempts' = attempts
             /\ promise' = Limiter!Promised(pruned)
    <3>1. pruned[1] \in 0 .. now /\ Head(pruned) = pruned[1]
      BY <1>1, <1>2, <2>3
    <3> DEFINE left == pruned[1] + Window - now
    <3>2. /\ Limiter!RetryAfter(pruned) \in Nat
          /\ 2 * Limiter!RetryAfter(pruned) > left
          /\ 2 * Limiter!RetryAfter(pruned) <= Window + 2
      <4>1. left \in Int /\ left <= Window
        BY <1>1, <3>1
      <4>2. Limiter!RetryAfter(pruned) = IF left \div 2 + 1 < 1 THEN 1 ELSE left \div 2 + 1
        BY <3>1 DEF Limiter!RetryAfter
      <4> HIDE DEF left
      <4> QED BY <1>1, <4>1, <4>2, HalvesRoundedUp
    <3>3. /\ promise' \in 0 .. MaxTime + Window + 2
          /\ promise' # 0 => Len(pruned) = MaxAttempts /\ pruned[1] + Window < promise'
      BY <1>1, <2>3, <3>1, <3>2 DEF Limiter!Promised, Limiter!NoPromise
    <3>4. Limiter!TypeOK'
      BY <1>1, <1>2, <2>1, <2>3, <3>3 DEF Limiter!TypeOK
    <3>5. Limiter!FailuresWereLetIn'
      <4>1. Cardinality(Callers \ attempts) \in Nat
        BY RoomLeft
      <4> QED BY <1>1, <1>2, <2>1, <2>3, <4>1, OneCardinality DEF Limiter!FailuresWereLetIn
    <3>6. Limiter!WaitCoversTheOldest'
      BY <1>1, <1>2, <2>1, <3>3 DEF Limiter!WaitCoversTheOldest, Limiter!NoPromise
    <3> QED BY <3>4, <3>5, <3>6 DEF LimiterInv
  <2> QED BY <2>1, <2>2, <2>3
<1>5. ASSUME NEW c \in Callers, Limiter!RecordFailure(c)
      PROVE  LimiterInv'
  <2>1. /\ hits' = Append(pruned, now) /\ now' = now /\ attempts' = attempts \ {c}
        /\ promise' = 0 /\ c \in attempts
    BY <1>5 DEF Limiter!RecordFailure, Limiter!NoPromise, pruned
  <2>2. /\ hits' \in Seq(Nat) /\ Len(hits') = Len(pruned) + 1
        /\ \A i \in 1 .. Len(hits') : hits'[i] \in 0 .. now
    <3>1. /\ Append(pruned, now) \in Seq(Nat) /\ Len(Append(pruned, now)) = Len(pruned) + 1
          /\ \A i \in 1 .. Len(pruned) : Append(pruned, now)[i] = pruned[i]
          /\ Append(pruned, now)[Len(pruned) + 1] = now
      BY <1>1, <1>2
    <3> QED BY <1>1, <1>2, <2>1, <3>1
  <2>3. Limiter!TypeOK'
    BY <1>1, <2>1, <2>2 DEF Limiter!TypeOK
  <2>4. Limiter!FailuresWereLetIn'
    <3>1. /\ Cardinality(Callers \ attempts) \in Nat
          /\ Cardinality(Callers \ attempts') = Cardinality(Callers \ attempts) + 1
      BY <2>1, RoomLeft
    <3> QED BY <1>1, <1>2, <2>2, <3>1, OneCardinality DEF Limiter!FailuresWereLetIn
  <2>5. Limiter!WaitCoversTheOldest'
    BY <2>1 DEF Limiter!WaitCoversTheOldest, Limiter!NoPromise
  <2> QED BY <2>3, <2>4, <2>5 DEF LimiterInv
<1>6. ASSUME NEW c \in Callers, Limiter!Reset(c)
      PROVE  LimiterInv'
  <2>1. hits' = <<>> /\ now' = now /\ attempts' = attempts \ {c} /\ promise' = 0 /\ c \in attempts
    BY <1>6 DEF Limiter!Reset, Limiter!NoPromise
  <2>2. Limiter!TypeOK'
    BY <1>1, <2>1 DEF Limiter!TypeOK
  <2>3. Limiter!FailuresWereLetIn'
    <3>1. Cardinality(Callers \ attempts') \in Nat
      BY RoomLeft
    <3>2. hits' \in Seq(Nat) /\ Len(hits') = 0
      BY <2>1
    <3> QED BY <1>1, <3>1, <3>2, OneCardinality DEF Limiter!FailuresWereLetIn
  <2>4. Limiter!WaitCoversTheOldest'
    BY <2>1 DEF Limiter!WaitCoversTheOldest, Limiter!NoPromise
  <2> QED BY <2>2, <2>3, <2>4 DEF LimiterInv
<1>7. CASE UNCHANGED Limiter!vars
  BY <1>7 DEF LimiterInv, Limiter!vars, Limiter!TypeOK, Limiter!FailuresWereLetIn,
              Limiter!WaitCoversTheOldest
<1> QED BY <1>3, <1>4, <1>5, <1>6, <1>7 DEF Limiter!Next

\* RateLimiter: the clock, the log and the promise to a refused caller stay in
\* range.  BudgetHolds: however the requests overlap, what a window holds stays
\* within the budget and the requests in flight, and a caller who waits as
\* long as it was told finds room.
LEMMA BudgetFollows == ASSUME LimiterInv PROVE BudgetHolds
<1> DEFINE live == {i \in DOMAIN hits : hits[i] > now - Window}
<1>1. /\ MaxAttempts \in Nat \ {0} /\ Window \in Nat \ {0} /\ MaxTime \in Nat
      /\ hits \in Seq(Nat) /\ now \in Nat /\ promise \in Nat
      /\ attempts \subseteq Callers
      /\ Len(hits) < MaxAttempts + Cardinality(Callers \ attempts)
  BY LimiterConfigured, OneCardinality
     DEF Limiter!Configured, LimiterInv, Limiter!TypeOK, Limiter!FailuresWereLetIn
<1>2. Cardinality(live) <= Len(hits) /\ Cardinality(live) \in Nat
  <2>1. live \subseteq 1 .. Len(hits) /\ Len(hits) \in Nat
    BY <1>1
  <2> QED BY <2>1, CountTo, FS_Subset, FS_CardinalityType
<1>3. Cardinality(live) < MaxAttempts + Cardinality(Callers \ attempts)
  <2> HIDE DEF live
  <2>1. Cardinality(Callers \ attempts) \in Nat
    BY RoomLeft
  <2>2. Len(hits) \in Nat
    BY <1>1
  <2> QED BY <1>1, <1>2, <2>1, <2>2
<1>4. ASSUME promise # 0, now >= promise
      PROVE  Limiter!Admitted(Limiter!Prune(hits))
  <2>1. Len(hits) <= MaxAttempts /\ (Len(hits) = MaxAttempts => hits[1] + Window < promise)
    BY <1>4 DEF LimiterInv, Limiter!WaitCoversTheOldest, Limiter!NoPromise
  <2>2. Len(Limiter!Prune(hits)) = Len(hits) - Cardinality(Limiter!Aged(hits))
        /\ Cardinality(Limiter!Aged(hits)) \in 0 .. Len(hits)
        /\ IsFiniteSet(Limiter!Aged(hits))
    BY <1>1, PruneDropsTheAged
  <2>3. CASE Len(hits) = MaxAttempts
    <3>1. 1 \in Limiter!Aged(hits)
      BY <1>1, <1>4, <2>1, <2>3 DEF Limiter!Aged
    <3>2. Cardinality(Limiter!Aged(hits)) # 0
      BY <2>2, <3>1, FS_EmptySet
    <3> QED BY <1>1, <2>2, <2>3, <3>2 DEF Limiter!Admitted
  <2>4. CASE Len(hits) < MaxAttempts
    BY <1>1, <2>2, <2>4 DEF Limiter!Admitted
  <2> QED BY <1>1, <2>1, <2>3, <2>4
<1> QED BY <1>3, <1>4, OneCardinality DEF BudgetHolds, Limiter!BudgetHolds, Limiter!NoPromise

\* RateLimiter: however the requests overlap, what a window holds stays within
\* the budget and the requests in flight, and a caller who waits as long as it
\* was told finds room.
THEOREM BudgetAlwaysHolds == Spec => []BudgetHolds
<1>1. Init => LimiterInv
  BY LimiterStarts
<1>2. LimiterInv /\ [Next]_vars => LimiterInv'
  BY EachMovesAlone, LimiterKeeps
<1>3. LimiterInv => BudgetHolds
  BY BudgetFollows
<1> QED BY <1>1, <1>2, <1>3, PTL DEF Spec

(***************************************************************************)
(* Sign-in through an identity provider                                    *)
(***************************************************************************)

OidcInv ==
    /\ Oidc!TypeOK
    /\ Oidc!RequestsAreNumbered
    /\ Oidc!CodesAreIssued
    /\ Oidc!CallsHoldTheirRequest
    /\ Oidc!SignInsSpendTheirRequest
    /\ Oidc!SignInAnswersItsOwnRequest

LEMMA OidcStarts == ASSUME Init PROVE OidcInv
<1>1. Oidc!Init
  BY DEF Init
<1>2. DOMAIN started = {} /\ DOMAIN started = 1 .. 0 /\ 0 \in 0 .. MaxStarts
  BY <1>1, ProviderConfigured DEF Oidc!Init, Oidc!Configured
<1>3. Oidc!TypeOK
  BY <1>1 DEF Oidc!Init, Oidc!TypeOK
<1>4. Oidc!RequestsAreNumbered
  BY <1>2 DEF Oidc!RequestsAreNumbered
<1>5. Oidc!CodesAreIssued /\ Oidc!CallsHoldTheirRequest
  BY <1>1 DEF Oidc!Init, Oidc!CodesAreIssued, Oidc!CallsHoldTheirRequest
<1>6. Oidc!SignInsSpendTheirRequest /\ Oidc!SignInAnswersItsOwnRequest
  BY <1>1 DEF Oidc!Init, Oidc!SignInsSpendTheirRequest, Oidc!SignInAnswersItsOwnRequest
<1> QED BY <1>3, <1>4, <1>5, <1>6 DEF OidcInv

\* A step that starts nothing, signs nobody in, and takes neither a code nor a
\* redeemed one away keeps what the sign-ins say of themselves.
LEMMA SignInsStand ==
    ASSUME OidcInv, signedIn' = signedIn, redeemed \subseteq redeemed',
           \A r \in DOMAIN started : started'[r] = started[r]
    PROVE  Oidc!SignInAnswersItsOwnRequest'
<1>1. \A s \in signedIn : s.request \in DOMAIN started
  BY DEF OidcInv, Oidc!SignInsSpendTheirRequest, Oidc!Spent
<1> QED BY <1>1 DEF OidcInv, Oidc!SignInAnswersItsOwnRequest

LEMMA StartKeeps ==
    ASSUME OidcInv, NEW d \in Oidc!Doors, Oidc!Start(d)
    PROVE  OidcInv'
<1> DEFINE r == Oidc!Cardinality(DOMAIN started) + 1
<1>1. PICK n \in 0 .. MaxStarts : DOMAIN started = 1 .. n
  BY DEF OidcInv, Oidc!RequestsAreNumbered
<1>2. MaxStarts \in Nat
  BY ProviderConfigured DEF Oidc!Configured
<1>3. Cardinality(1 .. n) = n
  BY <1>1, <1>2, CountTo
<1>4. r = n + 1 /\ n < MaxStarts
  BY <1>1, <1>3, OneCardinality DEF Oidc!Start
<1> HIDE DEF r
<1>5. /\ started' = [q \in DOMAIN started \cup {r} |-> IF q = r THEN d ELSE started[q]]
      /\ stored' = stored \cup {r}
      /\ UNCHANGED <<codes, redeemed, callbacks, active, signedIn>>
  BY DEF Oidc!Start, r
<1>6. /\ DOMAIN started' = 1 .. n + 1 /\ r \notin DOMAIN started
      /\ \A q \in DOMAIN started : q \in DOMAIN started' /\ started'[q] = started[q]
      /\ n + 1 \in 0 .. MaxStarts
  BY <1>1, <1>2, <1>4, <1>5
<1>7. Oidc!Spent' = Oidc!Spent
  BY <1>1, <1>2, <1>4, <1>5, <1>6 DEF Oidc!Spent
<1>8. Oidc!TypeOK'
  BY <1>5, <1>6, <1>7 DEF OidcInv, Oidc!TypeOK, Oidc!Spent, Oidc!NoCall
<1>9. Oidc!RequestsAreNumbered'
  BY <1>6 DEF Oidc!RequestsAreNumbered
<1>10. Oidc!CodesAreIssued'
  BY <1>5, <1>6 DEF OidcInv, Oidc!CodesAreIssued
<1>11. Oidc!CallsHoldTheirRequest'
  <2>1. \A q \in Oidc!Spent : started'[q] = started[q]
    BY <1>6 DEF Oidc!Spent
  <2> QED BY <1>5, <1>7, <2>1 DEF OidcInv, Oidc!CallsHoldTheirRequest, Oidc!NoCall, Oidc!Doors
<1>12. Oidc!SignInsSpendTheirRequest'
  BY <1>5, <1>7 DEF OidcInv, Oidc!SignInsSpendTheirRequest, Oidc!NoCall, Oidc!Doors
<1>13. Oidc!SignInAnswersItsOwnRequest'
  BY <1>5, <1>6, SignInsStand
<1> QED BY <1>8, <1>9, <1>10, <1>11, <1>12, <1>13 DEF OidcInv

\* Requests may leave a store and callbacks may end at any time.
LEMMA ForgettingKeeps ==
    ASSUME OidcInv, started' = started, stored' \subseteq stored, active' \subseteq active,
           UNCHANGED <<codes, redeemed, signedIn>>,
           callbacks' \in {callbacks, [d \in Oidc!Doors |-> Oidc!NoCall]}
    PROVE  OidcInv'
<1>1. Oidc!Spent \subseteq Oidc!Spent'
  BY DEF Oidc!Spent
<1>2. /\ DOMAIN callbacks' = Oidc!Doors
      /\ \A d \in Oidc!Doors : callbacks'[d] \in {callbacks[d], Oidc!NoCall}
  BY DEF OidcInv, Oidc!CallsHoldTheirRequest
<1>3. Oidc!TypeOK'
  BY <1>2 DEF OidcInv, Oidc!TypeOK, Oidc!NoCall, Oidc!Doors
<1>4. Oidc!RequestsAreNumbered' /\ Oidc!CodesAreIssued'
  BY DEF OidcInv, Oidc!RequestsAreNumbered, Oidc!CodesAreIssued
<1>5. Oidc!CallsHoldTheirRequest'
  BY <1>1, <1>2 DEF OidcInv, Oidc!CallsHoldTheirRequest, Oidc!NoCall, Oidc!Doors
<1>6. Oidc!SignInsSpendTheirRequest'
  BY <1>1, <1>2 DEF OidcInv, Oidc!SignInsSpendTheirRequest, Oidc!NoCall, Oidc!Doors
<1>7. Oidc!SignInAnswersItsOwnRequest'
  BY SignInsStand
<1> QED BY <1>3, <1>4, <1>5, <1>6, <1>7 DEF OidcInv
LEMMA AuthorizeKeeps ==
    ASSUME OidcInv, NEW r, NEW u \in Users, Oidc!Authorize(r, u)
    PROVE  OidcInv'
<1>1. /\ r \in DOMAIN started
      /\ codes' = codes \cup {[request |-> r, user |-> u]}
      /\ UNCHANGED <<started, stored, redeemed, callbacks, active, signedIn>>
  BY DEF Oidc!Authorize
<1>2. Oidc!Spent' = Oidc!Spent
  BY <1>1 DEF Oidc!Spent
<1>3. Oidc!TypeOK'
  BY <1>1 DEF OidcInv, Oidc!TypeOK, Oidc!NoCall, Oidc!Doors
<1>4. Oidc!RequestsAreNumbered'
  BY <1>1 DEF OidcInv, Oidc!RequestsAreNumbered
<1>5. Oidc!CodesAreIssued'
  BY <1>1 DEF OidcInv, Oidc!CodesAreIssued
<1>6. Oidc!CallsHoldTheirRequest'
  BY <1>1, <1>2 DEF OidcInv, Oidc!CallsHoldTheirRequest, Oidc!NoCall, Oidc!Doors
<1>7. Oidc!SignInsSpendTheirRequest'
  BY <1>1, <1>2 DEF OidcInv, Oidc!SignInsSpendTheirRequest, Oidc!NoCall, Oidc!Doors
<1>8. Oidc!SignInAnswersItsOwnRequest'
  BY <1>1, SignInsStand
<1> QED BY <1>3, <1>4, <1>5, <1>6, <1>7, <1>8 DEF OidcInv

\* The request leaves its store; if it was started at this door, the callback
\* goes on with it.
LEMMA CallbackKeeps ==
    ASSUME OidcInv, NEW d \in Oidc!Doors, NEW r, NEW code \in codes, Oidc!Callback(d, r, code)
    PROVE  OidcInv'
<1> DEFINE call == [at |-> "exchange", request |-> r, code |-> code]
<1>1. /\ callbacks[d] = Oidc!NoCall /\ r \in stored
      /\ stored' = stored \ {r}
      /\ callbacks' = IF started[r] = d THEN [callbacks EXCEPT ![d] = call] ELSE callbacks
      /\ UNCHANGED <<started, codes, redeemed, active, signedIn>>
  BY DEF Oidc!Callback, Oidc!StoreOf, Oidc!Belongs
<1>2. CASE started[r] # d
  BY <1>1, <1>2, ForgettingKeeps
<1>3. CASE started[r] = d
  <2>1. r \in DOMAIN started /\ r \notin Oidc!Spent /\ Oidc!Spent' = Oidc!Spent \cup {r}
    BY <1>1 DEF OidcInv, Oidc!TypeOK, Oidc!Spent
  <2>2. call.at = "exchange" /\ call.request = r /\ call.code = code /\ call # Oidc!NoCall
        /\ call \in [at : {"exchange", "verified"}, request : Oidc!Spent', code : codes]
    BY <2>1 DEF Oidc!NoCall
  <2>3. /\ DOMAIN callbacks' = Oidc!Doors /\ callbacks'[d] = call
        /\ \A e \in Oidc!Doors \ {d} : callbacks'[e] = callbacks[e]
    BY <1>1, <1>3 DEF OidcInv, Oidc!CallsHoldTheirRequest
  <2> HIDE DEF call
  <2>4. Oidc!TypeOK'
    <3>1. ASSUME NEW e \in Oidc!Doors
          PROVE  callbacks'[e] = Oidc!NoCall \/ callbacks'[e].request \in DOMAIN started \ stored'
      BY <1>1, <2>1, <2>2, <2>3 DEF OidcInv, Oidc!TypeOK
    <3> QED BY <1>1, <3>1 DEF OidcInv, Oidc!TypeOK, Oidc!NoCall, Oidc!Doors
  <2>5. Oidc!RequestsAreNumbered' /\ Oidc!CodesAreIssued'
    BY <1>1 DEF OidcInv, Oidc!RequestsAreNumbered, Oidc!CodesAreIssued
  <2>6. Oidc!CallsHoldTheirRequest'
    <3>1. ASSUME NEW e \in Oidc!Doors, callbacks'[e] # Oidc!NoCall
          PROVE  /\ callbacks'[e] \in [at : {"exchange", "verified"}, request : Oidc!Spent', code : codes]
                 /\ started[callbacks'[e].request] = e
                 /\ callbacks'[e].at = "verified" =>
                        /\ callbacks'[e].code.request = callbacks'[e].request
                        /\ callbacks'[e].code \in redeemed
      <4>1. CASE e = d
        BY <1>3, <2>2, <2>3, <4>1
      <4>2. CASE e # d
        BY <2>1, <2>3, <3>1, <4>2 DEF OidcInv, Oidc!CallsHoldTheirRequest
      <4> QED BY <4>1, <4>2
    <3> QED BY <1>1, <2>3, <3>1 DEF Oidc!CallsHoldTheirRequest, Oidc!NoCall, Oidc!Doors
  <2>7. Oidc!SignInsSpendTheirRequest'
    <3>1. ASSUME NEW s \in signedIn, NEW e \in Oidc!Doors, callbacks'[e] # Oidc!NoCall
          PROVE  callbacks'[e].request # s.request
      BY <2>1, <2>2, <2>3, <3>1 DEF OidcInv, Oidc!SignInsSpendTheirRequest
    <3>2. signedIn \subseteq [door : Oidc!Doors, user : Users, request : Oidc!Spent']
      BY <2>1 DEF OidcInv, Oidc!SignInsSpendTheirRequest
    <3> QED BY <1>1, <3>1, <3>2 DEF Oidc!SignInsSpendTheirRequest, Oidc!NoCall, Oidc!Doors
  <2>8. Oidc!SignInAnswersItsOwnRequest'
    BY <1>1, SignInsStand
  <2> QED BY <2>4, <2>5, <2>6, <2>7, <2>8 DEF OidcInv
<1> QED BY <1>2, <1>3

\* The code is spent whether or not it is honoured; a callback goes on only
\* with an answer to its own request.
LEMMA ExchangeKeeps ==
    ASSUME OidcInv, NEW d \in Oidc!Doors, Oidc!Exchange(d)
    PROVE  OidcInv'
<1> DEFINE call == callbacks[d]
           kept == [call EXCEPT !.at = "verified"]
<1>1. /\ call.at = "exchange"
      /\ \/ callbacks' = [callbacks EXCEPT ![d] = kept] /\ call.code.request = call.request
         \/ callbacks' = [callbacks EXCEPT ![d] = Oidc!NoCall]
      /\ redeemed' = redeemed \cup {call.code}
      /\ UNCHANGED <<started, stored, codes, active, signedIn>>
  <2>1. (callbacks' = [callbacks EXCEPT ![d].at = "verified"])
          => callbacks' = [callbacks EXCEPT ![d] = kept]
    OBVIOUS
  <2> QED BY <2>1 DEF Oidc!Exchange, Oidc!Verified
<1>2. call # Oidc!NoCall
      /\ call \in [at : {"exchange", "verified"}, request : Oidc!Spent, code : codes]
      /\ started[call.request] = d
  BY <1>1 DEF OidcInv, Oidc!CallsHoldTheirRequest, Oidc!NoCall
<1>3. /\ kept \in [at : {"exchange", "verified"}, request : Oidc!Spent, code : codes]
      /\ kept.request = call.request /\ kept.code = call.code
  BY <1>2
<1>4. /\ DOMAIN callbacks' = Oidc!Doors
      /\ callbacks'[d] = Oidc!NoCall \/ (callbacks'[d] = kept /\ call.code.request = call.request)
      /\ \A e \in Oidc!Doors \ {d} : callbacks'[e] = callbacks[e]
  BY <1>1 DEF OidcInv, Oidc!CallsHoldTheirRequest
<1>5. Oidc!Spent' = Oidc!Spent
  BY <1>1 DEF Oidc!Spent
<1> HIDE DEF kept
<1>6. Oidc!TypeOK'
  <2>1. ASSUME NEW e \in Oidc!Doors
        PROVE  callbacks'[e] = Oidc!NoCall \/ callbacks'[e].request \in DOMAIN started \ stored
    BY <1>2, <1>3, <1>4 DEF OidcInv, Oidc!TypeOK
  <2>2. redeemed' \subseteq codes
    BY <1>1, <1>2 DEF OidcInv, Oidc!TypeOK
  <2> QED BY <1>1, <2>1, <2>2 DEF OidcInv, Oidc!TypeOK, Oidc!NoCall, Oidc!Doors
<1>7. Oidc!RequestsAreNumbered' /\ Oidc!CodesAreIssued'
  BY <1>1 DEF OidcInv, Oidc!RequestsAreNumbered, Oidc!CodesAreIssued
<1>8. Oidc!CallsHoldTheirRequest'
  <2>1. ASSUME NEW e \in Oidc!Doors, callbacks'[e] # Oidc!NoCall
        PROVE  /\ callbacks'[e] \in [at : {"exchange", "verified"}, request : Oidc!Spent, code : codes]
               /\ started[callbacks'[e].request] = e
               /\ callbacks'[e].at = "verified" =>
                      /\ callbacks'[e].code.request = callbacks'[e].request
                      /\ callbacks'[e].code \in redeemed'
    <3>1. CASE e = d
      BY <1>1, <1>2, <1>3, <1>4, <2>1, <3>1
    <3>2. CASE e # d
      BY <1>1, <1>4, <2>1, <3>2 DEF OidcInv, Oidc!CallsHoldTheirRequest
    <3> QED BY <3>1, <3>2
  <2> QED BY <1>1, <1>4, <1>5, <2>1 DEF Oidc!CallsHoldTheirRequest, Oidc!NoCall, Oidc!Doors
<1>9. Oidc!SignInsSpendTheirRequest'
  <2>1. ASSUME NEW s \in signedIn, NEW e \in Oidc!Doors, callbacks'[e] # Oidc!NoCall
        PROVE  callbacks'[e].request # s.request
    BY <1>2, <1>3, <1>4, <2>1 DEF OidcInv, Oidc!SignInsSpendTheirRequest
  <2> QED BY <1>1, <1>5, <2>1 DEF OidcInv, Oidc!SignInsSpendTheirRequest, Oidc!NoCall, Oidc!Doors
<1>10. Oidc!SignInAnswersItsOwnRequest'
  BY <1>1, SignInsStand
<1> QED BY <1>6, <1>7, <1>8, <1>9, <1>10 DEF OidcInv

\* The callback ends; who it signs in answered the request it held.
LEMMA SignInKeeps ==
    ASSUME OidcInv, NEW d \in Oidc!Doors, Oidc!SignIn(d)
    PROVE  OidcInv'
<1> DEFINE call == callbacks[d]
           u == call.code.user
           new == [door |-> d, user |-> u, request |-> call.request]
<1>1. /\ call.at = "verified"
      /\ callbacks' = [callbacks EXCEPT ![d] = Oidc!NoCall]
      /\ UNCHANGED <<started, stored, codes, redeemed, active>>
      /\ \/ signedIn' = signedIn
         \/ signedIn' = signedIn \cup {new} /\ Oidc!Entitled(d, u)
  BY DEF Oidc!SignIn
<1>2. /\ call # Oidc!NoCall
      /\ call \in [at : {"exchange", "verified"}, request : Oidc!Spent, code : codes]
      /\ started[call.request] = d
      /\ call.code.request = call.request /\ call.code \in redeemed
  BY <1>1 DEF OidcInv, Oidc!CallsHoldTheirRequest, Oidc!NoCall
<1>3. /\ DOMAIN callbacks' = Oidc!Doors /\ callbacks'[d] = Oidc!NoCall
      /\ \A e \in Oidc!Doors \ {d} : callbacks'[e] = callbacks[e]
  BY <1>1 DEF OidcInv, Oidc!CallsHoldTheirRequest
<1>4. Oidc!Spent' = Oidc!Spent
  BY <1>1 DEF Oidc!Spent
<1>5. call.code = [request |-> call.request, user |-> u] /\ u \in Users
  BY <1>2 DEF OidcInv, Oidc!CodesAreIssued
<1>6. /\ new.door = d /\ new.user = u /\ new.request = call.request
      /\ new \in [door : Oidc!Doors, user : Users, request : Oidc!Spent]
  BY <1>2, <1>5
<1>7. Oidc!TypeOK' /\ Oidc!RequestsAreNumbered' /\ Oidc!CodesAreIssued'
  BY <1>1, <1>3 DEF OidcInv, Oidc!TypeOK, Oidc!RequestsAreNumbered, Oidc!CodesAreIssued,
                    Oidc!NoCall, Oidc!Doors
<1>8. Oidc!CallsHoldTheirRequest'
  BY <1>1, <1>3, <1>4 DEF OidcInv, Oidc!CallsHoldTheirRequest, Oidc!NoCall, Oidc!Doors
<1> HIDE DEF new
<1>9. Oidc!SignInsSpendTheirRequest'
  <2>1. signedIn' \subseteq [door : Oidc!Doors, user : Users, request : Oidc!Spent]
    BY <1>1, <1>6 DEF OidcInv, Oidc!SignInsSpendTheirRequest
  <2>2. ASSUME NEW s \in signedIn', NEW e \in Oidc!Doors, callbacks'[e] # Oidc!NoCall
        PROVE  callbacks'[e].request # s.request
    <3>1. e # d /\ callbacks'[e] = callbacks[e]
      BY <1>3, <2>2
    <3>2. CASE s = new
      \* Two callbacks hold requests of two doors.
      BY <1>2, <1>6, <2>2, <3>1, <3>2 DEF OidcInv, Oidc!CallsHoldTheirRequest
    <3>3. CASE s \in signedIn
      BY <2>2, <3>1, <3>3 DEF OidcInv, Oidc!SignInsSpendTheirRequest
    <3> QED BY <1>1, <3>2, <3>3
  <2> QED BY <1>4, <2>1, <2>2 DEF Oidc!SignInsSpendTheirRequest, Oidc!NoCall, Oidc!Doors
<1>10. Oidc!SignInAnswersItsOwnRequest'
  <2>1. CASE signedIn' = signedIn
    BY <1>1, <2>1, SignInsStand
  <2>2. CASE signedIn' = signedIn \cup {new} /\ Oidc!Entitled(d, u)
    <3>1. \A s \in signedIn : s.request # new.request
      BY <1>2, <1>6 DEF OidcInv, Oidc!SignInsSpendTheirRequest
    <3>2. /\ started[new.request] = new.door
          /\ [request |-> new.request, user |-> new.user] \in redeemed
          /\ IF new.door = Oidc!Dashboard THEN new.user \in Admins ELSE Owner[new.door] = new.user
      BY <1>2, <1>5, <1>6, <2>2 DEF Oidc!Entitled
    <3> QED BY <1>1, <2>2, <3>1, <3>2 DEF OidcInv, Oidc!SignInAnswersItsOwnRequest, Oidc!Dashboard
  <2> QED BY <1>1, <2>1, <2>2
<1> QED BY <1>7, <1>8, <1>9, <1>10 DEF OidcInv

LEMMA OidcKeeps == ASSUME OidcInv, [Oidc!Next]_(Oidc!vars) PROVE OidcInv'
<1>1. CASE \E d \in Oidc!Doors : Oidc!Start(d) \/ Oidc!Exchange(d) \/ Oidc!SignIn(d)
  BY <1>1, StartKeeps, ExchangeKeeps, SignInKeeps
<1>2. CASE \E d \in Oidc!Doors, r \in Oidc!Requests, code \in codes : Oidc!Callback(d, r, code)
  BY <1>2, CallbackKeeps
<1>3. CASE \E r \in Oidc!Requests, u \in Users : Oidc!Authorize(r, u)
  BY <1>3, AuthorizeKeeps
<1>4. CASE \E r \in Oidc!Requests : Oidc!Expire(r)
  <2>1. PICK r \in Oidc!Requests : Oidc!Expire(r)
    BY <1>4
  <2>2. started' = started /\ stored' \subseteq stored /\ active' \subseteq active
        /\ UNCHANGED <<codes, redeemed, signedIn>> /\ callbacks' = callbacks
    BY <2>1 DEF Oidc!Expire
  <2> QED BY <2>2, ForgettingKeeps
<1>5. CASE \E u \in Users : Oidc!Deactivate(u)
  <2>1. PICK u \in Users : Oidc!Deactivate(u)
    BY <1>5
  <2>2. started' = started /\ stored' \subseteq stored /\ active' \subseteq active
        /\ UNCHANGED <<codes, redeemed, signedIn>> /\ callbacks' = callbacks
    BY <2>1 DEF Oidc!Deactivate
  <2> QED BY <2>2, ForgettingKeeps
<1>6. CASE Oidc!ApiRestart
  <2>1. started' = started /\ stored' \subseteq stored /\ active' \subseteq active
        /\ UNCHANGED <<codes, redeemed, signedIn>>
        /\ callbacks' = [d \in Oidc!Doors |-> Oidc!NoCall]
    BY <1>6 DEF Oidc!ApiRestart
  <2> QED BY <2>1, ForgettingKeeps
<1>7. CASE UNCHANGED Oidc!vars
  <2>1. started' = started /\ stored' \subseteq stored /\ active' \subseteq active
        /\ UNCHANGED <<codes, redeemed, signedIn>> /\ callbacks' = callbacks
    BY <1>7 DEF Oidc!vars
  <2> QED BY <2>1, ForgettingKeeps
<1> QED BY <1>1, <1>2, <1>3, <1>4, <1>5, <1>6, <1>7 DEF Oidc!Next

\* OidcSignIn: whoever is signed in at a door answered, at the provider, the
\* request that was started at that door, with a code nobody redeems again,
\* and no request signs in twice; however callbacks overlap, requests expire,
\* accounts are disabled and the process restarts.
THEOREM SignInsAnswerTheirOwnRequest == Spec => []SignInAnswersItsOwnRequest
<1>1. Init => OidcInv
  BY OidcStarts
<1>2. OidcInv /\ [Next]_vars => OidcInv'
  BY EachMovesAlone, OidcKeeps
<1>3. OidcInv => SignInAnswersItsOwnRequest
  BY DEF OidcInv, SignInAnswersItsOwnRequest
<1> QED BY <1>1, <1>2, <1>3, PTL DEF Spec

(***************************************************************************)
(* The resolver                                                            *)
(***************************************************************************)

ResolverInv ==
    /\ Dns!FilesAreZones /\ Dns!FilesFollowTheStep
    /\ zoneStep \in {"idle", "current", "write conf", "write hosts", "test", "signal", "put back"}

\* What an agent step sees: the files, the daemon and the memory.
LEMMA ResolverStarts == ASSUME Init PROVE ResolverInv
<1>1. Dns!Init
  BY DEF Init
<1> QED BY <1>1 DEF Dns!Init, ResolverInv, Dns!FilesAreZones, Dns!FilesFollowTheStep, Dns!IsZone,
                    Dns!Answers, Dns!NoFiles, Dns!NoZone

\* What the control plane publishes has the two files of a zone.
LEMMA PublishedIsAZone ==
    ASSUME NEW zone \in Dns!Published(peers, hostname, records)
    PROVE  Dns!IsZone(zone)
BY DEF Dns!Published, Dns!Zone, Dns!IsZone

\* Requests do not reach the gateway.
LEMMA RequestsStayAway ==
    ASSUME Dns!Request
    PROVE  UNCHANGED <<zoneDisk, resolver, zoneApplied, zoneStep, zoneTarget, zonePrevious, zoneCut,
                       zoneFaults>>
<1>1. ASSUME NEW r, NEW row, Dns!CreateRecord(r, row) \/ Dns!UpdateRecord(r, row)
      PROVE  Dns!Away
  BY <1>1 DEF Dns!CreateRecord, Dns!UpdateRecord, Dns!DraftRow, Dns!Draft, Dns!Edit
<1>2. ASSUME NEW r, Dns!DeleteRecord(r) \/ Dns!CommitRecord(r) \/ Dns!DropDraft(r) PROVE Dns!Away
  BY <1>2 DEF Dns!DeleteRecord, Dns!Draft, Dns!Edit, Dns!CommitRecord, Dns!DropDraft
<1>3. ASSUME NEW p, NEW l, Dns!CreatePeer(p, l) \/ Dns!RenamePeer(p, l) \/ Dns!MovePeer(p, l)
                          \/ Dns!DeletePeer(p)
      PROVE  Dns!Away
  BY <1>3 DEF Dns!CreatePeer, Dns!RenamePeer, Dns!MovePeer, Dns!DeletePeer, Dns!SetPeer, Dns!Edit
<1>4. ASSUME NEW h, Dns!Lockdown \/ Dns!PublishService(h) PROVE Dns!Away
  BY <1>4 DEF Dns!Lockdown, Dns!PublishService, Dns!Edit
<1>5. Dns!Away
  BY <1>1, <1>2, <1>3, <1>4 DEF Dns!Request
<1> QED BY <1>5 DEF Dns!Away, Dns!agent

\* What a restart that timed out leaves of the resolver.
LEMMA HungRestarts ==
    ASSUME Dns!FilesAreZones, resolver' \in {resolver, Dns!Stopped, Dns!Running(zoneDisk)}
    PROVE  /\ resolver' = [up |-> resolver'.up, loaded |-> resolver'.loaded]
           /\ resolver' = resolver \/ resolver'.up = FALSE \/ resolver'.loaded = zoneDisk
<1>1. resolver = [up |-> resolver.up, loaded |-> resolver.loaded]
  BY DEF Dns!FilesAreZones
<1>2. CASE resolver' = Dns!Stopped
  <2>1. resolver' = [up |-> FALSE, loaded |-> resolver.loaded]
    BY <1>1, <1>2 DEF Dns!Stopped
  <2> QED BY <2>1
<1>3. CASE resolver' = Dns!Running(zoneDisk)
  BY <1>3 DEF Dns!Running
<1> QED BY <1>1, <1>2, <1>3

LEMMA ResolverKeeps == ASSUME ResolverInv, [Dns!Next]_(Dns!vars) PROVE ResolverInv'
<1> USE DEF ResolverInv, Dns!FilesFollowTheStep, Dns!Answers
<1>1. CASE Dns!Request \/ UNCHANGED Dns!vars
  <2>1. UNCHANGED <<zoneDisk, resolver, zoneApplied, zoneStep, zoneTarget, zonePrevious, zoneCut>>
    BY <1>1, RequestsStayAway DEF Dns!vars, Dns!agent
  <2> QED BY <2>1 DEF Dns!FilesAreZones, Dns!IsZone
<1>2. CASE Dns!Poll
  <2>1. /\ zoneStep = "idle" /\ Dns!IsZone(zoneTarget)' /\ zonePrevious' = zoneDisk
        /\ zoneStep' = IF zoneDisk = zoneTarget' THEN "current" ELSE "write conf"
        /\ UNCHANGED <<zoneDisk, resolver, zoneApplied, zoneCut>>
    BY <1>2, PublishedIsAZone DEF Dns!Poll, Dns!Goto, Dns!IsZone
  <2>2. Dns!FilesAreZones'
    BY <2>1 DEF Dns!FilesAreZones, Dns!IsZone
  <2> QED BY <2>1, <2>2
<1>3. CASE Dns!Current
  <2>1. /\ zoneStep = "current" /\ zoneStep' = "idle"
        /\ UNCHANGED <<zoneDisk, zoneTarget, zonePrevious>>
        /\ zoneApplied' = zoneTarget \/ zoneApplied' = zoneApplied
        /\ resolver' \in {resolver, Dns!Stopped, Dns!Running(zoneDisk)}
        /\ zoneCut' = zoneCut \/ resolver' = Dns!Running(zoneDisk)
    BY <1>3 DEF Dns!Current, Dns!Finish, Dns!GiveUp, Dns!Goto, Dns!Applying, Dns!HangsUp,
                Dns!RestartHangs, Dns!SameCut
  <2>2. Dns!FilesAreZones'
    BY <2>1, HungRestarts DEF Dns!FilesAreZones, Dns!IsZone
  <2>3. zoneDisk = zoneTarget
    BY <2>1
  <2>4. CASE zoneCut
    <3>1. CASE resolver' = Dns!Running(zoneDisk)
      <4>1. resolver'.loaded = zoneDisk
        BY <3>1 DEF Dns!Running
      <4>2. CASE zoneApplied' = zoneTarget
        BY <2>1, <2>2, <2>3, <4>1, <4>2
      <4>3. CASE zoneApplied' = zoneApplied
        \* Only a restart that succeeded is the end of the cut.
        <5>1. zoneCut' = zoneCut \/ zoneApplied' = zoneTarget
          BY <1>3 DEF Dns!Current, Dns!Finish, Dns!GiveUp, Dns!Applying, Dns!HangsUp,
                      Dns!RestartHangs, Dns!SameCut
        <5> QED BY <2>1, <2>2, <2>3, <2>4, <4>1, <4>3, <5>1
      <4> QED BY <2>1, <4>2, <4>3
    <3>2. CASE zoneCut' = zoneCut
      BY <2>1, <2>2, <2>4, <3>2
    <3> QED BY <2>1, <3>1, <3>2
  <2>5. CASE ~zoneCut
    <3>1. Dns!Answers(zoneDisk)'
      BY <2>1, <2>3, <2>5, HungRestarts
    <3> QED BY <2>1, <2>2, <3>1
  <2> QED BY <2>4, <2>5
<1>4. CASE Dns!WriteConf
  <2>1. /\ zoneStep = "write conf" /\ zoneStep' = "write hosts"
        /\ zoneDisk' = [zoneDisk EXCEPT !.conf = zoneTarget.conf]
        /\ UNCHANGED <<resolver, zoneApplied, zoneTarget, zonePrevious, zoneCut>>
    BY <1>4 DEF Dns!WriteConf, Dns!Goto, Dns!Applying, Dns!SameCut
  <2> QED BY <2>1 DEF Dns!FilesAreZones, Dns!IsZone
<1>5. CASE Dns!WriteHosts
  <2>1. /\ zoneStep = "write hosts" /\ zoneStep' = "test"
        /\ zoneDisk' = [zoneDisk EXCEPT !.hosts = zoneTarget.hosts]
        /\ UNCHANGED <<resolver, zoneApplied, zoneTarget, zonePrevious, zoneCut>>
    BY <1>5 DEF Dns!WriteHosts, Dns!Goto, Dns!Applying, Dns!SameCut
  <2> QED BY <2>1 DEF Dns!FilesAreZones, Dns!IsZone
<1>6. CASE Dns!Test
  <2>1. /\ zoneStep = "test"
        /\ UNCHANGED <<resolver, zoneApplied, zoneTarget, zonePrevious>>
        /\ \/ zoneStep' = "signal" /\ zoneDisk' = zoneDisk /\ zoneCut' = zoneCut
           \/ zoneStep' = "idle" /\ zoneDisk' = zonePrevious /\ zoneCut' = zoneCut
           \/ zoneStep' = "idle" /\ zoneDisk' = zoneDisk /\ zoneCut' = TRUE
    BY <1>6 DEF Dns!Test, Dns!Goto, Dns!Applying, Dns!Restore, Dns!SameCut, Dns!HangsUp, Dns!GiveUp
  <2> QED BY <2>1 DEF Dns!FilesAreZones, Dns!IsZone
<1>7. CASE Dns!Signal
  <2>1. /\ zoneStep = "signal" /\ zoneStep' = "idle" /\ zoneDisk = zoneTarget
        /\ UNCHANGED <<zoneDisk, zoneTarget, zonePrevious>> /\ zoneApplied' = zoneTarget
        /\ zoneCut' = (zoneCut /\ zonePrevious.conf = zoneTarget.conf)
    BY <1>7 DEF Dns!Signal, Dns!Finish, Dns!Goto
  <2>2. CASE zonePrevious.conf # zoneTarget.conf
    <3>1. resolver' = [up |-> TRUE, loaded |-> zoneDisk]
      BY <1>7, <2>2 DEF Dns!Signal, Dns!Signalled, Dns!Running
    <3> QED BY <2>1, <3>1 DEF Dns!FilesAreZones, Dns!IsZone
  <2>3. CASE zonePrevious.conf = zoneTarget.conf
    <3>1. resolver.up /\ resolver' = [resolver EXCEPT !.loaded.hosts = zoneDisk.hosts]
      BY <1>7, <2>3 DEF Dns!Signal, Dns!Signalled
    <3>2. resolver' = [up |-> resolver.up,
                       loaded |-> [resolver.loaded EXCEPT !.hosts = zoneDisk.hosts]]
      BY <3>1 DEF Dns!FilesAreZones
    <3>3. CASE zoneCut
      BY <2>1, <2>3, <3>2, <3>3 DEF Dns!FilesAreZones, Dns!IsZone
    <3>4. CASE ~zoneCut
      <4>1. resolver.loaded = zonePrevious
        BY <2>1, <3>1, <3>4
      <4>2. [resolver.loaded EXCEPT !.hosts = zoneDisk.hosts] = zoneDisk
        BY <2>1, <2>3, <4>1 DEF Dns!FilesAreZones, Dns!IsZone
      <4>3. resolver' = [up |-> resolver.up, loaded |-> zoneDisk]
        BY <3>2, <4>2
      <4> QED BY <2>1, <4>3 DEF Dns!FilesAreZones, Dns!IsZone
    <3> QED BY <3>3, <3>4
  <2> QED BY <2>2, <2>3
<1>8. CASE Dns!SignalHangs
  <2>1. /\ zoneStep = "signal" /\ zoneStep' = "idle" /\ zoneCut' = TRUE
        /\ UNCHANGED <<zoneDisk, zoneApplied, zoneTarget, zonePrevious>>
        /\ resolver' \in {resolver, Dns!Stopped, Dns!Signalled}
    BY <1>8 DEF Dns!SignalHangs, Dns!GiveUp, Dns!Goto, Dns!Applying
  <2>2. resolver' = [up |-> resolver'.up, loaded |-> resolver'.loaded]
    <3>1. CASE resolver' \in {resolver, Dns!Stopped}
      BY <3>1, HungRestarts
    <3>2. CASE resolver' = Dns!Signalled /\ zonePrevious.conf # zoneTarget.conf
      BY <3>2 DEF Dns!Signalled, Dns!Running
    <3>3. CASE resolver' = Dns!Signalled /\ zonePrevious.conf = zoneTarget.conf
      <4>1. resolver = [up |-> resolver.up, loaded |-> resolver.loaded]
        BY DEF Dns!FilesAreZones
      <4>2. resolver' = [up |-> resolver.up,
                         loaded |-> [resolver.loaded EXCEPT !.hosts = zoneDisk.hosts]]
        BY <3>3, <4>1 DEF Dns!Signalled
      <4> QED BY <4>2
    <3> QED BY <2>1, <3>1, <3>2, <3>3
  <2> QED BY <2>1, <2>2 DEF Dns!FilesAreZones, Dns!IsZone
<1>9. CASE Dns!SignalFails
  <2>1. /\ zoneStep = "signal" /\ zoneStep' = "put back" /\ zoneDisk' = zonePrevious
        /\ UNCHANGED <<zoneApplied, zoneTarget, zonePrevious, zoneCut>>
        /\ resolver' \in {resolver, Dns!Stopped}
    BY <1>9 DEF Dns!SignalFails, Dns!Goto, Dns!Applying, Dns!Restore, Dns!SameCut
  <2>2. /\ resolver' = [up |-> resolver'.up, loaded |-> resolver'.loaded]
        /\ resolver' = resolver \/ resolver'.up = FALSE
    <3>1. CASE resolver' = Dns!Stopped
      <4>1. resolver' = [up |-> FALSE, loaded |-> resolver.loaded]
        BY <3>1 DEF Dns!FilesAreZones, Dns!Stopped
      <4> QED BY <4>1
    <3> QED BY <2>1, <3>1 DEF Dns!FilesAreZones
  <2> QED BY <2>1, <2>2 DEF Dns!FilesAreZones, Dns!IsZone
<1>10. CASE Dns!PutBack
  <2>1. /\ zoneStep = "put back" /\ zoneStep' = "idle"
        /\ UNCHANGED <<zoneDisk, zoneTarget, zonePrevious, zoneApplied, zoneCut>>
        /\ resolver' \in {resolver, Dns!Stopped, Dns!Running(zoneDisk)}
    BY <1>10 DEF Dns!PutBack, Dns!GiveUp, Dns!Goto, Dns!Applying, Dns!SameCut
  <2> QED BY <2>1, HungRestarts DEF Dns!FilesAreZones, Dns!IsZone
<1>11. CASE Dns!Reboot
  <2>1. /\ zoneStep' = "idle" /\ zoneApplied' = Dns!NoZone
        /\ UNCHANGED <<zoneDisk, zoneTarget, zonePrevious>>
    BY <1>11 DEF Dns!Reboot, Dns!Forget, Dns!Goto
  <2>2. resolver' = [up |-> FALSE, loaded |-> resolver.loaded]
    BY <1>11 DEF Dns!Reboot, Dns!Stopped, Dns!FilesAreZones
  <2> QED BY <2>1, <2>2 DEF Dns!FilesAreZones, Dns!IsZone, Dns!NoZone
<1>12. CASE Dns!AgentRestart
  <2>1. /\ zoneStep' = "idle" /\ zoneApplied' = Dns!NoZone
        /\ zoneCut' = (zoneCut \/ (/\ zoneStep \in {"write hosts", "test", "signal"}
                                   /\ zoneDisk # zonePrevious))
        /\ UNCHANGED <<resolver, zoneDisk, zoneTarget, zonePrevious>>
    BY <1>12 DEF Dns!AgentRestart, Dns!Forget, Dns!Goto
  <2>2. Dns!FilesAreZones'
    BY <2>1 DEF Dns!FilesAreZones, Dns!IsZone, Dns!NoZone
  <2>3. ASSUME ~zoneCut' PROVE Dns!Answers(zoneDisk)'
    <3>1. ~zoneCut /\ (zoneStep \in {"write hosts", "test", "signal"} => zoneDisk = zonePrevious)
      BY <2>1, <2>3
    <3>2. zoneStep = "write conf" => zoneDisk = zonePrevious
      OBVIOUS
    <3>3. resolver.up => resolver.loaded = zoneDisk
      BY <2>1, <3>1, <3>2
    <3> QED BY <2>1, <3>3
  <2> QED BY <2>1, <2>2, <2>3
<1> QED BY <1>1, <1>2, <1>3, <1>4, <1>5, <1>6, <1>7, <1>8, <1>9, <1>10, <1>11, <1>12
        DEF Dns!Next, Dns!Agent

\* InternalDns: between two polls the resolver answers from both files of one
\* zone, the one the agent remembers, whatever was refused, failed, timed out
\* or rebooted on the way and wherever the agent was killed; unless an apply
\* was cut off and the resolver has not been restarted since.
THEOREM ResolverAlwaysAnswersOneZone == Spec => []ResolverAnswersOneZone
<1>1. Init => ResolverInv
  BY ResolverStarts
<1>2. ResolverInv /\ [Next]_vars => ResolverInv'
  BY EachMovesAlone, ResolverKeeps
<1>3. ResolverInv => ResolverAnswersOneZone
  BY DEF ResolverInv, Dns!FilesFollowTheStep, Dns!Answers, Dns!AnswersOneZone,
         ResolverAnswersOneZone, Dns!ResolverAnswersOneZone
<1> QED BY <1>1, <1>2, <1>3, PTL DEF Spec

(***************************************************************************)
(* The zone                                                                *)
(***************************************************************************)

ZoneInv ==
    /\ Dns!TypeOK
    /\ records \in [Records -> RecordRows \cup {Dns!NoRecord}]
    /\ resolver = [up |-> resolver.up, loaded |-> resolver.loaded]

Drafts == {Dns!NoDraft} \cup [row : RecordRows \cup {Dns!NoRecord}, crossed : BOOLEAN]

RowsTyped ==
    /\ peers \in [Peers -> Dns!PeerRow]
    /\ \A p \in Peers : peers[p].state = "absent" <=> peers[p].label = Dns!None
    /\ records \in [Records -> RecordRows \cup {Dns!NoRecord}]
    /\ draft \in [Records -> Drafts]
    /\ hostname \in Hostnames \cup {Dns!None}
    /\ nameEdits \in 0 .. MaxNameEdits

GatewayTyped ==
    /\ zoneStep \in {"idle", "current", "write conf", "write hosts", "test", "signal", "put back"}
    /\ resolver.up \in BOOLEAN
    /\ resolver = [up |-> resolver.up, loaded |-> resolver.loaded]
    /\ zoneCut \in BOOLEAN
    /\ zoneFaults \in 0 .. MaxZoneFaults

LEMMA ZoneInvSplits == ZoneInv <=> RowsTyped /\ GatewayTyped
<1>1. ASSUME records \in [Records -> RecordRows \cup {Dns!NoRecord}]
      PROVE  \A r \in Dns!Rows(records) : records[r] \in RecordRows
  BY <1>1 DEF Dns!Rows, Dns!NoRecord
<1> QED BY <1>1 DEF ZoneInv, RowsTyped, Drafts, GatewayTyped, Dns!TypeOK

LEMMA ZoneStarts == ASSUME Init PROVE ZoneInv
<1>1. Dns!Init
  BY DEF Init
<1>2. RowsTyped
  BY <1>1, ResolverConfigured DEF Dns!Init, Dns!Configured, RowsTyped, Drafts
<1>3. GatewayTyped
  <2>1. zoneCut \in BOOLEAN /\ resolver = [up |-> FALSE, loaded |-> Dns!NoFiles]
        /\ zoneStep = "idle" /\ zoneFaults = 0
    BY <1>1 DEF Dns!Init
  <2> QED BY <2>1, ResolverConfigured DEF Dns!Configured, GatewayTyped
<1> QED BY <1>2, <1>3, ZoneInvSplits

\* A commit crosses the drafts of the others.
LEMMA CrossingStaysTyped ==
    ASSUME draft \in [Records -> Drafts], NEW done
    PROVE  Dns!Crossing(done) \in [Records -> Drafts]
<1>1. ASSUME NEW r \in Records, r \in Dns!Drafted
      PROVE  [draft[r] EXCEPT !.crossed = TRUE] \in Drafts
  BY <1>1 DEF Drafts, Dns!Drafted
<1> QED BY <1>1 DEF Dns!Crossing, Drafts

\* A row of a peer is written with its label in range.
LEMMA PeerRowsStayTyped ==
    ASSUME RowsTyped, NEW p \in Peers, NEW row \in Dns!PeerRow, Dns!SetPeer(p, row),
           row.state = "absent" <=> row.label = Dns!None
    PROVE  RowsTyped'
<1>1. /\ nameEdits < MaxNameEdits /\ nameEdits' = nameEdits + 1 /\ MaxNameEdits \in Nat
      /\ peers' = [peers EXCEPT ![p] = row] /\ records' = records /\ hostname' = hostname
      /\ draft' \in [Records -> Drafts]
  BY ResolverConfigured, CrossingStaysTyped
     DEF Dns!SetPeer, Dns!Edit, Dns!Configured, RowsTyped
<1> QED BY <1>1 DEF RowsTyped

LEMMA RequestsKeepRowsTyped ==
    ASSUME RowsTyped, Dns!Request
    PROVE  RowsTyped'
<1>1. MaxNameEdits \in Nat /\ Dns!None \notin Labels
  BY ResolverConfigured DEF Dns!Configured
<1>2. ASSUME NEW r \in Records, NEW row \in RecordRows \cup {Dns!NoRecord}, Dns!Draft(r, row)
      PROVE  RowsTyped'
  <2>1. /\ UNCHANGED <<peers, records, hostname>> /\ nameEdits' = nameEdits + 1
        /\ nameEdits < MaxNameEdits
        /\ draft' = [draft EXCEPT ![r] = [row |-> row, crossed |-> FALSE]]
    BY <1>2 DEF Dns!Draft, Dns!Edit
  <2>2. [row |-> row, crossed |-> FALSE] \in Drafts
    BY DEF Drafts
  <2> QED BY <1>1, <2>1, <2>2 DEF RowsTyped
<1>3. ASSUME NEW r \in Records, NEW row \in RecordRows,
             Dns!CreateRecord(r, row) \/ Dns!UpdateRecord(r, row)
      PROVE  RowsTyped'
  BY <1>2, <1>3 DEF Dns!CreateRecord, Dns!UpdateRecord, Dns!DraftRow
<1>4. ASSUME NEW r \in Records, Dns!DeleteRecord(r) \/ Dns!CommitRecord(r) \/ Dns!DropDraft(r)
      PROVE  RowsTyped'
  <2>1. CASE Dns!DeleteRecord(r)
    BY <1>2, <2>1 DEF Dns!DeleteRecord
  <2>2. CASE Dns!CommitRecord(r)
    <3>1. /\ records' = [records EXCEPT ![r] = draft[r].row] /\ draft' = Dns!Crossing({r})
          /\ UNCHANGED <<peers, hostname, nameEdits>> /\ r \in Dns!Drafted
      BY <2>2 DEF Dns!CommitRecord
    <3>2. draft[r].row \in RecordRows \cup {Dns!NoRecord}
      BY <3>1 DEF RowsTyped, Drafts, Dns!Drafted
    <3>3. draft' \in [Records -> Drafts]
      BY <3>1, CrossingStaysTyped DEF RowsTyped
    <3> QED BY <3>1, <3>2, <3>3 DEF RowsTyped
  <2>3. CASE Dns!DropDraft(r)
    BY <2>3 DEF Dns!DropDraft, RowsTyped, Drafts
  <2> QED BY <1>4, <2>1, <2>2, <2>3
<1>5. ASSUME NEW p \in Peers, NEW l \in Labels, Dns!CreatePeer(p, l)
      PROVE  RowsTyped'
  <2> DEFINE row == [state |-> "named", label |-> l]
  <2>1. Dns!SetPeer(p, row)
    BY <1>5 DEF Dns!CreatePeer
  <2>2. row \in Dns!PeerRow /\ row.state # "absent" /\ row.label # Dns!None
    BY <1>1 DEF Dns!PeerRow, Dns!States, Dns!NamedStates
  <2> QED BY <2>1, <2>2, PeerRowsStayTyped
<1>6. ASSUME NEW p \in Peers, NEW l \in Labels, Dns!RenamePeer(p, l)
      PROVE  RowsTyped'
  <2> DEFINE row == [peers[p] EXCEPT !.label = l]
  <2>1. Dns!SetPeer(p, row) /\ peers[p].state # "absent"
    BY <1>6 DEF Dns!RenamePeer
  <2>2. row \in Dns!PeerRow /\ row.state # "absent" /\ row.label # Dns!None
    BY <1>1, <2>1 DEF RowsTyped, Dns!PeerRow
  <2> QED BY <2>1, <2>2, PeerRowsStayTyped
<1>7. ASSUME NEW p \in Peers, NEW s \in Dns!States, Dns!MovePeer(p, s)
      PROVE  RowsTyped'
  <2> DEFINE row == [peers[p] EXCEPT !.state = s]
  <2>1. Dns!SetPeer(p, row) /\ peers[p].state # "absent" /\ s # "absent"
    BY <1>7 DEF Dns!MovePeer
  <2>2. row \in Dns!PeerRow /\ row.state # "absent" /\ row.label # Dns!None
    BY <1>1, <2>1 DEF RowsTyped, Dns!PeerRow
  <2> QED BY <2>1, <2>2, PeerRowsStayTyped
<1>8. ASSUME NEW p \in Peers, Dns!DeletePeer(p)
      PROVE  RowsTyped'
  <2> DEFINE row == [state |-> "absent", label |-> Dns!None]
  <2>1. Dns!SetPeer(p, row)
    BY <1>8 DEF Dns!DeletePeer
  <2>2. row \in Dns!PeerRow /\ row.state = "absent" /\ row.label = Dns!None
    BY DEF Dns!PeerRow, Dns!States
  <2> QED BY <2>1, <2>2, PeerRowsStayTyped
<1>9. CASE Dns!Lockdown
  <2>1. ASSUME NEW p \in Peers
        PROVE  LET row == IF peers[p].state \in Dns!NamedStates
                          THEN [peers[p] EXCEPT !.state = "disabled"] ELSE peers[p]
               IN  row \in Dns!PeerRow /\ (row.state = "absent" <=> row.label = Dns!None)
    BY DEF RowsTyped, Dns!PeerRow, Dns!States, Dns!NamedStates
  <2>2. /\ nameEdits < MaxNameEdits /\ nameEdits' = nameEdits + 1
        /\ peers' = [p \in Peers |-> IF peers[p].state \in Dns!NamedStates
                                     THEN [peers[p] EXCEPT !.state = "disabled"] ELSE peers[p]]
        /\ records' = records /\ hostname' = hostname
        /\ draft' \in [Records -> Drafts]
    BY <1>9, CrossingStaysTyped DEF Dns!Lockdown, Dns!Edit, RowsTyped
  <2> QED BY <1>1, <2>1, <2>2 DEF RowsTyped
<1>10. ASSUME NEW h \in Hostnames \cup {Dns!None}, Dns!PublishService(h)
       PROVE  RowsTyped'
  BY <1>1, <1>10, CrossingStaysTyped DEF Dns!PublishService, Dns!Edit, RowsTyped
<1> QED BY <1>3, <1>4, <1>5, <1>6, <1>7, <1>8, <1>9, <1>10 DEF Dns!Request

\* The gateway does not write the rows.
LEMMA AgentLeavesRows ==
    ASSUME Dns!Agent \/ Dns!Reboot \/ Dns!AgentRestart
    PROVE  UNCHANGED <<peers, records, draft, hostname, nameEdits>>
BY DEF Dns!Agent, Dns!Poll, Dns!Current, Dns!WriteConf, Dns!WriteHosts, Dns!Test, Dns!Signal,
       Dns!SignalHangs, Dns!SignalFails, Dns!PutBack, Dns!Reboot, Dns!AgentRestart, Dns!Finish,
       Dns!GiveUp, Dns!HangsUp, Dns!RestartHangs, Dns!Applying, Dns!Forget, Dns!rows

LEMMA AgentStaysTyped ==
    ASSUME GatewayTyped, Dns!Agent \/ Dns!Reboot \/ Dns!AgentRestart
    PROVE  GatewayTyped'
<1>1. \/ zoneFaults' = zoneFaults
      \/ zoneFaults < MaxZoneFaults /\ zoneFaults' = zoneFaults + 1
  BY DEF Dns!Agent, Dns!Poll, Dns!Current, Dns!WriteConf, Dns!WriteHosts, Dns!Test, Dns!Signal,
         Dns!SignalHangs, Dns!SignalFails, Dns!PutBack, Dns!Reboot, Dns!AgentRestart,
         Dns!HangsUp, Dns!RestartHangs, Dns!Fault, Dns!NoFault
<1>2. zoneStep' \in {"idle", "current", "write conf", "write hosts", "test", "signal", "put back"}
  BY DEF Dns!Agent, Dns!Poll, Dns!Current, Dns!WriteConf, Dns!WriteHosts, Dns!Test, Dns!Signal,
         Dns!SignalHangs, Dns!SignalFails, Dns!PutBack, Dns!Reboot, Dns!AgentRestart, Dns!Finish,
         Dns!GiveUp, Dns!HangsUp, Dns!RestartHangs, Dns!Goto, Dns!Forget
<1>3. \/ resolver' = resolver
      \/ \E zone : resolver' = [up |-> TRUE, loaded |-> zone]
      \/ resolver' = [resolver EXCEPT !.up = FALSE]
      \/ \E hosts : resolver' = [resolver EXCEPT !.loaded.hosts = hosts]
  <2>1. \/ resolver' \in {resolver, Dns!Stopped, Dns!Running(zoneDisk)}
        \/ resolver' = Dns!Signalled
    BY DEF Dns!Agent, Dns!Poll, Dns!Current, Dns!WriteConf, Dns!WriteHosts, Dns!Test, Dns!Signal,
           Dns!SignalHangs, Dns!SignalFails, Dns!PutBack, Dns!Reboot, Dns!AgentRestart,
           Dns!RestartHangs
  <2> QED BY <2>1 DEF Dns!Signalled, Dns!Running, Dns!Stopped
<1>4. resolver'.up \in BOOLEAN /\ resolver' = [up |-> resolver'.up, loaded |-> resolver'.loaded]
  <2>1. ASSUME NEW zone, resolver' = [up |-> TRUE, loaded |-> zone]
        PROVE  resolver'.up \in BOOLEAN
               /\ resolver' = [up |-> resolver'.up, loaded |-> resolver'.loaded]
    BY <2>1
  <2>2. CASE resolver' = [resolver EXCEPT !.up = FALSE]
    <3>1. resolver = [up |-> resolver.up, loaded |-> resolver.loaded]
      BY DEF GatewayTyped
    <3>2. resolver' = [up |-> FALSE, loaded |-> resolver.loaded]
      BY <2>2, <3>1
    <3> QED BY <3>2
  <2>3. ASSUME NEW hosts, resolver' = [resolver EXCEPT !.loaded.hosts = hosts]
        PROVE  resolver'.up \in BOOLEAN
               /\ resolver' = [up |-> resolver'.up, loaded |-> resolver'.loaded]
    <3>1. resolver = [up |-> resolver.up, loaded |-> resolver.loaded] /\ resolver.up \in BOOLEAN
      BY DEF GatewayTyped
    <3>2. resolver' = [up |-> resolver.up, loaded |-> [resolver.loaded EXCEPT !.hosts = hosts]]
      BY <2>3, <3>1
    <3> QED BY <3>1, <3>2
  <2> QED BY <1>3, <2>1, <2>2, <2>3 DEF GatewayTyped
<1>5. zoneFaults' \in 0 .. MaxZoneFaults
  <2>1. MaxZoneFaults \in Nat
    BY ResolverConfigured DEF Dns!Configured
  <2>2. zoneFaults \in 0 .. MaxZoneFaults
    BY DEF GatewayTyped
  <2> QED BY <1>1, <2>1, <2>2
<1>6. zoneCut' \in BOOLEAN
  BY DEF Dns!Agent, Dns!Poll, Dns!Current, Dns!WriteConf, Dns!WriteHosts, Dns!Test, Dns!Signal,
         Dns!SignalHangs, Dns!SignalFails, Dns!PutBack, Dns!Reboot, Dns!AgentRestart,
         Dns!SameCut, GatewayTyped
<1> QED BY <1>2, <1>4, <1>5, <1>6 DEF GatewayTyped

LEMMA ZoneKeeps == ASSUME ZoneInv, [Dns!Next]_(Dns!vars) PROVE ZoneInv'
<1>1. RowsTyped /\ GatewayTyped
  BY ZoneInvSplits
<1>2. CASE Dns!Request
  <2>1. GatewayTyped'
    BY <1>1, <1>2, RequestsStayAway DEF GatewayTyped
  <2>2. RowsTyped'
    BY <1>1, <1>2, RequestsKeepRowsTyped
  <2> QED BY <2>1, <2>2, ZoneInvSplits, PTL
<1>3. CASE Dns!Agent \/ Dns!Reboot \/ Dns!AgentRestart
  <2>1. RowsTyped'
    BY <1>1, <1>3, AgentLeavesRows DEF RowsTyped
  <2>2. GatewayTyped'
    BY <1>1, <1>3, AgentStaysTyped
  <2> QED BY <2>1, <2>2, ZoneInvSplits, PTL
<1>4. CASE UNCHANGED Dns!vars
  BY <1>4, <1>1 DEF Dns!vars, Dns!rows, Dns!agent, ZoneInv, Dns!TypeOK, Dns!Rows
<1> QED BY <1>2, <1>3, <1>4 DEF Dns!Next
\* The hosts of a zone are what is given and what records add.
RecordHosts(table) ==
    {<<table[r].value, Dns!Qualify(table[r].name)>> :
        r \in {q \in Dns!Rows(table) : table[q].enabled /\ table[q].kind = "A"}}

LEMMA HostsAreGivenOrRecorded ==
    Dns!Hosts(peers, hostname, records) = Dns!Given \cup RecordHosts(records)
<1>1. Dns!Rows([r \in Records |-> Dns!NoRecord]) = {}
  BY DEF Dns!Rows, Dns!NoRecord
<1> QED BY <1>1 DEF Dns!Hosts, Dns!Given, RecordHosts

LEMMA RecordNamesAreLabels ==
    RowsTyped => \A h \in RecordHosts(records) : h[2] \in Labels
<1> SUFFICES ASSUME RowsTyped, NEW h \in RecordHosts(records)
             PROVE  h[2] \in Labels
  OBVIOUS
<1>1. PICK r \in Dns!Rows(records) : h = <<records[r].value, Dns!Qualify(records[r].name)>>
  BY DEF RecordHosts
<1>2. records[r] \in RecordRows
  BY <1>1 DEF RowsTyped, Dns!Rows, Dns!NoRecord
<1> QED BY <1>1, <1>2, ResolverConfigured DEF Dns!Configured, Dns!Written, Dns!Qualify

\* A name that is given is in the zone, or is declared outside it.
LEMMA GivenNamesAreKnown ==
    RowsTyped => \A h \in Dns!Given : h[2] \in Dns!InZone \cup Dns!External(hostname)
<1> SUFFICES ASSUME RowsTyped, NEW h \in Dns!Given
             PROVE  h[2] \in Dns!InZone \cup Dns!External(hostname)
  OBVIOUS
<1>1. \/ h = <<"gateway", Dns!GatewayName>>
      \/ h = <<"portal", Dns!PortalName>>
      \/ \E p \in Peers : peers[p].state \in Dns!NamedStates /\ h = <<p, peers[p].label>>
      \/ hostname # Dns!None /\ h = <<"gateway", hostname>>
  BY DEF Dns!Given, Dns!Hosts, Dns!Rows, Dns!NoRecord
<1>2. ASSUME NEW p \in Peers, peers[p].state \in Dns!NamedStates
      PROVE  peers[p].label \in Labels
  <2>1. peers[p] \in Dns!PeerRow /\ peers[p].state # "absent"
    BY <1>2 DEF RowsTyped, Dns!NamedStates
  <2> QED BY <2>1 DEF RowsTyped, Dns!PeerRow
<1> QED BY <1>1, <1>2 DEF Dns!InZone, Dns!External, Dns!PortalName, Dns!None, Dns!GatewayName

\* Fewer given hosts, the same records: what was a zone is one still.
LEMMA FewerNamesStillRender ==
    ASSUME RowsTyped', Dns!Given' \subseteq Dns!Given, records' = records,
           Dns!Renders(peers, hostname, records)
    PROVE  Dns!Renders(peers', hostname', records')
<1> DEFINE hosts == Dns!Hosts(peers, hostname, records)
           fewer == Dns!Hosts(peers', hostname', records')
           aliases == Dns!Live(Dns!Aliases(records), Dns!NamesOf(hosts))
           left == Dns!Live(Dns!Aliases(records), Dns!NamesOf(fewer))
<1>1. /\ hosts = Dns!Given \cup RecordHosts(records)
      /\ fewer = Dns!Given' \cup RecordHosts(records)
  <2>1. (Dns!Hosts(peers, hostname, records) = Dns!Given \cup RecordHosts(records))'
    BY HostsAreGivenOrRecorded, PTL
  <2>2. RecordHosts(records') = RecordHosts(records)
    OBVIOUS
  <2> QED BY <2>1, <2>2, HostsAreGivenOrRecorded
<1>2. fewer \subseteq hosts /\ \A h \in fewer : h[2] \in Dns!InZone \cup Dns!External(hostname')
  <2>1. (RowsTyped => \A h \in Dns!Given : h[2] \in Dns!InZone \cup Dns!External(hostname))'
    BY GivenNamesAreKnown, PTL
  <2>2. (RowsTyped => \A h \in RecordHosts(records) : h[2] \in Labels)'
    BY RecordNamesAreLabels, PTL
  <2>3. \A h \in Dns!Given' : h[2] \in Dns!InZone \cup Dns!External(hostname')
    BY <2>1
  <2>4. \A h \in RecordHosts(records) : h[2] \in Labels
    BY <2>2
  <2> HIDE DEF hosts, fewer
  <2> QED BY <1>1, <2>3, <2>4 DEF Dns!InZone
<1>3. Dns!Valid([hosts |-> hosts, aliases |-> aliases], Dns!External(hostname))
  BY DEF Dns!Renders, Dns!Projection
<1>4. Dns!Projection(peers', hostname', records') = [hosts |-> fewer, aliases |-> left]
  BY DEF Dns!Projection
<1>5. left \subseteq aliases /\ \A a \in left : a[3] \in Dns!NamesOf(fewer)
  <2>1. Dns!NamesOf(fewer) \subseteq Dns!NamesOf(hosts)
    BY <1>2 DEF Dns!NamesOf
  <2> QED BY <2>1 DEF Dns!Live
<1> HIDE DEF hosts, fewer, aliases, left
<1>6. \A a \in left : a[2] \notin Dns!NamesOf(fewer)
  <2>1. \A a \in aliases : a[2] \notin Dns!NamesOf(hosts)
    BY <1>3 DEF Dns!Valid
  <2> QED BY <1>2, <1>5, <2>1 DEF Dns!NamesOf
<1>7. Dns!Valid([hosts |-> fewer, aliases |-> left], Dns!External(hostname'))
  <2>1. \A h, i \in fewer : h[2] = i[2] => h[1] = i[1]
    BY <1>2, <1>3 DEF Dns!Valid
  <2>2. Dns!NamesOf(fewer) \subseteq Dns!InZone \cup Dns!External(hostname')
    BY <1>2 DEF Dns!NamesOf
  <2>3. \A a, b \in left : a[2] = b[2] => a = b
    BY <1>3, <1>5 DEF Dns!Valid
  <2> QED BY <1>5, <1>6, <2>1, <2>2, <2>3 DEF Dns!Valid
<1> QED BY <1>4, <1>7 DEF Dns!Renders

\* A request that nobody has crossed is of a zone that renders with it, and
\* only such a one is committed without crossing the others.
LEMMA DraftsGoOnRendering ==
    ASSUME RowsTyped, Dns!DraftsRender, [Dns!Next]_(Dns!vars)
    PROVE  Dns!DraftsRender'
<1>1. ASSUME NEW done, draft' = Dns!Crossing(done)
      PROVE  Dns!DraftsRender'
  <2>1. ASSUME NEW r \in Records, draft'[r] # Dns!NoDraft PROVE draft'[r].crossed
    <3>1. r \in Dns!Drafted \ done /\ draft'[r] = [draft[r] EXCEPT !.crossed = TRUE]
      BY <1>1, <2>1 DEF Dns!Crossing
    <3>2. draft[r] \in [row : RecordRows \cup {Dns!NoRecord}, crossed : BOOLEAN]
      BY <3>1 DEF RowsTyped, Drafts, Dns!Drafted
    <3> QED BY <3>1, <3>2
  <2> QED BY <2>1 DEF Dns!DraftsRender, Dns!Drafted
<1>2. ASSUME NEW r \in Records, NEW row, Dns!Draft(r, row)
      PROVE  Dns!DraftsRender'
  <2>1. /\ UNCHANGED <<peers, records, hostname>>
        /\ draft' = [draft EXCEPT ![r] = [row |-> row, crossed |-> FALSE]]
        /\ Dns!Renders(peers, hostname, [records EXCEPT ![r] = row])
    BY <1>2 DEF Dns!Draft
  <2>2. /\ draft'[r].row = row
        /\ \A q \in Records \ {r} : draft'[q] = draft[q]
    BY <2>1 DEF RowsTyped
  <2>3. ASSUME NEW q \in Records, draft'[q] # Dns!NoDraft, ~draft'[q].crossed
        PROVE  Dns!Renders(peers, hostname, [records EXCEPT ![q] = draft'[q].row])
    <3>1. CASE q = r
      BY <2>1, <2>2, <3>1
    <3>2. CASE q # r
      BY <2>2, <2>3, <3>2 DEF Dns!DraftsRender, Dns!Drafted
    <3> QED BY <3>1, <3>2
  <2> QED BY <2>1, <2>3 DEF Dns!DraftsRender, Dns!Drafted
<1>3. CASE UNCHANGED <<peers, records, hostname, draft>>
  BY <1>3 DEF Dns!DraftsRender, Dns!Drafted
<1>4. ASSUME NEW r \in Records, Dns!DropDraft(r)
      PROVE  Dns!DraftsRender'
  <2>1. UNCHANGED <<peers, records, hostname>> /\ draft' = [draft EXCEPT ![r] = Dns!NoDraft]
    BY <1>4 DEF Dns!DropDraft
  <2>2. \A q \in Records : draft'[q] # Dns!NoDraft => draft'[q] = draft[q]
    BY <2>1 DEF RowsTyped
  <2> QED BY <2>1, <2>2 DEF Dns!DraftsRender, Dns!Drafted
<1>5. CASE Dns!Request
  <2>1. CASE \E r \in Records, row \in RecordRows : Dns!CreateRecord(r, row) \/ Dns!UpdateRecord(r, row)
    BY <1>2, <2>1 DEF Dns!CreateRecord, Dns!UpdateRecord, Dns!DraftRow
  <2>2. CASE \E r \in Records : Dns!DeleteRecord(r)
    BY <1>2, <2>2 DEF Dns!DeleteRecord
  <2>3. CASE \E r \in Records : Dns!CommitRecord(r)
    BY <1>1, <2>3 DEF Dns!CommitRecord
  <2>4. CASE \E r \in Records : Dns!DropDraft(r)
    BY <1>4, <2>4
  <2>5. CASE \/ \E p \in Peers, l \in Labels : Dns!CreatePeer(p, l) \/ Dns!RenamePeer(p, l)
             \/ \E p \in Peers, st \in Dns!States : Dns!MovePeer(p, st)
             \/ \E p \in Peers : Dns!DeletePeer(p)
             \/ Dns!Lockdown
             \/ \E h \in Hostnames \cup {Dns!None} : Dns!PublishService(h)
    <3>1. draft' = Dns!Crossing({})
      BY <2>5 DEF Dns!CreatePeer, Dns!RenamePeer, Dns!MovePeer, Dns!DeletePeer, Dns!SetPeer,
                  Dns!Lockdown, Dns!PublishService
    <3> QED BY <1>1, <3>1
  <2> QED BY <1>5, <2>1, <2>2, <2>3, <2>4, <2>5 DEF Dns!Request
<1>6. CASE Dns!Agent \/ Dns!Reboot \/ Dns!AgentRestart \/ UNCHANGED Dns!vars
  BY <1>3, <1>6, AgentLeavesRows DEF Dns!vars, Dns!rows
<1> QED BY <1>5, <1>6 DEF Dns!Next

\* An edit of a record is committed only if the zone renders with it, or if
\* another request has crossed it.
LEMMA RecordsAreStoredRendering ==
    ASSUME RowsTyped, Dns!DraftsRender, Dns!Request, ~Dns!CommitsCrossed
    PROVE  \/ records' = records
           \/ Dns!Renders(peers', hostname', records')
<1>1. ASSUME NEW r \in Records, Dns!CommitRecord(r)
      PROVE  \/ records' = records
             \/ Dns!Renders(peers', hostname', records')
  <2>1. /\ r \in Dns!Drafted /\ records' = [records EXCEPT ![r] = draft[r].row]
        /\ UNCHANGED <<peers, hostname>>
    BY <1>1 DEF Dns!CommitRecord
  <2>2. CASE draft[r].crossed
    <3>1. records'[r] = records[r]
      BY <2>1, <2>2 DEF Dns!CommitsCrossed
    <3>2. records' = records
      BY <2>1, <3>1 DEF RowsTyped
    <3> QED BY <3>2
  <2>3. CASE ~draft[r].crossed
    BY <2>1, <2>3 DEF Dns!DraftsRender
  <2> QED BY <2>2, <2>3
<1>2. ASSUME NEW r, NEW row, Dns!CreateRecord(r, row) \/ Dns!UpdateRecord(r, row)
      PROVE  records' = records
  BY <1>2 DEF Dns!CreateRecord, Dns!UpdateRecord, Dns!DraftRow, Dns!Draft
<1>3. ASSUME NEW r, Dns!DeleteRecord(r) \/ Dns!DropDraft(r)
      PROVE  records' = records
  BY <1>3 DEF Dns!DeleteRecord, Dns!Draft, Dns!DropDraft
<1>4. ASSUME NEW p, NEW l, Dns!CreatePeer(p, l) \/ Dns!RenamePeer(p, l) \/ Dns!MovePeer(p, l)
                          \/ Dns!DeletePeer(p)
      PROVE  records' = records
  BY <1>4 DEF Dns!CreatePeer, Dns!RenamePeer, Dns!MovePeer, Dns!DeletePeer, Dns!SetPeer
<1>5. ASSUME NEW h, Dns!Lockdown \/ Dns!PublishService(h)
      PROVE  records' = records
  BY <1>5 DEF Dns!Lockdown, Dns!PublishService
<1> QED BY <1>1, <1>2, <1>3, <1>4, <1>5 DEF Dns!Request

\* InternalDns: a zone that renders goes on rendering through every request
\* but one that gives a peer or a service a name, and a commit of a record that
\* another commit has crossed since its check.  Revoking a peer, the kill
\* switch and every other edit of a record leave the fleet resolving.
THEOREM ZonesSurvive == Spec => ZoneSurvives
<1> DEFINE I == ZoneInv /\ Dns!DraftsRender
<1>1. Init => I
  <2>1. ASSUME Init PROVE Dns!DraftsRender
    BY <2>1 DEF Init, Dns!Init, Dns!DraftsRender, Dns!Drafted
  <2> QED BY <2>1, ZoneStarts
<1>2. I /\ [Next]_vars => I'
  BY EachMovesAlone, ZoneKeeps, ZoneInvSplits, DraftsGoOnRendering
<1>3. ASSUME I, ZoneInv', [Next]_vars
      PROVE  [Dns!Given' \subseteq Dns!Given /\ Dns!Renders(peers, hostname, records)
                /\ ~Dns!CommitsCrossed
                => Dns!Renders(peers', hostname', records')]_(Dns!vars)
  <2>1. RowsTyped'
    BY <1>3, ZoneInvSplits, PTL
  <2>2. [Dns!Next]_(Dns!vars)
    BY <1>3, EachMovesAlone
  <2>3. CASE Dns!Request
    BY <1>3, <2>1, <2>3, ZoneInvSplits, RecordsAreStoredRendering, FewerNamesStillRender
  <2>4. CASE Dns!Agent \/ Dns!Reboot \/ Dns!AgentRestart
    BY <2>4, AgentLeavesRows
  <2> QED BY <2>2, <2>3, <2>4 DEF Dns!Next
<1> QED BY <1>1, <1>2, <1>3, PTL DEF Spec, ZoneSurvives, Dns!ZoneSurvives
(***************************************************************************)
(* The proxy                                                               *)
(***************************************************************************)

Steps == {"idle", "compare", "current", "write files", "write conf", "validate", "sync",
          "reload", "restart", "put back"}

ProxyInv == Proxy!FilesAreTexts /\ Proxy!FilesFollowTheStep /\ proxyStep \in Steps

LEMMA ProxyStarts == ASSUME Init PROVE ProxyInv
<1>1. Proxy!Init
  BY DEF Init
<1> QED BY <1>1 DEF Proxy!Init, ProxyInv, Steps, Proxy!FilesAreTexts, Proxy!FilesFollowTheStep,
                    Proxy!IsText, Proxy!Answers, Proxy!Remembers, Proxy!NoFiles, Proxy!NoDocument

\* The control plane, the download and the country map do not touch what the
\* applier installs.
LEMMA OthersStayAway ==
    ASSUME (\E d \in Documents : Proxy!Publish(d)) \/ Proxy!Download \/ Proxy!Geo
           \/ UNCHANGED Proxy!vars
    PROVE  UNCHANGED <<proxyDisk, proxy, proxyStep, proxyApplied, proxyTarget, proxyPrevious,
                       proxyCut>>
BY DEF Proxy!Publish, Proxy!Download, Proxy!Geo, Proxy!ForgetMap, Proxy!Rebuild, Proxy!vars,
       Proxy!agent

\* What a daemon that starts has loaded.
LEMMA StartingLoads ==
    ASSUME Proxy!RestartOk
    PROVE  /\ proxy' = [up |-> proxy'.up, text |-> proxy'.text, map |-> proxy'.map]
           /\ proxy'.up = TRUE
           /\ proxy'.text = Proxy!Read(proxyDisk)
BY DEF Proxy!RestartOk, Proxy!Loaded

LEMMA StoppingStops ==
    ASSUME Proxy!FilesAreTexts, proxy' = Proxy!Stopped
    PROVE  /\ proxy' = [up |-> proxy'.up, text |-> proxy'.text, map |-> proxy'.map]
           /\ proxy'.up = FALSE
<1>1. proxy = [up |-> proxy.up, text |-> proxy.text, map |-> proxy.map]
  BY DEF Proxy!FilesAreTexts
<1>2. proxy' = [up |-> FALSE, text |-> proxy.text, map |-> proxy.map]
  BY <1>1 DEF Proxy!Stopped
<1> QED BY <1>2

\* What a command that timed out leaves of it.
LEMMA HangingLeaves ==
    ASSUME Proxy!FilesAreTexts, proxy' \in {Proxy!Stopped} \cup Proxy!Reloaded
    PROVE  /\ proxy' = [up |-> proxy'.up, text |-> proxy'.text, map |-> proxy'.map]
           /\ proxy'.up \in BOOLEAN
           /\ \/ proxy' = proxy
              \/ proxy'.up = FALSE
              \/ proxy'.text = Proxy!Read(proxyDisk)
<1>1. proxy' \in {Proxy!Stopped, proxy, Proxy!Loaded}
  BY DEF Proxy!Reloaded
<1>2. CASE proxy' = Proxy!Stopped
  BY <1>2, StoppingStops
<1>3. CASE proxy' = Proxy!Loaded
  BY <1>3 DEF Proxy!Loaded
<1> QED BY <1>1, <1>2, <1>3 DEF Proxy!FilesAreTexts

\* Pushing every changed file makes of what the daemon runs what is on disk.
LEMMA PushingReloads ==
    ASSUME Proxy!FilesAreTexts, Proxy!FilesFollowTheStep, proxyStep = "sync", ~proxyCut,
           Proxy!Push(Proxy!Changed)
    PROVE  /\ proxy' = [up |-> proxy'.up, text |-> proxy'.text, map |-> proxy'.map]
           /\ proxy'.up = TRUE
           /\ proxy'.text = Proxy!Read(proxyDisk)
<1> DEFINE named == Proxy!FilesNamed(proxyTarget.conf)
<1>1. /\ proxyDisk = Proxy!Text(proxyTarget) /\ proxyPrevious.conf = proxyTarget.conf
      /\ proxy.up /\ proxy.text = Proxy!Read(proxyPrevious)
      /\ Proxy!FilesNamed(proxyDisk.conf) \subseteq DOMAIN proxyDisk.files
  BY DEF Proxy!FilesFollowTheStep, Proxy!Answers, Proxy!CanSync
<1>2. /\ proxyDisk.conf = proxyTarget.conf /\ proxyDisk.files = proxyTarget.files
      /\ proxyDisk = [conf |-> proxyTarget.conf, files |-> proxyTarget.files]
  BY <1>1 DEF Proxy!Text
<1>3. proxyPrevious = [conf |-> proxyTarget.conf, files |-> proxyPrevious.files]
  BY <1>1 DEF Proxy!FilesAreTexts, Proxy!IsText
<1>4. proxy.text = [conf |-> proxyTarget.conf,
                    files |-> [f \in named |-> proxyPrevious.files[f]]]
  BY <1>1, <1>3 DEF Proxy!Read, Proxy!Restrict
<1>5. Proxy!Read(proxyDisk) = [conf |-> proxyTarget.conf,
                               files |-> [f \in named |-> proxyTarget.files[f]]]
  BY <1>2 DEF Proxy!Read, Proxy!Restrict
<1>6. Proxy!PushedOf(Proxy!Changed) = [f \in named |-> proxyTarget.files[f]]
  <2>1. \A f \in named : f \notin Proxy!Changed => proxyPrevious.files[f] = proxyTarget.files[f]
    BY <1>1, <1>2 DEF Proxy!Changed
  <2>2. proxy.text.files = [f \in named |-> proxyPrevious.files[f]]
    BY <1>4
  <2> QED BY <2>1, <2>2 DEF Proxy!PushedOf
<1>7. proxy' = [proxy EXCEPT !.text.files = Proxy!PushedOf(Proxy!Changed)]
  BY DEF Proxy!Push
<1>8. proxy = [up |-> proxy.up, text |-> proxy.text, map |-> proxy.map] /\ proxy.up \in BOOLEAN
  BY DEF Proxy!FilesAreTexts
<1>9. [proxy.text EXCEPT !.files = Proxy!PushedOf(Proxy!Changed)] = Proxy!Read(proxyDisk)
  BY <1>4, <1>5, <1>6
<1>10. proxy' = [up |-> proxy.up, text |-> Proxy!Read(proxyDisk), map |-> proxy.map]
  BY <1>7, <1>8, <1>9
<1> QED BY <1>1, <1>8, <1>10

\* A push that fails leaves a daemon that runs, with we do not know what.
LEMMA PushingLeavesADaemon ==
    ASSUME Proxy!FilesAreTexts, NEW some, Proxy!Push(some)
    PROVE  /\ proxy' = [up |-> proxy'.up, text |-> proxy'.text, map |-> proxy'.map]
           /\ proxy'.up = proxy.up
<1>1. proxy = [up |-> proxy.up, text |-> proxy.text, map |-> proxy.map]
  BY DEF Proxy!FilesAreTexts
<1>2. proxy' = [up |-> proxy.up, text |-> [proxy.text EXCEPT !.files = Proxy!PushedOf(some)],
                map |-> proxy.map]
  BY <1>1 DEF Proxy!Push
<1> QED BY <1>2
NamesThere == Proxy!FilesNamed(proxyDisk.conf) \subseteq DOMAIN proxyDisk.files

LEMMA ProxyKeeps == ASSUME ProxyInv, [Proxy!Next]_(Proxy!vars) PROVE ProxyInv'
<1> USE DEF ProxyInv, Steps, Proxy!FilesFollowTheStep, Proxy!Answers, Proxy!Remembers
<1>1. CASE (\E d \in Documents : Proxy!Publish(d)) \/ Proxy!Download \/ Proxy!Geo
           \/ UNCHANGED Proxy!vars
  <2>1. UNCHANGED <<proxyDisk, proxy, proxyStep, proxyApplied, proxyTarget, proxyPrevious, proxyCut>>
    BY <1>1, OthersStayAway
  <2> QED BY <2>1 DEF Proxy!FilesAreTexts, Proxy!IsText, Proxy!CanSync, Proxy!Changed
<1>2. CASE Proxy!Tick
  <2>1. /\ proxyStep = "idle" /\ proxyStep' = "compare"
        /\ UNCHANGED <<proxyDisk, proxy, proxyApplied, proxyPrevious, proxyCut>>
    BY <1>2 DEF Proxy!Tick, Proxy!Goto
  <2> QED BY <2>1 DEF Proxy!FilesAreTexts, Proxy!IsText
<1>3. CASE Proxy!Compare
  <2>1. /\ proxyStep = "compare" /\ proxyPrevious' = proxyDisk
        /\ proxyStep' = IF proxyDisk = Proxy!Text(proxyTarget) THEN "current" ELSE "write files"
        /\ UNCHANGED <<proxyDisk, proxy, proxyApplied, proxyTarget, proxyCut>>
    BY <1>3 DEF Proxy!Compare, Proxy!Goto
  <2> QED BY <2>1 DEF Proxy!FilesAreTexts, Proxy!IsText
<1>4. CASE Proxy!CurrentText
  <2>1. /\ proxyStep = "current" /\ proxyStep' = "idle"
        /\ UNCHANGED <<proxyDisk, proxyTarget, proxyPrevious>>
        /\ proxyApplied' = proxyTarget \/ proxyApplied' = proxyApplied
        /\ \/ proxy' = proxy
           \/ Proxy!RestartOk /\ proxyApplied' = proxyTarget
           \/ proxy' \in {Proxy!Stopped} \cup Proxy!Reloaded /\ proxyCut' = proxyCut
        /\ proxyCut' = proxyCut \/ Proxy!RestartOk
    BY <1>4 DEF Proxy!CurrentText, Proxy!Finish, Proxy!GiveUp, Proxy!Goto, Proxy!Doing,
                Proxy!RestartFails, Proxy!HangsUp, Proxy!RestartHangs, Proxy!SameCut
  <2>2. /\ proxy' = [up |-> proxy'.up, text |-> proxy'.text, map |-> proxy'.map]
        /\ proxy'.up \in BOOLEAN
        /\ \/ proxy' = proxy
           \/ proxy'.up = FALSE
           \/ proxy'.text = Proxy!Read(proxyDisk)
    BY <2>1, StartingLoads, HangingLeaves DEF Proxy!FilesAreTexts
  <2>3. Proxy!FilesAreTexts'
    BY <2>1, <2>2 DEF Proxy!FilesAreTexts, Proxy!IsText
  <2>4. CASE ~proxyCut
    BY <2>1, <2>2, <2>3, <2>4
  <2>5. CASE Proxy!RestartOk /\ proxyApplied' = proxyTarget
    BY <2>1, <2>3, <2>5, StartingLoads
  <2>6. CASE proxyCut /\ proxyCut' = proxyCut
    BY <2>1, <2>3, <2>6
  <2>7. ~proxyCut \/ (Proxy!RestartOk /\ proxyApplied' = proxyTarget)
        \/ (proxyCut /\ proxyCut' = proxyCut)
    BY <1>4 DEF Proxy!CurrentText, Proxy!Finish, Proxy!SameCut
  <2> QED BY <2>4, <2>5, <2>6, <2>7
<1>5. CASE Proxy!WriteFiles
  <2>1. /\ proxyStep = "write files" /\ proxyStep' = "write conf"
        /\ proxyDisk' = [proxyDisk EXCEPT !.files = proxyTarget.files]
        /\ UNCHANGED <<proxy, proxyApplied, proxyTarget, proxyPrevious, proxyCut>>
    BY <1>5 DEF Proxy!WriteFiles, Proxy!Goto, Proxy!Doing, Proxy!SameCut
  <2> QED BY <2>1 DEF Proxy!FilesAreTexts, Proxy!IsText
<1>6. CASE Proxy!WriteConf
  <2>1. /\ proxyStep = "write conf" /\ proxyStep' = "validate"
        /\ proxyDisk' = [proxyDisk EXCEPT !.conf = proxyTarget.conf]
        /\ UNCHANGED <<proxy, proxyApplied, proxyTarget, proxyPrevious, proxyCut>>
    BY <1>6 DEF Proxy!WriteConf, Proxy!Goto, Proxy!Doing, Proxy!SameCut
  <2>2. proxyDisk' = Proxy!Text(proxyTarget)
    BY <2>1 DEF Proxy!FilesAreTexts, Proxy!IsText, Proxy!Text
  <2>3. Proxy!FilesAreTexts'
    BY <2>1, <2>2 DEF Proxy!FilesAreTexts, Proxy!IsText, Proxy!Text
  <2> QED BY <2>1, <2>2, <2>3
<1>7. CASE Proxy!Validate
  <2>1. /\ proxyStep = "validate"
        /\ UNCHANGED <<proxy, proxyApplied, proxyTarget, proxyPrevious>>
        /\ \/ /\ proxyStep' = "sync" /\ Proxy!CanSync /\ NamesThere
              /\ proxyDisk' = proxyDisk /\ proxyCut' = proxyCut
           \/ proxyStep' = "reload" /\ proxyDisk' = proxyDisk /\ proxyCut' = proxyCut
           \/ proxyStep' = "idle" /\ proxyDisk' = proxyPrevious /\ proxyCut' = proxyCut
           \/ proxyStep' = "idle" /\ proxyDisk' = proxyDisk /\ proxyCut' = TRUE
    BY <1>7 DEF Proxy!Validate, Proxy!Goto, Proxy!Doing, Proxy!Restore, Proxy!GiveUp,
                Proxy!HangsUp, Proxy!SameCut, Proxy!Parses, NamesThere
  <2>2. Proxy!FilesAreTexts'
    BY <2>1 DEF Proxy!FilesAreTexts, Proxy!IsText
  <2>3. CASE /\ proxyStep' = "sync" /\ Proxy!CanSync /\ NamesThere
             /\ proxyDisk' = proxyDisk /\ proxyCut' = proxyCut
    <3>1. Proxy!CanSync' /\ NamesThere'
      BY <2>1, <2>3 DEF Proxy!CanSync, Proxy!Changed, NamesThere, Proxy!FilesNamed, Proxy!Naming
    <3> QED BY <2>1, <2>2, <2>3, <3>1 DEF NamesThere
  <2>4. CASE proxyStep' = "reload" /\ proxyDisk' = proxyDisk /\ proxyCut' = proxyCut
    BY <2>1, <2>2, <2>4
  <2>5. CASE proxyStep' = "idle" /\ proxyDisk' = proxyPrevious /\ proxyCut' = proxyCut
    BY <2>1, <2>2, <2>5
  <2>6. CASE proxyStep' = "idle" /\ proxyDisk' = proxyDisk /\ proxyCut' = TRUE
    BY <2>1, <2>2, <2>6
  <2> QED BY <2>1, <2>3, <2>4, <2>5, <2>6
<1>8. CASE Proxy!Sync
  <2>1. /\ proxyStep = "sync"
        /\ UNCHANGED <<proxyDisk, proxyTarget, proxyPrevious, proxyCut>>
        /\ \/ Proxy!Push(Proxy!Changed) /\ proxyStep' = "idle" /\ proxyApplied' = proxyTarget
           \/ (\E some : Proxy!Push(some)) /\ proxyStep' = "reload" /\ proxyApplied' = proxyApplied
    BY <1>8 DEF Proxy!Sync, Proxy!Finish, Proxy!Goto, Proxy!Doing, Proxy!SameCut
  <2>2. /\ proxy' = [up |-> proxy'.up, text |-> proxy'.text, map |-> proxy'.map]
        /\ proxy'.up = proxy.up
    BY <2>1, PushingLeavesADaemon
  <2>3. Proxy!FilesAreTexts'
    BY <2>1, <2>2 DEF Proxy!FilesAreTexts, Proxy!IsText
  <2>4. CASE proxyCut
    BY <2>1, <2>3, <2>4
  <2>5. CASE ~proxyCut /\ Proxy!Push(Proxy!Changed) /\ proxyStep' = "idle"
             /\ proxyApplied' = proxyTarget
    <3>1. proxy'.up = TRUE /\ proxy'.text = Proxy!Read(proxyDisk)
      BY <2>1, <2>5, PushingReloads
    <3> QED BY <2>1, <2>3, <2>5, <3>1
  <2>6. CASE ~proxyCut /\ proxyStep' = "reload" /\ proxyApplied' = proxyApplied
    BY <2>1, <2>3, <2>6
  <2> QED BY <2>1, <2>4, <2>5, <2>6
<1>9. CASE Proxy!Reload
  <2>1. /\ proxyStep = "reload"
        /\ UNCHANGED <<proxyDisk, proxyTarget, proxyPrevious>>
        /\ \/ Proxy!RestartOk /\ proxyStep' = "idle" /\ proxyApplied' = proxyTarget
           \/ /\ proxy' = proxy /\ proxyStep' = "restart" /\ proxyApplied' = proxyApplied
              /\ proxyCut' = proxyCut
           \/ /\ proxy' \in Proxy!Reloaded /\ proxyStep' = "idle" /\ proxyApplied' = proxyApplied
              /\ proxyCut' = TRUE
    BY <1>9 DEF Proxy!Reload, Proxy!Finish, Proxy!Goto, Proxy!Doing, Proxy!GiveUp, Proxy!HangsUp,
                Proxy!SameCut
  <2>2. CASE Proxy!RestartOk /\ proxyStep' = "idle" /\ proxyApplied' = proxyTarget
    <3>1. Proxy!FilesAreTexts'
      BY <2>1, <2>2, StartingLoads DEF Proxy!FilesAreTexts, Proxy!IsText
    <3> QED BY <2>1, <2>2, <3>1, StartingLoads
  <2>3. CASE /\ proxy' = proxy /\ proxyStep' = "restart" /\ proxyApplied' = proxyApplied
             /\ proxyCut' = proxyCut
    <3>1. Proxy!FilesAreTexts'
      BY <2>1, <2>3 DEF Proxy!FilesAreTexts, Proxy!IsText
    <3> QED BY <2>1, <2>3, <3>1
  <2>4. CASE proxy' \in Proxy!Reloaded /\ proxyStep' = "idle" /\ proxyCut' = TRUE
    <3>1. Proxy!FilesAreTexts'
      BY <2>1, <2>4, HangingLeaves DEF Proxy!FilesAreTexts, Proxy!IsText
    <3> QED BY <2>1, <2>4, <3>1
  <2> QED BY <2>1, <2>2, <2>3, <2>4
<1>10. CASE Proxy!Restart
  <2>1. /\ proxyStep = "restart"
        /\ UNCHANGED <<proxyTarget, proxyPrevious>>
        /\ \/ /\ Proxy!RestartOk /\ proxyDisk' = proxyDisk
              /\ proxyStep' = "idle" /\ proxyApplied' = proxyTarget
           \/ /\ proxy' = Proxy!Stopped /\ proxyDisk' = proxyPrevious
              /\ proxyStep' = "put back" /\ proxyApplied' = proxyApplied
              /\ proxyCut' = proxyCut
           \/ /\ proxy' \in {Proxy!Stopped} \cup Proxy!Reloaded /\ proxyDisk' = proxyDisk
              /\ proxyStep' = "idle" /\ proxyApplied' = proxyApplied /\ proxyCut' = TRUE
    BY <1>10 DEF Proxy!Restart, Proxy!RestartFails, Proxy!Restore, Proxy!Finish, Proxy!Goto,
                 Proxy!Doing, Proxy!GiveUp, Proxy!HangsUp, Proxy!RestartHangs, Proxy!SameCut
  <2>2. CASE /\ Proxy!RestartOk /\ proxyDisk' = proxyDisk
             /\ proxyStep' = "idle" /\ proxyApplied' = proxyTarget
    <3>1. Proxy!FilesAreTexts'
      BY <2>1, <2>2, StartingLoads DEF Proxy!FilesAreTexts, Proxy!IsText
    <3> QED BY <2>1, <2>2, <3>1, StartingLoads
  <2>3. CASE /\ proxy' = Proxy!Stopped /\ proxyDisk' = proxyPrevious
             /\ proxyStep' = "put back" /\ proxyApplied' = proxyApplied
             /\ proxyCut' = proxyCut
    <3>1. Proxy!FilesAreTexts'
      BY <2>1, <2>3, StoppingStops DEF Proxy!FilesAreTexts, Proxy!IsText
    <3> QED BY <2>1, <2>3, <3>1, StoppingStops
  <2>4. CASE /\ proxy' \in {Proxy!Stopped} \cup Proxy!Reloaded /\ proxyDisk' = proxyDisk
             /\ proxyStep' = "idle" /\ proxyCut' = TRUE
    <3>1. Proxy!FilesAreTexts'
      BY <2>1, <2>4, HangingLeaves DEF Proxy!FilesAreTexts, Proxy!IsText
    <3> QED BY <2>1, <2>4, <3>1
  <2> QED BY <2>1, <2>2, <2>3, <2>4
<1>11. CASE Proxy!PutBack
  <2>1. /\ proxyStep = "put back" /\ proxyStep' = "idle"
        /\ UNCHANGED <<proxyDisk, proxyTarget, proxyPrevious, proxyApplied, proxyCut>>
        /\ Proxy!RestartOk \/ proxy' \in {Proxy!Stopped} \cup Proxy!Reloaded
    BY <1>11 DEF Proxy!PutBack, Proxy!RestartFails, Proxy!RestartHangs, Proxy!GiveUp, Proxy!Goto,
                 Proxy!Doing, Proxy!SameCut
  <2>2. /\ proxy' = [up |-> proxy'.up, text |-> proxy'.text, map |-> proxy'.map]
        /\ proxy'.up \in BOOLEAN
        /\ proxy'.up => proxy'.text = Proxy!Read(proxyDisk)
    BY <2>1, StartingLoads, HangingLeaves
  <2>3. Proxy!FilesAreTexts'
    BY <2>1, <2>2 DEF Proxy!FilesAreTexts, Proxy!IsText
  <2> QED BY <2>1, <2>2, <2>3
<1>12. CASE Proxy!Reboot
  <2>1. /\ proxyStep' = "idle" /\ proxyApplied' = Proxy!NoDocument /\ proxy' = Proxy!Stopped
        /\ UNCHANGED <<proxyDisk, proxyTarget, proxyPrevious>>
    BY <1>12 DEF Proxy!Reboot, Proxy!Amnesia, Proxy!Goto
  <2>2. Proxy!FilesAreTexts' /\ proxy'.up = FALSE
    BY <2>1, StoppingStops DEF Proxy!FilesAreTexts, Proxy!IsText
  <2> QED BY <2>1, <2>2 DEF Proxy!NoDocument
<1>13. CASE Proxy!AgentRestart
  <2>1. /\ proxyStep' = "idle" /\ proxyApplied' = Proxy!NoDocument
        /\ proxyCut' = (proxyCut \/ proxyStep \in {"write conf", "validate", "sync", "reload",
                                                   "restart"})
        /\ UNCHANGED <<proxy, proxyDisk, proxyTarget, proxyPrevious>>
    BY <1>13 DEF Proxy!AgentRestart, Proxy!Amnesia, Proxy!Goto
  <2>2. Proxy!FilesAreTexts'
    BY <2>1 DEF Proxy!FilesAreTexts, Proxy!IsText
  <2>3. ASSUME ~proxyCut' PROVE Proxy!Answers(proxyDisk)
    <3>1. ~proxyCut /\ proxyStep \in {"idle", "compare", "current", "write files", "put back"}
      BY <2>1, <2>3
    <3> QED BY <3>1
  <2> QED BY <2>1, <2>2, <2>3 DEF Proxy!NoDocument
<1> QED BY <1>1, <1>2, <1>3, <1>4, <1>5, <1>6, <1>7, <1>8, <1>9, <1>10, <1>11, <1>12, <1>13
        DEF Proxy!Next, Proxy!Agent

\* ProxyApplier: between two ticks a running proxy has loaded what is on disk,
\* file by file, the document the agent remembers; whatever was rejected,
\* failed to start, was pushed in part, timed out or rebooted on the way,
\* wherever the agent was killed, and whatever a refresh of the country map
\* does beside it; unless an apply was cut off and the proxy has not started
\* since.
THEOREM ProxyAlwaysRunsOneDocument == Spec => []ProxyRunsOneDocument
<1>1. Init => ProxyInv
  BY ProxyStarts
<1>2. ProxyInv /\ [Next]_vars => ProxyInv'
  BY EachMovesAlone, ProxyKeeps
<1>3. ProxyInv => ProxyRunsOneDocument
  BY DEF ProxyInv, Proxy!FilesFollowTheStep, Proxy!Answers, Proxy!Remembers, Proxy!RunsOneDocument,
         ProxyRunsOneDocument, Proxy!ProxyRunsOneDocument
<1> QED BY <1>1, <1>2, <1>3, PTL DEF Spec

(***************************************************************************)
(* Types                                                                   *)
(***************************************************************************)

ProxyTyped ==
    /\ Proxy!TypeOK
    /\ dataset \in Nat
    /\ proxy = [up |-> proxy.up, text |-> proxy.text, map |-> proxy.map]

LEMMA ProxyStartsTyped == ASSUME Init PROVE ProxyTyped
<1>1. Proxy!Init
  BY DEF Init
<1>2. proxy.up \in BOOLEAN /\ proxyCut \in BOOLEAN
  BY <1>1 DEF Proxy!Init
<1>3. map.from \in 0 .. dataset /\ stamp \subseteq map.for /\ dataset \in Nat
  BY <1>1 DEF Proxy!Init, Proxy!NoMap, Proxy!NoCountries
<1>4. proxy = [up |-> proxy.up, text |-> proxy.text, map |-> proxy.map]
  BY <1>1 DEF Proxy!Init
<1> QED BY <1>1, <1>2, <1>3, <1>4, Zenon DEF Proxy!Init, Proxy!TypeOK, ProxyTyped

\* A map is stamped for no more than it was built for.
LEMMA BuiltMapsAreStamped ==
    ASSUME dataset \in Nat, map.from \in 0 .. dataset, stamp \subseteq map.for,
           NEW countries, Proxy!Build(countries)
    PROVE  map'.from \in 0 .. dataset /\ stamp' \subseteq map'.for
<1>1. \/ UNCHANGED <<map, stamp>>
      \/ map' = Proxy!NoMap /\ stamp' = {}
      \/ map' = Proxy!EmptyMap /\ stamp' = {}
      \/ map' = Proxy!MapOf(countries) /\ stamp' = countries
  BY DEF Proxy!Build, Proxy!NoCountries
<1> QED BY <1>1 DEF Proxy!NoMap, Proxy!EmptyMap, Proxy!MapOf, Proxy!NoCountries

\* What each group of actions may write.
LEMMA ProxyWrites ==
    ASSUME [Proxy!Next]_(Proxy!vars)
    PROVE  /\ want' \in Documents \/ want' = want
           /\ proxyApplied' \in {proxyApplied, proxyTarget, Proxy!NoDocument}
           /\ proxyTarget' \in {proxyTarget, want}
           /\ proxyStep' \in Steps \/ proxyStep' = proxyStep
           /\ proxyCut \in BOOLEAN => proxyCut' \in BOOLEAN
<1>1. CASE Proxy!Next
  <2>1. want' \in Documents \/ want' = want
    BY <1>1 DEF Proxy!Next, Proxy!Publish, Proxy!Download, Proxy!Geo, Proxy!ForgetMap,
                Proxy!Rebuild, Proxy!Agent, Proxy!Tick, Proxy!Compare, Proxy!CurrentText,
                Proxy!WriteFiles, Proxy!WriteConf, Proxy!Validate, Proxy!Sync, Proxy!Reload,
                Proxy!Restart, Proxy!PutBack, Proxy!Reboot, Proxy!AgentRestart, Proxy!Steady
  <2>2. proxyApplied' \in {proxyApplied, proxyTarget, Proxy!NoDocument}
    BY <1>1 DEF Proxy!Next, Proxy!Publish, Proxy!Download, Proxy!Geo, Proxy!ForgetMap,
                Proxy!Rebuild, Proxy!Agent, Proxy!Tick, Proxy!Compare, Proxy!CurrentText,
                Proxy!WriteFiles, Proxy!WriteConf, Proxy!Validate, Proxy!Sync, Proxy!Reload,
                Proxy!Restart, Proxy!PutBack, Proxy!Reboot, Proxy!AgentRestart, Proxy!Finish,
                Proxy!GiveUp, Proxy!HangsUp, Proxy!Doing, Proxy!Amnesia, Proxy!agent
  <2>3. proxyTarget' \in {proxyTarget, want}
    BY <1>1 DEF Proxy!Next, Proxy!Publish, Proxy!Download, Proxy!Geo, Proxy!ForgetMap,
                Proxy!Rebuild, Proxy!Agent, Proxy!Tick, Proxy!Compare, Proxy!CurrentText,
                Proxy!WriteFiles, Proxy!WriteConf, Proxy!Validate, Proxy!Sync, Proxy!Reload,
                Proxy!Restart, Proxy!PutBack, Proxy!Reboot, Proxy!AgentRestart, Proxy!Finish,
                Proxy!GiveUp, Proxy!HangsUp, Proxy!Doing, Proxy!Amnesia, Proxy!agent
  <2>4. proxyStep' \in Steps \/ proxyStep' = proxyStep
    BY <1>1 DEF Proxy!Next, Proxy!Publish, Proxy!Download, Proxy!Geo, Proxy!ForgetMap,
                Proxy!Rebuild, Proxy!Agent, Proxy!Tick, Proxy!Compare, Proxy!CurrentText,
                Proxy!WriteFiles, Proxy!WriteConf, Proxy!Validate, Proxy!Sync, Proxy!Reload,
                Proxy!Restart, Proxy!PutBack, Proxy!Reboot, Proxy!AgentRestart, Proxy!Finish,
                Proxy!GiveUp, Proxy!HangsUp, Proxy!Goto, Proxy!Amnesia, Steps
  <2>5. ASSUME proxyCut \in BOOLEAN PROVE proxyCut' \in BOOLEAN
    BY <1>1, <2>5 DEF Proxy!Next, Proxy!Publish, Proxy!Download, Proxy!Geo, Proxy!ForgetMap,
                Proxy!Rebuild, Proxy!Agent, Proxy!Tick, Proxy!Compare, Proxy!CurrentText,
                Proxy!WriteFiles, Proxy!WriteConf, Proxy!Validate, Proxy!Sync, Proxy!Reload,
                Proxy!Restart, Proxy!PutBack, Proxy!Reboot, Proxy!AgentRestart, Proxy!SameCut,
                Proxy!agent
  <2> QED BY <2>1, <2>2, <2>3, <2>4, <2>5
<1>2. CASE UNCHANGED Proxy!vars
  BY <1>2 DEF Proxy!vars, Proxy!agent
<1> QED BY <1>1, <1>2

LEMMA MapsStayTyped ==
    ASSUME dataset \in Nat, map.from \in 0 .. dataset, stamp \subseteq map.for,
           [Proxy!Next]_(Proxy!vars)
    PROVE  dataset' \in Nat /\ map'.from \in 0 .. dataset' /\ stamp' \subseteq map'.for
<1>1. \/ dataset' = dataset + 1 /\ UNCHANGED <<map, stamp>>
      \/ UNCHANGED <<dataset, map, stamp>>
      \/ dataset' = dataset /\ \E countries : Proxy!Build(countries)
  <2>1. CASE Proxy!Download
    BY <2>1 DEF Proxy!Download
  <2>2. CASE Proxy!Tick
    BY <2>2 DEF Proxy!Tick
  <2>3. CASE Proxy!Geo
    BY <2>3 DEF Proxy!Geo, Proxy!ForgetMap, Proxy!Rebuild
  <2>4. CASE (\E d \in Documents : Proxy!Publish(d)) \/ UNCHANGED Proxy!vars
    BY <2>4 DEF Proxy!Publish, Proxy!vars, Proxy!geo
  <2>5. CASE \/ Proxy!Compare \/ Proxy!CurrentText \/ Proxy!WriteFiles \/ Proxy!WriteConf
             \/ Proxy!Validate \/ Proxy!Sync \/ Proxy!Reload \/ Proxy!Restart \/ Proxy!PutBack
             \/ Proxy!Reboot \/ Proxy!AgentRestart
    BY <2>5 DEF Proxy!Compare, Proxy!CurrentText, Proxy!WriteFiles, Proxy!WriteConf,
                Proxy!Validate, Proxy!Sync, Proxy!Reload, Proxy!Restart, Proxy!PutBack,
                Proxy!Reboot, Proxy!AgentRestart, Proxy!Steady, Proxy!GeoUnchanged
  <2> QED BY <2>1, <2>2, <2>3, <2>4, <2>5 DEF Proxy!Next, Proxy!Agent
<1> QED BY <1>1, BuiltMapsAreStamped

LEMMA DaemonStaysTyped ==
    ASSUME proxy = [up |-> proxy.up, text |-> proxy.text, map |-> proxy.map],
           proxy.up \in BOOLEAN, [Proxy!Next]_(Proxy!vars)
    PROVE  /\ proxy' = [up |-> proxy'.up, text |-> proxy'.text, map |-> proxy'.map]
           /\ proxy'.up \in BOOLEAN
<1>1. \/ proxy' = proxy
      \/ Proxy!RestartOk
      \/ proxy' = Proxy!Stopped
      \/ proxy' = Proxy!Loaded
      \/ \E some : Proxy!Push(some)
  <2>1. CASE \/ Proxy!CurrentText \/ Proxy!Sync \/ Proxy!Reload \/ Proxy!Restart \/ Proxy!PutBack
             \/ Proxy!Reboot \/ Proxy!AgentRestart
    BY <2>1 DEF Proxy!CurrentText, Proxy!Sync, Proxy!Reload, Proxy!Restart, Proxy!PutBack,
                Proxy!Reboot, Proxy!AgentRestart, Proxy!RestartFails, Proxy!RestartHangs,
                Proxy!Reloaded
  <2>2. CASE \/ (\E d \in Documents : Proxy!Publish(d)) \/ Proxy!Download \/ Proxy!Geo
             \/ Proxy!Tick \/ Proxy!Compare \/ Proxy!WriteFiles \/ Proxy!WriteConf
             \/ Proxy!Validate \/ UNCHANGED Proxy!vars
    BY <2>2 DEF Proxy!Publish, Proxy!Download, Proxy!Geo, Proxy!ForgetMap, Proxy!Rebuild,
                Proxy!Tick, Proxy!Compare, Proxy!WriteFiles, Proxy!WriteConf, Proxy!Validate,
                Proxy!vars
  <2> QED BY <2>1, <2>2 DEF Proxy!Next, Proxy!Agent
<1>2. CASE proxy' = Proxy!Stopped
  <2>1. proxy' = [up |-> FALSE, text |-> proxy.text, map |-> proxy.map]
    BY <1>2 DEF Proxy!Stopped
  <2> QED BY <2>1
<1>3. ASSUME NEW some, Proxy!Push(some)
      PROVE  /\ proxy' = [up |-> proxy'.up, text |-> proxy'.text, map |-> proxy'.map]
             /\ proxy'.up \in BOOLEAN
  <2>1. proxy' = [up |-> proxy.up, text |-> [proxy.text EXCEPT !.files = Proxy!PushedOf(some)],
                  map |-> proxy.map]
    BY <1>3 DEF Proxy!Push
  <2> QED BY <2>1
<1>4. CASE proxy' = Proxy!Loaded
  BY <1>4 DEF Proxy!Loaded
<1> QED BY <1>1, <1>2, <1>3, <1>4, StartingLoads

LEMMA ProxyStaysTyped == ASSUME ProxyTyped, [Proxy!Next]_(Proxy!vars) PROVE ProxyTyped'
<1>1. /\ want' \in Documents \/ want' = want
      /\ proxyApplied' \in {proxyApplied, proxyTarget, Proxy!NoDocument}
      /\ proxyTarget' \in {proxyTarget, want}
      /\ proxyStep' \in Steps \/ proxyStep' = proxyStep
      /\ proxyCut' \in BOOLEAN
  BY ProxyWrites DEF ProxyTyped, Proxy!TypeOK
<1>2. dataset' \in Nat /\ map'.from \in 0 .. dataset' /\ stamp' \subseteq map'.for
  BY MapsStayTyped DEF ProxyTyped, Proxy!TypeOK
<1>3. /\ proxy' = [up |-> proxy'.up, text |-> proxy'.text, map |-> proxy'.map]
      /\ proxy'.up \in BOOLEAN
  BY DaemonStaysTyped DEF ProxyTyped, Proxy!TypeOK
<1>4. /\ want' \in Documents
      /\ proxyApplied' \in Documents \cup {Proxy!NoDocument}
      /\ proxyTarget' \in Documents \cup {Proxy!NoDocument}
      /\ proxyStep' \in Steps
  BY <1>1 DEF ProxyTyped, Proxy!TypeOK, Steps
<1> QED BY <1>1, <1>2, <1>3, <1>4 DEF ProxyTyped, Proxy!TypeOK, Steps, Proxy!NoDocument

(***************************************************************************)
(* The versions of the ruleset                                             *)
(***************************************************************************)

VersionsInv ==
    /\ Versions!TypeOK
    /\ Versions!RequestsKnow
    /\ Versions!LocksApart
    /\ Versions!PolicyVouched
    /\ Versions!SentIsAudited

Row == [digest : Versions!Rulesets, status : Versions!Statuses]
Request ==
    [at : {"rendered", "looked", "marked", "locked"}, column : Columns, value : Values,
     ruleset : Versions!Rulesets, known : BOOLEAN, saw : SUBSET Nat, crossed : BOOLEAN]

LEMMA RulesetsAreTyped ==
    ASSUME NEW p \in [Columns -> Values]
    PROVE  Versions!Ruleset(p) \in Versions!Rulesets
BY StoresConfigured DEF Versions!Configured, Versions!Ruleset, Versions!Rulesets, Versions!Restrict

\* A table with the same rows in the same places has the same length.
LEMMA SameRows ==
    ASSUME NEW S, NEW s \in Seq(S), NEW t, t = [j \in DOMAIN s |-> t[j]],
           \A j \in DOMAIN s : t[j] \in S
    PROVE  t \in Seq(S) /\ Len(t) = Len(s) /\ DOMAIN t = DOMAIN s
<1>1. DOMAIN s = 1 .. Len(s) /\ Len(s) \in Nat
  OBVIOUS
<1>2. t \in [1 .. Len(s) -> S]
  BY <1>1
<1> QED BY <1>1, <1>2

\* Whoever is open has a request, and the others none.
LEMMA OpenRequests ==
    ASSUME Versions!TypeOK
    PROVE  /\ \A q \in Storers : requests[q] = Versions!Idle \/ requests[q] \in Request
           /\ \A q \in Versions!Open : requests[q] \in Request
           /\ \A q \in Storers : requests[q].at # "idle" => q \in Versions!Open
BY DEF Versions!TypeOK, Versions!Open, Versions!Idle, Request

LEMMA VersionsStart == ASSUME Init PROVE VersionsInv
<1>1. Versions!Init
  BY DEF Init
<1>2. Versions!TypeOK
  <2>1. /\ policy \in [Columns -> Values] /\ MaxStores \in Nat /\ stores = 0
        /\ requests = [q \in Storers |-> Versions!Idle]
        /\ versions = <<>> /\ vouched = FALSE /\ sent = {}
    BY <1>1, StoresConfigured DEF Versions!Init, Versions!Configured
  <2>2. versions \in Seq([digest : Versions!Rulesets, status : Versions!Statuses])
    BY <2>1
  <2>3. stores \in 0 .. MaxStores
    BY <2>1
  <2>4. vouched \in BOOLEAN
    BY <2>1
  <2> QED BY <2>1, <2>2, <2>3, <2>4, Zenon DEF Versions!TypeOK
<1>3. Versions!Open = {} /\ Versions!Locked = {} /\ \A q \in Storers : Versions!LockedBy(q) = {}
  BY <1>1 DEF Versions!Init, Versions!Open, Versions!Idle, Versions!Locked, Versions!LockedBy
<1> QED BY <1>1, <1>2, <1>3 DEF Versions!Init, VersionsInv, Versions!RequestsKnow,
        Versions!LocksApart, Versions!PolicyVouched, Versions!SentIsAudited

\* Rows are never taken away, and their digests never written again.
LEMMA RowsStay ==
    ASSUME Versions!TypeOK, versions' \in Seq(Row), Len(versions') >= Len(versions),
           \A j \in DOMAIN versions : versions'[j].digest = versions[j].digest
    PROVE  /\ DOMAIN versions \subseteq DOMAIN versions'
           /\ \A d : Versions!StoredAs(d) # {} => Versions!StoredAs(d)' # {}
<1>1. versions \in Seq(Row)
  BY DEF Versions!TypeOK, Row
<1>2. DOMAIN versions \subseteq DOMAIN versions'
  <2>1. DOMAIN versions = 1 .. Len(versions) /\ DOMAIN versions' = 1 .. Len(versions')
        /\ Len(versions) \in Nat /\ Len(versions') \in Nat
    BY <1>1
  <2> QED BY <2>1
<1> QED BY <1>2 DEF Versions!StoredAs

\* The steps of one open request that write nothing yet.
LEMMA OpenStepsKeep ==
    ASSUME VersionsInv, NEW q \in Storers, NEW new,
           requests' = [requests EXCEPT ![q] = new],
           UNCHANGED <<policy, versions, vouched, sent>>, stores' \in 0 .. MaxStores,
           \/ new = Versions!Idle
           \/ /\ new \in Request
              /\ new.saw \subseteq DOMAIN versions
              /\ new.known => Versions!StoredAs(new.ruleset) # {}
              /\ ~new.crossed =>
                    new.ruleset = Versions!Ruleset([policy EXCEPT ![new.column] = new.value])
              /\ new.at = "marked" /\ ~new.crossed => Versions!Pending \subseteq new.saw
              /\ new.at = "locked" =>
                    /\ new.saw \subseteq Versions!Pending
                    /\ ~new.crossed => Versions!Pending \subseteq new.saw
                    /\ \A r \in Storers \ {q} : new.saw \cap Versions!LockedBy(r) = {}
    PROVE  VersionsInv'
<1>1. /\ DOMAIN requests = Storers
      /\ \A r \in Storers : requests'[r] = IF r = q THEN new ELSE requests[r]
  BY DEF VersionsInv, Versions!TypeOK
<1>2. Versions!TypeOK'
  BY DEF VersionsInv, Versions!TypeOK, Request
<1>3. Versions!Pending' = Versions!Pending /\ \A d : Versions!StoredAs(d)' = Versions!StoredAs(d)
  BY DEF Versions!Pending, Versions!StoredAs
<1>4. Versions!RequestsKnow'
  <2> SUFFICES ASSUME NEW r \in Storers, requests'[r] # Versions!Idle
               PROVE  LET request == requests'[r]
                      IN  /\ request.saw \subseteq DOMAIN versions
                          /\ request.known => Versions!StoredAs(request.ruleset) # {}
                          /\ ~request.crossed => request.ruleset =
                                Versions!Ruleset([policy EXCEPT ![request.column] = request.value])
                          /\ request.at = "marked" /\ ~request.crossed
                                => Versions!Pending \subseteq request.saw
                          /\ request.at = "locked" =>
                                /\ request.saw \subseteq Versions!Pending
                                /\ ~request.crossed => Versions!Pending \subseteq request.saw
    BY <1>3 DEF Versions!RequestsKnow, Versions!Open, Versions!StoredAs, Versions!Pending,
                Versions!Idle, Versions!Ruleset, Versions!Restrict
  <2>1. CASE r = q
    BY <1>1, <2>1
  <2>2. CASE r # q
    BY <1>1, <2>2 DEF VersionsInv, Versions!RequestsKnow, Versions!Open
  <2> QED BY <2>1, <2>2
<1>5. Versions!LocksApart'
  <2>1. ASSUME NEW r \in Storers \ {q}
        PROVE  Versions!LockedBy(r)' = Versions!LockedBy(r)
    BY <1>1 DEF Versions!LockedBy
  <2>2. ASSUME NEW r \in Storers \ {q}
        PROVE  Versions!LockedBy(q)' \cap Versions!LockedBy(r) = {}
    BY <1>1 DEF Versions!LockedBy, Versions!Idle
  <2> QED BY <2>1, <2>2 DEF VersionsInv, Versions!LocksApart
<1>6. Versions!PolicyVouched' /\ Versions!SentIsAudited'
  BY <1>3 DEF VersionsInv, Versions!PolicyVouched, Versions!SentIsAudited, Versions!Ruleset,
              Versions!Restrict
<1> QED BY <1>2, <1>4, <1>5, <1>6 DEF VersionsInv

LEMMA RequestsKeep ==
    ASSUME VersionsInv, NEW q \in Storers,
           \/ \E c \in Columns, v \in Values : Versions!Render(q, c, v)
           \/ Versions!Look(q) \/ Versions!Mark(q) \/ Versions!Supersede(q) \/ Versions!Rollback(q)
    PROVE  VersionsInv'
<1>1. Versions!TypeOK /\ stores \in 0 .. MaxStores /\ MaxStores \in Nat
  BY StoresConfigured DEF VersionsInv, Versions!TypeOK, Versions!Configured
<1>2. /\ requests[q].at # "idle" => q \in Versions!Open /\ requests[q] \in Request
      /\ q \in Versions!Open => requests[q] \in Request
  BY <1>1, OpenRequests
<1>3. ASSUME NEW c \in Columns, NEW v \in Values, Versions!Render(q, c, v)
      PROVE  VersionsInv'
  <2> DEFINE new == [at |-> "rendered", column |-> c, value |-> v,
                     ruleset |-> Versions!Ruleset([policy EXCEPT ![c] = v]),
                     known |-> FALSE, saw |-> {}, crossed |-> FALSE]
  <2>1. /\ requests' = [requests EXCEPT ![q] = new]
        /\ UNCHANGED <<policy, versions, vouched, sent>>
        /\ stores' \in 0 .. MaxStores
    BY <1>1, <1>3 DEF Versions!Render, Versions!Goto, Versions!Inside
  <2>2. Versions!Ruleset([policy EXCEPT ![c] = v]) \in Versions!Rulesets
    <3>1. [policy EXCEPT ![c] = v] \in [Columns -> Values]
      BY <1>1 DEF Versions!TypeOK
    <3> QED BY <3>1, RulesetsAreTyped
  <2>3. /\ new \in Request /\ new.saw = {} /\ new.known = FALSE /\ new.at = "rendered"
        /\ new.ruleset = Versions!Ruleset([policy EXCEPT ![new.column] = new.value])
    BY <2>2 DEF Request
  <2> HIDE DEF new
  <2> QED BY <2>1, <2>3, OpenStepsKeep
<1>4. CASE Versions!Look(q)
  <2> DEFINE new == [requests[q] EXCEPT !.at = "looked",
                        !.known = Versions!StoredAs(requests[q].ruleset) # {}]
  <2>1. /\ requests' = [requests EXCEPT ![q] = new] /\ requests[q].at = "rendered"
        /\ UNCHANGED <<policy, versions, vouched, sent>> /\ stores' \in 0 .. MaxStores
    BY <1>1, <1>4 DEF Versions!Look, Versions!Goto, Versions!Inside
  <2>2. /\ q \in Versions!Open /\ requests[q] \in Request
    BY <1>2, <2>1
  <2>3. /\ new \in Request /\ new.at = "looked" /\ new.saw = requests[q].saw
        /\ new.ruleset = requests[q].ruleset /\ new.crossed = requests[q].crossed
        /\ new.column = requests[q].column /\ new.value = requests[q].value
        /\ new.known => Versions!StoredAs(new.ruleset) # {}
    BY <2>2 DEF Request
  <2> HIDE DEF new
  <2> QED BY <2>1, <2>2, <2>3, OpenStepsKeep DEF VersionsInv, Versions!RequestsKnow
<1>5. CASE Versions!Mark(q)
  <2> DEFINE new == [requests[q] EXCEPT !.at = "marked", !.saw = Versions!Pending]
  <2>1. /\ requests' = [requests EXCEPT ![q] = new] /\ requests[q].at = "looked"
        /\ UNCHANGED <<policy, versions, vouched, sent>> /\ stores' \in 0 .. MaxStores
    BY <1>1, <1>5 DEF Versions!Mark, Versions!Goto, Versions!Inside
  <2>2. q \in Versions!Open /\ requests[q] \in Request
    BY <1>2, <2>1
  <2>3. Versions!Pending \subseteq DOMAIN versions /\ DOMAIN versions \subseteq Nat
    <3>1. DOMAIN versions = 1 .. Len(versions) /\ Len(versions) \in Nat
      BY <1>1 DEF Versions!TypeOK
    <3> QED BY <3>1 DEF Versions!Pending
  <2>4. /\ new \in Request /\ new.at = "marked" /\ new.saw = Versions!Pending
        /\ new.ruleset = requests[q].ruleset /\ new.crossed = requests[q].crossed
        /\ new.column = requests[q].column /\ new.value = requests[q].value
        /\ new.known = requests[q].known
    BY <2>2, <2>3 DEF Request
  <2> HIDE DEF new
  <2> QED BY <2>1, <2>2, <2>3, <2>4, OpenStepsKeep DEF VersionsInv, Versions!RequestsKnow
<1>6. CASE Versions!Supersede(q)
  <2> DEFINE new == [requests[q] EXCEPT !.at = "locked", !.saw = @ \cap Versions!Pending]
  <2>1. /\ requests' = [requests EXCEPT ![q] = new] /\ requests[q].at = "marked"
        /\ requests[q].saw \cap Versions!Locked = {}
        /\ UNCHANGED <<policy, versions, vouched, sent>> /\ stores' \in 0 .. MaxStores
    BY <1>1, <1>6 DEF Versions!Supersede, Versions!Goto, Versions!Inside
  <2>2. q \in Versions!Open /\ requests[q] \in Request
    BY <1>2, <2>1
  <2>3. /\ new \in Request /\ new.at = "locked"
        /\ new.saw = requests[q].saw \cap Versions!Pending
        /\ new.ruleset = requests[q].ruleset /\ new.crossed = requests[q].crossed
        /\ new.column = requests[q].column /\ new.value = requests[q].value
        /\ new.known = requests[q].known
    BY <2>2 DEF Request
  <2>4. \A r \in Storers : requests[q].saw \cap Versions!LockedBy(r) = {}
    BY <2>1 DEF Versions!Locked
  <2> HIDE DEF new
  <2> QED BY <2>1, <2>2, <2>3, <2>4, OpenStepsKeep DEF VersionsInv, Versions!RequestsKnow
<1>7. CASE Versions!Rollback(q)
  BY <1>1, <1>7, OpenStepsKeep DEF Versions!Rollback, Versions!Goto, Versions!Inside
<1> QED BY <1>3, <1>4, <1>5, <1>6, <1>7

\* The table a commit leaves.
LEMMA CommitStores ==
    ASSUME VersionsInv, NEW q \in Storers, Versions!Commit(q)
    PROVE  /\ q \in Versions!Open /\ requests[q] \in Request
           /\ versions' \in Seq(Row) /\ Len(versions') >= Len(versions)
           /\ \A j \in DOMAIN versions :
                 /\ versions'[j].digest = versions[j].digest
                 /\ j \notin Versions!LockedBy(q) => versions'[j] = versions[j]
           /\ \A d : d = requests[q].ruleset => Versions!StoredAs(d)' # {}
           /\ requests[q].at = "locked" =>
                 /\ Len(versions') = Len(versions) + 1
                 /\ versions'[Len(versions')].status = "pending"
                 /\ \A j \in Versions!LockedBy(q) \cap DOMAIN versions :
                        versions'[j].status = "superseded"
<1> DEFINE request == requests[q]
<1>1. Versions!TypeOK /\ request.at \in {"looked", "locked"}
  BY DEF Versions!Commit, VersionsInv
<1>2. q \in Versions!Open /\ request \in Request
  BY <1>1, OpenRequests
<1>3. versions \in Seq(Row) /\ Len(versions) \in Nat /\ DOMAIN versions = 1 .. Len(versions)
  BY <1>1 DEF Versions!TypeOK, Row
<1>4. CASE request.at = "looked" /\ request.known /\ versions' = versions
  <2>1. Versions!StoredAs(request.ruleset) # {}
    BY <1>2, <1>4 DEF VersionsInv, Versions!RequestsKnow
  <2>2. \A d : Versions!StoredAs(d)' = Versions!StoredAs(d)
    BY <1>4 DEF Versions!StoredAs
  <2> QED BY <1>2, <1>3, <1>4, <2>1, <2>2
<1>5. CASE request.at = "locked" /\ versions' = Versions!Stored(request)
  <2> DEFINE over == [j \in DOMAIN versions |->
                        IF j \in request.saw THEN [versions[j] EXCEPT !.status = "superseded"]
                        ELSE versions[j]]
             new == [digest |-> request.ruleset, status |-> "pending"]
  <2>1. Versions!LockedBy(q) = request.saw
    BY <1>5 DEF Versions!LockedBy
  <2>2. ASSUME NEW j \in DOMAIN versions
        PROVE  /\ over[j] \in Row /\ over[j].digest = versions[j].digest
               /\ j \notin request.saw => over[j] = versions[j]
               /\ j \in request.saw => over[j].status = "superseded"
    <3>1. versions[j] \in Row
      BY <1>3
    <3> QED BY <3>1 DEF Row, Versions!Statuses
  <2>3. new \in Row /\ new.status = "pending" /\ new.digest = request.ruleset
    BY <1>2 DEF Row, Request, Versions!Statuses
  <2>4. over = [j \in DOMAIN versions |-> over[j]]
    OBVIOUS
  <2>5. versions' = Append(over, new)
    BY <1>5 DEF Versions!Stored
  <2> HIDE DEF over, new
  <2>6. over \in Seq(Row) /\ Len(over) = Len(versions) /\ DOMAIN over = DOMAIN versions
    BY <1>3, <2>2, <2>4, SameRows
  <2>7. /\ versions' \in Seq(Row) /\ Len(versions') = Len(versions) + 1
        /\ \A j \in DOMAIN versions : versions'[j] = over[j]
        /\ versions'[Len(versions')] = new
        /\ DOMAIN versions' = 1 .. Len(versions')
    BY <1>3, <2>3, <2>5, <2>6
  <2>8. Len(versions') \in DOMAIN versions' /\ versions'[Len(versions')].digest = request.ruleset
    BY <1>3, <2>3, <2>7
  <2>9. ASSUME NEW d, d = request.ruleset
        PROVE  Versions!StoredAs(d)' # {}
    BY <2>8, <2>9 DEF Versions!StoredAs
  <2> HIDE DEF request
  <2> QED BY <1>2, <1>3, <2>1, <2>2, <2>3, <2>7, <2>9 DEF request
<1> QED BY <1>4, <1>5 DEF Versions!Commit

\* The other requests after a commit: crossed, and with the rows they locked.
LEMMA CommitCrosses ==
    ASSUME VersionsInv, NEW q \in Storers, Versions!Commit(q)
    PROVE  /\ \A r \in Storers :
                 /\ requests'[r] # Versions!Idle => r \in Versions!Open \ {q}
                 /\ r \in Versions!Open \ {q} =>
                        /\ requests'[r] = [requests[r] EXCEPT !.crossed = TRUE]
                        /\ requests[r] \in Request /\ requests'[r] \in Request
                        /\ requests'[r].crossed /\ requests'[r].at = requests[r].at
                        /\ requests'[r].saw = requests[r].saw
                        /\ requests'[r].known = requests[r].known
                        /\ requests'[r].ruleset = requests[r].ruleset
                 /\ Versions!LockedBy(r)' \subseteq Versions!LockedBy(r)
           /\ DOMAIN requests' = Storers
           /\ requests' \in [Storers -> {Versions!Idle} \cup Request]
<1>1. /\ requests' = [r \in Storers |->
                        IF r \in Versions!Open \ {q} THEN [requests[r] EXCEPT !.crossed = TRUE]
                        ELSE Versions!Idle]
      /\ \A r \in Versions!Open : requests[r] \in Request
  BY OpenRequests DEF Versions!Commit, VersionsInv
<1>2. ASSUME NEW r \in Versions!Open \ {q}
      PROVE  /\ requests'[r] = [requests[r] EXCEPT !.crossed = TRUE]
             /\ requests[r] \in Request /\ requests'[r] \in Request
             /\ requests'[r].crossed /\ requests'[r].at = requests[r].at
             /\ requests'[r].saw = requests[r].saw
             /\ requests'[r].known = requests[r].known
             /\ requests'[r].ruleset = requests[r].ruleset
  <2>1. requests[r] \in Request /\ r \in Storers
    BY <1>1 DEF Versions!Open
  <2>2. requests'[r] = [requests[r] EXCEPT !.crossed = TRUE]
    BY <1>1, <2>1
  <2> QED BY <2>1, <2>2 DEF Request
<1>3. \A r \in Storers : requests'[r] # Versions!Idle => r \in Versions!Open \ {q}
  BY <1>1
<1>4. ASSUME NEW r \in Storers
      PROVE  Versions!LockedBy(r)' \subseteq Versions!LockedBy(r)
  <2>1. CASE r \in Versions!Open \ {q}
    BY <1>2, <2>1 DEF Versions!LockedBy
  <2>2. CASE r \notin Versions!Open \ {q}
    BY <1>1, <2>2 DEF Versions!LockedBy, Versions!Idle
  <2> QED BY <2>1, <2>2
<1>5. requests' \in [Storers -> {Versions!Idle} \cup Request]
  BY <1>1, <1>2
<1> QED BY <1>1, <1>2, <1>3, <1>4, <1>5

LEMMA CommitKeeps ==
    ASSUME VersionsInv, NEW q \in Storers, Versions!Commit(q)
    PROVE  VersionsInv'
<1>1. /\ q \in Versions!Open /\ requests[q] \in Request
      /\ versions' \in Seq(Row) /\ Len(versions') >= Len(versions)
      /\ \A j \in DOMAIN versions :
            /\ versions'[j].digest = versions[j].digest
            /\ j \notin Versions!LockedBy(q) => versions'[j] = versions[j]
      /\ \A d : d = requests[q].ruleset => Versions!StoredAs(d)' # {}
  BY CommitStores
<1>2. /\ policy' = [policy EXCEPT ![requests[q].column] = requests[q].value]
      /\ vouched' = ~requests[q].crossed
      /\ UNCHANGED <<stores, sent>>
  BY DEF Versions!Commit
<1>3. Versions!TypeOK
  BY DEF VersionsInv
<1>4. /\ DOMAIN versions \subseteq DOMAIN versions'
      /\ \A d : Versions!StoredAs(d) # {} => Versions!StoredAs(d)' # {}
  BY <1>1, <1>3, RowsStay
<1>5. Versions!TypeOK'
  <2>1. policy' \in [Columns -> Values]
    BY <1>1, <1>2, <1>3 DEF Versions!TypeOK, Request
  <2>2. vouched' \in BOOLEAN
    BY <1>2
  <2>3. requests' \in [Storers -> {Versions!Idle} \cup Request]
    BY CommitCrosses
  <2> QED BY <1>1, <1>2, <1>3, <2>1, <2>2, <2>3, Zenon DEF Versions!TypeOK, Row, Request
<1>6. ASSUME NEW r \in Storers, NEW j \in Versions!LockedBy(r), r # q, j \in Versions!Pending
      PROVE  j \in Versions!Pending'
  <2>1. j \notin Versions!LockedBy(q) /\ j \in DOMAIN versions /\ versions[j].status = "pending"
    BY <1>6 DEF VersionsInv, Versions!LocksApart, Versions!Pending
  <2> QED BY <1>1, <1>4, <2>1 DEF Versions!Pending
<1>7. Versions!RequestsKnow'
  <2>1. ASSUME NEW r \in Storers, requests'[r] # Versions!Idle
        PROVE  /\ requests'[r].saw \subseteq DOMAIN versions'
               /\ \A d : d = requests'[r].ruleset /\ requests'[r].known
                            => Versions!StoredAs(d)' # {}
               /\ requests'[r].crossed
               /\ requests'[r].at = "locked" => requests'[r].saw \subseteq Versions!Pending'
    <3>1. /\ r \in Versions!Open /\ r # q /\ requests'[r].crossed
          /\ requests'[r].at = requests[r].at /\ requests'[r].saw = requests[r].saw
          /\ requests'[r].known = requests[r].known /\ requests'[r].ruleset = requests[r].ruleset
      BY <2>1, CommitCrosses
    <3>2. /\ requests[r].saw \subseteq DOMAIN versions
          /\ requests[r].known => Versions!StoredAs(requests[r].ruleset) # {}
          /\ requests[r].at = "locked" => requests[r].saw \subseteq Versions!Pending
      BY <3>1 DEF VersionsInv, Versions!RequestsKnow
    <3>3. requests[r].at = "locked" => requests[r].saw \subseteq Versions!Pending'
      BY <1>6, <3>1, <3>2 DEF Versions!LockedBy
    <3> QED BY <1>4, <3>1, <3>2, <3>3
  <2> QED BY <2>1 DEF Versions!RequestsKnow, Versions!Open, Versions!Idle, Versions!StoredAs
<1>8. Versions!LocksApart'
  BY CommitCrosses DEF VersionsInv, Versions!LocksApart
<1>9. Versions!PolicyVouched'
  <2>1. SUFFICES ASSUME vouched'
                 PROVE  \A d : d = Versions!Ruleset(policy') => Versions!StoredAs(d)' # {}
    BY DEF Versions!PolicyVouched, Versions!Ruleset, Versions!Restrict, Versions!StoredAs
  <2>2. requests[q].ruleset = Versions!Ruleset(policy')
    BY <1>1, <1>2, <2>1 DEF VersionsInv, Versions!RequestsKnow
  <2> QED BY <1>1, <2>2
<1>10. Versions!SentIsAudited'
  BY <1>2, <1>4 DEF VersionsInv, Versions!SentIsAudited, Versions!StoredAs
<1> QED BY <1>5, <1>7, <1>8, <1>9, <1>10 DEF VersionsInv

LEMMA PollKeeps == ASSUME VersionsInv, Versions!Poll PROVE VersionsInv'
<1>1. /\ UNCHANGED <<policy, versions, requests, stores, vouched>>
      /\ sent' = sent \cup {[ruleset |-> Versions!Ruleset(policy), vouched |-> vouched]}
  BY DEF Versions!Poll
<1>2. Versions!TypeOK'
  <2>1. Versions!Ruleset(policy) \in Versions!Rulesets
    BY RulesetsAreTyped DEF VersionsInv, Versions!TypeOK
  <2>2. vouched \in BOOLEAN
    BY DEF VersionsInv, Versions!TypeOK
  <2>3. sent' \subseteq [ruleset : Versions!Rulesets, vouched : BOOLEAN]
    BY <1>1, <2>1, <2>2 DEF VersionsInv, Versions!TypeOK
  <2> QED BY <1>1, <2>3 DEF VersionsInv, Versions!TypeOK
<1>3. \A d : Versions!StoredAs(d)' = Versions!StoredAs(d)
  BY <1>1 DEF Versions!StoredAs
<1>4. Versions!SentIsAudited'
  <2>1. SUFFICES ASSUME NEW s \in sent', s.vouched
                 PROVE  Versions!StoredAs(s.ruleset) # {}
    BY <1>3 DEF Versions!SentIsAudited, Versions!StoredAs
  <2>2. CASE s \in sent
    BY <2>1, <2>2 DEF VersionsInv, Versions!SentIsAudited
  <2>3. CASE s = [ruleset |-> Versions!Ruleset(policy), vouched |-> vouched]
    BY <2>1, <2>3 DEF VersionsInv, Versions!PolicyVouched
  <2> QED BY <1>1, <2>2, <2>3
<1>5. Versions!RequestsKnow' /\ Versions!LocksApart' /\ Versions!PolicyVouched'
  BY <1>1 DEF VersionsInv, Versions!RequestsKnow, Versions!LocksApart, Versions!PolicyVouched,
              Versions!Open, Versions!Idle, Versions!Pending, Versions!StoredAs,
              Versions!LockedBy, Versions!Ruleset, Versions!Restrict
<1> QED BY <1>2, <1>4, <1>5 DEF VersionsInv

\* The table a report leaves: a row that was pending and that nobody has locked
\* may be so no longer.
LEMMA ReportMarks ==
    ASSUME VersionsInv, NEW d \in Versions!Rulesets, NEW status \in {"applied", "failed"},
           Versions!Report(d, status)
    PROVE  /\ versions' \in Seq(Row) /\ Len(versions') >= Len(versions)
           /\ \A j \in DOMAIN versions : versions'[j].digest = versions[j].digest
           /\ Versions!Pending' \subseteq Versions!Pending
           /\ Versions!Pending \cap Versions!Locked \subseteq Versions!Pending'
<1>1. versions \in Seq(Row) /\ Len(versions) \in Nat /\ DOMAIN versions = 1 .. Len(versions)
  BY DEF VersionsInv, Versions!TypeOK, Row
<1>2. ASSUME NEW i \in Versions!StoredAs(d) \ Versions!Locked,
             versions' = [versions EXCEPT ![i].status = status]
      PROVE  /\ versions' \in Seq(Row) /\ Len(versions') >= Len(versions)
             /\ \A j \in DOMAIN versions : versions'[j].digest = versions[j].digest
             /\ Versions!Pending' \subseteq Versions!Pending
             /\ Versions!Pending \cap Versions!Locked \subseteq Versions!Pending'
  <2>1. i \in DOMAIN versions /\ versions[i] \in Row
    BY <1>1 DEF Versions!StoredAs
  <2>2. DEFINE new == [versions[i] EXCEPT !.status = status]
  <2>3. new \in Row /\ new.digest = versions[i].digest /\ new.status = status
    BY <2>1 DEF Row, Versions!Statuses
  <2>4. versions' = [versions EXCEPT ![i] = new]
    BY <1>2
  <2> HIDE DEF new
  <2>5. /\ versions' \in Seq(Row) /\ Len(versions') = Len(versions)
        /\ DOMAIN versions' = DOMAIN versions
        /\ \A j \in DOMAIN versions : versions'[j] = IF j = i THEN new ELSE versions[j]
    BY <1>1, <2>1, <2>3, <2>4
  <2>6. status # "pending" /\ i \notin Versions!Locked
    BY <1>2
  <2> QED BY <1>1, <2>3, <2>5, <2>6 DEF Versions!Pending
<1>3. ASSUME status = "applied",
             versions' = Append(versions, [digest |-> d, status |-> status])
      PROVE  /\ versions' \in Seq(Row) /\ Len(versions') >= Len(versions)
             /\ \A j \in DOMAIN versions : versions'[j].digest = versions[j].digest
             /\ Versions!Pending' \subseteq Versions!Pending
             /\ Versions!Pending \cap Versions!Locked \subseteq Versions!Pending'
  <2>1. DEFINE new == [digest |-> d, status |-> status]
  <2>2. new \in Row /\ new.status = "applied"
    BY <1>3 DEF Row, Versions!Statuses
  <2>3. versions' = Append(versions, new)
    BY <1>3
  <2> HIDE DEF new
  <2>4. /\ versions' \in Seq(Row) /\ Len(versions') = Len(versions) + 1
        /\ DOMAIN versions' = 1 .. Len(versions) + 1
        /\ \A j \in DOMAIN versions : versions'[j] = versions[j]
        /\ versions'[Len(versions) + 1] = new
    BY <1>1, <2>2, <2>3
  <2>5. \A j \in DOMAIN versions' : j \in DOMAIN versions \/ versions'[j] = new
    BY <1>1, <2>4
  <2> QED BY <1>1, <2>2, <2>4, <2>5 DEF Versions!Pending
<1> QED BY <1>2, <1>3 DEF Versions!Report

LEMMA ReportKeeps ==
    ASSUME VersionsInv, NEW d \in Versions!Rulesets, NEW status \in {"applied", "failed"},
           Versions!Report(d, status)
    PROVE  VersionsInv'
<1>1. /\ versions' \in Seq(Row) /\ Len(versions') >= Len(versions)
      /\ \A j \in DOMAIN versions : versions'[j].digest = versions[j].digest
      /\ Versions!Pending' \subseteq Versions!Pending
      /\ Versions!Pending \cap Versions!Locked \subseteq Versions!Pending'
  BY ReportMarks
<1>2. UNCHANGED <<policy, requests, stores, vouched, sent>>
  BY DEF Versions!Report
<1>3. Versions!TypeOK'
  BY <1>1, <1>2 DEF VersionsInv, Versions!TypeOK, Row
<1>4. /\ DOMAIN versions \subseteq DOMAIN versions'
      /\ \A e : Versions!StoredAs(e) # {} => Versions!StoredAs(e)' # {}
  BY <1>1, RowsStay DEF VersionsInv
<1>5. Versions!LocksApart'
  BY <1>2 DEF VersionsInv, Versions!LocksApart, Versions!LockedBy
<1>6. Versions!RequestsKnow'
  <2>1. ASSUME NEW r \in Storers, requests[r] # Versions!Idle
        PROVE  LET request == requests[r]
               IN  /\ request.saw \subseteq DOMAIN versions'
                   /\ request.known => \A e : e = request.ruleset => Versions!StoredAs(e)' # {}
                   /\ ~request.crossed => request.ruleset =
                        Versions!Ruleset([policy EXCEPT ![request.column] = request.value])
                   /\ request.at = "marked" /\ ~request.crossed
                        => Versions!Pending' \subseteq request.saw
                   /\ request.at = "locked" =>
                        /\ request.saw \subseteq Versions!Pending'
                        /\ ~request.crossed => Versions!Pending' \subseteq request.saw
    <3>1. requests[r].at = "locked" => requests[r].saw \subseteq Versions!Locked
      BY DEF Versions!Locked, Versions!LockedBy
    <3> QED BY <1>1, <1>4, <2>1, <3>1 DEF VersionsInv, Versions!RequestsKnow, Versions!Open
  <2> QED BY <1>2, <2>1 DEF Versions!RequestsKnow, Versions!Open, Versions!Idle,
             Versions!StoredAs, Versions!Ruleset, Versions!Restrict
<1>7. Versions!PolicyVouched' /\ Versions!SentIsAudited'
  BY <1>2, <1>4 DEF VersionsInv, Versions!PolicyVouched, Versions!SentIsAudited,
                    Versions!StoredAs, Versions!Ruleset, Versions!Restrict
<1> QED BY <1>3, <1>5, <1>6, <1>7 DEF VersionsInv

LEMMA VersionsKeep ==
    ASSUME VersionsInv, [Versions!Next]_(Versions!vars)
    PROVE  VersionsInv'
<1>1. ASSUME NEW s \in sent, NEW status \in {"applied", "failed"},
             Versions!Report(s.ruleset, status)
      PROVE  VersionsInv'
  <2>1. s.ruleset \in Versions!Rulesets
    BY DEF VersionsInv, Versions!TypeOK
  <2> QED BY <1>1, <2>1, ReportKeeps
<1>2. CASE UNCHANGED Versions!vars
  BY <1>2 DEF VersionsInv, Versions!vars, Versions!TypeOK, Versions!RequestsKnow,
        Versions!LocksApart, Versions!PolicyVouched, Versions!SentIsAudited, Versions!Open,
        Versions!Idle, Versions!Pending, Versions!StoredAs, Versions!LockedBy,
        Versions!Ruleset, Versions!Restrict
<1> QED BY <1>1, <1>2, RequestsKeep, CommitKeeps, PollKeeps DEF Versions!Next

LEMMA VersionsHold == Spec => []VersionsInv
<1>1. VersionsInv /\ [Next]_vars => VersionsInv'
  BY EachMovesAlone, VersionsKeep
<1> QED BY <1>1, VersionsStart, PTL DEF Spec

\* Storing a ruleset, in requests that overlap anyhow: the version of a request
\* that no other commit crossed is the only pending one, and no version the
\* gateway has reported on is superseded afterwards.
THEOREM StoresSupersede == Spec => StoreSupersedes
<1> DEFINE Step(q) ==
        /\ requests[q].at = "locked" /\ ~requests[q].crossed /\ Versions!Commit(q)
              => Versions!Pending' = {Len(versions')}
        /\ Versions!Commit(q) => \A i \in DOMAIN versions :
                versions[i].status \in {"applied", "failed"} => versions'[i] = versions[i]
<1>1. ASSUME VersionsInv, NEW q \in Storers
      PROVE  Step(q)
  <2>1. SUFFICES ASSUME Versions!Commit(q) PROVE Step(q)
    OBVIOUS
  <2>2. /\ q \in Versions!Open
        /\ versions' \in Seq(Row)
        /\ \A j \in DOMAIN versions :
              j \notin Versions!LockedBy(q) => versions'[j] = versions[j]
        /\ requests[q].at = "locked" =>
              /\ Len(versions') = Len(versions) + 1
              /\ versions'[Len(versions')].status = "pending"
              /\ \A j \in Versions!LockedBy(q) \cap DOMAIN versions :
                     versions'[j].status = "superseded"
    BY <1>1, <2>1, CommitStores
  <2>3. /\ Versions!LockedBy(q) \subseteq Versions!Pending
        /\ requests[q].at = "locked" /\ ~requests[q].crossed
              => Versions!LockedBy(q) = Versions!Pending
    BY <1>1, <2>2 DEF VersionsInv, Versions!RequestsKnow, Versions!LockedBy
  <2>4. /\ DOMAIN versions = 1 .. Len(versions) /\ DOMAIN versions' = 1 .. Len(versions')
        /\ Len(versions) \in Nat /\ Len(versions') \in Nat
    BY <1>1, <2>2 DEF VersionsInv, Versions!TypeOK
  <2>5. ASSUME requests[q].at = "locked", ~requests[q].crossed
        PROVE  Versions!Pending' = {Len(versions')}
    <3>1. ASSUME NEW j \in DOMAIN versions
          PROVE  versions'[j].status # "pending"
      BY <2>2, <2>3, <2>5 DEF Versions!Pending
    <3> QED BY <2>2, <2>4, <2>5, <3>1 DEF Versions!Pending
  <2>6. ASSUME NEW i \in DOMAIN versions, versions[i].status \in {"applied", "failed"}
        PROVE  versions'[i] = versions[i]
    BY <2>2, <2>3, <2>6 DEF Versions!Pending
  <2> QED BY <2>5, <2>6
<1>2. VersionsInv => [\A q \in Storers : Step(q)]_(Versions!vars)
  BY <1>1
<1> QED BY <1>2, VersionsHold, PTL DEF StoreSupersedes, Versions!StoreSupersedes

\* Every ruleset the gateway was sent has a version, whatever requests overlapped,
\* the ones apart that it was sent when a commit had just crossed another.
THEOREM SentRulesetsAreAudited == Spec => []SentIsAudited
<1>1. VersionsInv => SentIsAudited
  BY DEF VersionsInv, SentIsAudited
<1> QED BY <1>1, VersionsHold, PTL

\* The five components stay in range: the rows of the zone, the requests under
\* way and the step the agent is in; a country map stamped for no more than it
\* was built for; the log and the promise of the limiter; the requests and codes
\* of the sign-ins; the versions and who is storing one.
THEOREM ComponentsTypeCorrect == Spec => []TypeOK
<1> DEFINE I == ZoneInv /\ ProxyTyped /\ LimiterInv /\ OidcInv /\ VersionsInv
<1>1. Init => I
  BY ZoneStarts, ProxyStartsTyped, LimiterStarts, OidcStarts, VersionsStart
<1>2. I /\ [Next]_vars => I'
  BY EachMovesAlone, ZoneKeeps, ProxyStaysTyped, LimiterKeeps, OidcKeeps, VersionsKeep
<1>3. I => TypeOK
  BY DEF ZoneInv, ProxyTyped, LimiterInv, OidcInv, VersionsInv, TypeOK
<1> QED BY <1>1, <1>2, <1>3, PTL DEF Spec
=============================================================================
