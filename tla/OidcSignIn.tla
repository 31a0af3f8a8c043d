----------------------------- MODULE OidcSignIn -----------------------------
(***************************************************************************)
(* Sign-in through an identity provider: the in-memory stores of requests  *)
(* under way, one of the portal and one of the administrators, and the     *)
(* callback that consumes a request, exchanges its code with the provider, *)
(* verifies the token and signs somebody in.  A door is the portal as seen *)
(* from a peer, or the administrators' dashboard.                          *)
(*                                                                         *)
(* The provider is external: it asks a user, and answers a request with a  *)
(* code good once.  Whether it also checks the code against the PKCE       *)
(* challenge is a constant.  Signatures are a library's business.  State   *)
(* and code are presented by whoever has them, in any combination.         *)
(***************************************************************************)
EXTENDS Naturals, FiniteSets

CONSTANTS
    Peers,
    Users,
    Owner,        \* the account a peer is bound to
    Admins,       \* the accounts that administer
    ProviderChecksChallenge,
    MaxStarts     \* bound on the requests started

\* The bound is a number.
Configured == MaxStarts \in Nat

Dashboard == "dashboard"
Doors == Peers \cup {Dashboard}
Requests == 1 .. MaxStarts

VARIABLES
    started,      \* the requests so far, and the door each was started at
    stored,       \* those still in a store
    codes,        \* what the provider has issued: a request and a user
    redeemed,     \* the codes it has seen again
    calls,        \* the callback in flight at each door
    active,       \* users.is_active
    signedIn      \* the sign-ins there have been

vars == <<started, stored, codes, redeemed, calls, active, signedIn>>

NoCall == [at |-> "idle"]

Init ==
    /\ started = <<>>
    /\ stored = {}
    /\ codes = {}
    /\ redeemed = {}
    /\ calls = [d \in Doors |-> NoCall]
    /\ active = Users
    /\ signedIn = {}

\* TransactionStore.start, with the peer as the subject, or with none.
Start(d) ==
    /\ Cardinality(DOMAIN started) < MaxStarts
    /\ LET r == Cardinality(DOMAIN started) + 1
       IN  /\ started' = [q \in DOMAIN started \cup {r} |-> IF q = r THEN d ELSE started[q]]
           /\ stored' = stored \cup {r}
    /\ UNCHANGED <<codes, redeemed, calls, active, signedIn>>

\* A request that outlives its time is as good as gone, swept or not.
Expire(r) ==
    /\ r \in stored
    /\ stored' = stored \ {r}
    /\ UNCHANGED <<started, codes, redeemed, calls, active, signedIn>>

\* The provider asks a user and answers the request.
Authorize(r, u) ==
    /\ r \in DOMAIN started
    /\ codes' = codes \cup {[request |-> r, user |-> u]}
    /\ UNCHANGED <<started, stored, redeemed, calls, active, signedIn>>

\* One store for the portal, one for the dashboard.
StoreOf(d) == {r \in stored : (started[r] = Dashboard) = (d = Dashboard)}

\* The request is taken out of its store first, and only then compared with
\* the peer that calls.
Belongs(r, d) == started[r] = d

Callback(d, r, code) ==
    /\ calls[d] = NoCall
    /\ r \in StoreOf(d)
    /\ stored' = stored \ {r}
    /\ calls' = IF Belongs(r, d)
                THEN [calls EXCEPT ![d] = [at |-> "exchange", request |-> r, code |-> code]]
                ELSE calls
    /\ UNCHANGED <<started, codes, redeemed, active, signedIn>>

\* The exchange, and the nonce of the token against that of the request.
Honoured(r, code) == /\ code \notin redeemed
                     /\ ProviderChecksChallenge => code.request = r
VerifiedAny(r, code) == TRUE
Verified(r, code) == code.request = r

Exchange(d) ==
    /\ calls[d].at = "exchange"
    /\ LET r == calls[d].request
           code == calls[d].code
       IN  IF Honoured(r, code) /\ Verified(r, code)
           THEN calls' = [calls EXCEPT ![d].at = "verified"]
           ELSE calls' = [calls EXCEPT ![d] = NoCall]
    /\ redeemed' = redeemed \cup {calls[d].code}
    /\ UNCHANGED <<started, stored, codes, active, signedIn>>

\* The provider says who they are; the account decides what they may do: the
\* peer's own account, or an administrator, and neither disabled.
Entitled(d, u) == u \in active /\ IF d = Dashboard THEN u \in Admins ELSE Owner[d] = u

SignIn(d) ==
    /\ calls[d].at = "verified"
    /\ LET u == calls[d].code.user
       IN  signedIn' = IF Entitled(d, u)
                       THEN signedIn \cup {[door |-> d, user |-> u, request |-> calls[d].request]}
                       ELSE signedIn
    /\ calls' = [calls EXCEPT ![d] = NoCall]
    /\ UNCHANGED <<started, stored, codes, redeemed, active>>

Deactivate(u) ==
    /\ u \in active
    /\ active' = active \ {u}
    /\ UNCHANGED <<started, stored, codes, redeemed, calls, signedIn>>

\* The stores are in the memory of one process.
ApiRestart ==
    /\ stored # {} \/ \E d \in Doors : calls[d] # NoCall
    /\ stored' = {}
    /\ calls' = [d \in Doors |-> NoCall]
    /\ UNCHANGED <<started, codes, redeemed, active, signedIn>>

Next ==
    \/ \E d \in Doors : Start(d) \/ Exchange(d) \/ SignIn(d)
    \/ \E d \in Doors, r \in Requests, code \in codes : Callback(d, r, code)
    \/ \E r \in Requests, u \in Users : Authorize(r, u)
    \/ \E r \in Requests : Expire(r)
    \/ \E u \in Users : Deactivate(u)
    \/ ApiRestart

Spec == Init /\ [][Next]_vars

TypeOK ==
    /\ stored \subseteq DOMAIN started
    /\ redeemed \subseteq codes
    /\ \A d \in Doors : calls[d] = NoCall \/ calls[d].request \in DOMAIN started \ stored
    /\ active \subseteq Users

\* Whoever signs in at a door answered, at the provider, the very request that
\* was started at that door, which nobody has used before or will again; and
\* is the account of the peer, or an administrator (OidcTransaction: a
\* transaction started for one flow cannot be completed in the other).
SignInAnswersItsOwnRequest ==
    /\ \A s \in signedIn :
        /\ started[s.request] = s.door
        /\ [request |-> s.request, user |-> s.user] \in redeemed
        /\ IF s.door = Dashboard THEN s.user \in Admins ELSE Owner[s.door] = s.user
    /\ \A s, t \in signedIn : s.request = t.request => s = t

(***************************************************************************)
(* Why a sign-in answers its own request                                   *)
(***************************************************************************)

\* Requests are numbered as they start.
RequestsAreNumbered == \E n \in 0 .. MaxStarts : DOMAIN started = 1 .. n

\* What the provider issues is a request and a user, and nothing else.
CodesAreIssued == codes \subseteq [request : DOMAIN started, user : Users]

Spent == DOMAIN started \ stored

\* A callback in flight holds a request of its own door, which no other can
\* take out of a store again; once verified, the code is an answer to it.
CallsHoldTheirRequest ==
    /\ DOMAIN calls = Doors
    /\ \A d \in Doors : calls[d] # NoCall =>
        /\ calls[d] \in [at : {"exchange", "verified"}, request : Spent, code : codes]
        /\ started[calls[d].request] = d
        /\ calls[d].at = "verified" => /\ calls[d].code.request = calls[d].request
                                       /\ calls[d].code \in redeemed

\* The request of a sign-in is spent, and no callback holds it any more.
SignInsSpendTheirRequest ==
    /\ signedIn \subseteq [door : Doors, user : Users, request : Spent]
    /\ \A s \in signedIn, d \in Doors :
        calls[d] # NoCall => calls[d].request # s.request

=============================================================================
