--------------------------- MODULE PeerLifecycle ---------------------------
(***************************************************************************)
(* What a peer is promised, and what is promised about it: a standing and  *)
(* at most one session, changed by operations that each take effect at     *)
(* once.  PeerAccess, where an operation is a transaction that reads,      *)
(* waits and writes, implements this when its requests do not overlap.     *)
(*                                                                         *)
(* Written from what the operations are for, without the transition tables *)
(* of PeerStates, so that a mistake in those tables shows as a difference. *)
(***************************************************************************)

CONSTANTS
    UserPeers,    \* peers with a person behind them
    ServerPeers,  \* peers that enroll with a key
    Tickets       \* session numbers

Peers == UserPeers \cup ServerPeers

VARIABLES
    standing,     \* where the peer is in its life
    ticket,       \* its live sessions
    spent,        \* the numbers used so far
    keyed         \* whether it holds an enrollment key

vars == <<standing, ticket, spent, keyed>>

Unregistered == {"absent", "deleted"}
Admissible == {"staging", "quarantined", "active"}

Init ==
    /\ standing = [p \in Peers |-> "absent"]
    /\ ticket = [p \in Peers |-> {}]
    /\ spent = {}
    /\ keyed = [p \in Peers |-> FALSE]

\* A registration grants nothing; a deletion takes everything.
Register(p) ==
    /\ standing[p] = "absent"
    /\ standing' = [standing EXCEPT ![p] = "staging"]
    /\ UNCHANGED <<ticket, spent, keyed>>

Remove(p) ==
    /\ standing[p] \notin Unregistered
    /\ standing' = [standing EXCEPT ![p] = "deleted"]
    /\ ticket' = [ticket EXCEPT ![p] = {}]
    /\ keyed' = [keyed EXCEPT ![p] = FALSE]
    /\ UNCHANGED spent

\* A person signs in: a new session replaces whatever there was.
SignIn(p, t) ==
    /\ p \in UserPeers /\ standing[p] \in Admissible
    /\ t \notin spent
    /\ standing' = [standing EXCEPT ![p] = "active"]
    /\ ticket' = [ticket EXCEPT ![p] = {t}]
    /\ spent' = spent \cup {t}
    /\ UNCHANGED keyed

SignOut(p) ==
    /\ p \in UserPeers /\ standing[p] \notin Unregistered
    /\ standing' = [standing EXCEPT ![p] = IF @ = "active" THEN "quarantined" ELSE @]
    /\ ticket' = [ticket EXCEPT ![p] = {}]
    /\ UNCHANGED <<spent, keyed>>

\* A machine presents the key it was given.
Arm(p) ==
    /\ p \in ServerPeers /\ standing[p] \notin Unregistered
    /\ keyed' = [keyed EXCEPT ![p] = TRUE]
    /\ UNCHANGED <<standing, ticket, spent>>

Enroll(p) ==
    /\ p \in ServerPeers /\ keyed[p] /\ standing[p] \in Admissible
    /\ standing' = [standing EXCEPT ![p] = "active"]
    /\ UNCHANGED <<ticket, spent, keyed>>

\* An administrator decides: nobody comes back from "revoked", a person is
\* never made active by somebody else, and a session does not outlive the
\* standing it was opened for.
Decide(p, target) ==
    /\ standing[p] \notin Unregistered \cup {"revoked"}
    /\ target \in {"staging", "quarantined", "active", "disabled", "revoked"} \ {standing[p]}
    /\ target = "active" => p \in ServerPeers
    /\ standing' = [standing EXCEPT ![p] = target]
    /\ ticket' = [ticket EXCEPT ![p] = {}]
    /\ UNCHANGED <<spent, keyed>>

\* The key is withdrawn, with or without the access it gave.
Disarm(p, quarantine) ==
    /\ standing[p] \notin Unregistered
    /\ keyed' = [keyed EXCEPT ![p] = FALSE]
    /\ standing' = [standing EXCEPT ![p] = IF quarantine /\ @ = "active" THEN "quarantined" ELSE @]
    /\ ticket' = [ticket EXCEPT ![p] = IF quarantine THEN {} ELSE @]
    /\ UNCHANGED spent

\* The whole fleet at once, in either mode.
GoDark(lockdown) ==
    /\ standing' = [p \in Peers |->
          CASE lockdown /\ standing[p] \in Admissible -> "disabled"
            [] ~lockdown /\ standing[p] = "active"    -> "quarantined"
            [] OTHER                                  -> standing[p]]
    /\ ticket' = [p \in Peers |-> {}]
    /\ UNCHANGED <<spent, keyed>>

\* Time runs out for some of those who are active.
RunOut(over) ==
    /\ over \subseteq {p \in UserPeers : standing[p] = "active"}
    /\ standing' = [p \in Peers |-> IF p \in over THEN "quarantined" ELSE standing[p]]
    /\ ticket' = [p \in Peers |-> IF p \in over THEN {} ELSE ticket[p]]
    /\ UNCHANGED <<spent, keyed>>

\* The account behind some sessions is deleted: the sessions go, the standing
\* of the peers stays until their time runs out.
Orphan(some) ==
    /\ ticket' = [p \in Peers |-> IF p \in some THEN {} ELSE ticket[p]]
    /\ UNCHANGED <<standing, spent, keyed>>

Next ==
    \/ \E p \in Peers :
        \/ Register(p) \/ Remove(p) \/ SignOut(p) \/ Arm(p) \/ Enroll(p)
        \/ \E t \in Tickets : SignIn(p, t)
        \/ \E target \in {"staging", "quarantined", "active", "disabled", "revoked"} : Decide(p, target)
        \/ \E quarantine \in BOOLEAN : Disarm(p, quarantine)
    \/ \E lockdown \in BOOLEAN : GoDark(lockdown)
    \/ \E some \in SUBSET UserPeers : RunOut(some) \/ Orphan(some)

Spec == Init /\ [][Next]_vars
=============================================================================
