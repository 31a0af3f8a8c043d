----------------------------- MODULE PeerStates -----------------------------
(***************************************************************************)
(* The states of a FoxGuard peer and the two transition tables that guard  *)
(* them: what an administrator may do to a peer, and what a peer may do to *)
(* itself by authenticating.  Pure definitions; the modules that change a  *)
(* peer's state cite them.                                                 *)
(***************************************************************************)

States == {"staging", "quarantined", "active", "disabled", "revoked"}

\* States with the captive portal and nothing else.
Confined == {"staging", "quarantined"}

\* An administrator may do anything except leave "revoked".
AdminTransitions ==
    [s \in States |-> IF s = "revoked" THEN {} ELSE States \ {s}]

\* Mutant: a valid credential undoes "disabled".
ForgivingSelfServiceTransitions ==
    [s \in States |-> IF s = "revoked" THEN {} ELSE {"active"}]

\* Authenticating can only ever lead to "active", and not from an
\* administrative decision.
SelfServiceTransitions ==
    [s \in States |-> IF s \in Confined \cup {"active"} THEN {"active"} ELSE {}]

\* A transition to the current state is always accepted: it is a no-op.
Allowed(table, current, target) ==
    current = target \/ target \in table[current]

\* The two kill switch modes: the state they write and the states they act on.
Modes == {"quarantine", "lockdown"}
ModeTarget == [m \in Modes |-> IF m = "quarantine" THEN "quarantined" ELSE "disabled"]

\* Mutant: a lockdown passes over the peers that never enrolled.
ModeSourcesSparing == [m \in Modes |->
    IF m = "quarantine" THEN {"active"} ELSE {"quarantined", "active"}]

ModeSources == [m \in Modes |->
    IF m = "quarantine" THEN {"active"} ELSE Confined \cup {"active"}]

\* How far a peer reaches: the full policy, the portal, nothing but its
\* registration, nothing at all.
Reach == [s \in States |-> CASE s = "active"   -> 3
                             [] s \in Confined -> 2
                             [] s = "disabled" -> 1
                             [] s = "revoked"  -> 0]
=============================================================================
