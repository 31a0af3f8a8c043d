---------------------------- MODULE DesiredState ----------------------------
(***************************************************************************)
(* What the control plane derives from its tables for the gateway: the     *)
(* sets of the nftables ruleset, the peers of the WireGuard interface, the *)
(* kernel routes, and the files of the resolver and of the proxy.  Pure    *)
(* definitions over one policy; the digests the agent compares are the     *)
(* derived values themselves.                                              *)
(***************************************************************************)
EXTENDS Integers, PeerStates

CONSTANTS
    Peers,      \* peers that may be registered
    Nets,       \* networks a zone may route
    Docs,       \* contents of a rendered file
    None        \* no file, no ruleset, nothing

\* A registered peer's key is on the interface in these states.
Present == {"staging", "quarantined", "active"}

\* A route that does not exist or is disabled; one the gateway reaches itself.
Off == "off"
Gateway == "gateway"

\* The subsystems made of files; None when the control plane has no valid one.
Slots == {"dns", "proxy"}

Policies == [state: [Peers -> States \cup {"absent"}],
             member: SUBSET Peers,              \* in a group or in a zone
             via: [Nets -> Peers \cup {Off, Gateway}],
             file: [Slots -> Docs \cup {None}]]

PeersIn(pol, states) == {p \in Peers : pol.state[p] \in states}

\* The ruleset: the members of groups and zones that are active, the confined
\* peers, and the networks of the zones whoever carries them.
Ruleset(pol) == [active   |-> PeersIn(pol, {"active"}) \cap pol.member,
                 confined |-> PeersIn(pol, Confined),
                 nets     |-> {n \in Nets : pol.via[n] # Off}]

Rulesets == [active: SUBSET Peers, confined: SUBSET Peers, nets: SUBSET Nets]

\* The interface: every peer that is present, and the networks it carries.
Interface(pol) ==
    [p \in PeersIn(pol, Present) |-> {n \in Nets : pol.via[n] = p}]

\* The kernel routes: the networks carried by a peer that is present.
Routes(pol) == {n \in Nets : pol.via[n] \in PeersIn(pol, Present)}

\* A peer goes and takes the routes it carried with it.
Without(pol, p) ==
    [pol EXCEPT !.state[p] = "absent",
                !.member = @ \ {p},
                !.via = [n \in Nets |-> IF pol.via[n] = p THEN Off ELSE pol.via[n]]]
=============================================================================
