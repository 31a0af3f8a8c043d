------------------------ MODULE PeerAccessLifecycle ------------------------
(***************************************************************************)
(* The transactions of PeerAccess, seen from outside: a peer has the       *)
(* standing of its row, the sessions that are live, and a key or none.     *)
(***************************************************************************)
EXTENDS PeerAccess

Lifecycle == INSTANCE PeerLifecycle WITH
    Tickets <- Sids,
    standing <- state,
    ticket <- [p \in Peers |-> LiveOf(p)],
    spent <- {s \in Sids : row[s].status # "free"},
    keyed <- [p \in Peers |-> key[p] # NoKey]

\* With Serial, requests take effect as if at once, each as it was
\* meant: a credential never lifts an administrator's decision, a session ends
\* with the standing it was opened for and is replaced by the next, and the kill
\* switch spares nobody
\* (services/peer_state.py, sessions.py, killswitch.py, expiry.py).
RequestsTakeEffectAtOnce == Lifecycle!Spec
=============================================================================
