---------------------------- MODULE MCPeerAccess ----------------------------
(***************************************************************************)
(* Instances of PeerAccess for TLC.  The sets of operations below keep     *)
(* each run to the requests its question is about.                         *)
(***************************************************************************)
EXTENDS PeerAccessLifecycle, TLC

CONSTANTS laptop, server, alice, timer, r1, r2

MCUserPeers == {laptop}
MCServerPeers == {server}
MCNoPeers == {}
MCUsers == {alice}
MCOneRequest == {timer, r1}
MCTwoRequests == {timer, r1, r2}
MCLifetimes == {1, 2}
MCOneLifetime == {1}

\* Requests that do not overlap: all but the revocation of an enrollment key,
\* which does not ask for the type of the peer (see MCLoginKeyOperations).
MCSerialOperations == AllOperations \ {"revoke_key", "account"}

\* Overlapping requests on a user peer.
MCRacingOperations ==
    {"create", "delete", "delete_user", "login", "logout", "update", "revoke_key", "sweep"}

\* What lets a person's access run out, and what takes it away.
MCExpiryOperations == {"create", "groups", "account", "login", "logout", "sweep", "delete_user"}

\* The requests of one disagreement each.
MCLoginOperations == {"create", "login"}
MCLoginUpdateOperations == {"create", "login", "update"}
MCLoginKillSwitchOperations == {"create", "login", "killswitch"}
MCEnrollKillSwitchOperations == {"create", "create_key", "enroll", "killswitch"}
MCLoginKeyOperations == {"create", "login", "revoke_key"}
MCUpdateKeyOperations == {"create", "update", "create_key", "revoke_key"}
MCDeadlineOperations == {"create", "groups", "login", "sweep", "delete_user"}

RequestSymmetry == Permutations({r1, r2})
=============================================================================
