-------------------------- MODULE MCAccountSessions --------------------------
(* One account; the sessions, and apart from them the second factor. *)
EXTENDS AccountSessions

CONSTANTS u1, g1, r1, r2

MCUsers == {u1}
MCGroups == {g1}
MCRequests == {r1, r2}
\* What a behaviour consists of.
MCScenarios ==
    {{"admin", "oidc", "flag", "password", "delete", "revoke"},
     {"sso", "flag", "groups", "regroup", "delete", "revoke", "expire"},
     {"portal", "provision", "confirm", "disable"}}

\* A change of groups while somebody signs in.
MCTakenAwayScenarios == {{"sso", "groups"}}
=============================================================================
