------------------------- MODULE MCPublishedServices -------------------------
(* One service with one group, one token and one account. *)
EXTENDS PublishedServices

CONSTANTS s1, g1, t1, r1, r2

MCServices == {s1}
MCGroups == {g1}
MCTokens == {t1}
MCRequests == {r1, r2}

Auth(kind, scope, groups, admin, priority) ==
    [kind |-> kind, scope |-> scope, groups |-> groups, admin |-> admin, priority |-> priority]
PeerIdentity == Auth("peer_identity", {"internal"}, {}, FALSE, 1)
Bearer == Auth("bearer", {"internal", "external"}, {}, FALSE, 1)
MembersOnly == Auth("foxguard_sso", {"internal", "external"}, {g1}, FALSE, 1)
AdminsInside == Auth("foxguard_sso", {"internal"}, {}, TRUE, 2)
PublicOutside == Auth("public", {"external"}, {}, FALSE, 1)
MCAuthRows == {PeerIdentity, Bearer, MembersOnly, AdminsInside, PublicOutside}

MCFilterRows ==
    {[kind |-> "allow", scope |-> {"internal"}],
     [kind |-> "deny", scope |-> {"external"}],
     [kind |-> "rate", scope |-> {"internal", "external"}]}
MCAccessRows ==
    {[action |-> "allow", source |-> g1], [action |-> "allow", source |-> "range"],
     [action |-> "allow", source |-> "any"], [action |-> "deny", source |-> "range"]}

Rows(kind, exposure, auth, tokens, account) ==
    [there |-> TRUE, enabled |-> TRUE, kind |-> kind, port |-> TRUE, exposure |-> exposure,
     auth |-> auth, filters |-> {}, access |-> {}, tokens |-> tokens, account |-> account]

\* What there is at first: a service for peers, one for tokens and members, one
\* that passes bytes through on both doors.
MCInitial ==
    {Rows("http", {"internal"}, {PeerIdentity}, {}, FALSE),
     Rows("http", {"internal", "external"}, {Bearer, MembersOnly}, {t1}, FALSE),
     Rows("http", {"external"}, {Auth("basic", {"external"}, {}, FALSE, 1)}, {}, TRUE),
     Rows("tcp", {"internal"}, {PeerIdentity}, {}, FALSE)}

\* Every address and every single credential, and the cookie beside the token:
\* an account beside another credential opens no further door, and coming late
\* makes a difference to who has a token alone.
MCCallers ==
    {c \in AllCallers :
        /\ c.account => c.tokens = {} /\ c.cookie = NoCookie
        /\ c.late => c.tokens # {} /\ c.cookie = NoCookie}
=============================================================================
