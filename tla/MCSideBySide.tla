---------------------------- MODULE MCSideBySide ----------------------------
(***************************************************************************)
(* Instances of SideBySide: two peers, two names and two records in the    *)
(* zone; six or seven documents of the proxy; two callers of the limiter;  *)
(* one peer, one administrator and two requests at the identity provider.  *)
(***************************************************************************)
EXTENDS SideBySide, TLC

CONSTANTS p1, p2, x, y, web, r1, r2, fr, de, c1, c2, alice, bob

MCAddress(l, full, v, on) ==
    [kind |-> "A", name |-> [base |-> l, full |-> full], value |-> v, enabled |-> on]
MCAlias(l, full, v, on) ==
    [kind |-> "CNAME", name |-> [base |-> l, full |-> full], value |-> v, enabled |-> on]
MCRecordRows ==
    {MCAddress(y, FALSE, "lan", TRUE), MCAddress(y, FALSE, p1, FALSE), MCAddress(x, FALSE, p1, TRUE),
     MCAlias(y, FALSE, x, TRUE), MCAlias(y, TRUE, x, TRUE), MCAlias(x, FALSE, y, TRUE),
     MCAlias(y, FALSE, "gw", FALSE)}
MCStartPeers == p1 :> [state |-> "named", label |-> x] @@ p2 :> [state |-> "absent", label |-> "none"]

\* A host name of the service may be the portal's, unless a run says not.
MCHostnames == {web, "portal"}
MCServiceNames == {web}

MCDocument(conf, files, countries) == [conf |-> conf, files |-> files, countries |-> countries]
MCPlain == {MCDocument("plain", [peers |-> 1], {}), MCDocument("plain", [peers |-> 2], {}),
            MCDocument("broken", [peers |-> 1], {})}
MCByCountry == {MCDocument("geo", [peers |-> 1, tokens |-> 1, page |-> 1], {fr}),
                MCDocument("geo", [peers |-> 2, tokens |-> 2, page |-> 1], {fr}),
                MCDocument("wide", [peers |-> 2, tokens |-> 2, page |-> 2], {fr, de})}
MCDocuments == MCPlain \cup MCByCountry \cup {MCDocument("taken", [peers |-> 2], {fr})}
\* The document that fails to start also stops filtering by country.
MCDroppingGeo == MCPlain \cup MCByCountry \cup {MCDocument("taken", [peers |-> 2], {})}

MCPeers == {p1, p2}
MCRecords == {r1, r2}
MCLabels == {x, y}
MCZoneFaultKinds == {"reject", "fail", "hang", "reboot", "restart"}

MCPushable == {"peers", "tokens"}
MCRejected == {"broken"}
MCUnstartable == {"taken"}
MCProxyFaultKinds == {"start", "push", "hang", "reboot", "restart"}

MCCallers == {c1, c2}

MCPortalPeers == {p1}
MCUsers == {alice, bob}
MCOwner == p1 :> alice
MCAdmins == {bob}

\* Two columns that the ruleset shows, so that requests can leave a policy that
\* neither of them rendered, and one that it does not.
MCRendered == {"a rule", "a peer"}
MCColumns == MCRendered \cup {"a name"}
MCValues == {0, 1}
MCStartPolicy == [c \in MCColumns |-> 0]
MCRequests == {"q1", "q2"}

=============================================================================
