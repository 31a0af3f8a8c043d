--------------------------- MODULE MCAccessPolicy ---------------------------
(* Two peers, two networks, a group, and a zone whose name clashes with     *)
(* another one's.                                                           *)
EXTENDS AccessPolicy

CONSTANTS p1, p2, lan, branch, staff, office, office2

MCSlugs == {staff, office, office2}
MCPeers == {p1, p2}
MCNets == {lan, branch}
MCBehind == {branch}
MCRefs == {1, 2}
MCClashing == {{office, office2}}
MCInternalNets == {lan}

End(kind, of) == [kind |-> kind, of |-> of]
MCRule(priority, action, src, dst, port) ==
    [there |-> TRUE, enabled |-> TRUE, priority |-> priority, action |-> action,
     src |-> src, dst |-> dst, port |-> port]
StaffToBranch == MCRule(2, "accept", End("group", staff), End("cidr", branch), "any")
OfficeToLan == MCRule(2, "accept", End("zone", office), End("cidr", lan), "proxy")
NothingIntoOffice == MCRule(1, "drop", Anyone, End("zone", office), "any")
MCRuleRows == {StaffToBranch, OfficeToLan, NothingIntoOffice,
               [StaffToBranch EXCEPT !.enabled = FALSE]}

MCCarried == {[zone |-> office, net |-> branch, via |-> p2],
              [zone |-> office, net |-> lan, via |-> Gateway]}

\* A document that is complete, one that turns a group into a zone, one that
\* leaves out the group its rule names.
Both == [s \in {staff, office} |-> [kind |-> IF s = staff THEN "group" ELSE "zone", exit |-> FALSE]]
MCDocuments ==
    {[groups |-> Both, rules |-> (1 :> StaffToBranch)],
     [groups |-> (staff :> [kind |-> "zone", exit |-> TRUE]), rules |-> (1 :> StaffToBranch)],
     [groups |-> (office :> [kind |-> "zone", exit |-> FALSE]),
      rules |-> (2 :> NothingIntoOffice) @@ (1 :> StaffToBranch)]}

Rowed(kind, exit, intra) == [there |-> TRUE, kind |-> kind, exit |-> exit, intra |-> intra]
Empty ==
    [rows |-> [s \in MCSlugs |-> NoRow],
     peers |-> [h \in MCPeers |-> [state |-> "active", groups |-> {}, zone |-> NoSlug]],
     routes |-> {}, rules |-> [f \in MCRefs |-> NoRule]]
Furnished ==
    [rows |-> (staff :> Rowed("group", FALSE, FALSE) @@ office :> Rowed("zone", TRUE, TRUE)
                 @@ office2 :> NoRow),
     peers |-> (p1 :> [state |-> "active", groups |-> {staff}, zone |-> office]
                  @@ p2 :> [state |-> "confined", groups |-> {}, zone |-> office]),
     routes |-> {[zone |-> office, net |-> branch, via |-> p2]},
     rules |-> (1 :> StaffToBranch @@ 2 :> NothingIntoOffice)]
MCInitial == {Empty, Furnished}
=============================================================================
