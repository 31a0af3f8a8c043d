--------------------------- MODULE MCGatewayAgent ---------------------------
(***************************************************************************)
(* Instances of GatewayAgent for TLC: a policy to start from, the changes  *)
(* it goes through, and what goes wrong meanwhile.                         *)
(***************************************************************************)
EXTENDS GatewayAgent, TLC

CONSTANTS router, laptop, lan

MCPeers == {router, laptop}
MCOnePeer == {router}
MCNets == {lan}
MCNoNets == {}
MCDocs == {1, 2}
MCNoDocs == {}
MCOneDoc == {1}

\* A policy without files: the peers in these states, these of them in a group,
\* every network carried as given.
Fleet(s, members, v) ==
    [state |-> [p \in Peers |-> s], member |-> members,
     via |-> [n \in Nets |-> v], file |-> [slot \in Slots |-> None]]

\* Everybody in a group, the network behind the router; just registered, or in use.
MCGrouped == {Fleet(s, Peers, router) : s \in {"staging", "active"}}
\* Nobody in a group.
MCUngrouped == {Fleet("active", {}, Off)}
\* The network reached by the gateway itself.
MCLocalNet == {Fleet("active", Peers, Gateway)}
\* Files alone.
MCFiles == {[Fleet("active", Peers, Off) EXCEPT !.file["dns"] = 1]}

MCStateChanges == {"state"}
\* What the agent notices by a digest, and the faults it catches.
MCSettlingChanges == {"state", "delete", "file"}
MCFaultsCaught == {"rejected", "missing", "file_fails", "crash"}

\* The changes and the fault of one disagreement each.
MCRouteChanges == {"route"}
MCDeleteChanges == {"delete"}
MCFileChanges == {"file"}
MCNoFaults == {}
MCEveryChange == AllChanges
MCEveryFault == AllFaults
MCWireGuardFails == {"wg_fails"}
MCWireGuardHangs == {"wg_hangs"}
MCFileHangs == {"file_hangs"}
MCReportLost == {"report_lost"}
MCHandEdit == {"hand_edit"}
MCReboot == {"reboot"}
MCCrashUnrecorded == {"crash_unrecorded"}
=============================================================================
