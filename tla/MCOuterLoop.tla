---------------------------- MODULE MCOuterLoop ----------------------------
(* Sets for TLC: the agents wired in this version, and what they may answer. *)
EXTENDS OuterLoop

CONSTANTS c1, u1

V1Agents == {"DISCOVERY", "DISCOVERY_VALIDATED"}
FirstStates == {"DISCOVERY", "COMPLETE"}

(* A requirement that covers the area is confirmed; a blocking unknown is    *)
(* recorded.                                                                 *)
SomeWrites == {<<c1, "settled">>, <<u1, "open">>}

(* One legal and one illegal target from each wired state.                   *)
SomeTargets == {"DISCOVERY_VALIDATED", "PLANNING"}

(* PARTIAL is handled in the same branch as OK.                              *)
SomeStatuses == AllStatuses \ {"PARTIAL"}

(* What DiscoveryAgent (agents/turn.py) and PlanningAgent answer.            *)
WiredStatuses == {"OK", "HUMAN_INPUT_REQUIRED", "NON_RECOVERABLE", "NOT_IMPLEMENTED"}

=============================================================================
