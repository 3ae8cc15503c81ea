--------------------------- MODULE MCController ---------------------------
(* Small instances of SupervisorController for TLC. *)
EXTENDS SupervisorController, TLC

Cold == {[warm |-> FALSE, want |-> w] : w \in Wants}

Warm == {[warm |-> TRUE, want |-> "running"]}

WarmStopped == {[warm |-> TRUE, want |-> "stopped"]}

ColdOrWarm == Cold \cup Warm

AnyStart == ColdOrWarm \cup WarmStopped

NoInput == [i \in Inputs |-> 0]

\* Crashes, spawn and terminate failures, an operator restart, a stop; or a
\* daemon that loses its port while it crashes and is restarted.
RestartBudgets ==
  {[NoInput EXCEPT !["death"] = 2, !["fault"] = 1, !["restart"] = 1, !["intent"] = 1],
   [NoInput EXCEPT !["death"] = 1, !["fault"] = 1, !["restart"] = 1, !["unbound"] = 1]}

\* Spawns held by the path and port gates, parole, self-heal, quiesce.
RecoveryBudgets ==
  {[NoInput EXCEPT !["death"] = 1, !["fault"] = 2, !["heal"] = 1, !["quiesce"] = 1, !["intent"] = 1]}

\* Only automatic restarts race the operator's intent.
StopBudgets == {[NoInput EXCEPT !["death"] = 1, !["fault"] = 1, !["intent"] = 2]}

\* The sweep restarts a daemon that lost its port while the operator stops it.
UnboundBudgets == {[NoInput EXCEPT !["unbound"] = 1, !["intent"] = 1]}
===========================================================================
