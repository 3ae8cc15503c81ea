-------------------------- MODULE RuntimeTracker --------------------------
(***************************************************************************)
(* One row of the supervisor's DaemonRuntimeTracker and the operations on  *)
(* it.  A row says which child of a daemon is current: its pid (0: none)   *)
(* and its generation, the number that attributes an exit to the child it  *)
(* belongs to.  crashes is the number of failures in the sliding window.   *)
(* A daemon without a row has Absent, the zero value the code's map read   *)
(* returns, so an operation on a missing row creates it.                   *)
(***************************************************************************)
EXTENDS Naturals

TrackerStates == {"none", "idle", "running", "backoff", "quarantine"}

TrackerRows == [state : TrackerStates, pid : Nat, gen : Nat, crashes : Nat]

Absent == [state |-> "none", pid |-> 0, gen |-> 0, crashes |-> 0]

\* The row says that the child is gone, and why.
Cleared(row, st) == [row EXCEPT !.state = st, !.pid = 0]

MarkSpawned(row, pid) ==
  [row EXCEPT !.state = "running", !.pid = pid, !.gen = @ + 1]

MarkSpawnFailed(row) == Cleared(row, "backoff")

MarkExited(row) == Cleared(row, "idle")

MarkBackoff(row) == Cleared(row, "backoff")

MarkQuarantined(row) == Cleared(row, "quarantine")

\* An exit of generation gen is stale once a newer child was spawned.
IsStale(row, gen) == gen < row.gen

\* Mutant: the wait goroutine of an older child clears the row.
MarkExitedAlways(row, gen) == MarkExited(row)

MarkExitedIfCurrent(row, gen) == IF IsStale(row, gen) THEN row ELSE MarkExited(row)

RecordCrash(row) == [row EXCEPT !.crashes = @ + 1]

ClearCrashes(row) == [row EXCEPT !.crashes = 0]

===========================================================================
