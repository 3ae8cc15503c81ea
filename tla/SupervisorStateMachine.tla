---------------------- MODULE SupervisorStateMachine ----------------------
(***************************************************************************)
(* The per-daemon restart policy of the supervisor: the pure function      *)
(* api.Transition.  A state and an event, read under a context, give a row *)
(* of the table: the next state and what the caller must do.  The side     *)
(* effect, a string in the code, is kept as the parts the controller looks *)
(* for in it:                                                              *)
(*   create         - the row says "create-process";                       *)
(*   queued         - what happens to the daemon's queued action ("keep"   *)
(*                    leaves it alone);                                    *)
(*   resetFailures  - the row says "reset failures".                       *)
(* The code's "issue terminate" needs no flag: the controller terminates   *)
(* the child on every row that leads to the exiting state.                 *)
(***************************************************************************)
EXTENDS Naturals

CONSTANT QuarantineThreshold    \* crashes in the window that quarantine (10)

ASSUME ThresholdAssumption == QuarantineThreshold \in Nat \ {0}

SMStates == {"idle", "spawning", "running", "exiting", "backoff", "quarantined"}

SMEvents == {"start", "health-ok", "child-exit", "timer-due", "intent-update",
             "manual-restart", "request-graceful-exit", "quiesce-complete"}

QueuedActions == {"none", "stop", "respawn"}

\* SMContext: what the table reads about the daemon and the supervisor.
SMContexts == [desired : {"running", "stopped"}, activeStop : BOOLEAN,
               failures : Nat, queued : QueuedActions, graceful : BOOLEAN]

Rows == [matched : BOOLEAN, to : SMStates, create : BOOLEAN,
         queued : QueuedActions \cup {"keep"}, resetFailures : BOOLEAN]

GoTo(st) == [matched |-> TRUE, to |-> st, create |-> FALSE,
             queued |-> "keep", resetFailures |-> FALSE]

QueueAnd(st, action) == [GoTo(st) EXCEPT !.queued = action]

CreateProcess == [GoTo("spawning") EXCEPT !.create = TRUE]

\* The event is dropped: no row of the table matches.
Unmatched(st) == [GoTo(st) EXCEPT !.matched = FALSE]

SpawnAllowed(ctx) == ctx.desired = "running" /\ ~ctx.activeStop

StopWanted(ctx) == ctx.queued = "stop" \/ ctx.desired = "stopped"

FromIdle(ev, ctx) ==
  CASE ev \in {"start", "manual-restart"} ->
         IF SpawnAllowed(ctx) THEN CreateProcess ELSE GoTo("idle")
    [] ev = "intent-update" ->
         IF ctx.desired = "stopped" THEN GoTo("idle")
         ELSE IF SpawnAllowed(ctx) THEN CreateProcess ELSE Unmatched("idle")
    [] ev \in {"request-graceful-exit", "quiesce-complete"} -> GoTo("idle")
    [] OTHER -> Unmatched("idle")

FromSpawning(ev, ctx) ==
  CASE ev = "health-ok" ->
         IF ctx.queued = "stop" THEN QueueAnd("exiting", "none") ELSE GoTo("running")
    [] ev = "child-exit" ->
         IF StopWanted(ctx) THEN QueueAnd("idle", "none") ELSE GoTo("backoff")
    [] ev = "intent-update" ->
         QueueAnd("spawning", IF ctx.desired = "stopped" THEN "stop" ELSE "none")
    [] ev = "request-graceful-exit" -> QueueAnd("exiting", "none")
    [] OTHER -> Unmatched("spawning")

FromRunning(ev, ctx) ==
  CASE ev = "child-exit" -> GoTo("backoff")
    [] ev = "intent-update" /\ ctx.desired = "stopped" -> QueueAnd("exiting", "none")
    [] ev = "manual-restart" -> QueueAnd("exiting", "respawn")
    [] ev = "request-graceful-exit" -> QueueAnd("exiting", "none")
    [] OTHER -> Unmatched("running")

\* Mutant: a start that arrives while the child is being stopped is not queued.
ExitingForgetsStart(ev, ctx) ==
  CASE ev = "child-exit" ->
         IF ~ctx.graceful /\ ctx.queued = "respawn" THEN CreateProcess ELSE GoTo("idle")
    [] ev = "manual-restart" -> QueueAnd("exiting", "respawn")
    [] OTHER -> Unmatched("exiting")

FromExiting(ev, ctx) ==
  CASE ev = "child-exit" ->
         IF ~ctx.graceful /\ ctx.queued = "respawn" THEN CreateProcess ELSE GoTo("idle")
    [] ev = "manual-restart" ->
         IF ctx.graceful THEN GoTo("exiting") ELSE QueueAnd("exiting", "respawn")
    [] ev = "intent-update" ->
         IF ctx.graceful /\ ctx.desired = "running" THEN GoTo("exiting")
         ELSE QueueAnd("exiting", IF ctx.desired = "stopped" THEN "none" ELSE "respawn")
    [] ev = "request-graceful-exit" -> QueueAnd("exiting", "none")
    [] ev = "timer-due" -> GoTo("exiting")
    [] OTHER -> Unmatched("exiting")

FromBackoff(ev, ctx) ==
  CASE ev = "timer-due" ->
         IF StopWanted(ctx) THEN QueueAnd("idle", "none")
         ELSE IF ctx.failures < QuarantineThreshold THEN CreateProcess
         ELSE GoTo("quarantined")
    [] ev = "intent-update" ->
         IF ctx.desired = "stopped" THEN GoTo("idle") ELSE CreateProcess
    [] ev = "manual-restart" -> CreateProcess
    [] ev = "request-graceful-exit" -> GoTo("idle")
    [] OTHER -> Unmatched("backoff")

FromQuarantined(ev, ctx) ==
  CASE \/ ev = "manual-restart"
       \/ ev = "intent-update" /\ ctx.desired = "running" ->
         [CreateProcess EXCEPT !.resetFailures = TRUE]
    [] ev = "intent-update" /\ ctx.desired = "stopped" -> GoTo("quarantined")
    [] ev = "request-graceful-exit" -> GoTo("quarantined")
    [] OTHER -> Unmatched("quarantined")

Transition(st, ev, ctx) ==
  CASE st = "idle"        -> FromIdle(ev, ctx)
    [] st = "spawning"    -> FromSpawning(ev, ctx)
    [] st = "running"     -> FromRunning(ev, ctx)
    [] st = "exiting"     -> FromExiting(ev, ctx)
    [] st = "backoff"     -> FromBackoff(ev, ctx)
    [] st = "quarantined" -> FromQuarantined(ev, ctx)
===========================================================================
