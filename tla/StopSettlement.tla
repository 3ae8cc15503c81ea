-------------------------- MODULE StopSettlement --------------------------
(***************************************************************************)
(* The durable stop of the supervisor: a stop batch is admitted as one     *)
(* receipt per daemon in supervisor-state.json, the controller terminates  *)
(* the children, and a settlement goroutine commits (removes) each receipt *)
(* once the exact child's exit is recorded and its port was seen free.     *)
(* While a receipt is pending no child of its daemon is created.  A failed *)
(* settlement keeps its receipt for a recovery that is re-armed by a       *)
(* timer, a restart of the supervisor or the operator's next respawn.      *)
(*                                                                         *)
(* task[t] is the controller's and the tracker's view of a daemon (sm,     *)
(* queued, row, rec: the receipt mirrored in memory, own, listed: in the   *)
(* startup snapshot runningPIDs, armed) and the process itself (child,     *)
(* listening).  A child is "alive", "dead" (its wait goroutine has not     *)
(* run), "marked" (the goroutine cleared the row and has not posted the    *)
(* exit) or "none".  disk is supervisor-state.json.                        *)
(***************************************************************************)
EXTENDS SupervisorStateMachine, RuntimeTracker, Sequences, FiniteSets, Functions

CONSTANTS Tasks,      \* the supervised daemons
          Callers,    \* operators' stop requests that may run at once
          Budgets     \* what is stopped, and bounds on everything that happens

Bounds == [targets : Seq(Tasks) \ {<<>>}, stop : Nat, start : Nat, death : Nat, fault : Nat,
           timeout : Nat, crash : Nat, retry : Nat, watch : Nat]

ASSUME SettlementAssumptions ==
  /\ \A S \in SUBSET Tasks : Cardinality(S) \in Nat   \* there are finitely many daemons
  /\ Budgets \subseteq Bounds

VARIABLES task, disk, integrity, file, cache, watcher, ch, loop, settler, budget

\* A settlement goroutine belongs to a stop request or to a daemon's recovery.
Slots == Callers \cup Tasks

vars == <<task, disk, integrity, file, cache, watcher, ch, loop, settler, budget>>

NoReceipt == [phase |-> "none", resume |-> "none", mode |-> "none", gen |-> 0, epoch |-> 0, rev |-> 0]

Phases == {"stop_requested", "exit_observed", "port_released"}

\* A failed receipt, and no other, says in which phase it resumes.
Receipts == {NoReceipt} \cup
  {r \in [phase : Phases \cup {"failed"}, resume : Phases \cup {"none"}, mode : {"stop", "port_fence"},
          gen : Nat, epoch : Nat, rev : Nat] : r.phase = "failed" <=> r.resume # "none"}

Results == {"incomplete", "process_alive", "listener_alive", "stopped"}

TaskRecords ==
  [sm : SMStates, queued : QueuedActions, row : TrackerRows, rec : Receipts, own : BOOLEAN,
   listed : BOOLEAN, armed : {"no", "timer", "queued"}, child : {"none", "alive", "dead", "marked"}, listening : BOOLEAN]

StateFiles == [row : [Tasks -> TrackerRows], rec : [Tasks -> Receipts], epoch : Nat]

\* The intent: its generation and the daemons it wants stopped.
Commands == [gen : Nat, stopped : SUBSET Tasks]

Events ==
  [kind : {"exit"}, task : Tasks, gen : Nat] \cup [kind : {"intent", "recover"}, task : Tasks]
    \cup [kind : {"scan"}, snap : Commands] \cup [kind : {"barrier"}, slot : Slots]
    \cup [kind : {"batch"}, slot : Slots, targets : Seq(Tasks), snap : Commands]

Loops == [pc : {"ready", "install", "apply"}, slot : Slots \cup {0}, todo : Seq(Tasks),
          recs : [Tasks -> Receipts]]

Settlers ==
  [pc : {"idle", "post", "reply", "barrier", "snapshot", "look", "wait", "finalize", "commit"},
   targets : Seq(Tasks), snap : Commands, seen : SUBSET Tasks, res : [Tasks -> Results],
   held : Receipts]

NoCommand == [gen |-> 0, stopped |-> {}]

Idle == [pc |-> "idle", targets |-> <<>>, snap |-> NoCommand, seen |-> {},
         res |-> [t \in Tasks |-> "incomplete"], held |-> NoReceipt]

Ready == [pc |-> "ready", slot |-> 0, todo |-> <<>>, recs |-> [t \in Tasks |-> NoReceipt]]

Running(x) == [x EXCEPT !.sm = "running", !.queued = "none", !.child = "alive", !.own = TRUE,
                        !.listening = TRUE, !.row = MarkSpawned(@, @.gen + 1)]

Fresh == [sm |-> "idle", queued |-> "none", row |-> Absent, rec |-> NoReceipt, own |-> FALSE,
          listed |-> FALSE, armed |-> "no", child |-> "none", listening |-> FALSE]

Init ==
  /\ task = [t \in Tasks |-> Running(Fresh)]
  /\ disk = [row |-> [t \in Tasks |-> task[t].row], rec |-> [t \in Tasks |-> NoReceipt], epoch |-> 0]
  /\ integrity = FALSE
  /\ file = [gen |-> 1, stopped |-> {}]
  /\ cache = file
  /\ watcher = [known |-> file, read |-> NoCommand]
  /\ ch = <<>>
  /\ loop = Ready
  /\ settler = [s \in Slots |-> Idle]
  /\ budget \in Budgets

Can(what) == budget[what] > 0

Spend(what) == budget' = [budget EXCEPT ![what] = @ - 1]

\* A write of supervisor-state.json succeeds, or fails at the cost of a fault.
Write(ok) == IF ok THEN UNCHANGED budget ELSE Can("fault") /\ Spend("fault")

Goto(s, pc) == [settler EXCEPT ![s].pc = pc]

----------------------------------------------------------------------------
\* The receipt in the tracker and in the state file

\* Mutant: a resumed receipt still says where it failed.
KeepResume(r, phase) ==
  IF phase = "failed" THEN [r EXCEPT !.phase = "failed", !.resume = r.phase, !.rev = @ + 1]
  ELSE [r EXCEPT !.phase = phase, !.rev = @ + 1]

\* Mutant: a failed stop starts again from its beginning.
FailFromStart(r, phase) ==
  IF phase = "failed" THEN [r EXCEPT !.phase = "failed", !.resume = "stop_requested", !.rev = @ + 1]
  ELSE [r EXCEPT !.phase = phase, !.resume = "none", !.rev = @ + 1]

\* nextStopSettlementReceipt
NextReceipt(r, phase) ==
  IF phase = "failed" THEN [r EXCEPT !.phase = "failed", !.resume = r.phase, !.rev = @ + 1]
  ELSE [r EXCEPT !.phase = phase, !.resume = "none", !.rev = @ + 1]

Legal(r, phase) ==
  \/ r.phase = "failed" /\ phase = r.resume
  \/ r.phase = "stop_requested" /\ phase \in {"exit_observed", "failed"}
  \/ r.phase = "exit_observed" /\ phase \in {"port_released", "failed"}
  \/ r.phase = "port_released" /\ phase = "failed"

\* What a handler changes: the daemons, the state file and the event queue.
World == [task |-> task, disk |-> disk, ch |-> ch]

Put(w, t, r) == [w EXCEPT !.task[t].rec = r, !.disk.rec[t] = r]

SameRevision(w, t, r) == w.task[t].rec = r /\ w.disk.rec[t] = r

Accepts(w, t, r, phase) == SameRevision(w, t, r) /\ Legal(r, phase)

Advance(w, t, r, phase, ok) ==
  IF ok /\ Accepts(w, t, r, phase) THEN Put(w, t, NextReceipt(r, phase)) ELSE w

\* Mutant: the runtime rows are saved together with a mirror known to be wrong.
PersistMirror(w) ==
  [w EXCEPT !.disk.row = [t \in Tasks |-> w.task[t].row],
            !.disk.rec = [t \in Tasks |-> w.task[t].rec]]

\* PersistTo: the rows, and the receipts unless the mirror is known to be wrong.
PersistTo(w) ==
  [w EXCEPT !.disk.row = [t \in Tasks |-> w.task[t].row],
            !.disk.rec = IF integrity THEN @ ELSE [t \in Tasks |-> w.task[t].rec]]

\* stopSettlementAdmissionEntry
Admissible(row) == row.pid > 0 \/ row.state \in {"idle", "backoff"}

NewReceipt(row, epoch) ==
  [phase |-> IF row.pid = 0 THEN "exit_observed" ELSE "stop_requested", resume |-> "none",
   mode |-> IF row.pid = 0 THEN "port_fence" ELSE "stop", gen |-> row.gen, epoch |-> epoch, rev |-> 1]

\* sameStopSettlementRuntimeIdentity
SameRuntime(row, r) ==
  /\ row.gen = r.gen
  /\ IF r.mode = "port_fence" THEN row.pid = 0 /\ Admissible(row) ELSE row.pid # 0

\* Mutant: the child has to be there whatever the phase.
IdentityAlwaysLive(r, phase, row) == row.gen = r.gen /\ row.pid # 0

\* stopReceiptRecoveryIdentityMatches
RecoveryIdentity(r, phase, row) ==
  /\ row.gen = r.gen
  /\ IF phase = "stop_requested" THEN row.pid # 0 ELSE row.state = "idle" /\ row.pid = 0

EffectivePhase(r) == IF r.phase = "failed" THEN r.resume ELSE r.phase

----------------------------------------------------------------------------
\* What the controller does to a daemon on its loop

Context(x, desired) ==
  [desired |-> desired, activeStop |-> desired = "stopped", failures |-> 0,
   queued |-> x.queued, graceful |-> FALSE]

Desired(snap, t) == IF t \in snap.stopped THEN "stopped" ELSE "running"

\* Mutant: only the mirrored receipt is looked at.
AdmitByMirror(w, t) == w.task[t].rec = NoReceipt

AdmitCreateProcess(w, t) == ~integrity /\ w.task[t].rec = NoReceipt

\* A denied spawn leaves the state machine in the spawning state.
CreateChild(w, t) ==
  IF AdmitCreateProcess(w, t) THEN PersistTo([w EXCEPT !.task[t] = Running(@)]) ELSE w

Exit(t, gen) == [kind |-> "exit", task |-> t, gen |-> gen]

\* The termination outcomes: "ok" is an exit that was observed, "raced" a child
\* that exits by itself before it is signalled (its row is not cleared), "late" a
\* kill that was accepted but not seen to work, "refused" one that failed.
Endings == {"ok", "raced", "late", "refused"}

Killed(w, t) == [w EXCEPT !.task[t].child = IF w.task[t].own THEN "dead" ELSE "none"]

\* Nobody waits for a child of an earlier supervisor: its exit is synthesized.
Synthesized(w, t) ==
  IF w.task[t].own THEN w ELSE [w EXCEPT !.ch = <<Exit(t, w.task[t].row.gen)>> \o @]

Observed(w, t) ==
  Synthesized(PersistTo([w EXCEPT !.task[t].row = MarkExitedIfCurrent(@, w.task[t].row.gen)]), t)

\* The result of a step that can fail: the world after it and whether it failed.
\* Without a PID in the row the startup snapshot's is tried, which is dead.
Terminate(w, t, outcome) ==
  CASE w.task[t].row.pid = 0         -> [w |-> w, err |-> ~w.task[t].listed]
    [] w.task[t].child # "alive"     -> [w |-> Observed(w, t), err |-> FALSE]
    [] outcome = "ok"                -> [w |-> Observed(Killed(w, t), t), err |-> FALSE]
    [] outcome = "raced"             -> [w |-> Synthesized(Killed(w, t), t), err |-> FALSE]
    [] outcome = "late"              -> [w |-> Killed(w, t), err |-> TRUE]
    [] OTHER                         -> [w |-> w, err |-> TRUE]

\* A row of the table, applied by the generic handler, which ignores an error.
Take(w, t, r, outcome) ==
  LET to == IF r.to = "idle" /\ w.task[t].sm # "idle" THEN MarkExited(w.task[t].row)
            ELSE IF r.to = "backoff" THEN MarkBackoff(w.task[t].row)
            ELSE w.task[t].row
      v  == PersistTo([w EXCEPT !.task[t].sm = r.to,
                                !.task[t].queued = IF r.queued = "keep" THEN @ ELSE r.queued,
                                !.task[t].row = to])
  IN  IF r.create THEN CreateChild(v, t)
      ELSE IF r.to = "exiting" THEN Terminate(v, t, outcome).w ELSE v

StopRow(x) == Transition(x.sm, "intent-update", Context(x, "stopped"))

\* applyAuthoritativeStopTransition: only a queued stop is recorded, and a row
\* that must be saved first is an error when the save fails.
ApplyStop(w, t, outcome) ==
  LET x == w.task[t]
      r == StopRow(x)
      v == [w EXCEPT !.task[t].sm = r.to,
                     !.task[t].queued = IF r.queued = "stop" THEN "stop" ELSE @,
                     !.task[t].row = IF r.to = "idle" /\ x.sm # "idle" THEN MarkExited(@) ELSE @]
      saves == x.sm \in {"running", "exiting", "backoff"}
  IN  IF saves /\ outcome = "unsaved" THEN [w |-> v, err |-> TRUE]
      ELSE LET u == IF saves THEN PersistTo(v) ELSE v
           IN  IF r.to = "exiting" THEN Terminate(u, t, outcome) ELSE [w |-> u, err |-> FALSE]

Outcomes == Endings \cup {"unsaved"}

\* Mutant: a second token is taken while the first is queued.
ArmAgain(w, t) == [w EXCEPT !.task[t].armed = "timer"]

\* armStopSettlementRecovery: one token per daemon.
Arm(w, t) == [w EXCEPT !.task[t].armed = IF @ = "no" THEN "timer" ELSE @]

\* A stop that could not be applied: the receipt fails and recovery is armed.
StopFailed(w, t, ok) ==
  LET r == w.task[t].rec
  IN  Arm(IF r # NoReceipt /\ r.phase # "failed" THEN Advance(w, t, r, "failed", ok) ELSE w, t)

Become(w) == \E v \in {w} : task' = v.task /\ disk' = v.disk /\ ch' = v.ch

\* One of the faults of applying a stop, each at its cost.
ApplyFault(outcome, ok) ==
  LET cost == (IF outcome = "ok" THEN 0 ELSE 1) + (IF ok THEN 0 ELSE 1)
  IN  /\ budget.fault >= cost
      /\ budget' = [budget EXCEPT !.fault = @ - cost]

----------------------------------------------------------------------------
\* The event loop: one event at a time, in order

Pending(kind) == loop.pc = "ready" /\ ch # <<>> /\ Head(ch).kind = kind

Rest == [World EXCEPT !.ch = Tail(ch)]

\* recordExactStopReceiptExit: only a requested stop of this very child.
Recorded(w, t, gen, ok) ==
  LET r == w.task[t].rec
  IN  IF r.mode = "stop" /\ r.gen = gen /\ r.phase = "stop_requested"
      THEN Advance(w, t, r, "exit_observed", ok) ELSE w

\* A crash while running goes to backoff, a clean exit to idle.
HandleExit(clean, ok) ==
  /\ Pending("exit")
  /\ Write(ok)
  /\ LET t == Head(ch).task
         x == task[t]
         r == IF clean /\ x.sm = "running" THEN GoTo("idle")
              ELSE Transition(x.sm, "child-exit", Context(x, Desired(cache, t)))
     IN  \E w \in {Recorded(Rest, t, Head(ch).gen, ok)} :
           Become(IF IsStale(x.row, Head(ch).gen) \/ ~r.matched THEN w ELSE Take(w, t, r, "ok"))
  /\ UNCHANGED <<integrity, file, cache, watcher, loop, settler>>

\* The watcher's snapshot replaces the cache, whatever its generation.
HandleReapScan ==
  /\ Pending("scan")
  /\ cache' = Head(ch).snap
  /\ ch' = Tail(ch)
  /\ UNCHANGED <<task, disk, integrity, file, watcher, loop, settler, budget>>

HandleIntent(outcome) ==
  /\ Pending("intent")
  /\ ApplyFault(outcome, TRUE)
  /\ LET t == Head(ch).task
         x == task[t]
         r == Transition(x.sm, "intent-update", Context(x, Desired(cache, t)))
     IN  /\ outcome # "ok" => r.matched /\ r.to = "exiting"
         /\ Become(IF r.matched THEN Take(Rest, t, r, outcome) ELSE Rest)
  /\ UNCHANGED <<integrity, file, cache, watcher, loop, settler>>

TimerDue(t) ==
  /\ loop.pc = "ready" /\ task[t].sm = "backoff"
  /\ Become(Take(World, t, Transition("backoff", "timer-due", Context(task[t], Desired(cache, t))), "ok"))
  /\ UNCHANGED <<integrity, file, cache, watcher, loop, settler, budget>>

HandleBarrier ==
  /\ Pending("barrier")
  /\ ch' = Tail(ch)
  /\ settler' = IF settler[Head(ch).slot].pc = "barrier"
                THEN Goto(Head(ch).slot, "snapshot") ELSE settler
  /\ UNCHANGED <<task, disk, integrity, file, cache, watcher, loop, budget>>

\* preflightStopBatch and validateStopBatchIntentSelection
Preflight(b) ==
  /\ ~integrity
  /\ cache.gen > b.snap.gen => Range(b.targets) \subseteq cache.stopped
  /\ \A t \in Range(b.targets) : Admissible(task[t].row) /\ StopRow(task[t]).matched

Already(b) == {t \in Range(b.targets) : task[t].rec # NoReceipt}

\* joinPendingStopBatch
Joins(b) ==
  /\ Already(b) = Range(b.targets)
  /\ \A t \in Already(b) : /\ task[t].rec.phase # "failed"
                           /\ t \in cache.stopped
                           /\ RecoveryIdentity(task[t].rec, task[t].rec.phase, task[t].row)

Reply(s, pc) == IF settler[s].pc = "reply" THEN Goto(s, pc) ELSE settler

\* A barrier is posted by the settlement the reply starts.
Barrier(s) == [kind |-> "barrier", slot |-> s]

StartSettling(w, s) ==
  /\ Become([w EXCEPT !.ch = IF settler[s].pc = "reply" THEN Append(@, Barrier(s)) ELSE @])
  /\ settler' = Reply(s, "barrier")

RejectBatch ==
  /\ Pending("batch")
  /\ \/ ~Preflight(Head(ch))
     \/ Already(Head(ch)) # {} /\ ~Joins(Head(ch))
  /\ ch' = Tail(ch)
  /\ settler' = IF settler[Head(ch).slot].pc = "reply"
                THEN [settler EXCEPT ![Head(ch).slot] = Idle] ELSE settler
  /\ UNCHANGED <<task, disk, integrity, file, cache, watcher, loop, budget>>

JoinBatch ==
  /\ Pending("batch") /\ Preflight(Head(ch)) /\ Joins(Head(ch))
  /\ StartSettling(Rest, Head(ch).slot)
  /\ UNCHANGED <<integrity, file, cache, watcher, loop, budget>>

\* BeginStopSettlementBatch, first half: the receipts of the whole batch are
\* written to the state file in one step.
BeginBatch(ok) ==
  /\ Pending("batch") /\ Preflight(Head(ch)) /\ Already(Head(ch)) = {}
  /\ Write(ok)
  /\ LET b == Head(ch)
         recs == [t \in Tasks |-> IF t \in Range(b.targets)
                                  THEN NewReceipt(task[t].row, disk.epoch + 1) ELSE NoReceipt]
         fresh == \A t \in Range(b.targets) : disk.rec[t] = NoReceipt
     IN  /\ cache' = IF cache.gen > b.snap.gen THEN cache ELSE b.snap
         /\ ch' = Tail(ch)
         /\ IF ok /\ fresh
            THEN /\ disk' = [disk EXCEPT !.rec = [t \in Tasks |->
                               IF t \in Range(b.targets) THEN recs[t] ELSE disk.rec[t]], !.epoch = @ + 1]
                 /\ loop' = [pc |-> "install", slot |-> b.slot, todo |-> b.targets, recs |-> recs]
                 /\ UNCHANGED settler
            ELSE /\ settler' = IF settler[b.slot].pc = "reply"
                               THEN [settler EXCEPT ![b.slot] = Idle] ELSE settler
                 /\ UNCHANGED <<disk, loop>>
  /\ UNCHANGED <<task, integrity, file, watcher>>

\* BeginStopSettlementBatch, second half: the mirror is installed only if no
\* child exited meanwhile.
InstallMirror ==
  /\ loop.pc = "install"
  /\ IF \A t \in Range(loop.todo) : SameRuntime(task[t].row, loop.recs[t])
     THEN /\ task' = [t \in Tasks |-> IF t \in Range(loop.todo)
                                      THEN [task[t] EXCEPT !.rec = loop.recs[t]] ELSE task[t]]
          /\ loop' = [loop EXCEPT !.pc = "apply"]
          /\ UNCHANGED <<integrity, settler>>
     ELSE /\ integrity' = TRUE
          /\ loop' = Ready
          /\ settler' = IF settler[loop.slot].pc = "reply"
                        THEN [settler EXCEPT ![loop.slot] = Idle] ELSE settler
          /\ UNCHANGED task
  /\ UNCHANGED <<disk, file, cache, watcher, ch, budget>>

ApplyTarget(outcome, ok) ==
  /\ loop.pc = "apply" /\ loop.todo # <<>>
  /\ ApplyFault(outcome, ok)
  /\ LET t == Head(loop.todo)
     IN  \E done \in {ApplyStop(World, t, outcome)} :
           Become(IF done.err THEN StopFailed(done.w, t, ok) ELSE done.w)
  /\ loop' = [loop EXCEPT !.todo = Tail(@)]
  /\ UNCHANGED <<integrity, file, cache, watcher, settler>>

ReplyBatch ==
  /\ loop.pc = "apply" /\ loop.todo = <<>>
  /\ StartSettling(World, loop.slot)
  /\ loop' = Ready
  /\ UNCHANGED <<integrity, file, cache, watcher, budget>>

Free(s) ==
  /\ settler[s].pc = "idle" /\ loop.slot # s
  /\ \A i \in 1..Len(ch) : ch[i].kind \in {"batch", "barrier"} => ch[i].slot # s

\* recoverStopReceiptOnLoop: is there anything this daemon's receipt allows?
Recoverable(t) ==
  LET r == task[t].rec
  IN  /\ r # NoReceipt /\ t \in cache.stopped
      /\ RecoveryIdentity(r, EffectivePhase(r), task[t].row)

Disarm(t) == [Rest EXCEPT !.task[t].armed = "no"]

SkipRecovery ==
  /\ Pending("recover") /\ ~Recoverable(Head(ch).task)
  /\ Become(Disarm(Head(ch).task))
  /\ UNCHANGED <<integrity, file, cache, watcher, loop, settler, budget>>

Resumed(t, ok) ==
  LET r == task[t].rec
  IN  IF r.phase = "failed" THEN Advance(Disarm(t), t, r, r.resume, ok) ELSE Disarm(t)

\* A failed receipt resumes where it failed; a stop that is only requested is
\* applied again; then a settlement of this one daemon is started, with its own
\* barrier.
HandleRecovery(outcome, ok) ==
  /\ Pending("recover") /\ Recoverable(Head(ch).task)
  /\ Free(Head(ch).task)
  /\ ApplyFault(outcome, ok)
  /\ LET t == Head(ch).task
     IN  \E w \in {Resumed(t, ok)} :
           LET again == w.task[t].rec.phase = "stop_requested"
           IN  /\ outcome # "ok" => again
               /\ \E done \in {IF again THEN ApplyStop(w, t, outcome) ELSE [w |-> w, err |-> FALSE]} :
                    LET goes == w.task[t].rec.phase # "failed" /\ ~done.err
                    IN  /\ Become(IF w.task[t].rec.phase = "failed" THEN Arm(w, t)
                                  ELSE IF done.err THEN StopFailed(done.w, t, ok)
                                  ELSE [done.w EXCEPT !.ch = Append(@, Barrier(t))])
                        /\ settler' = IF goes THEN [settler EXCEPT ![t] =
                                                     [Idle EXCEPT !.pc = "barrier", !.targets = <<t>>]]
                                      ELSE settler
  /\ UNCHANGED <<integrity, file, cache, watcher, loop>>

----------------------------------------------------------------------------
\* The settlement goroutines

\* The port owners are read first, then the tracker.
SnapshotPorts(s) ==
  /\ settler[s].pc \in {"snapshot", "wait"}
  /\ settler' = [settler EXCEPT ![s].pc = "look", ![s].seen = {t \in Tasks : task[t].listening}]
  /\ UNCHANGED <<task, disk, integrity, file, cache, watcher, ch, loop, budget>>

Verdict(s, t) ==
  IF settler[s].res[t] = "stopped" THEN "stopped"
  ELSE IF task[t].row.pid # 0 \/ task[t].row.state # "idle" THEN "process_alive"
  ELSE IF t \in settler[s].seen THEN "listener_alive"
  ELSE "stopped"

Look(s) ==
  /\ settler[s].pc = "look"
  /\ LET res == [t \in Tasks |-> IF t \in Range(settler[s].targets) THEN Verdict(s, t) ELSE "incomplete"]
         all == \A t \in Range(settler[s].targets) : res[t] = "stopped"
     IN  settler' = [settler EXCEPT ![s].res = res, ![s].seen = {},
                                    ![s].pc = IF all THEN "finalize" ELSE "wait"]
  /\ UNCHANGED <<task, disk, integrity, file, cache, watcher, ch, loop, budget>>

\* The context of the settlement expires at its barrier or between two probes.
Expire(s) ==
  /\ settler[s].pc \in {"barrier", "wait"} /\ Can("timeout") /\ Spend("timeout")
  /\ settler' = Goto(s, "finalize")
  /\ UNCHANGED <<task, disk, integrity, file, cache, watcher, ch, loop>>

\* finalizeStoppedSettlementReceipt, target by target: the receipt is read,
\* then advanced and removed, each against the revision that was read.
ReadReceipt(s) ==
  /\ settler[s].pc = "finalize"
  /\ settler' = [settler EXCEPT ![s].pc = "commit", ![s].held = task[Head(settler[s].targets)].rec]
  /\ UNCHANGED <<task, disk, integrity, file, cache, watcher, ch, loop, budget>>

NextTarget(s) ==
  LET x    == settler[s]
      next == [x EXCEPT !.pc = "finalize", !.targets = Tail(x.targets), !.held = NoReceipt]
  IN  [settler EXCEPT ![s] = IF Len(x.targets) = 1 THEN Idle ELSE next]

Failing(s) == settler[s].res[Head(settler[s].targets)] \in {"process_alive", "listener_alive"}

Stopped(s) == settler[s].res[Head(settler[s].targets)] = "stopped"

FailReceipt(s, ok) ==
  /\ settler[s].pc = "commit" /\ Failing(s) /\ settler[s].held # NoReceipt
  /\ Write(ok)
  /\ LET t == Head(settler[s].targets)
         r == settler[s].held
     IN  Become(Arm(IF r.phase = "failed" THEN World ELSE Advance(World, t, r, "failed", ok), t))
  /\ settler' = NextTarget(s)
  /\ UNCHANGED <<integrity, file, cache, watcher, loop>>

\* Nothing to commit: no receipt, an unfinished observation, or no recorded exit.
LeaveReceipt(s) ==
  /\ settler[s].pc = "commit"
  /\ \/ settler[s].held = NoReceipt
     \/ ~Failing(s) /\ ~Stopped(s)
     \/ Stopped(s) /\ settler[s].held.phase \notin {"exit_observed", "port_released"}
  /\ settler' = NextTarget(s)
  /\ UNCHANGED <<task, disk, integrity, file, cache, watcher, ch, loop, budget>>

ReleasePort(s, ok) ==
  /\ settler[s].pc = "commit" /\ Stopped(s) /\ settler[s].held.phase = "exit_observed"
  /\ Write(ok)
  /\ LET t == Head(settler[s].targets)
         r == settler[s].held
         released == ok /\ Accepts(World, t, r, "port_released")
         raced == task[t].rec # NoReceipt /\ task[t].rec.phase = "port_released"
     IN  /\ Become(IF released THEN Advance(World, t, r, "port_released", ok)
                   ELSE IF raced \/ task[t].rec = NoReceipt THEN World ELSE Arm(World, t))
         /\ settler' = IF released THEN [settler EXCEPT ![s].held = NextReceipt(r, "port_released")]
                       ELSE IF raced THEN [settler EXCEPT ![s].held = task[t].rec]
                       ELSE NextTarget(s)
  /\ UNCHANGED <<integrity, file, cache, watcher, loop>>

RemoveReceipt(s, ok) ==
  /\ settler[s].pc = "commit" /\ Stopped(s) /\ settler[s].held.phase = "port_released"
  /\ Write(ok)
  /\ LET t == Head(settler[s].targets)
     IN  Become(IF ok /\ SameRevision(World, t, settler[s].held) THEN Put(World, t, NoReceipt)
                ELSE IF task[t].rec = NoReceipt THEN World ELSE Arm(World, t))
  /\ settler' = NextTarget(s)
  /\ UNCHANGED <<integrity, file, cache, watcher, loop>>

----------------------------------------------------------------------------
\* The operator

\* The stop intent is written first, then the batch is posted.
RequestStop(s) ==
  /\ Free(s) /\ Can("stop") /\ Spend("stop")
  /\ file' = [gen |-> file.gen + 1, stopped |-> file.stopped \cup Range(budget.targets)]
  /\ settler' = [settler EXCEPT ![s] =
       [Idle EXCEPT !.pc = "post", !.targets = budget.targets, !.snap = file']]
  /\ UNCHANGED <<task, disk, integrity, cache, ch, loop, watcher>>

PostBatch(s) ==
  /\ settler[s].pc = "post"
  /\ ch' = Append(ch, [kind |-> "batch", slot |-> s, targets |-> settler[s].targets, snap |-> settler[s].snap])
  /\ settler' = [settler EXCEPT ![s].pc = "reply", ![s].snap = NoCommand]
  /\ UNCHANGED <<task, disk, integrity, file, cache, watcher, loop, budget>>

\* postStopBatchAndSettle gives up waiting for the loop's reply.
AbandonStop(s) ==
  /\ settler[s].pc = "reply" /\ Can("timeout") /\ Spend("timeout")
  /\ settler' = [settler EXCEPT ![s] = Idle]
  /\ UNCHANGED <<task, disk, integrity, file, cache, watcher, ch, loop>>

RequestStart(t) ==
  /\ Can("start") /\ Spend("start") /\ t \in file.stopped
  /\ file' = [gen |-> file.gen + 1, stopped |-> file.stopped \ {t}]
  /\ UNCHANGED <<task, disk, integrity, cache, ch, loop, settler, watcher>>

\* Nothing is under way.
AtRest ==
  /\ ch = <<>> /\ loop = Ready /\ watcher.read = NoCommand
  /\ \A s \in Slots : settler[s].pc = "idle"
  /\ \A t \in Tasks : /\ task[t].armed # "timer" /\ task[t].child \in {"none", "alive"}
                      /\ task[t].listening => task[t].child = "alive"

\* What recurs without end happens when nothing else does, or earlier at the cost
\* of its bound.
InTime(what, alone) == IF alone THEN UNCHANGED budget ELSE Can(what) /\ Spend(what)

\* The intent watcher reads a file that changed since it last looked ...
ReadIntent ==
  /\ watcher.read = NoCommand /\ file.gen # watcher.known.gen
  /\ InTime("watch", AtRest)
  /\ watcher' = [watcher EXCEPT !.read = file]
  /\ UNCHANGED <<task, disk, integrity, file, cache, ch, loop, settler>>

IntentUpdate(t) == [kind |-> "intent", task |-> t]

\* The orders in which a Go map may be ranged over.
Orders(S) == Bijection(1 .. Cardinality(S), S)

\* ... and posts what it read, then an update for each daemon that differs from
\* what it had read before.
PostIntent ==
  /\ watcher.read # NoCommand
  /\ \E delta \in Orders({t \in Tasks : Desired(watcher.read, t) # Desired(watcher.known, t)}) :
       ch' = ch \o <<[kind |-> "scan", snap |-> watcher.read]>>
                \o [i \in DOMAIN delta |-> IntentUpdate(delta[i])]
  /\ watcher' = [known |-> watcher.read, read |-> NoCommand]
  /\ UNCHANGED <<task, disk, integrity, file, cache, loop, settler, budget>>

Recover(t) == [kind |-> "recover", task |-> t]

Unarmed == {t \in Tasks : task[t].rec # NoReceipt /\ task[t].armed = "no"}

\* The operator's respawn of any daemon first triggers every pending recovery; one
\* that is not posted before the caller's context ends gives its token back.
TriggerRecovery(posted) ==
  /\ posted # {}
  /\ IF posted = Unarmed THEN InTime("retry", AtRest /\ watcher.known = file)
     ELSE Can("timeout") /\ Spend("timeout")
  /\ task' = [t \in Tasks |-> IF t \in posted THEN [task[t] EXCEPT !.armed = "queued"] ELSE task[t]]
  /\ \E order \in Orders(posted) : ch' = ch \o [i \in DOMAIN order |-> Recover(order[i])]
  /\ UNCHANGED <<disk, integrity, file, cache, watcher, loop, settler>>

\* The timer of a recovery, or the goroutine that posts the pending ones at startup.
RecoveryTimer(t) ==
  /\ task[t].armed = "timer"
  /\ Become([World EXCEPT !.task[t].armed = "queued", !.ch = Append(@, Recover(t))])
  /\ UNCHANGED <<integrity, file, cache, watcher, loop, settler, budget>>

----------------------------------------------------------------------------
\* The processes

Die(t) ==
  /\ task[t].child = "alive" /\ t \in Range(budget.targets) /\ Can("death") /\ Spend("death")
  /\ task' = [task EXCEPT ![t].child = IF task[t].own THEN "dead" ELSE "none"]
  /\ UNCHANGED <<disk, integrity, file, cache, watcher, ch, loop, settler>>

\* The wait goroutine clears the row in memory ...
MarkExit(t) ==
  /\ task[t].child = "dead"
  /\ task' = [task EXCEPT ![t].child = "marked", ![t].row = MarkExitedIfCurrent(@, @.gen)]
  /\ UNCHANGED <<disk, integrity, file, cache, watcher, ch, loop, settler, budget>>

\* ... then saves the tracker, which waits for an admission in progress, and
\* posts the exit.
PostExit(t) ==
  /\ task[t].child = "marked" /\ loop.pc # "install"
  /\ Become([PersistTo([World EXCEPT !.task[t].child = "none"]) EXCEPT
              !.ch = Append(@, Exit(t, task[t].row.gen))])
  /\ UNCHANGED <<integrity, file, cache, watcher, loop, settler, budget>>

\* The listener of a daemon goes away some time after its process.
ReleaseListener(t) ==
  /\ task[t].child # "alive" /\ task[t].listening
  /\ task' = [task EXCEPT ![t].listening = FALSE]
  /\ UNCHANGED <<disk, integrity, file, cache, watcher, ch, loop, settler, budget>>

Woken(t, alive) ==
  [Fresh EXCEPT !.sm = IF alive /\ disk.row[t].pid # 0 THEN "running" ELSE "idle",
                !.listed = alive /\ disk.row[t].pid # 0,
                !.row = IF alive /\ disk.row[t].pid # 0 THEN disk.row[t] ELSE MarkExited(disk.row[t]),
                !.child = IF alive THEN "alive" ELSE "none",
                !.listening = task[t].listening]

\* Mutant: the receipts are not read back.
HydrateForgets(t, alive) == Woken(t, alive)

\* The supervisor dies and a new one starts: children survive it or do not,
\* rows of dead children are cleared, and the receipts are read back.
Hydrated(t, alive) ==
  [Woken(t, alive) EXCEPT !.rec = disk.rec[t],
                          !.armed = IF disk.rec[t] = NoReceipt THEN "no" ELSE "timer"]

Restart(survivors) ==
  /\ Can("crash") /\ Spend("crash")
  /\ task' = [t \in Tasks |-> Hydrated(t, t \in survivors)]
  /\ disk' = [disk EXCEPT !.row = [t \in Tasks |-> task'[t].row]]
  /\ ch' = <<>>
  /\ cache' = file
  /\ watcher' = [known |-> file, read |-> NoCommand]
  /\ integrity' = FALSE
  /\ loop' = Ready
  /\ settler' = [s \in Slots |-> Idle]
  /\ UNCHANGED file

----------------------------------------------------------------------------
\* The system

Loop ==
  \/ \E ok \in BOOLEAN, clean \in BOOLEAN : HandleExit(clean, ok)
  \/ HandleReapScan
  \/ \E outcome \in Endings : HandleIntent(outcome)
  \/ HandleBarrier
  \/ RejectBatch
  \/ JoinBatch
  \/ \E ok \in BOOLEAN : BeginBatch(ok)
  \/ InstallMirror
  \/ \E outcome \in Outcomes, ok \in BOOLEAN : ApplyTarget(outcome, ok)
  \/ ReplyBatch
  \/ SkipRecovery
  \/ \E outcome \in Outcomes, ok \in BOOLEAN : HandleRecovery(outcome, ok)

Settle(s) ==
  \/ SnapshotPorts(s)
  \/ Look(s)
  \/ ReadReceipt(s)
  \/ \E ok \in BOOLEAN : FailReceipt(s, ok)
  \/ LeaveReceipt(s)
  \/ \E ok \in BOOLEAN : ReleasePort(s, ok)
  \/ \E ok \in BOOLEAN : RemoveReceipt(s, ok)
  \/ PostBatch(s)

Process(t) == MarkExit(t) \/ PostExit(t) \/ ReleaseListener(t)

Next ==
  \/ Loop
  \/ \E s \in Slots : Settle(s) \/ Expire(s) \/ AbandonStop(s)
  \/ \E s \in Callers : RequestStop(s)
  \/ \E t \in Tasks : Process(t) \/ Die(t) \/ TimerDue(t) \/ RequestStart(t) \/ RecoveryTimer(t)
  \/ \E posted \in SUBSET Unarmed : TriggerRecovery(posted)
  \/ ReadIntent
  \/ PostIntent
  \/ \E survivors \in SUBSET {t \in Tasks : task[t].child = "alive"} : Restart(survivors)

Spec == Init /\ [][Next]_vars

Background ==
  \/ \E t \in Tasks : Process(t) \/ RecoveryTimer(t)
  \/ ReadIntent
  \/ PostIntent
  \/ \E posted \in SUBSET Unarmed : TriggerRecovery(posted)

\* Every goroutine runs, the timers fire, a stopped daemon's listener closes, the
\* watcher polls, and an operator whose stop is unfinished retries.
FairSpec ==
  /\ Spec
  /\ WF_vars(Loop)
  /\ WF_vars(\E s \in Slots : Settle(s))
  /\ WF_vars(Background)

----------------------------------------------------------------------------
\* Properties

\* The state is well formed; a receipt says where it resumes only once it failed.
TypeOK ==
  /\ task \in [Tasks -> TaskRecords] /\ disk \in StateFiles /\ integrity \in BOOLEAN
  /\ file \in Commands /\ cache \in Commands /\ watcher \in [known : Commands, read : Commands]
  /\ ch \in Seq(Events) /\ loop \in Loops /\ settler \in [Slots -> Settlers]
  /\ budget \in Bounds

\* A daemon has one recovery under way at most: one is queued exactly when its
\* token says so (stopSettlementRecoveryArmed).
OneToken ==
  \A t \in Tasks :
    LET places == {i \in DOMAIN ch : ch[i] = Recover(t)}
    IN  IF task[t].armed = "queued" THEN \E i \in DOMAIN ch : places = {i} ELSE places = {}

\* Once a receipt is in the state file, no child of its daemon is created until
\* the receipt is removed (admitCreateProcess): the receipt names the latest one.
FenceHolds == \A t \in Tasks : disk.rec[t] # NoReceipt => task[t].row.gen = disk.rec[t].gen

\* The receipts in memory are those of the state file, except while an admission
\* is being installed or the tracker knows that it failed (IntegrityError).
MirrorIsDurable ==
  ~integrity /\ loop.pc # "install" => \A t \in Tasks : task[t].rec = disk.rec[t]

Commits(t) == disk.rec[t] # NoReceipt /\ disk'.rec[t] = NoReceipt

\* A receipt is removed from the state file only in its last phase and only when
\* the child it names is gone (commit-last, finalizeStoppedSettlementReceipt).
ExitBeforeCommit ==
  [][\A t \in Tasks : Commits(t) => disk.rec[t].phase = "port_released" /\ task[t].child # "alive"]_vars

\* "A terminal stopped observation commits a staged receipt only after both
\* evidence legs are present": a receipt is removed while the port is free.
PortFreeAtCommit == [][\A t \in Tasks : Commits(t) => ~task[t].listening]_vars

\* A failed receipt stands where it will resume.
Transaction == INSTANCE StopTransaction WITH
  stop <- [t \in Tasks |-> [phase |-> EffectivePhase(disk.rec[t]), child |-> disk.rec[t].gen]],
  current <- [t \in Tasks |-> task[t].row.gen]

\* The receipts of the state file are stop transactions: batches begin as a
\* whole, no phase is skipped or taken back by a failure, a retry, a stale
\* settlement or a crash, and nothing is spawned before the commit.
IsTransaction == Transaction!Spec

Given(t) == integrity \/ t \notin file.stopped

\* A stop whose child's exit is recorded is committed, unless the operator starts
\* the daemon again or the tracker lost track of the file: recovery retries until
\* the port is free (armStopSettlementRecovery).
ExitedSettles ==
  \A t \in Tasks :
    disk.rec[t] # NoReceipt /\ EffectivePhase(disk.rec[t]) # "stop_requested"
      ~> disk.rec[t] = NoReceipt \/ Given(t)

\* "Failed or incomplete rows deliberately retain their receipt for restart
\* recovery": every admitted stop is committed in the end.
EveryStopSettles ==
  \A t \in Tasks : disk.rec[t] # NoReceipt ~> disk.rec[t] = NoReceipt \/ Given(t)
============================================================================
