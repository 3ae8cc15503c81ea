----------------------- MODULE SupervisorController -----------------------
(***************************************************************************)
(* The supervisor's controller: one event-loop goroutine that owns every   *)
(* daemon's restart state, and the goroutines around it that observe and   *)
(* post events: the wait goroutine of each child, the backoff timers, the  *)
(* liveness sweep, the quarantine-parole ticker, the port-gate worker, the *)
(* intent watcher and the startup reconcile.                               *)
(*                                                                         *)
(* Everything the controller and the tracker hold about one daemon is the  *)
(* record task[t]; a handler is an operator from such a record to the set  *)
(* of its possible results, so that the failures of the operating system   *)
(* (spawn, terminate, persist) are a choice among results.                 *)
(*                                                                         *)
(* The set of daemons is fixed here: every intent snapshot lists them all. *)
(***************************************************************************)
EXTENDS Sequences, FiniteSets, SupervisorStateMachine, RuntimeTracker

CONSTANTS
  Tasks,      \* the daemons
  ChCap,      \* capacity of the loop's external channel (1024 in the code)
  SelfCap,    \* capacity of the loop's self channel (1024 in the code)
  Starts,     \* how a daemon may be found at startup
  FaultKinds, \* what the operating system may do wrong
  Budgets     \* how often the environment may act, per kind of input: one is chosen

Inputs == {"death", "fault", "restart", "unbound", "heal", "intent", "quiesce"}

AllFaults == {"path", "port", "prechild", "refused", "orphan", "unpersisted", "terminate"}

Wants == {"running", "stopped"}

ASSUME ControllerAssumptions ==
  /\ \A S \in SUBSET Tasks : Cardinality(S) \in Nat   \* there are finitely many daemons
  /\ ChCap \in Nat \ {0}
  /\ SelfCap \in Nat \ {0}
  /\ Starts \subseteq [warm : BOOLEAN, want : Wants]
  /\ FaultKinds \subseteq AllFaults
  /\ Budgets \subseteq [Inputs -> Nat]

VARIABLES
  task,      \* the controller's and the tracker's record of each daemon
  ch,        \* the loop's external channel
  selfq,     \* the loop's self channel, drained before ch
  starting,  \* what the startup reconcile still has to do for each daemon
  disk,      \* the intent recorded on disk
  prev,      \* the intent the watcher saw last (previousDaemonIntent)
  wq,        \* events the watcher still has to post
  graceful,  \* graceful-exit or quiesce in progress
  budget     \* inputs the environment has left

vars == <<task, ch, selfq, starting, disk, prev, wq, graceful, budget>>

(***************************************************************************)
(* A child process.  gen is the generation MarkSpawned gave it; waited     *)
(* says that this supervisor runs a wait goroutine for it (a child that    *)
(* survived a restart of the supervisor has none).  A waited child goes    *)
(* alive -> dead -> marked (its wait goroutine cleared the tracker row and *)
(* has yet to post the exit) and then leaves the set.                      *)
(***************************************************************************)
Children == [pid : Nat, gen : Nat, life : {"alive", "dead", "marked"},
             waited : BOOLEAN, clean : BOOLEAN]

\* The port-gate worker has no request, one to decide, or a restart to post.
GateStates == {"none", "asked", "restart"}

TaskRecords ==
  [smState : SMStates \cup {"none"},   \* smStates ("none": no entry)
   queued : QueuedActions,             \* queuedActions
   ownSpawned : BOOLEAN,               \* ownSpawned
   reaper : BOOLEAN,                   \* reaperOutstanding
   want : Wants,                       \* the cached intent
   parole : BOOLEAN,                   \* has a quarantineParole entry
   gateCleared : BOOLEAN,              \* gateCleared
   gate : GateStates,                  \* portGateInFlight and the worker's progress
   epoch : Nat,                        \* last respawnArmEpoch given out
   armGen : Nat,                       \* respawnArmGen (0: no entry)
   timers : SUBSET Nat,                \* epochs of the sleeping timers
   due : SUBSET Nat,                   \* timers that fired and are posting
   verdict : Nat,                      \* generation the sweep found dead
   unbound : BOOLEAN,                  \* the sweep found the live child's port lost
   row : TrackerRows,                  \* the tracker's row
   children : SUBSET Children,
   spawned : Nat]                      \* processes started so far

SMEvent(kind, t) == [kind |-> kind, task |-> t, gen |-> 0, clean |-> FALSE, req |-> FALSE]

ExitEvent(t, gen, clean) == [SMEvent("child-exit", t) EXCEPT !.gen = gen, !.clean = clean]

\* An automatic restart is flagged: dropped if the daemon is stopped.
AutoRestart(t) == [SMEvent("manual-restart", t) EXCEPT !.req = TRUE]

SMEventSet == [kind : SMEvents, task : Tasks, gen : Nat, clean : BOOLEAN, req : BOOLEAN]

ScanEvent(snap) == [kind |-> "reap-scan", snap |-> snap]

ParoleTick == [kind |-> "parole-tick"]

LoopEvents == SMEventSet \cup {ScanEvent(s) : s \in [Tasks -> Wants]} \cup {ParoleTick}

Alive(c) == {k \in c.children : k.life = "alive"}

PidAlive(c, pid) == \E k \in Alive(c) : k.pid = pid

\* A process ends: its wait goroutine, if there is one, will notice.
Exited(children, k, clean) ==
  (children \ {k}) \cup (IF k.waited THEN {[k EXCEPT !.life = "dead", !.clean = clean]} ELSE {})

---------------------------------------------------------------------------
(* Side effects.  A result is the new record, the events posted to the     *)
(* self channel and the number of faults it took.                          *)

Result(c, self) == [c |-> c, self |-> self, fault |-> 0]

Faulty(c, self) == [c |-> c, self |-> self, fault |-> 1]

Done(c) == Result(c, <<>>)

\* Mutant: the arming records the epoch before the increment.
ArmStaleEpoch(c) ==
  [c EXCEPT !.epoch = @ + 1, !.armGen = c.epoch, !.timers = @ \cup {c.epoch + 1}]

ArmRespawnBackoffTimer(c) ==
  [c EXCEPT !.epoch = @ + 1, !.armGen = c.epoch + 1, !.timers = @ \cup {c.epoch + 1}]

\* Mutant: one crash more than the threshold is let through.
BackoffPastThreshold(c) ==
  LET row == RecordCrash(c.row)
  IN  IF row.crashes > QuarantineThreshold
      THEN [c EXCEPT !.smState = "quarantined", !.parole = TRUE, !.row = MarkQuarantined(row)]
      ELSE ArmRespawnBackoffTimer([c EXCEPT !.row = MarkBackoff(row)])

\* A crash: quarantine at the threshold, else arm the backoff timer.
HandleBackoffWaiting(c) ==
  LET row == RecordCrash(c.row)
  IN  IF row.crashes >= QuarantineThreshold
      THEN [c EXCEPT !.smState = "quarantined", !.parole = TRUE, !.row = MarkQuarantined(row)]
      ELSE ArmRespawnBackoffTimer([c EXCEPT !.row = MarkBackoff(row)])

\* The spawn is put off without counting a crash.
HoldSpawnInBackoff(c) ==
  ArmRespawnBackoffTimer([c EXCEPT !.smState = "backoff", !.row = MarkBackoff(@)])

\* The process starts: MarkSpawned bumps the generation, the wait goroutine runs.
Started(c) ==
  LET row == MarkSpawned(c.row, c.spawned + 1)
  IN  [c EXCEPT !.row = row, !.spawned = @ + 1,
                !.children = @ \cup {[pid |-> row.pid, gen |-> row.gen, life |-> "alive",
                                      waited |-> TRUE, clean |-> FALSE]}]

\* The process started outside the Job and could not be killed again.
Orphaned(c) ==
  [c EXCEPT !.row = MarkSpawnFailed(@), !.spawned = @ + 1,
            !.children = @ \cup {[pid |-> c.spawned + 1, gen |-> 0, life |-> "alive",
                                  waited |-> FALSE, clean |-> FALSE]}]

SpawnOK(t, c) ==
  Result([Started(c) EXCEPT !.ownSpawned = TRUE, !.reaper = TRUE],
         <<SMEvent("health-ok", t)>>)

\* Mutant: a start that failed is reported twice.
SpawnFaultTwice(t, c, kind) ==
  Faulty([c EXCEPT !.gateCleared = FALSE, !.row = MarkSpawnFailed(@)],
         <<SMEvent("child-exit", t), SMEvent("child-exit", t)>>)

SpawnFault(t, c, kind) ==
  CASE kind = "path" -> Faulty(HoldSpawnInBackoff(c), <<>>)
    [] kind = "port" -> Faulty([HoldSpawnInBackoff(c) EXCEPT !.gate = IF @ = "none" THEN "asked" ELSE @], <<>>)
    [] kind = "prechild" ->
         Faulty([c EXCEPT !.gateCleared = FALSE, !.row = MarkSpawnFailed(@)],
                <<SMEvent("child-exit", t)>>)
    [] kind = "refused" ->
         Faulty([c EXCEPT !.gateCleared = FALSE, !.smState = "quarantined",
                          !.parole = FALSE, !.row = MarkQuarantined(@)], <<>>)
    [] kind = "orphan" -> Faulty([Orphaned(c) EXCEPT !.gateCleared = FALSE], <<>>)
    [] kind = "unpersisted" -> Faulty([Started(c) EXCEPT !.gateCleared = FALSE], <<>>)

\* The create-process side effect: path gate, port gate, spawn.
CreateProcessEffect(t, c, faults) ==
  {SpawnOK(t, [c EXCEPT !.gateCleared = FALSE])}
  \cup {SpawnFault(t, c, kind) :
          kind \in faults \ ({"terminate"} \cup IF c.gateCleared THEN {"port"} ELSE {})}

\* Mutant: nobody reports the exit of a child without a wait goroutine.
NeverSynthesized(t, c, gen) == <<>>

\* The exit of a child that has no wait goroutine is synthesized.
Synthesized(t, c, gen) ==
  IF c.ownSpawned \/ c.reaper THEN <<>> ELSE <<ExitEvent(t, gen, FALSE)>>

\* The terminate side effect, on the child the tracker row names.  A killed
\* child is seen dead and the row is cleared, unless it died by itself just
\* before; a fault leaves the child alone, or kills it without seeing it dead.
TerminateEffect(t, c, faults) ==
  LET gen  == c.row.gen
      gone == [c EXCEPT !.row = MarkExitedIfCurrent(@, gen)]
      kill(d, k) == [d EXCEPT !.children = Exited(@, k, FALSE)]
      failed == IF "terminate" \in faults THEN {Faulty(c, <<>>)} ELSE {}
  IN  IF c.row.pid = 0 THEN {Done(c)}
      ELSE IF ~PidAlive(c, c.row.pid) THEN {Result(gone, Synthesized(t, c, gen))} \cup failed
      ELSE failed \cup UNION {
             {Result(kill(gone, k), Synthesized(t, c, gen))}
             \cup (IF "terminate" \in faults
                   THEN {Faulty(kill(c, k), Synthesized(t, c, gen)), Faulty(kill(c, k), <<>>)}
                   ELSE {})
             : k \in {x \in Alive(c) : x.pid = c.row.pid}}

SideEffect(t, c, row, ev, faults) ==
  CASE row.to = "spawning" /\ row.create -> CreateProcessEffect(t, c, faults)
    [] row.to = "backoff" -> {Done(HandleBackoffWaiting(c))}
    [] row.to = "quarantined" ->
         {Done(IF ev.kind = "timer-due" THEN [c EXCEPT !.parole = TRUE] ELSE c)}
    [] row.to = "exiting" -> TerminateEffect(t, c, faults)
    [] OTHER -> {Done(c)}

---------------------------------------------------------------------------
(* handleLoopEvent                                                         *)

CurrentState(c) == IF c.smState = "none" THEN "idle" ELSE c.smState

SMContext(c, g) ==
  [desired |-> c.want, activeStop |-> c.want = "stopped", failures |-> c.row.crashes,
   queued |-> c.queued, graceful |-> g]

\* What the handler stores before it performs the side effect.
WriteBack(c, row) ==
  LET from == CurrentState(c)
  IN  [c EXCEPT
        !.smState = row.to,
        !.gateCleared = @ /\ row.to = "spawning",
        !.queued = IF from = "exiting" /\ row.to \in {"idle", "spawning"} THEN "none"
                   ELSE IF row.queued = "keep" THEN @ ELSE row.queued,
        !.row = LET r == IF row.resetFailures THEN ClearCrashes(@) ELSE @
                IN  IF row.to = "idle" /\ from # "idle" THEN MarkExited(r) ELSE r]

\* Mutant: an automatic restart is taken for an operator's.
RestartNeverRefused(c, ev) == FALSE

\* An automatic restart of a daemon that was stopped meanwhile.
RestartRefused(c, ev) == ev.kind = "manual-restart" /\ ev.req /\ c.want = "stopped"

\* Mutant: an exit is not checked against the current generation.
ExitNeverStale(c, ev) == FALSE

\* The exit of a child that a later spawn superseded.
StaleExit(c, ev) == ev.kind = "child-exit" /\ ev.gen > 0 /\ IsStale(c.row, ev.gen)

\* A clean exit of a running daemon is a deliberate shutdown.
DeliberateExit(c, ev) == ev.kind = "child-exit" /\ ev.clean /\ c.smState = "running"

\* The wait goroutine of the current child reported.
NoteExit(c, ev) == IF ev.kind = "child-exit" THEN [c EXCEPT !.reaper = FALSE] ELSE c

\* Mutant: a clean exit is taken for a shutdown before its generation is looked at.
HandleCleanExitFirst(c, ev, g, faults) ==
  IF RestartRefused(c, ev) THEN {Done([c EXCEPT !.gateCleared = FALSE])}
  ELSE IF DeliberateExit(c, ev) THEN {Done([NoteExit(c, ev) EXCEPT !.smState = "idle"])}
  ELSE IF StaleExit(c, ev) THEN {Done(c)}
  ELSE LET row == Transition(CurrentState(c), ev.kind, SMContext(c, g))
           d   == NoteExit(c, ev)
       IN  IF row.matched THEN SideEffect(ev.task, WriteBack(d, row), row, ev, faults)
           ELSE {Done(d)}

HandleLoopEvent(c, ev, g, faults) ==
  IF RestartRefused(c, ev) THEN {Done([c EXCEPT !.gateCleared = FALSE])}
  ELSE IF StaleExit(c, ev) THEN {Done(c)}
  ELSE IF DeliberateExit(c, ev) THEN {Done([NoteExit(c, ev) EXCEPT !.smState = "idle"])}
  ELSE LET row == Transition(CurrentState(c), ev.kind, SMContext(c, g))
           d   == NoteExit(c, ev)
       IN  IF row.matched THEN SideEffect(ev.task, WriteBack(d, row), row, ev, faults)
           ELSE {Done(d)}

---------------------------------------------------------------------------
(* The event loop.  PostSelf drops the event when the self channel is full. *)

PostSelf(q, s) == IF Len(q) + Len(s) <= SelfCap THEN q \o s ELSE q

Post(ev) == Len(ch) < ChCap /\ ch' = Append(ch, ev)

Spend(input) == budget[input] > 0 /\ budget' = [budget EXCEPT ![input] = @ - 1]

AllowedFaults == IF budget["fault"] > 0 THEN FaultKinds ELSE {}

Update(t, c) == task' = [task EXCEPT ![t] = c]

\* A state-machine event reaches its daemon; q is the self channel without it.
Dispatch(ev, q) ==
  \E r \in HandleLoopEvent(task[ev.task], ev, graceful, AllowedFaults) :
    /\ Update(ev.task, r.c)
    /\ selfq' = PostSelf(q, r.self)
    /\ budget' = [budget EXCEPT !["fault"] = @ - r.fault]

HandleSelf ==
  /\ selfq # <<>>
  /\ Dispatch(Head(selfq), Tail(selfq))
  /\ UNCHANGED <<ch, starting, disk, prev, wq, graceful>>

HandleEvent ==
  /\ selfq = <<>> /\ ch # <<>> /\ Head(ch).kind \in SMEvents
  /\ ch' = Tail(ch)
  /\ Dispatch(Head(ch), <<>>)
  /\ UNCHANGED <<starting, disk, prev, wq, graceful>>

\* The swap of the intent caches that applyReapSnapshot performs on the loop.
HandleReapScan ==
  /\ selfq = <<>> /\ ch # <<>> /\ Head(ch).kind = "reap-scan"
  /\ ch' = Tail(ch)
  /\ task' = [t \in Tasks |-> [task[t] EXCEPT !.want = Head(ch).snap[t]]]
  /\ UNCHANGED <<selfq, starting, disk, prev, wq, graceful, budget>>

\* The orders in which the members of a finite set can be listed.
Orders(S) == {s \in [1..Cardinality(S) -> S] : \A i, j \in 1..Cardinality(S) : s[i] = s[j] => i = j}

\* A quarantined daemon on parole whose intent is running may be retried;
\* a paroled daemon that ran long enough, or came to rest, leaves the ladder.
Paroled(c) == c.parole /\ c.smState = "quarantined" /\ c.want = "running"

HandleParoleTick ==
  /\ selfq = <<>> /\ ch # <<>> /\ Head(ch) = ParoleTick
  /\ ch' = Tail(ch)
  /\ IF graceful THEN UNCHANGED <<task, selfq>>
     ELSE \E cooled \in SUBSET {t \in Tasks : Paroled(task[t])},
             stable \in SUBSET {t \in Tasks : task[t].parole /\ task[t].smState = "running"} :
            /\ Cardinality(cooled) <= SelfCap
            /\ \E order \in Orders(cooled) :
                 selfq' = [i \in 1..Cardinality(cooled) |-> AutoRestart(order[i])]
            /\ task' = [t \in Tasks |->
                         [task[t] EXCEPT !.parole =
                            @ /\ t \notin stable /\ task[t].smState \notin {"none", "idle"}]]
  /\ UNCHANGED <<starting, disk, prev, wq, graceful, budget>>

---------------------------------------------------------------------------
(* The goroutines around the loop                                          *)

\* A child exits by itself (clean: status 0).
ChildDies(t) ==
  \E k \in Alive(task[t]), clean \in BOOLEAN :
    /\ Spend("death")
    /\ Update(t, [task[t] EXCEPT !.children = Exited(@, k, clean)])
    /\ UNCHANGED <<ch, selfq, starting, disk, prev, wq, graceful>>

\* cmd.Wait returned: the tracker row is cleared off the loop, unless a newer
\* child owns it, in which case the exit is dropped.
WaitMarksExit(t) ==
  \E k \in task[t].children :
    /\ k.life = "dead"
    /\ LET rest == task[t].children \ {k}
       IN  Update(t, [task[t] EXCEPT
             !.row = MarkExitedIfCurrent(@, k.gen),
             !.children = IF IsStale(task[t].row, k.gen) THEN rest
                          ELSE rest \cup {[k EXCEPT !.life = "marked"]}])
    /\ UNCHANGED <<ch, selfq, starting, disk, prev, wq, graceful, budget>>

\* The crash bridge posts the exit.
WaitPostsExit(t) ==
  \E k \in task[t].children :
    /\ k.life = "marked"
    /\ Post(ExitEvent(t, k.gen, k.clean))
    /\ Update(t, [task[t] EXCEPT !.children = @ \ {k}])
    /\ UNCHANGED <<selfq, starting, disk, prev, wq, graceful, budget>>

\* A backoff timer fires: it is dropped unless its daemon still waits in
\* backoff and no later timer was armed.
TimerFires(t) ==
  \E e \in task[t].timers :
    /\ LET c == [task[t] EXCEPT !.timers = @ \ {e}]
       IN  Update(t, IF c.smState \in {"none", "backoff"} /\ c.armGen = e
                     THEN [c EXCEPT !.due = @ \cup {e}] ELSE c)
    /\ UNCHANGED <<ch, selfq, starting, disk, prev, wq, graceful, budget>>

TimerPosts(t) ==
  \E e \in task[t].due :
    /\ Post(SMEvent("timer-due", t))
    /\ Update(t, [task[t] EXCEPT !.due = @ \ {e}])
    /\ UNCHANGED <<selfq, starting, disk, prev, wq, graceful, budget>>

\* The liveness sweep finds the pid of a running row dead.  (Bound: one such
\* verdict in flight for each child.)
SweepFindsDead(t) ==
  /\ task[t].verdict = 0 /\ ~task[t].unbound
  /\ task[t].row.state = "running" /\ task[t].row.pid > 0
  /\ ~PidAlive(task[t], task[t].row.pid)
  /\ \A i \in DOMAIN ch : ch[i] # ExitEvent(t, task[t].row.gen, FALSE)
  /\ Update(t, [task[t] EXCEPT !.verdict = task[t].row.gen])
  /\ UNCHANGED <<ch, selfq, starting, disk, prev, wq, graceful, budget>>

SweepPosts(t) ==
  /\ task[t].verdict > 0
  /\ Post(ExitEvent(t, task[t].verdict, FALSE))
  /\ Update(t, [task[t] EXCEPT !.verdict = 0])
  /\ UNCHANGED <<selfq, starting, disk, prev, wq, graceful, budget>>

\* The sweep finds that the live child of a running row lost its port, and
\* posts a restart.
SweepFindsUnbound(t) ==
  /\ Spend("unbound")
  /\ task[t].verdict = 0 /\ ~task[t].unbound
  /\ task[t].row.state = "running" /\ PidAlive(task[t], task[t].row.pid)
  /\ Update(t, [task[t] EXCEPT !.unbound = TRUE])
  /\ UNCHANGED <<ch, selfq, starting, disk, prev, wq, graceful>>

SweepRestarts(t) ==
  /\ task[t].unbound
  /\ Post(SMEvent("manual-restart", t))
  /\ Update(t, [task[t] EXCEPT !.unbound = FALSE])
  /\ UNCHANGED <<selfq, starting, disk, prev, wq, graceful, budget>>

\* The operator asks for a restart; refused while a spawn is under way, and
\* for a daemon believed to run or exit that has no pid.
HandleRespawn(t) ==
  /\ Spend("restart")
  /\ task[t].smState # "spawning"
  /\ task[t].smState \in {"running", "exiting"} => task[t].row.pid > 0
  /\ Post(SMEvent("manual-restart", t))
  /\ UNCHANGED <<task, selfq, starting, disk, prev, wq, graceful>>

\* The sweep reaped a forgotten child of a quarantined daemon.
SelfHeal(t) ==
  /\ Spend("heal")
  /\ task[t].row.state = "quarantine" /\ task[t].want = "running"
  /\ Post(AutoRestart(t))
  /\ UNCHANGED <<task, selfq, starting, disk, prev, wq, graceful>>

\* The port-gate worker: the squatter is gone or foreign (nothing to do), was
\* reaped, or cannot be verified (the gate is lifted for the next spawn).
PortGateDecides(t) ==
  /\ task[t].gate = "asked"
  /\ \E verdict \in {"drop", "reaped", "unverified"} :
       Update(t, [task[t] EXCEPT !.gate = IF verdict = "drop" THEN "none" ELSE "restart",
                                 !.gateCleared = @ \/ verdict = "unverified"])
  /\ UNCHANGED <<ch, selfq, starting, disk, prev, wq, graceful, budget>>

PortGatePosts(t) ==
  /\ task[t].gate = "restart"
  /\ Post(AutoRestart(t))
  /\ Update(t, [task[t] EXCEPT !.gate = "none"])
  /\ UNCHANGED <<selfq, starting, disk, prev, wq, graceful, budget>>

\* The parole ticker (TryPost; bound: one tick in flight).
ParoleTicks ==
  /\ \A i \in DOMAIN ch : ch[i] # ParoleTick
  /\ Post(ParoleTick)
  /\ UNCHANGED <<task, selfq, starting, disk, prev, wq, graceful, budget>>

\* The failure window slides past the oldest crash.
WindowSlides(t) ==
  /\ task[t].row.crashes > 0
  /\ Update(t, [task[t] EXCEPT !.row.crashes = @ - 1])
  /\ UNCHANGED <<ch, selfq, starting, disk, prev, wq, graceful, budget>>

\* The operator records an intent; the watcher notices, has the loop swap
\* the caches and posts an update for every daemon whose intent changed.
SetIntent(t) ==
  /\ Spend("intent")
  /\ \E w \in Wants \ {disk[t]} : disk' = [disk EXCEPT ![t] = w]
  /\ UNCHANGED <<task, ch, selfq, starting, prev, wq, graceful>>

\* Mutant: the updates are posted before the caches are swapped.
WatcherUpdatesFirst ==
  /\ wq = <<>> /\ disk # prev
  /\ \E order \in Orders({t \in Tasks : disk[t] # prev[t]}) :
       wq' = [i \in DOMAIN order |-> SMEvent("intent-update", order[i])] \o <<ScanEvent(disk)>>
  /\ prev' = disk
  /\ UNCHANGED <<task, ch, selfq, starting, disk, graceful, budget>>

WatcherReads ==
  /\ wq = <<>> /\ disk # prev
  /\ \E order \in Orders({t \in Tasks : disk[t] # prev[t]}) :
       wq' = <<ScanEvent(disk)>> \o [i \in DOMAIN order |-> SMEvent("intent-update", order[i])]
  /\ prev' = disk
  /\ UNCHANGED <<task, ch, selfq, starting, disk, graceful, budget>>

WatcherPosts ==
  /\ wq # <<>>
  /\ Post(Head(wq))
  /\ wq' = Tail(wq)
  /\ UNCHANGED <<task, selfq, starting, disk, prev, graceful, budget>>

\* The startup reconcile: a daemon that should run is started through the
\* loop; a stopped one that survived is terminated directly.
ReconcileStarts(t) ==
  /\ starting[t] = "start"
  /\ Post(SMEvent("start", t))
  /\ starting' = [starting EXCEPT ![t] = "done"]
  /\ UNCHANGED <<task, selfq, disk, prev, wq, graceful, budget>>

ReconcileTerminates(t) ==
  /\ starting[t] = "terminate"
  /\ \E r \in TerminateEffect(t, task[t], AllowedFaults) :
       /\ Update(t, r.c)
       /\ budget' = [budget EXCEPT !["fault"] = @ - r.fault]
  /\ starting' = [starting EXCEPT ![t] = "done"]
  /\ UNCHANGED <<ch, selfq, disk, prev, wq, graceful>>

\* The IPC quiesce window.
Quiesce ==
  /\ ~graceful /\ Spend("quiesce")
  /\ graceful' = TRUE
  /\ UNCHANGED <<task, ch, selfq, starting, disk, prev, wq>>

QuiesceEnds ==
  /\ graceful
  /\ graceful' = FALSE
  /\ UNCHANGED <<task, ch, selfq, starting, disk, prev, wq, budget>>

---------------------------------------------------------------------------
(* At startup a daemon is cold, or its child survived the last supervisor: *)
(* the tracker row is read from disk and the state machine starts running. *)

InitialTask(s) ==
  [smState |-> IF s.warm THEN "running" ELSE "none",
   queued |-> "none", ownSpawned |-> FALSE, reaper |-> FALSE, want |-> s.want,
   parole |-> FALSE, gateCleared |-> FALSE, gate |-> "none",
   epoch |-> 0, armGen |-> 0, timers |-> {}, due |-> {}, verdict |-> 0, unbound |-> FALSE,
   row |-> IF s.warm THEN MarkSpawned(Absent, 1) ELSE Absent,
   children |-> IF s.warm THEN {[pid |-> 1, gen |-> 1, life |-> "alive",
                                 waited |-> FALSE, clean |-> FALSE]} ELSE {},
   spawned |-> IF s.warm THEN 1 ELSE 0]

StartupAction(s) ==
  CASE s.want = "running" /\ ~s.warm -> "start"
    [] s.want = "stopped" /\ s.warm -> "terminate"
    [] OTHER -> "done"

Init ==
  /\ \E s \in [Tasks -> Starts] :
       /\ task = [t \in Tasks |-> InitialTask(s[t])]
       /\ starting = [t \in Tasks |-> StartupAction(s[t])]
       /\ disk = [t \in Tasks |-> s[t].want]
  /\ prev = disk
  /\ ch = <<>> /\ selfq = <<>> /\ wq = <<>>
  /\ graceful = FALSE
  /\ budget \in Budgets

Loop == HandleSelf \/ HandleEvent \/ HandleReapScan \/ HandleParoleTick

\* Steps that finish what was begun.
Internal(t) ==
  \/ WaitMarksExit(t) \/ WaitPostsExit(t) \/ TimerFires(t) \/ TimerPosts(t)
  \/ SweepFindsDead(t) \/ SweepPosts(t) \/ SweepRestarts(t)
  \/ PortGateDecides(t) \/ PortGatePosts(t)
  \/ ReconcileStarts(t) \/ ReconcileTerminates(t)

External(t) ==
  \/ ChildDies(t) \/ SweepFindsUnbound(t) \/ HandleRespawn(t) \/ SelfHeal(t)
  \/ SetIntent(t) \/ WindowSlides(t)

Next ==
  \/ Loop
  \/ WatcherReads \/ WatcherPosts \/ ParoleTicks \/ Quiesce \/ QuiesceEnds
  \/ \E t \in Tasks : Internal(t) \/ External(t)

Spec == Init /\ [][Next]_vars

(***************************************************************************)
(* The Go runtime schedules every goroutine and queues the senders blocked *)
(* on a full channel first come first served, hence strong fairness for    *)
(* the steps that post.  The sweep runs periodically; nothing is assumed   *)
(* of children, the operator and the file system.                          *)
(***************************************************************************)
Fairness ==
  /\ WF_vars(Loop) /\ WF_vars(QuiesceEnds)
  /\ WF_vars(WatcherReads) /\ SF_vars(WatcherPosts)
  /\ \A t \in Tasks :
       /\ WF_vars(WaitMarksExit(t)) /\ SF_vars(WaitPostsExit(t))
       /\ WF_vars(TimerFires(t)) /\ SF_vars(TimerPosts(t))
       /\ WF_vars(SweepFindsDead(t)) /\ SF_vars(SweepPosts(t))
       /\ SF_vars(SweepRestarts(t))
       /\ WF_vars(PortGateDecides(t)) /\ SF_vars(PortGatePosts(t))
       /\ SF_vars(ReconcileStarts(t)) /\ WF_vars(ReconcileTerminates(t))

FairSpec == Spec /\ Fairness

---------------------------------------------------------------------------
TypeOK ==
  /\ task \in [Tasks -> TaskRecords]
  /\ ch \in Seq(LoopEvents)
  /\ selfq \in Seq(SMEventSet)
  /\ starting \in [Tasks -> {"start", "terminate", "done"}]
  /\ disk \in [Tasks -> Wants]
  /\ prev \in [Tasks -> Wants]
  /\ wq \in Seq(LoopEvents)
  /\ graceful \in BOOLEAN
  /\ budget \in [Inputs -> Nat]

\* A child whose start was reported; a process that outlived a failed start
\* (an orphan) has generation 0.
Reported(c) == {k \in Alive(c) : k.gen > 0}

\* At most one reported child of a daemon is alive: a late exit, a superseded
\* timer or a restart that races a crash never starts a second one.
OneLiveChild ==
  \A t \in Tasks : \A j, k \in Reported(task[t]) : j = k

\* No lost child: a live child is the one the tracker row names, so every
\* later stop or restart can find it.
NoLostChild ==
  \A t \in Tasks : \A k \in Reported(task[t]) :
    task[t].row.pid = k.pid /\ task[t].row.gen = k.gen /\ task[t].row.state = "running"

\* A daemon at rest in the state machine has no live child.
AtRestNoChild ==
  \A t \in Tasks :
    task[t].smState \in {"none", "idle", "backoff", "quarantined"} => Reported(task[t]) = {}

\* The exit of the current child was observed and will reach the loop, or the
\* wait goroutine or the sweep has yet to observe it.
ExitUnderWay(t) ==
  LET c == task[t]
      current(ev) == ev.kind = "child-exit" /\ ev.task = t /\ ev.gen >= c.row.gen
  IN  \/ \E k \in c.children : k.life # "alive" /\ k.gen >= c.row.gen
      \/ c.row.state = "running" /\ c.row.pid > 0
      \/ c.verdict = c.row.gen /\ c.verdict > 0
      \/ \E i \in DOMAIN ch : current(ch[i])
      \/ \E i \in DOMAIN selfq : current(selfq[i])

\* A daemon the state machine believes to have a child either has one or is
\* about to learn of its exit: it can never be stuck waiting for an exit that
\* nobody will report.
NotStranded ==
  \A t \in Tasks :
    task[t].smState \in {"running", "exiting"} => Reported(task[t]) # {} \/ ExitUnderWay(t)

\* While an orphan lives the daemon stays in spawning, so that nothing is
\* started beside it (the note of the daemon-spawn-orphan-detected event).
OrphanHeld ==
  \A t \in Tasks : Alive(task[t]) # Reported(task[t]) => task[t].smState = "spawning"

\* At most one event per daemon waits in the self channel, so PostSelf cannot
\* find it full as long as it has room for one event per daemon.
OneSelfEvent ==
  \A i, j \in DOMAIN selfq : selfq[i].task = selfq[j].task => i = j

(***************************************************************************)
(* The inductive invariant.  Tracked: pids and generations identify the    *)
(* children, and a reported live child is the one of the tracker row, in a *)
(* state that expects a child.  Over(c, g): an exit of generation g, when  *)
(* it is attributed, finds no live child.  ExitsAreOver: that holds of     *)
(* every exit that is queued or about to be posted; only the self channel  *)
(* holds an exit without a generation.                                     *)
(***************************************************************************)
Live == {"spawning", "running", "exiting"}

Tracked(c) ==
  /\ \A k \in c.children :
       /\ 1 <= k.pid /\ k.pid <= c.spawned /\ k.gen <= c.row.gen
       /\ k.waited => k.gen > 0
       /\ k.life # "alive" => k.waited
  /\ \A j, k \in c.children : j.pid = k.pid \/ (j.gen = k.gen /\ j.gen > 0) => j = k
  /\ \A k \in Reported(c) :
       c.row.state = "running" /\ c.row.pid = k.pid /\ c.row.gen = k.gen /\ c.smState \in Live

Over(c, g) == g <= c.row.gen /\ (g = 0 \/ g = c.row.gen => Reported(c) = {})

ExitsAreOver ==
  /\ \A i \in DOMAIN ch :
       ch[i].kind = "child-exit" => ch[i].gen > 0 /\ Over(task[ch[i].task], ch[i].gen)
  /\ \A i \in DOMAIN selfq :
       selfq[i].kind = "child-exit" => Over(task[selfq[i].task], selfq[i].gen)
  /\ \A t \in Tasks : task[t].verdict > 0 => Over(task[t], task[t].verdict)
  /\ \A i \in DOMAIN wq : wq[i].kind # "child-exit"

\* The children, the tracker and the exits in flight agree (inductive).
Consistent ==
  /\ \A t \in Tasks : Tracked(task[t])
  /\ ExitsAreOver
  /\ OneSelfEvent

\* A process of daemon t is started by this step.
Spawns(t) == task'[t].spawned > task[t].spawned

\* The event the loop handles next.
NextEvent == IF selfq # <<>> THEN Head(selfq) ELSE Head(ch)

\* Nothing automatic starts a stopped daemon: neither the startup reconcile,
\* nor a timer armed before the stop, nor parole, self-heal or the port gate.
NoAutomaticSpawnWhenStopped ==
  [][\A t \in Tasks :
       Spawns(t) /\ (NextEvent.kind \in {"start", "timer-due"} \/ NextEvent.req)
       => task[t].want = "running"]_vars

\* The crash loop is broken: no process is started while the failures in the
\* window reach the threshold, unless the operator or parole reset them.
NoSpawnAtThreshold ==
  [][\A t \in Tasks : Spawns(t) => task'[t].row.crashes < QuarantineThreshold]_vars

\* A stop is final: once the recorded intent stays stopped, the daemon ends up
\* without a child, whatever restarts, crashes and timers were in flight.
StopHonoured ==
  \A t \in Tasks : <>[](disk[t] = "stopped") => <>[](Alive(task[t]) = {})

\* A start is not lost: a daemon the operator turns from stopped to running is
\* given a process, or waits in backoff or quarantine, unless it is stopped again.
StartHonoured ==
  \A t \in Tasks :
    (disk[t] = "running" /\ task[t].want = "stopped")
    ~> \/ disk[t] = "stopped"
       \/ Alive(task[t]) # {}
       \/ task[t].smState \in {"backoff", "quarantined"}

\* A daemon never stays between two states: every spawn, stop and backoff ends.
Settles ==
  \A t \in Tasks : <>[](task[t].smState \in {"none", "idle", "running", "quarantined"})
===========================================================================
