# mcp-local-hub: TLA+ models of its concurrent core

mcp-local-hub keeps MCP servers running on one machine and lets many clients
share them. This directory holds TLA+ models of its concurrent core, TLC
configurations that check them on small instances, and TLAPS proofs of the main
safety properties for every size. `PROJECT.json` lists the runs, the code lines
each definition models, the hazards and the theorems.

    tlc -workers 2 -config MCRestart.cfg MCController     # one run
    tlapm StdioHostProofs.tla                             # one proof module

## 1. The system

| part | code | state | operations |
|---|---|---|---|
| restart-policy state machine | `internal/api/supervisor_state_machine.go` | a state per daemon | a table from (state, event) to (state, side effect) |
| supervisor controller | `internal/cli/supervisor_controller.go`, `internal/api/supervisor_event_loop.go` | states, queued actions, timer epochs, parole entries, cached intent; two event channels | handle one event, run its side effect, post what follows |
| its goroutines | `internal/cli/supervise*.go` | one for each child and timer; sweep, parole ticker, port gate, intent watcher, startup reconcile | observe something, post an event |
| runtime tracker | `internal/cli/supervisor_runtime_tracker.go` | a row per daemon: pid, generation, state, crashes; stop receipts | mark spawned, exited, backoff, quarantined |
| stop batches, settlement | `internal/cli/supervise_stop_batch.go`, `supervise_target_settlement.go` | receipts in the state file and in memory | stop a set of daemons, settle, recover |
| stdio host | `internal/daemon/host.go`, `protocol_bridge.go` | pending map, reply channels, initialize cache, sessions, subscribers | HTTP handlers, stdout reader, exit watcher, Stop |
| workspace lazy proxy | `internal/daemon/lazy_proxy.go`, `inflight.go` | one backend, in-flight set, generations, document counts | materialize, forward, reap |
| strict mode | `internal/cli/strict_mode.go` | intent file, autostart shim, breadcrumb | enable, disable, recover |
| upgrade, supervisor lock | `internal/cli/install_upgrade.go`, `internal/api/supervisor_lock.go` | binaries; lock and owner sidecar | swap, roll back |
| serena registration, router | `internal/api/serena_*.go`, `internal/gui/serena_router_*.go` | registry and intent rows; sessions | register, repair; route, evict |
| GUI restart hand-off | `internal/gui/single_instance.go`, `gui_restart_protocol.go` | lease, reservation window | hand over, time out |
| everything else | clients, scheduler, IPC framing, logs, secrets, tools, front end | files and processes | one-shot or pure I/O |

How they meet. The operator writes an intent file; the watcher turns its
changes into events; the controller starts and terminates the daemons'
processes, and a stop goes through a batch of durable receipts. A daemon process
that serves a stdio MCP server is a stdio host, which owns the child server and
multiplexes HTTP clients onto it; one that serves a language server of a
workspace is a lazy proxy, which starts its backend on demand and reports its
readiness to the supervisor's tracker. Strict mode decides who starts the
supervisor at login. The controller learns of a process's end from three sources
that do not know of each other (the wait goroutine, the sweep, the outcome of a
terminate), and this is what makes it hard.

Hard behaviours, and what must be right about them:

* exits, timers, restarts and stops that cross each other: one live process per
  daemon, and the tracker knows it;
* an exit that is reported twice, late or by a source that is itself racing:
  a daemon neither waits for ever nor is started twice;
* crash loops: the quarantine breaks them and only a person or parole ends it;
* a stop against every automatic restart, and against a crash of the supervisor
  between any two of its writes: the stop wins, and is carried to its end;
* answers of a shared child in any order: each goes to its own client;
* the child's exit against its last answer, and against a descendant that keeps
  its pipes: the answer wins, and the exit is still reported;
* a backend that is started, used, found idle and torn down at once: no stray
  process, and no failure charged to its successor;
* two files that must agree, and a process that dies between their writes: the
  disagreement is always marked;
* tables at their caps: nothing leaks, nothing is evicted too early.

`PROJECT.json` lists every part (32, with the reason for those that are not
modelled) and 40 hazards, each at its line, with the properties that cover it or
a note.

## 2. Modules

| module | models |
|---|---|
| `SupervisorStateMachine` | `supervisor_state_machine.go`: `Transition` |
| `RuntimeTracker` | the row of `supervisor_runtime_tracker.go` and the operations on it |
| `SupervisorController` | controller, event loop and goroutines; composes the two above |
| `MCController` | instances of the controller |
| `SupervisorControllerProofs`, `SupervisorReportProofs` | proofs, in this order: the state machine's table and the controller; the way of an exit report |
| `StopTransaction` | what a durable stop promises (abstract) |
| `StopSettlement` | stop batches, receipts, settlement and recovery; composes the state machine and the tracker row |
| `MCSettlement` | instances of the settlement |
| `StopLoopProofs`, `StopSettlementProofs` | proofs, in this order; the second has the theorems and the refinement |
| `StdioHost` | `host.go` and the initialize cache of `protocol_bridge.go` |
| `MCStdio` | instances of the host |
| `StdioHostProofs` | proofs: the tables (pending requests, event streams, sessions); the way of an answer, Stop and the drain |
| `InflightGate` | `inflight.go`: at most one flight, retry gap after a failure |
| `LazyReadiness` | the readiness publisher of `lazy_proxy.go`, its mailbox, and the supervisor's row for it |
| `LazyProxy` | `lazy_proxy.go`; composes the two above |
| `MCLazy` | instances of the proxy |
| `LazyStepProofs`, `LazyProxyProofs` | proofs, in this order: the invariant with the steps of requests, teardowns, the ticker and of flights up to the handshake; the other steps and the theorems |
| `StrictMode` | `strict_mode.go` and what Enable and Disable of the autostart backends leave behind |
| `MCStrict` | instances of strict mode |
| `StrictModeProofs` | proofs |

`SupervisorController` and `StopSettlement` are two views of one program: the
first has every source of events and no receipts, the second has the receipts,
the state file and crashes of the supervisor, and only the events that meet them.
They share the state machine and the tracker row. The other families do not
share state with them: a supervised daemon is one process to the controller,
whatever it runs; what the lazy proxy and the supervisor exchange (readiness
commits) is in `LazyReadiness`.

An input the environment may give is bounded by a budget. A configuration names
a set of budgets, and an execution starts with any of them: each is one scenario,
what may go wrong together. This keeps several faults within one run without
their product.

## 3. The supervisor

### State and actions

`Transition(state, event, ctx)` is the table of the state machine, one operator
for each state it leaves. The code's side-effect string is kept as the parts the
controller looks for in it (create a process, reset the failures, what to queue).

`task[t]` is one record with everything the controller and the tracker hold of
daemon `t`; its fields carry the names of the code's maps. A child is a record
`[pid, gen, life, waited, clean]`: `gen` is the generation `MarkSpawned` gave
it, `waited` says that this supervisor runs a wait goroutine for it (a child that
survived a restart of the supervisor has none), and `life` goes from alive to
dead to marked (the wait goroutine has cleared the row and not yet posted the
exit). Pids are the number of the spawn, so they are never reused.

| action | code |
|---|---|
| `HandleSelf`, `HandleEvent` | one turn of the loop: the self channel first, then the external one; `handleLoopEvent` with its drops (automatic restart of a stopped daemon, stale exit), the write-back and the side effect, as one step, because the loop is one goroutine |
| `HandleReapScan` | the swap of the intent caches in `applyReapSnapshot` |
| `HandleParoleTick` | the loop's part of quarantine parole |
| `WaitMarksExit`, `WaitPostsExit` | the wait goroutine: tracker first, then the event |
| `TimerFires`, `TimerPosts` | the backoff timer: the epoch check when it fires, then the event |
| `SweepFindsDead`, `SweepPosts`, `SweepFindsUnbound`, `SweepRestarts` | the liveness sweep: a verdict, then the event |
| `PortGateDecides`, `PortGatePosts` | the port-gate worker |
| `WatcherReads`, `WatcherPosts` | the intent watcher: one snapshot, then one update for each changed daemon |
| `ReconcileStarts`, `ReconcileTerminates` | the startup reconcile |
| `HandleRespawn`, `SelfHeal`, `ParoleTicks`, `Quiesce`, `QuiesceEnds`, `SetIntent` | the other producers: operator restart, self-heal, ticker, IPC quiesce, intent file |
| `ChildDies`, `WindowSlides` | the environment: a process exits, the crash window slides |

A handler is an operator from a record to the SET of its results, so what the
operating system does is a choice among results. `SpawnFault` has the six ways
in which a spawn is held or fails (path gate, port gate, failure before a child
exists, refused, orphan left behind, started but not persisted), and
`TerminateEffect` the ways a terminate ends (killed and seen dead, already dead,
killed and not seen dead, failed).

Everything between a goroutine's observation and its post is two actions, so
that anything may happen in between. `HandleRespawn` and `SelfHeal` check and
post in one step; all they check is whether to post, and the loop decides again.

### Runs

One daemon; the proofs are for any number. Channel capacity 1 or 2 (1024 in the
code), so that a full channel with posters blocked behind it is among the states.
The budgets bound the environment's inputs; timers, exits, sweeps and gates are
not bounded by them.

| run | inputs and faults | properties | shows |
|---|---|---|---|
| `restart` | 1 fault (spawn or terminate) and 1 restart, with 2 deaths and 1 intent change or with 1 death and 1 lost port | `OneLiveChild`, `NotStranded`, `Consistent` | no crossing of exits, restarts, sweeps and a stop gives two live children or a daemon that waits for an exit nobody reports; the inductive invariant of the proofs |
| `recovery` | any start, also a stopped survivor; 1 death, 2 faults (gates, early failure, terminate), self-heal, quiesce, 1 intent change; threshold 1 | `AtRestNoChild`, `NoLostChild`, `NoSpawnAtThreshold`, `NoAutomaticSpawnWhenStopped` | gates, quarantine and parole never start a stopped daemon nor a crash-looping one, and a live child is always the one of the tracker row |
| `stop` | 1 death, 1 fault, 2 intent changes; `FairSpec` | `StopHonoured`, `StartHonoured`, `Settles` | a stop and a start take effect in the end, and no daemon stays between two states |

The smallest history that breaks each property is a crash and one more event
that crosses it; two deaths, one fault and one command allow a crossing to be
followed by another one. `restart` has room for two events in the self channel,
so that `OneSelfEvent`, a conjunct of `Consistent`, is not a consequence of its size. Each property also has
a mutant, a plausible slip in one definition (no generation check, a timer's
epoch read before the increment, a threshold off by one, updates posted before
the cache swap), that TLC refutes on the same instance.

### Fairness

`FairSpec` assumes weak fairness of the loop and of steps that only need the
scheduler, and strong fairness of the steps that post: a goroutine blocked on a
full Go channel is queued first come first served, so it is not overtaken for
ever. The sweep is periodic and a timer fires. Nothing is assumed of processes
(they may never exit), of the operator, of self-heal or of parole.

### Where code and comments disagree

The run `unbound` checks a sentence of the repository (quoted in `PROJECT.json`)
and ends in a counterexample: the sweep's restart after a lost port is not flagged
as automatic; if it reaches the loop while a stop is under way, the stopped daemon
is started again and stays up.

More were met and have no run of their own; TLC finds each on the instance given.

| property | instance | what happens |
|---|---|---|
| `OrphanHeld` | `restart` | A failed start that leaves a process behind keeps the generation of the previous child. A second exit report of that child is therefore not stale, and moves the daemon out of the spawning state that was to hold it beside the orphan. |
| `NotStranded` | `restart` with `Starts <- AnyStart` | A stopped daemon that survived the last supervisor is hydrated as running and then terminated without an event: its state stays running, with no exit to come. |
| `StartHonoured` | `stop` with a `quiesce` budget of 1 | A start that arrives while a quiesce window is open is suppressed, and nothing repeats it when the window closes. |

And an arming's epoch is compared when the timer fires, but the event does not
carry it, so an event already in the channel can serve a later arming, early.

The passing runs stay inside what the code promises: `stop` leaves out the lost
port and the quiesce window, and `restart`, which checks `NotStranded`, starts
without a stopped survivor. Of the theorems only `NotStrandedHolds` leaves out an
input, the stopped survivor; the others hold with all of these inputs, since the
orphan is not a reported child and the stranded daemon has none.

## 4. The durable stop

### State and actions

A stop is a batch: one receipt for each daemon, written to
`supervisor-state.json` before anything is terminated and mirrored in memory. A
receipt names the child (`gen`) and goes through `stop_requested`,
`exit_observed` and `port_released` until it is removed, which is the commit; a
failure is recorded in it together with the phase it will resume in. While a
daemon has one, no child of it is created. `task[t]` holds the controller's and
the tracker's view and the process; `disk` is the state file; `ch` the event
channel; `loop` says where the loop is inside a batch; `settler` has one
settlement goroutine for each caller and for each daemon's recovery.

| action | code |
|---|---|
| `RequestStop`, `PostBatch`, `AbandonStop`, `RequestStart` | the operator: intent file first, then the batch; the caller may give up |
| `RejectBatch`, `JoinBatch`, `BeginBatch`, `InstallMirror`, `ApplyTarget`, `ReplyBatch` | the loop's admission: preflight, join of an identical batch, durable write, mirror, termination target by target, reply |
| `HandleExit`, `HandleIntent`, `HandleReapScan`, `TimerDue`, `HandleBarrier` | the loop's other events |
| `SkipRecovery`, `HandleRecovery` | `recoverStopReceiptOnLoop` |
| `SnapshotPorts`, `Look`, `Expire`, `ReadReceipt`, `FailReceipt`, `LeaveReceipt`, `ReleasePort`, `RemoveReceipt` | the settlement goroutine: port owners, tracker, deadline, then `finalizeStoppedSettlementReceipt` for each target |
| `ReadIntent`, `PostIntent`, `TriggerRecovery`, `RecoveryTimer` | watcher; operator's respawn, which posts the pending recoveries until its context ends; recovery timer, or the goroutine that posts a restart's recoveries |
| `Die`, `MarkExit`, `PostExit`, `ReleaseListener` | the child, its wait goroutine and its listener |
| `Restart` | the supervisor dies at any moment and another one hydrates; children survive it or not |

A handler builds a world (daemons, state file, channel) out of operators, each of
which is one function of the code; a write of the state file may fail, and a
terminate may be late, refused, unsaved, or raced by a child that exits by itself
before it is signalled. The batch reports such a failure; the intent update that
terminates a child ignores it, as `handleLoopEvent` does. A daemon that was in the
startup snapshot (`listed`) and has no pid in its row any more is looked up by the
snapshot's pid, found dead and reported as gone; any other one without a pid is an
error. `BeginStopSettlementBatch` is two
steps because the tracker's lock is not held over the write; each step of a
settlement compares the revision of the receipt it read.

`StopTransaction` is the promise: batches begin as a whole, phases go forward one
by one, nothing is taken back, no child is spawned before the commit, and a crash
changes nothing. Under the mapping of `Transaction`, a failed receipt stands where
it will resume, and the latest child is the generation of the tracker row.

### Runs

`settlement` (`FairSpec`) has eleven scenarios of one or two daemons: repeated
stops and a start with a timeout, a fault, a retry, or a death and a crash; one stop
with a death, a fault and a crash of the supervisor, with a start and a death, and
with a fault seen by the watcher; a batch of two with a fault, with a timeout, and
with a death and a crash. It checks

* `TypeOK`, `OneToken`: a daemon has at most one recovery under way;
* `FenceHolds`, `MirrorIsDurable`: no child while a receipt is pending; memory and
  file agree unless the tracker knows that they do not;
* `ExitBeforeCommit`: a receipt is removed only in its last phase, with its child
  gone;
* `IsTransaction`: the refinement of `StopTransaction`;
* `ExitedSettles`: a stop whose exit is recorded is committed in the end, unless
  the operator starts the daemon again.

One fault with one crash already reaches every pair of writes, since each scenario
lets them fall anywhere. Two daemons matter to the batch (one target applied, the
next not) and to a settlement that waits for both; the proofs have any number.

Fairness: the loop, the settlement goroutines and the processes' goroutines run;
timers fire; a stopped daemon's listener closes; the watcher polls; and an operator
who sees an unfinished stop retries. The last two recur for ever; they are free
when nothing else is under way and cost a budget otherwise, which keeps the state
space finite without forbidding either.

### Where code and comments disagree

The run `stranded` refutes `EveryStopSettles`. A receipt in `stop_requested` is
recovered only while the tracker row names the live child. If the child exits and
the supervisor dies before that exit is recorded, the next supervisor clears the
row, and every recovery is refused from then on: the receipt stays, and with it
the fence. `ExitedSettles` is what does hold.

| property | instance | what happens |
|---|---|---|
| `PortFreeAtCommit` | `StalePort` of `MCSettlement`, `Spec` | A settlement looks at the port once and commits later, against the receipt it then finds. Between the two the daemon is started and stopped again, so the receipt it commits belongs to a second stop, whose listener is still bound. |

Also met while modelling: `applyAuthoritativeStopTransition` does not act on the
row's "clear queued_action", so a queued respawn survives a stop; a spawn that the
fence denies leaves the state machine in `spawning`; and a settlement that times
out with an incomplete observation arms no recovery.

## 5. The stdio host

### State and actions

A handler is a request with a program counter; a payload is the request it
answers, so "whose answer is this" can be asked of a line. Ids, the pending map,
the reply channel of capacity one and the session sequence are the code's.

| action | code |
|---|---|
| `Receive` | `HTTPHandler` up to the point where the child is needed: refusals, DELETE, the cached initialize answer |
| `Register`, `Write` | the id, the cap and the insert under `pendingMu`; `writeStdin` under `stdinMu` |
| `Peek`, `SelectReply`, `SelectDone`, `SelectExited`, `SelectCancel`, `SelectTimeout` | the two selects, one action per case; done and childExited look at the channel again |
| `Reply` | `writeStdioJSONResponse` with `createSession` under `h.mu` |
| `Subscribe`, `UndoSubscribe`, `Unsubscribe` | `handleSSE` with its counter |
| `Scan`, `Send`, `ReadEnd` | `readStdoutLoop`: the look-up under the lock, then the non-blocking send after it |
| `Reap`, `Drain`, `DrainTimeout` | the watcher: `Process.Wait`, the bounded drain, close of `childExited` |
| `Stop`, `Kill`, `StopReturn` | `Stop`, which holds `h.mu` to the end |
| `ChildReads`, `ChildAnswers`, `ChildSpeaks`, `ChildExits`, `DescendantExits` | the child and a descendant that inherited its pipes (external) |

The child answers in any order, twice, late or never, and sends requests and
notifications of its own. A write succeeds while any process holds the pipes.

### Runs

| run | instance | properties | shows |
|---|---|---|---|
| `mux` | 3 requests of every kind, caps of 2 pending requests, 2 sessions and 1 stream, answers repeated, one request of the child with id 1 | `OwnAnswer`, `PendingIsInFlight`, `SessionsKept`, `SubscribersCounted` | answers go to their own request; no entry of the pending map outlives its handler; the oldest session is evicted; the stream counter is exact |
| `exit` | 2 requests, each an initialize or a call, Stop, exit and a descendant at any moment; `FairSpec` | `FinalAnswerWins`, `NoSessionAfterStop`, `CacheIsInitialize`, `ExitReported`, `WrittenReturns` | an answer beats the exit; no session survives Stop; only a success is cached; an exit is reported whoever holds the pipes; what was written ends; Stop returns |

Three requests are needed for one to be refused at a cap of two while the others
are answered in the wrong order, and for the third session to evict the first.
A stdin pipe of one message makes writers block. Requests are interchangeable,
so `mux` uses symmetry; the run with liveness does not.

Fairness: each handler, the reader, the watcher and Stop run when they can, and
timers fire. A client that cancels, the child and the descendant are not assumed
to do anything; a stream ends only when Stop or the exit ends it.

### Where code and comments disagree

The run `method_blind` ends in a counterexample to a comment of the reader: the
look-up in the pending map comes before the look at the method, so a request of
the child's own with a pending id is handed to that client as its answer.

| property | instance | what happens |
|---|---|---|
| `EveryRequestReturns` | `exit` without faults, under `FairSpec` | A child that does not read its stdin blocks `writeStdin`, before the select that has the timeout. With a pipe of one message, the second request never returns. |
| `FinalAnswerWins` | `exit` with `"huge"` among its answers | A line over the scanner's 1 MB buffer ends the reader; answers behind it are lost, and the drain still counts as complete. |

And nothing is ever sent to an event stream, while
`docs/architecture-highlights.md` says that notifications are broadcast to them.

`WrittenReturns` therefore speaks of requests whose message was written, and
`FinalAnswerWins` holds of instances, and is proved, without over-long lines.

## 6. The lazy proxy

### State and actions

The goroutines are one handler for each request (`pc[r]`), the flights that
materialize a backend and outlive the request that began them, the ticker that
reaps, the readiness worker and the caller of Stop. A step is one critical section
of `p.mu`, of the gate, of the lifecycle's mutex or of the registry's file lock.
`px` holds the fields `p.mu` guards, `lc` the `BackendLifecycle`, `row` the
registry's lifecycle, `gate` the `InflightGate`, `rd` the publisher with its
one-place mailbox and the supervisor's row, `docs` the document count.

| actions | code |
|---|---|
| `Receive`, `ApplyDocRef`, `CheckClosed`, `LookUp`, `Snapshot` | a handler up to the need for a backend |
| `ReserveMaterializedSlot`, `InvalidateShadow`, `MarkStartingReserved`, `DoBounded`, `AwaitFlight`, `AbandonFlight`, `FlightFailed`, `AcquirePublished` | `ensureMaterialized` |
| `SendRequest`, `Respond`, `CutWait`, `LoseBackend`, `Classify`, `RollbackDocRef`, `MarkWarmedOnFirstSuccess`, `CheckReady`, `TellReady`, `EndBackendRequest` | the forward and its ways to end |
| `BeginFlight` … `EndFlight` | the flight: start, handshake, open a generation, post starting, wait for the acknowledgement, expose |
| `OnSendFailure`, `ResetDocRefs`, `TakeHost`, `StopHost`, `ForgetGate`, `StampFailed`, `PublishDown`, `EndTeardown` | the teardown, shared by requests and reapers |
| `ReapIdleBackend`, `ReapWedgedProbation`, `ReadOrphanRow`, `ReapOrphan` | the ticker |
| `TakeReadiness`, `SendReadiness`, `WatchExit`, `HaltReadiness`, `WorkerDone` | the readiness worker |
| `CallStop`, `CloseEndpoint` | Stop |

### Runs

| run | instance | properties | shows |
|---|---|---|---|
| `lazy` | 2 handlers, 2 flights, 3 backends; seven scenarios of two or three calls with one or two faults (exit, expired probation, client leaves, Stop, lost readiness replies, idle with a backend that cannot be stopped, failed start, refused slot) | `NoStrayBackend`, `ExposedIsAcked`, `ReadyIsWarm`, `GenNamesEndpoint`, `ActiveIsWarm` | every live process has somebody who stops it; clients see only what the supervisor acknowledged; a failure never evicts a newer backend; the row says active only of a backend that answered |
| `lazy_live` | 1 handler, 2 flights, 3 backends, calls, opens and closes; seven scenarios, with failed registry writes and with an exit while the replies of a commit are lost; `FairSpec` | `CountsAreThisEpochs`, `EveryRequestAnswered`, `StopKillsAll`, `DownIsReported` | every request is answered, Stop leaves nothing running, the supervisor learns that a generation is over, and a late rollback adds nothing to the new document map |

Two handlers and two flights are what an overtaken flight needs: one that
outlives its caller and one that the next caller starts. Three backends allow a
replacement to be replaced. Requests and flights are interchangeable, so `lazy`
uses symmetry. `ActiveIsWarm` is checked where registry writes succeed: a write
that fails leaves the old row until the next one.

Fairness: every goroutine that can run does; its waits end by a timer or by
another goroutine. A backend answers a notification it accepted, or its client
leaves. Nothing is assumed of clients, of the operator or of the machine.

### Where code and comments disagree

| property | instance | what happens |
|---|---|---|
| `CountIsBackendView` | `Budgets <- Opens`, `Kinds = {"open"}`, 2 requests, `Spec` | A first open waits for the flight and gives up; a second one is absorbed, because the count was one; the first takes back its own unit; the flight then publishes a backend that was told nothing while the count is one. |
| `NoOrphanStarting` | `Budgets <- EarlyExit`, `Kinds = {"call"}`, 2 requests, `Spec` | A flight outlives its caller and its backend exits before it is exposed. The next caller reserves its slot (row starting, marker armed) before the overtaken flight ends, which clears the marker; that caller's own flight is refused inside the retry gap. The row stays starting and the watchdog does not see it. |

Also met while modelling: the probation watchdog on a proxy that never
materialized posts a failure for a generation the supervisor never saw starting,
which is refused and ends the proxy; the failed stamps of a flight do not open a
new generation; and a second reap overwrites the generation that the first one
severed.

## 7. Strict mode

### State and actions

A command moves the policy in the intent file and the autostart shim together,
under two file locks that are modelled as one, and marks the change with a
breadcrumb. Every step is one read, write or call of the operating system.
`RunStrictMode`, `RunAutostartOwnerMode` and `RunStrictModeRecover` begin a command
(the breadcrumb is looked at before the locks), `AcquireLocks`, `Snapshot`, `Mark`,
`WriteIntent`, `Reread`, `Project`, `Enable`, `Revert`, `Reprobe`, `Tear`, `Clear`
and `Audit` are `runAutostartPolicyUnderLocks`, and `Choose` and `Reassert` the
branches of `--recover`. Each may fail, each at a cost of one fault, and `Crash`
ends a process anywhere. `DisableAutostart` takes no state-dir lock. What a failing
`Enable` leaves behind differs: Windows has deleted the task, Linux has rewritten
the unit, macOS has also booted the agent out.

### Run

`strict` (`FairSpec`) has two processes, two commands and two faults, on Windows
and on Linux.

* `DriftIsMarked`: commands that do not overlap never leave intent and shim in
  disagreement without a breadcrumb.
* `MarkedWhileMutating`: even when they overlap, the breadcrumb is there from the
  first write to the last.
* `AuditInOrder`: the audit log follows the changes.
* `CrumbCleared`: a breadcrumb is removed in the end.

One fault makes a command fail and a second one its rollback; two processes make
one command act on what the other left. Fairness: a running command goes on, and
an operator who sees the breadcrumb runs `--recover`, as the refusal tells them to.

### Where code and comments disagree

The header of `strict_mode.go` (31-32) says that "strict-mode never deletes the
breadcrumb / returns clean while the autostart shim might be torn or out of sync
with the intent".

| property | instance | what happens |
|---|---|---|
| `NeverUnmarkedDrift` | `OSes = {"linux"}`, two processes | The breadcrumb is looked at before the locks are taken, so a command that passed the look acts on, and then clears, what another one left torn. |
| `NeverUnmarkedDrift` | `OSes = {"darwin"}`, one process | A failed `Enable` has booted the agent out, and the probe does not see it: it reports every plist as enabled. The shim counts as unchanged and the breadcrumb goes. |
| `CrumbNamesIntent` | `OSes = {"windows"}` | When the revert fails, the torn breadcrumb pairs the new strict flag with the old owner mode, a policy the intent file never held. |

## 8. Proofs

All theorems hold for every value of the constants that satisfies the modules'
named assumptions (`ThresholdAssumption`, `ControllerAssumptions`,
`StdioAssumption`, `NoneAssumption`, `SettlementAssumptions`, `LazyAssumption`,
`StrictAssumption`): any finite set of daemons (stated as: the size of every set of
daemons is a natural number), any number of requests, flights, backends, callers
and commands, any capacities of at least one, any faults and
inputs. TLC evaluates the assumptions in every run. The strengthened invariants
that carry the arguments (`Consistent`, `ReportInv`, `RouteInv`, `FinalInv`, and the
lazy proxy's `Inv` and `RowInv`) were checked with TLC on the instances of the runs before they
were proved.

### The controller

| theorem | says |
|---|---|
| `TransitionType` | every row of the table is one the controller can act on |
| `TimerDueSpawnsOnlyFromBackoff` | timer-due creates a process only from backoff |
| `TypeCorrect`, `ConsistentHolds` | the two halves of `Inv` hold |
| `OneLiveChildHolds`, `NoLostChildHolds`, `AtRestNoChildHolds` | at most one reported child is alive, it is the one the row names, and there is none at rest |
| `OneSelfEventHolds` | the self channel never holds two events of one daemon |
| `NoSpawnAtThresholdHolds` | no step starts a process while the failures in the window are at the threshold |
| `NoAutomaticSpawnWhenStoppedHolds` | nothing automatic starts a daemon that is to be stopped |
| `NotStrandedHolds` | a daemon that is running or exiting has a live child, or its exit is yet to be reported, where no daemon that is to be stopped survived the last supervisor |

`OneLiveChild` is not inductive: nothing in it says why an exit that moves a
daemon to a state from which it is started again means that the child is gone.
The invariant is `Inv == TypeOK /\ Consistent`, and `Consistent` has three parts:

* `Tracked`: pids and generations identify the children, and a reported live
  child is the one of the tracker row, in a state that expects a child;
* `ExitsAreOver`: an exit that is queued, or that the sweep is about to post,
  belongs to a generation that is `Over`: superseded, or without a live child.
  Only the self channel holds an exit without a generation, and it is over too;
* `OneSelfEvent`: a daemon has at most one event in the self channel, so nothing
  of the same daemon comes between a side effect and the event it posts.

`Over` is stable under every step except a spawn, which makes a new generation
(so an old one is superseded) and happens only with no live child. The layers of
`SupervisorControllerProofs`: first one record (`CreateGood`, `TerminateGood`, and
`HandleGood` for a whole handler: each result keeps `Tracked` and posts at most one
event, whose exit is over); then the loop's four actions (`DispatchStep`), one
lemma for each remaining action, `NextInv` and the theorems. `PostSelf` may drop an
event when the self channel is full; `Inv` does not need that it never does, and
`ReportInv` below shows it.

The two action properties need a second invariant, `SpawnInv`: outside quarantine
the failures are below the threshold (`Below`; the crash that reaches it
quarantines, and only a row that resets the failures leaves quarantine), and an
event that is flagged as an automatic restart is a restart (`FlagIsRestart`), so
that the handler's look at the desired state is not passed by another event. One
lemma for each action shows that it keeps `SpawnInv` and spawns only as
`SpawnsRightly` says.

`NotStranded` follows an exit from place to place: the child ends, the wait
goroutine marks it, the bridge posts it, the loop takes it. `ReportInv` keeps it in
view:

* `Expects(t) => ExitUnderWay(t)`, also for a daemon in spawning whose health event
  waits in the self channel, since the handler of that event goes to running without
  a look at the child;
* `Watched`: where the loop relies on a wait goroutine (`ownSpawned` or
  `reaperOutstanding`), the child the row names has one that has not yet marked the
  exit. So the terminate side effect, which synthesizes an exit only for a child
  without one, leaves a dead child whose exit is coming, or posts it;
* the loop alone posts health events and nobody a graceful exit, and the self channel
  has room for the event a handler posts.

`HandleReports` is the heart: a handler that ends in running or exiting leaves the
exit `Seen` in the record, posts it (`Tells`), or awaited it before and has not
consumed it, because an exit of the current generation always leaves these states.
`NoStoppedSurvivor`, the hypothesis, is needed: section 3 has the counterexample.

### The stdio host

| theorem | says |
|---|---|
| `StdioTypeCorrect` | type correctness |
| `PendingIsInFlightHolds` | the pending map is the set of requests in flight, within the cap |
| `OwnAnswerHolds` | no client gets another client's answer |
| `CacheIsInitializeHolds` | only a successful initialize answer is cached |
| `NoSessionAfterStopHolds` | no session survives Stop |
| `FinalAnswerWinsHolds` | without over-long lines, a 502 after a complete drain means that the child had not answered |
| `SubscribersCountedHolds` | the count of event streams is exact, and within the cap |
| `SessionsKeptHolds` | the sessions are within the cap, and before Stop one is lost only by its own deletion or to as many newer ones |

`PendingInv` adds to the pending map's property that ids are given out once
(`IdInv`). `RouteInv` follows an answer on its way: a message in stdin or in the
child's hands carries the id of its request, so does an answer in stdout, and
what the reader and a channel hold is bound for the request it answers.
`FinalInv` says that, as long as the watcher has not given
up on the pipes, an answer to a waiting handler is in stdout, in the reader's
hands or in the channel, and that the reader ends only with nothing left to read:
so when `Drain` completes, every such answer is in its channel, and the handler
looks there before it answers 502.

The two theorems about caps count. `SubscriberInv` adds that the clients which
hold a unit are finitely many (there may be infinitely many clients, but each came
by a step); a subscriber takes its unit before it is compared with the cap, so it
is the difference between the units and the open streams that the two branches
keep. `KeptInv` adds that a handler has no status before it is done, without which
a recorded deletion could be overwritten. When a session is evicted, the oldest of
a full table, the others are all newer and at most `nextSessionSeq`: there are
`MaxSessions - 1` of them, so the numbers given out since are at least that many,
and the one just created is one more.

### The durable stop

| theorem | says |
|---|---|
| `TypeCorrect` | type correctness |
| `Fence` | while a receipt is in the state file its daemon gets no new child |
| `Mirror` | the receipts in memory are those of the file, unless an admission is being installed or the tracker knows that it failed |
| `Refinement` | `StopSettlement` implements `StopTransaction` |
| `OneTokenHolds` | a daemon whose recovery is queued has one token in the queue, and any other daemon none |
| `ExitBeforeCommitHolds` | a receipt is removed only in its last phase, with its child gone |

The invariant is `Inv == Core /\ Around`. `Core` speaks of the world: it is well
typed; a pending receipt names the latest child and the file knows that child
(`Fenced`), without which a restart could hydrate an older one; and the mirror is
the file's or is known not to be (`Mirrored`, which is weaker between the two
steps of an admission). `Around` types the rest and says that a settlement that is
at work has a target.

The argument has two layers. For each operator that builds a world (`PersistTo`,
`Take`, `Terminate`, `ApplyStop`, `Advance`, `Arm`, ...) a lemma says that it keeps a
world `Good` and what it does to the stops: nothing (`Still`), one phase
(`Moved`), a commit (`Removed`), a batch (`Begun`) or one spawn (`Spawned`). For
each action a lemma then says that it keeps `Inv` and is one of these `Steps`;
`StopLoopProofs` has the loop, `StopSettlementProofs` the settlement, the
operator, the processes and the restart. `Invariance` and the theorems follow,
and `StepsAreTransactions` turns each kind of step into an action of
`StopTransaction` or a stutter. The crash needs no case of its own in the abstract
specification: it is a stutter.

The last two theorems are about what `Inv` does not see: children and queued events.
`Soundness` proves `Sound(World)` beside `Inv`:

* `Living`: a child that is alive is the one of the row, in memory and on file, its
  daemon waits for its exit, and no queued exit is of its generation or of a child
  yet to come. Otherwise a stale exit could record a live child as gone;
* `Tokens`: the recovery of a daemon is in the queue if and only if its flag says so,
  and once;
* `Unexited`: while a child is alive no receipt on file is past `stop_requested`, so
  the receipt that a commit removes is that of a child that is gone.

Again there is a lemma for each operator on worlds (`TakeSound`, `ApplyStopSound`,
`ObservedSound`, ...) and one for each action.

### The lazy proxy

| theorem | says |
|---|---|
| `NoStrayBackendHolds` | every live backend is published or held by someone who will publish or kill it |
| `ExposedIsAckedHolds` | an endpoint that is visible is of a generation the supervisor acknowledged |
| `ReadyIsWarmHolds` | what the supervisor calls ready, and is current, has answered |
| `GenNamesEndpointHolds` | who reports the failure of the current generation means the published backend |
| `CountsAreThisEpochsHolds` | a rollback adds nothing to a document map begun anew |
| `ActiveIsWarmHolds` | where no registry write fails, an active row is that of a backend that answered, or a teardown or Stop is under way |

None of them is inductive, and they need each other. `Inv` has one part for each
resource, and each says which process may touch what:

* `GenInv`: a request bound to the current generation uses the published endpoint;
  a flight that has opened a generation and not exposed it is alone with it (no
  other flight, request or teardown has its number), and nothing is exposed under
  it. This is what the check of `Overtaken` rests on;
* `OwnInv`: `reaping` has one owner, and nothing is exposed while it is set. Without
  it two teardowns could interleave, and the second release what the first took;
* `MailInv`: every readiness key in the mailbox, in flight or at the supervisor is
  of a generation there was; it says ready only of a warm backend and down only of
  one that is gone (`KeyInv`); and from its post to its exposure a flight's own
  generation is in the mailbox, on its way, refused or acknowledged (`AckInv`).
  Only so does the acknowledgement a flight waited for still hold when it exposes;
* `LcInv`: the mutex of the lifecycle is the handshake's, and no host is registered
  under it;
* `DocInv`: the epoch of a notification that may still be rolled back tells whether
  the map it would change is its own.

Most steps touch one part. `CalmStep` says what a process leaves alone for the
others to survive, and the lemma of each action proves the part it changes.
`LazyStepProofs` has the invariant and the steps of requests, teardowns, the
ticker and of flights up to the handshake; `LazyProxyProofs` those of publications,
of the readiness worker and of Stop.

`RowInv` is for the registry row. Its key is `OwnerRow`: a teardown owns the current
generation until it ends, and while it runs the row says active only until it is
stamped failed, or to the end if it is the idle reaper's, which reconciles the row
in its last step. The hypothesis that no write fails (`budget["write"] = 0`) is
needed: a failed stamp leaves the old row.

### Strict mode

| theorem | says |
|---|---|
| `StrictTypeCorrect` | type correctness, and one command at a time past the locks |
| `DriftIsMarkedHolds` | on Windows and Linux, commands that do not overlap never leave unmarked drift |
| `MarkedWhileMutatingHolds` | the breadcrumb is there from the first write to the last, on every platform and also when commands overlap |
| `AuditInOrderHolds` | an audit row names the policy on disk |

`Own(p)` says what a command inside the locks knows of the files: nobody else
changes intent or breadcrumb there. `Quiet` speaks of executions without overlap:
`Alone(p)` says for each step which policy the shim has and which one a rollback
would restore, so that `Clear` is reached only in sync. On macOS it is false
(section 7), so the theorem excludes it; the other theorems do not.

### Only model-checked

* Liveness (`StopHonoured`, `StartHonoured`, `Settles`, `ExitReported`,
  `WrittenReturns`, `EveryRequestAnswered`, `StopKillsAll`, `DownIsReported`,
  `CrumbCleared`, `ExitedSettles`): the prover has no fairness reasoning here.

Every safety property that a passing run checks is a theorem, but for the hypotheses
named above (`NoStoppedSurvivor`, no over-long line, no failing registry write, no
macOS and no overlap of commands).

## 9. What the models leave out

Supervisor:

* The set of daemons is fixed. `HandleReapScan` only swaps the caches.
* The sweep's two-strike disown of a reused pid; pids are not reused here.
* The quarantine of legacy serena daemons without a runtime specification.
* The branch at `supervisor_controller.go` 3218-3228, which no call reaches, and
  the supervisor-restart event, which the table does not handle.
* Durations: a timer may fire at any time after it was armed, and the crash
  window may slide at any time, so no property speaks of seconds.

Durable stop:

* A spawn and its first good health check are one step (`CreateChild`): the fence
  and a child that starts. The gates before a spawn, its failures and quarantine are
  in `SupervisorController` only. The best-effort saves of the tracker row by a spawn
  and by the loop's handlers succeed; the writes of receipts may fail, and so may the
  terminate of a batch or of an intent update. The terminate that an exit or a timer
  leads to succeeds.
* `Advance` and `Put` write file and mirror in one step, under `persistMu`, which
  every writer of a receipt holds; a reader that sees the old mirror in between
  fails the comparison of revisions when it writes. `Look` reads the rows of all targets in one step.
* `RequestStop` writes the stops of all targets and reads them back in one step. A
  start written in between would make the admission refuse the batch
  (`supervise_stop_batch.go` 158-161). The recoveries posted at startup are posted:
  their context does not end first.
* Why a settlement failed; an error of the port snapshot; quarantined daemons; a
  descriptor or port that changes under a receipt; stops that belong to the reap of
  removed daemons.
* A batch has one epoch, not one for each target; the startup reconcile's own
  spawns; a second recovery of a daemon waits until the first has ended.

Stdio host:

* `StopObserved` and the Windows launch that keeps a process capability.
* Header, version and JSON checks are one nondeterministic refusal.
* The stderr scanner ends when nobody holds the pipes. Its log and the log's
  rotation are left out; the rewriting of payloads by the bridge is data.
* The window in which Stop's kill could hit a reused pid.

Lazy proxy:

* One document: the counts of two never meet.
* An endpoint is closed in the teardown step that ends its generation; the bounded
  wait of a ready publication and the context of `stopLifecycleBounded` do not
  expire. A backend that could not be stopped is `stuck` and stays so.
* A marker that was just armed is younger than the watchdog's threshold
  (`MarkerIsFresh`): requests are shorter than the probation.
* Synthetic answers, the SSE heartbeat, the debounced timestamp of the last call.
  Other proxies' registry rows are the refusal of a slot.

Strict mode:

* A breadcrumb that cannot be read or parsed; `autostart enable` on POSIX, which
  uses neither intent nor locks; a missing `systemctl`.
* The macOS plist write and bootout are one step. An operator who answers the
  prompt wrongly three times, or not at all, gives up.

## 10. Not modelled

* **Reap of removed daemons** (`supervisor_controller.go` 1474-2605) and **port
  reallocation** (`supervise_realloc.go`): both change the set of daemons or their
  descriptors, which `SupervisorController` and its proofs hold fixed. They need a
  controller over descriptors, with ports as data.
* **Upgrade transaction**: sequential calls on binaries and services; its rollback
  would be a module beside `StrictMode`.
* **Supervisor lock**: a file lock for the life of a process. Both supervisor models
  start from its result, one supervisor at a time.
* **Serena registration and repair, router sessions, daemon recovery and its audit
  lock**: each has state of its own and could be modelled; they are listed with
  their sources in `PROJECT.json`.
* **GUI restart hand-off**: its correctness is about wall-clock windows, which an
  untimed model would leave to chance.
* **HTTP host, hub endpoint, relay**: independent calls; what the HTTP host shares
  with the stdio host is the exit watcher modelled there.
* **Files, logs, IPC framing, process control, tray, client configuration, command
  line, GUI, secrets, bundled tools, release tooling**: pure I/O, text or one-shot
  commands. Process control appears through its outcomes.
