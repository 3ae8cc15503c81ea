-------------------- MODULE SupervisorControllerProofs --------------------
(***************************************************************************)
(* SupervisorController keeps its records well typed, never has two        *)
(* reported children of one daemon and starts a process only where it may, *)
(* for any number of daemons, any channel capacity, any threshold, any     *)
(* budget and every kind of fault.                                         *)
(*                                                                         *)
(* First what the handlers do to the record of one daemon: every result of *)
(* a side effect and of the event handler is a Good one (HandleGood).      *)
(* Then the inductive invariant, kept by the steps of the event loop and   *)
(* of the goroutines around it.  Last, what starts a process.              *)
(***************************************************************************)
EXTENDS SupervisorController, TLAPS

---------------------------------------------------------------------------
(* The transition table: what api.Transition returns, for every state, event and context. *)

\* Every row of the transition table is a state and a set of effects.
LEMMA RowShapes ==
  ASSUME NEW st \in SMStates
  PROVE  /\ GoTo(st) \in Rows /\ GoTo(st).matched /\ ~GoTo(st).create
         /\ Unmatched(st) \in Rows /\ ~Unmatched(st).matched /\ ~Unmatched(st).create
         /\ \A a \in QueuedActions :
              QueueAnd(st, a) \in Rows /\ QueueAnd(st, a).matched /\ ~QueueAnd(st, a).create
BY Zenon DEF GoTo, Unmatched, QueueAnd, Rows

\* The row that creates a process is well formed and leads to spawning.
LEMMA CreateShapes ==
  /\ CreateProcess \in Rows
  /\ CreateProcess.to = "spawning"
  /\ [CreateProcess EXCEPT !.resetFailures = TRUE] \in Rows
BY Zenon DEF CreateProcess, GoTo, Rows, SMStates

\* Every row of api.Transition is well formed: the controller can act on it.
THEOREM TransitionType ==
  ASSUME NEW st \in SMStates, NEW ev \in SMEvents, NEW ctx \in SMContexts
  PROVE  Transition(st, ev, ctx) \in Rows
<1> USE RowShapes, CreateShapes DEF QueuedActions, SMStates
<1>1. CASE st = "idle"
  BY <1>1 DEF Transition, FromIdle
<1>2. CASE st = "spawning"
  BY <1>2 DEF Transition, FromSpawning
<1>3. CASE st = "running"
  BY <1>3 DEF Transition, FromRunning
<1>4. CASE st = "exiting"
  BY <1>4 DEF Transition, FromExiting
<1>5. CASE st = "backoff"
  BY <1>5 DEF Transition, FromBackoff
<1>6. CASE st = "quarantined"
  BY <1>6 DEF Transition, FromQuarantined
<1> QED
  BY Zenon, <1>1, <1>2, <1>3, <1>4, <1>5, <1>6 DEF SMStates

\* The invariant stated above api.Transition: a timer-due event may create a
\* process only from the backoff state, so a stale timer is harmless elsewhere.
THEOREM TimerDueSpawnsOnlyFromBackoff ==
  ASSUME NEW st \in SMStates, NEW ctx \in SMContexts,
         Transition(st, "timer-due", ctx).create
  PROVE  st = "backoff"
<1> USE RowShapes DEF SMStates
<1> SUFFICES ASSUME st # "backoff" PROVE FALSE
  OBVIOUS
<1>1. CASE st = "idle"
  BY <1>1 DEF Transition, FromIdle
<1>2. CASE st = "spawning"
  BY <1>2 DEF Transition, FromSpawning
<1>3. CASE st = "running"
  BY <1>3 DEF Transition, FromRunning
<1>4. CASE st = "exiting"
  BY <1>4 DEF Transition, FromExiting
<1>6. CASE st = "quarantined"
  BY <1>6 DEF Transition, FromQuarantined
<1> QED
  BY <1>1, <1>2, <1>3, <1>4, <1>6

\* A row that starts a process leads to spawning.
LEMMA CreateSpawns ==
  ASSUME NEW st \in SMStates, NEW ev \in SMEvents, NEW ctx \in SMContexts,
         Transition(st, ev, ctx).create
  PROVE  Transition(st, ev, ctx).to = "spawning"
<1> USE RowShapes, CreateShapes DEF SMStates, QueuedActions
<1>1. CASE st = "idle"
  BY <1>1 DEF Transition, FromIdle
<1>2. CASE st = "spawning"
  BY <1>2 DEF Transition, FromSpawning
<1>3. CASE st = "running"
  BY <1>3 DEF Transition, FromRunning
<1>4. CASE st = "exiting"
  BY <1>4 DEF Transition, FromExiting
<1>5. CASE st = "backoff"
  BY <1>5 DEF Transition, FromBackoff
<1>6. CASE st = "quarantined"
  BY <1>6 DEF Transition, FromQuarantined, CreateProcess, GoTo
<1> QED
  BY Zenon, <1>1, <1>2, <1>3, <1>4, <1>5, <1>6

\* Only an exit takes a daemon out of the states that expect a child, or
\* starts a process from one of them.
LEMMA OnlyExitLeavesLive ==
  ASSUME NEW st \in Live, NEW ev \in SMEvents, NEW ctx \in SMContexts,
         ev # "child-exit"
  PROVE  /\ ~Transition(st, ev, ctx).create
         /\ Transition(st, ev, ctx).to \in Live
<1> USE RowShapes DEF SMStates, QueuedActions, Live
<1>a. \A s \in SMStates : /\ GoTo(s).to = s /\ Unmatched(s).to = s
                          /\ \A a \in QueuedActions : QueueAnd(s, a).to = s
  BY DEF GoTo, Unmatched, QueueAnd
<1>2. CASE st = "spawning"
  BY <1>2, <1>a DEF Transition, FromSpawning
<1>3. CASE st = "running"
  BY <1>3, <1>a DEF Transition, FromRunning
<1>4. CASE st = "exiting"
  BY <1>4, <1>a DEF Transition, FromExiting
<1> QED
  BY <1>2, <1>3, <1>4

---------------------------------------------------------------------------
(* Operations on a tracker row, and updates of a record. *)

\* The tracker operations return rows.
LEMMA RowOps ==
  ASSUME NEW r \in TrackerRows
  PROVE  /\ \A st \in TrackerStates : /\ Cleared(r, st) \in TrackerRows
                                      /\ Cleared(r, st).gen = r.gen
         /\ RecordCrash(r) \in TrackerRows /\ RecordCrash(r).gen = r.gen
         /\ RecordCrash(r).crashes = r.crashes + 1
         /\ ClearCrashes(r) \in TrackerRows /\ ClearCrashes(r).gen = r.gen
         /\ ClearCrashes(r).pid = r.pid /\ ClearCrashes(r).state = r.state
<1>1. ASSUME NEW st \in TrackerStates
      PROVE  Cleared(r, st) \in TrackerRows /\ Cleared(r, st).gen = r.gen
  BY ZenonT(40), <1>1 DEF TrackerRows, Cleared
<1>2. r.crashes + 1 \in Nat
  BY DEF TrackerRows
<1>3. /\ RecordCrash(r) \in TrackerRows /\ RecordCrash(r).gen = r.gen
      /\ RecordCrash(r).crashes = r.crashes + 1
  BY <1>2 DEF TrackerRows, RecordCrash
<1>4. /\ ClearCrashes(r) \in TrackerRows /\ ClearCrashes(r).gen = r.gen
      /\ ClearCrashes(r).pid = r.pid /\ ClearCrashes(r).state = r.state
  BY DEF TrackerRows, ClearCrashes
<1> QED
  BY <1>1, <1>3, <1>4

\* MarkSpawned names the new child and its generation.
LEMMA MarkSpawnedOp ==
  ASSUME NEW r \in TrackerRows, NEW p \in Nat
  PROVE  /\ MarkSpawned(r, p) \in TrackerRows
         /\ MarkSpawned(r, p).state = "running" /\ MarkSpawned(r, p).pid = p
         /\ MarkSpawned(r, p).gen = r.gen + 1
<1>1. r.gen + 1 \in Nat /\ "running" \in TrackerStates
  BY DEF TrackerRows, TrackerStates
<1> QED
  BY ZenonT(40), <1>1 DEF TrackerRows, MarkSpawned

\* A daemon with another row, count and set of children is typed.
LEMMA ChildrenUpdate ==
  ASSUME NEW c \in TaskRecords, NEW row \in TrackerRows, NEW n \in Nat,
         NEW ks \in SUBSET Children
  PROVE  [c EXCEPT !.row = row, !.spawned = n, !.children = ks] \in TaskRecords
BY ZenonT(40) DEF TaskRecords

---------------------------------------------------------------------------
(* Steps on one record that keep Tracked and Over. *)

\* The children stay as they are; the row may be cleared, or the daemon leave
\* the states that expect a child, only if no reported child is alive.
LEMMA QuietStep ==
  ASSUME NEW c \in TaskRecords, NEW d \in TaskRecords, Tracked(c),
         d.children = c.children, d.spawned = c.spawned, d.row.gen = c.row.gen,
         \/ Reported(c) = {}
         \/ /\ d.row.state = c.row.state /\ d.row.pid = c.row.pid
            /\ d.smState \in Live
  PROVE  /\ Tracked(d) /\ Reported(d) = Reported(c)
         /\ \A g \in Nat : Over(c, g) => Over(d, g)
<1>1. Reported(d) = Reported(c)
  BY DEF Reported, Alive
<1>2. Tracked(d)
  BY <1>1 DEF Tracked
<1> QED
  BY <1>1, <1>2 DEF Over

\* A child ends: nothing is added to the live ones.
LEMMA KillStep ==
  ASSUME NEW c \in TaskRecords, NEW d \in TaskRecords, Tracked(c),
         NEW k \in Alive(c), NEW clean \in BOOLEAN,
         d.children = Exited(c.children, k, clean),
         d.spawned = c.spawned, d.row.gen = c.row.gen, d.smState = c.smState,
         \/ k.pid = c.row.pid
         \/ (d.row.state = c.row.state /\ d.row.pid = c.row.pid)
  PROVE  /\ Tracked(d) /\ Reported(d) \subseteq Reported(c)
         /\ k.pid = c.row.pid => Reported(d) = {}
         /\ \A g \in Nat : Over(c, g) => Over(d, g)
<1>k. k \in Children /\ k \in c.children /\ k.life = "alive"
  BY DEF Alive, TaskRecords
<1> DEFINE dead == [k EXCEPT !.life = "dead", !.clean = clean]
<1>d. dead \in Children /\ dead.pid = k.pid /\ dead.gen = k.gen
      /\ dead.life = "dead" /\ dead.waited = k.waited
  BY ZenonT(40), <1>k DEF Children
<1>1. \A x \in d.children : (x \in c.children /\ x # k) \/ (x = dead /\ k.waited)
  BY DEF Exited
<1>2. Reported(d) \subseteq Reported(c) /\ k \notin Reported(d)
  BY ZenonT(40), <1>1, <1>d DEF Reported, Alive
<1>3. ASSUME k.pid = c.row.pid PROVE Reported(d) = {}
  <2> SUFFICES ASSUME NEW x \in Reported(d) PROVE FALSE
    OBVIOUS
  <2>1. x \in Reported(c) /\ x # k
    BY <1>2
  <2>2. x.pid = k.pid /\ x \in c.children
    BY <2>1, <1>3 DEF Tracked, Reported, Alive
  <2> QED
    BY <2>1, <2>2, <1>k DEF Tracked
<1>4. \A x \in d.children : /\ 1 <= x.pid /\ x.pid <= d.spawned /\ x.gen <= d.row.gen
                            /\ x.waited => x.gen > 0
                            /\ x.life # "alive" => x.waited
  BY ZenonT(40), <1>1, <1>d, <1>k DEF Tracked
<1>5. \A x, y \in d.children : x.pid = y.pid \/ (x.gen = y.gen /\ x.gen > 0) => x = y
  <2> SUFFICES ASSUME NEW x \in d.children, NEW y \in d.children,
                      x.pid = y.pid \/ (x.gen = y.gen /\ x.gen > 0)
               PROVE  x = y
    OBVIOUS
  <2>1. CASE x # dead /\ y # dead
    BY <2>1, <1>1 DEF Tracked
  <2>2. CASE x = dead /\ y # dead
    BY <2>2, <1>1, <1>d, <1>k DEF Tracked
  <2>3. CASE x # dead /\ y = dead
    BY <2>3, <1>1, <1>d, <1>k DEF Tracked
  <2> QED
    BY <2>1, <2>2, <2>3
<1>6. \A x \in Reported(d) : /\ d.row.state = "running" /\ d.row.pid = x.pid
                             /\ d.row.gen = x.gen /\ d.smState \in Live
  BY <1>2, <1>3 DEF Tracked
<1>7. Tracked(d)
  BY <1>4, <1>5, <1>6 DEF Tracked
<1>8. \A g \in Nat : Over(c, g) => Over(d, g)
  BY <1>2 DEF Over
<1> QED
  BY <1>2, <1>3, <1>7, <1>8

\* A process is started while no reported child is alive.
LEMMA StartedStep ==
  ASSUME NEW c \in TaskRecords, Tracked(c), Reported(c) = {}, c.smState \in Live
  PROVE  /\ Started(c) \in TaskRecords /\ Tracked(Started(c))
         /\ Started(c).verdict = c.verdict
         /\ \A g \in Nat \ {0} : Over(c, g) => Over(Started(c), g)
<1> DEFINE d == Started(c)
           new == [pid |-> c.spawned + 1, gen |-> c.row.gen + 1, life |-> "alive",
                   waited |-> TRUE, clean |-> FALSE]
<1>c. c.row \in TrackerRows /\ c.spawned \in Nat /\ c.row.gen \in Nat
      /\ c.children \in SUBSET Children
  BY DEF TaskRecords, TrackerRows
<1>0. MarkSpawned(c.row, c.spawned + 1) \in TrackerRows
  BY <1>c, MarkSpawnedOp
<1>1. new \in Children
  BY <1>c DEF Children
<1>2. /\ MarkSpawned(c.row, c.spawned + 1).pid = c.spawned + 1
      /\ MarkSpawned(c.row, c.spawned + 1).gen = c.row.gen + 1
      /\ MarkSpawned(c.row, c.spawned + 1).state = "running"
  <2>1. c.spawned + 1 \in Nat
    BY <1>c
  <2> QED
    BY <2>1, <1>c, MarkSpawnedOp, Zenon
<1>3. d = [c EXCEPT !.row = MarkSpawned(c.row, c.spawned + 1), !.spawned = c.spawned + 1,
                    !.children = c.children \cup {new}]
  BY ZenonT(40), <1>2 DEF Started
<1>4. d \in TaskRecords
  <2> HIDE DEF d, new
  <2>1. c.children \cup {new} \in SUBSET Children /\ c.spawned + 1 \in Nat
    BY <1>1, <1>c
  <2> QED
    BY ZenonT(40), <2>1, <1>0, <1>3, ChildrenUpdate
<1>5. /\ d.children = c.children \cup {new} /\ d.spawned = c.spawned + 1
      /\ d.row.state = "running" /\ d.row.pid = c.spawned + 1
      /\ d.row.gen = c.row.gen + 1 /\ d.smState = c.smState /\ d.verdict = c.verdict
  BY <1>2, <1>3 DEF TaskRecords
<1>6. Reported(d) = {new}
  BY <1>5, <1>c DEF Reported, Alive
<1>7. \A k \in d.children : /\ 1 <= k.pid /\ k.pid <= d.spawned /\ k.gen <= d.row.gen
                            /\ k.waited => k.gen > 0
                            /\ k.life # "alive" => k.waited
  BY <1>5, <1>c DEF Tracked, Children
<1>8. \A j, k \in d.children : j.pid = k.pid \/ (j.gen = k.gen /\ j.gen > 0) => j = k
  <2>1. \A k \in c.children : k.pid # new.pid /\ k.gen # new.gen
    BY <1>c DEF Tracked, Children
  <2> QED
    BY ZenonT(40), <2>1, <1>5 DEF Tracked
<1>9. Tracked(d)
  BY <1>5, <1>6, <1>7, <1>8 DEF Tracked
<1>10. \A g \in Nat \ {0} : Over(c, g) => Over(d, g)
  BY <1>5, <1>c DEF Over
<1> QED
  BY <1>4, <1>5, <1>9, <1>10

\* A process is left behind by a start that failed.
LEMMA OrphanedStep ==
  ASSUME NEW c \in TaskRecords, Tracked(c), Reported(c) = {}
  PROVE  /\ Orphaned(c) \in TaskRecords /\ Tracked(Orphaned(c))
         /\ Orphaned(c).verdict = c.verdict
         /\ \A g \in Nat \ {0} : Over(c, g) => Over(Orphaned(c), g)
<1> DEFINE d == Orphaned(c)
           new == [pid |-> c.spawned + 1, gen |-> 0, life |-> "alive",
                   waited |-> FALSE, clean |-> FALSE]
<1>c. c.row \in TrackerRows /\ c.spawned \in Nat /\ c.row.gen \in Nat
      /\ c.children \in SUBSET Children
  BY DEF TaskRecords, TrackerRows
<1>0. MarkSpawnFailed(c.row) \in TrackerRows /\ MarkSpawnFailed(c.row).gen = c.row.gen
  BY <1>c, RowOps DEF MarkSpawnFailed, TrackerStates
<1>1. new \in Children
  BY <1>c DEF Children
<1>3. d = [c EXCEPT !.row = MarkSpawnFailed(c.row), !.spawned = c.spawned + 1,
                    !.children = c.children \cup {new}]
  BY DEF Orphaned
<1>4. d \in TaskRecords
  <2> HIDE DEF d, new
  <2>1. c.children \cup {new} \in SUBSET Children /\ c.spawned + 1 \in Nat
    BY <1>1, <1>c
  <2> QED
    BY ZenonT(40), <2>1, <1>0, <1>3, ChildrenUpdate
<1>5. /\ d.children = c.children \cup {new} /\ d.spawned = c.spawned + 1
      /\ d.row.gen = c.row.gen /\ d.verdict = c.verdict
  BY <1>0, <1>3 DEF TaskRecords
<1>6. Reported(d) = {}
  BY <1>5, <1>c DEF Reported, Alive
<1>7. \A k \in d.children : /\ 1 <= k.pid /\ k.pid <= d.spawned /\ k.gen <= d.row.gen
                            /\ k.waited => k.gen > 0
                            /\ k.life # "alive" => k.waited
  BY <1>5, <1>c DEF Tracked, Children
<1>8. \A j, k \in d.children : j.pid = k.pid \/ (j.gen = k.gen /\ j.gen > 0) => j = k
  <2>1. \A k \in c.children : k.pid # new.pid
    BY <1>c DEF Tracked, Children
  <2>2. new.gen = 0
    OBVIOUS
  <2> HIDE DEF d, new
  <2>3. \A j, k \in c.children : j.pid = k.pid \/ (j.gen = k.gen /\ j.gen > 0) => j = k
    BY DEF Tracked
  <2>4. \A k \in c.children : k.gen \in Nat
    BY Zenon, <1>c DEF Children
  <2> QED
    BY <2>1, <2>2, <2>3, <2>4, <1>5
<1>9. Tracked(d)
  BY Zenon, <1>5, <1>6, <1>7, <1>8 DEF Tracked
<1>10. \A g \in Nat \ {0} : Over(c, g) => Over(d, g)
  BY Zenon, <1>5, <1>6, <1>c DEF Over
<1> QED
  BY <1>4, <1>5, <1>9, <1>10

---------------------------------------------------------------------------
(* The side effects. *)

\* What the proof needs of a result r of a handler applied to c: the record
\* stays tracked, at most one event is posted to the self channel, an exit
\* among them is over, and no exit in flight that was over is revived.
Good(t, c, faults, r) ==
  /\ r.c \in TaskRecords /\ Tracked(r.c) /\ r.c.verdict = c.verdict
  /\ \/ r.self = <<>>
     \/ \E e \in SMEventSet : /\ r.self = <<e>> /\ e.task = t
                              /\ e.kind = "child-exit" => Over(r.c, e.gen)
  /\ \A g \in Nat \ {0} : Over(c, g) => Over(r.c, g)
  /\ r.fault \in {0, 1}
  /\ r.fault = 1 => faults # {}

\* The events the handlers post are typed.
LEMMA EventTypes ==
  ASSUME NEW t \in Tasks
  PROVE  /\ \A kind \in SMEvents : /\ SMEvent(kind, t) \in SMEventSet
                                   /\ SMEvent(kind, t).task = t
                                   /\ SMEvent(kind, t).kind = kind
                                   /\ SMEvent(kind, t).gen = 0
         /\ \A g \in Nat, b \in BOOLEAN : /\ ExitEvent(t, g, b) \in SMEventSet
                                          /\ ExitEvent(t, g, b).task = t
                                          /\ ExitEvent(t, g, b).kind = "child-exit"
                                          /\ ExitEvent(t, g, b).gen = g
         /\ AutoRestart(t) \in SMEventSet
         /\ AutoRestart(t).task = t /\ AutoRestart(t).kind = "manual-restart"
<1>1. ASSUME NEW kind \in SMEvents
      PROVE  /\ SMEvent(kind, t) \in SMEventSet /\ SMEvent(kind, t).task = t
             /\ SMEvent(kind, t).kind = kind /\ SMEvent(kind, t).gen = 0
  BY <1>1 DEF SMEvent, SMEventSet
<1>2. {"child-exit", "manual-restart"} \subseteq SMEvents
  BY DEF SMEvents
<1>3. ASSUME NEW g \in Nat, NEW b \in BOOLEAN
      PROVE  /\ ExitEvent(t, g, b) \in SMEventSet /\ ExitEvent(t, g, b).task = t
             /\ ExitEvent(t, g, b).kind = "child-exit" /\ ExitEvent(t, g, b).gen = g
  BY ZenonT(40), <1>2, <1>3 DEF ExitEvent, SMEvent, SMEventSet
<1>5. /\ AutoRestart(t) \in SMEventSet
      /\ AutoRestart(t).task = t /\ AutoRestart(t).kind = "manual-restart"
  BY ZenonT(40), <1>2 DEF AutoRestart, SMEvent, SMEventSet
<1> QED
  BY <1>1, <1>3, <1>5

\* Fields that Tracked and Over do not read.
Same(c, d) ==
  /\ d.children = c.children /\ d.spawned = c.spawned
  /\ d.row.gen = c.row.gen /\ d.verdict = c.verdict

\* Arming a backoff timer keeps the types and what the invariant reads.
LEMMA ArmUpdate ==
  ASSUME NEW c \in TaskRecords
  PROVE  /\ ArmRespawnBackoffTimer(c) \in TaskRecords
         /\ Same(c, ArmRespawnBackoffTimer(c))
<1>1. c.epoch + 1 \in Nat /\ c.timers \cup {c.epoch + 1} \in SUBSET Nat
  BY DEF TaskRecords
<1> QED
  BY ZenonT(40), <1>1 DEF TaskRecords, ArmRespawnBackoffTimer, Same

\* Holding a spawn at a gate keeps the types and what the invariant reads.
LEMMA HoldUpdate ==
  ASSUME NEW c \in TaskRecords
  PROVE  HoldSpawnInBackoff(c) \in TaskRecords /\ Same(c, HoldSpawnInBackoff(c))
<1>1. MarkBackoff(c.row) \in TrackerRows /\ MarkBackoff(c.row).gen = c.row.gen
  BY RowOps DEF MarkBackoff, TaskRecords, TrackerStates
<1> DEFINE b == [c EXCEPT !.smState = "backoff", !.row = MarkBackoff(c.row)]
<1>2. b \in TaskRecords /\ Same(c, b)
  BY ZenonT(40), <1>1 DEF TaskRecords, Same, SMStates
<1>3. HoldSpawnInBackoff(c) = ArmRespawnBackoffTimer(b)
  BY DEF HoldSpawnInBackoff
<1> HIDE DEF b
<1> QED
  BY Zenon, <1>2, <1>3, ArmUpdate DEF Same

\* Backoff, or quarantine at the threshold, keeps the types and what the invariant reads.
LEMMA BackoffUpdate ==
  ASSUME NEW c \in TaskRecords
  PROVE  HandleBackoffWaiting(c) \in TaskRecords /\ Same(c, HandleBackoffWaiting(c))
<1> DEFINE row == RecordCrash(c.row)
<1>1. row \in TrackerRows /\ row.gen = c.row.gen
  BY RowOps DEF TaskRecords
<1>2. /\ MarkBackoff(row) \in TrackerRows /\ MarkBackoff(row).gen = c.row.gen
      /\ MarkQuarantined(row) \in TrackerRows /\ MarkQuarantined(row).gen = c.row.gen
  BY <1>1, RowOps DEF MarkBackoff, MarkQuarantined, TrackerStates
<1> DEFINE q == [c EXCEPT !.smState = "quarantined", !.parole = TRUE, !.row = MarkQuarantined(row)]
           b == [c EXCEPT !.row = MarkBackoff(row)]
<1>3. q \in TaskRecords /\ Same(c, q)
  <2> HIDE DEF row
  <2> QED
    BY ZenonT(40), <1>2 DEF TaskRecords, Same, SMStates
<1>4. ArmRespawnBackoffTimer(b) \in TaskRecords /\ Same(c, ArmRespawnBackoffTimer(b))
  <2> HIDE DEF row
  <2>1. b \in TaskRecords /\ Same(c, b)
    BY Zenon, <1>2 DEF TaskRecords, Same
  <2> HIDE DEF b
  <2> QED
    BY <2>1, ArmUpdate DEF Same
<1> QED
  BY <1>3, <1>4 DEF HandleBackoffWaiting

\* A result that changes nothing Tracked and Over read.
LEMMA QuietGood ==
  ASSUME NEW t \in Tasks, NEW c \in TaskRecords, NEW d \in TaskRecords, Tracked(c),
         NEW faults, NEW r, Same(c, d),
         \/ Reported(c) = {}
         \/ /\ d.row.state = c.row.state /\ d.row.pid = c.row.pid
            /\ d.smState \in Live,
         r = Done(d) \/ (r = Faulty(d, <<>>) /\ faults # {})
  PROVE  Good(t, c, faults, r)
<1>1. /\ Tracked(d) /\ Reported(d) = Reported(c)
      /\ \A g \in Nat : Over(c, g) => Over(d, g)
  BY QuietStep DEF Same
<1>2. /\ r.c = d /\ r.self = <<>> /\ r.fault \in {0, 1}
      /\ r.fault = 1 => faults # {}
  BY DEF Done, Result, Faulty
<1> QED
  BY Zenon, <1>1, <1>2 DEF Good, Same

\* Tracked and Over read nothing else.
LEMMA FlagStep ==
  ASSUME NEW c \in TaskRecords, NEW d \in TaskRecords, Tracked(c),
         Same(c, d), d.row = c.row, d.smState = c.smState
  PROVE  /\ Tracked(d) /\ Reported(d) = Reported(c)
         /\ \A g \in Nat : Over(c, g) => Over(d, g)
<1>1. Reported(d) = Reported(c)
  BY DEF Same, Reported, Alive
<1> QED
  BY <1>1 DEF Same, Tracked, Over

\* The create-process side effect, entered with no live child.
LEMMA CreateGood ==
  ASSUME NEW t \in Tasks, NEW c \in TaskRecords, Tracked(c), Reported(c) = {},
         c.smState \in Live, NEW faults \in SUBSET AllFaults,
         NEW r \in CreateProcessEffect(t, c, faults)
  PROVE  Good(t, c, faults, r)
<1> DEFINE closed == [c EXCEPT !.gateCleared = FALSE]
<1>0. /\ closed \in TaskRecords /\ Same(c, closed) /\ Tracked(closed)
      /\ closed.row = c.row /\ closed.smState = c.smState /\ Reported(closed) = {}
      /\ \A g \in Nat : Over(c, g) => Over(closed, g)
  <2>1. closed \in TaskRecords /\ Same(c, closed) /\ closed.row = c.row /\ closed.smState = c.smState
    BY ZenonT(40) DEF TaskRecords, Same
  <2> HIDE DEF closed
  <2> QED
    BY <2>1, QuietStep DEF Same
<1>1. CASE r = SpawnOK(t, closed)
  <2> HIDE DEF closed
  <2> DEFINE d == Started(closed)
             e == [d EXCEPT !.ownSpawned = TRUE, !.reaper = TRUE]
             ok == SMEvent("health-ok", t)
  <2>1. /\ d \in TaskRecords /\ Tracked(d) /\ d.verdict = c.verdict
        /\ \A g \in Nat \ {0} : Over(c, g) => Over(d, g)
    BY <1>0, StartedStep DEF Same
  <2>2. r.c = e /\ r.self = <<ok>> /\ r.fault = 0
    BY <1>1 DEF SpawnOK, Result
  <2> HIDE DEF d
  <2>3. e \in TaskRecords /\ Same(d, e) /\ e.row = d.row /\ e.smState = d.smState
    BY ZenonT(40), <2>1 DEF TaskRecords, Same
  <2> HIDE DEF e
  <2>4. Tracked(e) /\ \A g \in Nat : Over(d, g) => Over(e, g)
    BY Zenon, <2>1, <2>3, FlagStep
  <2>5. ok \in SMEventSet /\ ok.task = t /\ ok.kind = "health-ok"
    BY EventTypes DEF SMEvents
  <2> HIDE DEF ok
  <2> QED
    BY <2>1, <2>2, <2>3, <2>4, <2>5 DEF Good, Same
<1>2. CASE \E kind \in faults \ {"terminate"} : r = SpawnFault(t, c, kind)
  <2>1. PICK kind \in faults \ {"terminate"} : r = SpawnFault(t, c, kind)
    BY <1>2
  <2>f. faults # {} /\ kind \in AllFaults \ {"terminate"}
    BY <2>1
  <2>2. CASE kind = "path"
    <3>1. r = Faulty(HoldSpawnInBackoff(c), <<>>)
      BY Zenon, <2>1, <2>2 DEF SpawnFault
    <3> QED
      BY Zenon, <3>1, <2>f, HoldUpdate, QuietGood
  <2>3. CASE kind = "port"
    <3> DEFINE h == HoldSpawnInBackoff(c)
               d == [h EXCEPT !.gate = IF @ = "none" THEN "asked" ELSE @]
    <3>1. r = Faulty(d, <<>>)
      BY <2>1, <2>3 DEF SpawnFault
    <3>2. h \in TaskRecords /\ Same(c, h)
      BY HoldUpdate
    <3> HIDE DEF h
    <3>3. d \in TaskRecords /\ Same(c, d)
      BY <3>2 DEF TaskRecords, Same, GateStates
    <3> HIDE DEF d
    <3> QED
      BY <3>1, <3>3, <2>f, QuietGood
  <2>4. CASE kind = "prechild"
    <3> DEFINE d == [c EXCEPT !.gateCleared = FALSE, !.row = MarkSpawnFailed(c.row)]
               e == SMEvent("child-exit", t)
    <3>1. r = Faulty(d, <<e>>)
      BY Zenon, <2>1, <2>4 DEF SpawnFault
    <3>2. MarkSpawnFailed(c.row) \in TrackerRows /\ MarkSpawnFailed(c.row).gen = c.row.gen
      BY RowOps DEF MarkSpawnFailed, TaskRecords, TrackerStates
    <3>3. d \in TaskRecords /\ Same(c, d)
      BY ZenonT(40), <3>2 DEF TaskRecords, Same
    <3>4. e \in SMEventSet /\ e.task = t /\ e.gen = 0
      BY EventTypes DEF SMEvents
    <3> HIDE DEF d, e
    <3>5. /\ Tracked(d) /\ Reported(d) = {}
          /\ \A g \in Nat : Over(c, g) => Over(d, g)
      BY Zenon, <3>3, QuietStep DEF Same
    <3>6. Over(d, e.gen)
      BY <3>3, <3>4, <3>5 DEF Over, TaskRecords, TrackerRows
    <3> QED
      BY Zenon, <3>1, <3>3, <3>4, <3>5, <3>6, <2>f DEF Good, Same, Faulty
  <2>5. CASE kind = "refused"
    <3> DEFINE d == [c EXCEPT !.gateCleared = FALSE, !.smState = "quarantined",
                              !.parole = FALSE, !.row = MarkQuarantined(c.row)]
    <3>1. r = Faulty(d, <<>>)
      BY Zenon, <2>1, <2>5 DEF SpawnFault
    <3>2. MarkQuarantined(c.row) \in TrackerRows /\ MarkQuarantined(c.row).gen = c.row.gen
      BY RowOps DEF MarkQuarantined, TaskRecords, TrackerStates
    <3>3. d \in TaskRecords /\ Same(c, d)
      BY ZenonT(40), <3>2 DEF TaskRecords, Same, SMStates
    <3> HIDE DEF d
    <3> QED
      BY <3>1, <3>3, <2>f, QuietGood
  <2>6. CASE kind = "orphan"
    <3> DEFINE o == Orphaned(c)
               d == [o EXCEPT !.gateCleared = FALSE]
    <3>1. r = Faulty(d, <<>>)
      BY <2>1, <2>6 DEF SpawnFault
    <3>2. /\ o \in TaskRecords /\ Tracked(o) /\ o.verdict = c.verdict
          /\ \A g \in Nat \ {0} : Over(c, g) => Over(o, g)
      BY OrphanedStep
    <3> HIDE DEF o
    <3>3. d \in TaskRecords /\ Same(o, d) /\ d.row = o.row /\ d.smState = o.smState
      BY ZenonT(40), <3>2 DEF TaskRecords, Same
    <3> HIDE DEF d
    <3>4. Tracked(d) /\ \A g \in Nat : Over(o, g) => Over(d, g)
      BY <3>2, <3>3, FlagStep
    <3> QED
      BY Zenon, <3>1, <3>2, <3>3, <3>4, <2>f DEF Good, Same, Faulty
  <2>7. CASE kind = "unpersisted"
    <3> DEFINE o == Started(c)
               d == [o EXCEPT !.gateCleared = FALSE]
    <3>1. r = Faulty(d, <<>>)
      BY Zenon, <2>1, <2>7 DEF SpawnFault
    <3>2. /\ o \in TaskRecords /\ Tracked(o) /\ o.verdict = c.verdict
          /\ \A g \in Nat \ {0} : Over(c, g) => Over(o, g)
      BY Zenon, StartedStep
    <3> HIDE DEF o
    <3>3. d \in TaskRecords /\ Same(o, d) /\ d.row = o.row /\ d.smState = o.smState
      BY ZenonT(40), <3>2 DEF TaskRecords, Same
    <3> HIDE DEF d
    <3>4. Tracked(d) /\ \A g \in Nat : Over(o, g) => Over(d, g)
      BY <3>2, <3>3, FlagStep
    <3> QED
      BY <3>1, <3>2, <3>3, <3>4, <2>f DEF Good, Same, Faulty
  <2> QED
    BY Zenon, <2>f, <2>2, <2>3, <2>4, <2>5, <2>6, <2>7 DEF AllFaults
<1> QED
  BY Zenon, <1>1, <1>2 DEF CreateProcessEffect

\* The synthesized exit, when the child it belongs to is no longer alive.
LEMMA SynthesizedOver ==
  ASSUME NEW t \in Tasks, NEW c \in TaskRecords, NEW d \in TaskRecords,
         d.row.gen = c.row.gen, Reported(d) = {}
  PROVE  \/ Synthesized(t, c, c.row.gen) = <<>>
         \/ \E e \in SMEventSet : /\ Synthesized(t, c, c.row.gen) = <<e>> /\ e.task = t
                                  /\ e.kind = "child-exit" => Over(d, e.gen)
<1>1. c.row.gen \in Nat
  BY DEF TaskRecords, TrackerRows
<1> DEFINE e == ExitEvent(t, c.row.gen, FALSE)
<1>2. e \in SMEventSet /\ e.task = t /\ e.gen = c.row.gen
  BY ZenonT(40), <1>1 DEF ExitEvent, SMEvent, SMEventSet, SMEvents
<1>3. Synthesized(t, c, c.row.gen) \in {<<>>, <<e>>}
  BY DEF Synthesized
<1> HIDE DEF e
<1>4. Over(d, e.gen)
  BY <1>1, <1>2 DEF Over
<1> QED
  BY Zenon, <1>2, <1>3, <1>4

\* The terminate side effect.
LEMMA TerminateGood ==
  ASSUME NEW t \in Tasks, NEW c \in TaskRecords, Tracked(c),
         NEW faults \in SUBSET AllFaults, NEW r \in TerminateEffect(t, c, faults)
  PROVE  Good(t, c, faults, r) /\ Reported(r.c) \subseteq Reported(c)
<1> DEFINE gen == c.row.gen
           gone == [c EXCEPT !.row = MarkExitedIfCurrent(@, gen)]
           kill(d, k) == [d EXCEPT !.children = Exited(@, k, FALSE)]
           synth == Synthesized(t, c, gen)
<1>0. gen \in Nat /\ c.row \in TrackerRows /\ c.children \in SUBSET Children
  BY Zenon DEF TaskRecords, TrackerRows
<1>1. /\ MarkExitedIfCurrent(c.row, gen) \in TrackerRows
      /\ MarkExitedIfCurrent(c.row, gen).gen = gen
  BY <1>0, RowOps DEF MarkExitedIfCurrent, IsStale, MarkExited, TrackerStates
<1>2. gone \in TaskRecords /\ Same(c, gone) /\ gone.smState = c.smState
  BY Zenon, <1>1 DEF TaskRecords, Same
<1>q. Reported(c) = {} \/ c.smState \in Live
  BY DEF Tracked
<1>3. ASSUME NEW k \in Alive(c), k.pid = c.row.pid, NEW d \in {c, gone}
      PROVE  /\ kill(d, k) \in TaskRecords /\ kill(d, k).verdict = c.verdict
             /\ kill(d, k).row.gen = c.row.gen
             /\ Tracked(kill(d, k)) /\ Reported(kill(d, k)) = {}
             /\ \A g \in Nat : Over(c, g) => Over(kill(d, k), g)
  <2>1. k \in Children /\ k \in c.children
    BY <1>0, <1>3 DEF Alive
  <2>2. Exited(c.children, k, FALSE) \in SUBSET Children
    <3>1. [k EXCEPT !.life = "dead", !.clean = FALSE] \in Children
      BY ZenonT(40), <2>1 DEF Children
    <3> QED
      BY <3>1, <1>0 DEF Exited
  <2>3. d \in TaskRecords /\ Same(c, d) /\ d.smState = c.smState
    BY ZenonT(40), <1>2, <1>3 DEF Same
  <2> HIDE DEF gone
  <2> DEFINE e == kill(d, k)
  <2>4. /\ e \in TaskRecords /\ e.children = Exited(c.children, k, FALSE)
        /\ e.spawned = c.spawned /\ e.row.gen = c.row.gen /\ e.smState = c.smState
        /\ e.verdict = c.verdict
    BY ZenonT(40), <2>2, <2>3 DEF TaskRecords, Same
  <2> HIDE DEF e
  <2>5. Tracked(e) /\ Reported(e) = {} /\ \A g \in Nat : Over(c, g) => Over(e, g)
    BY ZenonT(40), <2>4, <1>3, KillStep
  <2> QED
    BY ZenonT(40), <2>4, <2>5 DEF e
<1>4. CASE c.row.pid = 0
  <2>1. r = Done(c)
    BY Zenon, <1>4 DEF TerminateEffect
  <2> QED
    BY <2>1, <1>q, QuietGood DEF Same, Done, Result
<1>5. CASE r = Faulty(c, <<>>) /\ "terminate" \in faults
  BY Zenon, <1>5, <1>q, QuietGood DEF Same, Faulty
<1>6. CASE ~PidAlive(c, c.row.pid) /\ r = Result(gone, synth)
  <2>1. Reported(c) = {}
    BY Zenon, <1>6 DEF PidAlive, Tracked, Reported
  <2> HIDE DEF gone
  <2>2. Tracked(gone) /\ Reported(gone) = {} /\ \A g \in Nat : Over(c, g) => Over(gone, g)
    BY Zenon, <2>1, <1>2, QuietStep DEF Same
  <2>3. \/ synth = <<>>
        \/ \E e \in SMEventSet : /\ synth = <<e>> /\ e.task = t
                                 /\ e.kind = "child-exit" => Over(gone, e.gen)
    BY <1>2, <2>2, SynthesizedOver DEF Same
  <2> HIDE DEF synth
  <2> QED
    BY <1>2, <1>6, <2>2, <2>3 DEF Good, Same, Result
<1>7. ASSUME NEW k \in Alive(c), k.pid = c.row.pid, NEW d \in {c, gone},
             \/ r = Result(kill(d, k), synth)
             \/ /\ r = Faulty(kill(d, k), synth) \/ r = Faulty(kill(d, k), <<>>)
                /\ "terminate" \in faults
      PROVE  Good(t, c, faults, r) /\ Reported(r.c) \subseteq Reported(c)
  <2> DEFINE e == kill(d, k)
  <2>1. /\ e \in TaskRecords /\ e.verdict = c.verdict /\ e.row.gen = c.row.gen
        /\ Tracked(e) /\ Reported(e) = {}
        /\ \A g \in Nat : Over(c, g) => Over(e, g)
    BY ZenonT(40), <1>3, <1>7
  <2>2. \/ synth = <<>>
        \/ \E x \in SMEventSet : /\ synth = <<x>> /\ x.task = t
                                 /\ x.kind = "child-exit" => Over(e, x.gen)
    <3> HIDE DEF e
    <3> QED
      BY <2>1, SynthesizedOver
  <2>3. /\ r.c = e /\ r.self \in {synth, <<>>} /\ r.fault \in {0, 1}
        /\ r.fault = 1 => faults # {}
    <3> HIDE DEF e, synth
    <3>1. \/ r = Result(e, synth)
          \/ /\ r = Faulty(e, synth) \/ r = Faulty(e, <<>>)
             /\ "terminate" \in faults
      BY Zenon, <1>7 DEF e
    <3> QED
      BY <3>1 DEF Result, Faulty
  <2> HIDE DEF e, synth
  <2> QED
    BY Zenon, <2>1, <2>2, <2>3 DEF Good
<1>8. CASE c.row.pid # 0
  <2>1. \/ r = Faulty(c, <<>>) /\ "terminate" \in faults
        \/ ~PidAlive(c, c.row.pid) /\ r = Result(gone, synth)
        \/ \E k \in Alive(c) : /\ k.pid = c.row.pid
                               /\ \/ r = Result(kill(gone, k), synth)
                                  \/ /\ r \in {Faulty(kill(c, k), synth), Faulty(kill(c, k), <<>>)}
                                     /\ "terminate" \in faults
    BY ZenonT(40), <1>8 DEF TerminateEffect
  <2> QED
    BY ZenonT(40), <2>1, <1>5, <1>6, <1>7
<1> QED
  BY Zenon, <1>4, <1>8

---------------------------------------------------------------------------
(* The handler of a state-machine event. *)

\* A result that is good for an updated daemon is good for the one it came from.
LEMMA GoodAfter ==
  ASSUME NEW t, NEW c, NEW d, NEW faults, NEW r,
         d.verdict = c.verdict, \A g \in Nat : Over(c, g) => Over(d, g),
         Good(t, d, faults, r)
  PROVE  Good(t, c, faults, r)
BY Zenon DEF Good

\* The context the handler computes for the table is typed.
LEMMA ContextType ==
  ASSUME NEW c \in TaskRecords, NEW g \in BOOLEAN
  PROVE  CurrentState(c) \in SMStates /\ SMContext(c, g) \in SMContexts
<1>1. CurrentState(c) \in SMStates
  BY DEF CurrentState, TaskRecords, SMStates
<1>2. c.want \in {"running", "stopped"} /\ c.row.crashes \in Nat /\ c.queued \in QueuedActions
  BY DEF TaskRecords, TrackerRows, Wants
<1> QED
  BY <1>1, <1>2 DEF SMContext, SMContexts

\* Writing the new state back keeps the invariant.
LEMMA WriteBackUpdate ==
  ASSUME NEW c \in TaskRecords, NEW row \in Rows
  PROVE  LET d == WriteBack(c, row)
         IN  /\ d \in TaskRecords /\ Same(c, d) /\ d.smState = row.to
             /\ row.to # "idle" => d.row.state = c.row.state /\ d.row.pid = c.row.pid
<1> DEFINE from == CurrentState(c)
           r1 == IF row.resetFailures THEN ClearCrashes(c.row) ELSE c.row
           r2 == IF row.to = "idle" /\ from # "idle" THEN MarkExited(r1) ELSE r1
           q == IF from = "exiting" /\ row.to \in {"idle", "spawning"} THEN "none"
                ELSE IF row.queued = "keep" THEN c.queued ELSE row.queued
           gc == c.gateCleared /\ row.to = "spawning"
<1>1. c.row \in TrackerRows /\ c.queued \in QueuedActions /\ c.gateCleared \in BOOLEAN
  BY Zenon DEF TaskRecords
<1>2. r1 \in TrackerRows /\ r1.gen = c.row.gen /\ r1.pid = c.row.pid /\ r1.state = c.row.state
  BY Zenon, <1>1, RowOps
<1>3. /\ r2 \in TrackerRows /\ r2.gen = c.row.gen
      /\ row.to # "idle" => r2.pid = c.row.pid /\ r2.state = c.row.state
  <2> HIDE DEF r1, from
  <2> QED
    BY Zenon, <1>2, RowOps DEF MarkExited, TrackerStates
<1>4. q \in QueuedActions /\ gc \in BOOLEAN /\ row.to \in SMStates
  BY <1>1 DEF Rows, QueuedActions
<1>5. WriteBack(c, row) = [c EXCEPT !.smState = row.to, !.gateCleared = gc, !.queued = q, !.row = r2]
  BY DEF WriteBack
<1> HIDE DEF q, gc, r2, r1, from
<1> DEFINE d == [c EXCEPT !.smState = row.to, !.gateCleared = gc, !.queued = q, !.row = r2]
<1>6. d \in TaskRecords
  BY ZenonT(40), <1>3, <1>4 DEF TaskRecords
<1>7. Same(c, d) /\ d.smState = row.to /\ d.row = r2
  BY <1>3 DEF TaskRecords, Same
<1> QED
  BY Zenon, <1>3, <1>5, <1>6, <1>7

\* A handled event keeps the invariant.
LEMMA HandleGood ==
  ASSUME NEW c \in TaskRecords, Tracked(c), NEW ev \in SMEventSet, NEW g \in BOOLEAN,
         NEW faults \in SUBSET AllFaults,
         ev.kind = "child-exit" => Over(c, ev.gen),
         NEW r \in HandleLoopEvent(c, ev, g, faults)
  PROVE  Good(ev.task, c, faults, r)
<1>0. ev.task \in Tasks /\ ev.kind \in SMEvents /\ ev.gen \in Nat /\ c.row.gen \in Nat
  BY Zenon DEF SMEventSet, TaskRecords, TrackerRows
<1>q. Reported(c) = {} \/ c.smState \in Live
  BY Zenon DEF Tracked
<1>1. CASE RestartRefused(c, ev)
  <2> DEFINE d == [c EXCEPT !.gateCleared = FALSE]
  <2>1. d \in TaskRecords /\ Same(c, d) /\ d.row = c.row /\ d.smState = c.smState
    BY ZenonT(40) DEF TaskRecords, Same
  <2>2. r = Done(d)
    BY <1>1 DEF HandleLoopEvent
  <2> HIDE DEF d
  <2> QED
    BY <2>1, <2>2, <1>0, <1>q, QuietGood
<1>2. CASE ~RestartRefused(c, ev) /\ StaleExit(c, ev)
  <2>1. r = Done(c)
    BY <1>2 DEF HandleLoopEvent
  <2> QED
    BY <2>1, <1>0, <1>q, QuietGood DEF Same
<1>3. CASE ~RestartRefused(c, ev) /\ ~StaleExit(c, ev)
  <2> DEFINE d == NoteExit(c, ev)
             i == [d EXCEPT !.smState = "idle"]
             row == Transition(CurrentState(c), ev.kind, SMContext(c, g))
             w == WriteBack(d, row)
  <2>1. ev.kind = "child-exit" => Reported(c) = {}
    BY <1>0, <1>3 DEF StaleExit, IsStale, Over
  <2>2. d \in TaskRecords /\ Same(c, d) /\ d.row = c.row /\ d.smState = c.smState
    BY ZenonT(40) DEF NoteExit, TaskRecords, Same
  <2>3. CASE DeliberateExit(c, ev)
    <3>1. r = Done(i)
      BY <1>3, <2>3 DEF HandleLoopEvent
    <3> HIDE DEF d
    <3>2. i \in TaskRecords /\ Same(c, i)
      BY Zenon, <2>2 DEF TaskRecords, Same, SMStates
    <3> HIDE DEF i
    <3> QED
      BY Zenon, <3>1, <3>2, <2>1, <2>3, <1>0, QuietGood DEF DeliberateExit
  <2>4. CASE ~DeliberateExit(c, ev) /\ ~row.matched
    <3>1. r = Done(d)
      BY Zenon, <1>3, <2>4 DEF HandleLoopEvent
    <3> HIDE DEF d, row
    <3> QED
      BY Zenon, <3>1, <2>2, <1>0, <1>q, QuietGood
  <2>5. CASE ~DeliberateExit(c, ev) /\ row.matched
    <3>1. r \in SideEffect(ev.task, w, row, ev, faults)
      BY Zenon, <1>3, <2>5 DEF HandleLoopEvent
    <3>2. row \in Rows /\ (row.create => row.to = "spawning")
      BY Zenon, <1>0, ContextType, TransitionType, CreateSpawns
    <3>3. Reported(c) # {} => ~row.create /\ row.to \in Live
      <4> SUFFICES ASSUME Reported(c) # {} PROVE ~row.create /\ row.to \in Live
        OBVIOUS
      <4>1. CurrentState(c) \in Live /\ ev.kind # "child-exit"
        BY Zenon, <1>q, <2>1 DEF CurrentState, Live
      <4> QED
        BY Zenon, <4>1, <1>0, ContextType, OnlyExitLeavesLive
    <3> HIDE DEF d, row
    <3>4. /\ w \in TaskRecords /\ Same(c, w) /\ w.smState = row.to
          /\ row.to # "idle" => w.row.state = c.row.state /\ w.row.pid = c.row.pid
      BY <2>2, <3>2, WriteBackUpdate DEF Same
    <3> HIDE DEF w
    <3>5. \/ Reported(c) = {}
          \/ /\ w.row.state = c.row.state /\ w.row.pid = c.row.pid
             /\ w.smState \in Live
      BY Zenon, <3>3, <3>4 DEF Live
    <3>6. /\ Tracked(w) /\ Reported(w) = Reported(c)
          /\ \A x \in Nat : Over(c, x) => Over(w, x)
      BY <3>4, <3>5, QuietStep DEF Same
    <3>7. SUFFICES Good(ev.task, w, faults, r)
      BY Zenon, <3>4, <3>6, GoodAfter DEF Same
    <3>8. CASE row.to = "spawning" /\ row.create
      <4>1. r \in CreateProcessEffect(ev.task, w, faults)
        BY <3>1, <3>8, Zenon DEF SideEffect
      <4> QED
        BY Zenon, <4>1, <3>3, <3>4, <3>6, <3>8, <1>0, CreateGood DEF Live
    <3>9. CASE row.to = "backoff"
      <4>1. r \in {Done(HandleBackoffWaiting(w))}
        BY <3>1, <3>9 DEF SideEffect
      <4>2. Reported(w) = {}
        BY Zenon, <3>3, <3>6, <3>9 DEF Live
      <4> QED
        BY Zenon, <4>1, <4>2, <3>4, <3>6, <1>0, BackoffUpdate, QuietGood
    <3>10. CASE row.to = "quarantined"
      <4> DEFINE p == IF ev.kind = "timer-due" THEN [w EXCEPT !.parole = TRUE] ELSE w
      <4>1. r \in {Done(p)}
        BY Zenon, <3>1, <3>10 DEF SideEffect
      <4>2. Reported(w) = {}
        BY Zenon, <3>3, <3>6, <3>10 DEF Live
      <4>3. p \in TaskRecords /\ Same(w, p)
        BY ZenonT(40), <3>4 DEF TaskRecords, Same
      <4> HIDE DEF p
      <4> QED
        BY Zenon, <4>1, <4>2, <4>3, <3>4, <3>6, <1>0, QuietGood
    <3>11. CASE row.to = "exiting"
      <4>1. r \in TerminateEffect(ev.task, w, faults)
        BY <3>1, <3>11, Zenon DEF SideEffect
      <4> QED
        BY Zenon, <4>1, <3>4, <3>6, <1>0, TerminateGood
    <3>12. CASE /\ ~(row.to = "spawning" /\ row.create)
                /\ row.to \notin {"backoff", "quarantined", "exiting"}
      <4>1. r \in {Done(w)}
        BY Zenon, <3>1, <3>12 DEF SideEffect
      <4>2. Reported(w) = {} \/ w.smState \in Live
        BY Zenon, <3>5, <3>6
      <4> QED
        BY Zenon, <4>1, <4>2, <3>4, <3>6, <1>0, QuietGood DEF Same
    <3> QED
      BY Zenon, <3>8, <3>9, <3>10, <3>11, <3>12
  <2> QED
    BY Zenon, <2>3, <2>4, <2>5
<1> QED
  BY Zenon, <1>1, <1>2, <1>3


---------------------------------------------------------------------------
(* Steps of the system.  Inv is inductive. *)

Inv == TypeOK /\ Consistent

\* The kinds of events the loop dispatches on.
LEMMA LoopEventKinds ==
  /\ \A e \in LoopEvents : e.kind \in SMEvents => e \in SMEventSet
  /\ \A e \in LoopEvents : e.kind = "reap-scan" => \E s \in [Tasks -> Wants] : e = ScanEvent(s)
  /\ \A e \in SMEventSet : e \in LoopEvents
  /\ \A s \in [Tasks -> Wants] : ScanEvent(s) \in LoopEvents /\ ScanEvent(s).kind = "reap-scan"
  /\ ParoleTick \in LoopEvents /\ ParoleTick.kind = "parole-tick"
  /\ "child-exit" \in SMEvents
<1>1. \A s \in [Tasks -> Wants] : ScanEvent(s).kind = "reap-scan"
  BY DEF ScanEvent
<1>2. ParoleTick.kind = "parole-tick"
  BY DEF ParoleTick
<1>3. /\ "reap-scan" \notin SMEvents /\ "parole-tick" \notin SMEvents
      /\ "child-exit" \in SMEvents
  BY DEF SMEvents
<1>4. \A e \in SMEventSet : e.kind \in SMEvents
  BY Zenon DEF SMEventSet
<1> QED
  BY Zenon, <1>1, <1>2, <1>3, <1>4 DEF LoopEvents

\* Consistent is kept by a step that revives no exit, moves the events of the
\* channels and adds exits only of children that are over.
LEMMA ConsistentStep ==
  ASSUME Inv, TypeOK',
         \A t \in Tasks :
            /\ Tracked(task'[t])
            /\ \A g \in Nat \ {0} : Over(task[t], g) => Over(task'[t], g)
            /\ \/ task'[t].verdict \in {0, task[t].verdict}
               \/ Over(task'[t], task'[t].verdict),
         \A i \in DOMAIN ch' :
            \/ \E j \in DOMAIN ch : ch'[i] = ch[j]
            \/ ch'[i].kind = "child-exit" => ch'[i].gen > 0 /\ Over(task'[ch'[i].task], ch'[i].gen),
         \A i \in DOMAIN selfq' :
            selfq'[i].kind = "child-exit" => Over(task'[selfq'[i].task], selfq'[i].gen),
         \A i \in DOMAIN wq' : wq'[i].kind # "child-exit",
         OneSelfEvent'
  PROVE  Inv'
<1>1. \A i \in DOMAIN ch' :
         ch'[i].kind = "child-exit" => ch'[i].gen > 0 /\ Over(task'[ch'[i].task], ch'[i].gen)
  <2> SUFFICES ASSUME NEW i \in DOMAIN ch', ch'[i].kind = "child-exit",
                      NEW j \in DOMAIN ch, ch'[i] = ch[j]
               PROVE  ch'[i].gen > 0 /\ Over(task'[ch'[i].task], ch'[i].gen)
    BY Zenon
  <2>1. ch[j] \in LoopEvents
    BY DEF Inv, TypeOK
  <2>2. ch[j] \in SMEventSet
    BY <2>1, LoopEventKinds
  <2>3. ch[j].task \in Tasks /\ ch[j].gen \in Nat
    BY Zenon, <2>2 DEF SMEventSet
  <2>4. ch[j].gen > 0 /\ Over(task[ch[j].task], ch[j].gen)
    BY Zenon DEF Inv, Consistent, ExitsAreOver
  <2> QED
    BY <2>3, <2>4
<1>2. \A t \in Tasks : task'[t].verdict > 0 => Over(task'[t], task'[t].verdict)
  <2> SUFFICES ASSUME NEW t \in Tasks, task'[t].verdict > 0, task'[t].verdict = task[t].verdict
               PROVE  Over(task'[t], task'[t].verdict)
    OBVIOUS
  <2>1. task[t].verdict \in Nat \ {0}
    <3>1. task[t] \in TaskRecords
      BY Zenon DEF Inv, TypeOK
    <3> QED
      BY <3>1 DEF TaskRecords
  <2>2. Over(task[t], task[t].verdict)
    BY Zenon, <2>1 DEF Inv, Consistent, ExitsAreOver
  <2> QED
    BY Zenon, <2>1, <2>2
<1> QED
  BY Zenon, <1>1, <1>2 DEF Inv, Consistent, ExitsAreOver

\* The same for a step outside the loop, which updates one daemon and may
\* append an event to the external channel.
LEMMA OffLoopStep ==
  ASSUME Inv, NEW t \in Tasks, NEW d \in TaskRecords, Tracked(d), Update(t, d),
         \A g \in Nat : Over(task[t], g) => Over(d, g),
         d.verdict \in {0, task[t].verdict} \/ Over(d, d.verdict),
         \/ UNCHANGED ch
         \/ \E e \in SMEventSet : /\ ch' = Append(ch, e)
                                  /\ e.kind = "child-exit" => e.task = t /\ e.gen > 0 /\ Over(d, e.gen),
         starting' \in [Tasks -> {"start", "terminate", "done"}],
         budget' \in [Inputs -> Nat],
         UNCHANGED <<selfq, disk, prev, wq, graceful>>
  PROVE  Inv'
<1>0. TypeOK
  BY Zenon DEF Inv
<1>1. task' \in [Tasks -> TaskRecords] /\ task'[t] = d /\ \A u \in Tasks \ {t} : task'[u] = task[u]
  BY Zenon, <1>0 DEF TypeOK, Update
<1>2. ch' \in Seq(LoopEvents)
  <2>1. ch \in Seq(LoopEvents)
    BY Zenon, <1>0 DEF TypeOK
  <2>2. \A e \in SMEventSet : Append(ch, e) \in Seq(LoopEvents)
    BY <2>1, LoopEventKinds
  <2> QED
    BY Zenon, <2>1, <2>2
<1>3. TypeOK'
  BY Zenon, <1>0, <1>1, <1>2 DEF TypeOK
<1>4. \A u \in Tasks : /\ Tracked(task'[u])
                       /\ \A g \in Nat : Over(task[u], g) => Over(task'[u], g)
                       /\ \/ task'[u].verdict \in {0, task[u].verdict}
                          \/ Over(task'[u], task'[u].verdict)
  <2>1. \A u \in Tasks : Tracked(task[u])
    BY Zenon DEF Inv, Consistent
  <2> QED
    BY Zenon, <1>1, <2>1
<1>5. \A i \in DOMAIN ch' :
         \/ \E j \in DOMAIN ch : ch'[i] = ch[j]
         \/ ch'[i].kind = "child-exit" => ch'[i].gen > 0 /\ Over(task'[ch'[i].task], ch'[i].gen)
  <2>1. CASE UNCHANGED ch
    BY <2>1
  <2>2. CASE ~UNCHANGED ch
    <3>1. PICK e \in SMEventSet :
               /\ ch' = Append(ch, e)
               /\ e.kind = "child-exit" => e.task = t /\ e.gen > 0 /\ Over(d, e.gen)
      BY <2>2
    <3>2. ch \in Seq(LoopEvents)
      BY Zenon, <1>0 DEF TypeOK
    <3>3. \A i \in DOMAIN ch' : ch'[i] = e \/ (i \in DOMAIN ch /\ ch'[i] = ch[i])
      BY <3>1, <3>2
    <3> QED
      BY Zenon, <3>1, <3>3, <1>1
  <2> QED
    BY Zenon, <2>1, <2>2
<1>6. \A i \in DOMAIN selfq' :
         selfq'[i].kind = "child-exit" => Over(task'[selfq'[i].task], selfq'[i].gen)
  <2> SUFFICES ASSUME NEW i \in DOMAIN selfq, selfq[i].kind = "child-exit"
               PROVE  Over(task'[selfq[i].task], selfq[i].gen)
    BY Zenon
  <2>1. selfq[i] \in SMEventSet
    BY <1>0 DEF TypeOK
  <2>2. selfq[i].task \in Tasks /\ selfq[i].gen \in Nat
    BY Zenon, <2>1 DEF SMEventSet
  <2>3. Over(task[selfq[i].task], selfq[i].gen)
    BY Zenon DEF Inv, Consistent, ExitsAreOver
  <2> QED
    BY Zenon, <2>2, <2>3, <1>4
<1>7. OneSelfEvent' /\ \A i \in DOMAIN wq' : wq'[i].kind # "child-exit"
  BY Zenon DEF Inv, Consistent, ExitsAreOver, OneSelfEvent
<1> QED
  BY Zenon, <1>3, <1>4, <1>5, <1>6, <1>7, ConsistentStep

\* The loop handles a state-machine event; q is the self channel without it.
LEMMA DispatchStep ==
  ASSUME Inv, NEW ev \in SMEventSet, NEW q \in Seq(SMEventSet), Dispatch(ev, q),
         ev.kind = "child-exit" => Over(task[ev.task], ev.gen),
         \A i \in DOMAIN q : q[i].task # ev.task /\ \E j \in DOMAIN selfq : q[i] = selfq[j],
         \A i, j \in DOMAIN q : q[i].task = q[j].task => i = j,
         \/ UNCHANGED ch
         \/ ch # <<>> /\ ch' = Tail(ch),
         UNCHANGED <<starting, disk, prev, wq, graceful>>
  PROVE  Inv'
<1> DEFINE t == ev.task
           c == task[t]
<1>0. /\ TypeOK /\ t \in Tasks /\ c \in TaskRecords /\ Tracked(c) /\ graceful \in BOOLEAN
      /\ budget \in [Inputs -> Nat]
  BY DEF Inv, TypeOK, SMEventSet, Consistent
<1>1. AllowedFaults \in SUBSET AllFaults /\ (AllowedFaults # {} => budget["fault"] > 0)
  BY ZenonT(40), ControllerAssumptions DEF AllowedFaults
<1>2. PICK r \in HandleLoopEvent(c, ev, graceful, AllowedFaults) :
           /\ Update(t, r.c)
           /\ selfq' = PostSelf(q, r.self)
           /\ budget' = [budget EXCEPT !["fault"] = @ - r.fault]
  BY ZenonT(40) DEF Dispatch
<1>3. Good(t, c, AllowedFaults, r)
  BY Zenon, <1>0, <1>1, HandleGood
<1> HIDE DEF c
<1>4. task' \in [Tasks -> TaskRecords] /\ task'[t] = r.c /\ \A u \in Tasks \ {t} : task'[u] = task[u]
  BY <1>0, <1>2, <1>3 DEF TypeOK, Update, Good
<1>5. budget' \in [Inputs -> Nat]
  <2>1. "fault" \in Inputs
    BY Zenon DEF Inputs
  <2>2. budget["fault"] - r.fault \in Nat
    BY <2>1, <1>0, <1>1, <1>3 DEF Good
  <2> QED
    BY ZenonT(40), <2>2, <1>0, <1>2
<1>6. \/ selfq' = q
      \/ \E e \in SMEventSet : /\ selfq' = Append(q, e) /\ e.task = t
                               /\ e.kind = "child-exit" => Over(r.c, e.gen)
  <2>1. CASE r.self = <<>>
    BY SMTT(40), <2>1, <1>2 DEF PostSelf
  <2>2. CASE r.self # <<>>
    <3>1. PICK e \in SMEventSet : /\ r.self = <<e>> /\ e.task = t
                                  /\ e.kind = "child-exit" => Over(r.c, e.gen)
      BY Zenon, <2>2, <1>3 DEF Good
    <3>2. q \o <<e>> = Append(q, e)
      OBVIOUS
    <3> QED
      BY Zenon, <3>1, <3>2, <1>2 DEF PostSelf
  <2> QED
    BY Zenon, <2>1, <2>2
<1>7. selfq' \in Seq(SMEventSet)
  BY <1>6
<1>8. \A i \in DOMAIN selfq' :
         \/ i \in DOMAIN q /\ selfq'[i] = q[i]
         \/ /\ i = Len(q) + 1 /\ selfq'[i].task = t
            /\ selfq'[i].kind = "child-exit" => Over(r.c, selfq'[i].gen)
  BY <1>6
<1>9. OneSelfEvent'
  BY Zenon, <1>8 DEF OneSelfEvent
<1>10. \A i \in DOMAIN selfq' :
          selfq'[i].kind = "child-exit" => Over(task'[selfq'[i].task], selfq'[i].gen)
  <2> SUFFICES ASSUME NEW i \in DOMAIN selfq', selfq'[i].kind = "child-exit"
               PROVE  Over(task'[selfq'[i].task], selfq'[i].gen)
    BY Zenon
  <2>1. CASE selfq'[i].task = t
    BY Zenon, <2>1, <1>4, <1>8
  <2>2. CASE selfq'[i].task # t
    <3>1. PICK j \in DOMAIN selfq : selfq'[i] = selfq[j]
      BY ZenonT(40), <2>2, <1>8
    <3>2. selfq[j] \in SMEventSet
      BY <1>0 DEF TypeOK
    <3>3. selfq[j].task \in Tasks \ {t}
      BY Zenon, <3>1, <3>2, <2>2 DEF SMEventSet
    <3>4. Over(task[selfq[j].task], selfq[j].gen)
      BY Zenon, <3>1 DEF Inv, Consistent, ExitsAreOver
    <3> QED
      BY Zenon, <3>1, <3>3, <3>4, <1>4
  <2> QED
    BY Zenon, <2>1, <2>2
<1>11. ch' \in Seq(LoopEvents) /\ \A i \in DOMAIN ch' : \E j \in DOMAIN ch : ch'[i] = ch[j]
  <2>1. ch \in Seq(LoopEvents)
    BY Zenon, <1>0 DEF TypeOK
  <2>2. CASE ch # <<>> /\ ch' = Tail(ch)
    <3>1. ch' \in Seq(LoopEvents) /\ \A i \in DOMAIN ch' : i + 1 \in DOMAIN ch /\ ch'[i] = ch[i + 1]
      BY SMTT(40), <2>1, <2>2
    <3> QED
      BY Zenon, <3>1
  <2> QED
    BY Zenon, <2>1, <2>2
<1>12. TypeOK'
  BY Zenon, <1>0, <1>4, <1>5, <1>7, <1>11 DEF TypeOK
<1>13. \A u \in Tasks : /\ Tracked(task'[u])
                        /\ \A g \in Nat \ {0} : Over(task[u], g) => Over(task'[u], g)
                        /\ \/ task'[u].verdict \in {0, task[u].verdict}
                           \/ Over(task'[u], task'[u].verdict)
  <2>1. \A u \in Tasks : Tracked(task[u])
    BY DEF Inv, Consistent
  <2>2. /\ Tracked(r.c) /\ r.c.verdict = task[t].verdict
        /\ \A g \in Nat \ {0} : Over(task[t], g) => Over(r.c, g)
    BY ZenonT(40), <1>3 DEF Good, c
  <2>3. ASSUME NEW u \in Tasks, u # t PROVE task'[u] = task[u]
    BY ZenonT(40), <2>3, <1>4
  <2> QED
    BY ZenonT(40), <2>1, <2>2, <2>3, <1>4
<1>14. \A i \in DOMAIN wq' : wq'[i].kind # "child-exit"
  BY Zenon DEF Inv, Consistent, ExitsAreOver
<1> QED
  BY ZenonT(40), <1>9, <1>10, <1>11, <1>12, <1>13, <1>14, ConsistentStep

\* The loop handles an event it posted to itself.
LEMMA HandleSelfStep ==
  ASSUME Inv, HandleSelf
  PROVE  Inv'
<1>1. selfq \in Seq(SMEventSet) /\ selfq # <<>>
  BY DEF Inv, TypeOK, HandleSelf
<1> DEFINE ev == Head(selfq)
           q == Tail(selfq)
<1>2. ev \in SMEventSet /\ q \in Seq(SMEventSet) /\ 1 \in DOMAIN selfq /\ ev = selfq[1]
  BY <1>1
<1>3. \A i \in DOMAIN q : i + 1 \in DOMAIN selfq /\ q[i] = selfq[i + 1]
  BY SMTT(40), <1>1
<1>4. ev.kind = "child-exit" => Over(task[ev.task], ev.gen)
  BY <1>2 DEF Inv, Consistent, ExitsAreOver
<1>5. \A i \in DOMAIN q : i \in Nat /\ i >= 1
  BY <1>1
<1>6. Dispatch(ev, q)
  BY Zenon DEF HandleSelf
<1> HIDE DEF ev, q
<1>7. \A i \in DOMAIN q : q[i].task # ev.task /\ \E j \in DOMAIN selfq : q[i] = selfq[j]
  BY <1>2, <1>3, <1>5 DEF Inv, Consistent, OneSelfEvent
<1>8. \A i, j \in DOMAIN q : q[i].task = q[j].task => i = j
  BY <1>3, <1>5 DEF Inv, Consistent, OneSelfEvent
<1> QED
  BY Zenon, <1>2, <1>4, <1>6, <1>7, <1>8, DispatchStep DEF HandleSelf

\* The loop handles an event posted from outside.
LEMMA HandleEventStep ==
  ASSUME Inv, HandleEvent
  PROVE  Inv'
<1>1. ch \in Seq(LoopEvents) /\ ch # <<>>
  BY DEF Inv, TypeOK, HandleEvent
<1>2. Head(ch) \in LoopEvents /\ Head(ch) = ch[1] /\ 1 \in DOMAIN ch
  BY <1>1
<1>3. Head(ch) \in SMEventSet
  BY Zenon, <1>2, LoopEventKinds DEF HandleEvent
<1>4. Head(ch).kind = "child-exit" => Over(task[Head(ch).task], Head(ch).gen)
  BY <1>2 DEF Inv, Consistent, ExitsAreOver
<1>5. <<>> \in Seq(SMEventSet) /\ DOMAIN <<>> = {}
  BY SMTT(40)
<1> QED
  BY ZenonT(40), <1>1, <1>3, <1>4, <1>5, DispatchStep DEF HandleEvent

\* A loop step that changes only what Tracked and Over do not read.
LEMMA FlagsStep ==
  ASSUME Inv, ch # <<>>, ch' = Tail(ch), TypeOK',
         \A t \in Tasks : /\ Same(task[t], task'[t]) /\ task'[t].row = task[t].row
                          /\ task'[t].smState = task[t].smState,
         \A i \in DOMAIN selfq' : selfq'[i].kind # "child-exit",
         OneSelfEvent', UNCHANGED wq
  PROVE  Inv'
<1>1. \A t \in Tasks : /\ Tracked(task'[t])
                       /\ \A g \in Nat \ {0} : Over(task[t], g) => Over(task'[t], g)
                       /\ task'[t].verdict = task[t].verdict
  <2> SUFFICES ASSUME NEW t \in Tasks
               PROVE  /\ Tracked(task'[t])
                      /\ \A g \in Nat \ {0} : Over(task[t], g) => Over(task'[t], g)
                      /\ task'[t].verdict = task[t].verdict
    BY Zenon
  <2>1. task[t] \in TaskRecords /\ task'[t] \in TaskRecords /\ Tracked(task[t])
    BY DEF Inv, TypeOK, Consistent
  <2> QED
    BY Zenon, <2>1, FlagStep DEF Same
<1>2. \A i \in DOMAIN ch' : \E j \in DOMAIN ch : ch'[i] = ch[j]
  <2>1. ch \in Seq(LoopEvents)
    BY Zenon DEF Inv, TypeOK
  <2>2. \A i \in DOMAIN ch' : i + 1 \in DOMAIN ch /\ ch'[i] = ch[i + 1]
    BY <2>1
  <2> QED
    BY Zenon, <2>2
<1>3. \A i \in DOMAIN wq' : wq'[i].kind # "child-exit"
  BY DEF Inv, Consistent, ExitsAreOver
<1> QED
  BY Zenon, <1>1, <1>2, <1>3, ConsistentStep

\* The loop swaps the intent caches.
LEMMA HandleReapScanStep ==
  ASSUME Inv, HandleReapScan
  PROVE  Inv'
<1>0. TypeOK /\ ch # <<>> /\ ch \in Seq(LoopEvents) /\ selfq = <<>>
  BY DEF Inv, TypeOK, HandleReapScan
<1>1. PICK s \in [Tasks -> Wants] : Head(ch) = ScanEvent(s)
  <2>1. Head(ch) \in LoopEvents
    BY <1>0
  <2> QED
    BY <2>1, LoopEventKinds DEF HandleReapScan
<1>2. task' = [t \in Tasks |-> [task[t] EXCEPT !.want = s[t]]]
  BY <1>1 DEF HandleReapScan, ScanEvent
<1>3. \A t \in Tasks : /\ task'[t] \in TaskRecords /\ Same(task[t], task'[t])
                       /\ task'[t].row = task[t].row /\ task'[t].smState = task[t].smState
  <2> SUFFICES ASSUME NEW t \in Tasks
               PROVE  /\ task'[t] \in TaskRecords /\ Same(task[t], task'[t])
                      /\ task'[t].row = task[t].row /\ task'[t].smState = task[t].smState
    OBVIOUS
  <2>1. task[t] \in TaskRecords /\ s[t] \in Wants /\ task'[t] = [task[t] EXCEPT !.want = s[t]]
    BY <1>0, <1>2 DEF TypeOK
  <2> QED
    BY Zenon, <2>1 DEF TaskRecords, Same
<1>4. ch' \in Seq(LoopEvents)
  BY <1>0 DEF HandleReapScan
<1>5. TypeOK'
  BY ZenonT(40), <1>0, <1>2, <1>3, <1>4 DEF TypeOK, HandleReapScan
<1>6. selfq' = <<>>
  BY <1>0 DEF HandleReapScan
<1>7. OneSelfEvent'
  BY <1>6 DEF OneSelfEvent
<1> QED
  BY <1>0, <1>3, <1>5, <1>6, <1>7, FlagsStep DEF HandleReapScan

\* An order of the quarantined daemons lists each of them once.
LEMMA OrdersType ==
  ASSUME NEW S \in SUBSET Tasks, NEW order \in Orders(S)
  PROVE  /\ Cardinality(S) \in Nat /\ order \in [1..Cardinality(S) -> S]
         /\ \A i, j \in 1..Cardinality(S) : order[i] = order[j] => i = j
<1>1. Cardinality(S) \in Nat
  BY ControllerAssumptions
<1> QED
  BY Zenon, <1>1 DEF Orders

\* The loop runs a parole tick.
LEMMA HandleParoleTickStep ==
  ASSUME Inv, HandleParoleTick
  PROVE  Inv'
<1>0. /\ TypeOK /\ ch # <<>> /\ ch \in Seq(LoopEvents) /\ selfq = <<>>
      /\ ch' = Tail(ch) /\ ch' \in Seq(LoopEvents)
      /\ UNCHANGED <<starting, disk, prev, wq, graceful, budget>>
  BY DEF Inv, TypeOK, HandleParoleTick
<1>1. CASE graceful
  <2>1. task' = task /\ selfq' = <<>>
    BY Zenon, <1>0, <1>1 DEF HandleParoleTick
  <2>2. TypeOK' /\ OneSelfEvent'
    BY SMTT(40), <1>0, <2>1 DEF TypeOK, OneSelfEvent
  <2> QED
    BY <1>0, <2>1, <2>2, FlagsStep DEF Same
<1>2. CASE ~graceful
  <2>1. PICK cooled \in SUBSET {t \in Tasks : Paroled(task[t])},
             stable \in SUBSET {t \in Tasks : task[t].parole /\ task[t].smState = "running"} :
               /\ \E order \in Orders(cooled) :
                    selfq' = [i \in 1..Cardinality(cooled) |-> AutoRestart(order[i])]
               /\ task' = [t \in Tasks |->
                            [task[t] EXCEPT !.parole =
                               @ /\ t \notin stable /\ task[t].smState \notin {"none", "idle"}]]
    BY ZenonT(40), <1>2 DEF HandleParoleTick
  <2>2. \A t \in Tasks : /\ task'[t] \in TaskRecords /\ Same(task[t], task'[t])
                         /\ task'[t].row = task[t].row /\ task'[t].smState = task[t].smState
    <3> SUFFICES ASSUME NEW t \in Tasks
                 PROVE  /\ task'[t] \in TaskRecords /\ Same(task[t], task'[t])
                        /\ task'[t].row = task[t].row /\ task'[t].smState = task[t].smState
      OBVIOUS
    <3> DEFINE p == task[t].parole /\ t \notin stable /\ task[t].smState \notin {"none", "idle"}
    <3>1. task[t] \in TaskRecords /\ task'[t] = [task[t] EXCEPT !.parole = p]
      BY <1>0, <2>1 DEF TypeOK
    <3>2. p \in BOOLEAN
      BY <3>1 DEF TaskRecords
    <3> HIDE DEF p
    <3> QED
      BY Zenon, <3>1, <3>2 DEF TaskRecords, Same
  <2>o. PICK order \in Orders(cooled) :
             selfq' = [i \in 1..Cardinality(cooled) |-> AutoRestart(order[i])]
    BY Zenon, <2>1
  <2>3. /\ Cardinality(cooled) \in Nat /\ order \in [1..Cardinality(cooled) -> Tasks]
        /\ \A i, j \in 1..Cardinality(cooled) : order[i] = order[j] => i = j
    BY SMTT(40), OrdersType
  <2>4. \A i \in 1..Cardinality(cooled) :
           /\ AutoRestart(order[i]) \in SMEventSet /\ AutoRestart(order[i]).task = order[i]
           /\ AutoRestart(order[i]).kind # "child-exit"
    BY Zenon, <2>3, EventTypes
  <2>5. selfq' \in Seq(SMEventSet) /\ DOMAIN selfq' = 1..Cardinality(cooled)
    BY SMTT(40), <2>o, <2>3, <2>4
  <2>6. OneSelfEvent' /\ \A i \in DOMAIN selfq' : selfq'[i].kind # "child-exit"
    BY <2>o, <2>3, <2>4, <2>5 DEF OneSelfEvent
  <2>7. task' \in [Tasks -> TaskRecords]
    BY Zenon, <2>1, <2>2
  <2>8. TypeOK'
    BY Zenon, <1>0, <2>5, <2>7 DEF TypeOK
  <2> QED
    BY Zenon, <1>0, <2>2, <2>6, <2>8, FlagsStep
<1> QED
  BY Zenon, <1>1, <1>2

\* Every step of the loop keeps the invariant.
LEMMA LoopStep ==
  ASSUME Inv, Loop
  PROVE  Inv'
BY Zenon, HandleSelfStep, HandleEventStep, HandleReapScanStep, HandleParoleTickStep DEF Loop

---------------------------------------------------------------------------
(* Steps of the goroutines around the loop. *)

\* An ended child that is not stale is the last one: no reported child lives.
LEMMA EndedIsOver ==
  ASSUME NEW c \in TaskRecords, Tracked(c), NEW k \in c.children, k.life # "alive"
  PROVE  k.gen > 0 /\ Over(c, k.gen)
<1>1. k \in Children /\ k.gen \in Nat
  BY Zenon DEF TaskRecords, Children
<1>2. k.gen > 0 /\ k.gen <= c.row.gen
  BY DEF Tracked
<1>3. ASSUME k.gen = c.row.gen, NEW x \in Reported(c) PROVE FALSE
  <2>1. x \in c.children /\ x.gen = k.gen /\ x # k
    BY <1>3 DEF Tracked, Reported, Alive
  <2> QED
    BY Zenon, <2>1, <1>2 DEF Tracked
<1> QED
  BY <1>1, <1>2, <1>3 DEF Over

\* The wait goroutine reports an ended child: the child is marked or dropped.
LEMMA ReapStep ==
  ASSUME NEW c \in TaskRecords, NEW d \in TaskRecords, Tracked(c),
         NEW k \in c.children, k.life # "alive",
         d.children \in {c.children \ {k},
                         (c.children \ {k}) \cup {[k EXCEPT !.life = "marked"]}},
         d.spawned = c.spawned, d.row.gen = c.row.gen, d.smState = c.smState,
         \/ Reported(c) = {}
         \/ (d.row.state = c.row.state /\ d.row.pid = c.row.pid)
  PROVE  /\ Tracked(d)
         /\ \A g \in Nat : Over(c, g) => Over(d, g)
<1> DEFINE m == [k EXCEPT !.life = "marked"]
<1>k. k \in Children /\ k.waited
  BY DEF TaskRecords, Tracked
<1>m. m \in Children /\ m.pid = k.pid /\ m.gen = k.gen /\ m.life = "marked" /\ m.waited
  BY <1>k DEF Children
<1>1. \A x \in d.children : (x \in c.children /\ x # k) \/ x = m
  OBVIOUS
<1> HIDE DEF m
<1>2. Reported(d) \subseteq Reported(c)
  BY Zenon, <1>1, <1>m DEF Reported, Alive
<1>3. \A x \in d.children : /\ 1 <= x.pid /\ x.pid <= d.spawned /\ x.gen <= d.row.gen
                            /\ x.waited => x.gen > 0
                            /\ x.life # "alive" => x.waited
  BY <1>1, <1>m, <1>k DEF Tracked
<1>4. \A x, y \in d.children : x.pid = y.pid \/ (x.gen = y.gen /\ x.gen > 0) => x = y
  <2> SUFFICES ASSUME NEW x \in d.children, NEW y \in d.children,
                      x.pid = y.pid \/ (x.gen = y.gen /\ x.gen > 0)
               PROVE  x = y
    OBVIOUS
  <2>1. CASE x # m /\ y # m
    BY Zenon, <2>1, <1>1 DEF Tracked
  <2>2. CASE x = m /\ y # m
    BY <2>2, <1>1, <1>m DEF Tracked
  <2>3. CASE x # m /\ y = m
    BY <2>3, <1>1, <1>m DEF Tracked
  <2> QED
    BY <2>1, <2>2, <2>3
<1>5. Tracked(d)
  BY Zenon, <1>2, <1>3, <1>4 DEF Tracked
<1> QED
  BY Zenon, <1>2, <1>5 DEF Over

\* Spending from a budget keeps it a budget.
LEMMA SpendType ==
  ASSUME Inv, NEW input \in Inputs, Spend(input)
  PROVE  budget' \in [Inputs -> Nat]
<1>1. budget \in [Inputs -> Nat] /\ budget[input] > 0
  BY DEF Inv, TypeOK, Spend
<1>2. budget[input] - 1 \in Nat
  BY <1>1
<1> QED
  BY Zenon, <1>1, <1>2 DEF Spend

\* A child exits.
LEMMA ChildDiesStep ==
  ASSUME Inv, NEW t \in Tasks, ChildDies(t)
  PROVE  Inv'
<1>1. PICK k \in Alive(task[t]), clean \in BOOLEAN :
           /\ Spend("death")
           /\ Update(t, [task[t] EXCEPT !.children = Exited(@, k, clean)])
           /\ UNCHANGED <<ch, selfq, starting, disk, prev, wq, graceful>>
  BY Zenon DEF ChildDies
<1> DEFINE c == task[t]
           d == [c EXCEPT !.children = Exited(c.children, k, clean)]
<1>2. c \in TaskRecords /\ Tracked(c)
  BY DEF Inv, TypeOK, Consistent
<1>u. Update(t, d)
  BY <1>1
<1> HIDE DEF c
<1>3. k \in Children /\ c.children \in SUBSET Children
  BY <1>1, <1>2 DEF Alive, TaskRecords, c
<1>4. [k EXCEPT !.life = "dead", !.clean = clean] \in Children
  BY ZenonT(40), <1>3 DEF Children
<1>5. Exited(c.children, k, clean) \in SUBSET Children
  BY <1>3, <1>4 DEF Exited
<1>6. /\ d \in TaskRecords /\ d.children = Exited(c.children, k, clean)
      /\ d.spawned = c.spawned /\ d.row = c.row /\ d.smState = c.smState
      /\ d.verdict = c.verdict
  BY Zenon, <1>2, <1>5 DEF TaskRecords
<1> HIDE DEF d
<1>7. Tracked(d) /\ \A g \in Nat : Over(c, g) => Over(d, g)
  <2>1. k \in Alive(c)
    BY DEF c
  <2> QED
    BY Zenon, <1>2, <1>6, <2>1, KillStep
<1>8. budget' \in [Inputs -> Nat] /\ starting' \in [Tasks -> {"start", "terminate", "done"}]
  BY <1>1, SpendType DEF Inputs, Inv, TypeOK
<1> QED
  BY Zenon, <1>1, <1>6, <1>7, <1>8, <1>u, OffLoopStep DEF c

\* The wait goroutine marks the tracker row.
LEMMA WaitMarksExitStep ==
  ASSUME Inv, NEW t \in Tasks, WaitMarksExit(t)
  PROVE  Inv'
<1> DEFINE c == task[t]
<1>1. PICK k \in c.children :
           /\ k.life = "dead"
           /\ Update(t, [c EXCEPT
                !.row = MarkExitedIfCurrent(@, k.gen),
                !.children = IF IsStale(c.row, k.gen) THEN c.children \ {k}
                             ELSE (c.children \ {k}) \cup {[k EXCEPT !.life = "marked"]}])
           /\ UNCHANGED <<ch, selfq, starting, disk, prev, wq, graceful, budget>>
  BY ZenonT(40) DEF WaitMarksExit
<1> DEFINE r == MarkExitedIfCurrent(c.row, k.gen)
           ks == IF IsStale(c.row, k.gen) THEN c.children \ {k}
                 ELSE (c.children \ {k}) \cup {[k EXCEPT !.life = "marked"]}
           d == [c EXCEPT !.row = r, !.children = ks]
<1>u. Update(t, d)
  BY Zenon, <1>1
<1>2. c \in TaskRecords /\ Tracked(c)
  BY Zenon DEF Inv, TypeOK, Consistent
<1> HIDE DEF c
<1>3. /\ k \in Children /\ c.children \in SUBSET Children /\ c.row \in TrackerRows
      /\ k.gen \in Nat /\ c.row.gen \in Nat
  BY <1>2 DEF TaskRecords, TrackerRows, Children
<1>4. [k EXCEPT !.life = "marked"] \in Children
  BY <1>3 DEF Children
<1>5. ks \in SUBSET Children
  BY Zenon, <1>3, <1>4
<1>6. r \in TrackerRows /\ r.gen = c.row.gen
  BY Zenon, <1>3, RowOps DEF MarkExitedIfCurrent, MarkExited, TrackerStates
<1>7. Reported(c) = {} \/ (r.state = c.row.state /\ r.pid = c.row.pid)
  <2>1. CASE IsStale(c.row, k.gen)
    BY Zenon, <2>1 DEF MarkExitedIfCurrent
  <2>2. CASE ~IsStale(c.row, k.gen)
    <3>1. Over(c, k.gen)
      BY Zenon, <1>1, <1>2, EndedIsOver
    <3> QED
      BY <2>2, <3>1, <1>3 DEF IsStale, Over
  <2> QED
    BY Zenon, <2>1, <2>2
<1>8. ks \in {c.children \ {k}, (c.children \ {k}) \cup {[k EXCEPT !.life = "marked"]}}
  OBVIOUS
<1> HIDE DEF r, ks
<1>9. /\ d \in TaskRecords /\ d.children = ks /\ d.row = r
      /\ d.spawned = c.spawned /\ d.smState = c.smState /\ d.verdict = c.verdict
  BY ZenonT(40), <1>2, <1>5, <1>6 DEF TaskRecords
<1> HIDE DEF d
<1>10. Tracked(d) /\ \A g \in Nat : Over(c, g) => Over(d, g)
  <2>1. k.life # "alive"
    BY <1>1
  <2> QED
    BY Zenon, <2>1, <1>2, <1>6, <1>7, <1>8, <1>9, ReapStep
<1>11. budget' \in [Inputs -> Nat] /\ starting' \in [Tasks -> {"start", "terminate", "done"}]
  BY <1>1 DEF Inv, TypeOK
<1> QED
  BY Zenon, <1>1, <1>9, <1>10, <1>11, <1>u, OffLoopStep DEF c

\* The wait goroutine posts the exit.
LEMMA WaitPostsExitStep ==
  ASSUME Inv, NEW t \in Tasks, WaitPostsExit(t)
  PROVE  Inv'
<1> DEFINE c == task[t]
<1>1. PICK k \in c.children :
           /\ k.life = "marked"
           /\ Post(ExitEvent(t, k.gen, k.clean))
           /\ Update(t, [c EXCEPT !.children = @ \ {k}])
           /\ UNCHANGED <<selfq, starting, disk, prev, wq, graceful, budget>>
  BY ZenonT(40) DEF WaitPostsExit
<1> DEFINE d == [c EXCEPT !.children = c.children \ {k}]
           e == ExitEvent(t, k.gen, k.clean)
<1>u. Update(t, d) /\ ch' = Append(ch, e)
  BY Zenon, <1>1 DEF Post
<1>2. c \in TaskRecords /\ Tracked(c)
  BY DEF Inv, TypeOK, Consistent
<1> HIDE DEF c
<1>3. k.gen \in Nat /\ k.clean \in BOOLEAN
  BY <1>2 DEF TaskRecords, Children
<1>4. /\ d \in TaskRecords /\ d.children = c.children \ {k} /\ d.row = c.row
      /\ d.spawned = c.spawned /\ d.smState = c.smState /\ d.verdict = c.verdict
  BY <1>2 DEF TaskRecords
<1> HIDE DEF d
<1>5. k.life # "alive"
  BY <1>1
<1>6. Tracked(d) /\ \A g \in Nat : Over(c, g) => Over(d, g)
  BY Zenon, <1>2, <1>4, <1>5, ReapStep
<1>7. e \in SMEventSet /\ e.task = t /\ e.gen = k.gen
  BY SMTT(40), <1>3, EventTypes
<1>8. e.gen > 0 /\ Over(d, e.gen)
  BY Zenon, <1>2, <1>3, <1>5, <1>6, <1>7, EndedIsOver
<1> HIDE DEF e
<1>9. budget' \in [Inputs -> Nat] /\ starting' \in [Tasks -> {"start", "terminate", "done"}]
  BY Zenon, <1>1 DEF Inv, TypeOK
<1> QED
  BY Zenon, <1>1, <1>4, <1>6, <1>7, <1>8, <1>9, <1>u, OffLoopStep DEF c

\* A goroutine updates what Tracked and Over do not read, and may post an
\* event that is no exit.
LEMMA FlagPostStep ==
  ASSUME Inv, NEW t \in Tasks, NEW d \in TaskRecords, Update(t, d),
         Same(task[t], d), d.smState = task[t].smState,
         d.row.state = task[t].row.state, d.row.pid = task[t].row.pid,
         \/ UNCHANGED ch
         \/ \E e \in SMEventSet : e.kind # "child-exit" /\ ch' = Append(ch, e),
         starting' \in [Tasks -> {"start", "terminate", "done"}],
         budget' \in [Inputs -> Nat],
         UNCHANGED <<selfq, disk, prev, wq, graceful>>
  PROVE  Inv'
<1>1. task[t] \in TaskRecords /\ Tracked(task[t])
  BY Zenon DEF Inv, TypeOK, Consistent
<1>2. Reported(task[t]) = {} \/ task[t].smState \in Live
  BY Zenon, <1>1 DEF Tracked
<1>3. Tracked(d) /\ \A g \in Nat : Over(task[t], g) => Over(d, g)
  BY Zenon, <1>1, <1>2, QuietStep DEF Same
<1> QED
  BY Zenon, <1>3, OffLoopStep DEF Same

\* The same when the record does not change at all.
LEMMA PostStep ==
  ASSUME Inv, NEW t \in Tasks, UNCHANGED task,
         NEW e \in SMEventSet, e.kind # "child-exit", Post(e),
         starting' \in [Tasks -> {"start", "terminate", "done"}],
         budget' \in [Inputs -> Nat],
         UNCHANGED <<selfq, disk, prev, wq, graceful>>
  PROVE  Inv'
<1>1. task[t] \in TaskRecords /\ Update(t, task[t])
  BY DEF Inv, TypeOK, Update
<1> QED
  BY Zenon, <1>1, FlagPostStep DEF Same, Post

\* A backoff timer fires.
LEMMA TimerFiresStep ==
  ASSUME Inv, NEW t \in Tasks, TimerFires(t)
  PROVE  Inv'
<1>1. PICK e \in task[t].timers :
           /\ LET c == [task[t] EXCEPT !.timers = @ \ {e}]
              IN  Update(t, IF c.smState \in {"none", "backoff"} /\ c.armGen = e
                            THEN [c EXCEPT !.due = @ \cup {e}] ELSE c)
           /\ UNCHANGED <<ch, selfq, starting, disk, prev, wq, graceful, budget>>
  BY ZenonT(40) DEF TimerFires
<1> DEFINE c == [task[t] EXCEPT !.timers = @ \ {e}]
           d == IF c.smState \in {"none", "backoff"} /\ c.armGen = e
                THEN [c EXCEPT !.due = @ \cup {e}] ELSE c
<1>2. task[t] \in TaskRecords
  BY Zenon DEF Inv, TypeOK
<1>3. e \in Nat
  BY Zenon, <1>2 DEF TaskRecords
<1>4. c \in TaskRecords /\ Same(task[t], c) /\ c.smState = task[t].smState /\ c.row = task[t].row
  BY <1>2 DEF TaskRecords, Same
<1>u. Update(t, d)
  BY <1>1
<1> HIDE DEF c
<1>5. d \in TaskRecords /\ Same(c, d) /\ d.smState = c.smState /\ d.row = c.row
  <2>1. c.due \cup {e} \in SUBSET Nat
    BY Zenon, <1>3, <1>4 DEF TaskRecords
  <2> QED
    BY Zenon, <2>1, <1>4 DEF TaskRecords, Same
<1> HIDE DEF d
<1>6. Same(task[t], d) /\ d.smState = task[t].smState /\ d.row = task[t].row
  BY Zenon, <1>4, <1>5 DEF Same
<1> QED
  BY ZenonT(40), <1>1, <1>5, <1>6, <1>u, FlagPostStep DEF Inv, TypeOK

\* A fired timer posts its event.
LEMMA TimerPostsStep ==
  ASSUME Inv, NEW t \in Tasks, TimerPosts(t)
  PROVE  Inv'
<1>1. PICK e \in task[t].due :
           /\ Post(SMEvent("timer-due", t))
           /\ Update(t, [task[t] EXCEPT !.due = @ \ {e}])
           /\ UNCHANGED <<selfq, starting, disk, prev, wq, graceful, budget>>
  BY DEF TimerPosts
<1> DEFINE d == [task[t] EXCEPT !.due = @ \ {e}]
<1>2. task[t] \in TaskRecords
  BY Zenon DEF Inv, TypeOK
<1>4. /\ SMEvent("timer-due", t) \in SMEventSet
      /\ SMEvent("timer-due", t).kind # "child-exit"
  BY Zenon, EventTypes DEF SMEvents
<1>5. d \in TaskRecords /\ Same(task[t], d) /\ d.smState = task[t].smState /\ d.row = task[t].row
  BY <1>2 DEF TaskRecords, Same
<1>6. Update(t, d)
  BY <1>1
<1> HIDE DEF d
<1> QED
  BY ZenonT(40), <1>1, <1>4, <1>5, <1>6, FlagPostStep DEF Inv, TypeOK, Post

\* The sweep finds a dead child.
LEMMA SweepFindsDeadStep ==
  ASSUME Inv, NEW t \in Tasks, SweepFindsDead(t)
  PROVE  Inv'
<1> DEFINE c == task[t]
           d == [c EXCEPT !.verdict = c.row.gen]
<1>1. c \in TaskRecords /\ Tracked(c)
  BY DEF Inv, TypeOK, Consistent
<1>2. Update(t, d) /\ ~PidAlive(c, c.row.pid)
  BY DEF SweepFindsDead
<1> HIDE DEF c
<1>3. c.row.gen \in Nat
  BY <1>1 DEF TaskRecords, TrackerRows
<1>4. /\ d \in TaskRecords /\ d.children = c.children /\ d.spawned = c.spawned
      /\ d.row = c.row /\ d.smState = c.smState /\ d.verdict = c.row.gen
  BY Zenon, <1>1, <1>3 DEF TaskRecords
<1> HIDE DEF d
<1>5. Reported(c) = {}
  BY Zenon, <1>1, <1>2 DEF Tracked, Reported, PidAlive
<1>6. Tracked(d) /\ Reported(d) = {} /\ \A g \in Nat : Over(c, g) => Over(d, g)
  BY Zenon, <1>1, <1>4, <1>5, QuietStep
<1>7. Over(d, d.verdict)
  BY <1>3, <1>4, <1>6 DEF Over
<1> QED
  BY Zenon, <1>2, <1>4, <1>6, <1>7, OffLoopStep DEF c, SweepFindsDead, Inv, TypeOK

\* The sweep posts the exit it found.
LEMMA SweepPostsStep ==
  ASSUME Inv, NEW t \in Tasks, SweepPosts(t)
  PROVE  Inv'
<1> DEFINE c == task[t]
           d == [c EXCEPT !.verdict = 0]
           e == ExitEvent(t, c.verdict, FALSE)
<1>1. c \in TaskRecords /\ Tracked(c) /\ c.verdict > 0 /\ Over(c, c.verdict)
  BY DEF Inv, TypeOK, Consistent, ExitsAreOver, SweepPosts
<1>2. Update(t, d) /\ ch' = Append(ch, e)
  BY Zenon DEF SweepPosts, Post
<1> HIDE DEF c
<1>3. c.verdict \in Nat
  BY <1>1 DEF TaskRecords
<1>4. /\ d \in TaskRecords /\ d.children = c.children /\ d.spawned = c.spawned
      /\ d.row = c.row /\ d.smState = c.smState /\ d.verdict = 0
  BY <1>1 DEF TaskRecords
<1> HIDE DEF d
<1>5. e \in SMEventSet /\ e.task = t /\ e.gen = c.verdict
  BY ZenonT(40), <1>3 DEF ExitEvent, SMEvent, SMEventSet, SMEvents
<1> HIDE DEF e
<1>6. Tracked(d) /\ \A g \in Nat : Over(c, g) => Over(d, g)
  <2>1. Reported(c) = {} \/ c.smState \in Live
    BY Zenon, <1>1 DEF Tracked
  <2> QED
    BY Zenon, <2>1, <1>1, <1>4, QuietStep
<1>7. e.gen > 0 /\ Over(d, e.gen)
  BY Zenon, <1>1, <1>3, <1>5, <1>6
<1> QED
  BY ZenonT(40), <1>2, <1>4, <1>5, <1>6, <1>7, OffLoopStep DEF c, SweepPosts, Inv, TypeOK

\* The sweep finds a child without its port.
LEMMA SweepFindsUnboundStep ==
  ASSUME Inv, NEW t \in Tasks, SweepFindsUnbound(t)
  PROVE  Inv'
<1> DEFINE d == [task[t] EXCEPT !.unbound = TRUE]
<1>1. task[t] \in TaskRecords
  BY DEF Inv, TypeOK
<1>2. d \in TaskRecords /\ Same(task[t], d) /\ d.smState = task[t].smState /\ d.row = task[t].row
  BY ZenonT(40), <1>1 DEF TaskRecords, Same
<1>3. Update(t, d) /\ Spend("unbound")
  BY DEF SweepFindsUnbound
<1>4. budget' \in [Inputs -> Nat]
  BY <1>3, SpendType DEF Inputs
<1> HIDE DEF d
<1> QED
  BY ZenonT(40), <1>2, <1>3, <1>4, FlagPostStep DEF Inv, TypeOK, SweepFindsUnbound

\* The sweep posts a restart.
LEMMA SweepRestartsStep ==
  ASSUME Inv, NEW t \in Tasks, SweepRestarts(t)
  PROVE  Inv'
<1> DEFINE d == [task[t] EXCEPT !.unbound = FALSE]
           e == SMEvent("manual-restart", t)
<1>1. task[t] \in TaskRecords
  BY DEF Inv, TypeOK
<1>2. d \in TaskRecords /\ Same(task[t], d) /\ d.smState = task[t].smState /\ d.row = task[t].row
  BY ZenonT(40), <1>1 DEF TaskRecords, Same
<1>3. Update(t, d) /\ ch' = Append(ch, e)
  BY Zenon DEF SweepRestarts, Post
<1>4. e \in SMEventSet /\ e.kind # "child-exit"
  BY Zenon, EventTypes DEF SMEvents
<1> HIDE DEF d, e
<1> QED
  BY ZenonT(40), <1>2, <1>3, <1>4, FlagPostStep DEF Inv, TypeOK, SweepRestarts

\* The port-gate worker posts its verdict.
LEMMA PortGateStep ==
  ASSUME Inv, NEW t \in Tasks, PortGateDecides(t) \/ PortGatePosts(t)
  PROVE  Inv'
<1>1. task[t] \in TaskRecords
  BY DEF Inv, TypeOK
<1>2. CASE PortGateDecides(t)
  <2>1. PICK verdict \in {"drop", "reaped", "unverified"} :
             Update(t, [task[t] EXCEPT !.gate = IF verdict = "drop" THEN "none" ELSE "restart",
                                       !.gateCleared = @ \/ verdict = "unverified"])
    BY ZenonT(40), <1>2 DEF PortGateDecides
  <2> DEFINE gt == IF verdict = "drop" THEN "none" ELSE "restart"
             gc == task[t].gateCleared \/ verdict = "unverified"
             d == [task[t] EXCEPT !.gate = gt, !.gateCleared = gc]
  <2>2. gt \in GateStates /\ gc \in BOOLEAN /\ Update(t, d)
    BY <1>1, <2>1 DEF GateStates, TaskRecords
  <2> HIDE DEF gt, gc
  <2>3. d \in TaskRecords /\ Same(task[t], d) /\ d.smState = task[t].smState /\ d.row = task[t].row
    BY ZenonT(40), <1>1, <2>2 DEF TaskRecords, Same
  <2> HIDE DEF d
  <2> QED
    BY ZenonT(40), <1>2, <2>2, <2>3, FlagPostStep DEF Inv, TypeOK, PortGateDecides
<1>3. CASE PortGatePosts(t)
  <2> DEFINE d == [task[t] EXCEPT !.gate = "none"]
  <2>1. d \in TaskRecords /\ Same(task[t], d) /\ d.smState = task[t].smState /\ d.row = task[t].row
    BY <1>1 DEF TaskRecords, Same, GateStates
  <2>2. Update(t, d) /\ ch' = Append(ch, AutoRestart(t))
    BY Zenon, <1>3 DEF PortGatePosts, Post
  <2>3. AutoRestart(t) \in SMEventSet /\ AutoRestart(t).kind # "child-exit"
    BY EventTypes
  <2> HIDE DEF d
  <2> QED
    BY ZenonT(40), <1>3, <2>1, <2>2, <2>3, FlagPostStep DEF Inv, TypeOK, PortGatePosts
<1> QED
  BY Zenon, <1>2, <1>3

\* An operator restart, a self-heal or a reconcile start is posted.
LEMMA RestartPostsStep ==
  ASSUME Inv, NEW t \in Tasks, HandleRespawn(t) \/ SelfHeal(t) \/ ReconcileStarts(t)
  PROVE  Inv'
<1>1. /\ SMEvent("manual-restart", t) \in SMEventSet
      /\ SMEvent("manual-restart", t).kind # "child-exit"
      /\ SMEvent("start", t) \in SMEventSet /\ SMEvent("start", t).kind # "child-exit"
      /\ AutoRestart(t) \in SMEventSet /\ AutoRestart(t).kind # "child-exit"
  BY Zenon, EventTypes DEF SMEvents
<1>2. CASE HandleRespawn(t)
  <2>1. budget' \in [Inputs -> Nat]
    BY ZenonT(40), <1>2, SpendType DEF HandleRespawn, Inputs
  <2> QED
    BY ZenonT(40), <1>1, <1>2, <2>1, PostStep DEF HandleRespawn, Inv, TypeOK
<1>3. CASE SelfHeal(t)
  <2>1. budget' \in [Inputs -> Nat]
    BY ZenonT(40), <1>3, SpendType DEF SelfHeal, Inputs
  <2> QED
    BY ZenonT(40), <1>1, <1>3, <2>1, PostStep DEF SelfHeal, Inv, TypeOK
<1>4. CASE ReconcileStarts(t)
  <2>1. starting' \in [Tasks -> {"start", "terminate", "done"}]
    BY <1>4 DEF ReconcileStarts, Inv, TypeOK
  <2> QED
    BY Zenon, <1>1, <1>4, <2>1, PostStep DEF ReconcileStarts, Inv, TypeOK
<1> QED
  BY Zenon, <1>2, <1>3, <1>4

\* An old crash leaves the crash window.
LEMMA WindowSlidesStep ==
  ASSUME Inv, NEW t \in Tasks, WindowSlides(t)
  PROVE  Inv'
<1> DEFINE c == task[t]
           r == [c.row EXCEPT !.crashes = c.row.crashes - 1]
           d == [c EXCEPT !.row = r]
<1>1. c \in TaskRecords /\ c.row \in TrackerRows /\ c.row.crashes > 0
  BY DEF Inv, TypeOK, WindowSlides, TaskRecords
<1>2. Update(t, d)
  BY Zenon DEF WindowSlides
<1> HIDE DEF c
<1>3. c.row.crashes - 1 \in Nat
  BY <1>1 DEF TrackerRows
<1>4. r \in TrackerRows /\ r.gen = c.row.gen /\ r.pid = c.row.pid /\ r.state = c.row.state
  BY Zenon, <1>1, <1>3 DEF TrackerRows
<1> HIDE DEF r
<1>5. d \in TaskRecords /\ Same(c, d) /\ d.smState = c.smState /\ d.row = r
  BY <1>1, <1>4 DEF TaskRecords, Same
<1> HIDE DEF d
<1> QED
  BY ZenonT(40), <1>2, <1>4, <1>5, FlagPostStep DEF Inv, TypeOK, WindowSlides, c

\* The startup reconcile terminates a survivor.
LEMMA ReconcileTerminatesStep ==
  ASSUME Inv, NEW t \in Tasks, ReconcileTerminates(t)
  PROVE  Inv'
<1> DEFINE c == task[t]
<1>1. c \in TaskRecords /\ Tracked(c) /\ budget \in [Inputs -> Nat]
  BY DEF Inv, TypeOK, Consistent
<1>2. AllowedFaults \in SUBSET AllFaults /\ (AllowedFaults # {} => budget["fault"] > 0)
  BY ControllerAssumptions DEF AllowedFaults
<1>3. PICK r \in TerminateEffect(t, c, AllowedFaults) :
           /\ Update(t, r.c)
           /\ budget' = [budget EXCEPT !["fault"] = @ - r.fault]
  BY ZenonT(40) DEF ReconcileTerminates
<1> HIDE DEF c
<1>4. Good(t, c, AllowedFaults, r) /\ Reported(r.c) \subseteq Reported(c)
  BY Zenon, <1>1, <1>2, TerminateGood
<1>5. budget' \in [Inputs -> Nat]
  <2>1. "fault" \in Inputs
    BY DEF Inputs
  <2>2. budget["fault"] \in Nat
    BY <2>1, <1>1
  <2>3. r.fault \in {0, 1} /\ (r.fault = 1 => AllowedFaults # {})
    BY ZenonT(40), <1>4 DEF Good
  <2>4. budget["fault"] - r.fault \in Nat
    BY <2>2, <2>3, <1>2
  <2> QED
    BY ZenonT(40), <2>4, <1>1, <1>3
<1>6. starting' \in [Tasks -> {"start", "terminate", "done"}]
  BY DEF ReconcileTerminates, Inv, TypeOK
<1>8. r.c \in TaskRecords /\ Tracked(r.c) /\ r.c.verdict = c.verdict
  BY ZenonT(40), <1>4 DEF Good
<1>7. \A g \in Nat : Over(c, g) => Over(r.c, g)
  <2>1. r.c.row.gen \in Nat
    BY Zenon, <1>8 DEF TaskRecords, TrackerRows
  <2>2. Over(c, 0) => Over(r.c, 0)
    BY SMTT(40), <2>1, <1>4 DEF Over
  <2>3. \A g \in Nat \ {0} : Over(c, g) => Over(r.c, g)
    BY ZenonT(40), <1>4 DEF Good
  <2> HIDE DEF Over
  <2> QED
    BY Zenon, <2>2, <2>3
<1>9. UNCHANGED <<ch, selfq, disk, prev, wq, graceful>>
  BY DEF ReconcileTerminates
<1>10. /\ \A g \in Nat : Over(task[t], g) => Over(r.c, g)
       /\ r.c.verdict \in {0, task[t].verdict}
  BY ZenonT(40), <1>7, <1>8 DEF c
<1> QED
  BY ZenonT(40), <1>3, <1>5, <1>6, <1>8, <1>9, <1>10, OffLoopStep

\* A step that changes no daemon and posts no exit.
LEMMA ChannelStep ==
  ASSUME Inv, TypeOK', UNCHANGED <<task, selfq>>,
         \/ UNCHANGED ch
         \/ \E e \in LoopEvents : e.kind # "child-exit" /\ ch' = Append(ch, e),
         \A i \in DOMAIN wq' : wq'[i].kind # "child-exit"
  PROVE  Inv'
<1>1. \A t \in Tasks : Tracked(task'[t])
  BY Zenon DEF Inv, Consistent
<1>2. \A i \in DOMAIN ch' :
         \/ \E j \in DOMAIN ch : ch'[i] = ch[j]
         \/ ch'[i].kind # "child-exit"
  <2>1. CASE UNCHANGED ch
    BY Zenon, <2>1
  <2>2. CASE ~UNCHANGED ch
    <3>1. PICK e \in LoopEvents : e.kind # "child-exit" /\ ch' = Append(ch, e)
      BY Zenon, <2>2
    <3>2. ch \in Seq(LoopEvents)
      BY Zenon DEF Inv, TypeOK
    <3>3. \A i \in DOMAIN ch' : ch'[i] = e \/ (i \in DOMAIN ch /\ ch'[i] = ch[i])
      BY SMTT(40), <3>1, <3>2
    <3> QED
      BY Zenon, <3>1, <3>3
  <2> QED
    BY <2>1, <2>2
<1>3. \A i \in DOMAIN selfq' :
         selfq'[i].kind = "child-exit" => Over(task'[selfq'[i].task], selfq'[i].gen)
  BY ZenonT(40) DEF Inv, Consistent, ExitsAreOver
<1>4. OneSelfEvent'
  BY Zenon DEF Inv, Consistent, OneSelfEvent
<1> QED
  BY Zenon, <1>1, <1>2, <1>3, <1>4, ConsistentStep

\* The watcher reads the intents.
LEMMA WatcherReadsStep ==
  ASSUME Inv, WatcherReads
  PROVE  Inv'
<1> DEFINE S == {t \in Tasks : disk[t] # prev[t]}
<1>1. PICK order \in Orders(S) :
           wq' = <<ScanEvent(disk)>> \o [i \in DOMAIN order |-> SMEvent("intent-update", order[i])]
  BY ZenonT(40) DEF WatcherReads
<1> DEFINE n == Cardinality(S)
           ev == ScanEvent(disk)
           s == [i \in 1..n |-> SMEvent("intent-update", order[i])]
<1>2. n \in Nat /\ order \in [1..n -> Tasks]
  <2>1. S \in SUBSET Tasks
    BY Zenon
  <2> HIDE DEF S
  <2> QED
    BY <2>1, OrdersType
<1>3. wq' = <<ev>> \o s
  BY Zenon, <1>1, <1>2
<1>4. \A i \in 1..n : /\ SMEvent("intent-update", order[i]) \in LoopEvents
                      /\ SMEvent("intent-update", order[i]).kind # "child-exit"
  BY Zenon, <1>2, EventTypes, LoopEventKinds DEF SMEvents
<1> HIDE DEF n
<1>5. s \in Seq(LoopEvents) /\ \A i \in DOMAIN s : s[i].kind # "child-exit"
  BY <1>2, <1>4
<1>6. ev \in LoopEvents /\ ev.kind # "child-exit"
  BY Zenon, LoopEventKinds DEF Inv, TypeOK
<1> HIDE DEF s, ev
<1>7. /\ wq' \in Seq(LoopEvents)
      /\ \A i \in DOMAIN wq' : wq'[i] = ev \/ \E j \in DOMAIN s : wq'[i] = s[j]
  <2>1. Len(wq') = Len(s) + 1 /\ wq' \in Seq(LoopEvents)
    BY <1>3, <1>5, <1>6
  <2>2. \A i \in DOMAIN wq' : IF i = 1 THEN wq'[i] = ev
                              ELSE i - 1 \in DOMAIN s /\ wq'[i] = s[i - 1]
    BY <2>1, <1>3, <1>5, <1>6
  <2> QED
    BY Zenon, <2>1, <2>2
<1>8. \A i \in DOMAIN wq' : wq'[i].kind # "child-exit"
  BY Zenon, <1>5, <1>6, <1>7
<1>9. TypeOK'
  BY Zenon, <1>7 DEF TypeOK, Inv, WatcherReads
<1> QED
  BY ZenonT(40), <1>8, <1>9, ChannelStep DEF WatcherReads

\* The watcher posts an intent update.
LEMMA WatcherPostsStep ==
  ASSUME Inv, WatcherPosts
  PROVE  Inv'
<1>1. wq \in Seq(LoopEvents) /\ wq # <<>> /\ ch \in Seq(LoopEvents)
  BY DEF Inv, TypeOK, WatcherPosts
<1>2. Head(wq) \in LoopEvents /\ Head(wq) = wq[1] /\ 1 \in DOMAIN wq
  BY SMTT(40), <1>1
<1>3. Head(wq).kind # "child-exit"
  BY Zenon, <1>2 DEF Inv, Consistent, ExitsAreOver
<1>4. wq' \in Seq(LoopEvents) /\ \A i \in DOMAIN wq' : i + 1 \in DOMAIN wq /\ wq'[i] = wq[i + 1]
  BY <1>1 DEF WatcherPosts
<1>5. \A i \in DOMAIN wq' : wq'[i].kind # "child-exit"
  BY Zenon, <1>4 DEF Inv, Consistent, ExitsAreOver
<1>6. ch' = Append(ch, Head(wq)) /\ ch' \in Seq(LoopEvents)
  BY <1>1, <1>2 DEF WatcherPosts, Post
<1>7. TypeOK'
  BY <1>4, <1>6 DEF TypeOK, Inv, WatcherPosts
<1> QED
  BY Zenon, <1>2, <1>3, <1>5, <1>6, <1>7, ChannelStep DEF WatcherPosts

\* Every step outside the loop keeps the invariant.
LEMMA EnvironmentStep ==
  ASSUME Inv, ParoleTicks \/ Quiesce \/ QuiesceEnds \/ \E t \in Tasks : SetIntent(t)
  PROVE  Inv'
<1>w. \A i \in DOMAIN wq : wq[i].kind # "child-exit"
  BY Zenon DEF Inv, Consistent, ExitsAreOver
<1>1. CASE ParoleTicks
  <2>1. ParoleTick \in LoopEvents /\ ParoleTick.kind # "child-exit"
    BY Zenon, LoopEventKinds
  <2>2. ch' = Append(ch, ParoleTick) /\ UNCHANGED <<task, selfq, wq>>
    BY Zenon, <1>1 DEF ParoleTicks, Post
  <2>3. ch' \in Seq(LoopEvents)
    BY <2>1, <2>2 DEF Inv, TypeOK
  <2>4. TypeOK'
    BY Zenon, <1>1, <2>3 DEF Inv, TypeOK, ParoleTicks
  <2> QED
    BY Zenon, <1>w, <2>1, <2>2, <2>4, ChannelStep
<1>2. CASE Quiesce
  <2>1. budget' \in [Inputs -> Nat]
    BY Zenon, <1>2, SpendType DEF Quiesce, Inputs
  <2>2. TypeOK'
    BY Zenon, <1>2, <2>1 DEF Inv, TypeOK, Quiesce
  <2> QED
    BY Zenon, <1>2, <1>w, <2>2, ChannelStep DEF Quiesce
<1>3. CASE QuiesceEnds
  <2>1. TypeOK'
    BY ZenonT(40), <1>3 DEF Inv, TypeOK, QuiesceEnds
  <2> QED
    BY Zenon, <1>3, <1>w, <2>1, ChannelStep DEF QuiesceEnds
<1>4. ASSUME NEW t \in Tasks, SetIntent(t) PROVE Inv'
  <2>1. budget' \in [Inputs -> Nat]
    BY Zenon, <1>4, SpendType DEF SetIntent, Inputs
  <2>2. disk' \in [Tasks -> Wants]
    BY Zenon, <1>4 DEF SetIntent, Inv, TypeOK
  <2>3. TypeOK'
    BY Zenon, <1>4, <2>1, <2>2 DEF Inv, TypeOK, SetIntent
  <2> QED
    BY Zenon, <1>4, <1>w, <2>3, ChannelStep DEF SetIntent
<1> QED
  BY Zenon, <1>1, <1>2, <1>3, <1>4

---------------------------------------------------------------------------
\* A survivor hydrated at startup is in its tracker row.
LEMMA InitialTaskTracked ==
  ASSUME NEW s \in Starts
  PROVE  /\ InitialTask(s) \in TaskRecords /\ Tracked(InitialTask(s))
         /\ InitialTask(s).verdict = 0
<1> DEFINE d == InitialTask(s)
           k == [pid |-> 1, gen |-> 1, life |-> "alive", waited |-> FALSE, clean |-> FALSE]
<1>0. s.warm \in BOOLEAN /\ s.want \in Wants
  BY Zenon, ControllerAssumptions
<1>1. /\ Absent \in TrackerRows /\ Absent.gen = 0
      /\ MarkSpawned(Absent, 1) \in TrackerRows /\ MarkSpawned(Absent, 1).gen = 1
      /\ MarkSpawned(Absent, 1).pid = 1 /\ MarkSpawned(Absent, 1).state = "running"
  <2>1. Absent \in TrackerRows /\ Absent.gen = 0
    BY Zenon DEF Absent, TrackerRows, TrackerStates
  <2> QED
    BY <2>1, MarkSpawnedOp
<1>2. k \in Children /\ k.pid = 1 /\ k.gen = 1 /\ k.life = "alive" /\ ~k.waited
  BY DEF Children
<1>t. /\ "none" \in SMStates \cup {"none"} /\ "running" \in SMStates \cup {"none"}
      /\ "none" \in QueuedActions /\ "none" \in GateStates
  BY DEF SMStates, QueuedActions, GateStates
<1>3. CASE s.warm
  <2> DEFINE row == MarkSpawned(Absent, 1)
             ks == {k}
  <2>1. d = [smState |-> "running",
             queued |-> "none", ownSpawned |-> FALSE, reaper |-> FALSE, want |-> s.want,
             parole |-> FALSE, gateCleared |-> FALSE, gate |-> "none",
             epoch |-> 0, armGen |-> 0, timers |-> {}, due |-> {}, verdict |-> 0,
             unbound |-> FALSE, row |-> row, children |-> ks, spawned |-> 1]
    BY ZenonT(40), <1>3 DEF InitialTask
  <2>2. ks \in SUBSET Children /\ row \in TrackerRows
    BY Zenon, <1>1, <1>2
  <2>3. \A x \in ks : x = k
    BY ZenonT(40)
  <2> HIDE DEF ks, row, k
  <2>4. d \in TaskRecords
    BY SMTT(60), <2>1, <2>2, <1>0, <1>t DEF TaskRecords
  <2>5. /\ d.children = ks /\ d.row = row /\ d.spawned = 1 /\ d.smState = "running"
        /\ d.verdict = 0
    BY SMTT(40), <2>1
  <2> HIDE DEF d
  <2>6. Tracked(d)
    BY SMTT(40), <2>3, <2>5, <1>1, <1>2 DEF Tracked, Reported, Alive, Live, row
  <2> QED
    BY Zenon, <2>4, <2>5, <2>6 DEF d
<1>4. CASE ~s.warm
  <2> DEFINE row == Absent
             ks == {}
  <2>1. d = [smState |-> "none",
             queued |-> "none", ownSpawned |-> FALSE, reaper |-> FALSE, want |-> s.want,
             parole |-> FALSE, gateCleared |-> FALSE, gate |-> "none",
             epoch |-> 0, armGen |-> 0, timers |-> {}, due |-> {}, verdict |-> 0,
             unbound |-> FALSE, row |-> row, children |-> ks, spawned |-> 0]
    BY ZenonT(40), <1>4 DEF InitialTask
  <2>2. ks \in SUBSET Children /\ row \in TrackerRows
    BY <1>1
  <2>3. \A x : x \notin ks
    BY Zenon
  <2> HIDE DEF ks, row, k
  <2>4. d \in TaskRecords
    BY SMTT(60), <2>1, <2>2, <1>0, <1>t DEF TaskRecords
  <2>5. d.children = ks /\ d.verdict = 0
    BY <2>1
  <2> HIDE DEF d
  <2>6. Tracked(d)
    BY ZenonT(40), <2>3, <2>5 DEF Tracked, Reported, Alive
  <2> QED
    BY Zenon, <2>4, <2>5, <2>6 DEF d
<1> QED
  BY Zenon, <1>0, <1>3, <1>4

\* The initial states satisfy the invariant.
LEMMA InitInv ==
  ASSUME Init
  PROVE  Inv
<1>1. PICK s \in [Tasks -> Starts] :
           /\ task = [t \in Tasks |-> InitialTask(s[t])]
           /\ starting = [t \in Tasks |-> StartupAction(s[t])]
           /\ disk = [t \in Tasks |-> s[t].want]
  BY Zenon DEF Init
<1>2. \A t \in Tasks : task[t] \in TaskRecords /\ Tracked(task[t]) /\ task[t].verdict = 0
  BY Zenon, <1>1, InitialTaskTracked
<1>3. starting \in [Tasks -> {"start", "terminate", "done"}]
  <2>1. \A t \in Tasks : StartupAction(s[t]) \in {"start", "terminate", "done"}
    BY Zenon DEF StartupAction
  <2> QED
    BY Zenon, <1>1, <2>1
<1>4. disk \in [Tasks -> Wants]
  BY <1>1, ControllerAssumptions
<1>5. task \in [Tasks -> TaskRecords]
  BY Zenon, <1>1, <1>2
<1>6. ch = <<>> /\ selfq = <<>> /\ wq = <<>> /\ prev = disk /\ graceful = FALSE /\ budget \in Budgets
  BY Zenon DEF Init
<1>7. TypeOK
  <2>1. ch \in Seq(LoopEvents) /\ selfq \in Seq(SMEventSet) /\ wq \in Seq(LoopEvents)
    BY <1>6
  <2>2. budget \in [Inputs -> Nat] /\ graceful \in BOOLEAN
    BY ZenonT(40), <1>6, ControllerAssumptions
  <2> QED
    BY Zenon, <2>1, <2>2, <1>3, <1>4, <1>5, <1>6 DEF TypeOK
<1>8. Consistent
  <2>1. DOMAIN ch = {} /\ DOMAIN selfq = {} /\ DOMAIN wq = {}
    BY <1>6
  <2>2. ExitsAreOver /\ OneSelfEvent
    <3>1. \A t \in Tasks : ~(task[t].verdict > 0)
      BY <1>2
    <3> QED
      BY ZenonT(40), <2>1, <3>1 DEF ExitsAreOver, OneSelfEvent
  <2> QED
    BY ZenonT(40), <1>2, <2>2 DEF Consistent
<1> QED
  BY Zenon, <1>7, <1>8 DEF Inv

\* Every step keeps the invariant.
LEMMA NextInv ==
  ASSUME Inv, [Next]_vars
  PROVE  Inv'
<1>1. CASE Loop
  BY <1>1, LoopStep
<1>2. CASE WatcherReads \/ WatcherPosts \/ ParoleTicks \/ Quiesce \/ QuiesceEnds
  BY Zenon, <1>2, WatcherReadsStep, WatcherPostsStep, EnvironmentStep
<1>3. ASSUME NEW t \in Tasks, Internal(t) PROVE Inv'
  BY Zenon, <1>3, WaitMarksExitStep, WaitPostsExitStep, TimerFiresStep, TimerPostsStep,
     SweepFindsDeadStep, SweepPostsStep, SweepRestartsStep, PortGateStep,
     RestartPostsStep, ReconcileTerminatesStep DEF Internal
<1>4. ASSUME NEW t \in Tasks, External(t) PROVE Inv'
  BY Zenon, <1>4, ChildDiesStep, SweepFindsUnboundStep, RestartPostsStep, EnvironmentStep,
     WindowSlidesStep DEF External
<1>5. CASE UNCHANGED vars
  BY ZenonT(40), <1>5 DEF vars, Inv, TypeOK, Consistent, ExitsAreOver, OneSelfEvent
<1> QED
  BY Zenon, <1>1, <1>2, <1>3, <1>4, <1>5 DEF Next

\* Inv holds in every reachable state.
THEOREM InvHolds == Spec => []Inv
BY InitInv, NextInv, PTL DEF Spec

\* The controller's records, channels and counters stay well typed: no handler
\* leaves a daemon in a state the next one cannot handle.
THEOREM TypeCorrect == Spec => []TypeOK
<1>1. Inv => TypeOK
  BY Zenon DEF Inv
<1> QED
  BY <1>1, InvHolds, PTL

\* The children, the tracker rows and the exits in flight agree: an exit that
\* handleLoopEvent does not drop as stale always belongs to a daemon that has
\* no reported child alive.
THEOREM ConsistentHolds == Spec => []Consistent
<1>1. Inv => Consistent
  BY Zenon DEF Inv
<1> QED
  BY <1>1, InvHolds, PTL

\* At most one child of a daemon that the spawn reported is alive, whatever
\* exits, timers, restarts, sweeps and failures interleave.
THEOREM OneLiveChildHolds == Spec => []OneLiveChild
<1>1. Inv => OneLiveChild
  <2> SUFFICES ASSUME Inv, NEW t \in Tasks, NEW j \in Reported(task[t]), NEW k \in Reported(task[t])
               PROVE  j = k
    BY DEF OneLiveChild
  <2>1. Tracked(task[t])
    BY Zenon DEF Inv, Consistent
  <2>2. j \in task[t].children /\ k \in task[t].children /\ j.pid = k.pid
    BY Zenon, <2>1 DEF Tracked, Reported, Alive
  <2> QED
    BY Zenon, <2>1, <2>2 DEF Tracked
<1> QED
  BY <1>1, InvHolds, PTL

\* A reported child that is alive is the one its tracker row names, so that a
\* later stop or restart can find it.
THEOREM NoLostChildHolds == Spec => []NoLostChild
<1>1. Inv => NoLostChild
  BY Zenon DEF Inv, Consistent, NoLostChild, Tracked
<1> QED
  BY <1>1, InvHolds, PTL

\* A daemon the state machine has at rest has no reported child alive.
THEOREM AtRestNoChildHolds == Spec => []AtRestNoChild
<1>1. Inv => AtRestNoChild
  BY Zenon DEF Inv, Consistent, AtRestNoChild, Tracked, Live
<1> QED
  BY <1>1, InvHolds, PTL

\* The self channel never holds two events of one daemon.
THEOREM OneSelfEventHolds == Spec => []OneSelfEvent
<1>1. Inv => OneSelfEvent
  BY DEF Inv, Consistent
<1> QED
  BY <1>1, InvHolds, PTL
---------------------------------------------------------------------------
(***************************************************************************)
(* What starts a process.  The failures of a daemon stay below the         *)
(* threshold except in quarantine, because the crash that reaches it       *)
(* quarantines and only a row that resets them leaves quarantine; and the  *)
(* flag of an automatic restart is set on no other event.                  *)
(***************************************************************************)
Below(c) == c.smState # "quarantined" => c.row.crashes < QuarantineThreshold

FlagIsRestart(e) == e \in SMEventSet /\ e.req => e.kind = "manual-restart"

SpawnInv ==
  /\ \A t \in Tasks : Below(task[t])
  /\ \A i \in DOMAIN ch : FlagIsRestart(ch[i])
  /\ \A i \in DOMAIN selfq : FlagIsRestart(selfq[i])
  /\ \A i \in DOMAIN wq : FlagIsRestart(wq[i])

\* What both action properties say of a step.
SpawnsRightly ==
  \A t \in Tasks :
    Spawns(t) =>
      /\ task'[t].row.crashes < QuarantineThreshold
      /\ NextEvent.kind \in {"start", "timer-due"} \/ NextEvent.req => task[t].want = "running"

\* Only a row that resets the failures, or stays, leaves quarantine.
LEMMA QuarantineRows ==
  ASSUME NEW ev \in SMEvents, NEW ctx \in SMContexts
  PROVE  LET row == Transition("quarantined", ev, ctx)
         IN  row.matched => row.resetFailures \/ (row.to = "quarantined" /\ ~row.create)
BY Zenon, RowShapes DEF Transition, FromQuarantined, GoTo, CreateProcess, Unmatched, SMStates

\* A start or a timer creates a process only for a daemon that should run.
LEMMA AutomaticRows ==
  ASSUME NEW st \in SMStates, NEW ev \in {"start", "timer-due"}, NEW ctx \in SMContexts,
         Transition(st, ev, ctx).create
  PROVE  ctx.desired = "running"
<1> USE RowShapes DEF SMStates, SMContexts
<1>1. CASE st = "idle"
  BY Zenon, <1>1 DEF Transition, FromIdle, SpawnAllowed
<1>2. CASE st = "spawning"
  BY Zenon, <1>2 DEF Transition, FromSpawning
<1>3. CASE st = "running"
  BY Zenon, <1>3 DEF Transition, FromRunning
<1>4. CASE st = "exiting"
  BY Zenon, <1>4 DEF Transition, FromExiting
<1>5. CASE st = "backoff"
  BY <1>5 DEF Transition, FromBackoff, StopWanted, QueueAnd, GoTo
<1>6. CASE st = "quarantined"
  BY Zenon, <1>6 DEF Transition, FromQuarantined
<1> QED
  BY Zenon, <1>1, <1>2, <1>3, <1>4, <1>5, <1>6

\* The tracker operations leave the failures alone.
LEMMA RowCrashes ==
  ASSUME NEW r \in TrackerRows
  PROVE  /\ \A st : Cleared(r, st).crashes = r.crashes
         /\ \A p : MarkSpawned(r, p).crashes = r.crashes
         /\ \A g : MarkExitedIfCurrent(r, g).crashes = r.crashes
         /\ ClearCrashes(r).crashes = 0
<1>1. \A st : Cleared(r, st).crashes = r.crashes
  BY Zenon DEF TrackerRows, Cleared
<1> QED
  BY <1>1 DEF TrackerRows, MarkSpawned, MarkExitedIfCurrent, MarkExited, ClearCrashes

\* The events the handlers post carry no flag.
LEMMA PlainEvents ==
  ASSUME NEW t
  PROVE  /\ \A kind : FlagIsRestart(SMEvent(kind, t))
         /\ \A g, b : FlagIsRestart(ExitEvent(t, g, b))
         /\ FlagIsRestart(AutoRestart(t))
         /\ \A s : FlagIsRestart(ScanEvent(s))
<1>1. \A kind : ~SMEvent(kind, t).req
  BY DEF SMEvent
<1>2. \A g, b : ~ExitEvent(t, g, b).req
  BY DEF ExitEvent, SMEvent
<1>3. AutoRestart(t).kind = "manual-restart"
  BY Zenon DEF AutoRestart, SMEvent
<1>4. \A s : ScanEvent(s).kind = "reap-scan"
  BY Zenon DEF ScanEvent
<1>5. \A s : ScanEvent(s) \notin SMEventSet
  BY <1>4 DEF SMEventSet, SMEvents
<1> QED
  BY Zenon, <1>1, <1>2, <1>3, <1>5 DEF FlagIsRestart

\* What the events posted by a handler look like.
PostsPlain(r) == r.self = <<>> \/ \E e : r.self = <<e>> /\ FlagIsRestart(e)

\* Arming a timer or holding a spawn leaves the failures and the count alone.
LEMMA HoldCrashes ==
  ASSUME NEW c \in TaskRecords
  PROVE  /\ ArmRespawnBackoffTimer(c).row = c.row
         /\ ArmRespawnBackoffTimer(c).smState = c.smState
         /\ ArmRespawnBackoffTimer(c).spawned = c.spawned
         /\ HoldSpawnInBackoff(c).row.crashes = c.row.crashes
         /\ HoldSpawnInBackoff(c).spawned = c.spawned
<1>1. c.row \in TrackerRows
  BY Zenon DEF TaskRecords
<1>2. MarkBackoff(c.row).crashes = c.row.crashes
  BY Zenon, <1>1, RowCrashes DEF MarkBackoff
<1>3. /\ ArmRespawnBackoffTimer(c).row = c.row
      /\ ArmRespawnBackoffTimer(c).smState = c.smState
      /\ ArmRespawnBackoffTimer(c).spawned = c.spawned
  BY DEF TaskRecords, ArmRespawnBackoffTimer
<1> DEFINE b == [c EXCEPT !.smState = "backoff", !.row = MarkBackoff(c.row)]
<1>4. DOMAIN b = DOMAIN c /\ b.row = MarkBackoff(c.row) /\ b.spawned = c.spawned
  BY DEF TaskRecords
<1>5. HoldSpawnInBackoff(c) = ArmRespawnBackoffTimer(b)
  BY DEF HoldSpawnInBackoff
<1>6. ArmRespawnBackoffTimer(b).row = b.row /\ ArmRespawnBackoffTimer(b).spawned = b.spawned
  <2> HIDE DEF b
  <2> QED
    BY <1>4 DEF ArmRespawnBackoffTimer, TaskRecords
<1> QED
  BY Zenon, <1>2, <1>3, <1>4, <1>5, <1>6

\* The create-process side effect counts no crash.
LEMMA CreateCrashes ==
  ASSUME NEW t, NEW c \in TaskRecords, NEW faults \in SUBSET AllFaults,
         NEW r \in CreateProcessEffect(t, c, faults)
  PROVE  r.c.row.crashes = c.row.crashes /\ PostsPlain(r)
<1>0. c.row \in TrackerRows
  BY Zenon DEF TaskRecords
<1>a. /\ MarkSpawnFailed(c.row).crashes = c.row.crashes
      /\ MarkQuarantined(c.row).crashes = c.row.crashes
      /\ \A p : MarkSpawned(c.row, p).crashes = c.row.crashes
  BY Zenon, <1>0, RowCrashes DEF MarkSpawnFailed, MarkQuarantined
<1>b. \A d, e : Faulty(d, e).c = d /\ Faulty(d, e).self = e
  BY DEF Faulty
<1>1. CASE r = SpawnOK(t, [c EXCEPT !.gateCleared = FALSE])
  <2> DEFINE d == [c EXCEPT !.gateCleared = FALSE]
  <2>1. d.row = c.row /\ DOMAIN d = DOMAIN c /\ d \in TaskRecords
    BY ZenonT(40) DEF TaskRecords
  <2>2. r = Result([Started(d) EXCEPT !.ownSpawned = TRUE, !.reaper = TRUE],
                   <<SMEvent("health-ok", t)>>)
    BY Zenon, <1>1 DEF SpawnOK
  <2> HIDE DEF d
  <2>3. [Started(d) EXCEPT !.ownSpawned = TRUE, !.reaper = TRUE].row = MarkSpawned(d.row, d.spawned + 1)
    BY <2>1 DEF Started, TaskRecords
  <2>4. r.c.row = MarkSpawned(d.row, d.spawned + 1) /\ r.self = <<SMEvent("health-ok", t)>>
    BY Zenon, <2>2, <2>3 DEF Result
  <2>5. r.c.row.crashes = c.row.crashes
    <3>1. d.row \in TrackerRows
      BY Zenon, <2>1, <1>0
    <3>2. MarkSpawned(d.row, d.spawned + 1).crashes = d.row.crashes
      BY Zenon, <3>1, RowCrashes
    <3> QED
      BY ZenonT(40), <2>1, <2>4, <3>2
  <2>6. FlagIsRestart(SMEvent("health-ok", t))
    BY ZenonT(40), PlainEvents
  <2> QED
    BY ZenonT(40), <2>4, <2>5, <2>6 DEF PostsPlain
<1>2. CASE \E kind \in faults \ {"terminate"} : r = SpawnFault(t, c, kind)
  <2>1. PICK kind \in faults \ {"terminate"} : r = SpawnFault(t, c, kind)
    BY Zenon, <1>2
  <2>2. CASE kind = "path"
    <3>1. r = Faulty(HoldSpawnInBackoff(c), <<>>)
      BY Zenon, <2>1, <2>2 DEF SpawnFault
    <3> QED
      BY Zenon, <3>1, HoldCrashes DEF Faulty, PostsPlain
  <2>3. CASE kind = "port"
    <3> DEFINE h == HoldSpawnInBackoff(c)
               d == [h EXCEPT !.gate = IF @ = "none" THEN "asked" ELSE @]
    <3>1. r = Faulty(d, <<>>)
      BY Zenon, <2>1, <2>3 DEF SpawnFault
    <3>2. h \in TaskRecords /\ h.row.crashes = c.row.crashes
      BY Zenon, HoldUpdate, HoldCrashes
    <3> HIDE DEF h
    <3>3. d.row = h.row
      BY Zenon, <3>2 DEF TaskRecords
    <3> QED
      BY Zenon, <3>1, <3>2, <3>3 DEF Faulty, PostsPlain
  <2>4. CASE kind = "prechild"
    <3> DEFINE d == [c EXCEPT !.gateCleared = FALSE, !.row = MarkSpawnFailed(c.row)]
    <3>1. r = Faulty(d, <<SMEvent("child-exit", t)>>)
      BY Zenon, <2>1, <2>4 DEF SpawnFault
    <3>2. d.row = MarkSpawnFailed(c.row)
      BY DEF TaskRecords
    <3> HIDE DEF d
    <3>3. FlagIsRestart(SMEvent("child-exit", t))
      BY ZenonT(40), PlainEvents
    <3>4. r.c = d /\ r.self = <<SMEvent("child-exit", t)>>
      BY Zenon, <3>1, <1>b
    <3>5. r.c.row.crashes = c.row.crashes
      BY Zenon, <3>2, <3>4, <1>a
    <3> QED
      BY Zenon, <3>3, <3>4, <3>5 DEF PostsPlain
  <2>5. CASE kind = "refused"
    <3> DEFINE d == [c EXCEPT !.gateCleared = FALSE, !.smState = "quarantined",
                              !.parole = FALSE, !.row = MarkQuarantined(c.row)]
    <3>1. r = Faulty(d, <<>>)
      BY Zenon, <2>1, <2>5 DEF SpawnFault
    <3>2. d.row = MarkQuarantined(c.row)
      BY DEF TaskRecords
    <3> HIDE DEF d
    <3>3. r.c = d /\ r.self = <<>>
      BY Zenon, <3>1, <1>b
    <3>4. r.c.row.crashes = c.row.crashes
      BY Zenon, <3>2, <3>3, <1>a
    <3> QED
      BY Zenon, <3>3, <3>4 DEF PostsPlain
  <2>6. CASE kind = "orphan"
    <3> DEFINE d == [Orphaned(c) EXCEPT !.gateCleared = FALSE]
    <3>1. r = Faulty(d, <<>>)
      BY Zenon, <2>1, <2>6 DEF SpawnFault
    <3>2. d.row = MarkSpawnFailed(c.row)
      BY Zenon DEF TaskRecords, Orphaned
    <3> HIDE DEF d
    <3>3. r.c = d /\ r.self = <<>>
      BY Zenon, <3>1, <1>b
    <3>4. r.c.row.crashes = c.row.crashes
      BY Zenon, <3>2, <3>3, <1>a
    <3> QED
      BY Zenon, <3>3, <3>4 DEF PostsPlain
  <2>7. CASE kind = "unpersisted"
    <3> DEFINE d == [Started(c) EXCEPT !.gateCleared = FALSE]
    <3>1. r = Faulty(d, <<>>)
      BY Zenon, <2>1, <2>7 DEF SpawnFault
    <3>2. d.row = MarkSpawned(c.row, c.spawned + 1)
      BY Zenon DEF TaskRecords, Started
    <3> HIDE DEF d
    <3>3. d.row.crashes = c.row.crashes
      BY ZenonT(40), <3>2, <1>a
    <3>4. r.c = d /\ r.self = <<>>
      BY Zenon, <3>1, <1>b
    <3> QED
      BY Zenon, <3>3, <3>4 DEF PostsPlain
  <2> QED
    BY Zenon, <2>1, <2>2, <2>3, <2>4, <2>5, <2>6, <2>7 DEF AllFaults
<1> QED
  BY Zenon, <1>1, <1>2 DEF CreateProcessEffect

\* The terminate side effect starts nothing and counts no crash.
LEMMA TerminateCrashes ==
  ASSUME NEW t, NEW c \in TaskRecords, NEW faults, NEW r \in TerminateEffect(t, c, faults)
  PROVE  /\ r.c.row.crashes = c.row.crashes /\ r.c.smState = c.smState
         /\ r.c.spawned = c.spawned /\ PostsPlain(r)
<1> DEFINE gen == c.row.gen
           gone == [c EXCEPT !.row = MarkExitedIfCurrent(@, gen)]
           kill(d, k) == [d EXCEPT !.children = Exited(@, k, FALSE)]
           synth == Synthesized(t, c, gen)
           Kept(d) == /\ d.row.crashes = c.row.crashes /\ d.smState = c.smState
                      /\ d.spawned = c.spawned /\ DOMAIN d = DOMAIN c
<1>0. c.row \in TrackerRows
  BY DEF TaskRecords
<1>1. Kept(c) /\ Kept(gone)
  BY Zenon, <1>0, RowCrashes DEF TaskRecords
<1>2. ASSUME NEW d, Kept(d), NEW k PROVE Kept(kill(d, k))
  BY Zenon, <1>2 DEF TaskRecords
<1>3. PostsPlain(Result(c, synth)) /\ (synth = <<>> \/ \E e : synth = <<e>> /\ FlagIsRestart(e))
  BY ZenonT(40), PlainEvents DEF Synthesized, PostsPlain, Result
<1>4. \E d : Kept(d) /\ r \in {Result(d, synth), Result(d, <<>>), Faulty(d, synth), Faulty(d, <<>>)}
  <2>1. CASE c.row.pid = 0
    <3>1. r = Result(c, <<>>)
      BY Zenon, <2>1 DEF TerminateEffect, Done
    <3> QED
      BY <3>1, <1>1, Zenon
  <2>2. CASE c.row.pid # 0
    <3> HIDE DEF Kept
    <3>1. \/ r = Faulty(c, <<>>)
          \/ r = Result(gone, synth)
          \/ \E k : r \in {Result(kill(gone, k), synth), Faulty(kill(c, k), synth),
                           Faulty(kill(c, k), <<>>)}
      BY ZenonT(40), <2>2 DEF TerminateEffect
    <3> QED
      BY ZenonT(40), <3>1, <1>1, <1>2
  <2> QED
    BY Zenon, <2>1, <2>2
<1> HIDE DEF synth
<1> QED
  BY <1>3, <1>4 DEF Result, Faulty, PostsPlain

\* What HandleBackoffWaiting leaves is below the threshold or quarantined.
LEMMA BackoffBelow ==
  ASSUME NEW c \in TaskRecords
  PROVE  Below(HandleBackoffWaiting(c)) /\ HandleBackoffWaiting(c).spawned = c.spawned
<1> DEFINE row == RecordCrash(c.row)
           q == [c EXCEPT !.smState = "quarantined", !.parole = TRUE, !.row = MarkQuarantined(row)]
           b == [c EXCEPT !.row = MarkBackoff(row)]
<1>1. row \in TrackerRows /\ row.crashes \in Nat
  BY ZenonT(40), RowOps DEF TaskRecords, TrackerRows
<1>2. MarkBackoff(row) \in TrackerRows /\ MarkBackoff(row).crashes = row.crashes
  BY Zenon, <1>1, RowOps, RowCrashes DEF MarkBackoff, TrackerStates
<1> HIDE DEF row
<1>3. q.smState = "quarantined" /\ q.spawned = c.spawned
  BY Zenon DEF TaskRecords
<1>4. b \in TaskRecords /\ b.row = MarkBackoff(row) /\ b.spawned = c.spawned
  BY Zenon, <1>2 DEF TaskRecords
<1>5. HandleBackoffWaiting(c) = IF row.crashes >= QuarantineThreshold THEN q ELSE ArmRespawnBackoffTimer(b)
  BY Zenon DEF HandleBackoffWaiting, row
<1> HIDE DEF q, b
<1>6. ArmRespawnBackoffTimer(b).row = b.row /\ ArmRespawnBackoffTimer(b).spawned = b.spawned
  BY Zenon, <1>4, HoldCrashes
<1> QED
  BY <1>1, <1>2, <1>3, <1>4, <1>5, <1>6, ThresholdAssumption DEF Below

\* A handled event: the failures stay below the threshold outside quarantine,
\* a start happens below it, and an automatic one only for a daemon that
\* should run.
LEMMA HandleSpawns ==
  ASSUME NEW c \in TaskRecords, Below(c), NEW ev \in SMEventSet, NEW g \in BOOLEAN,
         FlagIsRestart(ev), NEW faults \in SUBSET AllFaults,
         NEW r \in HandleLoopEvent(c, ev, g, faults)
  PROVE  /\ Below(r.c) /\ PostsPlain(r)
         /\ r.c.spawned # c.spawned =>
              /\ r.c.row.crashes < QuarantineThreshold
              /\ ev.kind \in {"start", "timer-due"} \/ ev.req => c.want = "running"
<1>0. ev.kind \in SMEvents /\ c.want \in {"running", "stopped"}
  BY Zenon DEF SMEventSet, TaskRecords, Wants
<1>d. \A x : Done(x).c = x /\ PostsPlain(Done(x))
  BY ZenonT(40) DEF Done, Result, PostsPlain
<1>1. CASE RestartRefused(c, ev)
  <2> DEFINE d == [c EXCEPT !.gateCleared = FALSE]
  <2>1. d.row = c.row /\ d.smState = c.smState /\ d.spawned = c.spawned
    BY Zenon DEF TaskRecords
  <2>2. r = Done(d)
    BY ZenonT(40), <1>1 DEF HandleLoopEvent
  <2> HIDE DEF d
  <2> QED
    BY Zenon, <2>1, <2>2, <1>d DEF Below
<1>2. CASE ~RestartRefused(c, ev) /\ StaleExit(c, ev)
  <2>1. r = Done(c)
    BY Zenon, <1>2 DEF HandleLoopEvent
  <2> QED
    BY Zenon, <2>1, <1>d
<1>3. CASE ~RestartRefused(c, ev) /\ ~StaleExit(c, ev)
  <2> DEFINE d == NoteExit(c, ev)
             i == [d EXCEPT !.smState = "idle"]
             row == Transition(CurrentState(c), ev.kind, SMContext(c, g))
             w == WriteBack(d, row)
  <2>2. d \in TaskRecords /\ d.row = c.row /\ d.smState = c.smState /\ d.spawned = c.spawned
    BY ZenonT(40) DEF NoteExit, TaskRecords
  <2>3. CASE DeliberateExit(c, ev)
    <3>1. r = Done(i)
      BY Zenon, <1>3, <2>3 DEF HandleLoopEvent
    <3> HIDE DEF d
    <3>2. i.row = d.row /\ i.spawned = d.spawned
      BY Zenon, <2>2 DEF TaskRecords
    <3>3. c.smState # "quarantined"
      BY ZenonT(40), <2>3 DEF DeliberateExit
    <3> HIDE DEF i
    <3> QED
      BY Zenon, <3>1, <3>2, <3>3, <2>2, <1>d DEF Below
  <2>4. CASE ~DeliberateExit(c, ev) /\ ~row.matched
    <3>1. r = Done(d)
      BY Zenon, <1>3, <2>4 DEF HandleLoopEvent
    <3> HIDE DEF d, row
    <3> QED
      BY Zenon, <3>1, <2>2, <1>d DEF Below
  <2>5. CASE ~DeliberateExit(c, ev) /\ row.matched
    <3>1. r \in SideEffect(ev.task, w, row, ev, faults)
      BY Zenon, <1>3, <2>5 DEF HandleLoopEvent
    <3>2. row \in Rows /\ (row.create => row.to = "spawning")
      BY Zenon, <1>0, ContextType, TransitionType, CreateSpawns
    <3>3. CurrentState(c) = "quarantined" => row.resetFailures \/ (row.to = "quarantined" /\ ~row.create)
      BY Zenon, <1>0, <2>5, ContextType, QuarantineRows
    <3>4. row.create /\ (ev.kind \in {"start", "timer-due"} \/ ev.req) => c.want = "running"
      <4>1. SMContext(c, g).desired = c.want
        BY Zenon DEF SMContext
      <4>2. CASE ev.kind \in {"start", "timer-due"}
        BY Zenon, <4>1, <4>2, <1>0, ContextType, AutomaticRows
      <4>3. CASE ev.req
        BY ZenonT(40), <4>3, <1>0, <1>3 DEF RestartRefused, FlagIsRestart
      <4> QED
        BY ZenonT(40), <4>2, <4>3
    <3> HIDE DEF d, row
    <3>5. /\ w \in TaskRecords /\ w.smState = row.to /\ w.spawned = c.spawned
      BY Zenon, <2>2, <3>2, WriteBackUpdate DEF Same
    <3>6. w.row.crashes = IF row.resetFailures THEN 0 ELSE c.row.crashes
      <4> DEFINE x == IF row.resetFailures THEN ClearCrashes(d.row) ELSE d.row
                 y == IF row.to = "idle" /\ CurrentState(d) # "idle" THEN MarkExited(x) ELSE x
      <4>1. w.row = y
        BY Zenon, <2>2 DEF WriteBack, TaskRecords
      <4>2. d.row \in TrackerRows
        BY Zenon, <2>2 DEF TaskRecords
      <4>3. x \in TrackerRows /\ x.crashes = IF row.resetFailures THEN 0 ELSE c.row.crashes
        BY Zenon, <2>2, <4>2, RowOps, RowCrashes
      <4> HIDE DEF x
      <4>4. MarkExited(x).crashes = x.crashes
        BY ZenonT(40), <4>3, RowCrashes DEF MarkExited
      <4>5. y.crashes = x.crashes
        BY ZenonT(40), <4>4
      <4> HIDE DEF y
      <4> QED
        BY ZenonT(40), <4>1, <4>3, <4>5
    <3> HIDE DEF w
    <3>7. /\ row.to # "quarantined" => w.row.crashes < QuarantineThreshold
          /\ row.create => w.row.crashes < QuarantineThreshold
      <4>1. CurrentState(c) # "quarantined" => c.row.crashes < QuarantineThreshold
        BY Zenon DEF CurrentState, Below
      <4>2. CASE row.resetFailures
        BY <4>2, <3>6, ThresholdAssumption
      <4>3. CASE ~row.resetFailures
        <5>1. w.row.crashes = c.row.crashes
          BY ZenonT(40), <4>3, <3>6
        <5>2. row.create => row.to # "quarantined"
          BY ZenonT(40), <3>2
        <5> QED
          BY ZenonT(40), <4>1, <4>3, <5>1, <5>2, <3>3
      <4> QED
        BY Zenon, <4>2, <4>3
    <3>8. Below(w)
      BY Zenon, <3>5, <3>7 DEF Below
    <3>9. CASE row.to = "spawning" /\ row.create
      <4>1. r \in CreateProcessEffect(ev.task, w, faults)
        BY <3>1, <3>9, Zenon DEF SideEffect
      <4>2. r.c.row.crashes = w.row.crashes /\ PostsPlain(r)
        BY ZenonT(40), <4>1, <3>5, CreateCrashes
      <4> QED
        BY Zenon, <4>2, <3>4, <3>7, <3>9 DEF Below
    <3>10. CASE row.to = "backoff"
      <4>1. r \in {Done(HandleBackoffWaiting(w))}
        BY ZenonT(40), <3>1, <3>10 DEF SideEffect
      <4> QED
        BY <4>1, <3>5, <1>d, BackoffBelow
    <3>11. CASE row.to = "quarantined"
      <4> DEFINE p == IF ev.kind = "timer-due" THEN [w EXCEPT !.parole = TRUE] ELSE w
      <4>1. r \in {Done(p)}
        BY Zenon, <3>1, <3>11 DEF SideEffect
      <4>2. p.row = w.row /\ p.smState = w.smState /\ p.spawned = w.spawned
        BY ZenonT(40), <3>5 DEF TaskRecords
      <4> HIDE DEF p
      <4> QED
        BY Zenon, <4>1, <4>2, <3>5, <3>8, <1>d DEF Below
    <3>12. CASE row.to = "exiting"
      <4>1. r \in TerminateEffect(ev.task, w, faults)
        BY <3>1, <3>12, ZenonT(40) DEF SideEffect
      <4> QED
        BY <4>1, <3>5, <3>8, TerminateCrashes DEF Below
    <3>13. CASE /\ ~(row.to = "spawning" /\ row.create)
                /\ row.to \notin {"backoff", "quarantined", "exiting"}
      <4>1. r \in {Done(w)}
        BY ZenonT(40), <3>1, <3>13 DEF SideEffect
      <4> QED
        BY Zenon, <4>1, <3>5, <3>8, <1>d
    <3> QED
      BY Zenon, <3>9, <3>10, <3>11, <3>12, <3>13
  <2> QED
    BY Zenon, <2>3, <2>4, <2>5
<1> QED
  BY Zenon, <1>1, <1>2, <1>3

\* A step that starts nothing and moves or adds unflagged events.
LEMMA NoSpawnStep ==
  ASSUME Inv, SpawnInv,
         \A t \in Tasks : task'[t].spawned = task[t].spawned /\ Below(task'[t]),
         \A i \in DOMAIN ch' : FlagIsRestart(ch'[i]),
         \A i \in DOMAIN selfq' : FlagIsRestart(selfq'[i]),
         \A i \in DOMAIN wq' : FlagIsRestart(wq'[i])
  PROVE  SpawnInv' /\ SpawnsRightly
<1>1. \A t \in Tasks : task[t].spawned \in Nat
  BY DEF Inv, TypeOK, TaskRecords
<1> QED
  BY SMTT(40), <1>1 DEF SpawnInv, SpawnsRightly, Spawns

\* An unflagged event is appended to the external channel, or nothing is.
LEMMA AppendPlain ==
  ASSUME Inv, SpawnInv,
         UNCHANGED ch \/ \E e : FlagIsRestart(e) /\ ch' = Append(ch, e)
  PROVE  \A i \in DOMAIN ch' : FlagIsRestart(ch'[i])
<1>1. ch \in Seq(LoopEvents) /\ \A i \in DOMAIN ch : FlagIsRestart(ch[i])
  BY Zenon DEF Inv, TypeOK, SpawnInv
<1>2. CASE UNCHANGED ch
  BY Zenon, <1>1, <1>2
<1>3. ASSUME NEW e, FlagIsRestart(e), ch' = Append(ch, e)
      PROVE  \A i \in DOMAIN ch' : FlagIsRestart(ch'[i])
  <2>1. \A i \in DOMAIN ch' : ch'[i] = e \/ (i \in DOMAIN ch /\ ch'[i] = ch[i])
    BY <1>1, <1>3
  <2> QED
    BY Zenon, <1>1, <1>3, <2>1
<1> QED
  BY ZenonT(40), <1>2, <1>3

\* A step outside the loop that updates one daemon.
LEMMA OffLoopNoSpawn ==
  ASSUME Inv, SpawnInv, NEW t \in Tasks, NEW d, Update(t, d),
         d.spawned = task[t].spawned, d.smState = task[t].smState,
         d.row.crashes = task[t].row.crashes,
         UNCHANGED ch \/ \E e : FlagIsRestart(e) /\ ch' = Append(ch, e),
         UNCHANGED <<selfq, wq>>
  PROVE  SpawnInv' /\ SpawnsRightly
<1>1. \A u \in Tasks : task'[u].spawned = task[u].spawned /\ Below(task'[u])
  BY Zenon DEF Inv, TypeOK, Update, SpawnInv, Below
<1>2. /\ \A i \in DOMAIN selfq' : FlagIsRestart(selfq'[i])
      /\ \A i \in DOMAIN wq' : FlagIsRestart(wq'[i])
  BY Zenon DEF SpawnInv
<1> QED
  BY Zenon, <1>1, <1>2, AppendPlain, NoSpawnStep

\* The loop handles a state-machine event.
LEMMA DispatchSpawn ==
  ASSUME Inv, SpawnInv, NEW ev \in SMEventSet, NEW q \in Seq(SMEventSet), Dispatch(ev, q),
         FlagIsRestart(ev), ev = NextEvent,
         \A i \in DOMAIN q : FlagIsRestart(q[i]),
         \A i \in DOMAIN ch' : FlagIsRestart(ch'[i]), UNCHANGED wq
  PROVE  SpawnInv' /\ SpawnsRightly
<1> DEFINE t == ev.task
           c == task[t]
<1>0. t \in Tasks /\ c \in TaskRecords /\ Below(c) /\ graceful \in BOOLEAN
  BY ZenonT(40) DEF Inv, TypeOK, SMEventSet, SpawnInv
<1>1. AllowedFaults \in SUBSET AllFaults
  BY ZenonT(40), ControllerAssumptions DEF AllowedFaults
<1>2. PICK r \in HandleLoopEvent(c, ev, graceful, AllowedFaults) :
           Update(t, r.c) /\ selfq' = PostSelf(q, r.self)
  BY ZenonT(40) DEF Dispatch
<1>3. /\ Below(r.c) /\ PostsPlain(r)
      /\ r.c.spawned # c.spawned =>
           /\ r.c.row.crashes < QuarantineThreshold
           /\ ev.kind \in {"start", "timer-due"} \/ ev.req => c.want = "running"
  BY <1>0, <1>1, HandleSpawns
<1>4. task'[t] = r.c /\ \A u \in Tasks \ {t} : task'[u] = task[u]
  BY Zenon, <1>0, <1>2 DEF Inv, TypeOK, Update
<1>5. \A u \in Tasks : task[u].spawned \in Nat
  BY Zenon DEF Inv, TypeOK, TaskRecords
<1>6. \A i \in DOMAIN selfq' : FlagIsRestart(selfq'[i])
  <2>1. CASE r.self = <<>>
    <3>1. selfq' = q
      BY SMTT(40), <2>1, <1>2 DEF PostSelf
    <3> QED
      BY ZenonT(40), <3>1
  <2>2. ASSUME NEW e, r.self = <<e>>, FlagIsRestart(e)
        PROVE  \A i \in DOMAIN selfq' : FlagIsRestart(selfq'[i])
    <3>1. selfq' = q \/ selfq' = q \o <<e>>
      BY Zenon, <2>2, <1>2 DEF PostSelf
    <3>2. \A i \in DOMAIN (q \o <<e>>) : (q \o <<e>>)[i] = e \/ (i \in DOMAIN q /\ (q \o <<e>>)[i] = q[i])
      OBVIOUS
    <3> QED
      BY Zenon, <3>1, <3>2, <2>2
  <2> QED
    BY Zenon, <1>3, <2>1, <2>2 DEF PostsPlain
<1> HIDE DEF c, t
<1>7. \A u \in Tasks : Below(task'[u])
  BY Zenon, <1>3, <1>4 DEF SpawnInv
<1>8. SpawnsRightly
  <2> SUFFICES ASSUME NEW u \in Tasks, Spawns(u)
               PROVE  /\ task'[u].row.crashes < QuarantineThreshold
                      /\ NextEvent.kind \in {"start", "timer-due"} \/ NextEvent.req => task[u].want = "running"
    BY Zenon DEF SpawnsRightly
  <2>1. u = t /\ r.c.spawned # c.spawned
    BY <1>4, <1>5 DEF Spawns, c
  <2> QED
    BY Zenon, <2>1, <1>3, <1>4 DEF c
<1> QED
  BY ZenonT(40), <1>6, <1>7, <1>8 DEF SpawnInv

\* The event loop.
LEMMA LoopSpawn ==
  ASSUME Inv, SpawnInv, Loop
  PROVE  SpawnInv' /\ SpawnsRightly
<1>0. /\ ch \in Seq(LoopEvents) /\ selfq \in Seq(SMEventSet)
      /\ \A i \in DOMAIN ch : FlagIsRestart(ch[i])
      /\ \A i \in DOMAIN selfq : FlagIsRestart(selfq[i])
      /\ \A i \in DOMAIN wq : FlagIsRestart(wq[i])
  BY Zenon DEF Inv, TypeOK, SpawnInv
<1>t. ch # <<>> /\ ch' = Tail(ch) => \A i \in DOMAIN ch' : FlagIsRestart(ch'[i])
  <2> SUFFICES ASSUME ch # <<>>, ch' = Tail(ch), NEW i \in DOMAIN ch' PROVE FlagIsRestart(ch'[i])
    BY Zenon
  <2>1. i + 1 \in DOMAIN ch /\ ch'[i] = ch[i + 1]
    BY <1>0
  <2> QED
    BY Zenon, <2>1, <1>0
<1>1. CASE HandleSelf
  <2> DEFINE ev == Head(selfq)
             q == Tail(selfq)
  <2>1. selfq # <<>> /\ Dispatch(ev, q) /\ UNCHANGED <<ch, wq>> /\ ev = NextEvent
    BY Zenon, <1>1 DEF HandleSelf, NextEvent
  <2>2. ev \in SMEventSet /\ q \in Seq(SMEventSet) /\ 1 \in DOMAIN selfq /\ ev = selfq[1]
    BY <1>0, <2>1
  <2>3. \A i \in DOMAIN q : i + 1 \in DOMAIN selfq /\ q[i] = selfq[i + 1]
    BY <1>0, <2>1
  <2> HIDE DEF ev, q
  <2>4. FlagIsRestart(ev) /\ \A i \in DOMAIN q : FlagIsRestart(q[i])
    BY Zenon, <1>0, <2>2, <2>3
  <2> QED
    BY Zenon, <1>0, <2>1, <2>2, <2>4, DispatchSpawn
<1>2. CASE HandleEvent
  <2> DEFINE ev == Head(ch)
  <2>1. /\ selfq = <<>> /\ ch # <<>> /\ Dispatch(ev, <<>>) /\ ch' = Tail(ch) /\ UNCHANGED wq
        /\ ev.kind \in SMEvents /\ ev = NextEvent
    BY Zenon, <1>2 DEF HandleEvent, NextEvent
  <2>2. ev \in LoopEvents /\ 1 \in DOMAIN ch /\ ev = ch[1]
    BY <1>0, <2>1
  <2>3. ev \in SMEventSet
    BY Zenon, <2>1, <2>2, LoopEventKinds
  <2>4. <<>> \in Seq(SMEventSet) /\ DOMAIN <<>> = {}
    BY SMTT(40)
  <2> HIDE DEF ev
  <2> QED
    BY Zenon, <1>0, <1>t, <2>1, <2>2, <2>3, <2>4, DispatchSpawn
<1>3. CASE HandleReapScan
  <2>1. /\ ch # <<>> /\ ch' = Tail(ch) /\ UNCHANGED <<selfq, wq>>
        /\ task' = [t \in Tasks |-> [task[t] EXCEPT !.want = Head(ch).snap[t]]]
    BY <1>3 DEF HandleReapScan
  <2>2. \A t \in Tasks : /\ task'[t].spawned = task[t].spawned
                         /\ task'[t].row = task[t].row /\ task'[t].smState = task[t].smState
    <3> SUFFICES ASSUME NEW t \in Tasks
                 PROVE  /\ task'[t].spawned = task[t].spawned
                        /\ task'[t].row = task[t].row /\ task'[t].smState = task[t].smState
      OBVIOUS
    <3>1. task[t] \in TaskRecords
      BY Zenon DEF Inv, TypeOK
    <3> QED
      BY Zenon, <2>1, <3>1 DEF TaskRecords
  <2>3. \A t \in Tasks : Below(task'[t])
    BY Zenon, <2>2 DEF SpawnInv, Below
  <2> QED
    BY Zenon, <1>0, <1>t, <2>1, <2>2, <2>3, NoSpawnStep
<1>4. CASE HandleParoleTick
  <2>1. ch # <<>> /\ ch' = Tail(ch) /\ UNCHANGED wq
    BY <1>4 DEF HandleParoleTick
  <2>2. \A t \in Tasks : /\ task'[t].spawned = task[t].spawned
                         /\ task'[t].row = task[t].row /\ task'[t].smState = task[t].smState
    <3>1. CASE UNCHANGED task
      BY Zenon, <3>1
    <3>2. CASE \E S : task' = [t \in Tasks |-> [task[t] EXCEPT !.parole = S[t]]]
      <4>1. PICK S : task' = [t \in Tasks |-> [task[t] EXCEPT !.parole = S[t]]]
        BY Zenon, <3>2
      <4> SUFFICES ASSUME NEW t \in Tasks
                   PROVE  /\ task'[t].spawned = task[t].spawned
                          /\ task'[t].row = task[t].row /\ task'[t].smState = task[t].smState
        OBVIOUS
      <4>2. task[t] \in TaskRecords
        BY DEF Inv, TypeOK
      <4> QED
        BY Zenon, <4>1, <4>2 DEF TaskRecords
    <3>3. ~graceful => \E S : task' = [t \in Tasks |-> [task[t] EXCEPT !.parole = S[t]]]
      <4> SUFFICES ASSUME ~graceful
                   PROVE  \E S : task' = [t \in Tasks |-> [task[t] EXCEPT !.parole = S[t]]]
        OBVIOUS
      <4>1. PICK stable : task' = [t \in Tasks |->
                         [task[t] EXCEPT !.parole =
                            @ /\ t \notin stable /\ task[t].smState \notin {"none", "idle"}]]
        BY ZenonT(40), <1>4 DEF HandleParoleTick
      <4> DEFINE S == [t \in Tasks |-> task[t].parole /\ t \notin stable
                                       /\ task[t].smState \notin {"none", "idle"}]
      <4>2. \A t \in Tasks : S[t] = (task[t].parole /\ t \notin stable
                                    /\ task[t].smState \notin {"none", "idle"})
        OBVIOUS
      <4> HIDE DEF S
      <4>3. task' = [t \in Tasks |-> [task[t] EXCEPT !.parole = S[t]]]
        BY ZenonT(40), <4>1, <4>2
      <4> QED
        BY Zenon, <4>3
    <3> QED
      BY Zenon, <3>1, <3>2, <3>3, <1>4 DEF HandleParoleTick
  <2>3. \A t \in Tasks : Below(task'[t])
    BY <2>2 DEF SpawnInv, Below
  <2>4. \A i \in DOMAIN selfq' : FlagIsRestart(selfq'[i])
    <3>1. CASE UNCHANGED selfq
      BY Zenon, <3>1, <1>0
    <3>2. CASE ~UNCHANGED selfq
      <4>0. ~graceful
        BY Zenon, <3>2, <1>4 DEF HandleParoleTick
      <4>1. PICK cooled \in SUBSET {t \in Tasks : Paroled(task[t])} :
                 \E order \in Orders(cooled) :
                    selfq' = [i \in 1..Cardinality(cooled) |-> AutoRestart(order[i])]
        BY ZenonT(40), <4>0, <1>4 DEF HandleParoleTick
      <4> QED
        BY Zenon, <4>1, PlainEvents
    <3> QED
      BY Zenon, <3>1, <3>2
  <2> QED
    BY Zenon, <1>0, <1>t, <2>1, <2>2, <2>3, <2>4, NoSpawnStep
<1> QED
  BY Zenon, <1>1, <1>2, <1>3, <1>4 DEF Loop

\* The goroutines around the loop start nothing.
LEMMA InternalSpawn ==
  ASSUME Inv, SpawnInv, NEW t \in Tasks, Internal(t)
  PROVE  SpawnInv' /\ SpawnsRightly
<1> DEFINE c == task[t]
           Kept(d) == /\ d.spawned = c.spawned /\ d.smState = c.smState
                      /\ d.row.crashes = c.row.crashes
           Calm == \E d : Update(t, d) /\ Kept(d)
           Posts == UNCHANGED ch \/ \E e : FlagIsRestart(e) /\ ch' = Append(ch, e)
<1>0. UNCHANGED task => Update(t, c)
  BY Zenon DEF Inv, TypeOK, Update
<1>1. c \in TaskRecords /\ c.row \in TrackerRows
  BY Zenon DEF Inv, TypeOK, TaskRecords
<1>s. SUFFICES Calm /\ Posts /\ UNCHANGED <<selfq, wq>>
  BY Zenon, OffLoopNoSpawn
<1>e. \A e : Post(e) /\ FlagIsRestart(e) => Posts
  BY DEF Post
<1> HIDE DEF c, Posts
<1>2. CASE WaitMarksExit(t)
  <2>1. PICK k : Update(t, [c EXCEPT
                     !.row = MarkExitedIfCurrent(@, k.gen),
                     !.children = IF IsStale(c.row, k.gen) THEN c.children \ {k}
                                  ELSE (c.children \ {k}) \cup {[k EXCEPT !.life = "marked"]}])
    BY ZenonT(40), <1>2 DEF WaitMarksExit, c
  <2>2. \A ks : Kept([c EXCEPT !.row = MarkExitedIfCurrent(@, k.gen), !.children = ks])
    BY <1>1, RowCrashes DEF TaskRecords
  <2> QED
    BY ZenonT(40), <1>2, <2>1, <2>2 DEF WaitMarksExit, Posts
<1>3. CASE WaitPostsExit(t)
  <2>1. PICK k : Update(t, [c EXCEPT !.children = @ \ {k}]) /\ Post(ExitEvent(t, k.gen, k.clean))
    BY ZenonT(40), <1>3 DEF WaitPostsExit, c
  <2>2. Kept([c EXCEPT !.children = @ \ {k}])
    BY <1>1 DEF TaskRecords
  <2> QED
    BY Zenon, <1>3, <1>e, <2>1, <2>2, PlainEvents DEF WaitPostsExit
<1>4. CASE TimerFires(t)
  <2>1. PICK e : Update(t, IF c.smState \in {"none", "backoff"} /\ c.armGen = e
                           THEN [[c EXCEPT !.timers = @ \ {e}] EXCEPT !.due = @ \cup {e}]
                           ELSE [c EXCEPT !.timers = @ \ {e}])
    <3>1. PICK e : LET d == [c EXCEPT !.timers = @ \ {e}]
                   IN  Update(t, IF d.smState \in {"none", "backoff"} /\ d.armGen = e
                                 THEN [d EXCEPT !.due = @ \cup {e}] ELSE d)
      BY ZenonT(40), <1>4 DEF TimerFires, c
    <3>2. [c EXCEPT !.timers = @ \ {e}].smState = c.smState /\ [c EXCEPT !.timers = @ \ {e}].armGen = c.armGen
      BY <1>1 DEF TaskRecords
    <3> QED
      BY ZenonT(40), <3>1, <3>2
  <2>2. Kept([[c EXCEPT !.timers = @ \ {e}] EXCEPT !.due = @ \cup {e}]) /\ Kept([c EXCEPT !.timers = @ \ {e}])
    BY <1>1 DEF TaskRecords
  <2> QED
    BY Zenon, <1>4, <2>1, <2>2 DEF TimerFires, Posts
<1>5. CASE TimerPosts(t)
  <2>1. PICK e : Update(t, [c EXCEPT !.due = @ \ {e}]) /\ Post(SMEvent("timer-due", t))
    BY ZenonT(40), <1>5 DEF TimerPosts, c
  <2>2. Kept([c EXCEPT !.due = @ \ {e}])
    BY Zenon, <1>1 DEF TaskRecords
  <2> QED
    BY Zenon, <1>5, <1>e, <2>1, <2>2, PlainEvents DEF TimerPosts
<1>6. CASE SweepFindsDead(t) \/ SweepPosts(t)
  <2>1. \A v : Kept([c EXCEPT !.verdict = v])
    BY <1>1 DEF TaskRecords
  <2>2. Calm
    BY ZenonT(40), <1>6, <2>1 DEF SweepFindsDead, SweepPosts, c
  <2>3. Posts /\ UNCHANGED <<selfq, wq>>
    BY Zenon, <1>6, <1>e, PlainEvents DEF SweepFindsDead, SweepPosts, Posts
  <2> QED
    BY Zenon, <2>2, <2>3
<1>7. CASE SweepRestarts(t) \/ PortGatePosts(t)
  <2>1. Kept([c EXCEPT !.unbound = FALSE]) /\ Kept([c EXCEPT !.gate = "none"])
    BY <1>1 DEF TaskRecords
  <2>2. Calm
    BY ZenonT(40), <1>7, <2>1 DEF SweepRestarts, PortGatePosts, c
  <2>3. Posts /\ UNCHANGED <<selfq, wq>>
    BY <1>7, <1>e, PlainEvents DEF SweepRestarts, PortGatePosts
  <2> QED
    BY <2>2, <2>3
<1>8. CASE PortGateDecides(t)
  <2>1. \A g, b : Kept([c EXCEPT !.gate = g, !.gateCleared = b])
    BY <1>1 DEF TaskRecords
  <2>2. \E g, b : Update(t, [c EXCEPT !.gate = g, !.gateCleared = b])
    BY ZenonT(40), <1>8 DEF PortGateDecides, c
  <2>3. Posts /\ UNCHANGED <<selfq, wq>>
    BY Zenon, <1>8 DEF PortGateDecides, Posts
  <2> HIDE DEF Kept
  <2> QED
    BY <2>1, <2>2, <2>3, Zenon
<1>9. CASE ReconcileStarts(t)
  <2>1. Update(t, c)
    BY Zenon, <1>9, <1>0 DEF ReconcileStarts
  <2> QED
    BY Zenon, <1>9, <1>e, <2>1, PlainEvents DEF ReconcileStarts
<1>10. CASE ReconcileTerminates(t)
  <2>1. PICK r \in TerminateEffect(t, c, AllowedFaults) : Update(t, r.c)
    BY ZenonT(40), <1>10 DEF ReconcileTerminates, c
  <2>2. Kept(r.c)
    <3>1. /\ r.c.row.crashes = c.row.crashes /\ r.c.smState = c.smState
          /\ r.c.spawned = c.spawned
      BY SMTT(40), <1>1, TerminateCrashes
    <3> QED
      BY ZenonT(40), <3>1
  <2> QED
    BY Zenon, <1>10, <2>1, <2>2 DEF ReconcileTerminates, Posts
<1> QED
  BY Zenon, <1>2, <1>3, <1>4, <1>5, <1>6, <1>7, <1>8, <1>9, <1>10 DEF Internal

\* Nor do the children, the operator, the sweep and the watcher.
LEMMA ExternalSpawn ==
  ASSUME Inv, SpawnInv, NEW t \in Tasks, External(t)
  PROVE  SpawnInv' /\ SpawnsRightly
<1> DEFINE c == task[t]
<1>1. c \in TaskRecords /\ c.row \in TrackerRows /\ Below(c)
  BY Zenon DEF Inv, TypeOK, TaskRecords, SpawnInv
<1>2. CASE ChildDies(t)
  <2>1. PICK ks : Update(t, [c EXCEPT !.children = ks])
    BY ZenonT(40), <1>2 DEF ChildDies
  <2> DEFINE d == [c EXCEPT !.children = ks]
  <2>2. d.spawned = c.spawned /\ d.smState = c.smState /\ d.row = c.row
    BY <1>1 DEF TaskRecords
  <2>3. UNCHANGED <<ch, selfq, wq>>
    BY Zenon, <1>2 DEF ChildDies
  <2> HIDE DEF d
  <2> QED
    BY Zenon, <2>1, <2>2, <2>3, OffLoopNoSpawn DEF d
<1>3. CASE SweepFindsUnbound(t)
  <2> DEFINE d == [c EXCEPT !.unbound = TRUE]
  <2>1. Update(t, d) /\ UNCHANGED <<ch, selfq, wq>>
    BY <1>3 DEF SweepFindsUnbound
  <2>2. d.spawned = c.spawned /\ d.smState = c.smState /\ d.row = c.row
    BY Zenon, <1>1 DEF TaskRecords
  <2> HIDE DEF d
  <2> QED
    BY Zenon, <2>1, <2>2, OffLoopNoSpawn
<1>4. CASE HandleRespawn(t) \/ SelfHeal(t) \/ SetIntent(t)
  <2>1. Update(t, c) /\ UNCHANGED <<selfq, wq>>
    BY Zenon, <1>4 DEF HandleRespawn, SelfHeal, SetIntent, Inv, TypeOK, Update
  <2>2. UNCHANGED ch \/ \E e : FlagIsRestart(e) /\ ch' = Append(ch, e)
    BY Zenon, <1>4, PlainEvents DEF HandleRespawn, SelfHeal, SetIntent, Post
  <2> QED
    BY Zenon, <2>1, <2>2, OffLoopNoSpawn
<1>5. CASE WindowSlides(t)
  <2> DEFINE row == [c.row EXCEPT !.crashes = @ - 1]
             d == [c EXCEPT !.row = row]
  <2>1. Update(t, d) /\ UNCHANGED <<ch, selfq, wq>> /\ c.row.crashes > 0
    BY ZenonT(40), <1>5 DEF WindowSlides
  <2>2. c.row.crashes \in Nat /\ row.crashes = c.row.crashes - 1
    BY <1>1 DEF TrackerRows
  <2>3. row.crashes \in Nat /\ row.crashes < c.row.crashes
    BY <2>1, <2>2
  <2> HIDE DEF row
  <2>4. d.spawned = c.spawned /\ d.smState = c.smState /\ d.row = row
    BY Zenon, <1>1 DEF TaskRecords
  <2>5. Below(d)
    BY <1>1, <2>2, <2>3, <2>4, ThresholdAssumption DEF Below
  <2> HIDE DEF d
  <2>6. \A u \in Tasks : task'[u].spawned = task[u].spawned /\ Below(task'[u])
    BY Zenon, <2>1, <2>4, <2>5 DEF Inv, TypeOK, Update, SpawnInv
  <2>7. /\ \A i \in DOMAIN ch' : FlagIsRestart(ch'[i])
        /\ \A i \in DOMAIN selfq' : FlagIsRestart(selfq'[i])
        /\ \A i \in DOMAIN wq' : FlagIsRestart(wq'[i])
    BY Zenon, <2>1 DEF SpawnInv
  <2> QED
    BY Zenon, <2>6, <2>7, NoSpawnStep
<1> QED
  BY Zenon, <1>2, <1>3, <1>4, <1>5 DEF External

\* The watcher, the parole ticker and the quiesce window.
LEMMA WatcherSpawn ==
  ASSUME Inv, SpawnInv,
         WatcherReads \/ WatcherPosts \/ ParoleTicks \/ Quiesce \/ QuiesceEnds
  PROVE  SpawnInv' /\ SpawnsRightly
<1>0. /\ \A i \in DOMAIN ch : FlagIsRestart(ch[i])
      /\ \A i \in DOMAIN selfq : FlagIsRestart(selfq[i])
      /\ wq \in Seq(LoopEvents) /\ \A i \in DOMAIN wq : FlagIsRestart(wq[i])
      /\ \A t \in Tasks : Below(task[t])
  BY Zenon DEF SpawnInv, Inv, TypeOK
<1>1. CASE WatcherReads
  <2>1. PICK order \in Orders({t \in Tasks : disk[t] # prev[t]}) :
             wq' = <<ScanEvent(disk)>> \o [i \in DOMAIN order |-> SMEvent("intent-update", order[i])]
    BY ZenonT(40), <1>1 DEF WatcherReads
  <2> DEFINE n == Cardinality({t \in Tasks : disk[t] # prev[t]})
             us == [i \in 1 .. n |-> SMEvent("intent-update", order[i])]
  <2>2. n \in Nat
    BY ControllerAssumptions
  <2> HIDE DEF n
  <2>3. wq' = <<ScanEvent(disk)>> \o us
    BY Zenon, <2>1 DEF Orders, n
  <2>4. Len(us) = n /\ DOMAIN us = 1 .. n /\ \A i \in 1 .. n : FlagIsRestart(us[i])
    <3>1. \A i \in 1 .. n : FlagIsRestart(SMEvent("intent-update", order[i]))
      BY ZenonT(40), PlainEvents
    <3>2. \A i \in 1 .. n : us[i] = SMEvent("intent-update", order[i])
      BY Zenon
    <3>3. Len(us) = n /\ DOMAIN us = 1 .. n
      BY <2>2
    <3> HIDE DEF us
    <3> QED
      BY ZenonT(40), <3>1, <3>2, <3>3
  <2>5. us \in Seq({us[i] : i \in 1 .. n})
    BY <2>2
  <2> HIDE DEF us
  <2>6. \A i \in DOMAIN wq' : wq'[i] = ScanEvent(disk) \/ \E j \in 1 .. n : wq'[i] = us[j]
    BY <2>2, <2>3, <2>4, <2>5
  <2>7. \A i \in DOMAIN wq' : FlagIsRestart(wq'[i])
    BY Zenon, <2>4, <2>6, PlainEvents
  <2> QED
    BY Zenon, <1>0, <1>1, <2>7, NoSpawnStep DEF WatcherReads
<1>2. CASE WatcherPosts
  <2>1. wq # <<>> /\ ch' = Append(ch, Head(wq)) /\ wq' = Tail(wq) /\ UNCHANGED <<task, selfq>>
    BY Zenon, <1>2 DEF WatcherPosts, Post
  <2>2. 1 \in DOMAIN wq /\ Head(wq) = wq[1]
    BY <1>0, <2>1
  <2>3. \A i \in DOMAIN wq' : i + 1 \in DOMAIN wq /\ wq'[i] = wq[i + 1]
    BY <1>0, <2>1
  <2>4. \A i \in DOMAIN ch' : FlagIsRestart(ch'[i])
    BY Zenon, <1>0, <2>1, <2>2, AppendPlain
  <2> QED
    BY Zenon, <1>0, <2>1, <2>3, <2>4, NoSpawnStep
<1>3. CASE ParoleTicks
  <2>1. FlagIsRestart(ParoleTick)
    BY Zenon, LoopEventKinds DEF FlagIsRestart, SMEventSet, SMEvents
  <2>2. ch' = Append(ch, ParoleTick) /\ UNCHANGED <<task, selfq, wq>>
    BY Zenon, <1>3 DEF ParoleTicks, Post
  <2> QED
    BY Zenon, <1>0, <2>1, <2>2, AppendPlain, NoSpawnStep
<1>4. CASE Quiesce \/ QuiesceEnds
  BY Zenon, <1>0, <1>4, NoSpawnStep DEF Quiesce, QuiesceEnds
<1> QED
  BY Zenon, <1>1, <1>2, <1>3, <1>4

\* SpawnInv holds initially and every step keeps it and spawns rightly.
LEMMA InitSpawn == ASSUME Init PROVE SpawnInv
<1>1. PICK s \in [Tasks -> Starts] : task = [t \in Tasks |-> InitialTask(s[t])]
  BY DEF Init
<1>2. \A x \in Starts : InitialTask(x).row.crashes = 0
  BY Zenon DEF InitialTask, MarkSpawned, Absent
<1>3. \A t \in Tasks : Below(task[t])
  BY <1>1, <1>2, ThresholdAssumption DEF Below
<1>4. DOMAIN <<>> = {}
  BY SMTT(40)
<1> QED
  BY Zenon, <1>3, <1>4 DEF Init, SpawnInv

\* Every step keeps SpawnInv and spawns rightly.
LEMMA NextSpawn ==
  ASSUME Inv, SpawnInv, [Next]_vars
  PROVE  SpawnInv' /\ SpawnsRightly
<1>1. CASE UNCHANGED vars
  BY Zenon, <1>1, NoSpawnStep DEF vars, SpawnInv
<1> QED
  BY ZenonT(40), <1>1, LoopSpawn, WatcherSpawn, InternalSpawn, ExternalSpawn DEF Next

\* SpawnInv holds in every reachable state.
THEOREM SpawnInvHolds == Spec => []SpawnInv
<1>1. Init => SpawnInv
  BY Zenon, InitSpawn
<1>2. Inv /\ SpawnInv /\ [Next]_vars => SpawnInv'
  BY NextSpawn
<1> QED
  BY <1>1, <1>2, InvHolds, PTL DEF Spec

\* The crash loop is broken: whatever interleaving of exits, timers and
\* restarts, no process starts while the failures in the window reach the
\* threshold.
THEOREM NoSpawnAtThresholdHolds == Spec => NoSpawnAtThreshold
<1>1. Inv /\ SpawnInv /\ [Next]_vars
      => [\A t \in Tasks : Spawns(t) => task'[t].row.crashes < QuarantineThreshold]_vars
  BY Zenon, NextSpawn DEF SpawnsRightly
<1> QED
  BY <1>1, InvHolds, SpawnInvHolds, PTL DEF Spec, NoSpawnAtThreshold

\* Nothing automatic starts a stopped daemon: neither the startup reconcile,
\* nor a timer armed before the stop, nor parole, self-heal or the port gate.
THEOREM NoAutomaticSpawnWhenStoppedHolds == Spec => NoAutomaticSpawnWhenStopped
<1>1. Inv /\ SpawnInv /\ [Next]_vars
      => [\A t \in Tasks :
            Spawns(t) /\ (NextEvent.kind \in {"start", "timer-due"} \/ NextEvent.req)
            => task[t].want = "running"]_vars
  BY NextSpawn DEF SpawnsRightly
<1> QED
  BY <1>1, InvHolds, SpawnInvHolds, PTL DEF Spec, NoAutomaticSpawnWhenStopped
===========================================================================
