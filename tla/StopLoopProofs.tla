-------------------------- MODULE StopLoopProofs --------------------------
(***************************************************************************)
(* The durable stop, for any daemons, callers and bounds, first half: the  *)
(* operators on worlds, the inductive invariant Inv of StopSettlement and  *)
(* its preservation by the event loop.                                     *)
(*                                                                         *)
(* A handler of the loop builds its result, a world, out of operators;     *)
(* each operator is shown to keep a world Good and to leave every stop     *)
(* where it is (Still), to move one, or to spawn one child.  The last part *)
(* does the same for Sound: what is known of the child that is alive and   *)
(* of the recovery that is queued.                                         *)
(***************************************************************************)
EXTENDS StopSettlement, TLAPS

Worlds == [task : [Tasks -> TaskRecords], disk : StateFiles, ch : Seq(Events)]

\* A pending receipt names the latest child, and the file knows that child.
Fenced(w) ==
  \A u \in Tasks : /\ w.disk.rec[u] # NoReceipt => w.task[u].row.gen = w.disk.rec[u].gen
                   /\ w.disk.row[u].gen = w.task[u].row.gen

\* The mirror is the file's, or is known not to be.
Synced(w) == integrity \/ \A u \in Tasks : w.task[u].rec = w.disk.rec[u]

Good(w) == w \in Worlds /\ Fenced(w) /\ Synced(w)

\* What StopTransaction sees of a receipt.
Abs(r) == [phase |-> EffectivePhase(r), child |-> r.gen]

Kept(w, v, u) ==
  Abs(v.disk.rec[u]) = Abs(w.disk.rec[u]) /\ v.task[u].row.gen = w.task[u].row.gen

Still(w, v) == \A u \in Tasks : Kept(w, v, u)

Spawned(w, v, t) ==
  /\ w.disk.rec[t] = NoReceipt /\ v.disk.rec[t] = NoReceipt
  /\ v.task[t].row.gen = w.task[t].row.gen + 1
  /\ \A u \in Tasks \ {t} : Kept(w, v, u)

---------------------------------------------------------------------------
(* Rows, receipts and records *)

\* The tracker operations return rows, and only a spawn numbers a new child.
LEMMA RowUpdates ==
  ASSUME NEW row \in TrackerRows, NEW g \in Nat
  PROVE  /\ MarkExited(row) \in TrackerRows /\ MarkExited(row).gen = row.gen
         /\ MarkBackoff(row) \in TrackerRows /\ MarkBackoff(row).gen = row.gen
         /\ MarkExitedIfCurrent(row, g) \in TrackerRows /\ MarkExitedIfCurrent(row, g).gen = row.gen
         /\ MarkSpawned(row, g) \in TrackerRows /\ MarkSpawned(row, g).gen = row.gen + 1
<1>1. \A st \in TrackerStates : Cleared(row, st) \in TrackerRows /\ Cleared(row, st).gen = row.gen
  BY ZenonT(40) DEF TrackerRows, Cleared
<1>2. row.gen + 1 \in Nat /\ {"idle", "backoff", "running"} \subseteq TrackerStates
  BY DEF TrackerRows, TrackerStates
<1>3. MarkSpawned(row, g) \in TrackerRows /\ MarkSpawned(row, g).gen = row.gen + 1
  BY ZenonT(40), <1>2 DEF TrackerRows, MarkSpawned
<1> QED
  BY <1>1, <1>2, <1>3 DEF MarkExited, MarkBackoff, MarkExitedIfCurrent

\* A legal move of a receipt gives a receipt; failing and resuming keep what
\* StopTransaction sees, every other move takes it to the phase that is asked for.
LEMMA ReceiptMoves ==
  ASSUME NEW r \in Receipts, NEW phase \in Phases \cup {"failed"}, Legal(r, phase)
  PROVE  /\ r # NoReceipt
         /\ NextReceipt(r, phase) \in Receipts /\ NextReceipt(r, phase) # NoReceipt
         /\ NextReceipt(r, phase).gen = r.gen
         /\ phase = "failed" \/ r.phase = "failed" => Abs(NextReceipt(r, phase)) = Abs(r)
         /\ phase # "failed" => EffectivePhase(NextReceipt(r, phase)) = phase
<1>1. r # NoReceipt
  BY DEF Legal, NoReceipt
<1>2. r.rev + 1 \in Nat
  BY <1>1 DEF Receipts
<1>3. NextReceipt(r, phase) \in Receipts /\ NextReceipt(r, phase) # NoReceipt /\ NextReceipt(r, phase).gen = r.gen
  BY Zenon, <1>1, <1>2 DEF Receipts, Legal, NextReceipt, Phases, NoReceipt
<1>4. phase = "failed" \/ r.phase = "failed" => EffectivePhase(NextReceipt(r, phase)) = EffectivePhase(r)
  BY <1>1, <1>2 DEF Receipts, Legal, NextReceipt, Phases, NoReceipt, EffectivePhase
<1>5. phase # "failed" => EffectivePhase(NextReceipt(r, phase)) = phase
  BY <1>1, <1>2 DEF Receipts, Legal, NextReceipt, Phases, NoReceipt, EffectivePhase
<1> QED
  BY <1>1, <1>3, <1>4, <1>5 DEF Abs

\* An update of one daemon gives a world with the other daemons, the file and
\* the queue as they were.
LEMMA TaskUpdate ==
  ASSUME NEW w \in Worlds, NEW t \in Tasks, NEW c \in TaskRecords
  PROVE  LET v == [w EXCEPT !.task[t] = c]
         IN  /\ v \in Worlds /\ v.disk = w.disk /\ v.ch = w.ch
             /\ v.task = [w.task EXCEPT ![t] = c]
             /\ v.task[t] = c /\ \A u \in Tasks \ {t} : v.task[u] = w.task[u]
BY Zenon DEF Worlds

\* The same for an update of the row of a daemon,
LEMMA RowUpdate ==
  ASSUME NEW w \in Worlds, NEW t \in Tasks, NEW row \in TrackerRows, NEW v, v = [w EXCEPT !.task[t].row = row]
  PROVE  /\ v \in Worlds /\ v.disk = w.disk /\ v.ch = w.ch
         /\ v.task[t].row = row /\ v.task[t].rec = w.task[t].rec
         /\ \A u \in Tasks \ {t} : v.task[u] = w.task[u]
<1>1. w.task[t] \in TaskRecords /\ w.task \in [Tasks -> TaskRecords]
  BY DEF Worlds
<1> QED
  BY Zenon, <1>1 DEF Worlds, TaskRecords

\* of what its process does,
LEMMA ChildUpdate ==
  ASSUME NEW w \in Worlds, NEW t \in Tasks, NEW c \in {"none", "alive", "dead", "marked"}, NEW v, v = [w EXCEPT !.task[t].child = c]
  PROVE  /\ v \in Worlds /\ v.disk = w.disk /\ v.ch = w.ch
         /\ v.task[t].row = w.task[t].row /\ v.task[t].rec = w.task[t].rec
         /\ \A u \in Tasks \ {t} : v.task[u] = w.task[u]
<1>1. w.task[t] \in TaskRecords /\ w.task \in [Tasks -> TaskRecords]
  BY DEF Worlds
<1> QED
  BY Zenon, <1>1 DEF Worlds, TaskRecords

\* and of its recovery token.
LEMMA ArmedUpdate ==
  ASSUME NEW w \in Worlds, NEW t \in Tasks, NEW a \in {"no", "timer", "queued"}, NEW v, v = [w EXCEPT !.task[t].armed = a]
  PROVE  /\ v \in Worlds /\ v.disk = w.disk /\ v.ch = w.ch
         /\ v.task[t].row = w.task[t].row /\ v.task[t].rec = w.task[t].rec
         /\ \A u \in Tasks \ {t} : v.task[u] = w.task[u]
<1>1. w.task[t] \in TaskRecords /\ w.task \in [Tasks -> TaskRecords]
  BY DEF Worlds
<1> QED
  BY Zenon, <1>1 DEF Worlds, TaskRecords

\* Saving the tracker keeps a world good and every receipt as it is, and tells the
\* file the latest child of every daemon.
LEMMA SaveGood ==
  ASSUME NEW w \in Worlds, Synced(w),
         \A u \in Tasks : w.disk.rec[u] # NoReceipt => w.task[u].row.gen = w.disk.rec[u].gen
  PROVE  /\ Good(PersistTo(w)) /\ Still(w, PersistTo(w))
         /\ PersistTo(w).task = w.task /\ PersistTo(w).ch = w.ch
         /\ PersistTo(w).disk.rec = w.disk.rec
<1> DEFINE v == PersistTo(w)
<1>1. /\ w.task \in [Tasks -> TaskRecords] /\ w.disk \in StateFiles
      /\ \A u \in Tasks : w.task[u].row \in TrackerRows /\ w.task[u].rec \in Receipts
  BY DEF Worlds, TaskRecords
<1>2. ~integrity => [u \in Tasks |-> w.task[u].rec] = w.disk.rec
  BY <1>1 DEF Synced, StateFiles
<1>3. /\ v \in Worlds /\ v.task = w.task /\ v.ch = w.ch /\ v.disk.rec = w.disk.rec
      /\ v.disk.row = [u \in Tasks |-> w.task[u].row]
  BY Zenon, <1>1, <1>2 DEF PersistTo, Worlds, StateFiles
<1>4. Fenced(v) /\ Synced(v) /\ Still(w, v)
  BY <1>3 DEF Fenced, Synced, Still, Kept
<1> QED
  BY Zenon, <1>3, <1>4 DEF Good

---------------------------------------------------------------------------
(* What the loop does to a daemon *)

\* No receipt is touched.
Untouched(w, v) ==
  v.disk.rec = w.disk.rec /\ \A u \in Tasks : v.task[u].rec = w.task[u].rec

\* A good world whose daemon t changes in anything but its receipt and the number
\* of its child is good, and every stop is where it was.
LEMMA QuietUpdate ==
  ASSUME NEW w, NEW v \in Worlds, NEW t \in Tasks, Good(w), v.disk = w.disk,
         v.task[t].row.gen = w.task[t].row.gen, v.task[t].rec = w.task[t].rec,
         \A u \in Tasks \ {t} : v.task[u] = w.task[u]
  PROVE  Good(v) /\ Still(w, v) /\ Untouched(w, v)
BY DEF Good, Fenced, Synced, Still, Kept, Untouched

\* Still and Untouched compose.
LEMMA Compose ==
  ASSUME NEW w, NEW v, NEW x, Still(w, v), Untouched(w, v)
  PROVE  /\ Still(v, x) => Still(w, x)
         /\ Untouched(v, x) => Untouched(w, x)
         /\ \A t \in Tasks : Spawned(v, x, t) => Spawned(w, x, t)
BY Zenon DEF Still, Kept, Untouched, Spawned

\* Saving a good world.
LEMMA PersistGood ==
  ASSUME NEW w, Good(w)
  PROVE  Good(PersistTo(w)) /\ Still(w, PersistTo(w)) /\ Untouched(w, PersistTo(w))
         /\ PersistTo(w).task = w.task
BY SaveGood DEF Good, Fenced, Untouched

\* admitCreateProcess: a child is created only where no receipt is pending.
LEMMA CreateGood ==
  ASSUME NEW w, NEW t \in Tasks, Good(w)
  PROVE  /\ Good(CreateChild(w, t)) /\ Untouched(w, CreateChild(w, t))
         /\ Still(w, CreateChild(w, t)) \/ Spawned(w, CreateChild(w, t), t)
<1> DEFINE c == Running(w.task[t])
           x == [w EXCEPT !.task[t] = c]
<1>1. CASE ~AdmitCreateProcess(w, t)
  BY Zenon, <1>1 DEF CreateChild, Still, Kept, Untouched
<1>2. CASE AdmitCreateProcess(w, t)
  <2>1. w \in Worlds /\ w.task[t] \in TaskRecords /\ w.task[t].row \in TrackerRows
    BY DEF Good, Worlds, TaskRecords
  <2>2. w.disk.rec[t] = NoReceipt /\ ~integrity
    BY Zenon, <1>2 DEF AdmitCreateProcess, Good, Synced
  <2>3. w.task[t].row.gen + 1 \in Nat
    BY <2>1 DEF TrackerRows
  <2>4. MarkSpawned(w.task[t].row, w.task[t].row.gen + 1) \in TrackerRows
        /\ MarkSpawned(w.task[t].row, w.task[t].row.gen + 1).gen = w.task[t].row.gen + 1
    BY <2>1, <2>3, RowUpdates
  <2>5. c \in TaskRecords /\ c.rec = w.task[t].rec /\ c.row.gen = w.task[t].row.gen + 1
    BY Zenon, <2>1, <2>4 DEF Running, TaskRecords, SMStates, QueuedActions
  <2>6. /\ x \in Worlds /\ x.disk = w.disk /\ x.task[t] = c
        /\ \A u \in Tasks \ {t} : x.task[u] = w.task[u]
    BY <2>1, <2>5, TaskUpdate
  <2>7. /\ Synced(x)
        /\ \A u \in Tasks : x.disk.rec[u] # NoReceipt => x.task[u].row.gen = x.disk.rec[u].gen
    BY Zenon, <2>2, <2>5, <2>6 DEF Good, Fenced, Synced
  <2>8. CreateChild(w, t) = PersistTo(x)
    BY <1>2 DEF CreateChild
  <2>9. Good(PersistTo(x)) /\ PersistTo(x).task = x.task /\ PersistTo(x).disk.rec = x.disk.rec
    BY Zenon, <2>6, <2>7, SaveGood
  <2> QED
    BY Zenon, <2>2, <2>5, <2>6, <2>8, <2>9 DEF Untouched, Spawned, Kept
<1> QED
  BY <1>1, <1>2

\* Terminating a child, with any outcome, touches no receipt and numbers no child.
LEMMA TerminateGood ==
  ASSUME NEW w, NEW t \in Tasks, NEW outcome, Good(w)
  PROVE  LET v == Terminate(w, t, outcome).w
         IN  Good(v) /\ Still(w, v) /\ Untouched(w, v)
<1> DEFINE Fine(v) == Good(v) /\ Still(w, v) /\ Untouched(w, v)
<1>0. Fine(w)
  BY Zenon DEF Still, Kept, Untouched
<1>1. Fine(Killed(w, t))
  <2>1. w \in Worlds
    BY DEF Good
  <2>2. (IF w.task[t].own THEN "dead" ELSE "none") \in {"none", "alive", "dead", "marked"}
    BY Zenon
  <2> DEFINE v == Killed(w, t)
  <2>4. /\ v \in Worlds /\ v.disk = w.disk /\ v.task[t].row = w.task[t].row
        /\ v.task[t].rec = w.task[t].rec /\ \A u \in Tasks \ {t} : v.task[u] = w.task[u]
    BY <2>1, <2>2, ChildUpdate DEF Killed
  <2> HIDE DEF v
  <2> QED
    BY <2>4, QuietUpdate DEF v
<1>2. ASSUME NEW x, Fine(x) PROVE Fine(Synthesized(x, t))
  <2> DEFINE e == Exit(t, x.task[t].row.gen)
             z == [x EXCEPT !.ch = <<e>> \o @]
  <2>1. x \in Worlds /\ x.task[t].row.gen \in Nat
    BY Zenon, <1>2 DEF Good, Worlds, TaskRecords, TrackerRows
  <2>2. e \in Events
    BY <2>1 DEF Exit, Events
  <2>3. Fine(z)
    <3> HIDE DEF e
    <3>1. <<e>> \o x.ch \in Seq(Events)
      BY <2>1, <2>2 DEF Worlds
    <3>2. z \in Worlds /\ z.disk = x.disk /\ z.task = x.task
      BY Zenon, <2>1, <3>1 DEF Worlds
    <3> HIDE DEF z
    <3> QED
      BY <1>2, <3>2 DEF Good, Fenced, Synced, Still, Kept, Untouched
  <2> QED
    BY Zenon, <1>2, <2>3 DEF Synthesized
<1>3. ASSUME NEW x, Fine(x) PROVE Fine(Observed(x, t))
  <2> DEFINE row == MarkExitedIfCurrent(x.task[t].row, x.task[t].row.gen)
             y == [x EXCEPT !.task[t].row = row]
             v == PersistTo(y)
  <2>1. x \in Worlds /\ x.task[t].row \in TrackerRows /\ x.task[t].row.gen \in Nat
    BY Zenon, <1>3 DEF Good, Worlds, TaskRecords, TrackerRows
  <2>2. row \in TrackerRows /\ row.gen = x.task[t].row.gen
    BY Zenon, <2>1, RowUpdates
  <2>4. /\ y \in Worlds /\ y.disk = x.disk /\ y.task[t].row = row
        /\ y.task[t].rec = x.task[t].rec /\ \A u \in Tasks \ {t} : y.task[u] = x.task[u]
    BY <2>1, <2>2, RowUpdate
  <2>5. Good(y) /\ Still(x, y) /\ Untouched(x, y)
    <3> HIDE DEF y, row
    <3> QED
      BY Zenon, <1>3, <2>2, <2>4, QuietUpdate
  <2>6. Fine(v)
    <3> HIDE DEF y
    <3> QED
      BY Zenon, <1>3, <2>5, PersistGood, Compose
  <2>7. Observed(x, t) = Synthesized(v, t)
    BY Zenon DEF Observed
  <2> HIDE DEF v, Fine
  <2> QED
    BY Zenon, <1>2, <2>6, <2>7
<1> HIDE DEF Fine
<1> QED
  BY Zenon, <1>0, <1>1, <1>2, <1>3 DEF Terminate, Fine

\* What the table reads about a daemon is a context, so it answers with a row.
LEMMA RowsOfTable ==
  ASSUME NEW x \in TaskRecords, NEW desired \in {"running", "stopped"}, NEW ev \in SMEvents
  PROVE  Transition(x.sm, ev, Context(x, desired)) \in Rows
<1>1. Context(x, desired) \in SMContexts /\ x.sm \in SMStates
  BY DEF Context, SMContexts, TaskRecords
<1>2. ASSUME NEW st \in SMStates
      PROVE  GoTo(st) \in Rows /\ Unmatched(st) \in Rows /\ \A a \in QueuedActions : QueueAnd(st, a) \in Rows
  BY Zenon DEF GoTo, Unmatched, QueueAnd, Rows
<1>3. CreateProcess \in Rows /\ [CreateProcess EXCEPT !.resetFailures = TRUE] \in Rows
  BY Zenon DEF CreateProcess, GoTo, Rows, SMStates
<1> DEFINE c == Context(x, desired)
<1> HIDE DEF c
<1>4. /\ FromIdle(ev, c) \in Rows /\ FromSpawning(ev, c) \in Rows /\ FromRunning(ev, c) \in Rows
      /\ FromExiting(ev, c) \in Rows /\ FromBackoff(ev, c) \in Rows /\ FromQuarantined(ev, c) \in Rows
  <2> USE <1>2, <1>3 DEF QueuedActions, SMStates
  <2>1. FromIdle(ev, c) \in Rows /\ FromSpawning(ev, c) \in Rows /\ FromRunning(ev, c) \in Rows
    BY DEF FromIdle, FromSpawning, FromRunning
  <2>2. FromExiting(ev, c) \in Rows /\ FromBackoff(ev, c) \in Rows /\ FromQuarantined(ev, c) \in Rows
    BY DEF FromExiting, FromBackoff, FromQuarantined
  <2> QED
    BY Zenon, <2>1, <2>2
<1>5. \A st \in SMStates : Transition(st, ev, c) \in Rows
  BY Zenon, <1>4 DEF Transition, SMStates
<1> QED
  BY Zenon, <1>1, <1>5 DEF c

\* A row of the table applied to a daemon touches no receipt and spawns at most
\* one child, where none is fenced.
LEMMA TakeGood ==
  ASSUME NEW w, NEW t \in Tasks, NEW r \in Rows, NEW outcome, Good(w)
  PROVE  /\ Good(Take(w, t, r, outcome)) /\ Untouched(w, Take(w, t, r, outcome))
         /\ Still(w, Take(w, t, r, outcome)) \/ Spawned(w, Take(w, t, r, outcome), t)
<1> DEFINE to == IF r.to = "idle" /\ w.task[t].sm # "idle" THEN MarkExited(w.task[t].row)
                 ELSE IF r.to = "backoff" THEN MarkBackoff(w.task[t].row)
                 ELSE w.task[t].row
           q == IF r.queued = "keep" THEN w.task[t].queued ELSE r.queued
           x == [w EXCEPT !.task[t].sm = r.to,
                          !.task[t].queued = IF r.queued = "keep" THEN @ ELSE r.queued,
                          !.task[t].row = to]
           v == PersistTo(x)
<1>1. w \in Worlds /\ w.task[t] \in TaskRecords /\ w.task[t].row \in TrackerRows
  BY Zenon DEF Good, Worlds, TaskRecords
<1>2. to \in TrackerRows /\ to.gen = w.task[t].row.gen
  <2>1. 0 \in Nat
    OBVIOUS
  <2> QED
    BY Zenon, <1>1, <2>1, RowUpdates
<1>3. r.to \in SMStates /\ q \in QueuedActions
  BY <1>1 DEF Rows, TaskRecords
<1>4. x = [w EXCEPT !.task[t].sm = r.to, !.task[t].queued = q, !.task[t].row = to]
  BY Zenon, <1>1 DEF Worlds, TaskRecords
<1>5. /\ x \in Worlds /\ x.disk = w.disk /\ x.task[t].row = to
      /\ x.task[t].rec = w.task[t].rec /\ \A u \in Tasks \ {t} : x.task[u] = w.task[u]
  <2> HIDE DEF to, q, x
  <2> QED
    BY Zenon, <1>1, <1>2, <1>3, <1>4 DEF Worlds, TaskRecords
<1>6. Good(x) /\ Still(w, x) /\ Untouched(w, x)
  <2> HIDE DEF to, q, x
  <2> QED
    BY <1>2, <1>5, QuietUpdate
<1>7. Good(v) /\ Still(w, v) /\ Untouched(w, v)
  <2> HIDE DEF x
  <2> QED
    BY <1>6, PersistGood, Compose
<1>8. Take(w, t, r, outcome) = IF r.create THEN CreateChild(v, t)
                      ELSE IF r.to = "exiting" THEN Terminate(v, t, outcome).w ELSE v
  BY Zenon DEF Take
<1> HIDE DEF v
<1>9. CASE r.create
  BY <1>7, <1>8, <1>9, CreateGood, Compose
<1>10. CASE ~r.create /\ r.to = "exiting"
  BY <1>7, <1>8, <1>10, TerminateGood, Compose
<1>11. CASE ~r.create /\ r.to # "exiting"
  BY Zenon, <1>7, <1>8, <1>11
<1> QED
  BY Zenon, <1>9, <1>10, <1>11

\* applyAuthoritativeStopTransition touches no receipt and spawns nothing.
LEMMA ApplyStopGood ==
  ASSUME NEW w, NEW t \in Tasks, NEW outcome, Good(w)
  PROVE  LET v == ApplyStop(w, t, outcome).w
         IN  Good(v) /\ Still(w, v) /\ Untouched(w, v)
<1> DEFINE x == w.task[t]
           r == StopRow(x)
           q == IF r.queued = "stop" THEN "stop" ELSE x.queued
           row == IF r.to = "idle" /\ x.sm # "idle" THEN MarkExited(x.row) ELSE x.row
           v == [w EXCEPT !.task[t].sm = r.to,
                          !.task[t].queued = IF r.queued = "stop" THEN "stop" ELSE @,
                          !.task[t].row = IF r.to = "idle" /\ x.sm # "idle" THEN MarkExited(@) ELSE @]
           saves == x.sm \in {"running", "exiting", "backoff"}
           u == IF saves THEN PersistTo(v) ELSE v
<1>1. w \in Worlds /\ x \in TaskRecords /\ x.row \in TrackerRows
  BY DEF Good, Worlds, TaskRecords
<1>2. r \in Rows
  <2>1. "intent-update" \in SMEvents
    BY Zenon DEF SMEvents
  <2> QED
    BY Zenon, <1>1, <2>1, RowsOfTable DEF StopRow
<1>3. row \in TrackerRows /\ row.gen = x.row.gen
  <2>1. 0 \in Nat
    BY Zenon
  <2> QED
    BY Zenon, <1>1, <2>1, RowUpdates
<1>4. r.to \in SMStates /\ q \in QueuedActions
  BY <1>1, <1>2 DEF Rows, TaskRecords, QueuedActions
<1>5. v = [w EXCEPT !.task[t].sm = r.to, !.task[t].queued = q, !.task[t].row = row]
  <2> HIDE DEF r
  <2> QED
    BY Zenon, <1>1 DEF Worlds, TaskRecords
<1>6. /\ v \in Worlds /\ v.disk = w.disk /\ v.task[t].row = row
      /\ v.task[t].rec = w.task[t].rec /\ \A y \in Tasks \ {t} : v.task[y] = w.task[y]
  <2> HIDE DEF r, q, row, v
  <2> QED
    BY Zenon, <1>1, <1>3, <1>4, <1>5 DEF Worlds, TaskRecords
<1>7. Good(v) /\ Still(w, v) /\ Untouched(w, v)
  <2> HIDE DEF r, q, row, v
  <2> QED
    BY <1>3, <1>6, QuietUpdate
<1>8. Good(u) /\ Still(w, u) /\ Untouched(w, u)
  <2> HIDE DEF v, saves
  <2> QED
    BY Zenon, <1>7, PersistGood, Compose
<1>9. LET y == Terminate(u, t, outcome).w IN Good(y) /\ Still(w, y) /\ Untouched(w, y)
  <2> HIDE DEF u
  <2> QED
    BY <1>8, TerminateGood, Compose
<1>10. ApplyStop(w, t, outcome).w \in {v, u, Terminate(u, t, outcome).w}
  <2>1. ApplyStop(w, t, outcome) = IF saves /\ outcome = "unsaved" THEN [w |-> v, err |-> TRUE]
                                   ELSE IF r.to = "exiting" THEN Terminate(u, t, outcome)
                                   ELSE [w |-> u, err |-> FALSE]
    BY Zenon DEF ApplyStop
  <2> HIDE DEF v, u, r, saves
  <2> QED
    BY <2>1
<1> HIDE DEF v, u
<1> QED
  BY Zenon, <1>7, <1>8, <1>9, <1>10

---------------------------------------------------------------------------
(* What moves a receipt *)

\* Only the receipt of daemon t changes, in memory and in the file.
Replaced(w, v, t) ==
  /\ v \in Worlds /\ v.ch = w.ch /\ Fenced(v) /\ (Synced(w) => Synced(v))
  /\ v.disk.row = w.disk.row /\ v.disk.epoch = w.disk.epoch
  /\ v.task[t].row = w.task[t].row
  /\ w.task[t].rec = w.disk.rec[t] => v.task[t].rec = v.disk.rec[t]
  /\ \A u \in Tasks \ {t} : v.disk.rec[u] = w.disk.rec[u] /\ v.task[u] = w.task[u]

\* Receipt r takes the place of the pending one of daemon t; it names the same
\* child, unless there is none to name.
LEMMA PutGood ==
  ASSUME NEW w \in Worlds, NEW t \in Tasks, NEW r \in Receipts, NEW v, v = Put(w, t, r), Fenced(w),
         r # NoReceipt => w.disk.rec[t] # NoReceipt /\ r.gen = w.disk.rec[t].gen
  PROVE  Replaced(w, v, t) /\ v.disk.rec[t] = r /\ v.task[t].rec = r
<1> DEFINE x == [w EXCEPT !.task[t].rec = r]
           d == [w.disk EXCEPT !.rec[t] = r]
<1>1. /\ w.task \in [Tasks -> TaskRecords] /\ w.task[t] \in TaskRecords
      /\ w.disk \in StateFiles
  BY DEF Worlds
<1>2. /\ x \in Worlds /\ x.disk = w.disk /\ x.ch = w.ch
      /\ x.task[t].row = w.task[t].row /\ x.task[t].rec = r
      /\ \A u \in Tasks \ {t} : x.task[u] = w.task[u]
  BY Zenon, <1>1 DEF Worlds, TaskRecords
<1>3. /\ d \in StateFiles /\ d.row = w.disk.row /\ d.epoch = w.disk.epoch /\ d.rec[t] = r
      /\ \A u \in Tasks \ {t} : d.rec[u] = w.disk.rec[u]
  BY <1>1 DEF StateFiles
<1>4. v = [x EXCEPT !.disk.rec[t] = r]
  BY DEF Put
<1>5. v = [x EXCEPT !.disk = d]
  BY Zenon, <1>2, <1>4
<1> HIDE DEF x, d
<1>6. v \in Worlds /\ v.task = x.task /\ v.ch = x.ch /\ v.disk = d
  BY Zenon, <1>2, <1>3, <1>5 DEF Worlds
<1>7. /\ v.task[t].row = w.task[t].row /\ v.disk.rec[t] = r /\ v.disk.row = w.disk.row
      /\ \A u \in Tasks \ {t} : v.task[u] = w.task[u] /\ v.disk.rec[u] = w.disk.rec[u]
  BY Zenon, <1>2, <1>3, <1>6
<1>8. Fenced(v)
  BY <1>7 DEF Fenced
<1>9. Synced(w) => Synced(v)
  BY Zenon, <1>2, <1>3, <1>6, <1>7 DEF Synced
<1> QED
  BY Zenon, <1>2, <1>3, <1>6, <1>7, <1>8, <1>9 DEF Replaced

\* The stop of daemon t moves to the given phase, and no other does.
Moved(w, v, t, phase) ==
  /\ w.disk.rec[t] # NoReceipt /\ w.disk.rec[t].phase # "failed" /\ Legal(w.disk.rec[t], phase)
  /\ EffectivePhase(v.disk.rec[t]) = phase /\ v.disk.rec[t].gen = w.disk.rec[t].gen
  /\ v.task[t].row.gen = w.task[t].row.gen
  /\ \A u \in Tasks \ {t} : Kept(w, v, u)

\* AdvanceStopSettlement: a receipt moves by a legal move from the revision that
\* was read, and a failure or a resumption is no move.
LEMMA AdvanceGood ==
  ASSUME NEW w \in Worlds, NEW t \in Tasks, NEW r \in Receipts, Fenced(w),
         NEW phase \in Phases \cup {"failed"}, NEW ok \in BOOLEAN,
         NEW v, v = Advance(w, t, r, phase, ok)
  PROVE  /\ Replaced(w, v, t) /\ (w.task[t].rec = NoReceipt => v = w)
         /\ Still(w, v) \/ (phase # "failed" /\ r.phase # "failed" /\ Moved(w, v, t, phase))
<1> DEFINE n == NextReceipt(r, phase)
<1>1. CASE ~(ok /\ Accepts(w, t, r, phase))
  <2>1. v = w
    BY <1>1 DEF Advance
  <2> QED
    BY Zenon, <2>1 DEF Still, Kept, Replaced
<1>2. CASE ok /\ Accepts(w, t, r, phase)
  <2>1. w.disk.rec[t] = r /\ w.task[t].rec = r /\ Legal(r, phase) /\ v = Put(w, t, n)
    BY Zenon, <1>2 DEF Accepts, SameRevision, Advance
  <2>2. /\ r # NoReceipt /\ n \in Receipts /\ n # NoReceipt /\ n.gen = r.gen
        /\ phase = "failed" \/ r.phase = "failed" => Abs(n) = Abs(r)
        /\ phase # "failed" => EffectivePhase(n) = phase
    BY Zenon, <2>1, ReceiptMoves
  <2> HIDE DEF n
  <2>3. Replaced(w, v, t) /\ v.disk.rec[t] = n
    BY <2>1, <2>2, PutGood
  <2>4. phase = "failed" \/ r.phase = "failed" => Still(w, v)
    BY Zenon, <2>1, <2>2, <2>3 DEF Still, Kept, Replaced
  <2>5. phase # "failed" /\ r.phase # "failed" => Moved(w, v, t, phase)
    BY Zenon, <2>1, <2>2, <2>3 DEF Moved, Kept, Replaced
  <2> QED
    BY Zenon, <2>1, <2>2, <2>3, <2>4, <2>5
<1> QED
  BY Zenon, <1>1, <1>2

\* armStopSettlementRecovery touches no receipt.
LEMMA ArmGood ==
  ASSUME NEW w \in Worlds, NEW t \in Tasks, Fenced(w), NEW v, v = Arm(w, t)
  PROVE  Replaced(w, v, t) /\ Untouched(w, v) /\ Still(w, v)
<1> DEFINE a == IF w.task[t].armed = "no" THEN "timer" ELSE w.task[t].armed
<1>1. w.task[t] \in TaskRecords
  BY Zenon DEF Worlds
<1>2. a \in {"no", "timer", "queued"}
  BY <1>1 DEF TaskRecords
<1>3. v = [w EXCEPT !.task[t].armed = a]
  BY Zenon DEF Arm
<1> HIDE DEF a
<1>4. /\ v \in Worlds /\ v.disk = w.disk /\ v.ch = w.ch
      /\ v.task[t].row = w.task[t].row /\ v.task[t].rec = w.task[t].rec
      /\ \A u \in Tasks \ {t} : v.task[u] = w.task[u]
  BY <1>2, <1>3, ArmedUpdate
<1>5. Fenced(v) /\ (Synced(w) => Synced(v))
  BY <1>4 DEF Fenced, Synced
<1> QED
  BY Zenon, <1>4, <1>5 DEF Replaced, Untouched, Still, Kept

\* Replacing twice.
LEMMA ReplacedTwice ==
  ASSUME NEW w, NEW v, NEW x, NEW t \in Tasks, Replaced(w, v, t), Replaced(v, x, t)
  PROVE  Replaced(w, x, t)
BY Zenon DEF Replaced

\* Two steps that leave every stop where it is do so together.
LEMMA StillTwice ==
  ASSUME NEW w, NEW v, NEW x, Still(w, v), Still(v, x)
  PROVE  Still(w, x)
BY Zenon DEF Still, Kept

\* A stop that could not be applied: its receipt fails where it stands.
LEMMA StopFailedGood ==
  ASSUME NEW w, NEW t \in Tasks, NEW ok \in BOOLEAN, Good(w)
  PROVE  Good(StopFailed(w, t, ok)) /\ Still(w, StopFailed(w, t, ok))
<1> DEFINE r == w.task[t].rec
           x == IF r # NoReceipt /\ r.phase # "failed" THEN Advance(w, t, r, "failed", ok) ELSE w
           v == Arm(x, t)
<1>1. w \in Worlds /\ r \in Receipts /\ Fenced(w) /\ Synced(w)
  BY DEF Good, Worlds, TaskRecords
<1>2. Replaced(w, x, t) /\ Still(w, x)
  <2>1. Replaced(w, w, t) /\ Still(w, w)
    BY Zenon, <1>1 DEF Replaced, Still, Kept
  <2> HIDE DEF r
  <2>2. Replaced(w, Advance(w, t, r, "failed", ok), t) /\ Still(w, Advance(w, t, r, "failed", ok))
    BY <1>1, AdvanceGood
  <2> QED
    BY Zenon, <2>1, <2>2
<1>3. v = StopFailed(w, t, ok)
  BY Zenon DEF StopFailed
<1> HIDE DEF x
<1>4. Replaced(x, v, t) /\ Still(x, v)
  BY <1>2, ArmGood DEF Replaced
<1> HIDE DEF v
<1>5. Replaced(w, v, t) /\ Still(w, v)
  BY Zenon, <1>2, <1>4, ReplacedTwice, StillTwice
<1> QED
  BY Zenon, <1>1, <1>3, <1>5 DEF Replaced, Good

---------------------------------------------------------------------------
(* The invariant *)

\* While the receipts of a batch are being installed they are in the file only.
Mirrored(w) ==
  IF loop.pc = "install"
  THEN /\ ~integrity
       /\ \A u \in Tasks : IF u \in Range(loop.todo)
                           THEN w.task[u].rec = NoReceipt /\ w.disk.rec[u] = loop.recs[u]
                           ELSE w.task[u].rec = w.disk.rec[u]
  ELSE Synced(w)

Core == World \in Worlds /\ Fenced(World) /\ Mirrored(World)

\* A settlement under way has a daemon to settle.
Proper(x) == x \in Settlers /\ (x.pc # "idle" => x.targets # <<>>)

Settling == settler \in [Slots -> Settlers] /\ \A s \in Slots : Proper(settler[s])

\* What runs beside the daemons; a batch under way has its request.
Around ==
  /\ integrity \in BOOLEAN /\ file \in Commands /\ cache \in Commands
  /\ watcher \in [known : Commands, read : Commands]
  /\ loop \in Loops /\ (loop.pc # "ready" => loop.slot \in Slots)
  /\ Settling /\ budget \in Bounds

Inv == Core /\ Around

---------------------------------------------------------------------------
(* Steps of the system *)

\* The stop of daemon t is committed.
Removed(w, v, t) ==
  /\ w.disk.rec[t].phase = "port_released" /\ v.disk.rec[t] = NoReceipt
  /\ v.task[t].row.gen = w.task[t].row.gen
  /\ \A u \in Tasks \ {t} : Kept(w, v, u)

\* The stops of the daemons of S begin, each about the latest child.
Begun(w, v, S) ==
  /\ \A u \in S : /\ w.disk.rec[u] = NoReceipt
                  /\ EffectivePhase(v.disk.rec[u]) \in {"stop_requested", "exit_observed"}
                  /\ v.disk.rec[u].gen = w.task[u].row.gen
                  /\ v.task[u].row.gen = w.task[u].row.gen
  /\ \A u \in Tasks \ S : Kept(w, v, u)

\* What a step does to the stops.
Steps(w, v) ==
  \/ Still(w, v)
  \/ \E S \in SUBSET Tasks : Begun(w, v, S)
  \/ \E t \in Tasks : \/ Spawned(w, v, t) \/ Removed(w, v, t)
                      \/ Moved(w, v, t, "exit_observed") \/ Moved(w, v, t, "port_released")

\* Every bound stays one when it is spent.
LEMMA SpendGood ==
  ASSUME budget \in Bounds,
         NEW what \in {"stop", "start", "death", "fault", "timeout", "crash", "retry", "watch"},
         Can(what), Spend(what)
  PROVE  budget' \in Bounds
<1>1. \A n \in Nat : n > 0 => n - 1 \in Nat
  OBVIOUS
<1> QED
  BY Zenon, <1>1 DEF Can, Spend, Bounds

\* A failed write costs a fault; the bounds stay bounds.
LEMMA WriteGood ==
  ASSUME budget \in Bounds, NEW ok \in BOOLEAN, Write(ok)
  PROVE  budget' \in Bounds
BY SpendGood DEF Write

\* So do they when applying a stop fails.
LEMMA ApplyFaultGood ==
  ASSUME budget \in Bounds, NEW ok \in BOOLEAN, NEW outcome, ApplyFault(outcome, ok)
  PROVE  budget' \in Bounds
<1>1. PICK cost \in 0..2 : budget.fault >= cost /\ budget' = [budget EXCEPT !.fault = @ - cost]
  BY DEF ApplyFault
<1>2. budget.fault - cost \in Nat
  BY <1>1 DEF Bounds
<1> QED
  BY Zenon, <1>1, <1>2 DEF Bounds

\* The invariant makes the world of a handler good.
LEMMA WorldGood ==
  ASSUME Inv
  PROVE  /\ World \in Worlds /\ Fenced(World) /\ World.task = task /\ World.disk = disk /\ World.ch = ch
         /\ ch \in Seq(Events) /\ task \in [Tasks -> TaskRecords] /\ disk \in StateFiles
         /\ loop.pc # "install" => Good(World)
BY Zenon DEF Inv, Core, Mirrored, Good, World, Worlds

\* A handler that ends in a good world restores the invariant's core.
LEMMA Becomes ==
  ASSUME NEW v, Good(v), Become(v), integrity' = integrity, loop'.pc # "install"
  PROVE  Core' /\ World' = v
<1>1. task' = v.task /\ disk' = v.disk /\ ch' = v.ch /\ v \in Worlds
  BY DEF Become, Good
<1>2. World' = v
  BY Zenon, <1>1 DEF World, Worlds
<1> QED
  BY Zenon, <1>2 DEF Core, Mirrored, Good, Fenced, Synced, Worlds

\* What is in the queue is of no consequence to the stops.
LEMMA QueueGood ==
  ASSUME NEW w, NEW q \in Seq(Events), Good(w), NEW v, v = [w EXCEPT !.ch = q]
  PROVE  Good(v) /\ Still(w, v) /\ Untouched(w, v) /\ v.task = w.task /\ v.disk = w.disk /\ v.ch = q
<1>1. v \in Worlds /\ v.task = w.task /\ v.disk = w.disk /\ v.ch = q
  BY Zenon DEF Good, Worlds
<1> QED
  BY <1>1 DEF Good, Fenced, Synced, Still, Kept, Untouched

\* What an event carries.
LEMMA EventFields ==
  ASSUME NEW e \in Events
  PROVE  /\ e.kind = "exit" => e.task \in Tasks /\ e.gen \in Nat
         /\ e.kind \in {"intent", "recover"} => e.task \in Tasks
         /\ e.kind = "scan" => e.snap \in Commands
         /\ e.kind = "barrier" => e.slot \in Slots
         /\ e.kind = "batch" => e.slot \in Slots /\ e.targets \in Seq(Tasks) /\ e.snap \in Commands
BY Zenon DEF Events

\* Taking the first event off the queue.
LEMMA RestGood ==
  ASSUME Inv, NEW kind, Pending(kind)
  PROVE  /\ Good(World) /\ Good(Rest) /\ Still(World, Rest) /\ Untouched(World, Rest)
         /\ Rest.task = task /\ Rest.disk = disk /\ Rest.ch = Tail(ch)
         /\ Head(ch) \in Events /\ Head(ch).kind = kind /\ Tail(ch) \in Seq(Events)
         /\ loop.pc = "ready"
<1>1. Good(World) /\ ch \in Seq(Events) /\ ch # <<>> /\ World.task = task /\ World.disk = disk
  BY Zenon, WorldGood DEF Pending
<1>2. Head(ch) \in Events /\ Tail(ch) \in Seq(Events)
  BY <1>1
<1> DEFINE q == Tail(ch)
<1>3. Rest = [World EXCEPT !.ch = q]
  BY Zenon DEF Rest
<1>4. q \in Seq(Events)
  BY <1>2
<1> HIDE DEF q
<1>5. /\ Good(Rest) /\ Still(World, Rest) /\ Untouched(World, Rest)
      /\ Rest.task = task /\ Rest.disk = disk /\ Rest.ch = q
  BY <1>1, <1>3, <1>4, QueueGood
<1> QED
  BY Zenon, <1>1, <1>2, <1>5 DEF Pending, q

---------------------------------------------------------------------------
(* The event loop *)

\* A daemon has a receipt exactly when its stop has a phase.
LEMMA NoneIsNone ==
  ASSUME NEW r \in Receipts
  PROVE  /\ r = NoReceipt <=> EffectivePhase(r) = "none"
         /\ r = NoReceipt <=> r.phase = "none"
BY DEF Receipts, NoReceipt, EffectivePhase, Phases

\* An exit moves the stop of the very child to its next phase.
LEMMA RecordedGood ==
  ASSUME NEW w, NEW t \in Tasks, NEW gen \in Nat, NEW ok \in BOOLEAN, Good(w),
         NEW v, v = Recorded(w, t, gen, ok)
  PROVE  Good(v) /\ (Still(w, v) \/ Moved(w, v, t, "exit_observed"))
         /\ v.task[t].row = w.task[t].row
<1> DEFINE r == w.task[t].rec
<1>1. w \in Worlds /\ Fenced(w) /\ Synced(w) /\ r \in Receipts
  BY Zenon DEF Good, Worlds, TaskRecords
<1>2. v = w \/ v = Advance(w, t, r, "exit_observed", ok)
  BY DEF Recorded
<1>3. CASE v = w
  BY Zenon, <1>3 DEF Still, Kept
<1>4. CASE v = Advance(w, t, r, "exit_observed", ok)
  <2>1. "exit_observed" \in Phases \cup {"failed"}
    BY DEF Phases
  <2> HIDE DEF r
  <2>2. Replaced(w, v, t) /\ (Still(w, v) \/ Moved(w, v, t, "exit_observed"))
    BY Zenon, <1>1, <1>4, <2>1, AdvanceGood
  <2> QED
    BY Zenon, <1>1, <2>2 DEF Replaced, Good
<1> QED
  BY Zenon, <1>2, <1>3, <1>4

\* A row of the table is no step of a stop, or spawns a child.
LEMMA TakeSteps ==
  ASSUME NEW w, NEW v, NEW t \in Tasks, NEW r \in Rows, NEW outcome, Good(w), Good(v),
         Still(w, v) \/ Moved(w, v, t, "exit_observed")
  PROVE  Good(Take(v, t, r, outcome)) /\ Steps(w, Take(v, t, r, outcome))
<1> DEFINE x == Take(v, t, r, outcome)
<1>1. Good(x) /\ (Still(v, x) \/ Spawned(v, x, t))
  BY Zenon, TakeGood
<1> HIDE DEF x
<1>2. v.disk.rec[t] \in Receipts /\ w.disk.rec[t] \in Receipts
  BY Zenon DEF Good, Worlds, StateFiles
<1>3. CASE Still(w, v)
  <2>1. Still(w, x) \/ Spawned(w, x, t)
    <3>1. CASE Still(v, x)
      BY Zenon, <1>3, <3>1, StillTwice
    <3>2. CASE Spawned(v, x, t)
      <4>1. w.disk.rec[t] = NoReceipt
        BY Zenon, <1>2, <1>3, <3>2, NoneIsNone DEF Still, Kept, Abs, Spawned
      <4> QED
        BY Zenon, <1>3, <3>2, <4>1 DEF Still, Kept, Spawned
    <3> QED
      BY Zenon, <1>1, <3>1, <3>2
  <2> QED
    BY Zenon, <1>1, <2>1 DEF Steps, x
<1>4. CASE Moved(w, v, t, "exit_observed")
  <2>1. v.disk.rec[t] # NoReceipt
    BY Zenon, <1>2, <1>4, NoneIsNone DEF Moved
  <2>2. Still(v, x)
    BY Zenon, <1>1, <2>1 DEF Spawned
  <2>3. Moved(w, x, t, "exit_observed")
    BY Zenon, <1>4, <2>2 DEF Moved, Still, Kept, Abs
  <2> QED
    BY Zenon, <1>1, <2>3 DEF Steps, x
<1> QED
  BY Zenon, <1>1, <1>3, <1>4 DEF x

\* HandleExit keeps the invariant, records the exit on the receipt of that very
\* child, and spawns at most one child, of a daemon without a receipt.
LEMMA ExitStep ==
  ASSUME Inv, NEW clean \in BOOLEAN, NEW ok \in BOOLEAN, HandleExit(clean, ok)
  PROVE  Inv' /\ Steps(World, World')
<1> DEFINE t == Head(ch).task
           x == task[t]
           r == IF clean /\ x.sm = "running" THEN GoTo("idle")
                ELSE Transition(x.sm, "child-exit", Context(x, Desired(cache, t)))
           w == Recorded(Rest, t, Head(ch).gen, ok)
           v == IF IsStale(x.row, Head(ch).gen) \/ ~r.matched THEN w ELSE Take(w, t, r, "ok")
<1>1. /\ Good(World) /\ Good(Rest) /\ Still(World, Rest) /\ Untouched(World, Rest) /\ loop.pc = "ready"
      /\ Rest.task = task /\ Head(ch) \in Events /\ Head(ch).kind = "exit"
  BY Zenon, RestGood DEF HandleExit
<1>2. t \in Tasks /\ Head(ch).gen \in Nat
  BY Zenon, <1>1, EventFields
<1>3. x \in TaskRecords
  BY Zenon, <1>1, <1>2 DEF Good, Worlds, World
<1>4. r \in Rows
  <2>1. GoTo("idle") \in Rows
    BY DEF GoTo, Rows, SMStates, QueuedActions
  <2>2. Desired(cache, t) \in {"running", "stopped"} /\ "child-exit" \in SMEvents
    BY DEF Desired, SMEvents
  <2>3. Transition(x.sm, "child-exit", Context(x, Desired(cache, t))) \in Rows
    BY Zenon, <1>3, <2>2, RowsOfTable
  <2> QED
    BY Zenon, <2>1, <2>3
<1>5. Become(v) /\ UNCHANGED <<integrity, file, cache, watcher, loop, settler>> /\ Write(ok)
  BY Zenon DEF HandleExit, Become
<1> HIDE DEF t, x, r
<1>6. Good(w) /\ (Still(Rest, w) \/ Moved(Rest, w, t, "exit_observed"))
  BY Zenon, <1>1, <1>2, RecordedGood
<1> HIDE DEF w
<1>7. Still(World, w) \/ Moved(World, w, t, "exit_observed")
  <2>0. World.disk = Rest.disk /\ World.task = Rest.task
    BY DEF World, Rest
  <2>1. CASE Still(Rest, w)
    BY ZenonT(40), <2>0, <2>1 DEF Still, Kept
  <2>2. CASE Moved(Rest, w, t, "exit_observed")
    BY ZenonT(40), <2>0, <2>2 DEF Moved, Kept
  <2> QED
    BY Zenon, <1>6, <2>1, <2>2
<1>8. Good(v) /\ Steps(World, v)
  <2>1. Good(w) /\ Steps(World, w)
    BY Zenon, <1>2, <1>6, <1>7 DEF Steps
  <2>2. Good(Take(w, t, r, "ok")) /\ Steps(World, Take(w, t, r, "ok"))
    BY Zenon, <1>1, <1>2, <1>4, <1>6, <1>7, TakeSteps
  <2> QED
    BY Zenon, <2>1, <2>2
<1> HIDE DEF v
<1>9. Core' /\ World' = v
  BY Zenon, <1>1, <1>5, <1>8, Becomes
<1>10. Around'
  BY Zenon, <1>5, WriteGood DEF Inv, Around, Settling
<1> QED
  BY Zenon, <1>8, <1>9, <1>10 DEF Inv

\* A step that leaves the daemons and the file alone, and is not an admission,
\* leaves the stops alone.
LEMMA QuietStep ==
  ASSUME Inv, UNCHANGED <<task, disk, integrity>>, ch' \in Seq(Events),
         UNCHANGED loop \/ (loop.pc # "install" /\ loop'.pc # "install")
  PROVE  Core' /\ Steps(World, World')
<1>1. World' \in Worlds /\ World'.task = World.task /\ World'.disk = World.disk
  BY WorldGood DEF World, Worlds
<1>2. Fenced(World)' /\ Still(World, World')
  BY Zenon, <1>1, WorldGood DEF Fenced, Still, Kept, World
<1>3. Mirrored(World)'
  BY DEF Inv, Core, Mirrored, Synced, World
<1> QED
  BY Zenon, <1>1, <1>2, <1>3 DEF Core, Steps

\* HandleReapScan keeps the invariant and leaves every stop where it is.
LEMMA ScanStep ==
  ASSUME Inv, HandleReapScan
  PROVE  Inv' /\ Steps(World, World')
<1>1. Head(ch) \in Events /\ Head(ch).kind = "scan" /\ Tail(ch) \in Seq(Events)
  BY Zenon, RestGood DEF HandleReapScan
<1>2. Head(ch).snap \in Commands
  BY Zenon, <1>1, EventFields
<1>3. Core' /\ Steps(World, World')
  BY Zenon, <1>1, QuietStep DEF HandleReapScan
<1>4. Around'
  BY <1>2 DEF Inv, Around, Settling, HandleReapScan
<1> QED
  BY Zenon, <1>3, <1>4 DEF Inv

\* HandleIntent keeps the invariant and spawns at most one child, of a daemon without a receipt.
LEMMA IntentStep ==
  ASSUME Inv, NEW outcome \in Endings, HandleIntent(outcome)
  PROVE  Inv' /\ Steps(World, World')
<1> DEFINE t == Head(ch).task
           x == task[t]
           r == Transition(x.sm, "intent-update", Context(x, Desired(cache, t)))
           v == IF r.matched THEN Take(Rest, t, r, outcome) ELSE Rest
<1>1. /\ Good(World) /\ Good(Rest) /\ Still(World, Rest) /\ loop.pc = "ready"
      /\ Head(ch) \in Events /\ Head(ch).kind = "intent"
  BY RestGood DEF HandleIntent
<1>2. t \in Tasks
  BY Zenon, <1>1, EventFields
<1>3. x \in TaskRecords
  BY Zenon, <1>1, <1>2 DEF Good, Worlds, World
<1>4. r \in Rows
  <2>1. Desired(cache, t) \in {"running", "stopped"} /\ "intent-update" \in SMEvents
    BY Zenon DEF Desired, SMEvents
  <2> QED
    BY Zenon, <1>3, <2>1, RowsOfTable
<1>5. Become(v) /\ UNCHANGED <<integrity, file, cache, watcher, loop, settler>> /\ ApplyFault(outcome, TRUE)
  BY Zenon DEF HandleIntent
<1> HIDE DEF t, x, r
<1>6. Good(Take(Rest, t, r, outcome)) /\ Steps(World, Take(Rest, t, r, outcome))
  BY Zenon, <1>1, <1>2, <1>4, TakeSteps
<1>7. Good(v) /\ Steps(World, v)
  BY Zenon, <1>1, <1>6 DEF Steps
<1> HIDE DEF v
<1>8. Core' /\ World' = v
  BY Zenon, <1>1, <1>5, <1>7, Becomes
<1>9. Around'
  BY Zenon, <1>5, ApplyFaultGood DEF Inv, Around, Settling
<1> QED
  BY Zenon, <1>7, <1>8, <1>9 DEF Inv

\* A due timer keeps the invariant and spawns at most one child, of a daemon without a receipt.
LEMMA TimerStep ==
  ASSUME Inv, NEW t \in Tasks, TimerDue(t)
  PROVE  Inv' /\ Steps(World, World')
<1> DEFINE r == Transition("backoff", "timer-due", Context(task[t], Desired(cache, t)))
           v == Take(World, t, r, "ok")
<1>1. Good(World) /\ loop.pc = "ready" /\ task[t] \in TaskRecords /\ task[t].sm = "backoff"
  BY Zenon, WorldGood DEF TimerDue
<1>2. r \in Rows
  <2>1. Desired(cache, t) \in {"running", "stopped"} /\ "timer-due" \in SMEvents
    BY DEF Desired, SMEvents
  <2>2. Transition(task[t].sm, "timer-due", Context(task[t], Desired(cache, t))) \in Rows
    BY Zenon, <1>1, <2>1, RowsOfTable
  <2> QED
    BY Zenon, <1>1, <2>2
<1>3. Become(v) /\ UNCHANGED <<integrity, file, cache, watcher, loop, settler, budget>>
  BY Zenon DEF TimerDue
<1> HIDE DEF r
<1>4. Good(v) /\ Steps(World, v)
  <2>1. Still(World, World)
    BY DEF Still, Kept
  <2> QED
    BY Zenon, <1>1, <1>2, <2>1, TakeSteps
<1> HIDE DEF v
<1>5. Core' /\ World' = v
  BY Zenon, <1>1, <1>3, <1>4, Becomes
<1>6. Around'
  BY <1>3 DEF Inv, Around, Settling
<1> QED
  BY Zenon, <1>4, <1>5, <1>6 DEF Inv


\* The settlements stay proper when one of them changes into a proper one,
LEMMA SettlerGood ==
  ASSUME Around, NEW s \in Slots, NEW x, Proper(x), settler' = [settler EXCEPT ![s] = x]
  PROVE  Settling'
BY Zenon DEF Around, Settling, Proper

\* as one that is over is,
LEMMA IdleProper == Proper(Idle)
BY DEF Proper, Idle, Settlers, Commands, NoCommand, Receipts, Results

\* and one that goes on to its next step.
LEMMA GotoGood ==
  ASSUME Around, NEW s \in Slots, settler[s].pc # "idle",
         NEW pc \in {"reply", "barrier", "snapshot", "look", "wait", "finalize", "commit"},
         settler' = Goto(s, pc)
  PROVE  Settling'
<1> DEFINE x == [settler[s] EXCEPT !.pc = pc]
<1>1. Proper(x)
  BY Zenon DEF Around, Settling, Proper, Settlers
<1>2. settler' = [settler EXCEPT ![s] = x]
  BY DEF Goto
<1> HIDE DEF x
<1> QED
  BY Zenon, <1>1, <1>2, SettlerGood

\* The loop between two events is well formed.
LEMMA ReadyLoop == Ready \in Loops /\ Ready.pc = "ready"
BY DEF Ready, Loops, Receipts

\* HandleBarrier keeps the invariant and leaves every stop where it is.
LEMMA BarrierStep ==
  ASSUME Inv, HandleBarrier
  PROVE  Inv' /\ Steps(World, World')
<1>1. Head(ch) \in Events /\ Head(ch).kind = "barrier" /\ Tail(ch) \in Seq(Events)
  BY RestGood DEF HandleBarrier
<1>2. Head(ch).slot \in Slots
  BY Zenon, <1>1, EventFields
<1>3. Core' /\ Steps(World, World')
  BY <1>1, QuietStep DEF HandleBarrier
<1>4. Settling'
  <2>1. CASE settler[Head(ch).slot].pc = "barrier"
    <3>1. settler' = Goto(Head(ch).slot, "snapshot")
      BY Zenon, <2>1 DEF HandleBarrier
    <3> QED
      BY Zenon, <1>2, <2>1, <3>1, GotoGood DEF Inv
  <2>2. CASE settler[Head(ch).slot].pc # "barrier"
    BY Zenon, <2>2 DEF HandleBarrier, Inv, Around, Settling
  <2> QED
    BY Zenon, <2>1, <2>2
<1>5. Around'
  BY <1>4 DEF Inv, Around, HandleBarrier
<1> QED
  BY <1>3, <1>5 DEF Inv

\* A request whose batch is turned down is over.
LEMMA TurnedDown ==
  ASSUME Around, NEW s,
         settler' = IF settler[s].pc = "reply" THEN [settler EXCEPT ![s] = Idle] ELSE settler
  PROVE  Settling'
<1>1. CASE settler' = settler
  BY Zenon, <1>1 DEF Around, Settling
<1>2. CASE s \in Slots /\ settler' = [settler EXCEPT ![s] = Idle]
  BY Zenon, <1>2, IdleProper, SettlerGood
<1>3. CASE s \notin Slots /\ settler' = [settler EXCEPT ![s] = Idle]
  <2>1. settler' = settler
    BY Zenon, <1>3 DEF Around, Settling
  <2> QED
    BY Zenon, <1>1, <2>1
<1> QED
  BY Zenon, <1>1, <1>2, <1>3

\* RejectBatch keeps the invariant and leaves every stop where it is.
LEMMA RejectStep ==
  ASSUME Inv, RejectBatch
  PROVE  Inv' /\ Steps(World, World')
<1>1. Head(ch) \in Events /\ Head(ch).kind = "batch" /\ Tail(ch) \in Seq(Events)
  BY Zenon, RestGood DEF RejectBatch
<1>2. Core' /\ Steps(World, World')
  BY Zenon, <1>1, QuietStep DEF RejectBatch
<1>3. Settling'
  BY Zenon, TurnedDown DEF RejectBatch, Inv
<1>4. Around'
  BY Zenon, <1>3 DEF Inv, Around, RejectBatch
<1> QED
  BY <1>2, <1>4 DEF Inv

\* A reply starts a settlement with a barrier.
LEMMA StartGood ==
  ASSUME Inv, NEW w, NEW s \in Slots, Good(w), Still(World, w), StartSettling(w, s),
         integrity' = integrity, loop'.pc # "install"
  PROVE  Core' /\ Steps(World, World') /\ Settling'
<1> DEFINE q == IF settler[s].pc = "reply" THEN Append(w.ch, Barrier(s)) ELSE w.ch
           v == [w EXCEPT !.ch = q]
<1>1. w.ch \in Seq(Events) /\ Barrier(s) \in Events
  BY Zenon DEF Good, Worlds, Barrier, Events
<1>2. q \in Seq(Events)
  BY <1>1
<1>3. Become(v) /\ settler' = Reply(s, "barrier")
  BY DEF StartSettling
<1> HIDE DEF q
<1>4. Good(v) /\ Still(w, v)
  BY Zenon, <1>2, QueueGood
<1> HIDE DEF v
<1>5. Core' /\ World' = v
  BY Zenon, <1>3, <1>4, Becomes
<1>6. Steps(World, World')
  BY Zenon, <1>4, <1>5, StillTwice DEF Steps
<1>7. Settling'
  <2>1. CASE settler[s].pc = "reply"
    <3>1. settler' = Goto(s, "barrier")
      BY Zenon, <1>3, <2>1 DEF Reply
    <3> QED
      BY Zenon, <2>1, <3>1, GotoGood DEF Inv
  <2>2. CASE settler[s].pc # "reply"
    BY Zenon, <1>3, <2>2 DEF Reply, Inv, Around, Settling
  <2> QED
    BY Zenon, <2>1, <2>2
<1> QED
  BY Zenon, <1>5, <1>6, <1>7

\* JoinBatch keeps the invariant and leaves every stop where it is.
LEMMA JoinStep ==
  ASSUME Inv, JoinBatch
  PROVE  Inv' /\ Steps(World, World')
<1>1. /\ Good(Rest) /\ Still(World, Rest) /\ loop.pc = "ready"
      /\ Head(ch) \in Events /\ Head(ch).kind = "batch"
  BY RestGood DEF JoinBatch
<1>2. Head(ch).slot \in Slots
  BY Zenon, <1>1, EventFields
<1>3. Core' /\ Steps(World, World') /\ Settling'
  BY Zenon, <1>1, <1>2, StartGood DEF JoinBatch
<1>4. Around'
  BY Zenon, <1>3 DEF Inv, Around, JoinBatch
<1> QED
  BY Zenon, <1>3, <1>4 DEF Inv

\* ReplyBatch keeps the invariant and leaves every stop where it is.
LEMMA ReplyStep ==
  ASSUME Inv, ReplyBatch
  PROVE  Inv' /\ Steps(World, World')
<1>1. Good(World) /\ loop.slot \in Slots /\ Still(World, World)
  BY Zenon, WorldGood DEF ReplyBatch, Inv, Around, Still, Kept
<1>2. loop' = Ready /\ loop'.pc = "ready" /\ loop' \in Loops
  BY Zenon, ReadyLoop DEF ReplyBatch
<1>3. Core' /\ Steps(World, World') /\ Settling'
  BY Zenon, <1>1, <1>2, StartGood DEF ReplyBatch
<1>4. Around'
  BY Zenon, <1>2, <1>3 DEF Inv, Around, ReplyBatch
<1> QED
  BY Zenon, <1>3, <1>4 DEF Inv

\* The receipt of a new stop names the latest child.
LEMMA NewReceiptGood ==
  ASSUME NEW row \in TrackerRows, NEW epoch \in Nat, NEW r, r = NewReceipt(row, epoch)
  PROVE  r \in Receipts /\ r # NoReceipt /\ r.gen = row.gen
         /\ EffectivePhase(r) \in {"stop_requested", "exit_observed"}
<1>1. row.gen \in Nat
  BY DEF TrackerRows
<1> QED
  BY Zenon, <1>1 DEF NewReceipt, Receipts, Phases, NoReceipt, EffectivePhase

\* BeginBatch keeps the invariant and begins the stops of a whole batch, or none.
LEMMA BeginStep ==
  ASSUME Inv, NEW ok \in BOOLEAN, BeginBatch(ok)
  PROVE  Inv' /\ Steps(World, World')
<1> DEFINE b == Head(ch)
           S == Range(b.targets)
           recs == [t \in Tasks |-> IF t \in S THEN NewReceipt(task[t].row, disk.epoch + 1) ELSE NoReceipt]
           fresh == \A t \in S : disk.rec[t] = NoReceipt
<1>1. /\ Good(World) /\ loop.pc = "ready" /\ b \in Events /\ b.kind = "batch" /\ Tail(ch) \in Seq(Events)
      /\ World.task = task /\ World.disk = disk
  BY Zenon, RestGood, WorldGood DEF BeginBatch
<1>2. b.slot \in Slots /\ b.targets \in Seq(Tasks) /\ b.snap \in Commands
  BY Zenon, <1>1, EventFields
<1>3. S \subseteq Tasks
  BY <1>2 DEF Range
<1>4. /\ cache' = (IF cache.gen > b.snap.gen THEN cache ELSE b.snap) /\ ch' = Tail(ch) /\ Write(ok)
      /\ UNCHANGED <<task, integrity, file, watcher>>
      /\ ~integrity /\ \A t \in S : task[t].rec = NoReceipt
  BY Zenon, <1>3 DEF BeginBatch, Preflight, Already
<1>5. CASE ~(ok /\ fresh)
  <2>1. /\ settler' = (IF settler[b.slot].pc = "reply" THEN [settler EXCEPT ![b.slot] = Idle] ELSE settler)
        /\ UNCHANGED <<disk, loop>>
    BY Zenon, <1>5 DEF BeginBatch
  <2> HIDE DEF b
  <2>2. Core' /\ Steps(World, World')
    BY Zenon, <1>1, <1>4, <2>1, QuietStep
  <2>3. Settling'
    BY Zenon, <2>1, TurnedDown DEF Inv
  <2>4. Around'
    BY Zenon, <1>2, <1>4, <2>1, <2>3, WriteGood DEF Inv, Around
  <2> QED
    BY Zenon, <2>2, <2>4 DEF Inv
<1>6. CASE ok /\ fresh
  <2>1. /\ disk' = [disk EXCEPT !.rec = [t \in Tasks |-> IF t \in S THEN recs[t] ELSE disk.rec[t]],
                                !.epoch = @ + 1]
        /\ loop' = [pc |-> "install", slot |-> b.slot, todo |-> b.targets, recs |-> recs]
        /\ UNCHANGED settler
    BY Zenon, <1>6 DEF BeginBatch
  <2>2. /\ task \in [Tasks -> TaskRecords] /\ disk \in StateFiles /\ disk.epoch + 1 \in Nat
        /\ \A t \in Tasks : task[t].row \in TrackerRows
    BY WorldGood DEF TaskRecords, StateFiles
  <2>3. /\ recs \in [Tasks -> Receipts]
        /\ \A t \in S : /\ recs[t] \in Receipts /\ recs[t] # NoReceipt /\ recs[t].gen = task[t].row.gen
                        /\ EffectivePhase(recs[t]) \in {"stop_requested", "exit_observed"}
    <3>1. \A t \in Tasks : LET r == NewReceipt(task[t].row, disk.epoch + 1)
                           IN  /\ r \in Receipts /\ r # NoReceipt /\ r.gen = task[t].row.gen
                               /\ EffectivePhase(r) \in {"stop_requested", "exit_observed"}
      BY Zenon, <2>2, NewReceiptGood
    <3>2. NoReceipt \in Receipts
      BY DEF Receipts
    <3> HIDE DEF S
    <3> QED
      BY Zenon, <1>3, <3>1, <3>2
  <2> HIDE DEF recs, S, b
  <2>4. /\ disk' \in StateFiles /\ disk'.row = disk.row
        /\ \A t \in S : disk'.rec[t] = recs[t]
        /\ \A t \in Tasks \ S : disk'.rec[t] = disk.rec[t]
    <3> DEFINE d == [t \in Tasks |-> IF t \in S THEN recs[t] ELSE disk.rec[t]]
    <3>1. d \in [Tasks -> Receipts]
      BY Zenon, <2>2, <2>3 DEF StateFiles
    <3>2. \A t \in Tasks : d[t] = IF t \in S THEN recs[t] ELSE disk.rec[t]
      OBVIOUS
    <3>3. disk' = [disk EXCEPT !.rec = d, !.epoch = disk.epoch + 1]
      BY <2>1
    <3> HIDE DEF d
    <3>4. disk' \in StateFiles /\ disk'.row = disk.row /\ disk'.rec = d
      BY Zenon, <2>2, <3>1, <3>3 DEF StateFiles
    <3> QED
      BY Zenon, <1>3, <3>2, <3>4
  <2>5. World' \in Worlds /\ World'.task = task /\ World'.disk = disk'
    BY ZenonT(40), <1>1, <1>4, <2>2, <2>4 DEF World, Worlds
  <2>6. Fenced(World)'
    BY <1>1, <1>3, <1>4, <2>3, <2>4 DEF Good, Fenced, World
  <2>7. Mirrored(World)'
    <3>1. loop'.pc = "install" /\ Range(loop'.todo) = S /\ loop'.recs = recs
      BY Zenon, <2>1 DEF S, b
    <3>2. \A t \in Tasks : task[t].rec = disk.rec[t]
      BY Zenon, <1>1, <1>4 DEF Good, Synced
    <3> QED
      BY Zenon, <1>4, <2>4, <3>1, <3>2 DEF Mirrored, World
  <2>8. Begun(World, World', S)
    BY Zenon, <1>1, <1>3, <1>6, <2>3, <2>4, <2>5 DEF Begun, Kept, S
  <2>9. Around'
    <3>1. loop' \in Loops /\ loop'.slot \in Slots
      BY Zenon, <1>2, <2>1, <2>3 DEF Loops
    <3> QED
      BY Zenon, <1>2, <1>4, <2>1, <3>1, WriteGood DEF Inv, Around, Settling
  <2> QED
    BY Zenon, <1>3, <2>5, <2>6, <2>7, <2>8, <2>9 DEF Inv, Core, Steps
<1> QED
  BY Zenon, <1>5, <1>6

\* InstallMirror keeps the invariant and leaves every stop where it is.
LEMMA InstallStep ==
  ASSUME Inv, InstallMirror
  PROVE  Inv' /\ Steps(World, World')
<1> DEFINE S == Range(loop.todo)
           same == \A t \in S : SameRuntime(task[t].row, loop.recs[t])
<1>1. /\ World \in Worlds /\ World.task = task /\ World.disk = disk /\ Fenced(World)
      /\ task \in [Tasks -> TaskRecords] /\ ch \in Seq(Events) /\ disk \in StateFiles
  BY Zenon, WorldGood
<1>2. /\ loop.pc = "install" /\ loop \in Loops /\ loop.slot \in Slots /\ loop.recs \in [Tasks -> Receipts]
      /\ UNCHANGED <<disk, file, cache, watcher, ch, budget>>
  BY Zenon DEF InstallMirror, Inv, Around, Loops
<1>3. \A u \in Tasks : IF u \in S THEN disk.rec[u] = loop.recs[u] ELSE task[u].rec = disk.rec[u]
  BY Zenon, <1>1, <1>2 DEF Inv, Core, Mirrored
<1>4. CASE same
  <2>1. /\ task' = [t \in Tasks |-> IF t \in S THEN [task[t] EXCEPT !.rec = loop.recs[t]] ELSE task[t]]
        /\ loop' = [loop EXCEPT !.pc = "apply"] /\ UNCHANGED <<integrity, settler>>
    BY Zenon, <1>4 DEF InstallMirror
  <2> HIDE DEF S
  <2>2. task' \in [Tasks -> TaskRecords]
    BY <1>1, <1>2, <2>1 DEF TaskRecords
  <2>3. \A t \in Tasks : task'[t].row = task[t].row /\ task'[t].rec = disk.rec[t]
    <3> SUFFICES ASSUME NEW t \in Tasks
                 PROVE  task'[t].row = task[t].row /\ task'[t].rec = disk.rec[t]
      BY Zenon
    <3>1. task[t] \in TaskRecords
      BY Zenon, <1>1
    <3>2. CASE t \in S
      BY Zenon, <1>3, <2>1, <3>1, <3>2 DEF TaskRecords
    <3>3. CASE t \notin S
      BY Zenon, <1>3, <2>1, <3>3
    <3> QED
      BY Zenon, <3>2, <3>3
  <2>4. World' \in Worlds /\ World'.task = task' /\ World'.disk = disk
    BY Zenon, <1>1, <1>2, <2>2 DEF World, Worlds
  <2>5. Fenced(World)' /\ Still(World, World')
    BY Zenon, <1>1, <1>2, <2>3, <2>4 DEF Fenced, Still, Kept, World
  <2>6. loop' \in Loops /\ loop'.pc = "apply" /\ loop'.slot = loop.slot
    BY Zenon, <1>2, <2>1 DEF Loops
  <2>7. Mirrored(World)'
    BY Zenon, <1>2, <2>3, <2>6 DEF Mirrored, Synced, World
  <2>8. Around'
    BY Zenon, <1>2, <2>1, <2>6 DEF Inv, Around, Settling
  <2> QED
    BY Zenon, <2>4, <2>5, <2>7, <2>8 DEF Inv, Core, Steps
<1>5. CASE ~same
  <2>1. /\ integrity' = TRUE /\ loop' = Ready /\ UNCHANGED task
        /\ settler' = IF settler[loop.slot].pc = "reply" THEN [settler EXCEPT ![loop.slot] = Idle] ELSE settler
    BY Zenon, <1>5 DEF InstallMirror
  <2>2. World' = World
    BY Zenon, <1>2, <2>1 DEF World
  <2>3. Core' /\ Steps(World, World')
    BY Zenon, <1>1, <1>2, <2>1, <2>2, ReadyLoop DEF Core, Fenced, Mirrored, Synced, Steps, Still, Kept
  <2>4. Settling'
    BY Zenon, <2>1, TurnedDown DEF Inv
  <2>5. Around'
    BY Zenon, <1>2, <2>1, <2>4, ReadyLoop DEF Inv, Around
  <2> QED
    BY <2>3, <2>5 DEF Inv
<1> QED
  BY Zenon, <1>4, <1>5

\* Applying a stop, and what is done when that fails, is no step of a stop.
LEMMA AppliedGood ==
  ASSUME NEW w, NEW t \in Tasks, NEW outcome, NEW ok \in BOOLEAN, Good(w), NEW done,
         done = ApplyStop(w, t, outcome)
  PROVE  /\ Good(done.w) /\ Still(w, done.w)
         /\ Good(StopFailed(done.w, t, ok)) /\ Still(w, StopFailed(done.w, t, ok))
<1>1. Good(done.w) /\ Still(w, done.w)
  BY Zenon, ApplyStopGood
<1>2. Good(StopFailed(done.w, t, ok)) /\ Still(done.w, StopFailed(done.w, t, ok))
  BY Zenon, <1>1, StopFailedGood
<1> QED
  BY Zenon, <1>1, <1>2, StillTwice

\* ApplyTarget keeps the invariant and leaves every stop where it is.
LEMMA ApplyStep ==
  ASSUME Inv, NEW outcome \in Outcomes, NEW ok \in BOOLEAN, ApplyTarget(outcome, ok)
  PROVE  Inv' /\ Steps(World, World')
<1> DEFINE t == Head(loop.todo)
           done == ApplyStop(World, t, outcome)
           v == IF done.err THEN StopFailed(done.w, t, ok) ELSE done.w
<1>1. /\ Good(World) /\ loop.pc = "apply" /\ loop \in Loops /\ loop.todo \in Seq(Tasks) /\ loop.todo # <<>>
      /\ loop' = [loop EXCEPT !.todo = Tail(@)]
      /\ UNCHANGED <<integrity, file, cache, watcher, settler>> /\ ApplyFault(outcome, ok)
  BY Zenon, WorldGood DEF ApplyTarget, Inv, Around, Loops
<1>2. t \in Tasks /\ Tail(loop.todo) \in Seq(Tasks)
  BY <1>1
<1>3. Become(v)
  BY DEF ApplyTarget, Become
<1>4. loop' \in Loops /\ loop'.pc = "apply" /\ loop'.slot = loop.slot
  <2> DEFINE q == Tail(loop.todo)
  <2>1. loop' = [loop EXCEPT !.todo = q] /\ q \in Seq(Tasks)
    BY Zenon, <1>1, <1>2
  <2> HIDE DEF q
  <2> QED
    BY Zenon, <1>1, <2>1 DEF Loops
<1> HIDE DEF t
<1>5. Good(v) /\ Still(World, v)
  <2> HIDE DEF done
  <2> QED
    BY Zenon, <1>1, <1>2, AppliedGood DEF done
<1> HIDE DEF v
<1>6. Core' /\ World' = v
  BY Zenon, <1>1, <1>3, <1>4, <1>5, Becomes
<1>7. Around'
  BY Zenon, <1>1, <1>4, ApplyFaultGood DEF Inv, Around, Settling
<1> QED
  BY Zenon, <1>5, <1>6, <1>7 DEF Inv, Steps

\* A recovery that is taken off the queue gives its token back.
LEMMA DisarmGood ==
  ASSUME Inv, Pending("recover"), NEW t, t = Head(ch).task
  PROVE  t \in Tasks /\ Good(Disarm(t)) /\ Still(World, Disarm(t))
         /\ Disarm(t).task[t].rec = task[t].rec
<1>1. /\ Good(Rest) /\ Still(World, Rest) /\ Head(ch) \in Events /\ Head(ch).kind = "recover"
      /\ Rest.task = task
  BY Zenon, RestGood
<1>2. t \in Tasks
  BY Zenon, <1>1, EventFields
<1>3. Disarm(t) = [Rest EXCEPT !.task[t].armed = "no"]
  BY Zenon DEF Disarm
<1> DEFINE v == Disarm(t)
<1> HIDE DEF v
<1>4. /\ v \in Worlds /\ v.disk = Rest.disk /\ v.task[t].row = Rest.task[t].row
      /\ v.task[t].rec = Rest.task[t].rec /\ \A u \in Tasks \ {t} : v.task[u] = Rest.task[u]
  BY <1>1, <1>2, <1>3, ArmedUpdate DEF Good, v
<1>5. Good(v) /\ Still(Rest, v)
  BY Zenon, <1>1, <1>2, <1>4, QuietUpdate
<1> QED
  BY Zenon, <1>1, <1>2, <1>4, <1>5, StillTwice DEF v

\* SkipRecovery keeps the invariant and leaves every stop where it is.
LEMMA SkipStep ==
  ASSUME Inv, SkipRecovery
  PROVE  Inv' /\ Steps(World, World')
<1> DEFINE v == Disarm(Head(ch).task)
<1>1. Good(v) /\ Still(World, v) /\ loop.pc = "ready"
  BY Zenon, DisarmGood, RestGood DEF SkipRecovery
<1>2. Become(v) /\ UNCHANGED <<integrity, file, cache, watcher, loop, settler, budget>>
  BY Zenon DEF SkipRecovery
<1> HIDE DEF v
<1>3. Core' /\ World' = v
  BY Zenon, <1>1, <1>2, Becomes
<1>4. Around'
  BY <1>2 DEF Inv, Around, Settling
<1> QED
  BY Zenon, <1>1, <1>3, <1>4 DEF Inv, Steps

\* Resuming a failed receipt is no step of its stop.
LEMMA ResumedGood ==
  ASSUME Inv, Pending("recover"), NEW t, t = Head(ch).task, NEW ok \in BOOLEAN
  PROVE  Good(Resumed(t, ok)) /\ Still(World, Resumed(t, ok))
<1> DEFINE r == task[t].rec
           x == Disarm(t)
           v == Advance(x, t, r, r.resume, ok)
<1>1. t \in Tasks /\ Good(x) /\ Still(World, x)
  BY Zenon, DisarmGood
<1>2. r \in Receipts
  BY Zenon, <1>1, WorldGood DEF TaskRecords
<1>3. CASE r.phase = "failed"
  <2>1. r.resume \in Phases \cup {"failed"}
    BY <1>2, <1>3 DEF Receipts, NoReceipt
  <2> HIDE DEF x, r
  <2>2. Replaced(x, v, t) /\ Still(x, v)
    BY Zenon, <1>1, <1>2, <1>3, <2>1, AdvanceGood DEF Good
  <2>3. Resumed(t, ok) = v
    BY Zenon, <1>3 DEF Resumed, x, r
  <2> HIDE DEF v
  <2>4. Good(v) /\ Still(World, v)
    BY Zenon, <1>1, <2>2, StillTwice DEF Replaced, Good
  <2> QED
    BY Zenon, <2>3, <2>4
<1>4. CASE r.phase # "failed"
  <2>1. Resumed(t, ok) = x
    BY Zenon, <1>4 DEF Resumed
  <2> QED
    BY Zenon, <1>1, <2>1
<1> QED
  BY Zenon, <1>3, <1>4

\* HandleRecovery keeps the invariant and leaves every stop where it is.
LEMMA RecoveryStep ==
  ASSUME Inv, NEW outcome \in Outcomes, NEW ok \in BOOLEAN, HandleRecovery(outcome, ok)
  PROVE  Inv' /\ Steps(World, World')
<1> DEFINE t == Head(ch).task
           w == Resumed(t, ok)
           again == w.task[t].rec.phase = "stop_requested"
           done == IF again THEN ApplyStop(w, t, outcome) ELSE [w |-> w, err |-> FALSE]
           goes == w.task[t].rec.phase # "failed" /\ ~done.err
           v == IF w.task[t].rec.phase = "failed" THEN Arm(w, t)
                ELSE IF done.err THEN StopFailed(done.w, t, ok)
                ELSE [done.w EXCEPT !.ch = Append(@, Barrier(t))]
           x == [Idle EXCEPT !.pc = "barrier", !.targets = <<t>>]
<1>1. t \in Tasks /\ Good(w) /\ Still(World, w) /\ loop.pc = "ready"
  BY ZenonT(40), DisarmGood, ResumedGood, RestGood DEF HandleRecovery
<1>2. Become(v) /\ settler' = IF goes THEN [settler EXCEPT ![t] = x] ELSE settler
  BY ZenonT(40) DEF HandleRecovery, Become
<1>3. UNCHANGED <<integrity, file, cache, watcher, loop>> /\ ApplyFault(outcome, ok)
  BY Zenon DEF HandleRecovery
<1>4. Settling'
  <2>1. Proper(x)
    <3>1. <<t>> \in Seq(Tasks) /\ <<t>> # <<>>
      BY <1>1
    <3> HIDE DEF t
    <3> QED
      BY Zenon, <3>1, IdleProper DEF Proper, Settlers, Idle
  <2> HIDE DEF x, goes, t
  <2>2. CASE goes
    BY ZenonT(40), <1>1, <1>2, <2>1, <2>2, SettlerGood DEF Slots, Inv
  <2>3. CASE ~goes
    BY Zenon, <1>2, <2>3 DEF Inv, Around, Settling
  <2> QED
    BY <2>2, <2>3
<1> HIDE DEF t, w, again
<1>5. /\ Good(done.w) /\ Still(w, done.w)
      /\ Good(StopFailed(done.w, t, ok)) /\ Still(w, StopFailed(done.w, t, ok))
  <2>1. CASE again
    <3>1. done = ApplyStop(w, t, outcome)
      BY Zenon, <2>1
    <3> HIDE DEF done
    <3> QED
      BY Zenon, <1>1, <3>1, AppliedGood
  <2>2. CASE ~again
    <3>1. done.w = w /\ Still(w, w)
      BY Zenon, <2>2 DEF Still, Kept
    <3> HIDE DEF done
    <3> QED
      BY Zenon, <1>1, <3>1, StopFailedGood
  <2> QED
    BY Zenon, <2>1, <2>2
<1> HIDE DEF done
<1>6. Good(Arm(w, t)) /\ Still(w, Arm(w, t))
  <2>1. Replaced(w, Arm(w, t), t) /\ Still(w, Arm(w, t))
    BY Zenon, <1>1, ArmGood DEF Good
  <2> QED
    BY Zenon, <1>1, <2>1 DEF Replaced, Good
<1>7. LET y == [done.w EXCEPT !.ch = Append(@, Barrier(t))] IN Good(y) /\ Still(w, y)
  <2> DEFINE q == Append(done.w.ch, Barrier(t))
             y == [done.w EXCEPT !.ch = q]
  <2>1. done.w.ch \in Seq(Events) /\ Barrier(t) \in Events
    BY Zenon, <1>1, <1>5 DEF Good, Worlds, Barrier, Events, Slots
  <2>2. q \in Seq(Events)
    BY <2>1
  <2> HIDE DEF q
  <2>3. Good(y) /\ Still(done.w, y)
    BY Zenon, <1>5, <2>2, QueueGood
  <2> HIDE DEF y
  <2>4. Good(y) /\ Still(w, y)
    BY Zenon, <1>5, <2>3, StillTwice
  <2> QED
    BY ZenonT(40), <2>4 DEF y, q
<1>8. Good(v) /\ Still(w, v)
  BY Zenon, <1>5, <1>6, <1>7
<1> HIDE DEF v
<1>9. Core' /\ World' = v
  BY Zenon, <1>1, <1>2, <1>3, <1>8, Becomes
<1>10. Around'
  BY Zenon, <1>3, <1>4, ApplyFaultGood DEF Inv, Around
<1>11. Steps(World, World')
  BY Zenon, <1>1, <1>8, <1>9, StillTwice DEF Steps
<1> QED
  BY Zenon, <1>9, <1>10, <1>11 DEF Inv

---------------------------------------------------------------------------
(* The child that is alive, and the recovery that is queued *)

Queued(q) == {q[i] : i \in DOMAIN q}

\* No exit is of a child yet to come; a child that is alive is the one of the row,
\* in a state that waits for its exit, and none of its exits is queued.
InMemory(w) ==
  \A u \in Tasks :
    /\ \A e \in Queued(w.ch) : e.kind = "exit" /\ e.task = u =>
         /\ e.gen <= w.task[u].row.gen
         /\ w.task[u].child = "alive" => e.gen # w.task[u].row.gen
    /\ w.task[u].child = "alive" =>
         w.task[u].sm \in {"running", "exiting"} /\ w.task[u].row.pid # 0

\* The file knows that there is a child.
OnDisk(w) == \A u \in Tasks : w.task[u].child = "alive" => w.disk.row[u].pid # 0

Living(w) == InMemory(w) /\ OnDisk(w)

\* The exits of v were queued in w, or are of daemons whose child is gone.
ExitsOf(w, v) ==
  \A e \in Queued(v.ch) : e.kind = "exit" =>
    e \in Queued(w.ch) \/ (v.task[e.task].child # "alive" /\ e.gen <= v.task[e.task].row.gen)

\* No child is created, and one that stays alive keeps what makes it Living.
Ages(w, v) ==
  \A u \in Tasks : /\ v.task[u].row.gen = w.task[u].row.gen
                   /\ v.task[u].child = "alive" =>
                        /\ w.task[u].child = "alive" /\ v.task[u].sm \in {"running", "exiting"}
                        /\ v.task[u].row.pid # 0 /\ v.disk.row[u].pid # 0

\* What the events of a queue are after it is read or written.
LEMMA QueuedEvents ==
  ASSUME NEW q \in Seq(Events)
  PROVE  /\ \A e \in Events : Queued(Append(q, e)) = Queued(q) \cup {e}
         /\ \A e \in Events : Queued(<<e>> \o q) = Queued(q) \cup {e}
         /\ \A p \in Seq(Events) : Queued(q \o p) = Queued(q) \cup Queued(p)
         /\ q # <<>> => Queued(Tail(q)) \subseteq Queued(q) /\ Head(q) \in Queued(q)
<1>1. ASSUME NEW p \in Seq(Events) PROVE Queued(q \o p) = Queued(q) \cup Queued(p)
  <2>1. \A i \in DOMAIN (q \o p) : (q \o p)[i] \in Queued(q) \cup Queued(p)
    BY DEF Queued
  <2>2. \A i \in DOMAIN q : q[i] \in Queued(q \o p)
    BY DEF Queued
  <2>3. ASSUME NEW i \in DOMAIN p PROVE p[i] \in Queued(q \o p)
    <3>1. i + Len(q) \in DOMAIN (q \o p) /\ (q \o p)[i + Len(q)] = p[i]
      OBVIOUS
    <3> QED
      BY Zenon, <3>1 DEF Queued
  <2> QED
    BY Zenon, <2>1, <2>2, <2>3 DEF Queued
<1>2. ASSUME NEW e \in Events PROVE Queued(Append(q, e)) = Queued(q) \cup {e}
  <2>1. DOMAIN Append(q, e) = DOMAIN q \cup {Len(q) + 1} /\ Append(q, e)[Len(q) + 1] = e
    OBVIOUS
  <2>2. \A i \in DOMAIN q : Append(q, e)[i] = q[i]
    OBVIOUS
  <2> QED
    BY Zenon, <2>1, <2>2 DEF Queued
<1>3. ASSUME NEW e \in Events PROVE Queued(<<e>> \o q) = Queued(q) \cup {e}
  <2>1. \A i \in DOMAIN (<<e>> \o q) : (<<e>> \o q)[i] \in Queued(q) \cup {e}
    BY DEF Queued
  <2>2. ASSUME NEW i \in DOMAIN q PROVE q[i] \in Queued(<<e>> \o q)
    <3>1. i + 1 \in DOMAIN (<<e>> \o q) /\ (<<e>> \o q)[i + 1] = q[i]
      OBVIOUS
    <3> QED
      BY Zenon, <3>1 DEF Queued
  <2>3. e \in Queued(<<e>> \o q)
    <3>1. 1 \in DOMAIN (<<e>> \o q) /\ (<<e>> \o q)[1] = e
      OBVIOUS
    <3> QED
      BY Zenon, <3>1 DEF Queued
  <2> QED
    BY Zenon, <2>1, <2>2, <2>3 DEF Queued
<1>4. ASSUME q # <<>> PROVE Queued(Tail(q)) \subseteq Queued(q) /\ Head(q) \in Queued(q)
  BY <1>4 DEF Queued
<1> QED
  BY Zenon, <1>1, <1>2, <1>3, <1>4

\* Steps that create no child keep a world living.
LEMMA AgesLiving ==
  ASSUME NEW w, NEW v \in Worlds, Living(w), Ages(w, v), ExitsOf(w, v)
  PROVE  Living(v)
<1>0. \A u \in Tasks : v.task[u].row.gen \in Nat
  BY Zenon DEF Worlds, TaskRecords, TrackerRows
<1>1. ASSUME NEW u \in Tasks, NEW e \in Queued(v.ch), e.kind = "exit", e.task = u
      PROVE  /\ e.gen <= v.task[u].row.gen
             /\ v.task[u].child = "alive" => e.gen # v.task[u].row.gen
  BY Zenon, <1>1 DEF Living, InMemory, ExitsOf, Ages
<1>2. InMemory(v) /\ OnDisk(v)
  BY Zenon, <1>1 DEF InMemory, OnDisk, Ages
<1> QED
  BY Zenon, <1>2 DEF Living

\* An event that is queued is so in one place.
Once(q, e) == \A i, j \in DOMAIN q : q[i] = e /\ q[j] = e => i = j

\* A daemon's token says whether its recovery is queued.
Tokens(w) ==
  \A u \in Tasks : /\ w.task[u].armed = "queued" <=> Recover(u) \in Queued(w.ch)
                   /\ Once(w.ch, Recover(u))

\* No exit of a child that is alive is on record.
Unexited(w) ==
  \A u \in Tasks : w.task[u].child = "alive" => EffectivePhase(w.disk.rec[u]) \in {"none", "stop_requested"}

Sound(w) == Living(w) /\ Tokens(w) /\ Unexited(w)

\* Reading or writing an event e other than the recovery c leaves c where it is.
LEMMA QueuedOnce ==
  ASSUME NEW q \in Seq(Events), NEW c \in Events, Once(q, c)
  PROVE  /\ \A e \in Events : e # c => /\ Once(Append(q, e), c) /\ Once(<<e>> \o q, c)
                                       /\ c \in Queued(Append(q, e)) <=> c \in Queued(q)
                                       /\ c \in Queued(<<e>> \o q) <=> c \in Queued(q)
         /\ c \notin Queued(q) => Once(Append(q, c), c)
         /\ q # <<>> => /\ Once(Tail(q), c)
                        /\ Head(q) # c => (c \in Queued(Tail(q)) <=> c \in Queued(q))
                        /\ Head(q) = c => c \notin Queued(Tail(q))
<1>1. ASSUME NEW e \in Events, e # c PROVE Once(Append(q, e), c) /\ Once(<<e>> \o q, c)
  <2>1. Once(Append(q, e), c)
    BY <1>1 DEF Once
  <2>2. \A i \in DOMAIN (<<e>> \o q) : (<<e>> \o q)[i] = c => i - 1 \in DOMAIN q /\ q[i - 1] = c /\ i \in Int
    BY <1>1
  <2>3. Once(<<e>> \o q, c)
    <3> SUFFICES ASSUME NEW i \in DOMAIN (<<e>> \o q), NEW j \in DOMAIN (<<e>> \o q),
                        (<<e>> \o q)[i] = c, (<<e>> \o q)[j] = c
                 PROVE  i = j
      BY Zenon DEF Once
    <3>1. i - 1 = j - 1 /\ i \in Int /\ j \in Int
      BY Zenon, <2>2 DEF Once
    <3> QED
      BY <3>1
  <2> QED
    BY Zenon, <2>1, <2>3
<1>2. \A e \in Events : e # c => /\ c \in Queued(Append(q, e)) <=> c \in Queued(q)
                                 /\ c \in Queued(<<e>> \o q) <=> c \in Queued(q)
  <2> SUFFICES ASSUME NEW e \in Events, e # c
               PROVE  /\ c \in Queued(Append(q, e)) <=> c \in Queued(q)
                      /\ c \in Queued(<<e>> \o q) <=> c \in Queued(q)
    OBVIOUS
  <2>1. Queued(Append(q, e)) = Queued(q) \cup {e} /\ Queued(<<e>> \o q) = Queued(q) \cup {e}
    BY Zenon, QueuedEvents
  <2> QED
    BY Zenon, <2>1
<1>3. ASSUME c \notin Queued(q) PROVE Once(Append(q, c), c)
  BY <1>3 DEF Once, Queued
<1>4. ASSUME q # <<>> PROVE /\ Once(Tail(q), c)
                            /\ Head(q) # c => (c \in Queued(Tail(q)) <=> c \in Queued(q))
                            /\ Head(q) = c => c \notin Queued(Tail(q))
  <2>1. \A i \in DOMAIN Tail(q) : i + 1 \in DOMAIN q /\ Tail(q)[i] = q[i + 1] /\ i \in Int /\ i + 1 # 1
    BY <1>4
  <2>2. 1 \in DOMAIN q /\ q[1] = Head(q)
    BY <1>4
  <2>3. \A i \in DOMAIN q : i # 1 => i - 1 \in DOMAIN Tail(q) /\ Tail(q)[i - 1] = q[i]
    BY <1>4
  <2>4. Once(Tail(q), c)
    BY <2>1 DEF Once
  <2>5. Head(q) # c => (c \in Queued(Tail(q)) <=> c \in Queued(q))
    <3>1. ASSUME NEW i \in DOMAIN Tail(q), Tail(q)[i] = c PROVE c \in Queued(q)
      BY Zenon, <2>1, <3>1 DEF Queued
    <3>2. ASSUME NEW i \in DOMAIN q, q[i] = c, Head(q) # c PROVE c \in Queued(Tail(q))
      <4>1. i - 1 \in DOMAIN Tail(q) /\ Tail(q)[i - 1] = c
        BY Zenon, <2>2, <2>3, <3>2
      <4> QED
        BY Zenon, <4>1 DEF Queued
    <3> QED
      BY Zenon, <3>1, <3>2 DEF Queued
  <2>6. Head(q) = c => c \notin Queued(Tail(q))
    BY Zenon, <2>1, <2>2 DEF Queued, Once
  <2> QED
    BY Zenon, <2>4, <2>5, <2>6
<1> QED
  BY Zenon, <1>1, <1>2, <1>3, <1>4

\* A recovery is an event, and no other kind of event is one.
LEMMA RecoverIs ==
  ASSUME NEW u \in Tasks
  PROVE  /\ Recover(u) \in Events
         /\ \A e \in Events : /\ e = Recover(u) => e.kind = "recover" /\ e.task = u
                              /\ e.kind = "recover" /\ e.task = u => e = Recover(u)
<1>1. Recover(u) \in Events /\ Recover(u).kind = "recover" /\ Recover(u).task = u
  BY Zenon DEF Recover, Events
<1>2. ASSUME NEW e \in Events, e.kind = "recover", e.task = u PROVE e = Recover(u)
  BY Zenon, <1>2 DEF Recover, Events
<1> QED
  BY Zenon, <1>1, <1>2

\* Steps that create no child, post no recovery and record no exit of a child that
\* is alive keep a world sound.
LEMMA AgesSound ==
  ASSUME NEW w \in Worlds, NEW v \in Worlds, Sound(w), Ages(w, v), ExitsOf(w, v),
         \A u \in Tasks : v.task[u].child = "alive" =>
           EffectivePhase(v.disk.rec[u]) \in {EffectivePhase(w.disk.rec[u]), "none", "stop_requested"},
         \A u \in Tasks : /\ v.task[u].armed = "queued" <=> w.task[u].armed = "queued"
                          /\ Recover(u) \in Queued(v.ch) <=> Recover(u) \in Queued(w.ch)
                          /\ Once(w.ch, Recover(u)) => Once(v.ch, Recover(u))
  PROVE  Sound(v)
<1>1. Living(v)
  BY Zenon, AgesLiving DEF Sound
<1>2. Tokens(v)
  BY Zenon DEF Sound, Tokens
<1>3. Unexited(v)
  BY Zenon DEF Sound, Unexited, Ages
<1> QED
  BY Zenon, <1>1, <1>2, <1>3 DEF Sound

\* One daemon changes and nothing is queued or saved.
LEMMA DaemonSound ==
  ASSUME NEW w \in Worlds, NEW v \in Worlds, NEW t \in Tasks, Sound(w),
         v.ch = w.ch, v.disk.row = w.disk.row, \A u \in Tasks \ {t} : v.task[u] = w.task[u],
         v.task[t].row.gen = w.task[t].row.gen,
         v.task[t].armed = "queued" <=> w.task[t].armed = "queued",
         \A u \in Tasks \ {t} : v.disk.rec[u] = w.disk.rec[u],
         v.task[t].child = "alive" =>
           EffectivePhase(v.disk.rec[t]) \in {EffectivePhase(w.disk.rec[t]), "none", "stop_requested"},
         v.task[t].child = "alive" => /\ w.task[t].child = "alive" /\ v.task[t].row.pid # 0
                                      /\ v.task[t].sm \in {"running", "exiting"}
  PROVE  Sound(v)
<1>1. Ages(w, v)
  <2> SUFFICES ASSUME NEW u \in Tasks
               PROVE  /\ v.task[u].row.gen = w.task[u].row.gen
                      /\ v.task[u].child = "alive" =>
                           /\ w.task[u].child = "alive" /\ v.task[u].sm \in {"running", "exiting"}
                           /\ v.task[u].row.pid # 0 /\ v.disk.row[u].pid # 0
    BY Zenon DEF Ages
  <2>1. w.task[u].child = "alive" => /\ w.task[u].sm \in {"running", "exiting"}
                                     /\ w.task[u].row.pid # 0 /\ v.disk.row[u].pid # 0
    BY Zenon DEF Sound, Living, InMemory, OnDisk
  <2> QED
    BY Zenon, <2>1
<1>2. ExitsOf(w, v)
  BY Zenon DEF ExitsOf
<1>3. \A u \in Tasks : /\ v.task[u].armed = "queued" <=> w.task[u].armed = "queued"
                       /\ v.task[u].child = "alive" => EffectivePhase(v.disk.rec[u]) \in
                            {EffectivePhase(w.disk.rec[u]), "none", "stop_requested"}
  BY Zenon
<1> QED
  BY Zenon, <1>1, <1>2, <1>3, AgesSound

\* The same, where no receipt changes either.
LEMMA QuietDaemon ==
  ASSUME NEW w, NEW v \in Worlds, NEW t \in Tasks, Good(w), Sound(w), v.disk = w.disk, v.ch = w.ch,
         v.task[t].row.gen = w.task[t].row.gen, v.task[t].rec = w.task[t].rec,
         v.task[t].armed = w.task[t].armed, \A u \in Tasks \ {t} : v.task[u] = w.task[u],
         v.task[t].child = "alive" => /\ w.task[t].child = "alive" /\ v.task[t].row.pid # 0
                                      /\ v.task[t].sm \in {"running", "exiting"}
  PROVE  Good(v) /\ Sound(v)
<1>1. w \in Worlds
  BY Zenon DEF Good
<1>2. Good(v)
  BY Zenon, QuietUpdate
<1>3. /\ v.disk.row = w.disk.row /\ \A u \in Tasks \ {t} : v.disk.rec[u] = w.disk.rec[u]
      /\ EffectivePhase(v.disk.rec[t]) = EffectivePhase(w.disk.rec[t])
      /\ v.task[t].armed = "queued" <=> w.task[t].armed = "queued"
  BY Zenon
<1>4. Sound(v)
  BY Zenon, <1>1, <1>3, DaemonSound
<1> QED
  BY Zenon, <1>2, <1>4

\* Saving the tracker tells the file of every child that is alive.
LEMMA SaveSound ==
  ASSUME NEW w, Good(w), Sound(w)
  PROVE  Sound(PersistTo(w))
<1> DEFINE v == PersistTo(w)
<1>1. w \in Worlds /\ v \in Worlds /\ v.task = w.task /\ v.ch = w.ch /\ v.disk.rec = w.disk.rec
  BY Zenon, SaveGood DEF Good, Fenced
<1>2. \A u \in Tasks : v.disk.row[u] = w.task[u].row
  <2>1. w \in Worlds /\ w.disk \in StateFiles
    BY Zenon, <1>1 DEF Worlds
  <2>2. v.disk.row = [u \in Tasks |-> w.task[u].row]
    BY ZenonT(40), <2>1 DEF PersistTo, Worlds, StateFiles
  <2> QED
    BY Zenon, <2>2
<1> HIDE DEF v
<1>3. Ages(w, v) /\ ExitsOf(w, v)
  BY Zenon, <1>1, <1>2 DEF Ages, ExitsOf, Sound, Living, InMemory
<1>4. Sound(v)
  BY Zenon, <1>1, <1>3, AgesSound
<1> QED
  BY Zenon, <1>4 DEF v

\* An exit is posted for a daemon whose child is gone, with the number of its
\* last child; a barrier or a batch is posted.
LEMMA PostSound ==
  ASSUME NEW w \in Worlds, NEW v \in Worlds, NEW e \in Events, Sound(w), v.task = w.task, v.disk = w.disk,
         v.ch = Append(w.ch, e) \/ v.ch = <<e>> \o w.ch, e.kind # "recover",
         e.kind = "exit" => w.task[e.task].child # "alive" /\ e.gen = w.task[e.task].row.gen
  PROVE  Sound(v)
<1>1. w.ch \in Seq(Events)
  BY DEF Worlds
<1>2. Queued(v.ch) = Queued(w.ch) \cup {e}
  <2>1. Queued(Append(w.ch, e)) = Queued(w.ch) \cup {e} /\ Queued(<<e>> \o w.ch) = Queued(w.ch) \cup {e}
    BY Zenon, <1>1, QueuedEvents
  <2> QED
    BY Zenon, <2>1
<1>3. Ages(w, v)
  BY Zenon DEF Ages, Sound, Living, InMemory, OnDisk
<1>4. ExitsOf(w, v)
  <2>1. e.kind = "exit" => e.task \in Tasks /\ e.gen \in Nat
    BY Zenon, EventFields
  <2>2. e.kind = "exit" => e.gen <= w.task[e.task].row.gen
    BY <2>1
  <2> QED
    BY Zenon, <1>2, <2>2 DEF ExitsOf
<1>5. ASSUME NEW u \in Tasks
      PROVE  /\ Recover(u) \in Queued(v.ch) <=> Recover(u) \in Queued(w.ch)
             /\ Once(w.ch, Recover(u)) => Once(v.ch, Recover(u))
  <2>1. Recover(u) \in Events /\ e # Recover(u)
    BY Zenon, RecoverIs
  <2>2. Once(w.ch, Recover(u))
    BY Zenon DEF Sound, Tokens
  <2>3. /\ Once(Append(w.ch, e), Recover(u)) /\ Once(<<e>> \o w.ch, Recover(u))
        /\ Recover(u) \in Queued(Append(w.ch, e)) <=> Recover(u) \in Queued(w.ch)
        /\ Recover(u) \in Queued(<<e>> \o w.ch) <=> Recover(u) \in Queued(w.ch)
    BY Zenon, <1>1, <2>1, <2>2, QueuedOnce
  <2> QED
    BY Zenon, <2>3
<1> QED
  BY ZenonT(40), <1>1, <1>3, <1>4, <1>5, AgesSound

\* A new child is no child whose exit is queued.
LEMMA CreateSound ==
  ASSUME NEW w, NEW t \in Tasks, Good(w), Sound(w), w.task[t].child # "alive"
  PROVE  Sound(CreateChild(w, t))
<1> DEFINE c == Running(w.task[t])
           x == [w EXCEPT !.task[t] = c]
           v == PersistTo(x)
<1>1. CASE ~AdmitCreateProcess(w, t)
  BY Zenon, <1>1 DEF CreateChild
<1>2. CASE AdmitCreateProcess(w, t)
  <2>1. w \in Worlds /\ w.task[t] \in TaskRecords /\ w.task[t].row \in TrackerRows
    BY DEF Good, Worlds, TaskRecords
  <2>2. CreateChild(w, t) = v
    BY Zenon, <1>2 DEF CreateChild
  <2>3. v \in Worlds
    BY Zenon, <2>2, CreateGood DEF Good
  <2>4. /\ c \in TaskRecords /\ c.armed = w.task[t].armed /\ c.child = "alive" /\ c.sm = "running"
        /\ c.row.gen = w.task[t].row.gen + 1 /\ c.row.pid # 0
    <3> DEFINE m == MarkSpawned(w.task[t].row, w.task[t].row.gen + 1)
    <3>1. w.task[t].row.gen + 1 \in Nat /\ w.task[t].row.gen + 1 # 0
      BY SMTT(40), <2>1 DEF TrackerRows
    <3>2. m \in TrackerRows /\ m.gen = w.task[t].row.gen + 1
      BY Zenon, <2>1, <3>1, RowUpdates
    <3>3. m.pid # 0
      BY Zenon, <2>1, <3>1 DEF MarkSpawned, TrackerRows
    <3> HIDE DEF m
    <3> QED
      BY Zenon, <2>1, <3>2, <3>3 DEF Running, TaskRecords, SMStates, QueuedActions, m
  <2> HIDE DEF c
  <2>5. /\ x \in Worlds /\ x.ch = w.ch /\ x.task[t] = c
        /\ \A u \in Tasks \ {t} : x.task[u] = w.task[u]
    BY <2>1, <2>4, TaskUpdate
  <2> HIDE DEF x
  <2>6. v.task = x.task /\ v.ch = x.ch /\ \A u \in Tasks : v.disk.row[u] = x.task[u].row
    <3>1. x.disk \in StateFiles
      BY Zenon, <2>5 DEF Worlds
    <3> QED
      BY Zenon, <2>5, <3>1 DEF PersistTo, Worlds, StateFiles
  <2> HIDE DEF v
  <2>7. \A u \in Tasks : w.task[u].row.gen \in Nat
    BY Zenon, <2>1 DEF Worlds, TaskRecords, TrackerRows
  <2>8. InMemory(v)
    <3> SUFFICES ASSUME NEW u \in Tasks
                 PROVE  /\ \A e \in Queued(v.ch) : e.kind = "exit" /\ e.task = u =>
                             /\ e.gen <= v.task[u].row.gen
                             /\ v.task[u].child = "alive" => e.gen # v.task[u].row.gen
                        /\ v.task[u].child = "alive" =>
                             v.task[u].sm \in {"running", "exiting"} /\ v.task[u].row.pid # 0
      BY Zenon DEF InMemory
    <3>1. \A e \in Queued(w.ch) : e.kind = "exit" /\ e.task = u => e.gen <= w.task[u].row.gen /\ e.gen \in Nat
      <4>1. \A e \in Queued(w.ch) : e \in Events
        BY DEF Good, Worlds, Queued
      <4> QED
        BY Zenon, <4>1, EventFields DEF Sound, Living, InMemory
    <3>2. CASE u = t
      BY SMTT(40), <2>4, <2>5, <2>6, <2>7, <3>1, <3>2
    <3>3. CASE u # t
      BY <2>5, <2>6, <3>3 DEF Sound, Living, InMemory
    <3> QED
      BY Zenon, <3>2, <3>3
  <2>9. OnDisk(v)
    BY ZenonT(40), <2>6, <2>8 DEF OnDisk, InMemory
  <2>10. Tokens(v)
    BY <2>4, <2>5, <2>6 DEF Sound, Tokens
  <2>11. Unexited(v)
    <3>1. v.disk.rec = w.disk.rec
      BY Zenon, <2>2, CreateGood DEF Untouched
    <3>2. w.disk.rec[t] = NoReceipt /\ EffectivePhase(NoReceipt) = "none"
      BY Zenon, <1>2 DEF AdmitCreateProcess, Good, Synced, EffectivePhase, NoReceipt
    <3> QED
      BY Zenon, <2>5, <2>6, <3>1, <3>2 DEF Sound, Unexited
  <2> QED
    BY ZenonT(40), <2>2, <2>8, <2>9, <2>10, <2>11 DEF Sound, Living
<1> QED
  BY Zenon, <1>1, <1>2

\* Killing a child.
LEMMA KilledSound ==
  ASSUME NEW w, NEW t \in Tasks, Good(w), Sound(w)
  PROVE  /\ Good(Killed(w, t)) /\ Sound(Killed(w, t))
         /\ Killed(w, t).task[t].child # "alive"
<1> DEFINE c == IF w.task[t].own THEN "dead" ELSE "none"
           v == Killed(w, t)
<1>1. w \in Worlds /\ w.task \in [Tasks -> TaskRecords] /\ w.task[t] \in TaskRecords
  BY Zenon DEF Good, Worlds
<1>2. c \in {"none", "alive", "dead", "marked"} /\ c # "alive"
  BY Zenon
<1>3. v = [w EXCEPT !.task[t].child = c]
  BY Zenon DEF Killed
<1> HIDE DEF c, v
<1>4. /\ v \in Worlds /\ v.disk = w.disk /\ v.ch = w.ch /\ v.task[t].row = w.task[t].row
      /\ v.task[t].rec = w.task[t].rec /\ \A u \in Tasks \ {t} : v.task[u] = w.task[u]
  BY <1>1, <1>2, <1>3, ChildUpdate
<1>5. v.task[t].armed = w.task[t].armed /\ v.task[t].child = c
  BY ZenonT(40), <1>1, <1>3 DEF Worlds, TaskRecords
<1>6. Sound(v)
  BY <1>1, <1>2, <1>4, <1>5, DaemonSound
<1>7. Good(v)
  BY Zenon, <1>4, QuietUpdate
<1> QED
  BY ZenonT(40), <1>2, <1>5, <1>6, <1>7 DEF v

\* An exit is synthesized only for a child that is gone.
LEMMA SynthesizedSound ==
  ASSUME NEW w, NEW t \in Tasks, Good(w), Sound(w), w.task[t].child # "alive"
  PROVE  Good(Synthesized(w, t)) /\ Sound(Synthesized(w, t))
<1> DEFINE e == Exit(t, w.task[t].row.gen)
           q == <<e>> \o w.ch
           y == [w EXCEPT !.ch = <<e>> \o w.ch]
<1>1. w \in Worlds /\ w.ch \in Seq(Events) /\ w.task[t].row.gen \in Nat
  BY Zenon DEF Good, Worlds, TaskRecords, TrackerRows
<1>2. /\ e \in Events /\ e.kind = "exit" /\ e.task = t /\ e.gen = w.task[t].row.gen
  BY Zenon, <1>1 DEF Exit, Events
<1>3. Synthesized(w, t) = IF w.task[t].own THEN w ELSE y
  BY Zenon DEF Synthesized
<1> HIDE DEF e
<1>4. y = [w EXCEPT !.ch = q]
  OBVIOUS
<1>5. q \in Seq(Events)
  BY <1>1, <1>2
<1> HIDE DEF y
<1>6. Good(y) /\ y.task = w.task /\ y.disk = w.disk /\ y.ch = q
  <2> HIDE DEF q
  <2> QED
    BY <1>4, <1>5, QueueGood
<1>7. y \in Worlds
  BY Zenon, <1>6 DEF Good
<1>8. Sound(y)
  BY ZenonT(40), <1>1, <1>2, <1>6, <1>7, PostSound
<1> QED
  BY Zenon, <1>3, <1>6, <1>8

\* So it is when the row is cleared first.
LEMMA ObservedSound ==
  ASSUME NEW w, NEW t \in Tasks, Good(w), Sound(w), w.task[t].child # "alive"
  PROVE  Good(Observed(w, t)) /\ Sound(Observed(w, t))
<1> DEFINE row == MarkExitedIfCurrent(w.task[t].row, w.task[t].row.gen)
           x == [w EXCEPT !.task[t].row = row]
           v == PersistTo(x)
<1>1. w \in Worlds /\ w.task[t] \in TaskRecords /\ w.task[t].row \in TrackerRows /\ w.task[t].row.gen \in Nat
  BY Zenon DEF Good, Worlds, TaskRecords, TrackerRows
<1>2. row \in TrackerRows /\ row.gen = w.task[t].row.gen
  BY Zenon, <1>1, RowUpdates
<1>3. Observed(w, t) = Synthesized(v, t)
  BY Zenon DEF Observed
<1> HIDE DEF row
<1>5. /\ x \in Worlds /\ x.disk = w.disk /\ x.ch = w.ch /\ x.task[t].row = row
      /\ x.task[t].rec = w.task[t].rec /\ \A u \in Tasks \ {t} : x.task[u] = w.task[u]
  BY <1>1, <1>2, RowUpdate
<1>6. x.task[t].armed = w.task[t].armed /\ x.task[t].child = w.task[t].child
  BY Zenon, <1>1 DEF Worlds, TaskRecords
<1> HIDE DEF x
<1>7. Good(x) /\ Sound(x)
  <2>1. /\ x.task[t].row.gen = w.task[t].row.gen /\ x.task[t].rec = w.task[t].rec
        /\ x.task[t].armed = w.task[t].armed
        /\ x.task[t].child = "alive" => /\ w.task[t].child = "alive" /\ x.task[t].row.pid # 0
                                     /\ x.task[t].sm \in {"running", "exiting"}
    BY Zenon, <1>2, <1>5, <1>6
  <2> QED
    BY Zenon, <1>5, <2>1, QuietDaemon
<1>8. Good(v) /\ Sound(v) /\ v.task = x.task
  BY Zenon, <1>7, PersistGood, SaveSound
<1> HIDE DEF v
<1>9. v.task[t].child # "alive"
  BY Zenon, <1>6, <1>8
<1> QED
  BY Zenon, <1>3, <1>8, <1>9, SynthesizedSound

\* Every outcome of a termination.
LEMMA TerminateSound ==
  ASSUME NEW w, NEW t \in Tasks, NEW outcome, Good(w), Sound(w)
  PROVE  Sound(Terminate(w, t, outcome).w)
<1>1. w.task[t].child # "alive" => Sound(Observed(w, t))
  BY Zenon, ObservedSound
<1> DEFINE k == Killed(w, t)
<1>2. Good(k) /\ Sound(k) /\ k.task[t].child # "alive"
  BY Zenon, KilledSound
<1> HIDE DEF k
<1>3. Sound(Observed(k, t)) /\ Sound(Synthesized(k, t))
  BY Zenon, <1>2, ObservedSound, SynthesizedSound
<1> DEFINE v == Terminate(w, t, outcome).w
<1>4. \/ v = w \/ v = k \/ v = Observed(k, t) \/ v = Synthesized(k, t)
      \/ w.task[t].child # "alive" /\ v = Observed(w, t)
  BY DEF Terminate, k
<1> HIDE DEF v
<1>5. Sound(v)
  BY Zenon, <1>1, <1>2, <1>3, <1>4
<1> QED
  BY Zenon, <1>5 DEF v

\* The table keeps a daemon whose child is alive where it waits for its exit.
LEMMA AliveRow ==
  ASSUME NEW st \in {"running", "exiting"}, NEW c \in SMContexts
  PROVE  LET r == Transition(st, "intent-update", c)
         IN  r.to \in {"running", "exiting"} /\ ~r.create
BY Zenon DEF Transition, FromRunning, FromExiting, GoTo, QueueAnd, Unmatched, SMContexts

\* A row of the table applied to a daemon; if its child is alive the row keeps it
\* where it waits for its exit.
LEMMA TakeSound ==
  ASSUME NEW w, NEW t \in Tasks, NEW r \in Rows, NEW outcome, Good(w), Sound(w),
         w.task[t].child = "alive" => r.to \in {"running", "exiting"} /\ ~r.create
  PROVE  Sound(Take(w, t, r, outcome))
<1> DEFINE to == IF r.to = "idle" /\ w.task[t].sm # "idle" THEN MarkExited(w.task[t].row)
                 ELSE IF r.to = "backoff" THEN MarkBackoff(w.task[t].row)
                 ELSE w.task[t].row
           q == IF r.queued = "keep" THEN w.task[t].queued ELSE r.queued
           x == [w EXCEPT !.task[t].sm = r.to,
                          !.task[t].queued = IF r.queued = "keep" THEN @ ELSE r.queued,
                          !.task[t].row = to]
           v == PersistTo(x)
<1>1. w \in Worlds /\ w.task[t] \in TaskRecords /\ w.task[t].row \in TrackerRows
  BY Zenon DEF Good, Worlds, TaskRecords
<1>2. to \in TrackerRows /\ to.gen = w.task[t].row.gen
  <2>1. 0 \in Nat
    BY Zenon
  <2> QED
    BY Zenon, <1>1, <2>1, RowUpdates
<1>3. r.to \in SMStates /\ q \in QueuedActions
  BY Zenon, <1>1 DEF Rows, TaskRecords
<1>4. x = [w EXCEPT !.task[t].sm = r.to, !.task[t].queued = q, !.task[t].row = to]
  BY Zenon, <1>1 DEF Worlds, TaskRecords
<1>5. w.task[t].child = "alive" => to.pid # 0
  BY Zenon DEF Sound, Living, InMemory
<1>6. /\ x \in Worlds /\ x.disk = w.disk /\ x.ch = w.ch /\ x.task[t].row = to
      /\ x.task[t].rec = w.task[t].rec /\ \A u \in Tasks \ {t} : x.task[u] = w.task[u]
      /\ x.task[t].armed = w.task[t].armed /\ x.task[t].child = w.task[t].child
      /\ x.task[t].sm = r.to
  <2> HIDE DEF to, q, x
  <2> QED
    BY Zenon, <1>1, <1>2, <1>3, <1>4 DEF Worlds, TaskRecords
<1>7. Take(w, t, r, outcome) = IF r.create THEN CreateChild(v, t)
                      ELSE IF r.to = "exiting" THEN Terminate(v, t, outcome).w ELSE v
  BY ZenonT(40) DEF Take
<1> HIDE DEF to, q, x
<1>8. Good(x) /\ Sound(x)
  <2>1. /\ x.task[t].row.gen = w.task[t].row.gen /\ x.task[t].rec = w.task[t].rec
        /\ x.task[t].armed = w.task[t].armed
        /\ x.task[t].child = "alive" => /\ w.task[t].child = "alive" /\ x.task[t].row.pid # 0
                                     /\ x.task[t].sm \in {"running", "exiting"}
    BY Zenon, <1>2, <1>5, <1>6
  <2> QED
    BY Zenon, <1>6, <2>1, QuietDaemon
<1>9. Good(v) /\ Sound(v) /\ v.task = x.task
  BY Zenon, <1>8, PersistGood, SaveSound
<1> HIDE DEF v
<1>10. CASE r.create
  <2>1. v.task[t].child # "alive"
    BY Zenon, <1>6, <1>9, <1>10
  <2>2. Good(CreateChild(v, t)) /\ Sound(CreateChild(v, t))
    BY Zenon, <1>9, <2>1, CreateGood, CreateSound
  <2> QED
    BY Zenon, <1>7, <1>10, <2>2
<1>11. CASE ~r.create /\ r.to = "exiting"
  <2> DEFINE y == Terminate(v, t, outcome).w
  <2>1. Good(y) /\ Sound(y)
    BY Zenon, <1>9, TerminateGood, TerminateSound
  <2> HIDE DEF y
  <2> QED
    BY Zenon, <1>7, <1>11, <2>1 DEF y
<1>12. CASE ~r.create /\ r.to # "exiting"
  BY Zenon, <1>7, <1>9, <1>12
<1> QED
  BY Zenon, <1>10, <1>11, <1>12

\* applyAuthoritativeStopTransition.
LEMMA ApplyStopSound ==
  ASSUME NEW w, NEW t \in Tasks, NEW outcome, Good(w), Sound(w)
  PROVE  Sound(ApplyStop(w, t, outcome).w)
<1> DEFINE x == w.task[t]
           r == StopRow(x)
           q == IF r.queued = "stop" THEN "stop" ELSE x.queued
           row == IF r.to = "idle" /\ x.sm # "idle" THEN MarkExited(x.row) ELSE x.row
           v == [w EXCEPT !.task[t].sm = r.to,
                          !.task[t].queued = IF r.queued = "stop" THEN "stop" ELSE @,
                          !.task[t].row = IF r.to = "idle" /\ x.sm # "idle" THEN MarkExited(@) ELSE @]
           saves == x.sm \in {"running", "exiting", "backoff"}
           u == IF saves THEN PersistTo(v) ELSE v
<1>1. w \in Worlds /\ x \in TaskRecords /\ x.row \in TrackerRows
  BY Zenon DEF Good, Worlds, TaskRecords
<1>2. r \in Rows
  <2>1. "intent-update" \in SMEvents
    BY Zenon DEF SMEvents
  <2> QED
    BY Zenon, <1>1, <2>1, RowsOfTable DEF StopRow
<1>3. row \in TrackerRows /\ row.gen = x.row.gen
  <2>1. 0 \in Nat
    BY Zenon
  <2> QED
    BY Zenon, <1>1, <2>1, RowUpdates
<1>4. r.to \in SMStates /\ q \in QueuedActions
  BY Zenon, <1>1, <1>2 DEF Rows, TaskRecords, QueuedActions
<1>5. v = [w EXCEPT !.task[t].sm = r.to, !.task[t].queued = q, !.task[t].row = row]
  <2> HIDE DEF r
  <2> QED
    BY Zenon, <1>1 DEF Worlds, TaskRecords
<1>6. x.child = "alive" => r.to \in {"running", "exiting"} /\ row.pid # 0
  <2>1. Context(x, "stopped") \in SMContexts
    BY Zenon, <1>1 DEF Context, SMContexts, TaskRecords
  <2>2. x.child = "alive" => x.sm \in {"running", "exiting"} /\ x.row.pid # 0
    BY Zenon DEF Sound, Living, InMemory
  <2>3. x.child = "alive" => r.to \in {"running", "exiting"}
    BY Zenon, <2>1, <2>2, AliveRow DEF StopRow
  <2> HIDE DEF r
  <2> QED
    BY Zenon, <2>2, <2>3
<1>7. /\ v \in Worlds /\ v.disk = w.disk /\ v.ch = w.ch /\ v.task[t].row = row
      /\ v.task[t].rec = x.rec /\ \A y \in Tasks \ {t} : v.task[y] = w.task[y]
      /\ v.task[t].armed = x.armed /\ v.task[t].child = x.child /\ v.task[t].sm = r.to
  <2> HIDE DEF r, q, row, v
  <2> QED
    BY Zenon, <1>1, <1>3, <1>4, <1>5 DEF Worlds, TaskRecords
<1>8. ApplyStop(w, t, outcome).w \in {v, u, Terminate(u, t, outcome).w}
  <2>1. ApplyStop(w, t, outcome) = IF saves /\ outcome = "unsaved" THEN [w |-> v, err |-> TRUE]
                                   ELSE IF r.to = "exiting" THEN Terminate(u, t, outcome)
                                   ELSE [w |-> u, err |-> FALSE]
    BY DEF ApplyStop
  <2> HIDE DEF v, u, r, saves
  <2> QED
    BY <2>1
<1> HIDE DEF r, q, row, v, saves
<1>9. Good(v) /\ Sound(v)
  <2>1. /\ v.task[t].row.gen = w.task[t].row.gen /\ v.task[t].rec = w.task[t].rec
        /\ v.task[t].armed = w.task[t].armed
        /\ v.task[t].child = "alive" => /\ w.task[t].child = "alive" /\ v.task[t].row.pid # 0
                                     /\ v.task[t].sm \in {"running", "exiting"}
    BY Zenon, <1>3, <1>6, <1>7
  <2> QED
    BY Zenon, <1>7, <2>1, QuietDaemon
<1>10. Good(u) /\ Sound(u)
  <2>1. Good(PersistTo(v)) /\ Sound(PersistTo(v))
    BY Zenon, <1>9, PersistGood, SaveSound
  <2> QED
    BY Zenon, <1>9, <2>1
<1> HIDE DEF u
<1> DEFINE y == Terminate(u, t, outcome).w
<1>11. Good(y) /\ Sound(y)
  BY ZenonT(40), <1>10, TerminateGood, TerminateSound
<1> HIDE DEF y
<1> QED
  BY Zenon, <1>8, <1>9, <1>10, <1>11 DEF y

\* A receipt is replaced by one that does not put the exit of a child that is
\* alive on record.
LEMMA PutSound ==
  ASSUME NEW w \in Worlds, NEW t \in Tasks, NEW r \in Receipts, Sound(w), NEW v \in Worlds, v = Put(w, t, r),
         w.task[t].child = "alive" =>
           EffectivePhase(r) \in {EffectivePhase(w.disk.rec[t]), "none", "stop_requested"}
  PROVE  Sound(v)
<1> DEFINE x == [w EXCEPT !.task[t].rec = r]
<1>1. /\ w.task \in [Tasks -> TaskRecords] /\ w.task[t] \in TaskRecords
      /\ w.disk \in StateFiles
  BY Zenon DEF Worlds
<1>2. /\ x \in Worlds /\ x.disk = w.disk /\ x.ch = w.ch
      /\ x.task[t].row = w.task[t].row /\ x.task[t].armed = w.task[t].armed
      /\ x.task[t].child = w.task[t].child /\ x.task[t].sm = w.task[t].sm
      /\ \A u \in Tasks \ {t} : x.task[u] = w.task[u]
  BY Zenon, <1>1 DEF Worlds, TaskRecords
<1>3. v = [x EXCEPT !.disk.rec[t] = r]
  BY Zenon DEF Put
<1> HIDE DEF x
<1>4. /\ v.task = x.task /\ v.ch = w.ch /\ v.disk.row = w.disk.row
      /\ v.disk.rec[t] = r /\ \A u \in Tasks \ {t} : v.disk.rec[u] = w.disk.rec[u]
  BY <1>1, <1>2, <1>3 DEF Worlds, StateFiles
<1>5. w.task[t].child = "alive" => w.task[t].sm \in {"running", "exiting"} /\ w.task[t].row.pid # 0
  BY DEF Sound, Living, InMemory
<1>6. /\ v.task[t].row.gen = w.task[t].row.gen
      /\ v.task[t].armed = "queued" <=> w.task[t].armed = "queued"
      /\ \A u \in Tasks \ {t} : v.task[u] = w.task[u]
      /\ v.task[t].child = "alive" =>
           EffectivePhase(v.disk.rec[t]) \in {EffectivePhase(w.disk.rec[t]), "none", "stop_requested"}
      /\ v.task[t].child = "alive" => /\ w.task[t].child = "alive" /\ v.task[t].row.pid # 0
                                      /\ v.task[t].sm \in {"running", "exiting"}
  BY ZenonT(40), <1>2, <1>4, <1>5
<1> QED
  BY SMTT(30), <1>4, <1>6, DaemonSound

\* AdvanceStopSettlement,
LEMMA AdvanceSound ==
  ASSUME NEW w \in Worlds, NEW t \in Tasks, NEW r \in Receipts, Fenced(w), Sound(w),
         NEW phase \in Phases \cup {"failed"}, NEW ok \in BOOLEAN,
         NEW v, v = Advance(w, t, r, phase, ok),
         phase = "exit_observed" /\ r.phase # "failed" => w.task[t].child # "alive"
  PROVE  Sound(v)
<1>1. v \in Worlds
  BY AdvanceGood DEF Replaced
<1>2. CASE v = w
  BY Zenon, <1>2
<1>3. CASE v = Put(w, t, NextReceipt(r, phase)) /\ Legal(r, phase) /\ w.disk.rec[t] = r
  <2> DEFINE n == NextReceipt(r, phase)
  <2>1. /\ n \in Receipts
        /\ phase = "failed" \/ r.phase = "failed" => Abs(n) = Abs(r)
        /\ phase # "failed" => EffectivePhase(n) = phase
    BY Zenon, <1>3, ReceiptMoves
  <2>2. w.task[t].child = "alive" => EffectivePhase(r) \in {"none", "stop_requested"}
    BY Zenon, <1>3 DEF Sound, Unexited
  <2> HIDE DEF n
  <2>3. w.task[t].child = "alive" => EffectivePhase(n) \in {EffectivePhase(r), "none", "stop_requested"}
    <3>1. CASE phase = "failed" \/ r.phase = "failed"
      BY Zenon, <2>1, <3>1 DEF Abs
    <3>2. CASE phase \in {"stop_requested", "exit_observed"} /\ r.phase # "failed"
      BY Zenon, <2>1, <3>2
    <3>3. CASE phase = "port_released" /\ r.phase # "failed"
      BY ZenonT(40), <1>3, <2>2, <3>3 DEF Legal, EffectivePhase
    <3> QED
      BY Zenon, <3>1, <3>2, <3>3 DEF Phases
  <2> QED
    BY Zenon, <1>1, <1>3, <2>1, <2>3, PutSound DEF n
<1> QED
  BY Zenon, <1>2, <1>3 DEF Advance, Accepts, SameRevision

\* armStopSettlementRecovery
LEMMA ArmSound ==
  ASSUME NEW w \in Worlds, NEW t \in Tasks, Fenced(w), Sound(w), NEW v, v = Arm(w, t)
  PROVE  Sound(v)
<1> DEFINE a == IF w.task[t].armed = "no" THEN "timer" ELSE w.task[t].armed
<1>1. w.task[t] \in TaskRecords /\ w.task \in [Tasks -> TaskRecords]
  BY ZenonT(40) DEF Worlds
<1>2. a \in {"no", "timer", "queued"} /\ (a = "queued" <=> w.task[t].armed = "queued")
  BY Zenon, <1>1 DEF TaskRecords
<1>3. v = [w EXCEPT !.task[t].armed = a]
  BY Zenon DEF Arm
<1> HIDE DEF a
<1>4. /\ v \in Worlds /\ v.disk = w.disk /\ v.ch = w.ch
      /\ v.task[t].row = w.task[t].row /\ \A u \in Tasks \ {t} : v.task[u] = w.task[u]
  BY <1>2, <1>3, ArmedUpdate
<1>5. v.task[t].armed = a /\ v.task[t].child = w.task[t].child /\ v.task[t].sm = w.task[t].sm
  BY SMTT(40), <1>1, <1>3 DEF Worlds, TaskRecords
<1>6. w.task[t].child = "alive" => w.task[t].sm \in {"running", "exiting"} /\ w.task[t].row.pid # 0
  BY Zenon DEF Sound, Living, InMemory
<1> QED
  BY <1>2, <1>4, <1>5, <1>6, DaemonSound

\* and both, when a stop could not be applied.
LEMMA StopFailedSound ==
  ASSUME NEW w, NEW t \in Tasks, NEW ok \in BOOLEAN, Good(w), Sound(w)
  PROVE  Sound(StopFailed(w, t, ok))
<1> DEFINE r == w.task[t].rec
           x == IF r # NoReceipt /\ r.phase # "failed" THEN Advance(w, t, r, "failed", ok) ELSE w
           v == Arm(x, t)
<1>1. w \in Worlds /\ r \in Receipts /\ Fenced(w)
  BY Zenon DEF Good, Worlds, TaskRecords
<1>2. v = StopFailed(w, t, ok)
  BY Zenon DEF StopFailed
<1>3. x \in Worlds /\ Fenced(x) /\ Sound(x)
  <2> DEFINE y == Advance(w, t, r, "failed", ok)
  <2> HIDE DEF r
  <2>1. y \in Worlds /\ Fenced(y) /\ Sound(y)
    BY ZenonT(40), <1>1, AdvanceGood, AdvanceSound DEF Replaced
  <2> HIDE DEF y
  <2> QED
    BY ZenonT(40), <1>1, <2>1 DEF y
<1> HIDE DEF x
<1>4. v \in Worlds /\ Sound(v)
  BY <1>3, ArmGood, ArmSound DEF Replaced
<1> HIDE DEF v
<1> QED
  BY Zenon, <1>2, <1>4

---------------------------------------------------------------------------
(* The event loop keeps the world sound *)

\* The first event is taken off the queue, and is no recovery.
LEMMA TailSound ==
  ASSUME NEW w \in Worlds, NEW v \in Worlds, Sound(w), v.task = w.task, v.disk = w.disk,
         w.ch # <<>>, v.ch = Tail(w.ch), Head(w.ch).kind # "recover"
  PROVE  Sound(v)
<1>1. w.ch \in Seq(Events)
  BY DEF Worlds
<1>2. Queued(v.ch) \subseteq Queued(w.ch)
  BY Zenon, <1>1, QueuedEvents
<1>3. Ages(w, v) /\ ExitsOf(w, v)
  BY Zenon, <1>2 DEF Ages, ExitsOf, Sound, Living, InMemory, OnDisk
<1>4. ASSUME NEW u \in Tasks
      PROVE  /\ Recover(u) \in Queued(v.ch) <=> Recover(u) \in Queued(w.ch)
             /\ Once(w.ch, Recover(u)) => Once(v.ch, Recover(u))
  <2>1. Recover(u) \in Events /\ Recover(u).kind = "recover"
    BY Zenon, RecoverIs
  <2>2. Once(w.ch, Recover(u))
    BY Zenon DEF Sound, Tokens
  <2>3. Head(w.ch) # Recover(u)
    BY Zenon, <2>1
  <2>4. /\ Once(Tail(w.ch), Recover(u))
        /\ Recover(u) \in Queued(Tail(w.ch)) <=> Recover(u) \in Queued(w.ch)
    BY Zenon, <1>1, <2>1, <2>2, <2>3, QueuedOnce
  <2> QED
    BY Zenon, <2>4
<1> QED
  BY <1>3, <1>4, AgesSound

\* So it is with every event but a recovery.
LEMMA RestSound ==
  ASSUME Inv, Sound(World), NEW kind, Pending(kind), kind # "recover"
  PROVE  Sound(Rest)
<1>1. /\ Good(World) /\ Good(Rest) /\ Rest.task = task /\ Rest.disk = disk /\ Rest.ch = Tail(ch)
      /\ Head(ch).kind = kind
  BY Zenon, RestGood
<1>2. World.task = task /\ World.disk = disk /\ World.ch = ch /\ ch # <<>>
  BY Zenon, WorldGood DEF Pending
<1> QED
  BY Zenon, <1>1, <1>2, TailSound DEF Good

\* What a handler leaves is the next world.
LEMMA Follows ==
  ASSUME NEW v \in Worlds, Become(v)
  PROVE  World' = v
BY Zenon DEF Become, World, Worlds

\* An exit is recorded only when the child that it is of is gone.
LEMMA RecordedSound ==
  ASSUME NEW w, NEW t \in Tasks, NEW gen \in Nat, NEW ok \in BOOLEAN, Good(w), Sound(w),
         gen = w.task[t].row.gen => w.task[t].child # "alive",
         NEW v, v = Recorded(w, t, gen, ok)
  PROVE  Sound(v) /\ v.task[t].child = w.task[t].child
<1> DEFINE r == w.task[t].rec
<1>1. /\ w \in Worlds /\ Fenced(w) /\ r \in Receipts /\ "exit_observed" \in Phases \cup {"failed"}
      /\ w.task \in [Tasks -> TaskRecords]
  BY Zenon DEF Good, Worlds, TaskRecords, Phases
<1>2. \/ v = w
      \/ /\ v = Advance(w, t, r, "exit_observed", ok) /\ r.gen = gen
         /\ v = Put(w, t, NextReceipt(r, "exit_observed")) /\ w.disk.rec[t] = r /\ r.phase = "stop_requested"
  BY Zenon DEF Recorded, Advance, Accepts, SameRevision
<1>3. CASE v # w
  <2>1. r # NoReceipt
    BY <1>2, <1>3 DEF NoReceipt
  <2>2. gen = w.task[t].row.gen
    BY Zenon, <1>1, <1>2, <1>3, <2>1 DEF Fenced
  <2>3. Sound(v)
    <3> HIDE DEF r
    <3> QED
      BY Zenon, <1>1, <1>2, <1>3, <2>2, AdvanceSound
  <2>4. v.task[t].child = w.task[t].child
    <3> DEFINE n == NextReceipt(r, "exit_observed")
    <3>1. v = [w EXCEPT !.task[t].rec = n, !.disk.rec[t] = n]
      BY Zenon, <1>2, <1>3 DEF Put
    <3> HIDE DEF n
    <3> QED
      BY <1>1, <3>1 DEF Worlds, TaskRecords
  <2> QED
    BY ZenonT(40), <2>3, <2>4
<1> QED
  BY Zenon, <1>3

\* HandleExit: the exit of an older child finds no child to be taken for dead.
LEMMA ExitSound ==
  ASSUME Inv, Sound(World), NEW clean \in BOOLEAN, NEW ok \in BOOLEAN, HandleExit(clean, ok)
  PROVE  Sound(World')
<1> DEFINE t == Head(ch).task
           gen == Head(ch).gen
           x == task[t]
           r == IF clean /\ x.sm = "running" THEN GoTo("idle")
                ELSE Transition(x.sm, "child-exit", Context(x, Desired(cache, t)))
           w == Recorded(Rest, t, gen, ok)
           v == IF IsStale(x.row, gen) \/ ~r.matched THEN w ELSE Take(w, t, r, "ok")
<1>1. /\ Good(Rest) /\ Rest.task = task /\ Head(ch) \in Events /\ Head(ch).kind = "exit" /\ Sound(Rest)
  BY Zenon, RestGood, RestSound DEF HandleExit
<1>2. t \in Tasks /\ gen \in Nat
  BY Zenon, <1>1, EventFields
<1>3. x \in TaskRecords /\ x.row.gen \in Nat
  BY Zenon, <1>1, <1>2 DEF Good, Worlds, TaskRecords, TrackerRows
<1>4. r \in Rows
  <2>1. GoTo("idle") \in Rows
    BY Zenon DEF GoTo, Rows, SMStates, QueuedActions
  <2>2. Desired(cache, t) \in {"running", "stopped"} /\ "child-exit" \in SMEvents
    BY Zenon DEF Desired, SMEvents
  <2>3. Transition(x.sm, "child-exit", Context(x, Desired(cache, t))) \in Rows
    BY Zenon, <1>3, <2>2, RowsOfTable
  <2> QED
    BY Zenon, <2>1, <2>3
<1>5. Become(v)
  BY Zenon DEF HandleExit, Become
<1>6. gen <= x.row.gen /\ (gen = x.row.gen => x.child # "alive")
  <2>1. Head(ch) \in Queued(ch) /\ World.task = task /\ World.ch = ch
    BY Zenon, WorldGood, QueuedEvents DEF HandleExit, Pending
  <2> QED
    BY Zenon, <1>1, <1>2, <2>1 DEF Sound, Living, InMemory
<1> HIDE DEF t, gen, x, r
<1>7. Good(w) /\ Sound(w) /\ w.task[t].child = x.child
  <2>1. Rest.task[t] = x /\ (gen = Rest.task[t].row.gen => Rest.task[t].child # "alive")
    BY Zenon, <1>1, <1>6 DEF x
  <2>2. w = Recorded(Rest, t, gen, ok)
    BY Zenon
  <2> HIDE DEF w
  <2>3. Good(w)
    BY Zenon, <1>1, <1>2, <2>2, RecordedGood
  <2>4. Sound(w) /\ w.task[t].child = Rest.task[t].child
    BY <1>1, <1>2, <2>1, <2>2, RecordedSound
  <2> QED
    BY Zenon, <2>1, <2>3, <2>4
<1> HIDE DEF w
<1>8. Good(Take(w, t, r, "ok"))
  BY Zenon, <1>2, <1>4, <1>7, TakeGood
<1>9. CASE IsStale(x.row, gen) \/ ~r.matched
  <2>1. v = w /\ w \in Worlds
    BY Zenon, <1>7, <1>9 DEF Good
  <2> QED
    BY Zenon, <1>5, <1>7, <2>1, Follows
<1>10. CASE ~(IsStale(x.row, gen) \/ ~r.matched)
  <2>1. v = Take(w, t, r, "ok") /\ Take(w, t, r, "ok") \in Worlds
    BY Zenon, <1>8, <1>10 DEF Good
  <2>2. w.task[t].child # "alive"
    BY <1>2, <1>3, <1>6, <1>7, <1>10 DEF IsStale
  <2>3. Sound(Take(w, t, r, "ok"))
    BY Zenon, <1>2, <1>4, <1>7, <2>2, TakeSound
  <2> QED
    BY Zenon, <1>5, <2>1, <2>3, Follows
<1> QED
  BY Zenon, <1>9, <1>10

\* A step that only takes an event off the queue, and no recovery.
LEMMA TailStep ==
  ASSUME Inv, Sound(World), NEW kind, Pending(kind), kind # "recover",
         UNCHANGED <<task, disk>>, ch' = Tail(ch)
  PROVE  Sound(World')
<1>1. Good(Rest) /\ Rest.task = task /\ Rest.disk = disk /\ Rest.ch = Tail(ch) /\ Sound(Rest)
  BY Zenon, RestGood, RestSound
<1>2. Become(Rest) /\ Rest \in Worlds
  BY Zenon, <1>1 DEF Become, Good
<1> QED
  BY Zenon, <1>1, <1>2, Follows

\* HandleIntent
LEMMA IntentSound ==
  ASSUME Inv, Sound(World), NEW outcome \in Endings, HandleIntent(outcome)
  PROVE  Sound(World')
<1> DEFINE t == Head(ch).task
           x == task[t]
           c == Context(x, Desired(cache, t))
           r == Transition(x.sm, "intent-update", c)
           v == IF r.matched THEN Take(Rest, t, r, outcome) ELSE Rest
<1>1. Good(Rest) /\ Rest.task = task /\ Head(ch) \in Events /\ Head(ch).kind = "intent" /\ Sound(Rest)
  BY Zenon, RestGood, RestSound DEF HandleIntent
<1>2. t \in Tasks
  BY Zenon, <1>1, EventFields
<1>3. x \in TaskRecords
  BY Zenon, <1>1, <1>2 DEF Good, Worlds
<1>4. Desired(cache, t) \in {"running", "stopped"} /\ "intent-update" \in SMEvents
  BY Zenon DEF Desired, SMEvents
<1>5. r \in Rows
  BY Zenon, <1>3, <1>4, RowsOfTable
<1>6. Become(v)
  BY Zenon DEF HandleIntent
<1>7. x.child = "alive" => r.to \in {"running", "exiting"} /\ ~r.create
  <2>1. c \in SMContexts
    BY Zenon, <1>3, <1>4 DEF Context, SMContexts, TaskRecords
  <2>2. x.child = "alive" => x.sm \in {"running", "exiting"}
    BY Zenon, <1>1, <1>2 DEF Sound, Living, InMemory
  <2> HIDE DEF c
  <2> QED
    BY Zenon, <2>1, <2>2, AliveRow
<1> HIDE DEF t, r, x
<1>8. Good(Take(Rest, t, r, outcome)) /\ Sound(Take(Rest, t, r, outcome))
  <2>1. Rest.task[t] = x
    BY Zenon, <1>1 DEF x
  <2> QED
    BY Zenon, <1>1, <1>2, <1>5, <1>7, <2>1, TakeGood, TakeSound
<1>9. v \in Worlds /\ Sound(v)
  BY Zenon, <1>1, <1>8 DEF Good
<1> QED
  BY Zenon, <1>6, <1>9, Follows

\* A timer is due of a daemon whose child is gone.
LEMMA TimerSound ==
  ASSUME Inv, Sound(World), NEW t \in Tasks, TimerDue(t)
  PROVE  Sound(World')
<1> DEFINE r == Transition("backoff", "timer-due", Context(task[t], Desired(cache, t)))
           v == Take(World, t, r, "ok")
<1>1. /\ Good(World) /\ task[t] \in TaskRecords /\ task[t].sm = "backoff" /\ World.task = task
  BY Zenon, WorldGood DEF TimerDue
<1>2. r \in Rows
  <2>1. Desired(cache, t) \in {"running", "stopped"} /\ "timer-due" \in SMEvents
    BY Zenon DEF Desired, SMEvents
  <2>2. Transition(task[t].sm, "timer-due", Context(task[t], Desired(cache, t))) \in Rows
    BY Zenon, <1>1, <2>1, RowsOfTable
  <2> QED
    BY Zenon, <1>1, <2>2
<1>3. Become(v)
  BY Zenon DEF TimerDue
<1> HIDE DEF r
<1>4. World.task[t].child # "alive"
  BY Zenon, <1>1 DEF Sound, Living, InMemory
<1>5. Good(v) /\ Sound(v)
  BY Zenon, <1>1, <1>2, <1>4, TakeGood, TakeSound
<1> QED
  BY Zenon, <1>3, <1>5, Follows DEF Good

\* A barrier is posted with the reply.
LEMMA BarrierPosted ==
  ASSUME NEW w, NEW s \in Slots, Good(w), Sound(w), NEW v, v = [w EXCEPT !.ch = Append(@, Barrier(s))]
  PROVE  Sound(v) /\ v \in Worlds
<1> DEFINE e == Barrier(s)
           q == Append(w.ch, e)
<1>1. w \in Worlds /\ w.ch \in Seq(Events) /\ e \in Events /\ e.kind = "barrier"
  BY Zenon DEF Good, Worlds, Barrier, Events
<1>2. q \in Seq(Events)
  BY <1>1
<1> DEFINE y == [w EXCEPT !.ch = q]
<1>3. v = y
  BY Zenon
<1> HIDE DEF e
<1>4. Good(v) /\ v.task = w.task /\ v.disk = w.disk /\ v.ch = q
  <2> HIDE DEF q
  <2>1. Good(y) /\ y.task = w.task /\ y.disk = w.disk /\ y.ch = q
    BY <1>2, QueueGood
  <2> HIDE DEF y
  <2> QED
    BY Zenon, <1>3, <2>1
<1>5. v \in Worlds
  BY Zenon, <1>4 DEF Good
<1> QED
  BY Zenon, <1>1, <1>4, <1>5, PostSound

LEMMA StartSound ==
  ASSUME NEW w, NEW s \in Slots, Good(w), Sound(w), StartSettling(w, s)
  PROVE  Sound(World')
<1> DEFINE y == [w EXCEPT !.ch = Append(@, Barrier(s))]
           v == [w EXCEPT !.ch = IF settler[s].pc = "reply" THEN Append(@, Barrier(s)) ELSE @]
<1>1. Become(v)
  BY Zenon DEF StartSettling
<1>2. w \in Worlds
  BY Zenon DEF Good
<1>3. v = w \/ v = y
  BY Zenon, <1>2 DEF Worlds
<1>4. Sound(y) /\ y \in Worlds
  BY Zenon, BarrierPosted
<1> HIDE DEF v, y
<1>5. Sound(v) /\ v \in Worlds
  BY Zenon, <1>2, <1>3, <1>4
<1> QED
  BY Zenon, <1>1, <1>5, Follows

\* JoinBatch
LEMMA JoinSound ==
  ASSUME Inv, Sound(World), JoinBatch
  PROVE  Sound(World')
<1>1. Good(Rest) /\ Sound(Rest) /\ Head(ch) \in Events /\ Head(ch).kind = "batch"
  BY Zenon, RestGood, RestSound DEF JoinBatch
<1>2. Head(ch).slot \in Slots
  BY Zenon, <1>1, EventFields
<1> QED
  BY Zenon, <1>1, <1>2, StartSound DEF JoinBatch

\* ReplyBatch
LEMMA ReplySound ==
  ASSUME Inv, Sound(World), ReplyBatch
  PROVE  Sound(World')
<1>1. Good(World) /\ loop.slot \in Slots
  BY Zenon, WorldGood DEF ReplyBatch, Inv, Around
<1> QED
  BY Zenon, <1>1, StartSound DEF ReplyBatch

\* The daemons and their rows stay, and the exit of no child that is alive is
\* put on record.
LEMMA ReceiptsSound ==
  ASSUME NEW w \in Worlds, NEW v \in Worlds, Sound(w), v.ch = w.ch, v.disk.row = w.disk.row,
         \A u \in Tasks : /\ v.task[u].row = w.task[u].row /\ v.task[u].sm = w.task[u].sm
                          /\ v.task[u].child = w.task[u].child /\ v.task[u].armed = w.task[u].armed
                          /\ v.task[u].child = "alive" => EffectivePhase(v.disk.rec[u]) \in
                               {EffectivePhase(w.disk.rec[u]), "none", "stop_requested"}
  PROVE  Sound(v)
<1>1. Ages(w, v) /\ ExitsOf(w, v)
  BY DEF Ages, ExitsOf, Sound, Living, InMemory, OnDisk
<1> QED
  BY ZenonT(40), <1>1, AgesSound

\* BeginBatch: a stop that begins with the exit on record is of a daemon that has
\* no child.
LEMMA BeginSound ==
  ASSUME Inv, Sound(World), NEW ok \in BOOLEAN, BeginBatch(ok)
  PROVE  Sound(World')
<1> DEFINE b == Head(ch)
           S == Range(b.targets)
           recs == [t \in Tasks |-> IF t \in S THEN NewReceipt(task[t].row, disk.epoch + 1) ELSE NoReceipt]
           d == [t \in Tasks |-> IF t \in S THEN recs[t] ELSE disk.rec[t]]
<1>1. /\ Good(World) /\ Good(Rest) /\ Sound(Rest) /\ Rest.task = task /\ Rest.disk = disk /\ Rest.ch = Tail(ch)
      /\ disk \in StateFiles
  BY Zenon, RestGood, RestSound, WorldGood DEF BeginBatch
<1>2. ch' = Tail(ch) /\ task' = task
  BY Zenon DEF BeginBatch
<1>3. \/ disk' = disk
      \/ disk' = [disk EXCEPT !.rec = d, !.epoch = @ + 1]
  BY Zenon DEF BeginBatch
<1>4. \A t \in Tasks : d[t] = disk.rec[t] \/ d[t] = NewReceipt(task[t].row, disk.epoch + 1)
  BY Zenon
<1> HIDE DEF d, recs, S
<1>5. disk'.row = disk.row /\ \A t \in Tasks : disk'.rec[t] = disk.rec[t] \/ disk'.rec[t] = d[t]
  BY Zenon, <1>1, <1>3 DEF StateFiles
<1>6. World' \in Worlds
  BY Zenon, BeginStep DEF Inv, Core
<1>7. World'.task = task /\ World'.disk = disk' /\ World'.ch = Tail(ch)
  BY Zenon, <1>2 DEF World
<1>8. ASSUME NEW u \in Tasks, task[u].child = "alive"
      PROVE  EffectivePhase(disk'.rec[u]) \in {EffectivePhase(disk.rec[u]), "none", "stop_requested"}
  <2>1. task[u].row.pid # 0
    BY Zenon, <1>1, <1>8 DEF Sound, Living, InMemory
  <2>2. EffectivePhase(NewReceipt(task[u].row, disk.epoch + 1)) = "stop_requested"
    BY Zenon, <2>1 DEF EffectivePhase, NewReceipt
  <2> QED
    BY Zenon, <1>4, <1>5, <2>2
<1> DEFINE v == World'
<1>9. /\ v.ch = Rest.ch /\ v.disk.row = Rest.disk.row /\ v \in Worlds /\ Rest \in Worlds
      /\ v.task = Rest.task /\ v.disk = disk'
  BY ZenonT(40), <1>1, <1>5, <1>6, <1>7 DEF Good
<1> HIDE DEF v
<1>10. Sound(v)
  BY ZenonT(40), <1>1, <1>8, <1>9, ReceiptsSound
<1> QED
  BY Zenon, <1>10 DEF v

\* InstallMirror
LEMMA InstallSound ==
  ASSUME Inv, Sound(World), InstallMirror
  PROVE  Sound(World')
<1>1. World \in Worlds /\ World.task = task /\ World.disk = disk /\ World.ch = ch /\ task \in [Tasks -> TaskRecords]
  BY WorldGood
<1>2. disk' = disk /\ ch' = ch
  BY DEF InstallMirror
<1>3. World' \in Worlds
  BY Zenon, InstallStep DEF Inv, Core
<1>4. World'.task = task' /\ World'.disk = disk /\ World'.ch = ch
  BY <1>2 DEF World
<1>5. \A u \in Tasks : /\ task'[u].row = task[u].row /\ task'[u].sm = task[u].sm
                       /\ task'[u].child = task[u].child /\ task'[u].armed = task[u].armed
  <2> DEFINE S == Range(loop.todo)
  <2>1. \/ task' = task
        \/ task' = [t \in Tasks |-> IF t \in S THEN [task[t] EXCEPT !.rec = loop.recs[t]] ELSE task[t]]
    BY DEF InstallMirror
  <2> HIDE DEF S
  <2> QED
    BY <1>1, <2>1 DEF TaskRecords
<1> QED
  BY <1>1, <1>3, <1>4, <1>5, ReceiptsSound

\* ApplyTarget
LEMMA ApplySound ==
  ASSUME Inv, Sound(World), NEW outcome \in Outcomes, NEW ok \in BOOLEAN, ApplyTarget(outcome, ok)
  PROVE  Sound(World')
<1> DEFINE t == Head(loop.todo)
           done == ApplyStop(World, t, outcome)
           v == IF done.err THEN StopFailed(done.w, t, ok) ELSE done.w
<1>1. Good(World) /\ loop.todo \in Seq(Tasks) /\ loop.todo # <<>>
  BY Zenon, WorldGood DEF ApplyTarget, Inv, Around, Loops
<1>2. t \in Tasks
  BY <1>1
<1>3. Become(v)
  BY Zenon DEF ApplyTarget, Become
<1> HIDE DEF t
<1>4. /\ Good(done.w) /\ Good(StopFailed(done.w, t, ok)) /\ Sound(done.w)
  <2> HIDE DEF done
  <2> QED
    BY Zenon, <1>1, <1>2, AppliedGood, ApplyStopSound DEF done
<1> HIDE DEF done
<1>5. Sound(StopFailed(done.w, t, ok))
  BY Zenon, <1>2, <1>4, StopFailedSound
<1>6. Sound(v) /\ v \in Worlds
  BY Zenon, <1>4, <1>5 DEF Good
<1> HIDE DEF v
<1> QED
  BY Zenon, <1>3, <1>6, Follows

\* The recovery that is taken off the queue is the one of the token given back.
LEMMA DisarmSound ==
  ASSUME Inv, Sound(World), Pending("recover"), NEW t, t = Head(ch).task
  PROVE  Sound(Disarm(t))
<1> DEFINE v == Disarm(t)
<1>1. /\ Good(World) /\ Good(Rest) /\ Head(ch) \in Events /\ Head(ch).kind = "recover"
      /\ Rest.task = task /\ Rest.disk = disk /\ Rest.ch = Tail(ch)
  BY Zenon, RestGood
<1>2. t \in Tasks /\ Good(v)
  BY Zenon, DisarmGood
<1>3. /\ World.task = task /\ World.disk = disk /\ World.ch = ch /\ ch # <<>> /\ ch \in Seq(Events)
      /\ task \in [Tasks -> TaskRecords]
  BY Zenon, WorldGood DEF Pending
<1>4. v = [Rest EXCEPT !.task[t].armed = "no"]
  BY Zenon DEF Disarm
<1> HIDE DEF v
<1>5. /\ v.disk = disk /\ v.ch = Tail(ch) /\ v.task[t] = [task[t] EXCEPT !.armed = "no"]
      /\ \A u \in Tasks \ {t} : v.task[u] = task[u]
  BY Zenon, <1>1, <1>2, <1>3, <1>4 DEF Good, Worlds
<1>6. \A u \in Tasks : /\ v.task[u].row = task[u].row /\ v.task[u].sm = task[u].sm
                       /\ v.task[u].child = task[u].child
                       /\ v.task[u].armed = IF u = t THEN "no" ELSE task[u].armed
  BY <1>3, <1>5 DEF TaskRecords
<1>7. Queued(Tail(ch)) \subseteq Queued(ch)
  BY Zenon, <1>3, QueuedEvents
<1>8. Living(v)
  <2>1. Ages(World, v) /\ ExitsOf(World, v)
    BY SMTT(40), <1>3, <1>5, <1>6, <1>7 DEF Ages, ExitsOf, Sound, Living, InMemory, OnDisk
  <2>2. Living(World) /\ v \in Worlds
    BY Zenon, <1>2 DEF Good, Sound
  <2> QED
    BY Zenon, <2>1, <2>2, AgesLiving
<1>9. Unexited(v)
  BY <1>3, <1>5, <1>6 DEF Sound, Unexited
<1>10. Tokens(v)
  <2> SUFFICES ASSUME NEW u \in Tasks
               PROVE  /\ v.task[u].armed = "queued" <=> Recover(u) \in Queued(v.ch)
                      /\ Once(v.ch, Recover(u))
    BY Zenon DEF Tokens
  <2>1. Recover(u) \in Events /\ (Head(ch) = Recover(u) <=> u = t)
    BY Zenon, <1>1, RecoverIs
  <2>2. Once(ch, Recover(u)) /\ (task[u].armed = "queued" <=> Recover(u) \in Queued(ch))
    BY Zenon, <1>3 DEF Sound, Tokens
  <2>3. /\ Once(Tail(ch), Recover(u))
        /\ Head(ch) # Recover(u) => (Recover(u) \in Queued(Tail(ch)) <=> Recover(u) \in Queued(ch))
        /\ Head(ch) = Recover(u) => Recover(u) \notin Queued(Tail(ch))
    BY Zenon, <1>3, <2>1, <2>2, QueuedOnce
  <2> QED
    BY Zenon, <1>5, <1>6, <2>1, <2>2, <2>3
<1> QED
  BY Zenon, <1>8, <1>9, <1>10 DEF Sound, v

\* SkipRecovery
LEMMA SkipSound ==
  ASSUME Inv, Sound(World), SkipRecovery
  PROVE  Sound(World')
<1> DEFINE v == Disarm(Head(ch).task)
<1>1. Good(v) /\ Sound(v)
  BY Zenon, DisarmGood, DisarmSound DEF SkipRecovery
<1>2. Become(v)
  BY Zenon DEF SkipRecovery
<1> HIDE DEF v
<1> QED
  BY Zenon, <1>1, <1>2, Follows DEF Good

\* A receipt resumes where it failed, and its exit was on record there.
LEMMA ResumedSound ==
  ASSUME Inv, Sound(World), Pending("recover"), NEW t, t = Head(ch).task, NEW ok \in BOOLEAN
  PROVE  Sound(Resumed(t, ok))
<1> DEFINE r == task[t].rec
           x == Disarm(t)
           v == Advance(x, t, r, r.resume, ok)
<1>1. t \in Tasks /\ Good(x) /\ Sound(x)
  BY Zenon, DisarmGood, DisarmSound
<1>2. r \in Receipts
  BY Zenon, <1>1, WorldGood DEF TaskRecords
<1>3. CASE r.phase = "failed"
  <2>1. r.resume \in Phases \cup {"failed"}
    BY <1>2, <1>3 DEF Receipts, NoReceipt
  <2> HIDE DEF x, r
  <2>2. Sound(v)
    BY Zenon, <1>1, <1>2, <1>3, <2>1, AdvanceSound DEF Good
  <2>3. Resumed(t, ok) = v
    BY Zenon, <1>3 DEF Resumed, x, r
  <2> QED
    BY ZenonT(40), <2>2, <2>3
<1>4. CASE r.phase # "failed"
  <2>1. Resumed(t, ok) = x
    BY Zenon, <1>4 DEF Resumed
  <2> QED
    BY Zenon, <1>1, <2>1
<1> QED
  BY Zenon, <1>3, <1>4

\* HandleRecovery
LEMMA RecoverySound ==
  ASSUME Inv, Sound(World), NEW outcome \in Outcomes, NEW ok \in BOOLEAN, HandleRecovery(outcome, ok)
  PROVE  Sound(World')
<1> DEFINE t == Head(ch).task
           w == Resumed(t, ok)
           again == w.task[t].rec.phase = "stop_requested"
           done == IF again THEN ApplyStop(w, t, outcome) ELSE [w |-> w, err |-> FALSE]
           y == [done.w EXCEPT !.ch = Append(@, Barrier(t))]
           v == IF w.task[t].rec.phase = "failed" THEN Arm(w, t)
                ELSE IF done.err THEN StopFailed(done.w, t, ok)
                ELSE y
<1>1. t \in Tasks /\ Good(w) /\ Sound(w)
  BY ZenonT(40), DisarmGood, ResumedGood, ResumedSound DEF HandleRecovery
<1>2. Become(v)
  BY ZenonT(40) DEF HandleRecovery, Become
<1> HIDE DEF t, w, again
<1>3. Good(done.w) /\ Sound(done.w)
  <2>1. Good(ApplyStop(w, t, outcome).w) /\ Sound(ApplyStop(w, t, outcome).w)
    BY Zenon, <1>1, AppliedGood, ApplyStopSound
  <2> QED
    BY <1>1, <2>1
<1> HIDE DEF done
<1>4. Good(StopFailed(done.w, t, ok)) /\ Sound(StopFailed(done.w, t, ok))
  BY Zenon, <1>1, <1>3, StopFailedGood, StopFailedSound
<1>5. Arm(w, t) \in Worlds /\ Sound(Arm(w, t))
  BY Zenon, <1>1, ArmGood, ArmSound DEF Good, Replaced
<1>6. y \in Worlds /\ Sound(y)
  <2>1. t \in Slots
    BY ZenonT(40), <1>1 DEF Slots
  <2> QED
    BY Zenon, <1>3, <2>1, BarrierPosted
<1> HIDE DEF y
<1>7. v \in Worlds /\ Sound(v)
  BY Zenon, <1>4, <1>5, <1>6 DEF Good
<1> HIDE DEF v
<1> QED
  BY Zenon, <1>2, <1>7, Follows

\* Every step of the loop keeps the world sound.
LEMMA LoopSound ==
  ASSUME Inv, Sound(World), Loop
  PROVE  Sound(World')
<1>1. ASSUME HandleReapScan PROVE Sound(World')
  BY Zenon, <1>1, TailStep DEF HandleReapScan
<1>2. ASSUME HandleBarrier PROVE Sound(World')
  BY Zenon, <1>2, TailStep DEF HandleBarrier
<1>3. ASSUME RejectBatch PROVE Sound(World')
  BY Zenon, <1>3, TailStep DEF RejectBatch
<1> QED
  BY ZenonT(40), <1>1, <1>2, <1>3, ExitSound, IntentSound, JoinSound, BeginSound, InstallSound, ApplySound,
     ReplySound, SkipSound, RecoverySound DEF Loop
===========================================================================
