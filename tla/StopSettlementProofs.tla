----------------------- MODULE StopSettlementProofs -----------------------
(***************************************************************************)
(* The durable stop, second half: the settlement goroutines, the operator, *)
(* the processes and a restart preserve the invariant of StopLoopProofs.   *)
(* Hence the state is well formed, the receipts in memory are those of the *)
(* state file, a pending receipt fences its daemon, and the receipts of    *)
(* the state file are the transactions of StopTransaction.  Sound is then  *)
(* preserved too, so a daemon has one recovery under way and a receipt is  *)
(* removed only once its child is gone.                                    *)
(***************************************************************************)
EXTENDS StopLoopProofs

---------------------------------------------------------------------------
(* The settlements *)

\* A settlement under way has a first daemon and holds a receipt.
LEMMA FirstTarget ==
  ASSUME Around, NEW s \in Slots, settler[s].pc # "idle"
  PROVE  /\ settler[s] \in Settlers /\ settler[s].targets \in Seq(Tasks) /\ settler[s].targets # <<>>
         /\ Head(settler[s].targets) \in Tasks /\ settler[s].held \in Receipts
<1>1. /\ settler[s] \in Settlers /\ settler[s].targets \in Seq(Tasks) /\ settler[s].targets # <<>>
      /\ settler[s].held \in Receipts
  BY DEF Around, Settling, Proper, Settlers
<1> QED
  BY <1>1

\* What is left of a sequence of two or more is a sequence of one or more.
LEMMA TailGood ==
  ASSUME NEW S, NEW q \in Seq(S), q # <<>>, Len(q) # 1
  PROVE  Tail(q) \in Seq(S) /\ Tail(q) # <<>>
<1>1. Tail(q) \in Seq(S) /\ Len(Tail(q)) = Len(q) - 1 /\ Len(q) # 0
  OBVIOUS
<1>2. Len(Tail(q)) # 0 /\ Len(<<>>) = 0
  BY <1>1
<1> QED
  BY Zenon, <1>1, <1>2

\* It goes on to its next daemon, or is over.
LEMMA NextTargetGood ==
  ASSUME Around, NEW s \in Slots, settler[s].pc # "idle", settler' = NextTarget(s)
  PROVE  Settling'
<1> DEFINE q == Tail(settler[s].targets)
           x == [settler[s] EXCEPT !.pc = "finalize", !.targets = q, !.held = NoReceipt]
<1>1. settler[s] \in Settlers /\ settler[s].targets \in Seq(Tasks) /\ settler[s].targets # <<>>
  BY Zenon, FirstTarget
<1>2. CASE Len(settler[s].targets) = 1
  <2>1. settler' = [settler EXCEPT ![s] = Idle]
    BY Zenon, <1>2 DEF NextTarget, Around, Settling
  <2> QED
    BY Zenon, <2>1, IdleProper, SettlerGood
<1>3. CASE Len(settler[s].targets) # 1
  <2>1. q \in Seq(Tasks) /\ q # <<>>
    BY Zenon, <1>1, <1>3, TailGood
  <2>2. settler' = [settler EXCEPT ![s] = IF Len(settler[s].targets) = 1 THEN Idle ELSE x]
    BY Zenon DEF NextTarget
  <2> HIDE DEF q
  <2>3. Proper(x)
    BY Zenon, <1>1, <2>1 DEF Proper, Settlers, Receipts
  <2> HIDE DEF x
  <2>4. settler' = [settler EXCEPT ![s] = x]
    BY Zenon, <1>3, <2>2
  <2> QED
    BY Zenon, <2>3, <2>4, SettlerGood
<1> QED
  BY Zenon, <1>2, <1>3

\* SnapshotPorts keeps the invariant and leaves every stop where it is.
LEMMA SnapshotStep ==
  ASSUME Inv, NEW s \in Slots, SnapshotPorts(s)
  PROVE  Inv' /\ Steps(World, World')
<1> DEFINE seen == {t \in Tasks : task[t].listening}
           x == [settler[s] EXCEPT !.pc = "look", !.seen = seen]
<1>1. settler[s].pc # "idle" /\ UNCHANGED <<task, disk, integrity, file, cache, watcher, ch, loop, budget>>
  BY DEF SnapshotPorts
<1>2. settler' = [settler EXCEPT ![s] = x]
  BY Zenon DEF SnapshotPorts, Inv, Around, Settling
<1>3. Proper(x)
  <2>1. seen \in SUBSET Tasks
    OBVIOUS
  <2> HIDE DEF seen
  <2> QED
    BY Zenon, <1>1, <2>1, FirstTarget DEF Inv, Proper, Settlers
<1> HIDE DEF x
<1>4. Settling'
  BY Zenon, <1>2, <1>3, SettlerGood DEF Inv
<1>5. Core' /\ Steps(World, World')
  BY Zenon, <1>1, QuietStep, WorldGood
<1>6. Around'
  BY Zenon, <1>1, <1>4 DEF Inv, Around
<1> QED
  BY Zenon, <1>5, <1>6 DEF Inv

\* Look keeps the invariant and leaves every stop where it is.
LEMMA LookStep ==
  ASSUME Inv, NEW s \in Slots, Look(s)
  PROVE  Inv' /\ Steps(World, World')
<1> DEFINE res == [t \in Tasks |-> IF t \in Range(settler[s].targets) THEN Verdict(s, t) ELSE "incomplete"]
           all == \A t \in Range(settler[s].targets) : res[t] = "stopped"
           pc == IF all THEN "finalize" ELSE "wait"
           x == [settler[s] EXCEPT !.res = res, !.seen = {}, !.pc = pc]
<1>1. settler[s].pc = "look" /\ UNCHANGED <<task, disk, integrity, file, cache, watcher, ch, loop, budget>>
  BY Zenon DEF Look
<1>2. settler' = [settler EXCEPT ![s] = x]
  BY Zenon DEF Look, Inv, Around, Settling
<1>3. Proper(x)
  <2>1. res \in [Tasks -> Results] /\ pc \in {"finalize", "wait"}
    BY Zenon DEF Verdict, Results
  <2> HIDE DEF res, pc
  <2> QED
    BY Zenon, <1>1, <2>1, FirstTarget DEF Inv, Proper, Settlers
<1> HIDE DEF x
<1>4. Settling'
  BY Zenon, <1>2, <1>3, SettlerGood DEF Inv
<1>5. Core' /\ Steps(World, World')
  BY Zenon, <1>1, QuietStep, WorldGood
<1>6. Around'
  BY Zenon, <1>1, <1>4 DEF Inv, Around
<1> QED
  BY <1>5, <1>6 DEF Inv

\* Expire keeps the invariant and leaves every stop where it is.
LEMMA ExpireStep ==
  ASSUME Inv, NEW s \in Slots, Expire(s)
  PROVE  Inv' /\ Steps(World, World')
<1>1. /\ settler[s].pc # "idle" /\ settler' = Goto(s, "finalize") /\ Can("timeout") /\ Spend("timeout")
      /\ UNCHANGED <<task, disk, integrity, file, cache, watcher, ch, loop>>
  BY Zenon DEF Expire
<1>2. Settling'
  BY Zenon, <1>1, GotoGood DEF Inv
<1>3. Core' /\ Steps(World, World')
  BY Zenon, <1>1, QuietStep, WorldGood
<1>4. Around'
  BY <1>1, <1>2, SpendGood DEF Inv, Around
<1> QED
  BY <1>3, <1>4 DEF Inv

\* ReadReceipt keeps the invariant and leaves every stop where it is.
LEMMA ReadStep ==
  ASSUME Inv, NEW s \in Slots, ReadReceipt(s)
  PROVE  Inv' /\ Steps(World, World')
<1> DEFINE r == task[Head(settler[s].targets)].rec
           x == [settler[s] EXCEPT !.pc = "commit", !.held = r]
<1>1. settler[s].pc # "idle" /\ UNCHANGED <<task, disk, integrity, file, cache, watcher, ch, loop, budget>>
  BY Zenon DEF ReadReceipt
<1>2. settler' = [settler EXCEPT ![s] = x]
  BY Zenon DEF ReadReceipt, Inv, Around, Settling
<1>3. Proper(x)
  <2>1. r \in Receipts
    BY ZenonT(40), <1>1, FirstTarget, WorldGood DEF Inv, TaskRecords
  <2> HIDE DEF r
  <2> QED
    BY Zenon, <1>1, <2>1, FirstTarget DEF Inv, Proper, Settlers
<1> HIDE DEF x
<1>4. Settling'
  BY Zenon, <1>2, <1>3, SettlerGood DEF Inv
<1>5. Core' /\ Steps(World, World')
  BY <1>1, QuietStep, WorldGood
<1>6. Around'
  BY <1>1, <1>4 DEF Inv, Around
<1> QED
  BY <1>5, <1>6 DEF Inv

\* LeaveReceipt keeps the invariant and leaves every stop where it is.
LEMMA LeaveStep ==
  ASSUME Inv, NEW s \in Slots, LeaveReceipt(s)
  PROVE  Inv' /\ Steps(World, World')
<1>1. /\ settler[s].pc # "idle" /\ settler' = NextTarget(s)
      /\ UNCHANGED <<task, disk, integrity, file, cache, watcher, ch, loop, budget>>
  BY DEF LeaveReceipt
<1>2. Settling'
  BY Zenon, <1>1, NextTargetGood DEF Inv
<1>3. Core' /\ Steps(World, World')
  BY Zenon, <1>1, QuietStep, WorldGood
<1>4. Around'
  BY Zenon, <1>1, <1>2 DEF Inv, Around
<1> QED
  BY <1>3, <1>4 DEF Inv

\* A settlement that touches a receipt touches one that is in the mirror, so
\* none that is being installed.
LEMMA ReceiptStep ==
  ASSUME Inv, NEW t \in Tasks, NEW v, Replaced(World, v, t), Become(v), UNCHANGED <<integrity, loop>>,
         task[t].rec = NoReceipt => Untouched(World, v)
  PROVE  Core' /\ World' = v
<1>1. v \in Worlds /\ Fenced(v) /\ task' = v.task /\ disk' = v.disk /\ ch' = v.ch
  BY Zenon DEF Replaced, Become
<1>2. World' = v
  BY Zenon, <1>1 DEF World, Worlds
<1>3. World.task = task /\ World.disk = disk
  BY Zenon, WorldGood
<1>4. CASE loop.pc = "install"
  <2>1. ~integrity /\ \A u \in Tasks : IF u \in Range(loop.todo)
                                       THEN task[u].rec = NoReceipt /\ disk.rec[u] = loop.recs[u]
                                       ELSE task[u].rec = disk.rec[u]
    BY Zenon, <1>3, <1>4 DEF Inv, Core, Mirrored
  <2>2. ASSUME NEW u \in Tasks
        PROVE  IF u \in Range(loop.todo)
               THEN v.task[u].rec = NoReceipt /\ v.disk.rec[u] = loop.recs[u]
               ELSE v.task[u].rec = v.disk.rec[u]
    <3>1. CASE u # t
      BY Zenon, <1>3, <2>1, <3>1 DEF Replaced
    <3>2. CASE u = t /\ u \in Range(loop.todo)
      BY Zenon, <1>3, <2>1, <3>2 DEF Untouched
    <3>3. CASE u = t /\ u \notin Range(loop.todo)
      BY Zenon, <1>3, <2>1, <3>3 DEF Replaced
    <3> QED
      BY Zenon, <3>1, <3>2, <3>3
  <2>3. Mirrored(World)'
    BY Zenon, <1>2, <1>4, <2>1, <2>2 DEF Mirrored
  <2> QED
    BY Zenon, <1>1, <1>2, <2>3 DEF Core, Fenced
<1>5. CASE loop.pc # "install"
  <2>1. Synced(v)
    BY Zenon, <1>5, WorldGood DEF Good, Replaced
  <2> QED
    BY Zenon, <1>1, <1>2, <1>5, <2>1 DEF Core, Fenced, Mirrored, Synced
<1> QED
  BY Zenon, <1>2, <1>4, <1>5

\* Arming the recovery of a daemon, as a step.
LEMMA ArmAfter ==
  ASSUME Inv, NEW t \in Tasks, NEW x, Replaced(World, x, t), NEW v, v = Arm(x, t)
  PROVE  Replaced(World, v, t) /\ Still(x, v) /\ Untouched(x, v)
<1>1. Replaced(x, v, t) /\ Still(x, v) /\ Untouched(x, v)
  BY SMTT(40), ArmGood DEF Replaced
<1> QED
  BY Zenon, <1>1, ReplacedTwice

\* Doing nothing leaves every receipt and every stop where it is.
LEMMA Unmoved ==
  ASSUME Inv, NEW t \in Tasks
  PROVE  Replaced(World, World, t) /\ Still(World, World) /\ Untouched(World, World)
BY WorldGood DEF Replaced, Still, Kept, Untouched

\* FailReceipt keeps the invariant and leaves every stop where it is.
LEMMA FailStep ==
  ASSUME Inv, NEW s \in Slots, NEW ok \in BOOLEAN, FailReceipt(s, ok)
  PROVE  Inv' /\ Steps(World, World')
<1> DEFINE t == Head(settler[s].targets)
           r == settler[s].held
           x == IF r.phase = "failed" THEN World ELSE Advance(World, t, r, "failed", ok)
           v == Arm(x, t)
<1>1. /\ settler[s].pc # "idle" /\ settler' = NextTarget(s) /\ Write(ok) /\ Become(v)
      /\ UNCHANGED <<integrity, file, cache, watcher, loop>>
  BY Zenon DEF FailReceipt
<1>2. t \in Tasks /\ r \in Receipts
  BY Zenon, <1>1, FirstTarget DEF Inv
<1>3. Settling'
  BY Zenon, <1>1, NextTargetGood DEF Inv
<1> HIDE DEF t, r
<1>4. /\ Replaced(World, x, t) /\ Still(World, x)
      /\ task[t].rec = NoReceipt => Untouched(World, x)
  <2> DEFINE y == Advance(World, t, r, "failed", ok)
  <2>1. Replaced(World, y, t) /\ Still(World, y) /\ (task[t].rec = NoReceipt => y = World)
    BY <1>2, WorldGood, AdvanceGood
  <2> HIDE DEF y
  <2>2. Replaced(World, World, t) /\ Still(World, World) /\ Untouched(World, World)
    BY Zenon, <1>2, Unmoved
  <2>3. x = World \/ x = y
    BY Zenon DEF y
  <2> HIDE DEF x
  <2> QED
    BY Zenon, <2>1, <2>2, <2>3
<1> HIDE DEF x
<1>5. Replaced(World, v, t) /\ Still(World, v) /\ (task[t].rec = NoReceipt => Untouched(World, v))
  BY <1>2, <1>4, ArmAfter, StillTwice DEF Untouched
<1> HIDE DEF v
<1>6. Core' /\ World' = v
  BY Zenon, <1>1, <1>2, <1>5, ReceiptStep
<1>7. Around'
  BY Zenon, <1>1, <1>3, WriteGood DEF Inv, Around
<1> QED
  BY Zenon, <1>5, <1>6, <1>7 DEF Inv, Steps

\* ReleasePort keeps the invariant and moves one stop from its exit to its port, or none.
LEMMA ReleaseStep ==
  ASSUME Inv, NEW s \in Slots, NEW ok \in BOOLEAN, ReleasePort(s, ok)
  PROVE  Inv' /\ Steps(World, World')
<1> DEFINE t == Head(settler[s].targets)
           r == settler[s].held
           released == ok /\ Accepts(World, t, r, "port_released")
           raced == task[t].rec # NoReceipt /\ task[t].rec.phase = "port_released"
           x == Advance(World, t, r, "port_released", ok)
           y == Arm(World, t)
           v == IF released THEN x ELSE IF raced \/ task[t].rec = NoReceipt THEN World ELSE y
           n == NextReceipt(r, "port_released")
<1>1. /\ settler[s].pc = "commit" /\ Write(ok) /\ Become(v)
      /\ settler' = IF released THEN [settler EXCEPT ![s].held = n]
                    ELSE IF raced THEN [settler EXCEPT ![s].held = task[t].rec]
                    ELSE NextTarget(s)
      /\ UNCHANGED <<integrity, file, cache, watcher, loop>>
  BY Zenon DEF ReleasePort
<1>2. t \in Tasks /\ r \in Receipts /\ settler[s] \in Settlers /\ settler[s].targets # <<>>
  BY Zenon, <1>1, FirstTarget DEF Inv
<1>3. task[t].rec \in Receipts /\ "port_released" \in Phases \cup {"failed"}
  BY Zenon, <1>2, WorldGood DEF TaskRecords, Phases
<1>4. released => n \in Receipts
  BY Zenon, <1>2, <1>3, ReceiptMoves DEF Accepts
<1> HIDE DEF t, r, n, released, raced
<1>5. ASSUME NEW held \in Receipts, settler' = [settler EXCEPT ![s].held = held]
      PROVE  Settling'
  <2> DEFINE z == [settler[s] EXCEPT !.held = held]
  <2>1. Proper(z)
    BY Zenon, <1>1, <1>2 DEF Proper, Settlers
  <2>2. settler' = [settler EXCEPT ![s] = z]
    BY Zenon, <1>5
  <2> HIDE DEF z
  <2> QED
    BY Zenon, <2>1, <2>2, SettlerGood DEF Inv
<1>6. Settling'
  <2>1. CASE released
    BY Zenon, <1>1, <1>4, <1>5, <2>1
  <2>2. CASE ~released /\ raced
    BY Zenon, <1>1, <1>3, <1>5, <2>2
  <2>3. CASE ~released /\ ~raced
    BY Zenon, <1>1, <2>3, NextTargetGood DEF Inv
  <2> QED
    BY Zenon, <2>1, <2>2, <2>3
<1>7. /\ Replaced(World, x, t) /\ (task[t].rec = NoReceipt => x = World)
      /\ Still(World, x) \/ Moved(World, x, t, "port_released")
  BY <1>2, <1>3, WorldGood, AdvanceGood
<1>8. /\ Replaced(World, World, t) /\ Still(World, World) /\ Untouched(World, World)
      /\ Replaced(World, y, t) /\ Still(World, y) /\ Untouched(World, y)
  BY Zenon, <1>2, Unmoved, ArmGood, WorldGood
<1> HIDE DEF x, y
<1>9. /\ Replaced(World, v, t) /\ (task[t].rec = NoReceipt => Untouched(World, v))
      /\ Still(World, v) \/ Moved(World, v, t, "port_released")
  <2>1. v \in {x, y, World}
    BY Zenon
  <2> HIDE DEF v
  <2> QED
    BY Zenon, <1>7, <1>8, <2>1
<1> HIDE DEF v
<1>10. Core' /\ World' = v
  BY Zenon, <1>1, <1>2, <1>9, ReceiptStep
<1>11. Around'
  BY Zenon, <1>1, <1>6, WriteGood DEF Inv, Around
<1> QED
  BY Zenon, <1>2, <1>9, <1>10, <1>11 DEF Inv, Steps

\* RemoveReceipt keeps the invariant and commits one stop, or none.
LEMMA RemoveStep ==
  ASSUME Inv, NEW s \in Slots, NEW ok \in BOOLEAN, RemoveReceipt(s, ok)
  PROVE  Inv' /\ Steps(World, World')
<1> DEFINE t == Head(settler[s].targets)
           r == settler[s].held
           same == ok /\ SameRevision(World, t, r)
           x == Put(World, t, NoReceipt)
           y == Arm(World, t)
           v == IF same THEN x ELSE IF task[t].rec = NoReceipt THEN World ELSE y
<1>1. /\ settler[s].pc # "idle" /\ settler' = NextTarget(s) /\ Write(ok) /\ Become(v)
      /\ r.phase = "port_released" /\ UNCHANGED <<integrity, file, cache, watcher, loop>>
  BY DEF RemoveReceipt
<1>2. t \in Tasks /\ r \in Receipts
  BY Zenon, <1>1, FirstTarget DEF Inv
<1>3. Settling'
  BY Zenon, <1>1, NextTargetGood DEF Inv
<1>4. Around'
  BY Zenon, <1>1, <1>3, WriteGood DEF Inv, Around
<1> HIDE DEF t, r
<1>5. CASE same
  <2>1. disk.rec[t] = r /\ task[t].rec = r /\ r # NoReceipt /\ World.disk = disk /\ v = x
    BY <1>1, <1>5, WorldGood DEF SameRevision, NoReceipt
  <2>2. Replaced(World, x, t) /\ x.disk.rec[t] = NoReceipt
    <3>1. NoReceipt \in Receipts
      BY Zenon DEF Receipts
    <3> QED
      BY <1>2, <3>1, PutGood, WorldGood
  <2> HIDE DEF x, v
  <2>3. Removed(World, x, t)
    BY Zenon, <1>1, <2>1, <2>2 DEF Removed, Kept, Replaced
  <2>4. Core' /\ World' = v
    BY Zenon, <1>1, <1>2, <2>1, <2>2, ReceiptStep
  <2> QED
    BY Zenon, <1>2, <1>4, <2>1, <2>3, <2>4 DEF Inv, Steps
<1>6. CASE ~same
  <2>1. v = World \/ v = y
    BY Zenon, <1>6
  <2>2. /\ Replaced(World, World, t) /\ Still(World, World) /\ Untouched(World, World)
        /\ Replaced(World, y, t) /\ Still(World, y) /\ Untouched(World, y)
    BY Zenon, <1>2, Unmoved, ArmGood, WorldGood
  <2> HIDE DEF v, y
  <2>3. Replaced(World, v, t) /\ Still(World, v) /\ Untouched(World, v)
    BY Zenon, <2>1, <2>2
  <2>4. Core' /\ World' = v
    BY Zenon, <1>1, <1>2, <2>3, ReceiptStep
  <2> QED
    BY Zenon, <1>4, <2>3, <2>4 DEF Inv, Steps
<1> QED
  BY Zenon, <1>5, <1>6

\* PostBatch keeps the invariant and leaves every stop where it is.
LEMMA PostStep ==
  ASSUME Inv, NEW s \in Slots, PostBatch(s)
  PROVE  Inv' /\ Steps(World, World')
<1> DEFINE e == [kind |-> "batch", slot |-> s, targets |-> settler[s].targets, snap |-> settler[s].snap]
           x == [settler[s] EXCEPT !.pc = "reply", !.snap = NoCommand]
<1>1. /\ settler[s].pc = "post" /\ ch' = Append(ch, e) /\ settler' = [settler EXCEPT ![s] = x]
      /\ UNCHANGED <<task, disk, integrity, file, cache, watcher, loop, budget>>
  BY Zenon DEF PostBatch, Inv, Around, Settling
<1>2. settler[s] \in Settlers /\ settler[s].targets \in Seq(Tasks) /\ settler[s].targets # <<>>
  BY Zenon, <1>1, FirstTarget DEF Inv
<1>3. e \in Events
  BY Zenon, <1>2 DEF Settlers, Events
<1>4. Proper(x)
  BY Zenon, <1>2 DEF Proper, Settlers, NoCommand, Commands
<1> HIDE DEF e, x
<1>5. ch' \in Seq(Events)
  BY <1>1, <1>3, WorldGood
<1>6. Core' /\ Steps(World, World')
  BY Zenon, <1>1, <1>5, QuietStep
<1>7. Around'
  BY Zenon, <1>1, <1>4, SettlerGood DEF Inv, Around
<1> QED
  BY <1>6, <1>7 DEF Inv

---------------------------------------------------------------------------
(* The operator, the watcher and the processes *)

\* AbandonStop keeps the invariant and leaves every stop where it is.
LEMMA AbandonStep ==
  ASSUME Inv, NEW s \in Slots, AbandonStop(s)
  PROVE  Inv' /\ Steps(World, World')
<1>1. /\ Can("timeout") /\ Spend("timeout") /\ settler' = [settler EXCEPT ![s] = Idle]
      /\ UNCHANGED <<task, disk, integrity, file, cache, watcher, ch, loop>>
  BY Zenon DEF AbandonStop
<1>2. Core' /\ Steps(World, World')
  BY Zenon, <1>1, QuietStep, WorldGood
<1>3. Around'
  BY Zenon, <1>1, IdleProper, SettlerGood, SpendGood DEF Inv, Around
<1> QED
  BY <1>2, <1>3 DEF Inv

\* RequestStop keeps the invariant and leaves every stop where it is.
LEMMA RequestStep ==
  ASSUME Inv, NEW s \in Callers, RequestStop(s)
  PROVE  Inv' /\ Steps(World, World')
<1> DEFINE x == [Idle EXCEPT !.pc = "post", !.targets = budget.targets, !.snap = file']
<1>1. /\ Can("stop") /\ Spend("stop") /\ settler' = [settler EXCEPT ![s] = x]
      /\ file' = [gen |-> file.gen + 1, stopped |-> file.stopped \cup Range(budget.targets)]
      /\ UNCHANGED <<task, disk, integrity, cache, ch, loop, watcher>>
  BY Zenon DEF RequestStop
<1>2. /\ s \in Slots /\ budget.targets \in Seq(Tasks) /\ budget.targets # <<>> /\ file \in Commands
      /\ budget \in Bounds
  BY DEF Slots, Inv, Around, Bounds
<1>3. file' \in Commands
  <2>1. Range(budget.targets) \subseteq Tasks
    BY <1>2 DEF Range
  <2> QED
    BY <1>1, <1>2, <2>1 DEF Commands
<1>4. Proper(x)
  BY Zenon, <1>2, <1>3, IdleProper DEF Proper, Settlers, Idle
<1> HIDE DEF x
<1>5. Core' /\ Steps(World, World')
  BY Zenon, <1>1, QuietStep, WorldGood
<1>6. Around'
  BY ZenonT(40), <1>1, <1>2, <1>3, <1>4, SettlerGood, SpendGood DEF Inv, Around
<1> QED
  BY Zenon, <1>5, <1>6 DEF Inv

\* RequestStart keeps the invariant and leaves every stop where it is.
LEMMA StartStep ==
  ASSUME Inv, NEW t \in Tasks, RequestStart(t)
  PROVE  Inv' /\ Steps(World, World')
<1>1. /\ Can("start") /\ Spend("start") /\ file' = [gen |-> file.gen + 1, stopped |-> file.stopped \ {t}]
      /\ UNCHANGED <<task, disk, integrity, cache, ch, loop, settler, watcher>>
  BY Zenon DEF RequestStart
<1>2. file' \in Commands
  BY <1>1 DEF Inv, Around, Commands
<1>3. Core' /\ Steps(World, World')
  BY Zenon, <1>1, QuietStep, WorldGood
<1>4. Around'
  BY Zenon, <1>1, <1>2, SpendGood DEF Inv, Around, Settling
<1> QED
  BY <1>3, <1>4 DEF Inv

\* What recurs costs its bound at most.
LEMMA InTimeGood ==
  ASSUME budget \in Bounds, NEW what \in {"retry", "watch"}, NEW alone, InTime(what, alone)
  PROVE  budget' \in Bounds
BY Zenon, SpendGood DEF InTime

\* ReadIntent keeps the invariant and leaves every stop where it is.
LEMMA ReadIntentStep ==
  ASSUME Inv, ReadIntent
  PROVE  Inv' /\ Steps(World, World')
<1>1. /\ InTime("watch", AtRest) /\ watcher' = [watcher EXCEPT !.read = file]
      /\ UNCHANGED <<task, disk, integrity, file, cache, ch, loop, settler>>
  BY Zenon DEF ReadIntent
<1>2. budget' \in Bounds /\ watcher' \in [known : Commands, read : Commands]
  BY Zenon, <1>1, InTimeGood DEF Inv, Around
<1>3. Core' /\ Steps(World, World')
  BY Zenon, <1>1, QuietStep, WorldGood
<1>4. Around'
  BY Zenon, <1>1, <1>2 DEF Inv, Around, Settling
<1> QED
  BY Zenon, <1>3, <1>4 DEF Inv

\* Events are posted for a set of daemons in any order.
LEMMA OrderGood ==
  ASSUME NEW S \in SUBSET Tasks, NEW order \in Orders(S), NEW q \in Seq(Events)
  PROVE  /\ q \o [i \in DOMAIN order |-> IntentUpdate(order[i])] \in Seq(Events)
         /\ q \o [i \in DOMAIN order |-> Recover(order[i])] \in Seq(Events)
         /\ [i \in DOMAIN order |-> Recover(order[i])] \in Seq(Events)
<1>1. PICK n \in Nat : order \in [1..n -> S]
  <2>1. Cardinality(S) \in Nat
    BY Zenon, SettlementAssumptions
  <2> QED
    BY Zenon, <2>1 DEF Orders, Bijection, Injection
<1>2. \A i \in 1..n : order[i] \in Tasks
  BY Zenon, <1>1
<1>3. \A t \in Tasks : IntentUpdate(t) \in Events /\ Recover(t) \in Events
  BY Zenon DEF IntentUpdate, Recover, Events
<1> DEFINE f == [i \in DOMAIN order |-> IntentUpdate(order[i])]
           g == [i \in DOMAIN order |-> Recover(order[i])]
<1>4. f \in [1..n -> Events] /\ g \in [1..n -> Events]
  BY Zenon, <1>1, <1>2, <1>3
<1> HIDE DEF f, g
<1>5. f \in Seq(Events) /\ g \in Seq(Events)
  BY <1>1, <1>4
<1>6. q \o f \in Seq(Events) /\ q \o g \in Seq(Events)
  BY <1>5
<1> QED
  BY Zenon, <1>5, <1>6 DEF f, g

\* PostIntent keeps the invariant and leaves every stop where it is.
LEMMA PostIntentStep ==
  ASSUME Inv, PostIntent
  PROVE  Inv' /\ Steps(World, World')
<1> DEFINE S == {t \in Tasks : Desired(watcher.read, t) # Desired(watcher.known, t)}
           q == ch \o <<[kind |-> "scan", snap |-> watcher.read]>>
<1>1. PICK delta \in Orders(S) : ch' = q \o [i \in DOMAIN delta |-> IntentUpdate(delta[i])]
  BY Zenon DEF PostIntent
<1>2. /\ watcher' = [known |-> watcher.read, read |-> NoCommand]
      /\ UNCHANGED <<task, disk, integrity, file, cache, loop, settler, budget>>
  BY Zenon DEF PostIntent
<1>3. watcher' \in [known : Commands, read : Commands]
  BY Zenon, <1>2 DEF Inv, Around, Commands, NoCommand
<1>4. q \in Seq(Events)
  <2> DEFINE e == [kind |-> "scan", snap |-> watcher.read]
  <2>1. e \in Events /\ ch \in Seq(Events)
    BY Zenon, WorldGood DEF Inv, Around, Events
  <2> HIDE DEF e
  <2>2. ch \o <<e>> \in Seq(Events)
    BY <2>1
  <2> QED
    BY Zenon, <2>2 DEF e
<1>5. S \in SUBSET Tasks
  BY Zenon
<1> HIDE DEF S, q
<1>6. ch' \in Seq(Events)
  BY Zenon, <1>1, <1>4, <1>5, OrderGood
<1>7. Core' /\ Steps(World, World')
  BY Zenon, <1>2, <1>6, QuietStep
<1>8. Around'
  BY Zenon, <1>2, <1>3 DEF Inv, Around, Settling
<1> QED
  BY Zenon, <1>7, <1>8 DEF Inv

\* A step that changes daemons in anything but the receipt and the number of the
\* child leaves the stops alone.
LEMMA DaemonStep ==
  ASSUME Inv, UNCHANGED <<disk, integrity, loop>>, ch' \in Seq(Events),
         task' \in [Tasks -> TaskRecords],
         \A u \in Tasks : task'[u].row.gen = task[u].row.gen /\ task'[u].rec = task[u].rec
  PROVE  Core' /\ Steps(World, World')
<1>1. World' \in Worlds /\ World'.task = task' /\ World'.disk = disk
  BY Zenon, WorldGood DEF World, Worlds
<1>2. Fenced(World)' /\ Still(World, World')
  BY Zenon, <1>1, WorldGood DEF Fenced, Still, Kept, World
<1>3. Mirrored(World)'
  BY Zenon, WorldGood DEF Inv, Core, Mirrored, Synced, World
<1> QED
  BY Zenon, <1>1, <1>2, <1>3 DEF Core, Steps

\* The same for a change of one daemon.
LEMMA OneDaemonStep ==
  ASSUME Inv, UNCHANGED <<disk, integrity, loop>>, ch' \in Seq(Events),
         NEW t \in Tasks, NEW c \in TaskRecords, task' = [task EXCEPT ![t] = c],
         c.row.gen = task[t].row.gen, c.rec = task[t].rec
  PROVE  Core' /\ Steps(World, World')
<1>1. /\ task' \in [Tasks -> TaskRecords]
      /\ \A u \in Tasks : task'[u].row.gen = task[u].row.gen /\ task'[u].rec = task[u].rec
  BY Zenon, WorldGood
<1> QED
  BY Zenon, <1>1, DaemonStep

\* TriggerRecovery keeps the invariant and leaves every stop where it is.
LEMMA TriggerStep ==
  ASSUME Inv, NEW S \in SUBSET Unarmed, TriggerRecovery(S)
  PROVE  Inv' /\ Steps(World, World')
<1>1. /\ InTime("retry", AtRest /\ watcher.known = file) \/ (Can("timeout") /\ Spend("timeout"))
      /\ task' = [t \in Tasks |-> IF t \in S THEN [task[t] EXCEPT !.armed = "queued"] ELSE task[t]]
      /\ UNCHANGED <<disk, integrity, file, cache, watcher, loop, settler>>
  BY Zenon DEF TriggerRecovery
<1>2. PICK order \in Orders(S) : ch' = ch \o [i \in DOMAIN order |-> Recover(order[i])]
  BY Zenon DEF TriggerRecovery
<1>3. S \in SUBSET Tasks
  BY Zenon DEF Unarmed
<1>4. ch' \in Seq(Events)
  BY Zenon, <1>2, <1>3, OrderGood, WorldGood
<1>5. \A u \in Tasks : /\ task'[u] \in TaskRecords
                       /\ task'[u].row.gen = task[u].row.gen /\ task'[u].rec = task[u].rec
  BY <1>1, WorldGood DEF TaskRecords
<1>6. Core' /\ Steps(World, World')
  BY Zenon, <1>1, <1>4, <1>5, DaemonStep
<1>7. Around'
  BY ZenonT(40), <1>1, InTimeGood, SpendGood DEF Inv, Around, Settling
<1> QED
  BY Zenon, <1>6, <1>7 DEF Inv

\* RecoveryTimer keeps the invariant and leaves every stop where it is.
LEMMA RecoveryTimerStep ==
  ASSUME Inv, NEW t \in Tasks, RecoveryTimer(t)
  PROVE  Inv' /\ Steps(World, World')
<1> DEFINE c == [task[t] EXCEPT !.armed = "queued"]
           q == Append(ch, Recover(t))
           v == [World EXCEPT !.task[t].armed = "queued", !.ch = q]
<1>1. task[t] \in TaskRecords /\ ch \in Seq(Events) /\ Recover(t) \in Events
  BY Zenon, WorldGood DEF Recover, Events
<1>2. c \in TaskRecords /\ c.row.gen = task[t].row.gen /\ c.rec = task[t].rec
  BY Zenon, <1>1 DEF TaskRecords
<1>3. q \in Seq(Events)
  BY <1>1
<1>4. Become(v) /\ UNCHANGED <<integrity, file, cache, watcher, loop, settler, budget>>
  BY Zenon DEF RecoveryTimer, World
<1>5. v.task = [task EXCEPT ![t] = c] /\ v.disk = disk /\ v.ch = q
  BY Zenon DEF World
<1> HIDE DEF c, q, v
<1>6. task' = [task EXCEPT ![t] = c] /\ UNCHANGED disk /\ ch' = q
  BY Zenon, <1>4, <1>5 DEF Become
<1>7. Core' /\ Steps(World, World')
  BY ZenonT(40), <1>2, <1>3, <1>4, <1>6, OneDaemonStep
<1>8. Around'
  BY Zenon, <1>4 DEF Inv, Around, Settling
<1> QED
  BY <1>7, <1>8 DEF Inv

\* Die keeps the invariant and leaves every stop where it is.
LEMMA DieStep ==
  ASSUME Inv, NEW t \in Tasks, Die(t)
  PROVE  Inv' /\ Steps(World, World')
<1> DEFINE c == [task[t] EXCEPT !.child = IF task[t].own THEN "dead" ELSE "none"]
<1>1. /\ Can("death") /\ Spend("death") /\ task' = [task EXCEPT ![t] = c]
      /\ UNCHANGED <<disk, integrity, file, cache, watcher, ch, loop, settler>>
  BY Zenon DEF Die
<1>2. c \in TaskRecords /\ c.row.gen = task[t].row.gen /\ c.rec = task[t].rec
  BY WorldGood DEF TaskRecords
<1> HIDE DEF c
<1>3. Core' /\ Steps(World, World')
  BY ZenonT(40), <1>1, <1>2, OneDaemonStep, WorldGood
<1>4. Around'
  BY <1>1, SpendGood DEF Inv, Around, Settling
<1> QED
  BY <1>3, <1>4 DEF Inv

\* MarkExit keeps the invariant and leaves every stop where it is.
LEMMA MarkStep ==
  ASSUME Inv, NEW t \in Tasks, MarkExit(t)
  PROVE  Inv' /\ Steps(World, World')
<1> DEFINE row == MarkExitedIfCurrent(task[t].row, task[t].row.gen)
           c == [task[t] EXCEPT !.child = "marked", !.row = row]
<1>1. /\ task' = [task EXCEPT ![t] = c]
      /\ UNCHANGED <<disk, integrity, file, cache, watcher, ch, loop, settler, budget>>
  BY Zenon DEF MarkExit
<1>2. task[t] \in TaskRecords /\ task[t].row \in TrackerRows /\ task[t].row.gen \in Nat
  BY Zenon, WorldGood DEF TaskRecords, TrackerRows
<1>3. row \in TrackerRows /\ row.gen = task[t].row.gen
  BY Zenon, <1>2, RowUpdates
<1> HIDE DEF row
<1>4. c \in TaskRecords /\ c.row.gen = task[t].row.gen /\ c.rec = task[t].rec
  BY Zenon, <1>2, <1>3 DEF TaskRecords
<1> HIDE DEF c
<1>5. Core' /\ Steps(World, World')
  BY ZenonT(40), <1>1, <1>4, OneDaemonStep, WorldGood
<1>6. Around'
  BY Zenon, <1>1 DEF Inv, Around, Settling
<1> QED
  BY <1>5, <1>6 DEF Inv

\* ReleaseListener keeps the invariant and leaves every stop where it is.
LEMMA ListenerStep ==
  ASSUME Inv, NEW t \in Tasks, ReleaseListener(t)
  PROVE  Inv' /\ Steps(World, World')
<1> DEFINE c == [task[t] EXCEPT !.listening = FALSE]
<1>1. /\ task' = [task EXCEPT ![t] = c]
      /\ UNCHANGED <<disk, integrity, file, cache, watcher, ch, loop, settler, budget>>
  BY Zenon DEF ReleaseListener
<1>2. c \in TaskRecords /\ c.row.gen = task[t].row.gen /\ c.rec = task[t].rec
  BY ZenonT(40), WorldGood DEF TaskRecords
<1> HIDE DEF c
<1>3. Core' /\ Steps(World, World')
  BY Zenon, <1>1, <1>2, OneDaemonStep, WorldGood
<1>4. Around'
  BY <1>1 DEF Inv, Around, Settling
<1> QED
  BY <1>3, <1>4 DEF Inv

\* PostExit keeps the invariant and leaves every stop where it is.
LEMMA PostExitStep ==
  ASSUME Inv, NEW t \in Tasks, PostExit(t)
  PROVE  Inv' /\ Steps(World, World')
<1> DEFINE x == [World EXCEPT !.task[t].child = "none"]
           y == PersistTo(x)
           e == Exit(t, task[t].row.gen)
           q == Append(y.ch, e)
           v == [y EXCEPT !.ch = q]
<1>1. /\ Become(v) /\ loop.pc # "install"
      /\ UNCHANGED <<integrity, file, cache, watcher, loop, settler, budget>>
  BY DEF PostExit
<1>2. Good(World) /\ World \in Worlds /\ task[t].row.gen \in Nat
  BY Zenon, <1>1, WorldGood DEF TaskRecords, TrackerRows
<1>3. e \in Events
  BY Zenon, <1>2 DEF Exit, Events
<1>4. /\ x \in Worlds /\ x.disk = World.disk /\ x.task[t].row = World.task[t].row
      /\ x.task[t].rec = World.task[t].rec /\ \A u \in Tasks \ {t} : x.task[u] = World.task[u]
  BY <1>2, ChildUpdate
<1> HIDE DEF x, e
<1>5. Good(x) /\ Still(World, x)
  BY Zenon, <1>2, <1>4, QuietUpdate
<1>6. Good(y) /\ Still(World, y)
  BY Zenon, <1>5, PersistGood, StillTwice
<1> HIDE DEF y
<1>7. q \in Seq(Events)
  BY <1>3, <1>6 DEF Good, Worlds
<1> HIDE DEF q
<1>8. Good(v) /\ Still(World, v)
  BY ZenonT(40), <1>6, <1>7, QueueGood, StillTwice
<1> HIDE DEF v
<1>9. Core' /\ World' = v
  BY Zenon, <1>1, <1>8, Becomes
<1>10. Around'
  BY Zenon, <1>1 DEF Inv, Around, Settling
<1> QED
  BY <1>8, <1>9, <1>10 DEF Inv, Steps

\* Restart keeps the invariant and leaves every stop where it is.
LEMMA RestartStep ==
  ASSUME Inv, NEW survivors \in SUBSET Tasks, Restart(survivors)
  PROVE  Inv' /\ Steps(World, World')
<1>1. /\ disk \in StateFiles /\ disk.row \in [Tasks -> TrackerRows] /\ disk.rec \in [Tasks -> Receipts]
      /\ task \in [Tasks -> TaskRecords] /\ World.task = task /\ World.disk = disk /\ Fenced(World)
  BY Zenon, WorldGood DEF StateFiles
<1>2. /\ Can("crash") /\ Spend("crash") /\ cache' = file /\ watcher' = [known |-> file, read |-> NoCommand]
      /\ integrity' = FALSE /\ loop' = Ready /\ settler' = [s \in Slots |-> Idle] /\ UNCHANGED file
      /\ task' = [t \in Tasks |-> Hydrated(t, t \in survivors)]
      /\ disk' = [disk EXCEPT !.row = [t \in Tasks |-> task'[t].row]]
  BY Zenon DEF Restart
<1>3. ASSUME NEW t \in Tasks
      PROVE  /\ task'[t] \in TaskRecords /\ task'[t].rec = disk.rec[t]
             /\ task'[t].row \in TrackerRows /\ task'[t].row.gen = disk.row[t].gen
  <2> DEFINE up == t \in survivors /\ disk.row[t].pid # 0
             sm == IF up THEN "running" ELSE "idle"
             row == IF up THEN disk.row[t] ELSE MarkExited(disk.row[t])
             child == IF t \in survivors THEN "alive" ELSE "none"
             armed == IF disk.rec[t] = NoReceipt THEN "no" ELSE "timer"
             listening == task[t].listening
  <2>1. /\ row \in TrackerRows /\ row.gen = disk.row[t].gen /\ disk.rec[t] \in Receipts
        /\ sm \in SMStates /\ child \in {"alive", "none"} /\ armed \in {"no", "timer"}
        /\ listening \in BOOLEAN /\ up \in BOOLEAN
    <3>1. disk.row[t] \in TrackerRows /\ disk.rec[t] \in Receipts /\ listening \in BOOLEAN /\ 0 \in Nat
      BY Zenon, <1>1 DEF TaskRecords
    <3> QED
      BY Zenon, <3>1, RowUpdates DEF SMStates
  <2>2. task'[t] = [[Fresh EXCEPT !.sm = sm, !.listed = up, !.row = row, !.child = child, !.listening = listening]
                     EXCEPT !.rec = disk.rec[t], !.armed = armed]
    BY Zenon, <1>2 DEF Hydrated, Woken
  <2> HIDE DEF row, child, armed, listening, sm, up
  <2>3. /\ task'[t] \in TaskRecords /\ task'[t].rec = disk.rec[t] /\ task'[t].row = row
    BY Zenon, <2>1, <2>2 DEF Fresh, TaskRecords, QueuedActions
  <2> QED
    BY Zenon, <2>1, <2>3
<1>4. ch' \in Seq(Events)
  BY DEF Restart
<1>5. /\ disk' \in StateFiles /\ disk'.rec = disk.rec
      /\ \A t \in Tasks : disk'.row[t].gen = disk.row[t].gen /\ disk'.row[t] = task'[t].row
  <2> DEFINE rows == [t \in Tasks |-> task'[t].row]
  <2>1. rows \in [Tasks -> TrackerRows] /\ \A t \in Tasks : rows[t] = task'[t].row
    BY Zenon, <1>3
  <2>2. disk' = [disk EXCEPT !.row = rows]
    BY Zenon, <1>2
  <2> HIDE DEF rows
  <2>3. disk' \in StateFiles /\ disk'.rec = disk.rec /\ disk'.row = rows
    BY Zenon, <1>1, <2>1, <2>2 DEF StateFiles
  <2> QED
    BY Zenon, <1>3, <2>1, <2>3
<1>6. task' \in [Tasks -> TaskRecords]
  BY Zenon, <1>2, <1>3
<1>7. World' \in Worlds /\ World'.task = task' /\ World'.disk = disk'
  BY ZenonT(40), <1>4, <1>5, <1>6 DEF World, Worlds
<1>8. Fenced(World)' /\ Still(World, World')
  BY <1>1, <1>3, <1>5, <1>7 DEF Fenced, Still, Kept, World
<1>9. Mirrored(World)'
  BY Zenon, <1>2, <1>3, <1>5, ReadyLoop DEF Mirrored, Synced, World
<1>10. Around'
  BY ZenonT(40), <1>2, ReadyLoop, IdleProper, SpendGood DEF Inv, Around, Settling, Proper, Commands, NoCommand
<1> QED
  BY ZenonT(40), <1>7, <1>8, <1>9, <1>10 DEF Inv, Core, Steps

---------------------------------------------------------------------------
(* The theorems *)

\* Every step keeps the invariant and is a step of a stop, or of none.
LEMMA StepLemma ==
  ASSUME Inv, [Next]_vars
  PROVE  Inv' /\ Steps(World, World')
<1>1. CASE UNCHANGED vars
  <2>1. UNCHANGED <<task, disk, integrity, file, cache, watcher, ch, loop, settler, budget>>
    BY Zenon, <1>1 DEF vars
  <2>2. Core' /\ Steps(World, World')
    BY Zenon, <2>1, QuietStep, WorldGood
  <2>3. Around'
    BY Zenon, <2>1 DEF Inv, Around, Settling
  <2> QED
    BY Zenon, <2>2, <2>3 DEF Inv
<1>2. CASE Loop
  BY ZenonT(40), <1>2, ExitStep, ScanStep, IntentStep, BarrierStep, RejectStep, JoinStep, BeginStep, InstallStep,
     ApplyStep, ReplyStep, SkipStep, RecoveryStep DEF Loop
<1>3. ASSUME NEW s \in Slots, Settle(s) \/ Expire(s) \/ AbandonStop(s)
      PROVE  Inv' /\ Steps(World, World')
  BY ZenonT(40), <1>3, SnapshotStep, LookStep, ReadStep, FailStep, LeaveStep, ReleaseStep, RemoveStep, PostStep,
     ExpireStep, AbandonStep DEF Settle
<1>4. ASSUME NEW s \in Callers, RequestStop(s)
      PROVE  Inv' /\ Steps(World, World')
  BY Zenon, <1>4, RequestStep
<1>5. ASSUME NEW t \in Tasks, Process(t) \/ Die(t) \/ TimerDue(t) \/ RequestStart(t) \/ RecoveryTimer(t)
      PROVE  Inv' /\ Steps(World, World')
  BY ZenonT(40), <1>5, MarkStep, PostExitStep, ListenerStep, DieStep, TimerStep, StartStep, RecoveryTimerStep
     DEF Process
<1>6. CASE (\E S \in SUBSET Unarmed : TriggerRecovery(S)) \/ ReadIntent \/ PostIntent
  BY ZenonT(40), <1>6, TriggerStep, ReadIntentStep, PostIntentStep
<1>7. ASSUME NEW survivors \in SUBSET {t \in Tasks : task[t].child = "alive"}, Restart(survivors)
      PROVE  Inv' /\ Steps(World, World')
  <2>1. survivors \in SUBSET Tasks
    BY Zenon
  <2> QED
    BY ZenonT(40), <1>7, <2>1, RestartStep
<1> QED
  BY ZenonT(40), <1>1, <1>2, <1>3, <1>4, <1>5, <1>6, <1>7 DEF Next

\* The invariant holds at the start, where no stop is under way.
LEMMA InitLemma ==
  ASSUME Init
  PROVE  Inv
<1> DEFINE x == Running(Fresh)
<1>1. x \in TaskRecords /\ x.rec = NoReceipt /\ x.row \in TrackerRows
  <2>1. Absent \in TrackerRows /\ 1 \in Nat
    BY Zenon DEF Absent, TrackerRows, TrackerStates
  <2>2. MarkSpawned(Absent, Absent.gen + 1) \in TrackerRows
    BY <2>1, RowUpdates DEF Absent
  <2> DEFINE row == MarkSpawned(Absent, Absent.gen + 1)
  <2>3. x = [Fresh EXCEPT !.sm = "running", !.queued = "none", !.child = "alive", !.own = TRUE,
                          !.listening = TRUE, !.row = row]
    BY Zenon DEF Running, Fresh
  <2> HIDE DEF x, row
  <2> QED
    BY Zenon, <2>2, <2>3 DEF Fresh, TaskRecords, SMStates, QueuedActions, Receipts, row
<1> HIDE DEF x
<1>2. /\ task = [t \in Tasks |-> x] /\ integrity = FALSE /\ loop = Ready
      /\ disk = [row |-> [t \in Tasks |-> task[t].row], rec |-> [t \in Tasks |-> NoReceipt], epoch |-> 0]
      /\ file = [gen |-> 1, stopped |-> {}] /\ cache = file
      /\ watcher = [known |-> file, read |-> NoCommand] /\ ch = <<>>
      /\ settler = [s \in Slots |-> Idle] /\ budget \in Bounds
  BY Zenon, SettlementAssumptions DEF Init, x
<1>3. disk \in StateFiles /\ task \in [Tasks -> TaskRecords]
  BY ZenonT(40), <1>1, <1>2 DEF StateFiles, Receipts
<1>4. World \in Worlds /\ Fenced(World)
  BY <1>2, <1>3 DEF World, Worlds, Fenced
<1>5. Mirrored(World)
  BY Zenon, <1>1, <1>2, ReadyLoop DEF Mirrored, Synced, World
<1>6. Around
  BY Zenon, <1>2, ReadyLoop, IdleProper DEF Around, Settling, Proper, Commands, NoCommand
<1> QED
  BY Zenon, <1>4, <1>5, <1>6 DEF Inv, Core

\* The invariant holds in every reachable state: the receipts that memory and the
\* file hold, and the child each names, stay together (Core).
THEOREM Invariance == Spec => []Inv
<1>1. Init => Inv
  BY Zenon, InitLemma
<1>2. Inv /\ [Next]_vars => Inv'
  BY Zenon, StepLemma
<1> QED
  BY <1>1, <1>2, PTL DEF Spec

\* The state is well formed, for any daemons, callers and bounds; a receipt says
\* where it resumes only once it failed (nextStopSettlementReceipt).
THEOREM TypeCorrect == Spec => []TypeOK
<1>1. Inv => TypeOK
  BY Zenon, WorldGood DEF Inv, Around, Settling, TypeOK
<1> QED
  BY <1>1, Invariance, PTL

\* While a receipt is in the state file its daemon gets no new child
\* (admitCreateProcess).
THEOREM Fence == Spec => []FenceHolds
<1>1. Inv => FenceHolds
  BY Zenon, WorldGood DEF Fenced, FenceHolds
<1> QED
  BY <1>1, Invariance, PTL

\* The receipts in memory are those of the state file, unless an admission is
\* being installed or the tracker knows of its failure (IntegrityError).
THEOREM Mirror == Spec => []MirrorIsDurable
<1>1. Inv => MirrorIsDurable
  BY ZenonT(40), WorldGood DEF Inv, Core, Mirrored, Synced, MirrorIsDurable
<1> QED
  BY <1>1, Invariance, PTL

\* What StopTransaction sees of a step.
LEMMA StepsAreTransactions ==
  ASSUME Inv, Inv', Steps(World, World')
  PROVE  \/ Transaction!Next
         \/ UNCHANGED <<[t \in Tasks |-> [phase |-> EffectivePhase(disk.rec[t]), child |-> disk.rec[t].gen]],
                        [t \in Tasks |-> task[t].row.gen]>>
<1> DEFINE stop == [t \in Tasks |-> Abs(disk.rec[t])]
           current == [t \in Tasks |-> task[t].row.gen]
           stopNext == [t \in Tasks |-> Abs(disk'.rec[t])]
           currentNext == [t \in Tasks |-> task'[t].row.gen]
<1>1. World.task = task /\ World.disk = disk /\ World'.task = task' /\ World'.disk = disk'
  BY Zenon DEF World
<1>2. CASE Still(World, World')
  BY Zenon, <1>1, <1>2 DEF Still, Kept, Abs
<1>3. ASSUME NEW S \in SUBSET Tasks, Begun(World, World', S)
      PROVE  Transaction!Begin(S)
  <2> DEFINE at == [t \in S |-> EffectivePhase(disk'.rec[t])]
  <2>1. at \in [S -> {"stop_requested", "exit_observed"}]
    BY Zenon, <1>1, <1>3 DEF Begun
  <2>2. \A t \in S : Abs(disk.rec[t]) = [phase |-> "none", child |-> 0]
    BY <1>1, <1>3 DEF Begun, Abs, NoReceipt, EffectivePhase
  <2>3. stopNext = [t \in Tasks |-> IF t \in S THEN [phase |-> at[t], child |-> current[t]] ELSE stop[t]]
    BY Zenon, <1>1, <1>3 DEF Begun, Kept, Abs
  <2>4. currentNext = current
    BY Zenon, <1>1, <1>3 DEF Begun, Kept
  <2> QED
    BY ZenonT(40), <2>1, <2>2, <2>3, <2>4 DEF Transaction!Begin, Transaction!None, Abs
<1>4. ASSUME NEW t \in Tasks, Moved(World, World', t, "exit_observed")
      PROVE  Transaction!ObserveExit(t)
  <2>1. /\ Abs(disk.rec[t]).phase = "stop_requested"
        /\ stopNext = [stop EXCEPT ![t].phase = "exit_observed"] /\ currentNext = current
    BY ZenonT(40), <1>1, <1>4 DEF Moved, Legal, Kept, Abs, EffectivePhase
  <2> QED
    BY Zenon, <2>1 DEF Transaction!ObserveExit, Transaction!Advance, Abs
<1>5. ASSUME NEW t \in Tasks, Moved(World, World', t, "port_released")
      PROVE  Transaction!ReleasePort(t)
  <2>1. /\ Abs(disk.rec[t]).phase = "exit_observed"
        /\ stopNext = [stop EXCEPT ![t].phase = "port_released"] /\ currentNext = current
    BY ZenonT(40), <1>1, <1>5 DEF Moved, Legal, Kept, Abs, EffectivePhase
  <2> QED
    BY <2>1 DEF Transaction!ReleasePort, Transaction!Advance, Abs
<1>6. ASSUME NEW t \in Tasks, Removed(World, World', t)
      PROVE  Transaction!Commit(t)
  <2>1. /\ Abs(disk.rec[t]).phase = "port_released"
        /\ stopNext = [stop EXCEPT ![t] = [phase |-> "none", child |-> 0]] /\ currentNext = current
    <3>1. /\ Abs(disk.rec[t]).phase = "port_released" /\ Abs(disk'.rec[t]) = [phase |-> "none", child |-> 0]
      BY <1>1, <1>6 DEF Removed, Abs, EffectivePhase, NoReceipt
    <3> QED
      BY Zenon, <1>1, <1>6, <3>1 DEF Removed, Kept
  <2> QED
    BY Zenon, <2>1 DEF Transaction!Commit, Transaction!None, Abs
<1>7. ASSUME NEW t \in Tasks, Spawned(World, World', t)
      PROVE  Transaction!Spawn(t)
  <2>1. /\ Abs(disk.rec[t]) = [phase |-> "none", child |-> 0]
        /\ stopNext = stop /\ currentNext = [current EXCEPT ![t] = @ + 1]
    <3>1. Abs(disk.rec[t]) = [phase |-> "none", child |-> 0] /\ Abs(disk'.rec[t]) = Abs(disk.rec[t])
      BY <1>1, <1>7 DEF Spawned, Abs, EffectivePhase, NoReceipt
    <3> QED
      BY ZenonT(40), <1>1, <1>7, <3>1 DEF Spawned, Kept
  <2> QED
    BY Zenon, <2>1 DEF Transaction!Spawn, Transaction!None, Abs
<1> QED
  BY <1>2, <1>3, <1>4, <1>5, <1>6, <1>7 DEF Steps, Transaction!Next

\* The receipts of the state file are stop transactions: the durable stop, with
\* its failures, retries, stale settlements and crashes, implements
\* StopTransaction (BeginStopSettlementBatch, AdvanceStopSettlement,
\* RemoveStopSettlement, recoverStopReceiptOnLoop).
THEOREM Refinement == Spec => IsTransaction
<1>1. Init => Transaction!Init
  <2> SUFFICES ASSUME Init PROVE Transaction!Init
    OBVIOUS
  <2>1. Inv /\ disk.rec = [t \in Tasks |-> NoReceipt]
    BY Zenon, InitLemma DEF Init
  <2>2. \A t \in Tasks : task[t].row.gen \in Nat
    BY Zenon, <2>1, WorldGood DEF TaskRecords, TrackerRows
  <2> QED
    BY <2>1, <2>2 DEF Transaction!Init, Transaction!None, NoReceipt, EffectivePhase
<1>2. Inv /\ Inv' /\ [Next]_vars =>
        [Transaction!Next]_<<[t \in Tasks |-> [phase |-> EffectivePhase(disk.rec[t]), child |-> disk.rec[t].gen]],
                             [t \in Tasks |-> task[t].row.gen]>>
  BY Zenon, StepLemma, StepsAreTransactions
<1> QED
  BY <1>1, <1>2, Invariance, PTL DEF Spec, IsTransaction, Transaction!Spec

---------------------------------------------------------------------------
(* The child that is alive, and the recovery that is queued *)

\* An event of two queues, one after the other, is in one place if it is so in one
\* of them and not in the other.
LEMMA OnceTogether ==
  ASSUME NEW q \in Seq(Events), NEW p \in Seq(Events), NEW c, Once(q, c), Once(p, c),
         c \notin Queued(q) \/ c \notin Queued(p)
  PROVE  Once(q \o p, c)
<1> SUFFICES ASSUME NEW i \in DOMAIN (q \o p), NEW j \in DOMAIN (q \o p), (q \o p)[i] = c, (q \o p)[j] = c
             PROVE  i = j
  BY Zenon DEF Once
<1>1. ASSUME NEW k \in DOMAIN (q \o p), (q \o p)[k] = c
      PROVE  \/ k \in DOMAIN q /\ q[k] = c /\ c \in Queued(q)
             \/ k - Len(q) \in DOMAIN p /\ p[k - Len(q)] = c /\ c \in Queued(p)
  <2>1. CASE k \in DOMAIN q
    BY <1>1, <2>1 DEF Queued
  <2>2. CASE k \notin DOMAIN q
    <3>1. k - Len(q) \in DOMAIN p /\ p[k - Len(q)] = c
      BY <1>1, <2>2
    <3> QED
      BY Zenon, <3>1 DEF Queued
  <2> QED
    BY ZenonT(40), <2>1, <2>2
<1>2. i \in Int /\ j \in Int /\ Len(q) \in Int
  OBVIOUS
<1>3. CASE c \notin Queued(q)
  <2>1. /\ i - Len(q) \in DOMAIN p /\ p[i - Len(q)] = c
        /\ j - Len(q) \in DOMAIN p /\ p[j - Len(q)] = c
    BY Zenon, <1>1, <1>3
  <2>2. i - Len(q) = j - Len(q)
    BY Zenon, <2>1 DEF Once
  <2> QED
    BY <1>2, <2>2
<1>4. CASE c \notin Queued(p)
  <2>1. i \in DOMAIN q /\ q[i] = c /\ j \in DOMAIN q /\ q[j] = c
    BY Zenon, <1>1, <1>4
  <2> QED
    BY Zenon, <2>1 DEF Once
<1> QED
  BY Zenon, <1>3, <1>4

\* The recoveries of the daemons of S are queued, each with its token; other
\* events than exits and recoveries are as well.
LEMMA QueueSound ==
  ASSUME NEW w \in Worlds, NEW v \in Worlds, NEW S \in SUBSET Tasks, NEW p \in Seq(Events), Sound(w),
         v.disk = w.disk, v.ch = w.ch \o p, \A e \in Queued(p) : e.kind # "exit",
         \A u \in S : w.task[u].armed # "queued",
         \A u \in Tasks : /\ v.task[u].row = w.task[u].row /\ v.task[u].sm = w.task[u].sm
                          /\ v.task[u].child = w.task[u].child
                          /\ v.task[u].armed = IF u \in S THEN "queued" ELSE w.task[u].armed
                          /\ Recover(u) \in Queued(p) <=> u \in S
                          /\ Once(p, Recover(u))
  PROVE  Sound(v)
<1>1. w.ch \in Seq(Events)
  BY DEF Worlds
<1>2. Queued(v.ch) = Queued(w.ch) \cup Queued(p)
  <2>1. Queued(w.ch \o p) = Queued(w.ch) \cup Queued(p)
    BY Zenon, <1>1, QueuedEvents
  <2> QED
    BY Zenon, <2>1
<1>3. Living(v)
  <2>1. Ages(w, v) /\ ExitsOf(w, v)
    BY ZenonT(40), <1>2 DEF Ages, ExitsOf, Sound, Living, InMemory, OnDisk
  <2> QED
    BY Zenon, <2>1, AgesLiving DEF Sound
<1>4. Unexited(v)
  BY Zenon DEF Sound, Unexited
<1>5. Tokens(v)
  <2> SUFFICES ASSUME NEW u \in Tasks
               PROVE  /\ v.task[u].armed = "queued" <=> Recover(u) \in Queued(v.ch)
                      /\ Once(v.ch, Recover(u))
    BY Zenon DEF Tokens
  <2>1. /\ w.task[u].armed = "queued" <=> Recover(u) \in Queued(w.ch)
        /\ Once(w.ch, Recover(u)) /\ Once(p, Recover(u))
    BY Zenon DEF Sound, Tokens
  <2>2. Recover(u) \notin Queued(w.ch) \/ Recover(u) \notin Queued(p)
    BY Zenon, <2>1
  <2>3. Once(w.ch \o p, Recover(u))
    BY ZenonT(40), <1>1, <2>1, <2>2, OnceTogether
  <2>4. v.task[u].armed = "queued" <=> Recover(u) \in Queued(v.ch)
    BY Zenon, <1>2, <2>1
  <2> QED
    BY Zenon, <2>3, <2>4
<1> QED
  BY Zenon, <1>3, <1>4, <1>5 DEF Sound

\* A queue of one.
LEMMA OneEvent ==
  ASSUME NEW e \in Events
  PROVE  <<e>> \in Seq(Events) /\ Queued(<<e>>) = {e} /\ \A c : Once(<<e>>, c)
BY DEF Queued, Once

\* The recoveries of a set of daemons, in any order.
LEMMA OrderOnce ==
  ASSUME NEW S \in SUBSET Tasks, NEW order \in Orders(S),
         NEW g, g = [i \in DOMAIN order |-> Recover(order[i])]
  PROVE  /\ \A e \in Queued(g) : e.kind = "recover"
         /\ \A u \in Tasks : (Recover(u) \in Queued(g) <=> u \in S) /\ Once(g, Recover(u))
<1>1. /\ \A i \in DOMAIN order : order[i] \in S
      /\ \A i, j \in DOMAIN order : order[i] = order[j] => i = j
      /\ \A u \in S : \E i \in DOMAIN order : order[i] = u
  BY Zenon DEF Orders, Bijection, Injection, Surjection, IsInjective
<1>2. DOMAIN g = DOMAIN order /\ \A i \in DOMAIN order : g[i] = Recover(order[i])
  BY Zenon
<1>3. \A u : Recover(u).kind = "recover" /\ Recover(u).task = u
  BY Zenon DEF Recover
<1>4. \A e \in Queued(g) : e.kind = "recover"
  BY <1>2, <1>3 DEF Queued
<1>5. ASSUME NEW u \in Tasks PROVE Recover(u) \in Queued(g) <=> u \in S
  <2>1. ASSUME NEW i \in DOMAIN order, Recover(order[i]) = Recover(u) PROVE u \in S
    <3>1. order[i] = u
      BY Zenon, <1>3, <2>1
    <3> QED
      BY Zenon, <1>1, <3>1
  <2>2. ASSUME u \in S PROVE Recover(u) \in Queued(g)
    BY Zenon, <1>1, <1>2, <2>2 DEF Queued
  <2> QED
    BY Zenon, <1>2, <2>1, <2>2 DEF Queued
<1>6. ASSUME NEW u \in Tasks PROVE Once(g, Recover(u))
  <2>1. ASSUME NEW i \in DOMAIN order, NEW j \in DOMAIN order, Recover(order[i]) = Recover(order[j])
        PROVE  i = j
    <3>1. order[i] = order[j]
      BY ZenonT(40), <1>3, <2>1
    <3> QED
      BY Zenon, <1>1, <3>1
  <2> QED
    BY Zenon, <1>2, <2>1 DEF Once
<1> QED
  BY Zenon, <1>4, <1>5, <1>6

\* FailReceipt, ReleasePort and RemoveReceipt keep the world sound.
LEMMA CommitSound ==
  ASSUME Inv, Sound(World), NEW s \in Slots, NEW ok \in BOOLEAN,
         FailReceipt(s, ok) \/ ReleasePort(s, ok) \/ RemoveReceipt(s, ok)
  PROVE  Sound(World')
<1> DEFINE t == Head(settler[s].targets)
           r == settler[s].held
           x == Advance(World, t, r, "failed", ok)
           y == Advance(World, t, r, "port_released", ok)
           z == Put(World, t, NoReceipt)
<1>1. settler[s].pc # "idle"
  BY Zenon DEF FailReceipt, ReleasePort, RemoveReceipt
<1>2. t \in Tasks /\ r \in Receipts /\ World \in Worlds /\ Fenced(World)
  BY Zenon, <1>1, FirstTarget, WorldGood DEF Inv
<1>3. \/ Become(Arm(IF r.phase = "failed" THEN World ELSE x, t))
      \/ Become(y) \/ Become(World) \/ Become(Arm(World, t))
      \/ Become(z) /\ SameRevision(World, t, r) /\ r.phase = "port_released"
  BY Zenon DEF FailReceipt, ReleasePort, RemoveReceipt
<1> HIDE DEF t, r
<1>4. x \in Worlds /\ Fenced(x) /\ Sound(x) /\ y \in Worlds /\ Sound(y)
  <2>1. "port_released" \in Phases \cup {"failed"} /\ "failed" \in Phases \cup {"failed"}
    BY Zenon DEF Phases
  <2>2. Replaced(World, x, t) /\ Replaced(World, y, t)
    BY <1>2, <2>1, AdvanceGood
  <2>3. Sound(x) /\ Sound(y)
    BY Zenon, <1>2, <2>1, AdvanceSound
  <2> HIDE DEF x, y
  <2> QED
    BY Zenon, <2>2, <2>3 DEF Replaced
<1>5. SameRevision(World, t, r) => z \in Worlds /\ Sound(z)
  <2>1. NoReceipt \in Receipts /\ EffectivePhase(NoReceipt) = "none"
    BY Zenon DEF Receipts, EffectivePhase, NoReceipt
  <2>2. z \in Worlds
    BY Zenon, <1>2, <2>1, PutGood DEF Replaced
  <2>3. Sound(z)
    BY ZenonT(40), <1>2, <2>1, <2>2, PutSound
  <2> QED
    BY Zenon, <2>2, <2>3
<1> HIDE DEF x, y, z
<1>6. /\ Arm(World, t) \in Worlds /\ Sound(Arm(World, t))
      /\ Arm(x, t) \in Worlds /\ Sound(Arm(x, t))
  BY ZenonT(40), <1>2, <1>4, ArmGood, ArmSound DEF Replaced
<1> QED
  BY ZenonT(40), <1>2, <1>3, <1>4, <1>5, <1>6, Follows

\* Events other than exits and recoveries are posted.
LEMMA PostedSound ==
  ASSUME Inv, Inv', Sound(World), UNCHANGED <<task, disk>>, NEW p \in Seq(Events), ch' = ch \o p,
         \A e \in Queued(p) : e.kind \notin {"exit", "recover"}
  PROVE  Sound(World')
<1> DEFINE v == World'
<1>1. /\ World \in Worlds /\ v \in Worlds /\ v.task = World.task /\ v.disk = World.disk /\ v.ch = World.ch \o p
  BY Zenon, WorldGood DEF World, Inv, Core
<1>2. ASSUME NEW u \in Tasks PROVE Recover(u) \notin Queued(p) /\ Once(p, Recover(u))
  <2>1. Recover(u).kind = "recover"
    BY Zenon DEF Recover
  <2>2. Recover(u) \notin Queued(p)
    BY Zenon, <2>1
  <2> QED
    BY Zenon, <2>2 DEF Once, Queued
<1> HIDE DEF v
<1>3. {} \in SUBSET Tasks
  BY Zenon
<1>4. Sound(v)
  BY ZenonT(40), <1>1, <1>2, <1>3, QueueSound
<1> QED
  BY Zenon, <1>4 DEF v

\* PostBatch
LEMMA PostBatchSound ==
  ASSUME Inv, Sound(World), NEW s \in Slots, PostBatch(s)
  PROVE  Sound(World')
<1> DEFINE e == [kind |-> "batch", slot |-> s, targets |-> settler[s].targets, snap |-> settler[s].snap]
<1>1. settler[s].pc = "post" /\ ch' = Append(ch, e) /\ UNCHANGED <<task, disk>>
  BY DEF PostBatch
<1>2. e \in Events /\ e.kind = "batch"
  BY <1>1, FirstTarget DEF Inv, Settlers, Events
<1> HIDE DEF e
<1>3. ch \in Seq(Events) /\ Inv'
  BY Zenon, WorldGood, PostStep
<1>4. <<e>> \in Seq(Events) /\ Queued(<<e>>) = {e}
  BY ZenonT(40), <1>2, OneEvent
<1>5. ch' = ch \o <<e>>
  BY <1>1, <1>2, <1>3
<1>6. \A d \in Queued(<<e>>) : d.kind \notin {"exit", "recover"}
  BY Zenon, <1>2, <1>4
<1> DEFINE p == <<e>>
<1> HIDE DEF p
<1> QED
  BY ZenonT(40), <1>1, <1>3, <1>4, <1>5, <1>6, PostedSound DEF p

\* PostIntent
LEMMA PostIntentSound ==
  ASSUME Inv, Sound(World), PostIntent
  PROVE  Sound(World')
<1> DEFINE S == {t \in Tasks : Desired(watcher.read, t) # Desired(watcher.known, t)}
           e == [kind |-> "scan", snap |-> watcher.read]
<1>1. PICK delta \in Orders(S) : ch' = ch \o <<e>> \o [i \in DOMAIN delta |-> IntentUpdate(delta[i])]
  BY Zenon DEF PostIntent
<1> DEFINE f == [i \in DOMAIN delta |-> IntentUpdate(delta[i])]
<1>2. UNCHANGED <<task, disk>> /\ Inv' /\ S \in SUBSET Tasks
  BY ZenonT(40), PostIntentStep DEF PostIntent
<1>3. e \in Events /\ e.kind = "scan" /\ ch \in Seq(Events)
  BY Zenon, WorldGood DEF Inv, Around, Events
<1> HIDE DEF S, e
<1>4. <<e>> \in Seq(Events) /\ Queued(<<e>>) = {e}
  BY Zenon, <1>3, OneEvent
<1>5. <<e>> \o f \in Seq(Events) /\ f \in Seq(Events)
  <2>1. \A q \in Seq(Events) : q \o f \in Seq(Events)
    BY Zenon, <1>2, OrderGood
  <2>2. f \in Seq(Events)
    <3>1. PICK n \in Nat : delta \in [1..n -> S]
      <4>1. Cardinality(S) \in Nat
        BY ZenonT(40), <1>2, SettlementAssumptions
      <4> QED
        BY Zenon, <4>1 DEF Orders, Bijection, Injection
    <3>2. \A t \in Tasks : IntentUpdate(t) \in Events
      BY Zenon DEF IntentUpdate, Events
    <3>3. f \in [1..n -> Events]
      BY ZenonT(40), <1>2, <3>1, <3>2
    <3> HIDE DEF f
    <3> QED
      BY <3>1, <3>3
  <2> QED
    BY Zenon, <1>4, <2>1, <2>2
<1>6. \A d \in Queued(f) : d.kind = "intent"
  BY DEF Queued, IntentUpdate
<1>7. ch' = ch \o <<e>> \o f
  BY Zenon, <1>1
<1> HIDE DEF f
<1> DEFINE p == <<e>> \o f
<1>8. ch' = ch \o p
  BY SMTT(40), <1>3, <1>4, <1>5, <1>7
<1>9. Queued(p) = {e} \cup Queued(f)
  BY <1>3, <1>5, QueuedEvents
<1>10. p \in Seq(Events) /\ \A d \in Queued(p) : d.kind \notin {"exit", "recover"}
  BY ZenonT(40), <1>3, <1>5, <1>6, <1>9
<1> HIDE DEF p
<1> QED
  BY ZenonT(40), <1>2, <1>8, <1>10, PostedSound

\* TriggerRecovery and RecoveryTimer queue a recovery with its token.
LEMMA TriggerSound ==
  ASSUME Inv, Sound(World), NEW S \in SUBSET Unarmed, TriggerRecovery(S)
  PROVE  Sound(World')
<1> DEFINE w == World
           v == World'
<1>1. /\ task' = [t \in Tasks |-> IF t \in S THEN [task[t] EXCEPT !.armed = "queued"] ELSE task[t]]
      /\ UNCHANGED disk
  BY Zenon DEF TriggerRecovery
<1>2. PICK order \in Orders(S) : ch' = ch \o [i \in DOMAIN order |-> Recover(order[i])]
  BY Zenon DEF TriggerRecovery
<1> DEFINE p == [i \in DOMAIN order |-> Recover(order[i])]
<1>3. S \in SUBSET Tasks /\ \A u \in S : task[u].armed # "queued"
  BY Zenon DEF Unarmed
<1>4. /\ p \in Seq(Events) /\ \A e \in Queued(p) : e.kind = "recover"
      /\ \A u \in Tasks : (Recover(u) \in Queued(p) <=> u \in S) /\ Once(p, Recover(u))
  <2>1. ch \in Seq(Events)
    BY Zenon, WorldGood
  <2>2. p \in Seq(Events)
    BY Zenon, <1>3, <2>1, OrderGood
  <2> QED
    BY <1>3, <2>2, OrderOnce
<1>5. ch' = ch \o p
  BY Zenon, <1>2
<1> HIDE DEF p
<1>6. \A u \in Tasks : /\ task'[u].row = task[u].row /\ task'[u].sm = task[u].sm
                       /\ task'[u].child = task[u].child
                       /\ task'[u].armed = IF u \in S THEN "queued" ELSE task[u].armed
  BY Zenon, <1>1, WorldGood DEF TaskRecords
<1>7. /\ w \in Worlds /\ w.task = task /\ v \in Worlds /\ v.task = task'
      /\ v.disk = w.disk /\ v.ch = w.ch \o p /\ Sound(w)
  BY ZenonT(40), <1>1, <1>5, TriggerStep, WorldGood DEF World, Inv, Core
<1> HIDE DEF w, v
<1>8. /\ \A u \in S : w.task[u].armed # "queued"
      /\ \A e \in Queued(p) : e.kind # "exit"
      /\ \A u \in Tasks : /\ v.task[u].row = w.task[u].row /\ v.task[u].sm = w.task[u].sm
                          /\ v.task[u].child = w.task[u].child
                          /\ v.task[u].armed = IF u \in S THEN "queued" ELSE w.task[u].armed
                          /\ Recover(u) \in Queued(p) <=> u \in S
                          /\ Once(p, Recover(u))
  BY ZenonT(40), <1>3, <1>4, <1>6, <1>7
<1>9. Sound(v)
  BY ZenonT(40), <1>3, <1>4, <1>7, <1>8, QueueSound
<1> QED
  BY Zenon, <1>9 DEF v

LEMMA RecoveryTimerSound ==
  ASSUME Inv, Sound(World), NEW t \in Tasks, RecoveryTimer(t)
  PROVE  Sound(World')
<1> DEFINE w == World
           v == World'
           S == {t}
           e == Recover(t)
           x == [World EXCEPT !.task[t].armed = "queued", !.ch = Append(@, e)]
<1>1. /\ task \in [Tasks -> TaskRecords] /\ ch \in Seq(Events) /\ World \in Worlds
      /\ World.task = task /\ World.ch = ch /\ World.disk = disk
  BY WorldGood
<1>2. e \in Events /\ e.kind = "recover" /\ \A u \in Tasks : e = Recover(u) <=> u = t
  BY Zenon DEF Recover, Events
<1>3. task[t].armed = "timer" /\ Become(x)
  BY Zenon DEF RecoveryTimer
<1>4. v \in Worlds /\ v.task = task' /\ v.disk = disk' /\ v.ch = ch'
  BY Zenon, RecoveryTimerStep DEF World, Inv, Core
<1> HIDE DEF e
<1>5. task' = [task EXCEPT ![t].armed = "queued"] /\ disk' = disk /\ ch' = Append(ch, e)
  BY Zenon, <1>3 DEF Become, World
<1> HIDE DEF v
<1>6. <<e>> \in Seq(Events) /\ Queued(<<e>>) = {e} /\ \A c : Once(<<e>>, c)
  BY Zenon, <1>2, OneEvent
<1>7. ch' = ch \o <<e>>
  BY <1>1, <1>2, <1>5
<1>8. \A u \in Tasks : /\ task'[u].row = task[u].row /\ task'[u].sm = task[u].sm
                       /\ task'[u].child = task[u].child
                       /\ task'[u].armed = IF u = t THEN "queued" ELSE task[u].armed
  BY <1>1, <1>5 DEF TaskRecords
<1> DEFINE p == <<e>>
<1>9. S \in SUBSET Tasks /\ p \in Seq(Events) /\ \A c \in Queued(p) : c.kind # "exit"
  BY Zenon, <1>2, <1>6
<1>10. /\ w \in Worlds /\ w.task = task /\ Sound(w) /\ v.ch = w.ch \o p /\ v.disk = w.disk
  BY ZenonT(40), <1>1, <1>4, <1>5, <1>7
<1>11. \A u \in Tasks : (Recover(u) \in Queued(p) <=> u \in S) /\ Once(p, Recover(u))
  BY Zenon, <1>2, <1>6
<1>12. \A u \in Tasks : u \in S <=> u = t
  BY Zenon
<1> HIDE DEF p, w, S
<1>13. /\ \A u \in S : w.task[u].armed # "queued"
       /\ \A u \in Tasks : /\ v.task[u].row = w.task[u].row /\ v.task[u].sm = w.task[u].sm
                           /\ v.task[u].child = w.task[u].child
                           /\ v.task[u].armed = IF u \in S THEN "queued" ELSE w.task[u].armed
                           /\ Recover(u) \in Queued(p) <=> u \in S
                           /\ Once(p, Recover(u))
  BY ZenonT(40), <1>3, <1>4, <1>8, <1>9, <1>10, <1>11, <1>12
<1>14. Sound(v)
  BY ZenonT(40), <1>4, <1>9, <1>10, <1>13, QueueSound
<1> QED
  BY <1>14 DEF v

\* Die, MarkExit and ReleaseListener change one daemon whose child is gone then.
LEMMA OneDaemonSound ==
  ASSUME Inv, Inv', Sound(World), UNCHANGED <<disk, ch>>, NEW t \in Tasks, NEW c, task' = [task EXCEPT ![t] = c],
         c.row.gen = task[t].row.gen, c.armed = task[t].armed, c.child # "alive"
  PROVE  Sound(World')
<1> DEFINE w == World
           v == World'
<1>1. /\ w \in Worlds /\ w.task = task /\ w.ch = ch /\ w.disk = disk /\ Sound(w)
      /\ task \in [Tasks -> TaskRecords]
  BY Zenon, WorldGood
<1>2. v \in Worlds /\ v.task = task' /\ v.disk = disk /\ v.ch = ch
  BY Zenon DEF World, Inv, Core
<1> HIDE DEF w, v
<1>3. /\ v.task[t].row.gen = w.task[t].row.gen /\ v.task[t].armed = w.task[t].armed
      /\ v.task[t].child # "alive" /\ \A u \in Tasks \ {t} : v.task[u] = w.task[u]
      /\ v.ch = w.ch /\ v.disk.row = w.disk.row
      /\ \A u \in Tasks \ {t} : v.disk.rec[u] = w.disk.rec[u]
      /\ v.task[t].armed = "queued" <=> w.task[t].armed = "queued"
  BY <1>1, <1>2
<1>4. Sound(v)
  BY ZenonT(40), <1>1, <1>2, <1>3, DaemonSound
<1> QED
  BY Zenon, <1>4 DEF v

LEMMA ProcessSound ==
  ASSUME Inv, Sound(World), NEW t \in Tasks, Die(t) \/ MarkExit(t) \/ ReleaseListener(t)
  PROVE  Sound(World')
<1>1. task[t] \in TaskRecords /\ task[t].row \in TrackerRows /\ task[t].row.gen \in Nat
      /\ task \in [Tasks -> TaskRecords]
  BY Zenon, WorldGood DEF TaskRecords, TrackerRows
<1>2. Inv'
  BY Zenon, DieStep, MarkStep, ListenerStep
<1>3. CASE Die(t)
  <2> DEFINE c == [task[t] EXCEPT !.child = IF task[t].own THEN "dead" ELSE "none"]
  <2>1. task' = [task EXCEPT ![t] = c] /\ UNCHANGED <<disk, ch>>
    BY Zenon, <1>3 DEF Die
  <2>2. c.row.gen = task[t].row.gen /\ c.armed = task[t].armed /\ c.child # "alive"
    BY ZenonT(40), <1>1 DEF TaskRecords
  <2> HIDE DEF c
  <2> QED
    BY ZenonT(40), <1>2, <2>1, <2>2, OneDaemonSound
<1>4. CASE MarkExit(t)
  <2> DEFINE row == MarkExitedIfCurrent(task[t].row, task[t].row.gen)
             c == [task[t] EXCEPT !.child = "marked", !.row = row]
  <2>1. task' = [task EXCEPT ![t] = c] /\ UNCHANGED <<disk, ch>>
    BY Zenon, <1>4 DEF MarkExit
  <2>2. row.gen = task[t].row.gen
    BY Zenon, <1>1, RowUpdates
  <2> HIDE DEF row
  <2>3. c.row.gen = task[t].row.gen /\ c.armed = task[t].armed /\ c.child # "alive"
    BY ZenonT(40), <1>1, <2>2 DEF TaskRecords
  <2> HIDE DEF c
  <2> QED
    BY Zenon, <1>2, <2>1, <2>3, OneDaemonSound
<1>5. CASE ReleaseListener(t)
  <2> DEFINE c == [task[t] EXCEPT !.listening = FALSE]
  <2>1. task' = [task EXCEPT ![t] = c] /\ UNCHANGED <<disk, ch>>
    BY Zenon, <1>5 DEF ReleaseListener
  <2>2. c.row.gen = task[t].row.gen /\ c.armed = task[t].armed /\ c.child # "alive"
    BY Zenon, <1>1, <1>5 DEF TaskRecords, ReleaseListener
  <2> HIDE DEF c
  <2> QED
    BY Zenon, <1>2, <2>1, <2>2, OneDaemonSound
<1> QED
  BY ZenonT(40), <1>3, <1>4, <1>5

\* PostExit: the exit is of the child that is gone.
LEMMA PostExitSound ==
  ASSUME Inv, Sound(World), NEW t \in Tasks, PostExit(t)
  PROVE  Sound(World')
<1> DEFINE w == World
           x == [w EXCEPT !.task[t].child = "none"]
           y == PersistTo(x)
           e == Exit(t, task[t].row.gen)
           q == Append(y.ch, e)
           v == [y EXCEPT !.ch = q]
<1>1. Become(v) /\ loop.pc # "install"
  BY Zenon DEF PostExit
<1>2. Good(w) /\ w \in Worlds /\ Sound(w) /\ w.task = task /\ task[t].row.gen \in Nat
  BY Zenon, <1>1, WorldGood DEF TaskRecords, TrackerRows
<1>3. e \in Events /\ e.kind = "exit" /\ e.task = t /\ e.gen = w.task[t].row.gen
  BY Zenon, <1>2 DEF Exit, Events
<1> HIDE DEF w, e
<1>4. /\ x \in Worlds /\ x.disk = w.disk /\ x.ch = w.ch /\ x.task[t].row = w.task[t].row
      /\ x.task[t].rec = w.task[t].rec /\ \A u \in Tasks \ {t} : x.task[u] = w.task[u]
  BY <1>2, ChildUpdate
<1>5. x.task[t].child = "none" /\ x.task[t].armed = w.task[t].armed
  BY Zenon, <1>2 DEF Worlds, TaskRecords
<1> HIDE DEF x
<1>6. Good(x)
  BY Zenon, <1>2, <1>4, QuietUpdate
<1>7. Sound(x)
  <2>1. /\ x.ch = w.ch /\ x.disk.row = w.disk.row /\ x.task[t].row.gen = w.task[t].row.gen
        /\ x.task[t].armed = "queued" <=> w.task[t].armed = "queued"
        /\ \A u \in Tasks \ {t} : x.disk.rec[u] = w.disk.rec[u]
        /\ x.task[t].child # "alive"
    BY Zenon, <1>4, <1>5
  <2> QED
    BY ZenonT(40), <1>2, <1>4, <2>1, DaemonSound
<1>8. Good(y) /\ Sound(y) /\ y \in Worlds /\ y.task = x.task
  BY ZenonT(40), <1>6, <1>7, PersistGood, SaveSound DEF Good
<1> HIDE DEF y
<1>9. q \in Seq(Events)
  BY <1>3, <1>8 DEF Worlds
<1>10. v \in Worlds /\ v.task = y.task /\ v.disk = y.disk /\ v.ch = q
  BY Zenon, <1>8, <1>9 DEF Worlds
<1>11. y.task[e.task].child # "alive" /\ e.gen = y.task[e.task].row.gen
  BY Zenon, <1>3, <1>4, <1>5, <1>8
<1> HIDE DEF v
<1>12. Sound(v)
  BY ZenonT(40), <1>3, <1>8, <1>10, <1>11, PostSound
<1>13. World' = v
  BY Zenon, <1>1, <1>10, Follows
<1> QED
  BY Zenon, <1>12, <1>13

\* Restart: the children that survived are the ones that the file tells of, and
\* no recovery is queued yet.
LEMMA RestartSound ==
  ASSUME Inv, Sound(World), NEW survivors \in SUBSET {t \in Tasks : task[t].child = "alive"}, Restart(survivors)
  PROVE  Sound(World')
<1> DEFINE v == World'
<1>1. /\ World.task = task /\ World.disk = disk /\ disk.row \in [Tasks -> TrackerRows]
      /\ disk \in StateFiles
  BY Zenon, WorldGood DEF StateFiles
<1>2. /\ task' = [t \in Tasks |-> Hydrated(t, t \in survivors)]
      /\ disk' = [disk EXCEPT !.row = [t \in Tasks |-> task'[t].row]] /\ ch' = <<>>
  BY Zenon DEF Restart
<1>5. Queued(ch') = {} /\ \A e : Once(ch', e)
  BY <1>2 DEF Queued, Once
<1>6. ASSUME NEW u \in Tasks
      PROVE  /\ task'[u].armed # "queued"
             /\ task'[u].child = "alive" =>
                  task'[u].sm = "running" /\ task'[u].row = disk.row[u] /\ disk.row[u].pid # 0
                  /\ task[u].child = "alive"
  <2>1. u \in survivors => task[u].child = "alive" /\ disk.row[u].pid # 0
    BY Zenon, <1>1 DEF Sound, Living, OnDisk
  <2>2. /\ task'[u].armed = IF disk.rec[u] = NoReceipt THEN "no" ELSE "timer"
        /\ task'[u].child = IF u \in survivors THEN "alive" ELSE "none"
        /\ u \in survivors /\ disk.row[u].pid # 0 => task'[u].sm = "running" /\ task'[u].row = disk.row[u]
    BY Zenon, <1>2 DEF Hydrated, Woken, Fresh
  <2> QED
    BY Zenon, <2>1, <2>2
<1>7. disk'.rec = disk.rec /\ \A u \in Tasks : disk'.row[u] = task'[u].row
  BY Zenon, <1>1, <1>2 DEF StateFiles
<1>8. v.task = task' /\ v.disk = disk' /\ v.ch = ch'
  BY Zenon DEF World
<1> HIDE DEF v
<1>9. InMemory(v) /\ OnDisk(v)
  BY SMTT(40), <1>5, <1>6, <1>7, <1>8 DEF InMemory, OnDisk
<1>10. Tokens(v)
  BY Zenon, <1>5, <1>6, <1>8 DEF Tokens
<1>11. Unexited(v)
  BY ZenonT(40), <1>1, <1>6, <1>7, <1>8 DEF Unexited, Sound
<1> QED
  BY ZenonT(40), <1>9, <1>10, <1>11 DEF v, Sound, Living

\* At the start every daemon has its child and no event is queued.
LEMMA InitSound ==
  ASSUME Init
  PROVE  Sound(World)
<1>1. /\ task = [t \in Tasks |-> Running(Fresh)] /\ ch = <<>>
      /\ disk = [row |-> [t \in Tasks |-> task[t].row], rec |-> [t \in Tasks |-> NoReceipt], epoch |-> 0]
  BY Zenon DEF Init
<1>2. /\ Running(Fresh).sm = "running" /\ Running(Fresh).armed = "no" /\ Running(Fresh).row.pid = 1
  <2> DEFINE row == MarkSpawned(Absent, Absent.gen + 1)
  <2>1. row.pid = 1
    BY DEF MarkSpawned, Absent
  <2>2. Running(Fresh) = [Fresh EXCEPT !.sm = "running", !.queued = "none", !.child = "alive", !.own = TRUE,
                                       !.listening = TRUE, !.row = row]
    BY Zenon DEF Running, Fresh
  <2> HIDE DEF row
  <2> QED
    BY Zenon, <2>1, <2>2 DEF Fresh
<1>3. World.task = task /\ World.disk = disk /\ World.ch = <<>>
  BY ZenonT(40), <1>1 DEF World
<1>4. \A u \in Tasks : /\ World.task[u].sm = "running" /\ World.task[u].armed = "no"
                       /\ World.task[u].row.pid # 0 /\ World.disk.row[u] = World.task[u].row
                       /\ World.disk.rec[u] = NoReceipt
  BY <1>1, <1>2, <1>3
<1>5. Queued(<<>>) = {} /\ \A e : Once(<<>>, e)
  BY DEF Queued, Once
<1>6. Living(World) /\ Tokens(World)
  BY ZenonT(40), <1>3, <1>4, <1>5 DEF Living, InMemory, OnDisk, Tokens
<1>7. Unexited(World)
  BY <1>4 DEF Unexited, EffectivePhase, NoReceipt
<1> QED
  BY ZenonT(40), <1>6, <1>7 DEF Sound

\* A step that touches no daemon, receipt or event changes nothing here.
LEMMA QuietSound ==
  ASSUME Sound(World), UNCHANGED <<task, disk, ch>>
  PROVE  Sound(World')
<1>1. World' = World
  BY Zenon DEF World
<1> QED
  BY Zenon, <1>1

\* Every step keeps every child, every token and every record of an exit sound.
LEMMA SoundLemma ==
  ASSUME Inv, Sound(World), [Next]_vars
  PROVE  Sound(World')
<1>1. CASE UNCHANGED vars
  BY Zenon, <1>1, QuietSound DEF vars
<1>2. CASE Loop
  BY Zenon, <1>2, LoopSound
<1>3. ASSUME NEW s \in Slots, Settle(s) \/ Expire(s) \/ AbandonStop(s)
      PROVE  Sound(World')
  <2>1. CASE SnapshotPorts(s) \/ Look(s) \/ ReadReceipt(s) \/ LeaveReceipt(s) \/ Expire(s) \/ AbandonStop(s)
    <3>1. UNCHANGED <<task, disk, ch>>
      BY Zenon, <2>1 DEF SnapshotPorts, Look, ReadReceipt, LeaveReceipt, Expire, AbandonStop
    <3> QED
      BY Zenon, <3>1, QuietSound
  <2>2. CASE PostBatch(s) \/ \E ok \in BOOLEAN : FailReceipt(s, ok) \/ ReleasePort(s, ok) \/ RemoveReceipt(s, ok)
    BY Zenon, <2>2, PostBatchSound, CommitSound
  <2> QED
    BY Zenon, <1>3, <2>1, <2>2 DEF Settle
<1>4. ASSUME NEW s \in Callers, RequestStop(s)
      PROVE  Sound(World')
  BY Zenon, <1>4, QuietSound DEF RequestStop
<1>5. ASSUME NEW t \in Tasks, Process(t) \/ Die(t) \/ TimerDue(t) \/ RequestStart(t) \/ RecoveryTimer(t)
      PROVE  Sound(World')
  <2>1. CASE RequestStart(t)
    BY Zenon, <2>1, QuietSound DEF RequestStart
  <2> QED
    BY ZenonT(40), <1>5, <2>1, ProcessSound, PostExitSound, TimerSound, RecoveryTimerSound DEF Process
<1>6. CASE (\E S \in SUBSET Unarmed : TriggerRecovery(S)) \/ PostIntent
  BY Zenon, <1>6, TriggerSound, PostIntentSound
<1>7. CASE ReadIntent
  BY Zenon, <1>7, QuietSound DEF ReadIntent
<1>8. ASSUME NEW survivors \in SUBSET {t \in Tasks : task[t].child = "alive"}, Restart(survivors)
      PROVE  Sound(World')
  BY Zenon, <1>8, RestartSound
<1> QED
  BY ZenonT(40), <1>1, <1>2, <1>3, <1>4, <1>5, <1>6, <1>7, <1>8 DEF Next

\* In every reachable state a child that is alive is the one its row and the file
\* tell of, with no exit of it queued or on record, and a recovery is queued once
\* for each daemon whose token says so and for no other.
THEOREM Soundness == Spec => [](Inv /\ Sound(World))
<1>1. Init => Inv /\ Sound(World)
  BY Zenon, InitLemma, InitSound
<1>2. Inv /\ Sound(World) /\ [Next]_vars => (Inv /\ Sound(World))'
  <2>1. ASSUME Inv, Sound(World), [Next]_vars PROVE Inv' /\ Sound(World')
    BY Zenon, <2>1, StepLemma, SoundLemma
  <2> QED
    BY Zenon, <2>1
<1> QED
  BY <1>1, <1>2, PTL DEF Spec

\* A pending recovery is queued once: the token of a daemon is "queued" exactly
\* while one recovery of its receipt is in the channel
\* (tryEnqueueStopRecovery, scheduleStopRecovery, recoverStopReceiptOnLoop).
THEOREM OneTokenHolds == Spec => []OneToken
<1>1. ASSUME Inv, Sound(World), NEW t \in Tasks, NEW P, P = {i \in DOMAIN ch : ch[i] = Recover(t)}
      PROVE  IF task[t].armed = "queued" THEN \E i \in DOMAIN ch : P = {i} ELSE P = {}
  <2>1. World.task = task /\ World.ch = ch
    BY Zenon DEF World
  <2>2. /\ task[t].armed = "queued" <=> \E i \in DOMAIN ch : ch[i] = Recover(t)
        /\ \A i, j \in DOMAIN ch : ch[i] = Recover(t) /\ ch[j] = Recover(t) => i = j
    BY Zenon, <1>1, <2>1 DEF Sound, Tokens, Queued, Once
  <2>3. CASE task[t].armed = "queued"
    <3>1. PICK i \in DOMAIN ch : ch[i] = Recover(t)
      BY Zenon, <2>2, <2>3
    <3>2. P = {i}
      BY ZenonT(40), <1>1, <2>2, <3>1
    <3> QED
      BY Zenon, <2>3, <3>2
  <2>4. CASE task[t].armed # "queued"
    BY Zenon, <1>1, <2>2, <2>4
  <2> QED
    BY Zenon, <2>3, <2>4
<1>2. Inv /\ Sound(World) => OneToken
  BY Zenon, <1>1 DEF OneToken
<1> QED
  BY <1>2, Soundness, PTL

\* No receipt is removed while the child it stops is alive: a stop is committed
\* from port_released, and by then the exit of that child was observed, also
\* through failures, retries and restarts (RemoveStopSettlement,
\* finalizeStopBatchWithContext, recoverStopReceiptOnLoop).
THEOREM ExitBeforeCommitHolds == Spec => ExitBeforeCommit
<1>1. ASSUME Inv, Sound(World), Inv', Steps(World, World'), NEW t \in Tasks, Commits(t)
      PROVE  disk.rec[t].phase = "port_released" /\ task[t].child # "alive"
  <2>1. /\ World.disk = disk /\ World'.disk = disk' /\ World.task = task /\ disk.rec[t] \in Receipts
        /\ disk'.rec[t] \in Receipts /\ disk.rec[t] # NoReceipt /\ disk'.rec[t] = NoReceipt
    BY Zenon, <1>1, WorldGood DEF World, Commits, Inv, Core, Worlds, StateFiles
  <2>2. EffectivePhase(disk.rec[t]) # "none" /\ EffectivePhase(disk'.rec[t]) = "none"
    BY Zenon, <2>1, NoneIsNone
  <2>3. ~Kept(World, World', t)
    BY ZenonT(40), <2>1, <2>2 DEF Kept, Abs
  <2>4. disk.rec[t].phase = "port_released"
    BY ZenonT(40), <1>1, <2>1, <2>2, <2>3 DEF Steps, Still, Begun, Spawned, Moved, Removed
  <2>5. EffectivePhase(disk.rec[t]) = "port_released"
    BY Zenon, <2>4 DEF EffectivePhase
  <2> QED
    BY <1>1, <2>1, <2>4, <2>5 DEF Sound, Unexited
<1>2. Inv /\ Sound(World) /\ [Next]_vars =>
        [\A t \in Tasks : Commits(t) => disk.rec[t].phase = "port_released" /\ task[t].child # "alive"]_vars
  <2>1. ASSUME Inv, Sound(World), [Next]_vars PROVE Inv' /\ Steps(World, World')
    BY Zenon, <2>1, StepLemma
  <2> QED
    BY Zenon, <1>1, <2>1
<1> QED
  BY <1>2, Soundness, PTL DEF Spec, ExitBeforeCommit
===========================================================================
