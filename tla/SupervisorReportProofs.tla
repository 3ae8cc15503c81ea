---------------------- MODULE SupervisorReportProofs ----------------------
(***************************************************************************)
(* The controller never waits for an exit that nobody will report, for any *)
(* daemons, capacities, threshold, budget and faults, where no daemon that *)
(* is to be stopped survived the last supervisor.                          *)
(*                                                                         *)
(* The exit a daemon waits for is at every moment in one of the places of  *)
(* ExitUnderWay.  It moves from one to the next: the child dies, its wait  *)
(* goroutine marks it, the exit is posted, the loop takes it; or the loop  *)
(* kills the child, and then either a wait goroutine runs for it (Watched) *)
(* or the exit is synthesized.                                             *)
(***************************************************************************)
EXTENDS SupervisorControllerProofs

\* The places of ExitUnderWay that are in the record of the daemon.
Seen(c) ==
  \/ \E k \in c.children : k.life # "alive" /\ k.gen >= c.row.gen
  \/ c.row.state = "running" /\ c.row.pid > 0
  \/ c.verdict = c.row.gen /\ c.verdict > 0

\* An exit of daemon t of generation g or later is in queue q.
Heard(q, t, g) ==
  \E i \in DOMAIN q : q[i].kind = "child-exit" /\ q[i].task = t /\ q[i].gen >= g

\* The child of the row has a wait goroutine that has yet to see its exit, if the
\* loop relies on one.
Watched(c) ==
  c.row.pid # 0 /\ (c.ownSpawned \/ c.reaper) =>
    \E k \in c.children : k.waited /\ k.life # "marked" /\ k.pid = c.row.pid /\ k.gen = c.row.gen

Expecting == {"running", "exiting"}

\* The daemon waits for an exit, or will once the loop has seen that it is healthy.
Expects(t) ==
  \/ task[t].smState \in Expecting
  \/ \E i \in DOMAIN selfq : selfq[i].kind = "health-ok" /\ selfq[i].task = t

\* What the loop alone posts, and what nobody does.
Foreign == {"health-ok", "request-graceful-exit"}

ReportInv ==
  /\ Len(selfq) <= SelfCap
  /\ \A t \in Tasks : starting[t] # "terminate"
  /\ \A t \in Tasks : Watched(task[t])
  /\ \A i \in DOMAIN ch : ch[i].kind \notin Foreign
  /\ \A i \in DOMAIN wq : wq[i].kind \notin Foreign
  /\ \A i \in DOMAIN selfq : selfq[i].kind # "request-graceful-exit"
  /\ \A t \in Tasks : Expects(t) => ExitUnderWay(t)

---------------------------------------------------------------------------
(* The handlers *)

\* Where an exit is under way.
LEMMA Places ==
  ASSUME NEW t
  PROVE  ExitUnderWay(t) <=> \/ Seen(task[t])
                             \/ Heard(ch, t, task[t].row.gen) \/ Heard(selfq, t, task[t].row.gen)
BY DEF ExitUnderWay, Seen, Heard

\* Only the health of a new child, or a stop or restart of one, leads to a state
\* that waits for an exit, and every such state takes an exit.
LEMMA ExpectRows ==
  ASSUME NEW st \in SMStates, NEW ev \in SMEvents, NEW ctx \in SMContexts, ev # "request-graceful-exit"
  PROVE  LET row == Transition(st, ev, ctx)
         IN  /\ row.matched /\ row.to \in Expecting =>
                  ev # "child-exit" /\ (st \in Expecting \/ ev = "health-ok")
             /\ st \in Expecting /\ ev = "child-exit" => row.matched
<1> USE RowShapes, CreateShapes DEF SMStates, Expecting, QueuedActions, GoTo, QueueAnd, Unmatched, CreateProcess
<1>1. CASE st = "idle"
  BY <1>1 DEF Transition, FromIdle
<1>2. CASE st = "spawning"
  BY <1>2 DEF Transition, FromSpawning
<1>3. CASE st = "running"
  BY <1>3 DEF Transition, FromRunning
<1>4. CASE st = "exiting"
  BY <1>4 DEF Transition, FromExiting
<1>5. CASE st = "backoff"
  BY <1>5 DEF Transition, FromBackoff
<1>6. CASE st = "quarantined"
  BY <1>6 DEF Transition, FromQuarantined
<1> QED
  BY Zenon, <1>1, <1>2, <1>3, <1>4, <1>5, <1>6

\* A record with the same children whose row is the same, or has no pid.
LEMMA WatchedKept ==
  ASSUME NEW c, NEW d, Watched(c), d.children = c.children, d.row.gen = c.row.gen,
         d.row.pid \in {0, c.row.pid}, d.ownSpawned \/ d.reaper => c.ownSpawned \/ c.reaper
  PROVE  Watched(d)
BY DEF Watched

\* A record that agrees in what says where an exit is.
LEMMA SeenKept ==
  ASSUME NEW c, NEW d, d.children = c.children, d.row.gen = c.row.gen, d.row.state = c.row.state,
         d.row.pid = c.row.pid, d.verdict = c.verdict
  PROVE  Seen(d) <=> Seen(c)
BY DEF Seen

\* A child that ends: its wait goroutine is still there, and nothing is unseen.
LEMMA ExitedReports ==
  ASSUME NEW c \in TaskRecords, Tracked(c), Watched(c), NEW k \in Alive(c), NEW clean \in BOOLEAN,
         NEW d, d.children = Exited(c.children, k, clean), d.row.gen = c.row.gen
  PROVE  /\ k.waited /\ k.gen = c.row.gen => Seen(d)
         /\ d.row = c.row /\ d.ownSpawned = c.ownSpawned /\ d.reaper = c.reaper => Watched(d)
         /\ d.row = c.row /\ d.verdict = c.verdict /\ Seen(c) => Seen(d)
<1> DEFINE x == [k EXCEPT !.life = "dead", !.clean = clean]
<1>1. /\ k \in c.children /\ k.life = "alive" /\ k \in Children /\ c.children \subseteq Children
      /\ c.row.gen \in Nat
  BY DEF Alive, TaskRecords, TrackerRows
<1>2. x.life = "dead" /\ x.waited = k.waited /\ x.pid = k.pid /\ x.gen = k.gen
  BY <1>1 DEF Children
<1>3. /\ k.waited => x \in d.children
      /\ \A j \in c.children : j # k => j \in d.children
  BY DEF Exited
<1> HIDE DEF x
<1>4. k.waited /\ k.gen = c.row.gen => Seen(d)
  BY <1>1, <1>2, <1>3 DEF Seen
<1>5. ASSUME d.row = c.row, d.ownSpawned = c.ownSpawned, d.reaper = c.reaper PROVE Watched(d)
  <2> SUFFICES ASSUME d.row.pid # 0, d.ownSpawned \/ d.reaper
               PROVE  \E j \in d.children : /\ j.waited /\ j.life # "marked"
                                            /\ j.pid = d.row.pid /\ j.gen = d.row.gen
    BY DEF Watched
  <2>1. PICK j \in c.children : j.waited /\ j.life # "marked" /\ j.pid = c.row.pid /\ j.gen = c.row.gen
    BY <1>5 DEF Watched
  <2> QED
    BY <1>2, <1>3, <1>5, <2>1
<1>6. ASSUME d.row = c.row, d.verdict = c.verdict, Seen(c) PROVE Seen(d)
  <2>1. \A j \in c.children : j.life # "alive" => j \in d.children
    BY <1>1, <1>3
  <2> QED
    BY <1>6, <2>1 DEF Seen
<1> QED
  BY <1>4, <1>5, <1>6

\* What a handler posts to the self channel.
PostsOne(t, r) ==
  \/ r.self = <<>>
  \/ \E e \in SMEventSet : r.self = <<e>> /\ e.task = t /\ e.kind \in {"child-exit", "health-ok"}

\* A handler posts an exit of generation g or later; it posts that a child is healthy.
Tells(r, g) == \E e : r.self = <<e>> /\ e.kind = "child-exit" /\ e.gen >= g

SaysHealthy(r) == \E e : r.self = <<e>> /\ e.kind = "health-ok"

\* The terminate side effect: the exit of the child is seen, or it is told.
LEMMA TerminateReports ==
  ASSUME NEW t \in Tasks, NEW c \in TaskRecords, Tracked(c), Watched(c), NEW faults,
         NEW r \in TerminateEffect(t, c, faults)
  PROVE  /\ Watched(r.c) /\ r.c.row.gen = c.row.gen
         /\ PostsOne(t, r) /\ ~SaysHealthy(r)
         /\ Seen(c) => Seen(r.c) \/ Tells(r, c.row.gen)
<1> DEFINE gen == c.row.gen
           gone == [c EXCEPT !.row = MarkExitedIfCurrent(@, gen)]
           kill(d, k) == [d EXCEPT !.children = Exited(@, k, FALSE)]
           synth == Synthesized(t, c, gen)
           e == ExitEvent(t, gen, FALSE)
<1>1. c.row \in TrackerRows /\ gen \in Nat /\ c.children \subseteq Children /\ c.row.pid \in Nat
  BY DEF TaskRecords, TrackerRows
<1>2. MarkExitedIfCurrent(c.row, gen).pid = 0 /\ MarkExitedIfCurrent(c.row, gen).gen = gen
  BY <1>1 DEF MarkExitedIfCurrent, MarkExited, Cleared, IsStale, TrackerRows
<1>3. /\ gone.row.pid = 0 /\ gone.row.gen = gen /\ gone.children = c.children
      /\ gone.ownSpawned = c.ownSpawned /\ gone.reaper = c.reaper
  BY <1>2 DEF TaskRecords
<1>4. \A k : /\ kill(c, k).children = Exited(c.children, k, FALSE) /\ kill(c, k).row = c.row
             /\ kill(c, k).ownSpawned = c.ownSpawned /\ kill(c, k).reaper = c.reaper
             /\ kill(c, k).verdict = c.verdict
             /\ kill(gone, k).children = Exited(c.children, k, FALSE) /\ kill(gone, k).row = gone.row
  BY <1>3 DEF TaskRecords
<1>5. e \in SMEventSet /\ e.task = t /\ e.kind = "child-exit" /\ e.gen = gen
  <2>1. \A g \in Nat, b \in BOOLEAN : /\ ExitEvent(t, g, b) \in SMEventSet
                                       /\ ExitEvent(t, g, b).task = t
                                       /\ ExitEvent(t, g, b).kind = "child-exit"
                                       /\ ExitEvent(t, g, b).gen = g
    BY EventTypes
  <2>2. FALSE \in BOOLEAN
    OBVIOUS
  <2> HIDE DEF gen
  <2> QED
    BY Zenon, <1>1, <2>1, <2>2
<1> HIDE DEF e
<1>6. synth = (IF c.ownSpawned \/ c.reaper THEN <<>> ELSE <<e>>)
  BY DEF Synthesized, e
<1>8. \A d, s : /\ Result(d, s).c = d /\ Result(d, s).self = s
                /\ Faulty(d, s).c = d /\ Faulty(d, s).self = s
  BY DEF Result, Faulty
<1>9. /\ \A x : x.self = <<>> => PostsOne(t, x) /\ ~SaysHealthy(x)
      /\ \A x : x.self = <<e>> => PostsOne(t, x) /\ ~SaysHealthy(x) /\ Tells(x, gen)
  <2>1. (\A y : <<y>> # <<>>) /\ (\A y, z : <<y>> = <<z>> => y = z) /\ gen >= gen
    BY <1>1
  <2>2. "child-exit" # "health-ok" /\ "child-exit" \in {"child-exit", "health-ok"}
    OBVIOUS
  <2> QED
    BY Zenon, <1>5, <2>1, <2>2 DEF PostsOne, SaysHealthy, Tells
<1>10. \/ r = Faulty(c, <<>>) \/ r = Result(c, <<>>)
       \/ c.row.pid # 0 /\ ~PidAlive(c, c.row.pid) /\ r = Result(gone, synth)
       \/ \E k \in Alive(c) : /\ k.pid = c.row.pid /\ c.row.pid # 0
                              /\ r \in {Result(kill(gone, k), synth), Faulty(kill(c, k), synth),
                                        Faulty(kill(c, k), <<>>)}
  BY ZenonT(40) DEF TerminateEffect, Done
<1> HIDE DEF gone, kill, synth
<1>11. CASE r = Faulty(c, <<>>) \/ r = Result(c, <<>>)
  BY <1>8, <1>9, <1>11
<1>12. CASE c.row.pid # 0 /\ ~PidAlive(c, c.row.pid) /\ r = Result(gone, synth)
  <2>1. r.c = gone /\ r.self = synth
    BY <1>8, <1>12
  <2>2. Watched(gone)
    BY <1>3 DEF Watched
  <2>3. c.ownSpawned \/ c.reaper => Seen(gone)
    <3> SUFFICES ASSUME c.ownSpawned \/ c.reaper PROVE Seen(gone)
      OBVIOUS
    <3>1. PICK j \in c.children : j.waited /\ j.life # "marked" /\ j.pid = c.row.pid /\ j.gen = gen
      BY <1>12 DEF Watched
    <3>2. j.life # "alive"
      BY <1>12, <3>1 DEF PidAlive, Alive
    <3> QED
      BY <1>1, <1>3, <3>1, <3>2 DEF Seen
  <2> QED
    BY Zenon, <1>3, <1>6, <1>9, <2>1, <2>2, <2>3
<1>13. ASSUME NEW k \in Alive(c), k.pid = c.row.pid, c.row.pid # 0,
              r \in {Result(kill(gone, k), synth), Faulty(kill(c, k), synth), Faulty(kill(c, k), <<>>)}
       PROVE  /\ Watched(r.c) /\ r.c.row.gen = c.row.gen
              /\ PostsOne(t, r) /\ ~SaysHealthy(r)
              /\ Seen(c) => Seen(r.c) \/ Tells(r, c.row.gen)
  <2>1. PostsOne(t, r) /\ ~SaysHealthy(r)
    BY <1>6, <1>8, <1>9, <1>13
  <2>2. CASE r = Result(kill(gone, k), synth)
    <3> DEFINE d == kill(gone, k)
    <3>1. r.c = d /\ r.self = synth
      BY <1>8, <2>2
    <3>2. d.children = Exited(c.children, k, FALSE) /\ d.row.gen = gen /\ d.row.pid = 0
      BY Zenon, <1>3, <1>4
    <3> HIDE DEF d
    <3>3. Watched(d)
      BY <3>2 DEF Watched
    <3>4. c.ownSpawned \/ c.reaper => Seen(d)
      <4> SUFFICES ASSUME c.ownSpawned \/ c.reaper PROVE Seen(d)
        OBVIOUS
      <4>1. PICK j \in c.children : j.waited /\ j.life # "marked" /\ j.pid = c.row.pid /\ j.gen = gen
        BY <1>13 DEF Watched
      <4>2. k \in c.children
        BY DEF Alive
      <4>3. j = k
        BY <1>13, <4>1, <4>2 DEF Tracked
      <4> QED
        BY Zenon, <3>2, <4>1, <4>3, ExitedReports
    <3> QED
      BY Zenon, <1>6, <1>9, <2>1, <3>1, <3>2, <3>3, <3>4
  <2>3. CASE r \in {Faulty(kill(c, k), synth), Faulty(kill(c, k), <<>>)}
    <3> DEFINE d == kill(c, k)
    <3>1. r.c = d
      BY <1>8, <2>3
    <3>2. /\ d.children = Exited(c.children, k, FALSE) /\ d.row = c.row /\ d.verdict = c.verdict
          /\ d.ownSpawned = c.ownSpawned /\ d.reaper = c.reaper
      BY Zenon, <1>4
    <3> HIDE DEF d
    <3>3. Watched(d) /\ (Seen(c) => Seen(d))
      BY Zenon, <3>2, ExitedReports
    <3> QED
      BY <2>1, <3>1, <3>2, <3>3
  <2> QED
    BY Zenon, <1>13, <2>2, <2>3
<1> QED
  BY <1>10, <1>11, <1>12, <1>13

\* A record that names no process needs no wait goroutine.
LEMMA NoPidWatched ==
  ASSUME NEW c, c.row.pid = 0
  PROVE  Watched(c)
BY DEF Watched

\* A new child has a wait goroutine.
LEMMA StartedReports ==
  ASSUME NEW c \in TaskRecords, NEW d,
         d.row = Started(c).row, d.children = Started(c).children
  PROVE  Watched(d) /\ Seen(d)
<1> DEFINE row == MarkSpawned(c.row, c.spawned + 1)
           new == [pid |-> row.pid, gen |-> row.gen, life |-> "alive",
                   waited |-> TRUE, clean |-> FALSE]
<1>1. c.row \in TrackerRows /\ c.spawned \in Nat
  BY DEF TaskRecords
<1>2. c.spawned + 1 \in Nat /\ c.spawned + 1 > 0
  BY <1>1
<1>3. row.pid = c.spawned + 1 /\ row.state = "running"
  BY Zenon, <1>1, <1>2, MarkSpawnedOp
<1>4. new.waited /\ new.life = "alive" /\ new.pid = row.pid /\ new.gen = row.gen
  OBVIOUS
<1>5. Started(c).row = row /\ Started(c).children = c.children \cup {new}
  BY DEF Started, TaskRecords
<1> HIDE DEF new, row
<1>6. d.row = row /\ new \in d.children
  BY <1>5
<1> QED
  BY Zenon, <1>2, <1>3, <1>4, <1>6 DEF Watched, Seen

\* The create-process side effect: a child that is there has a wait goroutine, and the
\* loop is told that it is healthy only then.
LEMMA CreateReports ==
  ASSUME NEW t \in Tasks, NEW c \in TaskRecords, c.smState = "spawning",
         NEW faults \in SUBSET AllFaults, NEW r \in CreateProcessEffect(t, c, faults)
  PROVE  /\ Watched(r.c) /\ PostsOne(t, r) /\ r.c.smState \notin Expecting
         /\ SaysHealthy(r) => Seen(r.c)
<1> DEFINE ok == SMEvent("health-ok", t)
           no == SMEvent("child-exit", t)
<1>0. c.row \in TrackerRows
  BY DEF TaskRecords
<1>a. /\ ok \in SMEventSet /\ ok.task = t /\ ok.kind = "health-ok"
      /\ no \in SMEventSet /\ no.task = t /\ no.kind = "child-exit"
  BY EventTypes DEF SMEvents
<1>b. \A d, s : Faulty(d, s).c = d /\ Faulty(d, s).self = s /\ Result(d, s).c = d /\ Result(d, s).self = s
  BY DEF Faulty, Result
<1>c. MarkSpawnFailed(c.row).pid = 0 /\ MarkQuarantined(c.row).pid = 0 /\ MarkBackoff(c.row).pid = 0
  BY <1>0 DEF MarkSpawnFailed, MarkQuarantined, MarkBackoff, Cleared, TrackerRows
<1> HIDE DEF ok, no
<1>d. /\ \A x : x.self = <<>> => PostsOne(t, x) /\ ~SaysHealthy(x)
      /\ \A x : x.self = <<no>> => PostsOne(t, x) /\ ~SaysHealthy(x)
      /\ \A x : x.self = <<ok>> => PostsOne(t, x)
  <2>1. (\A y : <<y>> # <<>>) /\ (\A y, z : <<y>> = <<z>> => y = z)
    OBVIOUS
  <2>2. "child-exit" # "health-ok" /\ {"child-exit", "health-ok"} \subseteq {"child-exit", "health-ok"}
    OBVIOUS
  <2> QED
    BY Zenon, <1>a, <2>1, <2>2 DEF PostsOne, SaysHealthy
<1>e. /\ "spawning" \notin Expecting /\ "backoff" \notin Expecting /\ "quarantined" \notin Expecting
  BY DEF Expecting
<1>1. CASE r = SpawnOK(t, [c EXCEPT !.gateCleared = FALSE])
  <2> DEFINE b == [c EXCEPT !.gateCleared = FALSE]
             d == [Started(b) EXCEPT !.ownSpawned = TRUE, !.reaper = TRUE]
  <2>1. b \in TaskRecords /\ b.smState = "spawning"
    BY ZenonT(40) DEF TaskRecords
  <2>2. r = Result(d, <<ok>>)
    BY <1>1 DEF SpawnOK, ok
  <2> HIDE DEF b
  <2>3. d.row = Started(b).row /\ d.children = Started(b).children /\ d.smState = "spawning"
    BY <2>1 DEF Started, TaskRecords
  <2> HIDE DEF d
  <2>4. Watched(d) /\ Seen(d)
    BY <2>1, <2>3, StartedReports
  <2>5. r.c = d /\ r.self = <<ok>>
    BY Zenon, <1>b, <2>2
  <2> QED
    BY Zenon, <1>d, <1>e, <2>3, <2>4, <2>5
<1>2. CASE \E kind \in faults \ {"terminate"} : r = SpawnFault(t, c, kind)
  <2>1. PICK kind \in faults \ {"terminate"} : r = SpawnFault(t, c, kind)
    BY <1>2
  <2> DEFINE h == HoldSpawnInBackoff(c)
  <2>h. h \in TaskRecords /\ h.row.pid = 0 /\ h.smState = "backoff"
    <3> DEFINE b == [c EXCEPT !.smState = "backoff", !.row = MarkBackoff(c.row)]
    <3>1. b.row.pid = 0 /\ b.smState = "backoff" /\ DOMAIN b = DOMAIN c
      BY <1>c DEF TaskRecords
    <3>2. h = ArmRespawnBackoffTimer(b)
      BY DEF HoldSpawnInBackoff
    <3>3. ArmRespawnBackoffTimer(b).row = b.row /\ ArmRespawnBackoffTimer(b).smState = b.smState
      <4> HIDE DEF b
      <4> QED
        BY <3>1 DEF ArmRespawnBackoffTimer, TaskRecords
    <3>4. h \in TaskRecords
      BY HoldUpdate
    <3> HIDE DEF h, b
    <3> QED
      BY <3>1, <3>2, <3>3, <3>4
  <2> HIDE DEF h
  <2>p. ASSUME NEW d, d.row.pid = 0, d.smState \notin Expecting, r = Faulty(d, <<>>) \/ r = Faulty(d, <<no>>)
        PROVE  /\ Watched(r.c) /\ PostsOne(t, r) /\ r.c.smState \notin Expecting
               /\ SaysHealthy(r) => Seen(r.c)
    <3>1. r.c = d /\ (r.self = <<>> \/ r.self = <<no>>)
      BY <1>b, <2>p
    <3>2. Watched(d)
      BY <2>p, NoPidWatched
    <3> QED
      BY Zenon, <1>d, <2>p, <3>1, <3>2
  <2>2. CASE kind = "path"
    <3>1. r = Faulty(h, <<>>)
      BY <2>1, <2>2 DEF SpawnFault, h
    <3> QED
      BY Zenon, <1>e, <2>h, <2>p, <3>1
  <2>3. CASE kind = "port"
    <3> DEFINE d == [h EXCEPT !.gate = IF @ = "none" THEN "asked" ELSE @]
    <3>1. r = Faulty(d, <<>>)
      BY <2>1, <2>3 DEF SpawnFault, h
    <3>2. d.row = h.row /\ d.smState = h.smState
      BY <2>h DEF TaskRecords
    <3> HIDE DEF d
    <3> QED
      BY Zenon, <1>e, <2>h, <2>p, <3>1, <3>2
  <2>4. CASE kind = "prechild"
    <3> DEFINE d == [c EXCEPT !.gateCleared = FALSE, !.row = MarkSpawnFailed(c.row)]
    <3>1. r = Faulty(d, <<no>>)
      BY <2>1, <2>4 DEF SpawnFault, no
    <3>2. d.row = MarkSpawnFailed(c.row) /\ d.smState = c.smState
      BY DEF TaskRecords
    <3> HIDE DEF d
    <3> QED
      BY Zenon, <1>c, <1>e, <2>p, <3>1, <3>2
  <2>5. CASE kind = "refused"
    <3> DEFINE d == [c EXCEPT !.gateCleared = FALSE, !.smState = "quarantined",
                              !.parole = FALSE, !.row = MarkQuarantined(c.row)]
    <3>1. r = Faulty(d, <<>>)
      BY <2>1, <2>5 DEF SpawnFault
    <3>2. d.row = MarkQuarantined(c.row) /\ d.smState = "quarantined"
      BY DEF TaskRecords
    <3> HIDE DEF d
    <3> QED
      BY Zenon, <1>c, <1>e, <2>p, <3>1, <3>2
  <2>6. CASE kind = "orphan"
    <3> DEFINE d == [Orphaned(c) EXCEPT !.gateCleared = FALSE]
    <3>1. r = Faulty(d, <<>>)
      BY <2>1, <2>6 DEF SpawnFault
    <3>2. d.row = MarkSpawnFailed(c.row) /\ d.smState = c.smState
      BY DEF TaskRecords, Orphaned
    <3> HIDE DEF d
    <3> QED
      BY Zenon, <1>c, <1>e, <2>p, <3>1, <3>2
  <2>7. CASE kind = "unpersisted"
    <3> DEFINE d == [Started(c) EXCEPT !.gateCleared = FALSE]
    <3>1. r = Faulty(d, <<>>)
      BY <2>1, <2>7 DEF SpawnFault
    <3>2. d.row = Started(c).row /\ d.children = Started(c).children /\ d.smState = c.smState
      BY DEF TaskRecords, Started
    <3> HIDE DEF d
    <3>3. Watched(d)
      BY <3>2, StartedReports
    <3>4. r.c = d /\ r.self = <<>>
      BY Zenon, <1>b, <3>1
    <3> QED
      BY Zenon, <1>d, <1>e, <3>2, <3>3, <3>4
  <2> QED
    BY Zenon, <2>1, <2>2, <2>3, <2>4, <2>5, <2>6, <2>7 DEF AllFaults
<1> QED
  BY <1>1, <1>2 DEF CreateProcessEffect

\* After the handler: the exit the daemon waits for is seen or told, or it was awaited
\* before and is not the event just handled.
Reports(c, ev, r) ==
  \/ Seen(r.c) \/ Tells(r, r.c.row.gen)
  \/ /\ r.c.row.gen = c.row.gen /\ ~Seen(c)
     /\ c.smState \in Expecting \/ ev.kind = "health-ok"
     /\ ev.kind = "child-exit" => ev.gen < c.row.gen

\* What HandleBackoffWaiting leaves names no process and waits for no exit.
LEMMA BackoffReports ==
  ASSUME NEW c \in TaskRecords, c.smState \notin Expecting
  PROVE  HandleBackoffWaiting(c).row.pid = 0 /\ HandleBackoffWaiting(c).smState \notin Expecting
<1> DEFINE row == RecordCrash(c.row)
           q == [c EXCEPT !.smState = "quarantined", !.parole = TRUE, !.row = MarkQuarantined(row)]
           b == [c EXCEPT !.row = MarkBackoff(row)]
<1>1. row \in TrackerRows
  BY Zenon, RowOps DEF TaskRecords
<1>2. MarkBackoff(row) \in TrackerRows /\ MarkBackoff(row).pid = 0 /\ MarkQuarantined(row).pid = 0
  BY Zenon, <1>1, RowOps DEF MarkBackoff, MarkQuarantined, TrackerStates, Cleared, TrackerRows
<1>5. HandleBackoffWaiting(c) = IF row.crashes >= QuarantineThreshold THEN q ELSE ArmRespawnBackoffTimer(b)
  BY DEF HandleBackoffWaiting
<1> HIDE DEF row
<1>3. q.smState \notin Expecting /\ q.row.pid = 0
  BY <1>2 DEF TaskRecords, Expecting
<1>4. b \in TaskRecords /\ b.row.pid = 0 /\ b.smState = c.smState
  BY <1>2 DEF TaskRecords
<1> HIDE DEF q, b
<1>6. ArmRespawnBackoffTimer(b).row = b.row /\ ArmRespawnBackoffTimer(b).smState = b.smState
  BY <1>4, HoldCrashes
<1> QED
  BY <1>3, <1>4, <1>5, <1>6

\* A handled event: the child of the row keeps its wait goroutine, and a daemon that
\* waits for an exit will hear of one.
LEMMA HandleReports ==
  ASSUME NEW c \in TaskRecords, Tracked(c), Watched(c), NEW ev \in SMEventSet, NEW g \in BOOLEAN,
         ev.kind # "request-graceful-exit", NEW faults \in SUBSET AllFaults,
         NEW r \in HandleLoopEvent(c, ev, g, faults)
  PROVE  /\ Watched(r.c) /\ PostsOne(ev.task, r)
         /\ r.c.smState \in Expecting \/ SaysHealthy(r) => Reports(c, ev, r)
<1>0. ev.kind \in SMEvents /\ ev.task \in Tasks /\ ev.gen \in Nat /\ c.row.gen \in Nat
  BY DEF SMEventSet, TaskRecords, TrackerRows
<1>d. \A x : Done(x).c = x /\ Done(x).self = <<>>
  BY DEF Done, Result
<1>p. \A x : x.self = <<>> => PostsOne(ev.task, x) /\ ~SaysHealthy(x)
  BY DEF PostsOne, SaysHealthy
<1>1. CASE RestartRefused(c, ev)
  <2> DEFINE d == [c EXCEPT !.gateCleared = FALSE]
  <2>1. /\ d.row = c.row /\ d.smState = c.smState /\ d.children = c.children
        /\ d.ownSpawned = c.ownSpawned /\ d.reaper = c.reaper /\ d.verdict = c.verdict
    BY DEF TaskRecords
  <2>2. r = Done(d)
    BY <1>1 DEF HandleLoopEvent
  <2> HIDE DEF d
  <2>3. ev.kind # "child-exit"
    BY <1>1 DEF RestartRefused
  <2>4. Watched(d) /\ (Seen(d) <=> Seen(c))
    BY Zenon, <2>1, WatchedKept, SeenKept
  <2> QED
    BY Zenon, <1>d, <1>p, <2>1, <2>2, <2>3, <2>4 DEF Reports
<1>2. CASE ~RestartRefused(c, ev) /\ StaleExit(c, ev)
  <2>1. r = Done(c)
    BY <1>2 DEF HandleLoopEvent
  <2>2. ev.gen < c.row.gen
    BY <1>2 DEF StaleExit, IsStale
  <2> QED
    BY <1>d, <1>p, <2>1, <2>2 DEF Reports
<1>3. CASE ~RestartRefused(c, ev) /\ ~StaleExit(c, ev)
  <2> DEFINE d == NoteExit(c, ev)
             i == [d EXCEPT !.smState = "idle"]
             row == Transition(CurrentState(c), ev.kind, SMContext(c, g))
             w == WriteBack(d, row)
  <2>2. /\ d \in TaskRecords /\ d.row = c.row /\ d.smState = c.smState /\ Same(c, d)
        /\ d.ownSpawned = c.ownSpawned /\ (d.reaper => c.reaper)
    BY ZenonT(40) DEF NoteExit, TaskRecords, Same
  <2>a. Watched(d) /\ (Seen(d) <=> Seen(c)) /\ Tracked(d)
    <3> HIDE DEF d
    <3> QED
      BY Zenon, <2>2, WatchedKept, SeenKept, FlagStep DEF Same
  <2>b. /\ row \in Rows /\ (row.create => row.to = "spawning")
        /\ row.matched /\ row.to \in Expecting =>
             ev.kind # "child-exit" /\ (c.smState \in Expecting \/ ev.kind = "health-ok")
        /\ c.smState \in Expecting /\ ev.kind = "child-exit" => row.matched
    <3>1. CurrentState(c) \in SMStates /\ SMContext(c, g) \in SMContexts
      BY ContextType
    <3>2. CurrentState(c) \in Expecting <=> c.smState \in Expecting
      BY DEF CurrentState, Expecting
    <3>3. row \in Rows /\ (row.create => row.to = "spawning")
      BY Zenon, <1>0, <3>1, TransitionType, CreateSpawns
    <3>4. /\ row.matched /\ row.to \in Expecting =>
               ev.kind # "child-exit" /\ (CurrentState(c) \in Expecting \/ ev.kind = "health-ok")
          /\ CurrentState(c) \in Expecting /\ ev.kind = "child-exit" => row.matched
      BY Zenon, <1>0, <3>1, ExpectRows
    <3> HIDE DEF row
    <3> QED
      BY <3>2, <3>3, <3>4
  <2>3. CASE DeliberateExit(c, ev)
    <3>1. r = Done(i)
      BY <1>3, <2>3 DEF HandleLoopEvent
    <3> HIDE DEF d
    <3>2. /\ i.row = d.row /\ i.smState \notin Expecting /\ i.children = d.children
          /\ i.ownSpawned = d.ownSpawned /\ i.reaper = d.reaper
      BY <2>2 DEF TaskRecords, Expecting
    <3> HIDE DEF i
    <3>3. Watched(i)
      BY Zenon, <2>a, <3>2, WatchedKept
    <3> QED
      BY <1>d, <1>p, <3>1, <3>2, <3>3
  <2>4. CASE ~DeliberateExit(c, ev) /\ ~row.matched
    <3>1. r = Done(d)
      BY <1>3, <2>4 DEF HandleLoopEvent
    <3> HIDE DEF d, row
    <3> QED
      BY Zenon, <1>d, <1>p, <2>2, <2>4, <2>a, <2>b, <3>1 DEF Reports
  <2>5. CASE ~DeliberateExit(c, ev) /\ row.matched
    <3>1. r \in SideEffect(ev.task, w, row, ev, faults)
      BY <1>3, <2>5 DEF HandleLoopEvent
    <3> HIDE DEF d, row
    <3>2. /\ w \in TaskRecords /\ Same(d, w) /\ w.smState = row.to
          /\ row.to # "idle" => w.row.state = d.row.state /\ w.row.pid = d.row.pid
      BY Zenon, <2>2, <2>b, WriteBackUpdate
    <3>3. w.ownSpawned = d.ownSpawned /\ w.reaper = d.reaper /\ w.row.pid \in {0, d.row.pid}
      <4>1. w.ownSpawned = d.ownSpawned /\ w.reaper = d.reaper
        BY <2>2 DEF WriteBack, TaskRecords
      <4> DEFINE x == IF row.resetFailures THEN ClearCrashes(d.row) ELSE d.row
                 y == IF row.to = "idle" /\ CurrentState(d) # "idle" THEN MarkExited(x) ELSE x
      <4>2. w.row = y
        BY <2>2 DEF WriteBack, TaskRecords
      <4>3. d.row \in TrackerRows
        BY <2>2 DEF TaskRecords
      <4>4. x \in TrackerRows /\ x.pid = d.row.pid
        BY <4>3, RowOps
      <4> HIDE DEF x
      <4>5. MarkExited(x).pid = 0
        BY <4>4 DEF MarkExited, Cleared, TrackerRows
      <4> QED
        BY Zenon, <4>1, <4>2, <4>4, <4>5
    <3> HIDE DEF w
    <3>4. Watched(w)
      BY Zenon, <2>a, <3>2, <3>3, WatchedKept DEF Same
    <3>5. ASSUME row.to \in Expecting
          PROVE  /\ Seen(w) <=> Seen(c)
                 /\ w.row.gen = c.row.gen
                 /\ ev.kind # "child-exit" /\ (c.smState \in Expecting \/ ev.kind = "health-ok")
      <4>1. row.to # "idle"
        BY <3>5 DEF Expecting
      <4>2. Seen(w) <=> Seen(d)
        BY Zenon, <3>2, <4>1, SeenKept DEF Same
      <4> QED
        BY Zenon, <2>2, <2>5, <2>a, <2>b, <3>2, <3>5, <4>2 DEF Same
    <3>9. CASE row.to = "spawning" /\ row.create
      <4>1. r \in CreateProcessEffect(ev.task, w, faults)
        BY <3>1, <3>9, Zenon DEF SideEffect
      <4>2. w.smState = "spawning"
        BY Zenon, <3>2, <3>9
      <4> QED
        BY <1>0, <3>2, <4>1, <4>2, CreateReports DEF Reports
    <3>10. CASE row.to = "backoff"
      <4>1. r \in {Done(HandleBackoffWaiting(w))}
        BY <3>1, <3>10 DEF SideEffect
      <4>2. w.smState \notin Expecting
        BY <3>2, <3>10 DEF Expecting
      <4>3. HandleBackoffWaiting(w).row.pid = 0 /\ HandleBackoffWaiting(w).smState \notin Expecting
        BY Zenon, <3>2, <4>2, BackoffReports
      <4> QED
        BY Zenon, <1>d, <1>p, <4>1, <4>3, NoPidWatched
    <3>11. CASE row.to = "quarantined"
      <4> DEFINE p == IF ev.kind = "timer-due" THEN [w EXCEPT !.parole = TRUE] ELSE w
      <4>1. r \in {Done(p)}
        BY <3>1, <3>11 DEF SideEffect
      <4>2. /\ p.row = w.row /\ p.smState = w.smState /\ p.children = w.children
            /\ p.ownSpawned = w.ownSpawned /\ p.reaper = w.reaper
        BY <3>2 DEF TaskRecords
      <4> HIDE DEF p
      <4>3. Watched(p)
        BY Zenon, <3>4, <4>2, WatchedKept
      <4>4. p.smState \notin Expecting
        BY Zenon, <3>2, <3>11, <4>2 DEF Expecting
      <4> QED
        BY Zenon, <1>d, <1>p, <4>1, <4>3, <4>4
    <3>12. CASE row.to = "exiting"
      <4>1. r \in TerminateEffect(ev.task, w, faults)
        BY <3>1, <3>12, Zenon DEF SideEffect
      <4>2. Tracked(w)
        BY Zenon, <2>2, <2>a, <3>2, <3>12, QuietStep DEF Same, Live
      <4>3. /\ Watched(r.c) /\ r.c.row.gen = w.row.gen
            /\ PostsOne(ev.task, r) /\ ~SaysHealthy(r)
            /\ Seen(w) => Seen(r.c) \/ Tells(r, w.row.gen)
        BY Zenon, <1>0, <3>2, <3>4, <4>1, <4>2, TerminateReports
      <4>4. row.to \in Expecting
        BY Zenon, <3>12 DEF Expecting
      <4> QED
        BY <3>5, <4>3, <4>4 DEF Reports
    <3>13. CASE /\ ~(row.to = "spawning" /\ row.create)
                /\ row.to \notin {"backoff", "quarantined", "exiting"}
      <4>1. r \in {Done(w)}
        BY Zenon, <3>1, <3>13 DEF SideEffect
      <4> QED
        BY Zenon, <1>d, <1>p, <3>2, <3>4, <3>5, <4>1 DEF Reports
    <3> QED
      BY Zenon, <3>9, <3>10, <3>11, <3>12, <3>13
  <2> QED
    BY <2>3, <2>4, <2>5
<1> QED
  BY <1>1, <1>2, <1>3

---------------------------------------------------------------------------
(* The steps *)

\* A step that handles no event of the state machine: the exits stay where they are, or
\* move to the external channel.
LEMMA CalmReports ==
  ASSUME ReportInv,
         \A u \in Tasks : Watched(task'[u]),
         \A u \in Tasks : /\ task'[u].smState = task[u].smState
                          /\ task'[u].row.gen = task[u].row.gen
                          /\ Seen(task[u]) => Seen(task'[u]) \/ Heard(ch', u, task[u].row.gen),
         \A j \in DOMAIN ch : ch[j].kind # "child-exit" \/ \E i \in DOMAIN ch' : ch'[i] = ch[j],
         \A i \in DOMAIN ch' : ch'[i].kind \notin Foreign,
         \A i \in DOMAIN wq' : wq'[i].kind \notin Foreign,
         \/ UNCHANGED selfq
         \/ /\ DOMAIN selfq = {} /\ Len(selfq') <= SelfCap
            /\ \A i \in DOMAIN selfq' : selfq'[i].kind \notin Foreign,
         \A u \in Tasks : starting'[u] # "terminate"
  PROVE  ReportInv'
<1>1. ASSUME NEW u \in Tasks, Expects(u)' PROVE ExitUnderWay(u)'
  <2>1. Expects(u)
    BY Zenon, <1>1 DEF Expects, Foreign
  <2>2. Seen(task[u]) \/ Heard(ch, u, task[u].row.gen) \/ Heard(selfq, u, task[u].row.gen)
    BY <2>1, Places DEF ReportInv
  <2>3. Heard(ch, u, task[u].row.gen) => Heard(ch', u, task[u].row.gen)
    BY DEF Heard
  <2>4. Heard(selfq, u, task[u].row.gen) => Heard(selfq', u, task[u].row.gen)
    BY Zenon DEF Heard
  <2>5. Seen(task'[u]) \/ Heard(ch', u, task'[u].row.gen) \/ Heard(selfq', u, task'[u].row.gen)
    BY Zenon, <2>2, <2>3, <2>4
  <2> QED
    BY Zenon, <2>5 DEF ExitUnderWay, Seen, Heard
<1>2. Len(selfq') <= SelfCap /\ \A i \in DOMAIN selfq' : selfq'[i].kind # "request-graceful-exit"
  BY DEF ReportInv, Foreign
<1> QED
  BY Zenon, <1>1, <1>2 DEF ReportInv

\* An event is appended to the external channel, or nothing is.
LEMMA AppendedEvent ==
  ASSUME Inv, ReportInv, NEW e, ch' = Append(ch, e), e.kind \notin Foreign
  PROVE  /\ \A j \in DOMAIN ch : \E i \in DOMAIN ch' : ch'[i] = ch[j]
         /\ \E i \in DOMAIN ch' : ch'[i] = e
         /\ \A i \in DOMAIN ch' : ch'[i].kind \notin Foreign
<1>1. ch \in Seq(LoopEvents) /\ \A i \in DOMAIN ch : ch[i].kind \notin Foreign
  BY DEF Inv, TypeOK, ReportInv
<1>2. /\ \A i \in DOMAIN ch' : ch'[i] = e \/ (i \in DOMAIN ch /\ ch'[i] = ch[i])
      /\ \A i \in DOMAIN ch : i \in DOMAIN ch' /\ ch'[i] = ch[i]
      /\ Len(ch) + 1 \in DOMAIN ch' /\ ch'[Len(ch) + 1] = e
  BY <1>1
<1> QED
  BY Zenon, <1>1, <1>2

\* A step outside the loop that updates one daemon.
LEMMA OffLoopReports ==
  ASSUME Inv, ReportInv, NEW t \in Tasks, NEW d, Update(t, d), Watched(d),
         d.smState = task[t].smState, d.row.gen = task[t].row.gen,
         \/ UNCHANGED ch /\ (Seen(task[t]) => Seen(d))
         \/ \E e : /\ ch' = Append(ch, e) /\ e.kind \notin Foreign
                   /\ Seen(task[t]) =>
                        Seen(d) \/ (e.kind = "child-exit" /\ e.task = t /\ e.gen >= task[t].row.gen),
         UNCHANGED <<selfq, wq>>, \A u \in Tasks : starting'[u] # "terminate"
  PROVE  ReportInv'
<1>1. task'[t] = d /\ \A u \in Tasks \ {t} : task'[u] = task[u]
  BY Zenon DEF Inv, TypeOK, Update
<1>2. \A u \in Tasks : Watched(task'[u])
  BY Zenon, <1>1 DEF ReportInv
<1>3. \A i \in DOMAIN wq' : wq'[i].kind \notin Foreign
  BY Zenon DEF ReportInv
<1>4. CASE UNCHANGED ch /\ (Seen(task[t]) => Seen(d))
  <2>1. \A u \in Tasks : /\ task'[u].smState = task[u].smState
                         /\ task'[u].row.gen = task[u].row.gen
                         /\ Seen(task[u]) => Seen(task'[u]) \/ Heard(ch', u, task[u].row.gen)
    BY Zenon, <1>1, <1>4
  <2>2. /\ \A j \in DOMAIN ch : \E i \in DOMAIN ch' : ch'[i] = ch[j]
        /\ \A i \in DOMAIN ch' : ch'[i].kind \notin Foreign
    BY Zenon, <1>4 DEF ReportInv
  <2> QED
    BY Zenon, <1>2, <1>3, <2>1, <2>2, CalmReports
<1>5. ASSUME NEW e, ch' = Append(ch, e), e.kind \notin Foreign,
             Seen(task[t]) =>
               Seen(d) \/ (e.kind = "child-exit" /\ e.task = t /\ e.gen >= task[t].row.gen)
      PROVE  ReportInv'
  <2>1. /\ \A j \in DOMAIN ch : \E i \in DOMAIN ch' : ch'[i] = ch[j]
        /\ \E i \in DOMAIN ch' : ch'[i] = e
        /\ \A i \in DOMAIN ch' : ch'[i].kind \notin Foreign
    BY Zenon, <1>5, AppendedEvent
  <2>2. e.kind = "child-exit" /\ e.task = t /\ e.gen >= task[t].row.gen => Heard(ch', t, task[t].row.gen)
    BY Zenon, <2>1 DEF Heard
  <2>3. \A u \in Tasks : /\ task'[u].smState = task[u].smState
                         /\ task'[u].row.gen = task[u].row.gen
                         /\ Seen(task[u]) => Seen(task'[u]) \/ Heard(ch', u, task[u].row.gen)
    BY Zenon, <1>1, <1>5, <2>2
  <2> QED
    BY Zenon, <1>2, <1>3, <2>1, <2>3, CalmReports
<1> QED
  BY Zenon, <1>4, <1>5

\* The loop handles a state-machine event.
LEMMA DispatchReports ==
  ASSUME Inv, ReportInv, NEW ev \in SMEventSet, NEW q \in Seq(SMEventSet), Dispatch(ev, q),
         ev.kind # "request-graceful-exit", Len(q) < SelfCap,
         \A i \in DOMAIN q : q[i].task # ev.task /\ \E j \in DOMAIN selfq : q[i] = selfq[j],
         \A i \in DOMAIN ch' : \E j \in DOMAIN ch : ch'[i] = ch[j],
         \A j \in DOMAIN ch : ch[j] = ev \/ \E i \in DOMAIN ch' : ch'[i] = ch[j],
         \A j \in DOMAIN selfq : selfq[j] = ev \/ \E i \in DOMAIN q : q[i] = selfq[j],
         ev.kind = "health-ok" => \E i \in DOMAIN selfq : selfq[i] = ev,
         UNCHANGED <<wq, starting>>
  PROVE  ReportInv'
<1> DEFINE t == ev.task
           c == task[t]
<1>0. t \in Tasks /\ c \in TaskRecords /\ Tracked(c) /\ Watched(c) /\ graceful \in BOOLEAN
  BY DEF Inv, TypeOK, Consistent, SMEventSet, ReportInv
<1>1. AllowedFaults \in SUBSET AllFaults
  BY ZenonT(40), ControllerAssumptions DEF AllowedFaults
<1>2. PICK r \in HandleLoopEvent(c, ev, graceful, AllowedFaults) :
           Update(t, r.c) /\ selfq' = PostSelf(q, r.self)
  BY ZenonT(40) DEF Dispatch
<1>3. /\ Watched(r.c) /\ PostsOne(t, r)
      /\ r.c.smState \in Expecting \/ SaysHealthy(r) => Reports(c, ev, r)
  BY Zenon, <1>0, <1>1, HandleReports
<1>4. task'[t] = r.c /\ \A u \in Tasks \ {t} : task'[u] = task[u]
  BY Zenon, <1>0, <1>2 DEF Inv, TypeOK, Update
<1>5. /\ Len(selfq') <= SelfCap
      /\ \A i \in DOMAIN q : i \in DOMAIN selfq' /\ selfq'[i] = q[i]
      /\ \A i \in DOMAIN selfq' :
           \/ i \in DOMAIN q /\ selfq'[i] = q[i]
           \/ /\ r.self = <<selfq'[i]>> /\ selfq'[i].task = t
              /\ selfq'[i].kind \in {"child-exit", "health-ok"}
      /\ \A e : r.self = <<e>> => \E i \in DOMAIN selfq' : selfq'[i] = e
  <2>1. CASE r.self = <<>>
    <3>1. selfq' = q
      BY SMTT(40), <2>1, <1>2 DEF PostSelf
    <3>2. \A e : r.self # <<e>>
      BY <2>1
    <3> QED
      BY <3>1, <3>2, ControllerAssumptions
  <2>2. ASSUME NEW e \in SMEventSet, r.self = <<e>>, e.task = t, e.kind \in {"child-exit", "health-ok"}
        PROVE  /\ Len(selfq') <= SelfCap
               /\ \A i \in DOMAIN q : i \in DOMAIN selfq' /\ selfq'[i] = q[i]
               /\ \A i \in DOMAIN selfq' :
                    \/ i \in DOMAIN q /\ selfq'[i] = q[i]
                    \/ /\ r.self = <<selfq'[i]>> /\ selfq'[i].task = t
                       /\ selfq'[i].kind \in {"child-exit", "health-ok"}
               /\ \A x : r.self = <<x>> => \E i \in DOMAIN selfq' : selfq'[i] = x
    <3>1. selfq' = q \o <<e>>
      BY SMTT(40), <2>2, <1>2, ControllerAssumptions DEF PostSelf
    <3>2. /\ Len(q \o <<e>>) = Len(q) + 1 /\ Len(q) \in Nat
          /\ \A i \in DOMAIN (q \o <<e>>) : (q \o <<e>>)[i] = e \/ (i \in DOMAIN q /\ (q \o <<e>>)[i] = q[i])
          /\ \A i \in DOMAIN q : i \in DOMAIN (q \o <<e>>) /\ (q \o <<e>>)[i] = q[i]
          /\ Len(q) + 1 \in DOMAIN (q \o <<e>>) /\ (q \o <<e>>)[Len(q) + 1] = e
      OBVIOUS
    <3>3. Len(selfq') <= SelfCap
      BY <3>1, <3>2, ControllerAssumptions
    <3>4. \A x : r.self = <<x>> => x = e
      BY <2>2
    <3> QED
      BY ZenonT(40), <2>2, <3>1, <3>2, <3>3, <3>4
  <2> QED
    BY Zenon, <1>3, <2>1, <2>2 DEF PostsOne
<1> HIDE DEF c, t
<1>6. \A u \in Tasks : Watched(task'[u])
  BY Zenon, <1>3, <1>4 DEF ReportInv
<1>7. /\ \A i \in DOMAIN ch' : ch'[i].kind \notin Foreign
      /\ \A i \in DOMAIN selfq' : selfq'[i].kind # "request-graceful-exit"
  <2>1. \A i \in DOMAIN ch' : ch'[i].kind \notin Foreign
    BY Zenon DEF ReportInv
  <2>2. \A i \in DOMAIN q : q[i].kind # "request-graceful-exit"
    BY DEF ReportInv
  <2> QED
    BY Zenon, <1>5, <2>1, <2>2
<1>8. ASSUME NEW u \in Tasks, u # t, Expects(u)' PROVE ExitUnderWay(u)'
  <2>1. Expects(u)
    <3>1. ASSUME NEW i \in DOMAIN selfq', selfq'[i].kind = "health-ok", selfq'[i].task = u
          PROVE  \E j \in DOMAIN selfq : selfq[j].kind = "health-ok" /\ selfq[j].task = u
      BY <1>5, <1>8, <3>1
    <3> QED
      BY Zenon, <1>4, <1>8, <3>1 DEF Expects
  <2>2. Seen(task[u]) \/ Heard(ch, u, task[u].row.gen) \/ Heard(selfq, u, task[u].row.gen)
    BY Zenon, <2>1, Places DEF ReportInv
  <2>3. Heard(ch, u, task[u].row.gen) => Heard(ch', u, task[u].row.gen)
    BY <1>8 DEF Heard, t
  <2>4. Heard(selfq, u, task[u].row.gen) => Heard(selfq', u, task[u].row.gen)
    BY <1>5, <1>8 DEF Heard, t
  <2>5. task'[u] = task[u]
    BY Zenon, <1>4, <1>8
  <2> QED
    BY Zenon, <2>2, <2>3, <2>4, <2>5 DEF ExitUnderWay, Seen, Heard
<1>9. ASSUME Expects(t)' PROVE ExitUnderWay(t)'
  <2>1. r.c.smState \in Expecting \/ SaysHealthy(r)
    <3>1. ASSUME NEW i \in DOMAIN selfq', selfq'[i].kind = "health-ok", selfq'[i].task = t
          PROVE  SaysHealthy(r)
      <4>1. ~(i \in DOMAIN q /\ selfq'[i] = q[i])
        BY Zenon, <3>1 DEF t
      <4> QED
        BY Zenon, <1>5, <3>1, <4>1 DEF SaysHealthy
    <3> QED
      BY Zenon, <1>0, <1>4, <1>9, <3>1 DEF Expects
  <2>2. Reports(c, ev, r)
    BY Zenon, <1>3, <2>1
  <2>3. Seen(r.c) \/ Heard(ch', t, r.c.row.gen) \/ Heard(selfq', t, r.c.row.gen)
    <3>1. CASE Seen(r.c)
      BY Zenon, <3>1
    <3>2. CASE Tells(r, r.c.row.gen)
      <4>1. PICK e : r.self = <<e>> /\ e.kind = "child-exit" /\ e.gen >= r.c.row.gen
        BY Zenon, <3>2 DEF Tells
      <4>2. e.task = t
        BY <1>3, <4>1 DEF PostsOne
      <4>3. PICK i \in DOMAIN selfq' : selfq'[i] = e
        BY Zenon, <1>5, <4>1
      <4> QED
        BY Zenon, <4>1, <4>2, <4>3 DEF Heard
    <3>3. CASE /\ r.c.row.gen = c.row.gen /\ ~Seen(c)
               /\ c.smState \in Expecting \/ ev.kind = "health-ok"
               /\ ev.kind = "child-exit" => ev.gen < c.row.gen
      <4>1. Expects(t)
        BY Zenon, <3>3 DEF Expects, c, t
      <4>2. Heard(ch, t, c.row.gen) \/ Heard(selfq, t, c.row.gen)
        BY Zenon, <1>0, <3>3, <4>1, Places DEF ReportInv, c
      <4>3. ev.gen \in Nat /\ c.row.gen \in Nat
        BY Zenon, <1>0 DEF SMEventSet, TaskRecords, TrackerRows
      <4>4. ~(ev.kind = "child-exit" /\ ev.gen >= c.row.gen)
        BY <3>3, <4>3
      <4>5. Heard(ch, t, c.row.gen) => Heard(ch', t, c.row.gen)
        BY <4>4 DEF Heard
      <4>6. Heard(selfq, t, c.row.gen) => Heard(selfq', t, c.row.gen)
        BY <1>5, <4>4 DEF Heard
      <4> QED
        BY Zenon, <3>3, <4>2, <4>5, <4>6
    <3> QED
      BY Zenon, <2>2, <3>1, <3>2, <3>3 DEF Reports
  <2> QED
    BY Zenon, <1>0, <1>4, <2>3 DEF ExitUnderWay, Seen, Heard
<1> QED
  BY ZenonT(40), <1>5, <1>6, <1>7, <1>8, <1>9 DEF ReportInv

\* Two records that agree in all that says where an exit is and who waits for it.
Alike(c, d) ==
  /\ d.children = c.children /\ d.row = c.row /\ d.verdict = c.verdict
  /\ d.smState = c.smState /\ d.ownSpawned = c.ownSpawned /\ d.reaper = c.reaper

\* They are watched and seen alike.
LEMMA AlikeReports ==
  ASSUME NEW c, NEW d, Alike(c, d)
  PROVE  /\ Watched(c) => Watched(d)
         /\ Seen(d) <=> Seen(c)
         /\ d.smState = c.smState /\ d.row.gen = c.row.gen
<1>1. Watched(c) => Watched(d)
  BY WatchedKept DEF Alike
<1>2. Seen(d) <=> Seen(c)
  BY SeenKept DEF Alike
<1> QED
  BY Zenon, <1>1, <1>2 DEF Alike

\* The event loop.
LEMMA LoopReports ==
  ASSUME Inv, ReportInv, Loop
  PROVE  ReportInv'
<1>0. /\ ch \in Seq(LoopEvents) /\ selfq \in Seq(SMEventSet) /\ Len(selfq) <= SelfCap
      /\ \A i \in DOMAIN ch : ch[i].kind \notin Foreign
      /\ \A i \in DOMAIN selfq : selfq[i].kind # "request-graceful-exit"
      /\ \A i \in DOMAIN wq : wq[i].kind \notin Foreign
      /\ \A u \in Tasks : starting[u] # "terminate"
      /\ \A u \in Tasks : Watched(task[u])
      /\ OneSelfEvent /\ SelfCap \in Nat \ {0}
  BY ControllerAssumptions DEF Inv, TypeOK, Consistent, ReportInv
<1>e. Len(<<>>) = 0 /\ DOMAIN <<>> = {} /\ <<>> \in Seq(SMEventSet)
  BY SMTT(40)
<1>t. ASSUME ch # <<>>, ch' = Tail(ch)
      PROVE  /\ \A i \in DOMAIN ch' : \E j \in DOMAIN ch : ch'[i] = ch[j]
             /\ \A j \in DOMAIN ch : ch[j] = Head(ch) \/ \E i \in DOMAIN ch' : ch'[i] = ch[j]
             /\ 1 \in DOMAIN ch /\ Head(ch) = ch[1] /\ Head(ch) \in LoopEvents
  <2>1. \A i \in DOMAIN ch' : i + 1 \in DOMAIN ch /\ ch'[i] = ch[i + 1]
    BY <1>0, <1>t
  <2>2. \A j \in DOMAIN ch : j # 1 => j - 1 \in DOMAIN ch' /\ ch'[j - 1] = ch[j]
    BY <1>0, <1>t
  <2>3. 1 \in DOMAIN ch /\ Head(ch) = ch[1] /\ Head(ch) \in LoopEvents
    BY <1>0, <1>t
  <2> QED
    BY Zenon, <2>1, <2>2, <2>3
<1>c. ASSUME ch # <<>>, ch' = Tail(ch), Head(ch).kind # "child-exit",
             UNCHANGED <<wq, starting>>, \A u \in Tasks : Alike(task[u], task'[u]),
             \/ UNCHANGED selfq
             \/ /\ selfq = <<>> /\ Len(selfq') <= SelfCap
                /\ \A i \in DOMAIN selfq' : selfq'[i].kind \notin Foreign
      PROVE  ReportInv'
  <2>1. \A u \in Tasks : /\ Watched(task'[u])
                         /\ task'[u].smState = task[u].smState
                         /\ task'[u].row.gen = task[u].row.gen
                         /\ Seen(task[u]) => Seen(task'[u]) \/ Heard(ch', u, task[u].row.gen)
    BY Zenon, <1>0, <1>c, AlikeReports
  <2>2. /\ \A j \in DOMAIN ch : ch[j].kind # "child-exit" \/ \E i \in DOMAIN ch' : ch'[i] = ch[j]
        /\ \A i \in DOMAIN ch' : ch'[i].kind \notin Foreign
    BY Zenon, <1>0, <1>c, <1>t
  <2>3. /\ \A i \in DOMAIN wq' : wq'[i].kind \notin Foreign
        /\ \A u \in Tasks : starting'[u] # "terminate"
    BY Zenon, <1>0, <1>c
  <2>4. \/ UNCHANGED selfq
        \/ /\ DOMAIN selfq = {} /\ Len(selfq') <= SelfCap
           /\ \A i \in DOMAIN selfq' : selfq'[i].kind \notin Foreign
    BY Zenon, <1>c, <1>e
  <2> QED
    BY Zenon, <2>1, <2>2, <2>3, <2>4, CalmReports
<1>1. CASE HandleSelf
  <2> DEFINE ev == Head(selfq)
             q == Tail(selfq)
  <2>1. selfq # <<>> /\ Dispatch(ev, q) /\ UNCHANGED <<ch, wq, starting>>
    BY <1>1 DEF HandleSelf
  <2>2. ev \in SMEventSet /\ q \in Seq(SMEventSet) /\ 1 \in DOMAIN selfq /\ ev = selfq[1]
    BY <1>0, <2>1
  <2>3. /\ \A i \in DOMAIN q : i + 1 \in DOMAIN selfq /\ q[i] = selfq[i + 1] /\ i + 1 # 1
        /\ \A j \in DOMAIN selfq : j # 1 => j - 1 \in DOMAIN q /\ q[j - 1] = selfq[j]
        /\ Len(q) < SelfCap
    BY <1>0, <2>1
  <2> HIDE DEF ev, q
  <2>4. \A i \in DOMAIN q : q[i].task # ev.task /\ \E j \in DOMAIN selfq : q[i] = selfq[j]
    BY <1>0, <2>2, <2>3 DEF OneSelfEvent
  <2>5. \A j \in DOMAIN selfq : selfq[j] = ev \/ \E i \in DOMAIN q : q[i] = selfq[j]
    BY Zenon, <2>2, <2>3
  <2>6. /\ ev.kind # "request-graceful-exit"
        /\ ev.kind = "health-ok" => \E i \in DOMAIN selfq : selfq[i] = ev
    BY Zenon, <1>0, <2>2
  <2>7. /\ \A i \in DOMAIN ch' : \E j \in DOMAIN ch : ch'[i] = ch[j]
        /\ \A j \in DOMAIN ch : ch[j] = ev \/ \E i \in DOMAIN ch' : ch'[i] = ch[j]
    BY Zenon, <2>1
  <2> QED
    BY ZenonT(40), <2>1, <2>2, <2>3, <2>4, <2>5, <2>6, <2>7, DispatchReports
<1>2. CASE HandleEvent
  <2> DEFINE ev == Head(ch)
  <2>1. /\ selfq = <<>> /\ ch # <<>> /\ Dispatch(ev, <<>>) /\ ch' = Tail(ch)
        /\ UNCHANGED <<wq, starting>> /\ ev.kind \in SMEvents
    BY <1>2 DEF HandleEvent
  <2>2. ev \in SMEventSet
    BY <1>t, <2>1, LoopEventKinds
  <2>3. ev.kind \notin Foreign
    BY <1>0, <1>t, <2>1
  <2>4. /\ \A i \in DOMAIN ch' : \E j \in DOMAIN ch : ch'[i] = ch[j]
        /\ \A j \in DOMAIN ch : ch[j] = ev \/ \E i \in DOMAIN ch' : ch'[i] = ch[j]
    BY Zenon, <1>t, <2>1
  <2> HIDE DEF ev
  <2>5. /\ \A i \in DOMAIN <<>> : <<>>[i].task # ev.task /\ \E j \in DOMAIN selfq : <<>>[i] = selfq[j]
        /\ \A j \in DOMAIN selfq : selfq[j] = ev \/ \E i \in DOMAIN <<>> : <<>>[i] = selfq[j]
        /\ Len(<<>>) < SelfCap
    BY <1>0, <1>e, <2>1
  <2>6. ev.kind # "request-graceful-exit" /\ ev.kind # "health-ok"
    BY <2>3 DEF Foreign
  <2> QED
    BY ZenonT(40), <1>e, <2>1, <2>2, <2>4, <2>5, <2>6, DispatchReports
<1>3. CASE HandleReapScan
  <2>1. /\ ch # <<>> /\ ch' = Tail(ch) /\ UNCHANGED <<selfq, wq, starting>>
        /\ Head(ch).kind = "reap-scan"
        /\ task' = [u \in Tasks |-> [task[u] EXCEPT !.want = Head(ch).snap[u]]]
    BY <1>3 DEF HandleReapScan
  <2>2. ASSUME NEW u \in Tasks PROVE Alike(task[u], task'[u])
    <3>1. task[u] \in TaskRecords
      BY DEF Inv, TypeOK
    <3> QED
      BY Zenon, <2>1, <3>1 DEF TaskRecords, Alike
  <2> QED
    BY Zenon, <1>c, <2>1, <2>2
<1>4. CASE HandleParoleTick
  <2>1. /\ ch # <<>> /\ ch' = Tail(ch) /\ UNCHANGED <<wq, starting>> /\ selfq = <<>>
        /\ Head(ch) = ParoleTick
    BY <1>4 DEF HandleParoleTick
  <2>2. Head(ch).kind # "child-exit"
    BY <2>1 DEF ParoleTick
  <2>3. CASE UNCHANGED <<task, selfq>>
    <3>1. \A u \in Tasks : Alike(task[u], task'[u])
      BY Zenon, <2>3 DEF Alike
    <3> QED
      BY Zenon, <1>c, <2>1, <2>2, <2>3, <3>1
  <2>4. CASE ~graceful
    <3>1. PICK cooled \in SUBSET {u \in Tasks : Paroled(task[u])},
               stable \in SUBSET {u \in Tasks : task[u].parole /\ task[u].smState = "running"} :
            /\ Cardinality(cooled) <= SelfCap
            /\ \E order \in Orders(cooled) :
                 selfq' = [i \in 1..Cardinality(cooled) |-> AutoRestart(order[i])]
            /\ task' = [u \in Tasks |->
                         [task[u] EXCEPT !.parole =
                            @ /\ u \notin stable /\ task[u].smState \notin {"none", "idle"}]]
      BY ZenonT(40), <1>4, <2>4 DEF HandleParoleTick
    <3>2. ASSUME NEW u \in Tasks PROVE Alike(task[u], task'[u])
      <4>1. task[u] \in TaskRecords
        BY DEF Inv, TypeOK
      <4> DEFINE b == task[u].parole /\ u \notin stable /\ task[u].smState \notin {"none", "idle"}
      <4>2. task'[u] = [task[u] EXCEPT !.parole = b]
        BY Zenon, <3>1
      <4> HIDE DEF b
      <4> QED
        BY Zenon, <4>1, <4>2 DEF TaskRecords, Alike
    <3>3. Cardinality(cooled) \in Nat
      BY Zenon, ControllerAssumptions
    <3>4. PICK order \in Orders(cooled) :
               selfq' = [i \in 1..Cardinality(cooled) |-> AutoRestart(order[i])]
      BY Zenon, <3>1
    <3> DEFINE n == Cardinality(cooled)
    <3>5. \A i \in 1..n : AutoRestart(order[i]).kind = "manual-restart"
      BY Zenon DEF AutoRestart, SMEvent
    <3> HIDE DEF n
    <3>6. Len(selfq') = n /\ DOMAIN selfq' = 1..n /\ \A i \in 1..n : selfq'[i] = AutoRestart(order[i])
      BY <3>3, <3>4 DEF n
    <3>7. Len(selfq') <= SelfCap /\ \A i \in DOMAIN selfq' : selfq'[i].kind \notin Foreign
      <4>1. "manual-restart" \notin Foreign
        BY DEF Foreign
      <4> QED
        BY Zenon, <3>1, <3>5, <3>6, <4>1 DEF n
    <3> QED
      BY Zenon, <1>c, <2>1, <2>2, <3>2, <3>7
  <2> QED
    BY Zenon, <1>4, <2>3, <2>4 DEF HandleParoleTick
<1> QED
  BY ZenonT(40), <1>1, <1>2, <1>3, <1>4 DEF Loop

\* A goroutine updates flags of one daemon, and may post something that is no exit.
LEMMA FlagReports ==
  ASSUME Inv, ReportInv, NEW t \in Tasks, NEW d, Update(t, d), Alike(task[t], d),
         UNCHANGED ch \/ \E e : Post(e) /\ e.kind \notin Foreign,
         UNCHANGED <<selfq, wq>>, \A u \in Tasks : starting'[u] # "terminate"
  PROVE  ReportInv'
<1>1. /\ Watched(d) /\ (Seen(task[t]) => Seen(d))
      /\ d.smState = task[t].smState /\ d.row.gen = task[t].row.gen
  BY AlikeReports DEF ReportInv
<1>2. \/ UNCHANGED ch /\ (Seen(task[t]) => Seen(d))
      \/ \E e : /\ ch' = Append(ch, e) /\ e.kind \notin Foreign
                /\ Seen(task[t]) =>
                     Seen(d) \/ (e.kind = "child-exit" /\ e.task = t /\ e.gen >= task[t].row.gen)
  BY Zenon, <1>1 DEF Post
<1> QED
  BY <1>1, <1>2, OffLoopReports

\* The wait goroutine marks the exit of its child, or drops that of an older one.
LEMMA MarkReports ==
  ASSUME Inv, ReportInv, NEW t \in Tasks, WaitMarksExit(t)
  PROVE  ReportInv'
<1> DEFINE c == task[t]
<1>1. /\ c \in TaskRecords /\ c.row \in TrackerRows /\ c.row.gen \in Nat /\ c.children \subseteq Children
      /\ Watched(c)
  BY Zenon DEF Inv, TypeOK, TaskRecords, TrackerRows, ReportInv
<1>2. PICK k \in c.children :
        /\ k.life = "dead"
        /\ Update(t, [c EXCEPT !.row = MarkExitedIfCurrent(@, k.gen),
                               !.children = IF IsStale(c.row, k.gen) THEN c.children \ {k}
                                            ELSE (c.children \ {k}) \cup {[k EXCEPT !.life = "marked"]}])
  BY ZenonT(40) DEF WaitMarksExit
<1> DEFINE row == MarkExitedIfCurrent(c.row, k.gen)
           x == [k EXCEPT !.life = "marked"]
           ks == IF IsStale(c.row, k.gen) THEN c.children \ {k} ELSE (c.children \ {k}) \cup {x}
           d == [c EXCEPT !.row = row, !.children = ks]
<1>3. UNCHANGED <<ch, selfq, wq, starting>> /\ Update(t, d)
  BY <1>2 DEF WaitMarksExit
<1>4. k.gen \in Nat /\ x.life = "marked" /\ x.gen = k.gen
  BY <1>1 DEF Children
<1>5. /\ IsStale(c.row, k.gen) => row = c.row /\ k.gen < c.row.gen
      /\ ~IsStale(c.row, k.gen) => row.pid = 0 /\ row.gen = c.row.gen /\ k.gen >= c.row.gen
  BY <1>1, <1>4 DEF MarkExitedIfCurrent, MarkExited, Cleared, IsStale, TrackerRows
<1> HIDE DEF row, x
<1>6. /\ IsStale(c.row, k.gen) => ks = c.children \ {k}
      /\ ~IsStale(c.row, k.gen) => x \in ks
  OBVIOUS
<1> HIDE DEF ks
<1>7. /\ d.row = row /\ d.children = ks /\ d.smState = c.smState /\ d.verdict = c.verdict
      /\ d.ownSpawned = c.ownSpawned /\ d.reaper = c.reaper
  BY Zenon, <1>1 DEF TaskRecords
<1> HIDE DEF d
<1>8. CASE IsStale(c.row, k.gen)
  <2>1. d.row = c.row /\ d.children = c.children \ {k} /\ k.gen < c.row.gen
    BY Zenon, <1>5, <1>6, <1>7, <1>8
  <2>2. \A j \in c.children : j.gen >= c.row.gen => j \in d.children
    BY <1>1, <1>4, <2>1
  <2>3. Watched(d)
    BY <1>1, <1>7, <2>1, <2>2 DEF Watched
  <2>4. Seen(c) => Seen(d)
    BY Zenon, <1>7, <2>1, <2>2 DEF Seen
  <2> QED
    BY Zenon, <1>3, <1>7, <2>1, <2>3, <2>4, OffLoopReports DEF ReportInv
<1>9. CASE ~IsStale(c.row, k.gen)
  <2>1. d.row.pid = 0 /\ d.row.gen = c.row.gen /\ x \in d.children /\ x.gen >= d.row.gen /\ x.life # "alive"
    BY ZenonT(40), <1>4, <1>5, <1>6, <1>7, <1>9
  <2>2. Watched(d) /\ Seen(d)
    BY <2>1 DEF Watched, Seen
  <2> QED
    BY Zenon, <1>3, <1>7, <2>1, <2>2, OffLoopReports DEF ReportInv
<1> QED
  BY Zenon, <1>8, <1>9

\* The bridge posts the exit the wait goroutine marked, and the sweep the one it found.
LEMMA ExitPostReports ==
  ASSUME Inv, ReportInv, NEW t \in Tasks, WaitPostsExit(t) \/ SweepPosts(t)
  PROVE  ReportInv'
<1> DEFINE c == task[t]
<1>1. /\ c \in TaskRecords /\ c.row.gen \in Nat /\ c.children \subseteq Children /\ Watched(c)
      /\ c.verdict \in Nat
  BY Zenon DEF Inv, TypeOK, TaskRecords, TrackerRows, ReportInv
<1>2. \A g \in Nat, b \in BOOLEAN : /\ ExitEvent(t, g, b).kind = "child-exit"
                                    /\ ExitEvent(t, g, b).task = t /\ ExitEvent(t, g, b).gen = g
  BY EventTypes
<1>f. "child-exit" \notin Foreign
  BY Zenon DEF Foreign
<1>3. CASE WaitPostsExit(t)
  <2>1. PICK k \in c.children : /\ k.life = "marked" /\ Post(ExitEvent(t, k.gen, k.clean))
                                /\ Update(t, [c EXCEPT !.children = @ \ {k}])
    BY ZenonT(40), <1>3 DEF WaitPostsExit
  <2> DEFINE e == ExitEvent(t, k.gen, k.clean)
             d == [c EXCEPT !.children = c.children \ {k}]
  <2>2. UNCHANGED <<selfq, wq, starting>> /\ ch' = Append(ch, e) /\ Update(t, d)
    BY Zenon, <1>3, <2>1 DEF WaitPostsExit, Post
  <2>3. k.gen \in Nat /\ k.clean \in BOOLEAN
    BY <1>1 DEF Children
  <2>4. e.kind = "child-exit" /\ e.task = t /\ e.gen = k.gen
    BY Zenon, <1>2, <2>3
  <2>5. /\ d.row = c.row /\ d.children = c.children \ {k} /\ d.smState = c.smState
        /\ d.verdict = c.verdict /\ d.ownSpawned = c.ownSpawned /\ d.reaper = c.reaper
    BY <1>1 DEF TaskRecords
  <2> HIDE DEF d, e
  <2>6. Watched(d)
    BY Zenon, <1>1, <2>1, <2>5 DEF Watched
  <2>7. Seen(c) => Seen(d) \/ k.gen >= c.row.gen
    BY Zenon, <2>5 DEF Seen
  <2> QED
    BY Zenon, <1>f, <2>2, <2>4, <2>5, <2>6, <2>7, OffLoopReports DEF ReportInv
<1>4. CASE SweepPosts(t)
  <2> DEFINE e == ExitEvent(t, c.verdict, FALSE)
             d == [c EXCEPT !.verdict = 0]
  <2>1. UNCHANGED <<selfq, wq, starting>> /\ ch' = Append(ch, e) /\ Update(t, d)
    BY <1>4 DEF SweepPosts, Post
  <2>2. FALSE \in BOOLEAN
    OBVIOUS
  <2>3. e.kind = "child-exit" /\ e.task = t /\ e.gen = c.verdict
    BY Zenon, <1>1, <1>2, <2>2
  <2>4. /\ d.row = c.row /\ d.children = c.children /\ d.smState = c.smState
        /\ d.ownSpawned = c.ownSpawned /\ d.reaper = c.reaper
    BY Zenon, <1>1 DEF TaskRecords
  <2> HIDE DEF d, e
  <2>5. Watched(d)
    BY Zenon, <1>1, <2>4, WatchedKept
  <2>6. Seen(c) => Seen(d) \/ c.verdict >= c.row.gen
    BY <1>1, <2>4 DEF Seen
  <2> QED
    BY Zenon, <1>f, <2>1, <2>3, <2>4, <2>5, <2>6, OffLoopReports DEF ReportInv
<1> QED
  BY Zenon, <1>3, <1>4

\* The sweep keeps in mind that the child of a running row is dead.
LEMMA SweepReports ==
  ASSUME Inv, ReportInv, NEW t \in Tasks, SweepFindsDead(t)
  PROVE  ReportInv'
<1> DEFINE c == task[t]
           d == [c EXCEPT !.verdict = c.row.gen]
<1>1. c \in TaskRecords /\ Watched(c)
  BY Zenon DEF Inv, TypeOK, ReportInv
<1>2. /\ UNCHANGED <<ch, selfq, wq, starting>> /\ Update(t, d)
      /\ c.row.state = "running" /\ c.row.pid > 0
  BY DEF SweepFindsDead
<1>3. /\ d.row = c.row /\ d.children = c.children /\ d.smState = c.smState
      /\ d.ownSpawned = c.ownSpawned /\ d.reaper = c.reaper
  BY Zenon, <1>1 DEF TaskRecords
<1> HIDE DEF d
<1>4. Watched(d) /\ Seen(d)
  <2>1. Watched(d)
    BY Zenon, <1>1, <1>3, WatchedKept
  <2> QED
    BY Zenon, <1>2, <1>3, <2>1 DEF Seen
<1> QED
  BY Zenon, <1>2, <1>3, <1>4, OffLoopReports DEF ReportInv

\* The goroutines around the loop.
LEMMA InternalReports ==
  ASSUME Inv, ReportInv, NEW t \in Tasks, Internal(t)
  PROVE  ReportInv'
<1> DEFINE c == task[t]
           Posts == UNCHANGED ch \/ \E e : Post(e) /\ e.kind \notin Foreign
           Calm == \E d : Update(t, d) /\ Alike(c, d)
<1>0. UNCHANGED task => Update(t, c)
  BY Zenon DEF Inv, TypeOK, Update
<1>1. c \in TaskRecords /\ \A u \in Tasks : starting[u] # "terminate"
  BY Zenon DEF Inv, TypeOK, ReportInv
<1>k. /\ SMEvent("timer-due", t).kind \notin Foreign /\ SMEvent("manual-restart", t).kind \notin Foreign
      /\ SMEvent("start", t).kind \notin Foreign /\ AutoRestart(t).kind \notin Foreign
  BY Zenon DEF SMEvent, AutoRestart, Foreign
<1>q. ASSUME Calm, Posts, UNCHANGED <<selfq, wq>>, \A u \in Tasks : starting'[u] # "terminate"
      PROVE  ReportInv'
  BY Zenon, <1>q, FlagReports
<1> HIDE DEF c, Posts
<1>2. CASE WaitMarksExit(t)
  BY Zenon, <1>2, MarkReports
<1>3. CASE WaitPostsExit(t) \/ SweepPosts(t)
  BY Zenon, <1>3, ExitPostReports
<1>4. CASE SweepFindsDead(t)
  BY <1>4, SweepReports
<1>5. CASE TimerFires(t)
  <2>1. PICK e : LET d == [c EXCEPT !.timers = @ \ {e}]
                 IN  Update(t, IF d.smState \in {"none", "backoff"} /\ d.armGen = e
                               THEN [d EXCEPT !.due = @ \cup {e}] ELSE d)
    BY ZenonT(40), <1>5 DEF TimerFires, c
  <2> DEFINE d == [c EXCEPT !.timers = @ \ {e}]
             b == [d EXCEPT !.due = @ \cup {e}]
  <2>2. Alike(c, d) /\ Alike(c, b)
    BY <1>1 DEF TaskRecords, Alike
  <2>3. Update(t, d) \/ Update(t, b)
    BY ZenonT(40), <2>1
  <2>4. Calm
    BY Zenon, <2>2, <2>3
  <2>5. Posts /\ UNCHANGED <<selfq, wq, starting>>
    BY <1>5 DEF TimerFires, Posts
  <2> QED
    BY Zenon, <1>1, <1>q, <2>4, <2>5
<1>6. CASE TimerPosts(t)
  <2>1. PICK e : Update(t, [c EXCEPT !.due = @ \ {e}]) /\ Post(SMEvent("timer-due", t))
    BY ZenonT(40), <1>6 DEF TimerPosts, c
  <2>2. Alike(c, [c EXCEPT !.due = @ \ {e}])
    BY <1>1 DEF TaskRecords, Alike
  <2>3. Posts
    BY Zenon, <1>k, <2>1 DEF Posts
  <2>4. UNCHANGED <<selfq, wq, starting>>
    BY Zenon, <1>6 DEF TimerPosts
  <2> QED
    BY Zenon, <1>1, <1>q, <2>1, <2>2, <2>3, <2>4
<1>7. CASE SweepRestarts(t) \/ PortGatePosts(t)
  <2>1. Alike(c, [c EXCEPT !.unbound = FALSE]) /\ Alike(c, [c EXCEPT !.gate = "none"])
    BY <1>1 DEF TaskRecords, Alike
  <2>2. Calm
    BY ZenonT(40), <1>7, <2>1 DEF SweepRestarts, PortGatePosts, c
  <2>3. Posts
    BY Zenon, <1>7, <1>k DEF SweepRestarts, PortGatePosts, Posts
  <2>4. UNCHANGED <<selfq, wq, starting>>
    BY Zenon, <1>7 DEF SweepRestarts, PortGatePosts
  <2> QED
    BY Zenon, <1>1, <1>q, <2>2, <2>3, <2>4
<1>8. CASE PortGateDecides(t)
  <2>1. \A g, b : Alike(c, [c EXCEPT !.gate = g, !.gateCleared = b])
    BY <1>1 DEF TaskRecords, Alike
  <2>2. \E g, b : Update(t, [c EXCEPT !.gate = g, !.gateCleared = b])
    BY ZenonT(40), <1>8 DEF PortGateDecides, c
  <2>3. Calm
    BY Zenon, <2>1, <2>2
  <2>4. Posts /\ UNCHANGED <<selfq, wq, starting>>
    BY Zenon, <1>8 DEF PortGateDecides, Posts
  <2> QED
    BY <1>1, <1>q, <2>3, <2>4
<1>9. CASE ReconcileStarts(t)
  <2>1. Update(t, c) /\ UNCHANGED <<selfq, wq>> /\ starting' = [starting EXCEPT ![t] = "done"]
    BY Zenon, <1>0, <1>9 DEF ReconcileStarts
  <2>2. Alike(c, c)
    BY DEF Alike
  <2>3. Posts
    BY Zenon, <1>9, <1>k DEF ReconcileStarts, Posts
  <2>4. \A u \in Tasks : starting'[u] # "terminate"
    BY Zenon, <1>1, <2>1 DEF Inv, TypeOK
  <2> QED
    BY Zenon, <1>q, <2>1, <2>2, <2>3, <2>4
<1>10. CASE ReconcileTerminates(t)
  BY Zenon, <1>1, <1>10 DEF ReconcileTerminates
<1> QED
  BY ZenonT(40), <1>2, <1>3, <1>4, <1>5, <1>6, <1>7, <1>8, <1>9, <1>10 DEF Internal

\* The children, the operator and the sweep.
LEMMA ExternalReports ==
  ASSUME Inv, ReportInv, NEW t \in Tasks, External(t)
  PROVE  ReportInv'
<1> DEFINE c == task[t]
<1>1. /\ c \in TaskRecords /\ c.row \in TrackerRows /\ Tracked(c) /\ Watched(c)
      /\ \A u \in Tasks : starting[u] # "terminate"
  BY Zenon DEF Inv, TypeOK, TaskRecords, Consistent, ReportInv
<1>2. CASE ChildDies(t)
  <2>1. PICK k \in Alive(c), clean \in BOOLEAN : Update(t, [c EXCEPT !.children = Exited(@, k, clean)])
    BY ZenonT(40), <1>2 DEF ChildDies
  <2> DEFINE d == [c EXCEPT !.children = Exited(c.children, k, clean)]
  <2>2. Update(t, d) /\ UNCHANGED <<ch, selfq, wq, starting>>
    BY Zenon, <1>2, <2>1 DEF ChildDies
  <2>3. /\ d.children = Exited(c.children, k, clean) /\ d.row = c.row /\ d.smState = c.smState
        /\ d.ownSpawned = c.ownSpawned /\ d.reaper = c.reaper /\ d.verdict = c.verdict
    BY Zenon, <1>1 DEF TaskRecords
  <2> HIDE DEF d
  <2>4. Watched(d) /\ (Seen(c) => Seen(d))
    BY Zenon, <1>1, <2>3, ExitedReports
  <2> QED
    BY Zenon, <1>1, <2>2, <2>3, <2>4, OffLoopReports
<1>3. CASE SweepFindsUnbound(t)
  <2> DEFINE d == [c EXCEPT !.unbound = TRUE]
  <2>1. Update(t, d) /\ UNCHANGED <<ch, selfq, wq, starting>>
    BY <1>3 DEF SweepFindsUnbound
  <2>2. Alike(c, d)
    BY Zenon, <1>1 DEF TaskRecords, Alike
  <2> HIDE DEF d
  <2> QED
    BY Zenon, <1>1, <2>1, <2>2, FlagReports
<1>4. CASE HandleRespawn(t) \/ SelfHeal(t) \/ SetIntent(t)
  <2>1. Update(t, c) /\ UNCHANGED <<selfq, wq, starting>>
    BY <1>4 DEF HandleRespawn, SelfHeal, SetIntent, Inv, TypeOK, Update
  <2>2. SMEvent("manual-restart", t).kind \notin Foreign /\ AutoRestart(t).kind \notin Foreign
    BY DEF SMEvent, AutoRestart, Foreign
  <2>3. UNCHANGED ch \/ \E e : Post(e) /\ e.kind \notin Foreign
    BY Zenon, <1>4, <2>2 DEF HandleRespawn, SelfHeal, SetIntent
  <2>4. Alike(c, c)
    BY Zenon DEF Alike
  <2> QED
    BY ZenonT(40), <1>1, <2>1, <2>3, <2>4, FlagReports
<1>5. CASE WindowSlides(t)
  <2> DEFINE row == [c.row EXCEPT !.crashes = @ - 1]
             d == [c EXCEPT !.row = row]
  <2>1. Update(t, d) /\ UNCHANGED <<ch, selfq, wq, starting>>
    BY ZenonT(40), <1>5 DEF WindowSlides
  <2>2. row.gen = c.row.gen /\ row.pid = c.row.pid /\ row.state = c.row.state
    BY <1>1 DEF TrackerRows
  <2> HIDE DEF row
  <2>3. /\ d.row = row /\ d.children = c.children /\ d.smState = c.smState
        /\ d.ownSpawned = c.ownSpawned /\ d.reaper = c.reaper /\ d.verdict = c.verdict
    BY Zenon, <1>1 DEF TaskRecords
  <2> HIDE DEF d
  <2>4. Watched(d) /\ (Seen(d) <=> Seen(c))
    BY Zenon, <1>1, <2>2, <2>3, WatchedKept, SeenKept
  <2> QED
    BY Zenon, <1>1, <2>1, <2>2, <2>3, <2>4, OffLoopReports
<1> QED
  BY Zenon, <1>2, <1>3, <1>4, <1>5 DEF External

\* The watcher, the parole ticker and the quiesce window.
LEMMA WatcherReports ==
  ASSUME Inv, ReportInv,
         WatcherReads \/ WatcherPosts \/ ParoleTicks \/ Quiesce \/ QuiesceEnds
  PROVE  ReportInv'
<1>0. /\ \A i \in DOMAIN ch : ch[i].kind \notin Foreign
      /\ wq \in Seq(LoopEvents) /\ \A i \in DOMAIN wq : wq[i].kind \notin Foreign
      /\ \A u \in Tasks : Watched(task[u]) /\ starting[u] # "terminate"
  BY Zenon DEF ReportInv, Inv, TypeOK
<1>c. ASSUME UNCHANGED <<task, selfq, starting>>,
             UNCHANGED ch \/ \E e : ch' = Append(ch, e) /\ e.kind \notin Foreign,
             \A i \in DOMAIN wq' : wq'[i].kind \notin Foreign
      PROVE  ReportInv'
  <2>1. /\ \A j \in DOMAIN ch : \E i \in DOMAIN ch' : ch'[i] = ch[j]
        /\ \A i \in DOMAIN ch' : ch'[i].kind \notin Foreign
    <3>1. CASE UNCHANGED ch
      BY Zenon, <1>0, <3>1
    <3>2. CASE \E e : ch' = Append(ch, e) /\ e.kind \notin Foreign
      BY Zenon, <3>2, AppendedEvent
    <3> QED
      BY Zenon, <1>c, <3>1, <3>2
  <2> QED
    BY Zenon, <1>0, <1>c, <2>1, CalmReports
<1>1. CASE WatcherReads
  <2>1. PICK order \in Orders({u \in Tasks : disk[u] # prev[u]}) :
             wq' = <<ScanEvent(disk)>> \o [i \in DOMAIN order |-> SMEvent("intent-update", order[i])]
    BY ZenonT(40), <1>1 DEF WatcherReads
  <2> DEFINE n == Cardinality({u \in Tasks : disk[u] # prev[u]})
             us == [i \in 1 .. n |-> SMEvent("intent-update", order[i])]
  <2>2. n \in Nat
    BY Zenon, ControllerAssumptions
  <2> HIDE DEF n
  <2>3. wq' = <<ScanEvent(disk)>> \o us
    BY Zenon, <2>1 DEF Orders, n
  <2>k. /\ ScanEvent(disk).kind \notin Foreign
        /\ \A u : SMEvent("intent-update", u).kind \notin Foreign
    BY DEF ScanEvent, SMEvent, Foreign
  <2>4. Len(us) = n /\ DOMAIN us = 1 .. n /\ \A i \in 1 .. n : us[i].kind \notin Foreign
    <3>1. \A i \in 1 .. n : us[i] = SMEvent("intent-update", order[i])
      OBVIOUS
    <3>2. Len(us) = n /\ DOMAIN us = 1 .. n
      BY <2>2
    <3> HIDE DEF us
    <3> QED
      BY ZenonT(40), <2>k, <3>1, <3>2
  <2>5. us \in Seq({us[i] : i \in 1 .. n})
    BY <2>2
  <2> HIDE DEF us
  <2>6. \A i \in DOMAIN wq' : wq'[i] = ScanEvent(disk) \/ \E j \in 1 .. n : wq'[i] = us[j]
    BY <2>2, <2>3, <2>4, <2>5
  <2>7. \A i \in DOMAIN wq' : wq'[i].kind \notin Foreign
    BY Zenon, <2>4, <2>6, <2>k
  <2>8. UNCHANGED <<task, selfq, starting, ch>>
    BY Zenon, <1>1 DEF WatcherReads
  <2> QED
    BY Zenon, <1>c, <2>7, <2>8
<1>2. CASE WatcherPosts
  <2>1. /\ wq # <<>> /\ ch' = Append(ch, Head(wq)) /\ wq' = Tail(wq)
        /\ UNCHANGED <<task, selfq, starting>>
    BY Zenon, <1>2 DEF WatcherPosts, Post
  <2>2. 1 \in DOMAIN wq /\ Head(wq) = wq[1]
    BY <1>0, <2>1
  <2>3. \A i \in DOMAIN wq' : i + 1 \in DOMAIN wq /\ wq'[i] = wq[i + 1]
    BY <1>0, <2>1
  <2>4. Head(wq).kind \notin Foreign /\ \A i \in DOMAIN wq' : wq'[i].kind \notin Foreign
    BY Zenon, <1>0, <2>2, <2>3
  <2> QED
    BY Zenon, <1>c, <2>1, <2>4
<1>3. CASE ParoleTicks
  <2>1. ParoleTick.kind \notin Foreign
    BY DEF ParoleTick, Foreign
  <2>2. ch' = Append(ch, ParoleTick) /\ UNCHANGED <<task, selfq, wq, starting>>
    BY Zenon, <1>3 DEF ParoleTicks, Post
  <2> QED
    BY Zenon, <1>0, <1>c, <2>1, <2>2
<1>4. CASE Quiesce \/ QuiesceEnds
  <2>1. UNCHANGED <<task, ch, selfq, wq, starting>>
    BY Zenon, <1>4 DEF Quiesce, QuiesceEnds
  <2> QED
    BY Zenon, <1>0, <1>c, <2>1
<1> QED
  BY Zenon, <1>1, <1>2, <1>3, <1>4

---------------------------------------------------------------------------
(* The invariant and the theorem *)

\* No daemon that is to be stopped survived the last supervisor: ReconcileTerminates,
\* which drops the exit it synthesizes, has nothing to do.
NoStoppedSurvivor == \A s \in Starts : s.warm => s.want = "running"

\* A survivor starts as the running child of its row; a cold daemon waits for nothing.
LEMMA InitReports ==
  ASSUME Init, NoStoppedSurvivor
  PROVE  ReportInv
<1>1. PICK s \in [Tasks -> Starts] :
           /\ task = [t \in Tasks |-> InitialTask(s[t])]
           /\ starting = [t \in Tasks |-> StartupAction(s[t])]
  BY DEF Init
<1>2. DOMAIN ch = {} /\ DOMAIN selfq = {} /\ DOMAIN wq = {} /\ Len(selfq) = 0
  BY SMTT(40) DEF Init
<1>3. ASSUME NEW x \in Starts
      PROVE  /\ Watched(InitialTask(x)) /\ StartupAction(x) # "terminate"
             /\ InitialTask(x).smState \in Expecting => Seen(InitialTask(x))
  <2>0. x.warm \in BOOLEAN /\ (x.warm => x.want = "running")
    BY Zenon, ControllerAssumptions DEF NoStoppedSurvivor
  <2>1. /\ ~InitialTask(x).ownSpawned /\ ~InitialTask(x).reaper
        /\ InitialTask(x).smState = IF x.warm THEN "running" ELSE "none"
        /\ InitialTask(x).row = IF x.warm THEN MarkSpawned(Absent, 1) ELSE Absent
    BY DEF InitialTask
  <2>2. MarkSpawned(Absent, 1).pid = 1 /\ MarkSpawned(Absent, 1).state = "running"
    BY Zenon DEF MarkSpawned, Absent
  <2>3. Watched(InitialTask(x))
    BY <2>1 DEF Watched
  <2>4. StartupAction(x) # "terminate"
    BY Zenon, <2>0 DEF StartupAction
  <2>5. InitialTask(x).smState \in Expecting => Seen(InitialTask(x))
    BY <2>1, <2>2 DEF Expecting, Seen
  <2> QED
    BY Zenon, <2>3, <2>4, <2>5
<1>4. \A t \in Tasks : /\ Watched(task[t]) /\ starting[t] # "terminate"
                       /\ task[t].smState \in Expecting => Seen(task[t])
  BY Zenon, <1>1, <1>3
<1>5. \A t \in Tasks : Expects(t) => ExitUnderWay(t)
  BY Zenon, <1>2, <1>4, Places DEF Expects
<1>6. Len(selfq) <= SelfCap
  BY <1>2, ControllerAssumptions
<1> QED
  BY Zenon, <1>2, <1>4, <1>5, <1>6 DEF ReportInv

\* Every step keeps ReportInv.
LEMMA NextReports ==
  ASSUME Inv, ReportInv, [Next]_vars
  PROVE  ReportInv'
<1>1. CASE UNCHANGED vars
  BY <1>1 DEF vars, ReportInv, Expects, ExitUnderWay
<1> QED
  BY ZenonT(40), <1>1, LoopReports, WatcherReports, InternalReports, ExternalReports DEF Next

\* A daemon the controller believes to have a child, or waits for the exit of one, has a
\* live child or will be told of its exit: by the wait goroutine, by the sweep, by the
\* terminate side effect itself or by an event that is queued already.  So no daemon is
\* stuck in running or exiting.
THEOREM NotStrandedHolds == NoStoppedSurvivor /\ Spec => []NotStranded
<1>1. NoStoppedSurvivor /\ Init => ReportInv
  BY InitReports
<1>2. Inv /\ ReportInv /\ [Next]_vars => ReportInv'
  BY Zenon, NextReports
<1>3. ReportInv => NotStranded
  BY DEF ReportInv, NotStranded, Expects, Expecting
<1> QED
  BY <1>1, <1>2, <1>3, InvHolds, PTL DEF Spec
===========================================================================
