------------------------------ MODULE LazyProxy ------------------------------
(***************************************************************************)
(* The lazy proxy of one workspace and language, internal/daemon/          *)
(* lazy_proxy.go: it answers handshakes itself and starts the language     *)
(* server only when a request needs it.                                    *)
(*                                                                         *)
(* The goroutines are one handler for each request, one flight for each    *)
(* materialization (detached from the request that began it), the ticker   *)
(* that reaps idle and wedged backends, the readiness worker and the       *)
(* caller of Stop.  A step is one critical section of p.mu, of the gate,   *)
(* of the lifecycle's mutex or of the registry's file lock; everything     *)
(* between two such sections interleaves.                                  *)
(*                                                                         *)
(* A backend process is a number.  The endpoint is the backend it wraps,   *)
(* and an endpoint is closed exactly when its generation is over.  Time is *)
(* left out: a timer that is armed may fire.  There is one document; the   *)
(* counts of two documents never meet.                                     *)
(***************************************************************************)
EXTENDS Integers, FiniteSets, InflightGate, LazyReadiness

CONSTANTS
    Reqs,        \* the requests, one handler each
    Flights,     \* the flights that may run at once
    Backends,    \* the backend processes, positive numbers
    Kinds,       \* what the clients send in this instance
    Budgets      \* bound: how often each input may happen, one function a scenario

AllKinds == {"call", "open", "close"}

\* exit: a backend exits; idle, probation: the ticker finds a timer expired;
\* cancel: a client leaves; refuse: the registry's other rows leave no slot;
\* start: a spawn or handshake fails; stop: a backend cannot be stopped;
\* full: a backend's pending map is full; reject: it rejects a notification;
\* write: a registry write or read fails; lost: a commit's replies are lost;
\* close: Stop is called; request: a client sends a request.
Inputs == {"exit", "idle", "probation", "cancel", "refuse", "start", "stop", "full",
           "reject", "write", "lost", "close", "request"}

Procs == Reqs \cup Flights \cup {"ticker", "worker", "stopper"}

ASSUME LazyAssumption ==
    /\ 0 \notin Flights
    /\ Backends \subseteq Nat \ {0}
    /\ Kinds \subseteq AllKinds
    /\ Budgets \subseteq [Inputs -> Nat]
    /\ Reqs \cap (Flights \cup {"ticker", "worker", "stopper"}) = {}
    /\ Flights \cap {"ticker", "worker", "stopper"} = {}

VARIABLES
    pc,      \* where each goroutine is
    loc,     \* its local variables
    kind,    \* what each request is
    ans,     \* what its client was told
    px,      \* the fields p.mu guards, and closed
    lc,      \* the BackendLifecycle: its mutex and its host
    proc,    \* the backend processes
    row,     \* the proxy's lifecycle in the registry
    gate,    \* the InflightGate
    rd,      \* the readiness publisher, and the supervisor's row
    docs,    \* the document's count and the map's epoch
    budget   \* how often each input may still happen

vars == <<pc, loc, kind, ans, px, lc, proc, row, gate, rd, docs, budget>>

Rows == {"configured", "starting", "active", "failed", "missing"}
AllAnswers == {"none", "ok", "accepted", "retry", "held", "error", "closed"}

\* gen, host: the endpoint in use; flight: the flight joined; res: the result
\* a flight delivered; epoch: the document map's epoch; sent: the request
\* reached the backend; cold: isWarmed was false when it was sent; why: what
\* a teardown or a flight's end is about; victim: the backend it stops.
Locals ==
    [gen : Nat, host : Backends \cup {0}, flight : Flights \cup {0},
     res : Outcomes \cup {"none"}, epoch : Nat, sent : BOOLEAN, cold : BOOLEAN,
     why : Outcomes \cup {"none", "idle", "fail", "undone"},
     victim : Backends \cup {0}]

NoLocals ==
    [gen |-> 0, host |-> 0, flight |-> 0, res |-> "none", epoch |-> 0,
     sent |-> FALSE, cold |-> FALSE, why |-> "none", victim |-> 0]

\* endpoint, gen, warmed, reaping, closed and inflight as the code names them;
\* marker: startingSince is set; shadow: lastWrittenLifecycle; used:
\* lastBackendActivity is set; severed: reapSeveredGeneration.
Proxies ==
    [endpoint : Backends \cup {0}, gen : Nat, warmed : BOOLEAN, reaping : BOOLEAN,
     closed : BOOLEAN, marker : BOOLEAN, shadow : Rows \cup {""}, used : BOOLEAN,
     severed : Nat, inflight : Nat]

IsDoc(r) == kind[r] # "call"

Goto(p, label) == pc' = [pc EXCEPT ![p] = label]
Set(p, l) == loc' = [loc EXCEPT ![p] = l]
Spend(i) == budget[i] > 0 /\ budget' = [budget EXCEPT ![i] = @ - 1]

Idle(p) == IF p \in Reqs THEN "done" ELSE IF p \in Flights THEN "free" ELSE p

Init ==
    /\ pc = [p \in Procs |-> Idle(p)]
    /\ loc = [p \in Procs |-> NoLocals]
    /\ kind = [r \in Reqs |-> "call"]
    /\ ans = [r \in Reqs |-> "none"]
    /\ px = [endpoint |-> 0, gen |-> 0, warmed |-> FALSE, reaping |-> FALSE,
             closed |-> FALSE, marker |-> FALSE, shadow |-> "", used |-> FALSE,
             severed |-> 0, inflight |-> 0]
    /\ lc = [mu |-> 0, host |-> 0]
    /\ proc = [b \in Backends |-> "unborn"]
    /\ row = "configured"
    /\ gate = NewInflightGate
    /\ rd = NewPublisher
    /\ docs = [count |-> 0, epoch |-> 0, opened |-> FALSE, view |-> {}]
    /\ budget \in Budgets

(***************************************************************************)
(* The registry row.                                                       *)
(***************************************************************************)

\* The running state that reconcileRegistryLifecycleLocked derives.
Derived(q) ==
    IF q.endpoint # 0 /\ q.warmed THEN "active"
    ELSE IF q.endpoint # 0 \/ q.marker THEN "starting"
    ELSE "configured"

\* reconcileRegistryLifecycleLocked, called with the current generation at the
\* end of a critical section that leaves the fields at q.  It writes when the
\* derived state is not the shadow; a failed write leaves the shadow alone.
ReconcileTo(q) ==
    IF Derived(q) = q.shadow
    THEN px' = q /\ UNCHANGED <<row, budget>>
    ELSE \/ /\ px' = [q EXCEPT !.shadow = Derived(q)]
            /\ row' = Derived(q)
            /\ UNCHANGED budget
         \/ /\ px' = q
            /\ Spend("write")
            /\ UNCHANGED row

\* PutLifecycle where the code ignores its error.
Stamp(state) ==
    \/ row' = state /\ UNCHANGED budget
    \/ Spend("write") /\ UNCHANGED row

\* Mutant: a teardown keeps the generation.
TornDownSameGen(q) ==
    [q EXCEPT !.endpoint = 0, !.shadow = "", !.warmed = FALSE, !.marker = FALSE, !.used = FALSE]

\* The fields a teardown resets, under a new generation.
TornDown(q) ==
    [q EXCEPT !.endpoint = 0, !.gen = @ + 1, !.shadow = "", !.warmed = FALSE,
              !.marker = FALSE, !.used = FALSE]

(***************************************************************************)
(* A request: handleDocLifecycle, handleToolsCall, handleForward and       *)
(* ensureMaterialized.                                                     *)
(***************************************************************************)

rSame == UNCHANGED <<kind, lc, proc, rd>>

\* The request is refused before it has an endpoint.
Refuse(r, a) ==
    /\ ans' = [ans EXCEPT ![r] = a]
    /\ Goto(r, IF IsDoc(r) THEN "undo" ELSE "done")

\* The request is answered; endBackendRequest is still to run.
Answer(r, a) ==
    /\ ans' = [ans EXCEPT ![r] = a]
    /\ Goto(r, "end")

\* handleMCP: a client sends a request.
Arrive(r) ==
    /\ pc[r] = "done"
    /\ Spend("request")
    /\ \E k \in Kinds : kind' = [kind EXCEPT ![r] = k]
    /\ ans' = [ans EXCEPT ![r] = "none"]
    /\ Goto(r, "new")
    /\ UNCHANGED <<loc, px, lc, proc, row, gate, rd, docs>>

Receive(r) ==
    /\ pc[r] = "new"
    /\ ~IsDoc(r)
    /\ Goto(r, "enter")
    /\ rSame /\ UNCHANGED <<loc, ans, px, row, gate, docs, budget>>

\* handleDocLifecycle up to applyDocRef: only the first open and the last
\* close go on to the backend.
ApplyDocRef(r) ==
    LET open == kind[r] = "open"
        forward == IF open THEN docs.count = 0 ELSE docs.count = 1
    IN /\ pc[r] = "new"
       /\ IsDoc(r)
       /\ docs' = IF open THEN [docs EXCEPT !.count = @ + 1, !.opened = TRUE]
                  ELSE IF docs.count = 0 THEN docs
                  ELSE [docs EXCEPT !.count = @ - 1]
       /\ Set(r, [loc[r] EXCEPT !.epoch = docs.epoch])
       /\ Goto(r, IF forward THEN "enter" ELSE "done")
       /\ ans' = IF forward THEN ans ELSE [ans EXCEPT ![r] = "accepted"]
       /\ rSame /\ UNCHANGED <<px, row, gate, budget>>

\* The end of ensureMaterialized: reconcile, beginBackendRequestLocked.
Acquire(r) ==
    /\ ReconcileTo([px EXCEPT !.inflight = @ + 1, !.used = TRUE])
    /\ Set(r, [loc[r] EXCEPT !.gen = px.gen, !.host = px.endpoint])
    /\ Goto(r, "send")
    /\ UNCHANGED ans

\* The fast path, which waits while a teardown runs, and the second look at
\* the cache before the slot is reserved.  closed is read outside p.mu.
CheckClosed(r) ==
    /\ pc[r] \in {"enter", "reenter"}
    /\ IF px.closed
       THEN Refuse(r, "closed")
       ELSE Goto(r, IF pc[r] = "enter" THEN "look" ELSE "relook") /\ UNCHANGED ans
    /\ rSame /\ UNCHANGED <<loc, px, row, gate, docs, budget>>

LookUp(r) ==
    /\ pc[r] \in {"look", "relook"}
    /\ \/ /\ px.endpoint # 0
          /\ Acquire(r)
       \/ /\ px.endpoint = 0
          /\ pc[r] = "relook" \/ ~px.reaping
          /\ Goto(r, IF pc[r] = "look" THEN "reenter" ELSE "snap")
          /\ UNCHANGED <<loc, ans, px, row, budget>>
       \/ /\ px.endpoint = 0 /\ px.reaping
          /\ pc[r] = "look"
          /\ \/ /\ px.closed
                /\ Goto(r, "enter")
                /\ UNCHANGED <<ans, budget>>
             \/ /\ Spend("cancel")
                /\ Refuse(r, "error")
          /\ UNCHANGED <<loc, px, row>>
    /\ rSame /\ UNCHANGED <<gate, docs>>

\* reserveMaterializedSlot: p.mu for the snapshot, then the registry's lock.
\* The hard cap refuses any request, the cold-start gate only one whose proxy
\* has no flight of its own.
Snapshot(r) ==
    /\ pc[r] = "snap"
    /\ Goto(r, IF px.endpoint # 0 THEN "mark" ELSE "reserve")
    /\ rSame /\ UNCHANGED <<loc, ans, px, row, gate, docs, budget>>

ReserveMaterializedSlot(r) ==
    /\ pc[r] = "reserve"
    /\ \/ /\ row' = "starting"
          /\ Goto(r, "unshadow")
          /\ UNCHANGED <<ans, budget>>
       \/ /\ Spend("refuse")
          /\ \/ Refuse(r, "error")
             \/ ~HasActiveFlight(gate) /\ Refuse(r, "retry")
          /\ UNCHANGED row
       \/ /\ Spend("write")
          /\ Refuse(r, "error")
          /\ UNCHANGED row
    /\ rSame /\ UNCHANGED <<loc, px, gate, docs>>

\* The reserve wrote behind the shadow's back: forget what was last written.
InvalidateShadow(r) ==
    /\ pc[r] = "unshadow"
    /\ px' = [px EXCEPT !.shadow = ""]
    /\ Goto(r, "mark")
    /\ rSame /\ UNCHANGED <<loc, ans, row, gate, docs, budget>>

MarkStartingReserved(r) ==
    /\ pc[r] = "mark"
    /\ px' = [px EXCEPT !.marker = @ \/ px.endpoint = 0]
    /\ Goto(r, "gate")
    /\ rSame /\ UNCHANGED <<loc, ans, row, gate, docs, budget>>

\* DoBounded up to the wait: a cached failure, the flight in the air, or a
\* new one.
DoBounded(r) ==
    /\ pc[r] = "gate"
    /\ \/ /\ Throttled(gate)
          /\ Set(r, [loc[r] EXCEPT !.res = gate.failure])
          /\ Goto(r, "failed")
          /\ UNCHANGED gate
       \/ /\ ~Throttled(gate)
          /\ gate.call # 0
          /\ Set(r, [loc[r] EXCEPT !.flight = gate.call])
          /\ Goto(r, "join")
          /\ UNCHANGED gate
       \/ /\ ~Throttled(gate)
          /\ gate.call = 0
          /\ \E f \in Flights :
                /\ pc[f] = "free"
                /\ gate' = Enter(gate, f)
                /\ Set(r, [loc[r] EXCEPT !.flight = f])
                /\ pc' = [pc EXCEPT ![r] = "join", ![f] = "start"]
    /\ rSame /\ UNCHANGED <<ans, px, row, docs, budget>>

\* The wait for the flight, bounded by MaterializeWaitBudget and the client.
AwaitFlight(r) ==
    /\ pc[r] = "join"
    /\ \/ /\ loc[r].res # "none"
          /\ Goto(r, IF loc[r].res = "ok" THEN "acquire" ELSE "failed")
          /\ UNCHANGED <<ans, budget>>
       \/ /\ loc[r].res = "none"
          /\ ans' = [ans EXCEPT ![r] = "retry"]
          /\ Goto(r, "abort")
          /\ UNCHANGED budget
       \/ /\ loc[r].res = "none"
          /\ Spend("cancel")
          /\ ans' = [ans EXCEPT ![r] = "error"]
          /\ Goto(r, "abort")
    /\ Set(r, [loc[r] EXCEPT !.flight = 0, !.res = IF @ = "ok" THEN "none" ELSE @])
    /\ rSame /\ UNCHANGED <<px, row, gate, docs>>

\* The wait was given up: restore the row a reserve may have downgraded.
AbandonFlight(r) ==
    /\ pc[r] = "abort"
    /\ IF px.endpoint # 0 /\ ~px.closed
       THEN ReconcileTo(px)
       ELSE UNCHANGED <<px, row, budget>>
    /\ Goto(r, IF IsDoc(r) THEN "undo" ELSE "done")
    /\ rSame /\ UNCHANGED <<loc, ans, gate, docs>>

\* The flight failed, or its failure was cached.  Nothing is stamped when the
\* proxy closes, the client has left or the backend could not be published.
FlightFailed(r) ==
    /\ pc[r] = "failed"
    /\ \/ /\ Spend("cancel")
          /\ ans' = [ans EXCEPT ![r] = "error"]
          /\ Goto(r, "abort")
          /\ UNCHANGED row
       \/ /\ Refuse(r, "error")
          /\ IF px.closed \/ loc[r].res = "unpublishable"
             THEN UNCHANGED <<row, budget>>
             ELSE Stamp(IF loc[r].res = "missing" THEN "missing" ELSE "failed")
    /\ Set(r, [loc[r] EXCEPT !.res = "none"])
    /\ rSame /\ UNCHANGED <<px, gate, docs>>

AcquirePublished(r) ==
    /\ pc[r] = "acquire"
    /\ \/ /\ px.closed
          /\ Refuse(r, "closed")
          /\ UNCHANGED <<loc, px, row, budget>>
       \/ /\ ~px.closed
          /\ px.endpoint = 0
          /\ Refuse(r, "error")
          /\ UNCHANGED <<loc, px, row, budget>>
       \/ /\ ~px.closed
          /\ px.endpoint # 0
          /\ Acquire(r)
    /\ rSame /\ UNCHANGED <<gate, docs>>

(***************************************************************************)
(* The request at its endpoint.                                            *)
(***************************************************************************)

\* What the backend knows of the document after it reads the notification.
Notified(r) ==
    IF kind[r] = "open" THEN docs.view \cup {loc[r].host} ELSE docs.view \ {loc[r].host}

\* SendRequest up to the wait.  A closed endpoint and a dead backend refuse
\* the write, a full pending map does before anything is written.
SendRequest(r) ==
    LET usable == loc[r].gen = px.gen /\ proc[loc[r].host] = "up"
    IN /\ pc[r] = "send"
       /\ \/ /\ ~usable
             /\ Set(r, [loc[r] EXCEPT !.why = "fail"])
             /\ Goto(r, IF IsDoc(r) THEN "undo" ELSE "classify")
             /\ UNCHANGED <<ans, docs, budget>>
          \/ /\ usable
             /\ Spend("full")
             /\ ans' = [ans EXCEPT ![r] = "retry"]
             /\ Goto(r, IF IsDoc(r) THEN "undo" ELSE "end")
             /\ UNCHANGED <<loc, docs>>
          \/ /\ usable
             /\ Set(r, [loc[r] EXCEPT !.sent = TRUE, !.cold = ~px.warmed])
             /\ Goto(r, "await")
             /\ docs' = IF IsDoc(r) THEN [docs EXCEPT !.view = Notified(r)] ELSE docs
             /\ UNCHANGED <<ans, budget>>
       /\ rSame /\ UNCHANGED <<px, row, gate>>

\* The response.  A rejected notification had no effect on the backend.
Respond(r) ==
    /\ pc[r] = "await"
    /\ proc[loc[r].host] = "up"
    /\ Goto(r, "warm")
    /\ \/ UNCHANGED <<loc, docs, budget>>
       \/ /\ IsDoc(r)
          /\ Spend("reject")
          /\ Set(r, [loc[r] EXCEPT !.why = "undone"])
          /\ docs' = [docs EXCEPT !.view = IF kind[r] = "open" THEN @ \ {loc[r].host}
                                           ELSE @ \cup {loc[r].host}]
    /\ rSame /\ UNCHANGED <<ans, px, row, gate>>

\* The wait is cut: a call by ColdRequestHoldCeiling or its client, a
\* notification by its client or, when it was sent cold, by the probation
\* budget.  A notification is kept when the backend is still alive.
CutWait(r) ==
    LET alive == loc[r].gen = px.gen /\ proc[loc[r].host] = "up"
    IN /\ pc[r] = "await"
       /\ \/ /\ ~IsDoc(r)
             /\ Answer(r, "held")
             /\ UNCHANGED <<loc, budget>>
          \/ /\ ~IsDoc(r)
             /\ Spend("cancel")
             /\ Answer(r, IF px.severed # 0 /\ px.severed = loc[r].gen THEN "held" ELSE "error")
             /\ UNCHANGED loc
          \/ /\ IsDoc(r)
             /\ \/ loc[r].cold /\ UNCHANGED budget
                \/ Spend("cancel")
             /\ IF alive
                THEN Answer(r, "accepted") /\ UNCHANGED loc
                ELSE /\ Set(r, [loc[r] EXCEPT !.why = "fail"])
                     /\ Goto(r, "undo")
                     /\ UNCHANGED ans
       /\ rSame /\ UNCHANGED <<px, row, gate, docs>>

\* The backend died or was stopped under the request.
LoseBackend(r) ==
    /\ pc[r] = "await"
    /\ proc[loc[r].host] # "up"
    /\ Set(r, [loc[r] EXCEPT !.why = "fail"])
    /\ Goto(r, IF IsDoc(r) THEN "undo" ELSE "classify")
    /\ rSame /\ UNCHANGED <<ans, px, row, gate, docs, budget>>

\* wasReapSevered: the watchdog severed the call and has torn down already.
Classify(r) ==
    /\ pc[r] = "classify"
    /\ IF px.severed # 0 /\ px.severed = loc[r].gen
       THEN Answer(r, "held")
       ELSE Goto(r, "evict") /\ UNCHANGED ans
    /\ rSame /\ UNCHANGED <<loc, px, row, gate, docs, budget>>

\* Mutant: the rollback does not look at the epoch.
AnyMap(r) == TRUE

\* The map is still the one the request's transition landed in.
SameMap(r) == docs.epoch = loc[r].epoch

\* rollbackDocRef, in every failure of a notification; what the failure
\* leads to follows.
RollbackDocRef(r) ==
    /\ pc[r] = "undo"
    /\ docs' = IF ~SameMap(r) THEN docs
               ELSE IF kind[r] = "close" THEN [docs EXCEPT !.count = @ + 1]
               ELSE [docs EXCEPT !.count = IF @ <= 1 THEN 0 ELSE @ - 1]
    /\ Goto(r, IF loc[r].why = "fail" THEN "evict"
               ELSE IF loc[r].host # 0 THEN "end" ELSE "done")
    /\ Set(r, [loc[r] EXCEPT !.epoch = 0])
    /\ rSame /\ UNCHANGED <<ans, px, row, gate, budget>>

\* Mutant: warmed stays as it is.
Unwarmed(q) == q

Warmed(q) == [q EXCEPT !.warmed = TRUE]

MarkWarmedOnFirstSuccess(r) ==
    /\ pc[r] = "warm"
    /\ Goto(r, "ready")
    /\ IF px.endpoint = 0 \/ px.gen # loc[r].gen
       THEN UNCHANGED <<px, row, budget>>
       ELSE ReconcileTo(Warmed(px))
    /\ rSame /\ UNCHANGED <<loc, ans, gate, docs>>

\* publishReadinessReady: the check under p.mu, then the mailbox.
CheckReady(r) ==
    /\ pc[r] = "ready"
    /\ ans' = [ans EXCEPT ![r] = IF IsDoc(r) THEN "accepted" ELSE "ok"]
    /\ Goto(r, IF px.closed \/ px.endpoint = 0 \/ px.gen # loc[r].gen
               THEN IF loc[r].why = "undone" THEN "undo" ELSE "end"
               ELSE "tell")
    /\ rSame /\ UNCHANGED <<loc, px, row, gate, docs, budget>>

TellReady(r) ==
    /\ pc[r] = "tell"
    /\ rd' = Publish(rd, Ready(loc[r].gen))
    /\ Goto(r, IF loc[r].why = "undone" THEN "undo" ELSE "end")
    /\ UNCHANGED <<loc, kind, ans, px, lc, proc, row, gate, docs, budget>>

EndBackendRequest(r) ==
    /\ pc[r] = "end"
    /\ px' = [px EXCEPT !.inflight = @ - 1, !.used = TRUE]
    /\ Goto(r, "done")
    /\ Set(r, NoLocals)
    /\ rSame /\ UNCHANGED <<ans, row, gate, docs, budget>>

(***************************************************************************)
(* A teardown: onSendFailure (of a request, or of the readiness worker     *)
(* when the backend exits), reapIdleBackend, reapWedgedProbation, Stop and *)
(* the end of a flight that may not publish share their tail.              *)
(***************************************************************************)

tSame == UNCHANGED <<kind, ans>>

\* Where a teardown returns to.
After(p) == IF p \in Reqs THEN "end" ELSE p

\* onSendFailure's critical section, guarded by the generation.
OnSendFailure(p) ==
    /\ pc[p] = "evict"
    /\ ans' = IF p \in Reqs THEN [ans EXCEPT ![p] = "error"] ELSE ans
    /\ IF px.closed \/ px.reaping \/ px.gen # loc[p].gen
       THEN Goto(p, After(p)) /\ Set(p, NoLocals) /\ UNCHANGED px
       ELSE /\ px' = [TornDown(px) EXCEPT !.reaping = TRUE]
            /\ Set(p, [loc[p] EXCEPT !.gen = px.gen + 1])
            /\ Goto(p, "reset")
    /\ UNCHANGED <<kind, lc, proc, row, gate, rd, docs, budget>>

ResetDocRefs(p) ==
    /\ pc[p] = "reset"
    /\ docs' = [docs EXCEPT !.count = 0, !.epoch = @ + 1, !.opened = FALSE]
    /\ Goto(p, "swap")
    /\ tSame /\ UNCHANGED <<loc, px, lc, proc, row, gate, rd, budget>>

\* Lifecycle.Stop: the host is taken under the lifecycle's mutex, which a
\* materialization holds through its handshake, and stopped after it.
TakeHost(p) ==
    /\ pc[p] = "swap"
    /\ lc.mu = 0
    /\ lc' = [lc EXCEPT !.host = 0]
    /\ Set(p, [loc[p] EXCEPT !.victim = lc.host])
    /\ Goto(p, "kill")
    /\ tSame /\ UNCHANGED <<px, proc, row, gate, rd, docs, budget>>

\* A backend whose stop fails is out of the proxy's hands ("stuck").  Only the
\* idle reaper takes the failure as its own.
StopHost(p) ==
    LET b == loc[p].victim
    IN /\ pc[p] = "kill"
       /\ \/ /\ proc' = IF b = 0 THEN proc ELSE [proc EXCEPT ![b] = "dead"]
             /\ Goto(p, "forget")
             /\ UNCHANGED <<loc, budget>>
          \/ /\ b # 0 /\ proc[b] = "up"
             /\ Spend("stop")
             /\ proc' = [proc EXCEPT ![b] = "stuck"]
             /\ IF loc[p].why = "idle"
                THEN Goto(p, "row") /\ Set(p, [loc[p] EXCEPT !.why = "fail"])
                ELSE Goto(p, "forget") /\ UNCHANGED loc
       /\ tSame /\ UNCHANGED <<px, lc, row, gate, rd, docs>>

ForgetGate(p) ==
    /\ pc[p] = "forget"
    /\ gate' = Forget(gate)
    /\ Goto(p, IF p \in Flights THEN "fin"
               ELSE IF p = "stopper" THEN "stopped"
               ELSE IF loc[p].why = "idle" THEN "notify" ELSE "row")
    /\ tSame /\ UNCHANGED <<loc, px, lc, proc, row, rd, docs, budget>>

\* Mutant: a teardown forgets the row.
StampNothing(p) ==
    /\ pc[p] = "row"
    /\ Goto(p, "notify")
    /\ tSame /\ UNCHANGED <<loc, px, lc, proc, row, gate, rd, docs, budget>>


StampFailed(p) ==
    /\ pc[p] = "row"
    /\ Stamp("failed")
    /\ Goto(p, "notify")
    /\ tSame /\ UNCHANGED <<loc, px, lc, proc, gate, rd, docs>>

PublishDown(p) ==
    /\ pc[p] = "notify"
    /\ rd' = Publish(rd, Down(loc[p].gen))
    /\ Goto(p, "tail")
    /\ tSame /\ UNCHANGED <<loc, px, lc, proc, row, gate, docs, budget>>

\* Mutant: reaping stays set.
NotReleased(q) == q

Released(q) == [q EXCEPT !.reaping = FALSE]

\* Only the idle reaper reconciles the row, and only for its own generation.
EndTeardown(p) ==
    /\ pc[p] = "tail"
    /\ IF loc[p].why = "idle" /\ loc[p].gen = px.gen
       THEN ReconcileTo(Released(px))
       ELSE px' = Released(px) /\ UNCHANGED <<row, budget>>
    /\ Goto(p, After(p))
    /\ Set(p, NoLocals)
    /\ tSame /\ UNCHANGED <<lc, proc, gate, rd, docs>>

(***************************************************************************)
(* The ticker: reapIdleBackend and reapWedgedProbation.                    *)
(***************************************************************************)

Tick ==
    /\ pc["ticker"] = "ticker"
    /\ ~px.closed
    /\ \E w \in {"idle", "probation"} : Spend(w) /\ Goto("ticker", w)
    /\ tSame /\ UNCHANGED <<loc, px, lc, proc, row, gate, rd, docs>>

ReapIdleBackend ==
    /\ pc["ticker"] = "idle"
    /\ IF px.endpoint = 0 \/ px.reaping \/ px.inflight > 0 \/ ~px.used
       THEN Goto("ticker", "ticker") /\ UNCHANGED <<loc, px>>
       ELSE /\ px' = [TornDown(px) EXCEPT !.reaping = TRUE]
            /\ Set("ticker", [loc["ticker"] EXCEPT !.gen = px.gen + 1, !.why = "idle"])
            /\ Goto("ticker", "reset")
    /\ tSame /\ UNCHANGED <<lc, proc, row, gate, rd, docs, budget>>

\* Every reserve arms the marker anew, so it is younger than
\* ColdStartMaxProbation while a request is on its way from there to the gate.
MarkerIsFresh ==
    \/ \E r \in Reqs : pc[r] = "gate"
    \/ \E f \in Flights : pc[f] = "start"

\* Branch A tears the endpoint down, in-flight requests or not; branch B
\* claims reaping and looks at the registry.
ReapWedgedProbation ==
    /\ pc["ticker"] = "probation"
    /\ \/ /\ px.reaping \/ (px.endpoint # 0 /\ px.warmed)
             \/ (px.endpoint = 0 /\ (~px.marker \/ MarkerIsFresh \/ HasActiveFlight(gate)))
          /\ Goto("ticker", "ticker")
          /\ UNCHANGED <<loc, px>>
       \/ /\ ~px.reaping /\ px.endpoint # 0 /\ ~px.warmed
          /\ px' = [TornDown(px) EXCEPT !.reaping = TRUE,
                       !.severed = IF px.inflight > 0 THEN px.gen ELSE @]
          /\ Set("ticker", [loc["ticker"] EXCEPT !.gen = px.gen + 1])
          /\ Goto("ticker", "reset")
       \/ /\ ~px.reaping /\ px.endpoint = 0 /\ px.marker /\ ~MarkerIsFresh
          /\ ~HasActiveFlight(gate)
          /\ px' = [px EXCEPT !.reaping = TRUE]
          /\ Goto("ticker", "orphan")
          /\ UNCHANGED loc
    /\ tSame /\ UNCHANGED <<lc, proc, row, gate, rd, docs, budget>>

\* registryRowIsStarting; a failed read keeps the marker for the next tick.
ReadOrphanRow ==
    /\ pc["ticker"] = "orphan"
    /\ \/ Spend("write") /\ Goto("ticker", "unread")
       \/ Goto("ticker", IF row = "starting" THEN "free" ELSE "disarm") /\ UNCHANGED budget
    /\ tSame /\ UNCHANGED <<loc, px, lc, proc, row, gate, rd, docs>>

ReapOrphan ==
    /\ pc["ticker"] \in {"unread", "disarm", "free"}
    /\ \/ /\ pc["ticker"] \in {"unread", "disarm"}
          /\ px' = [px EXCEPT !.reaping = FALSE, !.marker = @ /\ pc["ticker"] = "unread"]
          /\ Goto("ticker", "ticker")
          /\ UNCHANGED loc
       \/ /\ pc["ticker"] = "free"
          /\ px' = [px EXCEPT !.gen = @ + 1, !.marker = FALSE, !.shadow = ""]
          /\ Set("ticker", [loc["ticker"] EXCEPT !.gen = px.gen + 1])
          /\ Goto("ticker", "reset")
    /\ tSame /\ UNCHANGED <<lc, proc, row, gate, rd, docs, budget>>

(***************************************************************************)
(* A flight: the function ensureMaterialized passes to the gate, and       *)
(* publishMaterializedEndpoint.                                            *)
(***************************************************************************)

\* The flight's result reaches every caller that still waits for it.
Deliver(f, out) ==
    loc' = [p \in Procs |-> IF p = f THEN NoLocals
                            ELSE IF p \in Reqs /\ pc[p] = "join" /\ loc[p].flight = f
                            THEN [loc[p] EXCEPT !.res = out] ELSE loc[p]]

\* The gate's own second look at the throttle.
BeginFlight(f) ==
    /\ pc[f] = "start"
    /\ IF Throttled(gate)
       THEN gate' = Leave(gate, f) /\ Deliver(f, gate.failure) /\ Goto(f, "free")
       ELSE gate' = Begin(gate) /\ Goto(f, "check") /\ UNCHANGED loc
    /\ tSame /\ UNCHANGED <<px, lc, proc, row, rd, docs, budget>>

\* An endpoint published meanwhile is used as it is.
CheckLive(f) ==
    /\ pc[f] = "check"
    /\ IF px.endpoint # 0
       THEN ReconcileTo(px) /\ Set(f, [loc[f] EXCEPT !.why = "ok"]) /\ Goto(f, "fin")
       ELSE Goto(f, "materialize") /\ UNCHANGED <<loc, px, row, budget>>
    /\ tSame /\ UNCHANGED <<lc, proc, gate, rd, docs>>

\* Mutant: a host there already is overlooked.
NeverHosted == FALSE

Hosted == lc.host # 0

\* Materialize, up to the handshake; the mutex is held to its end.
Materialize(f) ==
    /\ pc[f] = "materialize"
    /\ lc.mu = 0
    /\ \/ /\ Hosted
          /\ Set(f, [loc[f] EXCEPT !.host = lc.host])
          /\ Goto(f, "publish")
          /\ UNCHANGED <<lc, proc, budget>>
       \/ /\ ~Hosted
          /\ Spend("start")
          /\ \E out \in {"missing", "error"} : Set(f, [loc[f] EXCEPT !.why = out])
          /\ Goto(f, "bad")
          /\ UNCHANGED <<lc, proc>>
       \/ /\ ~Hosted
          /\ \E b \in Backends :
                /\ proc[b] = "unborn"
                /\ \A c \in Backends : c < b => proc[c] # "unborn"
                /\ proc' = [proc EXCEPT ![b] = "up"]
                /\ Set(f, [loc[f] EXCEPT !.host = b])
          /\ lc' = [lc EXCEPT !.mu = f]
          /\ Goto(f, "handshake")
          /\ UNCHANGED budget
    /\ tSame /\ UNCHANGED <<px, row, gate, rd, docs>>

\* performMCPHandshake; a failed one stops the backend under the mutex.
Handshake(f) ==
    LET b == loc[f].host
    IN /\ pc[f] = "handshake"
       /\ \/ /\ proc[b] = "up"
             /\ lc' = [mu |-> 0, host |-> b]
             /\ Goto(f, "publish")
             /\ UNCHANGED <<loc, proc, budget>>
          \/ /\ \/ proc[b] # "up" /\ UNCHANGED budget
                \/ proc[b] = "up" /\ Spend("start")
             /\ lc' = [lc EXCEPT !.mu = 0]
             /\ proc' = [proc EXCEPT ![b] = "dead"]
             /\ Set(f, [loc[f] EXCEPT !.why = "error"])
             /\ Goto(f, "bad")
       /\ tSame /\ UNCHANGED <<px, row, gate, rd, docs>>

StampFlight(f) ==
    /\ pc[f] = "bad"
    /\ Stamp(IF loc[f].why = "missing" THEN "missing" ELSE "failed")
    /\ Goto(f, "fin")
    /\ tSame /\ UNCHANGED <<loc, px, lc, proc, gate, rd, docs>>

\* Mutant: the backend is left running.
LeaveBackend(f, why) ==
    /\ Set(f, [loc[f] EXCEPT !.why = why])
    /\ Goto(f, "forget")

\* The backend may not be published: the flight stops it.
DropBackend(f, why) ==
    /\ Set(f, [loc[f] EXCEPT !.why = why])
    /\ Goto(f, "swap")

\* publishMaterializedEndpoint's first critical section: a closing proxy and
\* a teardown refuse the backend, an endpoint there already is kept.
OpenGeneration(f) ==
    /\ pc[f] = "publish"
    /\ \/ /\ px.closed \/ px.reaping
          /\ px' = [px EXCEPT !.marker = FALSE]
          /\ DropBackend(f, "unpublishable")
       \/ /\ ~px.closed /\ ~px.reaping /\ px.endpoint # 0
          /\ Set(f, [loc[f] EXCEPT !.why = "ok"])
          /\ Goto(f, "fin")
          /\ UNCHANGED px
       \/ /\ ~px.closed /\ ~px.reaping /\ px.endpoint = 0
          /\ px' = [px EXCEPT !.gen = @ + 1, !.shadow = "", !.warmed = FALSE]
          /\ Set(f, [loc[f] EXCEPT !.gen = px.gen + 1])
          /\ Goto(f, "post")
    /\ tSame /\ UNCHANGED <<lc, proc, row, gate, rd, docs, budget>>

\* publishReadinessStarting: the flight waits until the supervisor has
\* acknowledged the generation.
PostStarting(f) ==
    /\ pc[f] = "post"
    /\ rd' = Publish(rd, Starting(loc[f].gen, loc[f].host))
    /\ Goto(f, IF rd.closed THEN "unack" ELSE "ack")
    /\ tSame /\ UNCHANGED <<loc, px, lc, proc, row, gate, docs, budget>>

AwaitAck(f) ==
    /\ pc[f] = "ack"
    /\ \/ rd.closed /\ Goto(f, "unack")
       \/ /\ Settled(rd, Starting(loc[f].gen, loc[f].host))
          /\ Goto(f, IF loc[f].gen \in rd.failed THEN "unack" ELSE "expose")
    /\ tSame /\ UNCHANGED <<loc, px, lc, proc, row, gate, rd, docs, budget>>

AckFailed(f) ==
    /\ pc[f] = "unack"
    /\ px' = [px EXCEPT !.marker = @ /\ px.gen # loc[f].gen]
    /\ DropBackend(f, "error")
    /\ tSame /\ UNCHANGED <<lc, proc, row, gate, rd, docs, budget>>

\* Mutant: the generation is not looked at.
OvertakenAnyGen(f) == px.closed \/ px.reaping \/ px.endpoint # 0

\* The flight's generation is over before it was exposed.
Overtaken(f) == px.closed \/ px.reaping \/ px.gen # loc[f].gen \/ px.endpoint # 0

\* The second critical section: the endpoint becomes visible, unless the
\* generation has been overtaken.
ExposeEndpoint(f) ==
    /\ pc[f] = "expose"
    /\ IF Overtaken(f)
       THEN /\ px' = [px EXCEPT !.marker = FALSE]
            /\ DropBackend(f, "unpublishable")
            /\ UNCHANGED <<row, budget>>
       ELSE /\ ReconcileTo([px EXCEPT !.endpoint = loc[f].host, !.marker = FALSE])
            /\ Set(f, [loc[f] EXCEPT !.why = "ok"])
            /\ Goto(f, "fin")
    /\ tSame /\ UNCHANGED <<lc, proc, gate, rd, docs>>

EndFlight(f) ==
    /\ pc[f] = "fin"
    /\ gate' = Settle(gate, f, loc[f].why)
    /\ Deliver(f, loc[f].why)
    /\ Goto(f, "free")
    /\ tSame /\ UNCHANGED <<px, lc, proc, row, rd, docs, budget>>

(***************************************************************************)
(* The readiness worker, Stop and the environment.                         *)
(***************************************************************************)

TakeReadiness ==
    /\ pc["worker"] = "worker"
    /\ rd.pending # NoKey
    /\ rd' = TakePending(rd)
    /\ Goto("worker", "sending")
    /\ tSame /\ UNCHANGED <<loc, px, lc, proc, row, gate, docs, budget>>

\* Both attempts fail when the replies are lost, or the publisher is closed;
\* an attempt whose reply is lost may have been applied.
SendReadiness ==
    /\ pc["worker"] = "sending"
    /\ Goto("worker", "worker")
    /\ \/ rd' = Sent(rd, FALSE, TRUE) /\ UNCHANGED budget
       \/ /\ \E applied \in BOOLEAN : rd' = Sent(rd, TRUE, applied)
          /\ \/ rd.closed /\ UNCHANGED budget
             \/ Spend("lost")
    /\ tSame /\ UNCHANGED <<loc, px, lc, proc, row, gate, docs>>

\* onBackendExit.
WatchExit ==
    /\ pc["worker"] = "worker"
    /\ rd.pending = NoKey
    /\ rd.watch # NoKey
    /\ proc[rd.watch.host] # "up"
    /\ rd' = [rd EXCEPT !.watch = NoKey]
    /\ Set("worker", [loc["worker"] EXCEPT !.gen = rd.watch.epoch, !.why = "fail"])
    /\ Goto("worker", "evict")
    /\ tSame /\ UNCHANGED <<px, lc, proc, row, gate, docs, budget>>

\* Stop, called by the daemon's shutdown or when the publisher reports a
\* fatal failure.
CallStop ==
    /\ pc["stopper"] = "stopper"
    /\ \/ rd.fatal /\ UNCHANGED budget
       \/ Spend("close")
    /\ px' = [px EXCEPT !.closed = TRUE]
    /\ Goto("stopper", "halt")
    /\ tSame /\ UNCHANGED <<loc, lc, proc, row, gate, rd, docs>>

HaltReadiness ==
    /\ pc["stopper"] = "halt"
    /\ rd' = Close(rd)
    /\ Goto("stopper", "drain")
    /\ tSame /\ UNCHANGED <<loc, px, lc, proc, row, gate, docs, budget>>

WorkerDone ==
    /\ pc["stopper"] = "drain"
    /\ pc["worker"] = "worker"
    /\ pc' = [pc EXCEPT !["stopper"] = "close", !["worker"] = "gone"]
    /\ tSame /\ UNCHANGED <<loc, px, lc, proc, row, gate, rd, docs, budget>>

CloseEndpoint ==
    /\ pc["stopper"] = "close"
    /\ px' = TornDown(px)
    /\ Goto("stopper", "reset")
    /\ tSame /\ UNCHANGED <<loc, lc, proc, row, gate, rd, docs, budget>>

\* External: a backend process exits by itself.
Exit(b) ==
    /\ proc[b] = "up"
    /\ Spend("exit")
    /\ proc' = [proc EXCEPT ![b] = "dead"]
    /\ tSame /\ UNCHANGED <<pc, loc, px, lc, row, gate, rd, docs>>

\* minRetryGap passes.
RetryGap ==
    /\ Throttled(gate)
    /\ gate' = GapElapsed(gate)
    /\ tSame /\ UNCHANGED <<pc, loc, px, lc, proc, row, rd, docs, budget>>

Request(r) ==
    \/ Receive(r) \/ ApplyDocRef(r) \/ CheckClosed(r) \/ LookUp(r) \/ Snapshot(r)
    \/ ReserveMaterializedSlot(r) \/ InvalidateShadow(r) \/ MarkStartingReserved(r)
    \/ DoBounded(r) \/ AwaitFlight(r) \/ AbandonFlight(r) \/ FlightFailed(r)
    \/ AcquirePublished(r) \/ SendRequest(r) \/ Respond(r) \/ CutWait(r)
    \/ LoseBackend(r) \/ Classify(r) \/ RollbackDocRef(r)
    \/ MarkWarmedOnFirstSuccess(r) \/ CheckReady(r) \/ TellReady(r)
    \/ EndBackendRequest(r)

Flight(f) ==
    \/ BeginFlight(f) \/ CheckLive(f) \/ Materialize(f) \/ Handshake(f)
    \/ StampFlight(f) \/ OpenGeneration(f) \/ PostStarting(f) \/ AwaitAck(f)
    \/ AckFailed(f) \/ ExposeEndpoint(f) \/ EndFlight(f)

Teardown(p) ==
    \/ OnSendFailure(p) \/ ResetDocRefs(p) \/ TakeHost(p) \/ StopHost(p)
    \/ ForgetGate(p) \/ StampFailed(p) \/ PublishDown(p) \/ EndTeardown(p)

Reap == ReapIdleBackend \/ ReapWedgedProbation \/ ReadOrphanRow \/ ReapOrphan

Work == TakeReadiness \/ SendReadiness \/ WatchExit

Stop == CallStop \/ HaltReadiness \/ WorkerDone \/ CloseEndpoint

Next ==
    \/ \E r \in Reqs : Arrive(r) \/ Request(r)
    \/ \E f \in Flights : Flight(f)
    \/ \E p \in Procs : Teardown(p)
    \/ Tick \/ Reap \/ Work \/ Stop
    \/ \E b \in Backends : Exit(b)
    \/ RetryGap

Spec == Init /\ [][Next]_vars

\* A goroutine that can run does: every wait but the ones below ends by
\* itself, by a timer or by another goroutine's step.  What the clients, the
\* operator and the machine do (Budgets) is not owed.
Fairness ==
    /\ \A r \in Reqs : WF_vars(Request(r))
    /\ \A f \in Flights : WF_vars(Flight(f))
    /\ \A p \in Procs : WF_vars(Teardown(p))
    /\ WF_vars(Reap)
    /\ WF_vars(Work)
    /\ WF_vars(rd.fatal /\ CallStop)
    /\ WF_vars(HaltReadiness \/ WorkerDone \/ CloseEndpoint)

FairSpec == Spec /\ Fairness

(***************************************************************************)
(* Properties.                                                             *)
(***************************************************************************)

Live(b) == proc[b] = "up"

\* The type invariant of the proxy's state.
TypeOK ==
    /\ loc \in [Procs -> Locals]
    /\ kind \in [Reqs -> AllKinds]
    /\ ans \in [Reqs -> AllAnswers]
    /\ px \in Proxies
    /\ lc \in [mu : Flights \cup {0}, host : Backends \cup {0}]
    /\ proc \in [Backends -> {"unborn", "up", "dead", "stuck"}]
    /\ row \in Rows
    /\ gate \in Gates(Flights)
    /\ rd \in Publishers
    /\ docs \in [count : Nat, epoch : Nat, opened : BOOLEAN, view : SUBSET Backends]
    /\ budget \in [Inputs -> Nat]

\* No backend process runs that nobody will stop: a live one is the
\* lifecycle's host, in its handshake, or about to be stopped, whatever
\* flights, teardowns and Stop overlap (Materialize, BackendLifecycle.Stop and
\* the flights that may not publish).
NoStrayBackend ==
    \A b \in Backends : Live(b) =>
        \/ lc.host = b
        \/ \E f \in Flights : lc.mu = f /\ pc[f] = "handshake" /\ loc[f].host = b
        \/ \E p \in Procs : pc[p] = "kill" /\ loc[p].victim = b

\* Clients see an endpoint only after the supervisor has acknowledged its
\* generation, and while it is visible the supervisor holds no other: not an
\* older one and not the invalidation of a teardown that came first
\* (publishMaterializedEndpoint, the mailbox, CommitLazyProxyReadinessEvent).
ExposedIsAcked ==
    px.endpoint # 0 => rd.tracker.epoch = px.gen /\ rd.tracker.rank \in {1, 2}

\* The supervisor calls the current generation ready only when a response has
\* come back from it and no teardown has begun (publishReadinessReady).
ReadyIsWarm ==
    rd.tracker.rank = 2 /\ rd.tracker.epoch = px.gen => px.endpoint # 0 /\ px.warmed

\* A generation names one endpoint: a request whose generation is current
\* uses the backend that is published, so the failure it reports evicts no
\* newer one (the guard of onSendFailure).
GenNamesEndpoint ==
    \A r \in Reqs :
        pc[r] \in {"send", "await", "classify", "evict"} /\ loc[r].host # 0
            /\ loc[r].gen = px.gen
        => px.endpoint = loc[r].host

\* Where registry writes succeed, the row says active only of a published
\* backend that has answered, or while a teardown or Stop is under way
\* (reconcileRegistryLifecycleLocked against the stamps of the error paths).
ActiveIsWarm ==
    row = "active" =>
        (px.endpoint # 0 /\ px.warmed) \/ px.reaping \/ px.closed

\* The document is counted only if it was opened since the last teardown: a
\* rollback that loses the race against resetDocRefs adds nothing to the new
\* map (rollbackDocRef's epoch).
CountsAreThisEpochs == docs.count > 0 => docs.opened

\* Every request is answered, whatever fails, tears down or closes meanwhile:
\* a caller spinning on reaping is released, a joined flight or its budget
\* ends the wait (ensureMaterialized).
EveryRequestAnswered == \A r \in Reqs : pc[r] = "new" ~> pc[r] = "done"

\* Stop leaves no backend running, not even one a flight was starting when
\* Stop took the host (Stop and publishMaterializedEndpoint).
StopKillsAll == px.closed ~> [](\A b \in Backends : ~Live(b))

\* The supervisor learns that a generation it holds as starting or ready is
\* over, unless the proxy stops: an invalidation is not lost in the mailbox
\* (publishReadinessInvalidation, publish).
DownIsReported ==
    rd.tracker.rank \in {1, 2} /\ rd.tracker.epoch < px.gen
        ~> rd.tracker.rank = 3 \/ rd.tracker.epoch = px.gen \/ px.closed

\* When no notification is under way and no teardown runs, the count agrees
\* with what the published backend was told ("to keep the count consistent
\* with what the backend saw", handleDocLifecycle).
CountIsBackendView ==
    /\ px.endpoint # 0 /\ Live(px.endpoint)
    /\ \A r \in Reqs : pc[r] = "done"
    => (docs.count > 0 <=> px.endpoint \in docs.view)

\* A row says starting only while something is under way that ends it, or the
\* watchdog's marker is armed ("it backstops any path that leaves a Starting
\* row without an endpoint", reapWedgedProbation).
NoOrphanStarting ==
    row = "starting" =>
        \/ px.endpoint # 0 \/ px.marker \/ px.closed
        \/ \E p \in Procs : pc[p] # Idle(p)
====
