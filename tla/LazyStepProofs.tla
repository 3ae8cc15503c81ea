-------------------------- MODULE LazyStepProofs --------------------------
(***************************************************************************)
(* The inductive invariant of LazyProxy, and that the steps of requests,   *)
(* teardowns and the ticker keep it, and those of a flight until it has a  *)
(* backend to publish.  It has five parts: GenInv about generations,       *)
(* OwnInv about the one process that runs a teardown, MailInv about the    *)
(* readiness mailbox, LcInv about backend processes and DocInv about the   *)
(* document count.  Most steps disturb none of them; for those it is       *)
(* enough that the process that moves is calm.                             *)
(***************************************************************************)
EXTENDS LazyProxy, TLAPS

-----------------------------------------------------------------------------
(* The invariant. *)

FlightSteps == {"free", "start", "check", "materialize", "handshake", "bad", "publish",
                "post", "ack", "unack", "expose", "swap", "kill", "forget", "fin"}

StopperSteps == {"stopper", "halt", "drain", "close", "reset", "swap", "kill", "forget", "stopped"}

\* A flight with a generation it has not exposed yet.
Raising == {"post", "ack", "expose"}

\* A teardown; all but a flight's and Stop's invalidate a generation of their own.
Tearing == {"reset", "swap", "kill", "forget", "row", "notify", "tail"}

Downers == Procs \ (Flights \cup {"stopper"})

\* A request at its endpoint.
Bound == {"send", "await", "warm", "ready", "tell", "classify"}

\* A process with a generation that a flight published or that nobody will.
Holds(q) == pc[q] \in Tearing \/ (q \in Reqs /\ pc[q] \in Bound)

\* A notification that may still be rolled back.
Undoable == {"enter", "look", "reenter", "relook", "snap", "reserve", "unshadow", "mark",
             "gate", "join", "abort", "failed", "acquire", "send", "await", "warm", "ready",
             "tell", "undo"}

MailKeys == {rd.latest, rd.pending, rd.busy, rd.delivered, rd.watch, rd.tracker}

PxType ==
    [endpoint : Backends \cup {0}, gen : Nat, warmed : BOOLEAN, reaping : BOOLEAN,
     closed : BOOLEAN, marker : BOOLEAN, shadow : Rows \cup {""}, used : BOOLEAN,
     severed : Nat, inflight : Int]

GateType == [call : Flights \cup {0}, active : Int, failure : Failures \cup {"none"}]

DocType == [count : Nat, epoch : Nat, opened : BOOLEAN, view : SUBSET Backends]

Typed ==
    /\ pc = [p \in Procs |-> pc[p]]
    /\ loc \in [Procs -> Locals]
    /\ kind \in [Reqs -> AllKinds]
    /\ px \in PxType
    /\ lc \in [mu : Flights \cup {0}, host : Backends \cup {0}]
    /\ proc \in [Backends -> {"unborn", "up", "dead", "stuck"}]
    /\ gate \in GateType
    /\ rd \in Publishers
    /\ docs \in DocType

\* A request bound to the current generation uses the published endpoint.
ReqInv(r) ==
    /\ loc[r].host # 0 /\ pc[r] \notin Tearing /\ loc[r].gen = px.gen
         => px.endpoint = loc[r].host
    /\ pc[r] \in Bound => loc[r].host # 0
    /\ pc[r] \in {"ready", "tell"} /\ loc[r].gen = px.gen => px.warmed

\* The generation of a flight is its own until it is exposed.
FlightInv(f) ==
    /\ pc[f] \in FlightSteps
    /\ loc[f].why \in Outcomes \cup {"none"}
    /\ pc[f] \in Raising =>
         /\ loc[f].gen # 0
         /\ loc[f].gen = px.gen => px.endpoint = 0
         /\ \A g \in Flights \ {f} : pc[g] \in Raising => loc[g].gen # loc[f].gen
         /\ \A q \in Downers : Holds(q) => loc[q].gen # loc[f].gen

GenInv ==
    /\ \A p \in Procs : loc[p].gen <= px.gen
    /\ \A r \in Reqs : ReqInv(r)
    /\ \A f \in Flights : FlightInv(f)
    /\ px.endpoint # 0 => px.gen # 0
    /\ pc["stopper"] \in StopperSteps /\ loc["stopper"].why = "none"
    /\ pc["stopper"] # "stopper" => px.closed

\* Whoever runs a teardown, or looks at the row of an orphan.
Owner(q) ==
    pc[q] \in Tearing \/ (q = "ticker" /\ pc[q] \in {"orphan", "unread", "disarm", "free"})

\* reaping has one owner, and nothing is exposed while it is set.
OwnInv ==
    /\ px.reaping => px.endpoint = 0
    /\ \A q \in Downers : Owner(q) => px.reaping
    /\ \A p, q \in Downers : Owner(p) /\ Owner(q) => p = q

\* What the mailbox and the supervisor hold is of a generation there was, and
\* ready or down only if that is so.
KeyInv(k) ==
    /\ k.epoch <= px.gen
    /\ k.epoch # 0 => k.rank # 0
    /\ k.rank = 3 /\ px.endpoint # 0 => k.epoch # px.gen
    /\ k.rank = 2 /\ k.epoch = px.gen => px.endpoint # 0 /\ px.warmed

\* Nobody else speaks of a flight's generation, and the supervisor has it when
\* the flight has been told so.
AckInv(f) ==
    /\ pc[f] \in Raising =>
         \A k \in MailKeys : k.epoch = loc[f].gen => pc[f] # "post" /\ k.rank = 1
    /\ pc[f] = "ack" /\ loc[f].gen = px.gen /\ ~px.closed =>
         /\ rd.latest.epoch = px.gen
         /\ \/ \E k \in {rd.pending, rd.busy} : k.epoch = px.gen
            \/ px.gen \in rd.failed \/ rd.tracker.epoch = px.gen
    /\ pc[f] = "expose" /\ loc[f].gen = px.gen /\ ~px.closed => rd.tracker.epoch = px.gen

MailInv ==
    /\ \A k \in MailKeys : KeyInv(k)
    /\ \A f \in Flights : AckInv(f)
    /\ px.endpoint # 0 => rd.tracker.epoch = px.gen
    /\ rd.busy # NoKey => pc["worker"] = "sending"
    /\ rd.closed => px.closed

LcInv ==
    /\ lc.mu # 0 => lc.host = 0
    /\ \A f \in Flights : pc[f] = "handshake" => lc.mu = f
    /\ NoStrayBackend

DocInv ==
    /\ docs.count > 0 => docs.opened
    /\ \A r \in Reqs : loc[r].epoch <= docs.epoch
    /\ \A r \in Reqs : kind[r] = "close" /\ pc[r] \in Undoable /\ loc[r].epoch = docs.epoch
         => docs.opened

Inv == Typed /\ GenInv /\ OwnInv /\ MailInv /\ LcInv /\ DocInv

-----------------------------------------------------------------------------
(* Calm steps. *)

\* Process q begins neither a publication nor a teardown; a request knows
\* the endpoint of its generation.
GenSafe(q) ==
    /\ loc'[q].gen <= px'.gen
    /\ q \in Reqs => ReqInv(q)'
    /\ q \in Flights =>
         /\ pc'[q] \in FlightSteps /\ loc'[q].why \in Outcomes \cup {"none"}
         /\ pc'[q] \in Raising => pc[q] \in Raising /\ loc'[q].gen = loc[q].gen
    /\ q \in Downers /\ Holds(q)' =>
         \/ Holds(q) /\ loc'[q].gen = loc[q].gen /\ (pc'[q] \in Tearing => pc[q] \in Tearing)
         \/ pc'[q] \notin Tearing /\ loc'[q].gen = px.gen /\ px.endpoint # 0
    /\ q = "stopper" =>
         pc'[q] \in StopperSteps /\ loc'[q].why = "none" /\ (pc'[q] # "stopper" => px'.closed)

\* Process q does not move between the steps of a publication, and the worker
\* does not finish a send.
MailCalm(q) ==
    /\ q \in Flights => (pc'[q] \in Raising => pc'[q] = pc[q] /\ loc'[q].gen = loc[q].gen)
    /\ q = "worker" => (pc[q] = "sending" => pc'[q] = "sending")

\* Process q does not become the owner of reaping.
OwnCalm(q) == q \in Downers /\ Owner(q)' => Owner(q)

\* Process q keeps its generation and endpoint or gives both up, and begins
\* neither a publication nor a teardown.
GenCalm(q) ==
    /\ loc'[q].gen \in {loc[q].gen, 0}
    /\ q \in Downers => (pc'[q] \in Tearing => pc[q] \in Tearing /\ loc'[q].gen = loc[q].gen)
    /\ q \in Reqs =>
         /\ \/ loc'[q].gen = loc[q].gen /\ loc'[q].host = loc[q].host
            \/ loc'[q].gen = 0 /\ loc'[q].host = 0
         /\ pc[q] \in Tearing /\ pc'[q] \notin Tearing => loc'[q].host = 0
         /\ pc'[q] \in Bound => pc[q] \in Bound /\ loc'[q].host = loc[q].host /\ loc'[q].gen = loc[q].gen
         /\ pc'[q] \in {"ready", "tell"} => pc[q] \in {"ready", "tell"}
    /\ q \in Flights =>
         /\ pc'[q] \in FlightSteps /\ loc'[q].why \in Outcomes \cup {"none"}
         /\ pc'[q] \in Raising => pc'[q] = pc[q] /\ loc'[q].gen = loc[q].gen
    /\ q = "worker" => (pc[q] = "sending" => pc'[q] = "sending")
    /\ q = "ticker" => OwnCalm(q)
    /\ q = "stopper" =>
         pc'[q] \in StopperSteps /\ loc'[q].why = "none" /\ (pc'[q] # "stopper" => px'.closed)

\* Process q neither begins nor ends a handshake or the stop of a backend.
LcCalm(q) ==
    /\ {pc[q], pc'[q]} \cap {"handshake", "kill"} # {} =>
         pc'[q] = pc[q] /\ loc'[q].host = loc[q].host /\ loc'[q].victim = loc[q].victim

\* Request r keeps the epoch its notification was counted in while it may
\* still be rolled back.
DocCalm(r) ==
    /\ loc'[r].epoch \in {loc[r].epoch, 0}
    /\ pc'[r] \in Undoable /\ kind'[r] = "close" =>
         pc[r] \in Undoable /\ kind[r] = "close" /\ loc'[r].epoch = loc[r].epoch

\* The fields GenInv and MailInv speak of.
SameGen ==
    /\ px' \in PxType
    /\ px'.gen = px.gen /\ px'.endpoint = px.endpoint
    /\ (px.warmed => px'.warmed) /\ (px.closed => px'.closed)

SamePx == SameGen /\ px'.reaping = px.reaping

\* What a backend was told is not part of DocInv.
SameDocs ==
    /\ docs' \in DocType
    /\ docs'.count = docs.count /\ docs'.epoch = docs.epoch /\ docs'.opened = docs.opened

\* The names of the processes are distinct.
LEMMA ProcNames ==
    /\ Reqs \subseteq Procs /\ Flights \subseteq Procs /\ Downers \subseteq Procs
    /\ "worker" \in Procs /\ "stopper" \in Procs /\ "ticker" \in Procs
    /\ Reqs \subseteq Downers /\ "worker" \in Downers /\ "ticker" \in Downers
    /\ Reqs \cap Flights = {}
    /\ \A r \in Reqs : r # "worker" /\ r # "stopper" /\ r # "ticker"
    /\ \A f \in Flights : f # "worker" /\ f # "stopper" /\ f # "ticker" /\ f # 0
BY Zenon, LazyAssumption DEF Procs, Downers

\* A calm process disturbs no part of the invariant.
LEMMA CalmIsSafe ==
    ASSUME Inv, SameGen, NEW q \in Procs, GenCalm(q)
    PROVE  GenSafe(q) /\ MailCalm(q) /\ OwnCalm(q)
<1>1. loc'[q].gen <= px'.gen
  <2>1. px.gen \in Nat /\ px'.gen = px.gen
    BY Zenon DEF Inv, Typed, SameGen, PxType
  <2>2. loc[q].gen <= px.gen /\ loc'[q].gen \in {loc[q].gen, 0}
    BY DEF Inv, GenInv, GenCalm
  <2> QED
    BY <2>1, <2>2
<1>2. ASSUME q \in Reqs PROVE ReqInv(q)'
  <2>1. ReqInv(q)
    BY <1>2 DEF Inv, GenInv
  <2> QED
    BY <1>2, <2>1 DEF ReqInv, GenCalm, SameGen, Bound
<1>3. q \in Downers /\ Holds(q)' =>
        Holds(q) /\ loc'[q].gen = loc[q].gen /\ (pc'[q] \in Tearing => pc[q] \in Tearing)
  BY DEF GenCalm, Holds
<1> QED
  BY <1>1, <1>2, <1>3 DEF GenSafe, MailCalm, GenCalm, OwnCalm, Owner

\* GenInv is kept when generation and endpoint stay and every process is safe.
LEMMA GenFrame ==
    ASSUME Inv, SameGen, \A q \in Procs : GenSafe(q)
    PROVE  GenInv'
<1>1. ASSUME NEW f \in Flights PROVE FlightInv(f)'
  <2>1. FlightInv(f) /\ GenSafe(f)
    BY Zenon, ProcNames DEF Inv, GenInv
  <2>2. pc'[f] \in FlightSteps /\ loc'[f].why \in Outcomes \cup {"none"}
    BY Zenon, <2>1 DEF GenSafe
  <2>3. ASSUME pc'[f] \in Raising
        PROVE  /\ pc[f] \in Raising /\ loc'[f].gen = loc[f].gen
               /\ \A g \in Flights \ {f} : pc'[g] \in Raising => loc'[g].gen # loc'[f].gen
               /\ \A q \in Downers : Holds(q)' => loc'[q].gen # loc'[f].gen
    BY Zenon, <2>1, <2>3, ProcNames DEF GenSafe, FlightInv
  <2> QED
    BY <2>1, <2>2, <2>3 DEF FlightInv, SameGen
<1>3. /\ px'.endpoint # 0 => px'.gen # 0
      /\ pc'["stopper"] \in StopperSteps /\ loc'["stopper"].why = "none"
      /\ pc'["stopper"] # "stopper" => px'.closed
  BY ProcNames DEF Inv, GenInv, SameGen, GenSafe
<1>4. (\A q \in Procs : loc'[q].gen <= px'.gen) /\ \A r \in Reqs : ReqInv(r)'
  BY ProcNames DEF GenSafe
<1> QED
  BY Zenon, <1>1, <1>3, <1>4 DEF GenInv

\* MailInv is kept when the mailbox stays and nobody moves along a publication.
LEMMA MailFrame ==
    ASSUME Inv, SameGen, UNCHANGED rd, \A q \in Procs : MailCalm(q)
    PROVE  MailInv'
<1>1. MailKeys' = MailKeys
  BY DEF MailKeys
<1>2. ASSUME NEW k \in MailKeys' PROVE KeyInv(k)'
  BY Zenon, <1>1, <1>2 DEF Inv, MailInv, KeyInv, SameGen
<1>3. ASSUME NEW f \in Flights PROVE AckInv(f)'
  <2>1. AckInv(f) /\ MailCalm(f)
    BY ProcNames DEF Inv, MailInv
  <2>2. pc'[f] \in Raising => \A k \in MailKeys' : k.epoch = loc'[f].gen => pc'[f] # "post" /\ k.rank = 1
    BY Zenon, <1>1, <2>1 DEF AckInv, MailCalm
  <2> QED
    BY <2>1, <2>2 DEF AckInv, MailCalm, SameGen, Raising
<1>4. /\ px'.endpoint # 0 => rd'.tracker.epoch = px'.gen
      /\ rd'.busy # NoKey => pc'["worker"] = "sending"
      /\ rd'.closed => px'.closed
  BY ProcNames DEF Inv, MailInv, SameGen, MailCalm
<1> QED
  BY <1>2, <1>3, <1>4 DEF MailInv

\* OwnInv is kept when reaping stays and nobody becomes its owner.
LEMMA OwnFrame ==
    ASSUME Inv, SamePx, \A q \in Procs : OwnCalm(q)
    PROVE  OwnInv'
BY ProcNames DEF Inv, OwnInv, SamePx, SameGen, OwnCalm

\* LcInv is kept when the backends stay and nobody begins or ends work on one.
LEMMA LcFrame ==
    ASSUME Inv, UNCHANGED <<lc, proc>>, \A q \in Procs : LcCalm(q)
    PROVE  LcInv'
<1>1. lc'.mu # 0 => lc'.host = 0
  BY DEF Inv, LcInv
<1>2. \A f \in Flights : pc'[f] = "handshake" => lc'.mu = f
  BY Zenon, ProcNames DEF Inv, LcInv, LcCalm
<1>3. ASSUME NEW b \in Backends, Live(b)'
      PROVE  \/ lc'.host = b
             \/ \E f \in Flights : lc'.mu = f /\ pc'[f] = "handshake" /\ loc'[f].host = b
             \/ \E p \in Procs : pc'[p] = "kill" /\ loc'[p].victim = b
  <2>1. \/ lc.host = b
        \/ \E f \in Flights : lc.mu = f /\ pc[f] = "handshake" /\ loc[f].host = b
        \/ \E p \in Procs : pc[p] = "kill" /\ loc[p].victim = b
    BY Zenon, <1>3 DEF Inv, LcInv, NoStrayBackend, Live
  <2> QED
    BY Zenon, <2>1, ProcNames DEF LcCalm
<1> QED
  BY <1>1, <1>2, <1>3 DEF LcInv, NoStrayBackend

\* DocInv is kept when the count stays and no request takes a new epoch.
LEMMA DocFrame ==
    ASSUME Inv, SameDocs, \A r \in Reqs : DocCalm(r)
    PROVE  DocInv'
<1>1. docs.epoch \in Nat /\ \A r \in Reqs : loc[r].epoch \in Nat
  BY ProcNames DEF Inv, Typed, Locals, DocType
<1> QED
  BY <1>1 DEF Inv, DocInv, DocCalm, SameDocs

\* The process that moves is the only one to look at.
LEMMA OnlyMover ==
    ASSUME Inv, NEW p \in Procs, NEW to, NEW m \in Locals,
           pc' = [pc EXCEPT ![p] = to], loc' = [loc EXCEPT ![p] = m]
    PROVE  /\ pc' = [q \in Procs |-> pc'[q]] /\ loc' \in [Procs -> Locals]
           /\ pc'[p] = to /\ loc'[p] = m
           /\ \A q \in Procs \ {p} : pc'[q] = pc[q] /\ loc'[q] = loc[q]
           /\ (px.closed => px'.closed) => \A q \in Procs \ {p} : GenCalm(q)
           /\ LcCalm(p) => \A q \in Procs : LcCalm(q)
           /\ (p \in Reqs => DocCalm(p)) /\ UNCHANGED kind => \A r \in Reqs : DocCalm(r)
<1>1. /\ pc' = [q \in Procs |-> pc'[q]] /\ loc' \in [Procs -> Locals]
      /\ pc'[p] = to /\ loc'[p] = m
      /\ \A q \in Procs \ {p} : pc'[q] = pc[q] /\ loc'[q] = loc[q]
  BY Zenon DEF Inv, Typed
<1>2. ASSUME NEW q \in Procs \ {p}, px.closed => px'.closed PROVE GenCalm(q)
  <2>1. pc'[q] = pc[q] /\ loc'[q] = loc[q]
    BY Zenon, <1>1
  <2>2. q \in Flights => pc[q] \in FlightSteps /\ loc[q].why \in Outcomes \cup {"none"}
    BY DEF Inv, GenInv, FlightInv
  <2>3. q = "stopper" => pc[q] \in StopperSteps /\ loc[q].why = "none" /\ (pc[q] # "stopper" => px.closed)
    BY DEF Inv, GenInv
  <2>4. OwnCalm(q)
    BY <2>1 DEF OwnCalm, Owner
  <2> QED
    BY Zenon, <1>2, <2>1, <2>2, <2>3, <2>4 DEF GenCalm
<1>3. ASSUME NEW q \in Procs \ {p} PROVE LcCalm(q)
  BY Zenon, <1>1 DEF LcCalm
<1>4. ASSUME NEW r \in Reqs \ {p}, UNCHANGED kind PROVE DocCalm(r)
  BY <1>1, <1>4, ProcNames DEF DocCalm
<1> QED
  BY Zenon, <1>1, <1>2, <1>3, <1>4

\* A step that moves one calm process and leaves the mailbox, the documents
\* and the backends alone.
LEMMA CalmStep ==
    ASSUME Inv, NEW p \in Procs, NEW to, NEW m \in Locals,
           pc' = [pc EXCEPT ![p] = to], loc' = [loc EXCEPT ![p] = m],
           GenCalm(p), LcCalm(p), p \in Reqs => DocCalm(p),
           SamePx, gate' \in GateType, SameDocs, UNCHANGED <<kind, lc, proc, rd>>
    PROVE  Inv'
<1>1. /\ pc' = [q \in Procs |-> pc'[q]] /\ loc' \in [Procs -> Locals]
      /\ \A q \in Procs : GenCalm(q)
      /\ \A q \in Procs : LcCalm(q)
      /\ \A r \in Reqs : DocCalm(r)
  BY Zenon, OnlyMover DEF SamePx, SameGen
<1>3. SameGen /\ \A q \in Procs : GenSafe(q) /\ MailCalm(q) /\ OwnCalm(q)
  BY Zenon, <1>1, CalmIsSafe DEF SamePx
<1>2. Typed'
  BY <1>1 DEF Inv, Typed, SamePx, SameGen, SameDocs
<1> QED
  BY Zenon, <1>1, <1>2, <1>3, GenFrame, OwnFrame, MailFrame, LcFrame, DocFrame DEF Inv

\* A step without change of place.
LEMMA SameLocals ==
    ASSUME Inv, NEW p \in Procs
    PROVE  loc[p] \in Locals /\ loc = [loc EXCEPT ![p] = loc[p]]
BY DEF Inv, Typed

\* reconcileRegistryLifecycleLocked changes only what the row is thought to be.
LEMMA ReconcileKeeps ==
    ASSUME NEW q \in PxType, ReconcileTo(q)
    PROVE  /\ px' \in PxType
           /\ px'.gen = q.gen /\ px'.endpoint = q.endpoint /\ px'.warmed = q.warmed
           /\ px'.closed = q.closed /\ px'.reaping = q.reaping
BY ZenonT(40) DEF ReconcileTo, Derived, PxType, Rows

-----------------------------------------------------------------------------
(* The calm steps of a request. *)

Elsewhere == {"handshake", "kill"} \cup Tearing \cup Raising

\* A request that keeps what it holds, outside teardowns.
LEMMA CalmRequest ==
    ASSUME Inv, NEW r \in Reqs,
           pc' = [pc EXCEPT ![r] = pc'[r]], loc' = [loc EXCEPT ![r] = loc'[r]],
           loc'[r] \in Locals, loc'[r].gen = loc[r].gen, loc'[r].host = loc[r].host,
           loc'[r].epoch = loc[r].epoch,
           pc[r] \notin Elsewhere, pc'[r] \notin Elsewhere,
           pc'[r] \in Bound => pc[r] \in Bound,
           pc'[r] \in {"ready", "tell"} => pc[r] \in {"ready", "tell"},
           pc'[r] \in Undoable => pc[r] \in Undoable \/ kind[r] # "close",
           SamePx, gate' \in GateType, SameDocs, UNCHANGED <<kind, lc, proc, rd>>
    PROVE  Inv'
<1>1. GenCalm(r)
  BY ProcNames DEF GenCalm, Elsewhere
<1>2. LcCalm(r)
  BY DEF LcCalm, Elsewhere
<1>3. DocCalm(r)
  BY DEF DocCalm
<1> QED
  BY Zenon, <1>1, <1>2, <1>3, CalmStep, ProcNames

\* What a step that only moves the request has to show.
LEMMA RequestMoves ==
    ASSUME Inv, NEW r \in Reqs, NEW to, Goto(r, to)
    PROVE  pc' = [pc EXCEPT ![r] = pc'[r]] /\ pc'[r] = to
BY Zenon, ProcNames DEF Inv, Typed, Goto

\* A request whose locals do not change.
LEMMA RequestStays ==
    ASSUME Inv, NEW r \in Reqs, UNCHANGED loc
    PROVE  loc' = [loc EXCEPT ![r] = loc'[r]] /\ loc'[r] = loc[r] /\ loc[r] \in Locals
BY ProcNames DEF Inv, Typed

\* A request whose locals are replaced.
LEMMA RequestSets ==
    ASSUME Inv, NEW r \in Reqs, NEW m, Set(r, m)
    PROVE  loc' = [loc EXCEPT ![r] = loc'[r]] /\ loc'[r] = m /\ loc[r] \in Locals
BY Zenon, ProcNames DEF Inv, Typed, Set

\* The proxy's state does not change.
LEMMA SamePxHolds == ASSUME Inv, UNCHANGED px PROVE SamePx /\ SameGen
BY DEF Inv, Typed, SamePx, SameGen

\* The in-flight gate does not change.
LEMMA GateStays == ASSUME Inv, UNCHANGED gate PROVE gate' \in GateType
BY DEF Inv, Typed

\* The document count does not change.
LEMMA SameDocsHolds == ASSUME Inv, UNCHANGED docs PROVE SameDocs
BY DEF Inv, Typed, SameDocs

\* A request other than a document notification is read.
LEMMA ReceiveStep == ASSUME Inv, NEW r \in Reqs, Receive(r) PROVE Inv'
<1>1. pc' = [pc EXCEPT ![r] = pc'[r]] /\ pc'[r] = "enter" /\ pc[r] = "new" /\ kind[r] # "close"
  BY RequestMoves DEF Receive, IsDoc
<1>2. SamePx /\ gate' \in GateType /\ UNCHANGED <<loc, kind, lc, proc, rd, docs>>
  BY Zenon, SamePxHolds, GateStays DEF Receive, rSame
<1> QED
  BY Zenon, <1>1, <1>2, RequestStays, SameDocsHolds, CalmRequest DEF Elsewhere, Tearing, Raising, Bound

\* The request looks whether the proxy was closed.
LEMMA CheckClosedStep == ASSUME Inv, NEW r \in Reqs, CheckClosed(r) PROVE Inv'
<1>1. /\ pc' = [pc EXCEPT ![r] = pc'[r]] /\ pc'[r] \in {"undo", "done", "look", "relook"}
      /\ pc[r] \in {"enter", "reenter"}
  BY RequestMoves DEF CheckClosed, Refuse
<1>2. SamePx /\ gate' \in GateType /\ UNCHANGED <<loc, kind, lc, proc, rd, docs>>
  BY Zenon, SamePxHolds, GateStays DEF CheckClosed, rSame
<1> QED
  BY Zenon, <1>1, <1>2, RequestStays, SameDocsHolds, CalmRequest DEF Elsewhere, Tearing, Raising, Bound, Undoable

\* The request looks at the registry row.
LEMMA SnapshotStep == ASSUME Inv, NEW r \in Reqs, Snapshot(r) PROVE Inv'
<1>1. /\ pc' = [pc EXCEPT ![r] = pc'[r]] /\ pc'[r] \in {"mark", "reserve"} /\ pc[r] = "snap"
  BY RequestMoves DEF Snapshot
<1>2. SamePx /\ gate' \in GateType /\ UNCHANGED <<loc, kind, lc, proc, rd, docs>>
  BY Zenon, SamePxHolds, GateStays DEF Snapshot, rSame
<1> QED
  BY Zenon, <1>1, <1>2, RequestStays, SameDocsHolds, CalmRequest DEF Elsewhere, Tearing, Raising, Bound, Undoable

\* The request reserves a slot for a cold backend, or is refused.
LEMMA ReserveStep == ASSUME Inv, NEW r \in Reqs, ReserveMaterializedSlot(r) PROVE Inv'
<1>1. /\ pc' = [pc EXCEPT ![r] = pc'[r]] /\ pc'[r] \in {"unshadow", "undo", "done"}
      /\ pc[r] = "reserve"
  BY Zenon, RequestMoves DEF ReserveMaterializedSlot, Refuse
<1>2. SamePx /\ gate' \in GateType /\ UNCHANGED <<loc, kind, lc, proc, rd, docs>>
  BY Zenon, SamePxHolds, GateStays DEF ReserveMaterializedSlot, rSame
<1> QED
  BY Zenon, <1>1, <1>2, RequestStays, SameDocsHolds, CalmRequest DEF Elsewhere, Tearing, Raising, Bound, Undoable

\* The request marks the row as starting.
LEMMA MarkStep ==
    ASSUME Inv, NEW r \in Reqs, InvalidateShadow(r) \/ MarkStartingReserved(r)
    PROVE  Inv'
<1>1. /\ pc' = [pc EXCEPT ![r] = pc'[r]] /\ pc'[r] \in {"mark", "gate"}
      /\ pc[r] \in {"unshadow", "mark"}
  BY Zenon, RequestMoves DEF InvalidateShadow, MarkStartingReserved
<1>2. SamePx
  BY ZenonT(40) DEF SamePx, SameGen, Inv, Typed, PxType, InvalidateShadow, MarkStartingReserved
<1>3. gate' \in GateType /\ UNCHANGED <<loc, kind, lc, proc, rd, docs>>
  BY Zenon, GateStays DEF InvalidateShadow, MarkStartingReserved, rSame
<1> QED
  BY Zenon, <1>1, <1>2, <1>3, RequestStays, SameDocsHolds, CalmRequest DEF Elsewhere, Tearing, Raising, Bound, Undoable

\* The request gets the result of the flight it waited for.
LEMMA AwaitFlightStep == ASSUME Inv, NEW r \in Reqs, AwaitFlight(r) PROVE Inv'
<1>1. /\ pc' = [pc EXCEPT ![r] = pc'[r]] /\ pc'[r] \in {"acquire", "failed", "abort"}
      /\ pc[r] = "join"
  BY RequestMoves DEF AwaitFlight
<1>2. /\ loc' = [loc EXCEPT ![r] = loc'[r]] /\ loc[r] \in Locals
      /\ loc'[r] = [loc[r] EXCEPT !.flight = 0, !.res = IF loc[r].res = "ok" THEN "none" ELSE loc[r].res]
  BY RequestSets DEF AwaitFlight
<1>3. /\ loc'[r] \in Locals /\ loc'[r].gen = loc[r].gen /\ loc'[r].host = loc[r].host
      /\ loc'[r].epoch = loc[r].epoch
  BY Zenon, <1>2 DEF Locals
<1>4. SamePx /\ gate' \in GateType /\ SameDocs /\ UNCHANGED <<kind, lc, proc, rd>>
  BY SamePxHolds, GateStays, SameDocsHolds DEF AwaitFlight, rSame
<1> QED
  BY Zenon, <1>1, <1>2, <1>3, <1>4, CalmRequest DEF Elsewhere, Tearing, Raising, Bound, Undoable

\* The client goes away while the request waits for a flight.
LEMMA AbandonFlightStep == ASSUME Inv, NEW r \in Reqs, AbandonFlight(r) PROVE Inv'
<1>1. /\ pc' = [pc EXCEPT ![r] = pc'[r]] /\ pc'[r] \in {"undo", "done"} /\ pc[r] = "abort"
  BY Zenon, RequestMoves DEF AbandonFlight
<1>2. SamePx
  <2>1. px \in PxType
    BY Zenon DEF Inv, Typed
  <2> QED
    BY Zenon, <2>1, ReconcileKeeps DEF AbandonFlight, SamePx, SameGen
<1>3. gate' \in GateType /\ UNCHANGED <<loc, kind, lc, proc, rd, docs>>
  BY GateStays DEF AbandonFlight, rSame
<1> QED
  BY <1>1, <1>2, <1>3, RequestStays, SameDocsHolds, CalmRequest
     DEF Elsewhere, Tearing, Raising, Bound, Undoable

\* The flight the request waited for failed.
LEMMA FlightFailedStep == ASSUME Inv, NEW r \in Reqs, FlightFailed(r) PROVE Inv'
<1>1. /\ pc' = [pc EXCEPT ![r] = pc'[r]] /\ pc'[r] \in {"abort", "undo", "done"}
      /\ pc[r] = "failed"
  BY Zenon, RequestMoves DEF FlightFailed, Refuse
<1>2. /\ loc' = [loc EXCEPT ![r] = loc'[r]] /\ loc[r] \in Locals
      /\ loc'[r] = [loc[r] EXCEPT !.res = "none"]
  BY RequestSets DEF FlightFailed
<1>3. /\ loc'[r] \in Locals /\ loc'[r].gen = loc[r].gen /\ loc'[r].host = loc[r].host
      /\ loc'[r].epoch = loc[r].epoch
  BY <1>2 DEF Locals
<1>4. SamePx /\ gate' \in GateType /\ SameDocs /\ UNCHANGED <<kind, lc, proc, rd>>
  BY Zenon, SamePxHolds, GateStays, SameDocsHolds DEF FlightFailed, rSame
<1> QED
  BY Zenon, <1>1, <1>2, <1>3, <1>4, CalmRequest DEF Elsewhere, Tearing, Raising, Bound, Undoable

\* The request is sent to its endpoint.
LEMMA SendRequestStep == ASSUME Inv, NEW r \in Reqs, SendRequest(r) PROVE Inv'
<1>1. /\ pc' = [pc EXCEPT ![r] = pc'[r]] /\ pc'[r] \in {"undo", "classify", "end", "await"}
      /\ pc[r] = "send"
  BY Zenon, RequestMoves DEF SendRequest
<1>2. /\ loc' = [loc EXCEPT ![r] = loc'[r]] /\ loc[r] \in Locals
      /\ \/ loc'[r] = [loc[r] EXCEPT !.why = "fail"]
         \/ loc'[r] = loc[r]
         \/ loc'[r] = [loc[r] EXCEPT !.sent = TRUE, !.cold = ~px.warmed]
  BY Zenon, RequestSets, RequestStays DEF SendRequest
<1>3. /\ loc'[r] \in Locals /\ loc'[r].gen = loc[r].gen /\ loc'[r].host = loc[r].host
      /\ loc'[r].epoch = loc[r].epoch
  BY Zenon, <1>2 DEF Locals
<1>4. SamePx /\ gate' \in GateType /\ UNCHANGED <<kind, lc, proc, rd>>
  BY SamePxHolds, GateStays DEF SendRequest, rSame
<1>5. SameDocs
  <2>1. Notified(r) \subseteq Backends
    <3>1. loc[r].host # 0
      BY Zenon, <1>1 DEF Inv, GenInv, ReqInv, Bound
    <3>2. loc[r].host \in Backends /\ docs.view \subseteq Backends
      BY Zenon, <3>1, <1>2 DEF Inv, Typed, Locals, DocType
    <3> QED
      BY <3>2 DEF Notified
  <2> QED
    BY <2>1 DEF SendRequest, SameDocs, Inv, Typed, DocType
<1> QED
  BY Zenon, <1>1, <1>2, <1>3, <1>4, <1>5, CalmRequest DEF Elsewhere, Tearing, Raising, Bound, Undoable

\* The client goes away, or the endpoint is closed, while an answer is due.
LEMMA CutWaitStep ==
    ASSUME Inv, NEW r \in Reqs, CutWait(r) \/ LoseBackend(r)
    PROVE  Inv'
<1>1. /\ pc' = [pc EXCEPT ![r] = pc'[r]] /\ pc'[r] \in {"end", "undo", "classify"}
      /\ pc[r] = "await"
  BY Zenon, RequestMoves DEF CutWait, LoseBackend, Answer
<1>2. /\ loc' = [loc EXCEPT ![r] = loc'[r]] /\ loc[r] \in Locals
      /\ loc'[r] = [loc[r] EXCEPT !.why = "fail"] \/ loc'[r] = loc[r]
  BY Zenon, RequestSets, RequestStays DEF CutWait, LoseBackend
<1>3. /\ loc'[r] \in Locals /\ loc'[r].gen = loc[r].gen /\ loc'[r].host = loc[r].host
      /\ loc'[r].epoch = loc[r].epoch
  BY Zenon, <1>2 DEF Locals
<1>4. SamePx /\ gate' \in GateType /\ SameDocs /\ UNCHANGED <<kind, lc, proc, rd>>
  BY Zenon, SamePxHolds, GateStays, SameDocsHolds DEF CutWait, LoseBackend, rSame
<1> QED
  BY Zenon, <1>1, <1>2, <1>3, <1>4, CalmRequest DEF Elsewhere, Tearing, Raising, Bound, Undoable

\* The backend answers.
LEMMA RespondStep == ASSUME Inv, NEW r \in Reqs, Respond(r) PROVE Inv'
<1>1. /\ pc' = [pc EXCEPT ![r] = pc'[r]] /\ pc'[r] = "warm" /\ pc[r] = "await"
  BY Zenon, RequestMoves DEF Respond
<1>2. /\ loc' = [loc EXCEPT ![r] = loc'[r]] /\ loc[r] \in Locals
      /\ loc'[r] = [loc[r] EXCEPT !.why = "undone"] \/ loc'[r] = loc[r]
  BY Zenon, RequestSets, RequestStays DEF Respond
<1>3. /\ loc'[r] \in Locals /\ loc'[r].gen = loc[r].gen /\ loc'[r].host = loc[r].host
      /\ loc'[r].epoch = loc[r].epoch
  BY <1>2 DEF Locals
<1>4. SamePx /\ gate' \in GateType /\ UNCHANGED <<kind, lc, proc, rd>>
  BY Zenon, SamePxHolds, GateStays DEF Respond, rSame
<1>5. SameDocs
  <2>1. loc[r].host # 0
    BY Zenon, <1>1 DEF Inv, GenInv, ReqInv, Bound
  <2>2. loc[r].host \in Backends /\ docs.view \subseteq Backends
    BY Zenon, <2>1, <1>2 DEF Inv, Typed, Locals, DocType
  <2> QED
    BY <2>2 DEF Respond, SameDocs, Inv, Typed, DocType
<1> QED
  BY Zenon, <1>1, <1>2, <1>3, <1>4, <1>5, CalmRequest DEF Elsewhere, Tearing, Raising, Bound, Undoable

\* A failed send is attributed to the client or to the backend.
LEMMA ClassifyStep ==
    ASSUME Inv, NEW r \in Reqs, Classify(r) \/ CheckReady(r)
    PROVE  Inv'
<1>1. /\ pc' = [pc EXCEPT ![r] = pc'[r]]
      /\ \/ pc'[r] \in {"end", "evict"} /\ pc[r] = "classify"
         \/ pc'[r] \in {"undo", "end", "tell"} /\ pc[r] = "ready"
  BY Zenon, RequestMoves DEF Classify, CheckReady, Answer
<1>2. SamePx /\ gate' \in GateType /\ UNCHANGED <<loc, kind, lc, proc, rd, docs>>
  BY Zenon, SamePxHolds, GateStays DEF Classify, CheckReady, rSame
<1> QED
  BY Zenon, <1>1, <1>2, RequestStays, SameDocsHolds, CalmRequest
     DEF Elsewhere, Tearing, Raising, Bound, Undoable

\* The request is no longer counted as in flight.
LEMMA EndBackendRequestStep == ASSUME Inv, NEW r \in Reqs, EndBackendRequest(r) PROVE Inv'
<1>1. pc' = [pc EXCEPT ![r] = pc'[r]] /\ pc'[r] = "done" /\ pc[r] = "end"
  BY RequestMoves DEF EndBackendRequest
<1>2. /\ loc' = [loc EXCEPT ![r] = loc'[r]] /\ loc'[r] = NoLocals
  BY Zenon, RequestSets DEF EndBackendRequest
<1>3. NoLocals \in Locals
  BY DEF NoLocals, Locals
<1>4. SamePx
  <2>1. px \in PxType /\ px' = [px EXCEPT !.inflight = @ - 1, !.used = TRUE]
    BY DEF Inv, Typed, EndBackendRequest
  <2>2. px.inflight \in Int
    BY Zenon, <2>1 DEF PxType
  <2>3. px.inflight - 1 \in Int
    BY <2>2
  <2> QED
    BY Zenon, <2>1, <2>3 DEF SamePx, SameGen, PxType
<1>5. gate' \in GateType /\ SameDocs /\ UNCHANGED <<kind, lc, proc, rd>>
  BY Zenon, GateStays, SameDocsHolds DEF EndBackendRequest, rSame
<1>6. GenCalm(r)
  BY <1>1, <1>2, ProcNames DEF GenCalm, NoLocals, Bound, Tearing, Raising
<1>7. LcCalm(r) /\ DocCalm(r)
  BY <1>1, <1>2 DEF LcCalm, DocCalm, NoLocals, Undoable
<1> QED
  BY Zenon, <1>1, <1>2, <1>3, <1>4, <1>5, <1>6, <1>7, CalmStep, ProcNames

-----------------------------------------------------------------------------
(* The other steps of a request. *)

\* A step that moves one process and leaves the mailbox and the backends alone.
LEMMA SafeStep ==
    ASSUME Inv, NEW p \in Procs,
           pc' = [pc EXCEPT ![p] = pc'[p]], loc' = [loc EXCEPT ![p] = loc'[p]],
           loc'[p] \in Locals, GenSafe(p), MailCalm(p), OwnCalm(p), LcCalm(p), SamePx,
           gate' \in GateType, docs' \in DocType, DocInv', kind' \in [Reqs -> AllKinds], UNCHANGED <<lc, proc, rd>>
    PROVE  Inv'
<1>1. /\ pc' = [q \in Procs |-> pc'[q]] /\ loc' \in [Procs -> Locals]
      /\ \A q \in Procs \ {p} : GenCalm(q)
      /\ \A q \in Procs : LcCalm(q)
  BY Zenon, OnlyMover DEF SamePx, SameGen
<1>2. SameGen /\ \A q \in Procs : GenSafe(q) /\ MailCalm(q) /\ OwnCalm(q)
  BY Zenon, <1>1, CalmIsSafe DEF SamePx
<1>3. Typed'
  BY Zenon, <1>1 DEF Inv, Typed, SamePx, SameGen
<1> QED
  BY Zenon, <1>1, <1>2, <1>3, GenFrame, OwnFrame, MailFrame, LcFrame DEF Inv

\* The documents, when only request r moves.
LEMMA DocStep ==
    ASSUME Inv, NEW r \in Reqs,
           pc' = [pc EXCEPT ![r] = pc'[r]], loc' = [loc EXCEPT ![r] = loc'[r]],
           loc'[r] \in Locals, UNCHANGED kind, SameDocs, DocCalm(r)
    PROVE  DocInv'
BY Zenon, OnlyMover, DocFrame, ProcNames

\* The request holds the endpoint that is published.
LEMMA AcquireStep ==
    ASSUME Inv, NEW r \in Reqs, Acquire(r), px.endpoint # 0, pc[r] \in {"look", "relook", "acquire"},
           rSame, UNCHANGED <<gate, docs>>
    PROVE  Inv'
<1>1. pc' = [pc EXCEPT ![r] = pc'[r]] /\ pc'[r] = "send"
  BY RequestMoves DEF Acquire
<1>2. /\ loc' = [loc EXCEPT ![r] = loc'[r]] /\ loc[r] \in Locals
      /\ loc'[r] = [loc[r] EXCEPT !.gen = px.gen, !.host = px.endpoint]
  BY RequestSets DEF Acquire
<1>3. px \in PxType /\ px.gen \in Nat /\ px.endpoint \in Backends \cup {0} /\ px.inflight \in Int
  BY Zenon DEF Inv, Typed, PxType
<1>4. SamePx
  <2>0. px.inflight + 1 \in Int
    BY <1>3
  <2>1. [px EXCEPT !.inflight = @ + 1, !.used = TRUE] \in PxType
    BY Zenon, <1>3, <2>0 DEF PxType
  <2>2. /\ px' \in PxType
        /\ px'.gen = px.gen /\ px'.endpoint = px.endpoint /\ px'.warmed = px.warmed
        /\ px'.closed = px.closed /\ px'.reaping = px.reaping
    BY Zenon, <1>3, <2>1, ReconcileKeeps DEF Acquire, PxType
  <2> QED
    BY <2>2 DEF SamePx, SameGen
<1>5. loc'[r] \in Locals /\ loc'[r].epoch = loc[r].epoch /\ loc'[r].gen = px.gen /\ loc'[r].host = px.endpoint
  BY Zenon, <1>2, <1>3 DEF Locals
<1>6. GenSafe(r)
  BY <1>1, <1>3, <1>4, <1>5, ProcNames DEF GenSafe, ReqInv, SamePx, SameGen, Tearing, Holds
<1>7. MailCalm(r) /\ OwnCalm(r) /\ LcCalm(r) /\ DocCalm(r)
  BY Zenon, <1>1, <1>5, ProcNames DEF MailCalm, OwnCalm, Owner, Tearing, LcCalm, DocCalm, Undoable, rSame
<1>8. DocInv'
  BY Zenon, <1>1, <1>2, <1>5, <1>7, DocStep, SameDocsHolds DEF rSame
<1>9. docs' \in DocType /\ kind' \in [Reqs -> AllKinds] /\ gate' \in GateType
  BY DEF Inv, Typed, rSame
<1> QED
  BY Zenon, <1>1, <1>2, <1>4, <1>5, <1>6, <1>7, <1>8, <1>9, SafeStep, ProcNames DEF rSame

\* The request finds the published endpoint, or none.
LEMMA LookUpStep == ASSUME Inv, NEW r \in Reqs, LookUp(r) PROVE Inv'
<1>1. CASE px.endpoint # 0
  BY Zenon, <1>1, AcquireStep DEF LookUp
<1>2. CASE px.endpoint = 0
  <2>1. /\ pc' = [pc EXCEPT ![r] = pc'[r]] /\ pc[r] \in {"look", "relook"}
        /\ pc'[r] \in {"reenter", "snap", "enter", "undo", "done"}
    BY Zenon, <1>2, RequestMoves DEF LookUp, Refuse
  <2>2. SamePx /\ gate' \in GateType /\ UNCHANGED <<loc, kind, lc, proc, rd, docs>>
    BY Zenon, <1>2, SamePxHolds, GateStays DEF LookUp, rSame
  <2> QED
    BY Zenon, <2>1, <2>2, RequestStays, SameDocsHolds, CalmRequest
       DEF Elsewhere, Tearing, Raising, Bound, Undoable
<1> QED
  BY Zenon, <1>1, <1>2

\* The request takes the endpoint that a flight published.
LEMMA AcquirePublishedStep == ASSUME Inv, NEW r \in Reqs, AcquirePublished(r) PROVE Inv'
<1>1. CASE ~px.closed /\ px.endpoint # 0
  BY Zenon, <1>1, AcquireStep DEF AcquirePublished
<1>2. CASE ~(~px.closed /\ px.endpoint # 0)
  <2>1. /\ pc' = [pc EXCEPT ![r] = pc'[r]] /\ pc[r] = "acquire" /\ pc'[r] \in {"undo", "done"}
    BY Zenon, <1>2, RequestMoves DEF AcquirePublished, Refuse
  <2>2. SamePx /\ gate' \in GateType /\ UNCHANGED <<loc, kind, lc, proc, rd, docs>>
    BY Zenon, <1>2, SamePxHolds, GateStays DEF AcquirePublished, rSame
  <2> QED
    BY Zenon, <2>1, <2>2, RequestStays, SameDocsHolds, CalmRequest
       DEF Elsewhere, Tearing, Raising, Bound, Undoable
<1> QED
  BY Zenon, <1>1, <1>2

\* A document notification arrives and is counted.
LEMMA ArriveStep == ASSUME Inv, NEW r \in Reqs, Arrive(r) PROVE Inv'
<1>1. pc' = [pc EXCEPT ![r] = pc'[r]] /\ pc'[r] = "new" /\ pc[r] = "done"
  BY Zenon, RequestMoves DEF Arrive
<1>2. /\ loc' = [loc EXCEPT ![r] = loc'[r]] /\ loc'[r] = loc[r] /\ loc[r] \in Locals
      /\ UNCHANGED <<loc, px, lc, proc, gate, rd, docs>>
  BY Zenon, RequestStays DEF Arrive
<1>3. kind' \in [Reqs -> AllKinds] /\ \A q \in Reqs \ {r} : kind'[q] = kind[q]
  BY Zenon, LazyAssumption DEF Arrive, Inv, Typed
<1>4. GenCalm(r)
  BY Zenon, <1>1, <1>2, ProcNames DEF GenCalm, Tearing, Bound
<1>5. LcCalm(r)
  BY Zenon, <1>1 DEF LcCalm
<1>6. DocInv'
  <2>1. \A q \in Procs \ {r} : pc'[q] = pc[q]
    BY <1>1, <1>2, OnlyMover, ProcNames
  <2>2. \A q \in Reqs \ {r} : DocCalm(q)
    BY Zenon, <1>2, <1>3, <2>1, ProcNames DEF DocCalm
  <2>3. DocCalm(r)
    BY Zenon, <1>1, <1>2 DEF DocCalm, Undoable
  <2> QED
    BY Zenon, <1>2, <2>2, <2>3, DocFrame, SameDocsHolds
<1>7. SamePx /\ gate' \in GateType /\ docs' \in DocType
  BY Zenon, <1>2, SamePxHolds, GateStays DEF Inv, Typed
<1> QED
  BY Zenon, <1>1, <1>2, <1>3, <1>4, <1>5, <1>6, <1>7, SafeStep, CalmIsSafe, ProcNames DEF SamePx

\* The document count is applied.
LEMMA ApplyDocRefStep == ASSUME Inv, NEW r \in Reqs, ApplyDocRef(r) PROVE Inv'
<1>1. pc' = [pc EXCEPT ![r] = pc'[r]] /\ pc'[r] \in {"enter", "done"} /\ pc[r] = "new"
  BY RequestMoves DEF ApplyDocRef
<1>2. /\ loc' = [loc EXCEPT ![r] = loc'[r]] /\ loc[r] \in Locals
      /\ loc'[r] = [loc[r] EXCEPT !.epoch = docs.epoch]
  BY RequestSets DEF ApplyDocRef
<1>3. docs \in DocType /\ docs.count \in Nat /\ docs.epoch \in Nat
  BY DEF Inv, Typed, DocType
<1>4. /\ loc'[r] \in Locals /\ loc'[r].gen = loc[r].gen /\ loc'[r].host = loc[r].host
      /\ loc'[r].epoch = docs.epoch
  BY Zenon, <1>2, <1>3 DEF Locals
<1>5. /\ docs' \in DocType /\ docs'.epoch = docs.epoch
      /\ docs.opened => docs'.opened
      /\ docs'.count > 0 => docs'.opened
      /\ pc'[r] = "enter" => docs'.opened
  <2>1. docs.count > 0 => docs.opened
    BY DEF Inv, DocInv
  <2>2. CASE kind[r] = "open"
    <3>1. docs' = [docs EXCEPT !.count = @ + 1, !.opened = TRUE] /\ docs.count + 1 \in Nat
      BY <1>3, <2>2 DEF ApplyDocRef
    <3> QED
      BY Zenon, <1>3, <3>1 DEF DocType
  <2>3. CASE kind[r] # "open" /\ docs.count = 0
    BY <1>1, <1>3, <2>1, <2>3, RequestMoves DEF ApplyDocRef
  <2>4. CASE kind[r] # "open" /\ docs.count # 0
    <3>1. docs' = [docs EXCEPT !.count = @ - 1] /\ docs.count - 1 \in Nat /\ docs.opened
      BY <1>3, <2>1, <2>4 DEF ApplyDocRef
    <3> QED
      BY Zenon, <1>3, <3>1 DEF DocType
  <2> QED
    BY Zenon, <2>2, <2>3, <2>4
<1>6. DocInv'
  <2>1. \A q \in Reqs \ {r} : pc'[q] = pc[q] /\ loc'[q] = loc[q]
    BY <1>1, <1>2, <1>4, OnlyMover, ProcNames
  <2>2. UNCHANGED kind
    BY Zenon DEF ApplyDocRef, rSame
  <2> QED
    BY <1>1, <1>3, <1>4, <1>5, <2>1, <2>2 DEF Inv, DocInv, Undoable
<1>7. GenCalm(r) /\ LcCalm(r)
  BY Zenon, <1>1, <1>4, ProcNames DEF GenCalm, LcCalm, Tearing, Bound
<1>8. SamePx /\ gate' \in GateType /\ kind' \in [Reqs -> AllKinds] /\ UNCHANGED <<lc, proc, rd>>
  BY Zenon, SamePxHolds, GateStays DEF ApplyDocRef, rSame, Inv, Typed
<1> QED
  BY Zenon, <1>1, <1>2, <1>4, <1>5, <1>6, <1>7, <1>8, SafeStep, CalmIsSafe, ProcNames DEF SamePx

\* The notification failed: its count is taken back, unless reset since.
LEMMA RollbackDocRefStep == ASSUME Inv, NEW r \in Reqs, RollbackDocRef(r) PROVE Inv'
<1>1. pc' = [pc EXCEPT ![r] = pc'[r]] /\ pc'[r] \in {"evict", "end", "done"} /\ pc[r] = "undo"
  BY RequestMoves DEF RollbackDocRef
<1>2. /\ loc' = [loc EXCEPT ![r] = loc'[r]] /\ loc[r] \in Locals
      /\ loc'[r] = [loc[r] EXCEPT !.epoch = 0]
  BY RequestSets DEF RollbackDocRef
<1>3. docs \in DocType /\ docs.count \in Nat /\ docs.epoch \in Nat
  BY DEF Inv, Typed, DocType
<1>4. /\ loc'[r] \in Locals /\ loc'[r].gen = loc[r].gen /\ loc'[r].host = loc[r].host
      /\ loc'[r].epoch = 0
  BY <1>2, <1>3 DEF Locals
<1>5. /\ docs' \in DocType /\ docs'.epoch = docs.epoch /\ docs'.opened = docs.opened
      /\ docs'.count > 0 => docs'.opened
  <2>1. docs.count > 0 => docs.opened
    BY DEF Inv, DocInv
  <2>2. CASE ~SameMap(r)
    BY Zenon, <1>3, <2>1, <2>2 DEF RollbackDocRef
  <2>3. CASE SameMap(r) /\ kind[r] = "close"
    <3>1. docs' = [docs EXCEPT !.count = @ + 1] /\ docs.count + 1 \in Nat
      BY <1>3, <2>3 DEF RollbackDocRef
    <3>2. docs.opened
      BY Zenon, <1>1, <2>3 DEF Inv, DocInv, SameMap, Undoable
    <3> QED
      BY Zenon, <1>3, <3>1, <3>2 DEF DocType
  <2>4. CASE SameMap(r) /\ kind[r] # "close"
    <3>1. PICK n \in Nat : docs' = [docs EXCEPT !.count = n] /\ (n > 0 => docs.count > 0)
      <4>1. CASE docs.count <= 1
        BY <1>3, <2>4, <4>1 DEF RollbackDocRef
      <4>2. CASE ~(docs.count <= 1)
        <5>1. docs' = [docs EXCEPT !.count = docs.count - 1] /\ docs.count - 1 \in Nat /\ docs.count > 0
          BY <1>3, <2>4, <4>2 DEF RollbackDocRef
        <5> QED
          BY Zenon, <5>1
      <4> QED
        BY Zenon, <4>1, <4>2
    <3> QED
      BY Zenon, <1>3, <2>1, <3>1 DEF DocType
  <2> QED
    BY Zenon, <2>2, <2>3, <2>4
<1>6. DocInv'
  <2>1. \A q \in Reqs \ {r} : pc'[q] = pc[q] /\ loc'[q] = loc[q]
    BY <1>1, <1>2, <1>4, OnlyMover, ProcNames
  <2>2. UNCHANGED kind
    BY Zenon DEF RollbackDocRef, rSame
  <2> QED
    BY <1>1, <1>3, <1>4, <1>5, <2>1, <2>2 DEF Inv, DocInv, Undoable
<1>7. GenCalm(r) /\ LcCalm(r)
  BY Zenon, <1>1, <1>4, ProcNames DEF GenCalm, LcCalm, Tearing, Bound
<1>8. SamePx /\ gate' \in GateType /\ kind' \in [Reqs -> AllKinds] /\ UNCHANGED <<lc, proc, rd>>
  BY Zenon, SamePxHolds, GateStays DEF RollbackDocRef, rSame, Inv, Typed
<1> QED
  BY Zenon, <1>1, <1>2, <1>4, <1>5, <1>6, <1>7, <1>8, SafeStep, CalmIsSafe, ProcNames DEF SamePx

\* The first answer of a generation marks it warm.
LEMMA MarkWarmedStep == ASSUME Inv, NEW r \in Reqs, MarkWarmedOnFirstSuccess(r) PROVE Inv'
<1>1. pc' = [pc EXCEPT ![r] = pc'[r]] /\ pc'[r] = "ready" /\ pc[r] = "warm"
  BY RequestMoves DEF MarkWarmedOnFirstSuccess
<1>2. /\ loc' = [loc EXCEPT ![r] = loc'[r]] /\ loc'[r] = loc[r] /\ loc[r] \in Locals
      /\ UNCHANGED <<kind, lc, proc, gate, rd, docs>>
  BY Zenon, RequestStays DEF MarkWarmedOnFirstSuccess, rSame
<1>3. loc[r].host # 0 /\ (loc[r].gen = px.gen => px.endpoint = loc[r].host) /\ loc[r].gen <= px.gen
  BY Zenon, <1>1, ProcNames DEF Inv, GenInv, ReqInv, Bound, Tearing
<1>4. SamePx /\ (loc[r].gen = px.gen => px'.warmed)
  <2>1. px \in PxType
    BY DEF Inv, Typed
  <2>2. CASE px.endpoint = 0 \/ px.gen # loc[r].gen
    BY Zenon, <1>3, <2>1, <2>2 DEF MarkWarmedOnFirstSuccess, SamePx, SameGen
  <2>3. CASE ~(px.endpoint = 0 \/ px.gen # loc[r].gen)
    <3>1. Warmed(px) \in PxType /\ Warmed(px).gen = px.gen /\ Warmed(px).endpoint = px.endpoint
          /\ Warmed(px).warmed /\ Warmed(px).closed = px.closed /\ Warmed(px).reaping = px.reaping
      BY Zenon, <2>1 DEF Warmed, PxType
    <3>2. ReconcileTo(Warmed(px))
      BY Zenon, <2>3 DEF MarkWarmedOnFirstSuccess
    <3> QED
      BY Zenon, <3>1, <3>2, ReconcileKeeps DEF SamePx, SameGen
  <2> QED
    BY Zenon, <2>2, <2>3
<1>5. GenSafe(r)
  <2>1. ReqInv(r)'
    BY Zenon, <1>1, <1>2, <1>3, <1>4 DEF ReqInv, SamePx, SameGen
  <2> QED
    BY Zenon, <1>1, <1>2, <1>3, <1>4, <2>1, ProcNames DEF GenSafe, Holds, Bound, Tearing, SamePx, SameGen
<1>6. MailCalm(r) /\ OwnCalm(r) /\ LcCalm(r) /\ DocCalm(r)
  BY Zenon, <1>1, <1>2, ProcNames DEF MailCalm, OwnCalm, Owner, Tearing, LcCalm, DocCalm, Undoable
<1>7. DocInv'
  BY Zenon, <1>1, <1>2, <1>6, DocStep, SameDocsHolds
<1>8. docs' \in DocType /\ kind' \in [Reqs -> AllKinds] /\ gate' \in GateType
  BY <1>2 DEF Inv, Typed
<1> QED
  BY Zenon, <1>1, <1>2, <1>4, <1>5, <1>6, <1>7, <1>8, SafeStep, ProcNames

\* A step that leaves the mailbox, the documents and the backends alone.
LEMMA AllCalm ==
    ASSUME Inv, pc' = [q \in Procs |-> pc'[q]], loc' \in [Procs -> Locals],
           \A q \in Procs : GenCalm(q) /\ LcCalm(q), \A r \in Reqs : DocCalm(r),
           SamePx, gate' \in GateType, SameDocs, UNCHANGED <<kind, lc, proc, rd>>
    PROVE  Inv'
<1>1. SameGen /\ \A q \in Procs : GenSafe(q) /\ MailCalm(q) /\ OwnCalm(q)
  BY Zenon, CalmIsSafe DEF SamePx
<1>2. Typed'
  BY DEF Inv, Typed, SamePx, SameGen, SameDocs
<1> QED
  BY Zenon, <1>1, <1>2, GenFrame, OwnFrame, MailFrame, LcFrame, DocFrame DEF Inv

\* The request joins the flight of the gate, starts one or is refused.
LEMMA DoBoundedStep == ASSUME Inv, NEW r \in Reqs, DoBounded(r) PROVE Inv'
<1>1. SamePx /\ SameDocs /\ UNCHANGED <<kind, lc, proc, rd>> /\ pc[r] = "gate" /\ gate \in GateType
  BY Zenon, SamePxHolds, SameDocsHolds DEF DoBounded, rSame, Inv, Typed
<1>2. CASE Throttled(gate)
  <2>1. pc' = [pc EXCEPT ![r] = pc'[r]] /\ pc'[r] = "failed"
    BY Zenon, <1>2, RequestMoves DEF DoBounded
  <2>2. /\ loc' = [loc EXCEPT ![r] = loc'[r]] /\ loc[r] \in Locals
        /\ loc'[r] = [loc[r] EXCEPT !.res = gate.failure]
    BY Zenon, <1>2, RequestSets DEF DoBounded
  <2>3. /\ loc'[r] \in Locals /\ loc'[r].gen = loc[r].gen /\ loc'[r].host = loc[r].host
        /\ loc'[r].epoch = loc[r].epoch
    BY Zenon, <1>1, <2>2 DEF Locals, GateType, Outcomes
  <2>4. gate' \in GateType
    BY Zenon, <1>1, <1>2 DEF DoBounded
  <2> QED
    BY Zenon, <1>1, <2>1, <2>2, <2>3, <2>4, CalmRequest DEF Elsewhere, Tearing, Raising, Bound, Undoable
<1>3. CASE ~Throttled(gate) /\ gate.call # 0
  <2>1. pc' = [pc EXCEPT ![r] = pc'[r]] /\ pc'[r] = "join"
    BY Zenon, <1>3, RequestMoves DEF DoBounded
  <2>2. /\ loc' = [loc EXCEPT ![r] = loc'[r]] /\ loc[r] \in Locals
        /\ loc'[r] = [loc[r] EXCEPT !.flight = gate.call]
    BY Zenon, <1>3, RequestSets DEF DoBounded
  <2>3. /\ loc'[r] \in Locals /\ loc'[r].gen = loc[r].gen /\ loc'[r].host = loc[r].host
        /\ loc'[r].epoch = loc[r].epoch
    BY Zenon, <1>1, <2>2 DEF Locals, GateType
  <2>4. gate' \in GateType
    BY Zenon, <1>1, <1>3 DEF DoBounded
  <2> QED
    BY Zenon, <1>1, <2>1, <2>2, <2>3, <2>4, CalmRequest DEF Elsewhere, Tearing, Raising, Bound, Undoable
<1>4. CASE ~Throttled(gate) /\ gate.call = 0
  <2>1. PICK f \in Flights :
          /\ pc[f] = "free" /\ gate' = Enter(gate, f) /\ Set(r, [loc[r] EXCEPT !.flight = f])
          /\ pc' = [pc EXCEPT ![r] = "join", ![f] = "start"]
    BY Zenon, <1>4 DEF DoBounded
  <2>2. /\ loc' = [loc EXCEPT ![r] = loc'[r]] /\ loc[r] \in Locals
        /\ loc'[r] = [loc[r] EXCEPT !.flight = f]
    BY Zenon, <2>1, RequestSets
  <2>3. /\ loc'[r] \in Locals /\ loc'[r].gen = loc[r].gen /\ loc'[r].host = loc[r].host
        /\ loc'[r].epoch = loc[r].epoch
    BY Zenon, <2>2 DEF Locals
  <2>4. /\ pc' = [q \in Procs |-> pc'[q]] /\ r # f
        /\ pc'[r] = "join" /\ pc'[f] = "start" /\ \A q \in Procs \ {r, f} : pc'[q] = pc[q]
    BY Zenon, <2>1, ProcNames DEF Inv, Typed
  <2>5. loc' \in [Procs -> Locals] /\ \A q \in Procs \ {r} : loc'[q] = loc[q]
    BY Zenon, <2>2, <2>3, ProcNames DEF Inv, Typed
  <2>6. gate' \in GateType
    BY Zenon, <1>1, <2>1 DEF Enter, GateType
  <2>7. ASSUME NEW q \in Procs PROVE GenCalm(q)
    <3>1. q \in Flights => loc[q].why \in Outcomes \cup {"none"} /\ pc[q] \in FlightSteps
      BY DEF Inv, GenInv, FlightInv
    <3>2. q = "stopper" => pc[q] \in StopperSteps /\ loc[q].why = "none" /\ (pc[q] # "stopper" => px.closed)
      BY Zenon DEF Inv, GenInv
    <3>3. CASE q = r
      BY Zenon, <1>1, <2>3, <2>4, <3>3, ProcNames DEF GenCalm, Tearing, Bound
    <3>4. CASE q = f
      <4>1. pc'[q] = "start" /\ loc'[q] = loc[q]
        BY Zenon, <2>4, <2>5, <3>4
      <4> QED
        BY Zenon, <2>1, <3>1, <3>4, <4>1, ProcNames DEF GenCalm, FlightSteps, Raising, Downers
    <3>5. CASE q \in Procs \ {r, f}
      <4>1. pc'[q] = pc[q] /\ loc'[q] = loc[q] /\ (px.closed => px'.closed)
        BY Zenon, <1>1, <2>4, <2>5, <3>5 DEF SamePx, SameGen
      <4>2. OwnCalm(q)
        BY Zenon, <4>1 DEF OwnCalm, Owner
      <4> QED
        BY Zenon, <3>1, <3>2, <4>1, <4>2 DEF GenCalm
    <3> QED
      BY Zenon, <3>3, <3>4, <3>5
  <2>8. \A q \in Procs : LcCalm(q)
    BY <1>1, <2>1, <2>4, <2>5 DEF LcCalm
  <2>9. \A q \in Reqs : DocCalm(q)
    <3>1. \A q \in Reqs : q # f /\ q \in Procs
      BY Zenon, ProcNames
    <3> QED
      BY Zenon, <1>1, <2>3, <2>4, <2>5, <3>1 DEF DocCalm, Undoable
  <2> QED
    BY Zenon, <1>1, <2>4, <2>5, <2>6, <2>7, <2>8, <2>9, AllCalm
<1> QED
  BY Zenon, <1>2, <1>3, <1>4

-----------------------------------------------------------------------------
(* The mailbox. *)

\* A state that may be published, and that is of no unexposed generation but
\* those of X, disturbs no flight but those of X.
LEMMA PublishKeeps ==
    ASSUME Inv, SameGen, NEW k \in Keys, k.rank # 0, KeyInv(k), rd' = Publish(rd, k),
           NEW X \in SUBSET Flights, MailCalm("worker"),
           \A g \in Flights \ X : MailCalm(g) /\ (pc[g] \in Raising => k.epoch # loc[g].gen)
    PROVE  /\ rd' \in Publishers /\ MailKeys' \subseteq MailKeys \cup {k}
           /\ \A j \in MailKeys' : KeyInv(j)'
           /\ \A g \in Flights \ X : AckInv(g)'
           /\ px'.endpoint # 0 => rd'.tracker.epoch = px'.gen
           /\ rd'.busy # NoKey => pc'["worker"] = "sending"
           /\ rd'.closed => px'.closed
<1>1. rd \in Publishers /\ px.gen \in Nat
  BY Zenon DEF Inv, Typed, PxType
<1>2. \/ rd' = rd
      \/ rd' = [rd EXCEPT !.latest = k, !.pending = k] /\ ~Below(k, rd.latest)
  BY DEF Publish
<1>3. /\ rd' \in Publishers /\ rd'.busy = rd.busy /\ rd'.tracker = rd.tracker
      /\ rd'.closed = rd.closed /\ rd'.failed = rd.failed
  BY Zenon, <1>1, <1>2 DEF Publishers
<1>4. MailKeys' \subseteq MailKeys \cup {k}
  BY ZenonT(40), <1>1, <1>2 DEF MailKeys, Publishers
<1>5. ASSUME NEW j \in MailKeys' PROVE KeyInv(j)'
  <2>1. KeyInv(j)
    BY Zenon, <1>4, <1>5 DEF Inv, MailInv
  <2> QED
    BY <2>1 DEF KeyInv, SameGen
<1>6. ASSUME NEW g \in Flights \ X PROVE AckInv(g)'
  <2>1. AckInv(g) /\ MailCalm(g) /\ (pc[g] \in Raising => k.epoch # loc[g].gen)
    BY DEF Inv, MailInv
  <2>2. CASE pc'[g] \notin Raising
    BY Zenon, <2>2 DEF AckInv, Raising
  <2>3. CASE pc'[g] \in Raising
    <3>1. pc'[g] = pc[g] /\ loc'[g].gen = loc[g].gen /\ k.epoch # loc[g].gen
      BY Zenon, <2>1, <2>3 DEF MailCalm
    <3>2. \A j \in MailKeys' : j.epoch = loc'[g].gen => pc'[g] # "post" /\ j.rank = 1
      BY Zenon, <1>4, <2>1, <2>3, <3>1 DEF AckInv
    <3>3. pc'[g] = "expose" /\ loc'[g].gen = px'.gen /\ ~px'.closed => rd'.tracker.epoch = px'.gen
      BY Zenon, <1>3, <2>1, <3>1 DEF AckInv, SameGen
    <3>4. ASSUME pc'[g] = "ack" /\ loc'[g].gen = px'.gen /\ ~px'.closed
          PROVE  /\ rd'.latest.epoch = px'.gen
                 /\ \/ \E j \in {rd'.pending, rd'.busy} : j.epoch = px'.gen
                    \/ px'.gen \in rd'.failed \/ rd'.tracker.epoch = px'.gen
      <4>1. /\ rd.latest.epoch = px.gen /\ k.epoch # px.gen /\ px'.gen = px.gen
            /\ \/ \E j \in {rd.pending, rd.busy} : j.epoch = px.gen
               \/ px.gen \in rd.failed \/ rd.tracker.epoch = px.gen
        BY Zenon, <2>1, <3>1, <3>4 DEF AckInv, SameGen
      <4>2. k.epoch \in Nat /\ k.epoch <= px.gen
        BY Zenon DEF Keys, KeyInv
      <4>3. Below(k, rd.latest)
        BY <1>1, <4>1, <4>2 DEF Below
      <4> QED
        BY Zenon, <1>2, <4>1, <4>3
    <3> QED
      BY Zenon, <3>2, <3>3, <3>4 DEF AckInv
  <2> QED
    BY Zenon, <2>2, <2>3
<1>7. /\ px'.endpoint # 0 => rd'.tracker.epoch = px'.gen
      /\ rd'.busy # NoKey => pc'["worker"] = "sending"
      /\ rd'.closed => px'.closed
  BY Zenon, <1>3 DEF Inv, MailInv, SameGen, MailCalm
<1> QED
  BY Zenon, <1>3, <1>4, <1>5, <1>6, <1>7

\* A step of one process that publishes a state of no unexposed generation.
LEMMA PublishStep ==
    ASSUME Inv, NEW p \in Procs \ Flights,
           pc' = [pc EXCEPT ![p] = pc'[p]], UNCHANGED <<loc, kind, px, lc, proc, gate, docs>>,
           GenCalm(p), LcCalm(p), p \in Reqs => DocCalm(p),
           NEW k \in Keys, k.rank # 0, KeyInv(k), rd' = Publish(rd, k),
           \A g \in Flights : pc[g] \in Raising => k.epoch # loc[g].gen
    PROVE  Inv'
<1>1. loc' = [loc EXCEPT ![p] = loc'[p]] /\ loc'[p] \in Locals /\ p \in Procs /\ px' = px /\ kind' = kind
  BY DEF Inv, Typed
<1>2. /\ pc' = [q \in Procs |-> pc'[q]] /\ loc' \in [Procs -> Locals]
      /\ \A q \in Procs \ {p} : GenCalm(q)
      /\ \A q \in Procs : LcCalm(q)
      /\ \A r \in Reqs : DocCalm(r)
  <2>1. /\ pc' = [q \in Procs |-> pc'[q]] /\ loc' \in [Procs -> Locals]
        /\ (px.closed => px'.closed) => \A q \in Procs \ {p} : GenCalm(q)
        /\ LcCalm(p) => \A q \in Procs : LcCalm(q)
        /\ (p \in Reqs => DocCalm(p)) /\ UNCHANGED kind => \A r \in Reqs : DocCalm(r)
    BY <1>1, OnlyMover
  <2> QED
    BY Zenon, <1>1, <2>1
<1>3. \A q \in Procs : GenSafe(q) /\ MailCalm(q) /\ OwnCalm(q)
  BY Zenon, <1>2, CalmIsSafe, SamePxHolds
<1>4. rd' \in Publishers /\ MailInv'
  <2>1. SameGen /\ MailCalm("worker") /\ \A g \in Flights : MailCalm(g)
    BY Zenon, <1>3, SamePxHolds, ProcNames
  <2>2. {} \in SUBSET Flights /\ Flights \ {} = Flights
    BY Zenon
  <2>3. /\ rd' \in Publishers
        /\ \A j \in MailKeys' : KeyInv(j)'
        /\ \A g \in Flights \ {} : AckInv(g)'
        /\ px'.endpoint # 0 => rd'.tracker.epoch = px'.gen
        /\ rd'.busy # NoKey => pc'["worker"] = "sending"
        /\ rd'.closed => px'.closed
    BY Zenon, <2>1, <2>2, PublishKeeps
  <2> QED
    BY Zenon, <2>2, <2>3 DEF MailInv
<1>5. Typed'
  BY Zenon, <1>2, <1>4 DEF Inv, Typed
<1> QED
  BY Zenon, <1>2, <1>3, <1>4, <1>5, GenFrame, OwnFrame, LcFrame, DocFrame, SamePxHolds, SameDocsHolds DEF Inv

\* The request that warmed the backend publishes that it is ready.
LEMMA TellReadyStep == ASSUME Inv, NEW r \in Reqs, TellReady(r) PROVE Inv'
<1>1. pc' = [pc EXCEPT ![r] = pc'[r]] /\ pc'[r] \in {"undo", "end"} /\ pc[r] = "tell"
  BY Zenon, RequestMoves DEF TellReady
<1>2. UNCHANGED <<loc, kind, px, lc, proc, gate, docs>> /\ rd' = Publish(rd, Ready(loc[r].gen))
  BY DEF TellReady
<1>3. loc[r] \in Locals /\ loc[r].gen \in Nat /\ loc[r].gen <= px.gen /\ ReqInv(r)
  BY Zenon, ProcNames DEF Inv, Typed, GenInv, Locals
<1>4. Ready(loc[r].gen) \in Keys /\ Ready(loc[r].gen).rank = 2 /\ Ready(loc[r].gen).epoch = loc[r].gen
  BY <1>3 DEF Ready, Keys
<1>5. KeyInv(Ready(loc[r].gen))
  BY <1>1, <1>3, <1>4 DEF KeyInv, ReqInv, Bound, Tearing
<1>6. \A g \in Flights : pc[g] \in Raising => loc[r].gen # loc[g].gen
  BY Zenon, <1>1, ProcNames DEF Inv, GenInv, FlightInv, Holds, Bound
<1>7. GenCalm(r) /\ LcCalm(r) /\ DocCalm(r)
  BY Zenon, <1>1, <1>2, ProcNames DEF GenCalm, LcCalm, DocCalm, Undoable, Bound, Tearing
<1>8. r \in Procs \ Flights
  BY Zenon, ProcNames
<1> QED
  BY <1>1, <1>2, <1>4, <1>5, <1>6, <1>7, <1>8, PublishStep

\* Every step of a request keeps the invariant.
LEMMA RequestStep == ASSUME Inv, NEW r \in Reqs, Request(r) PROVE Inv'
BY ZenonT(40), ReceiveStep, ApplyDocRefStep, CheckClosedStep, LookUpStep, SnapshotStep, ReserveStep, MarkStep,
   DoBoundedStep, AwaitFlightStep, AbandonFlightStep, FlightFailedStep, AcquirePublishedStep,
   SendRequestStep, RespondStep, CutWaitStep, ClassifyStep, RollbackDocRefStep, MarkWarmedStep,
   TellReadyStep, EndBackendRequestStep DEF Request

-----------------------------------------------------------------------------
(* Teardowns and the ticker. *)

\* A process goes to another step.
LEMMA Moves ==
    ASSUME Inv, NEW p \in Procs, NEW to, Goto(p, to)
    PROVE  pc' = [pc EXCEPT ![p] = pc'[p]] /\ pc'[p] = to
BY Zenon DEF Inv, Typed, Goto

\* A process whose locals do not change.
LEMMA Stays ==
    ASSUME Inv, NEW p \in Procs, UNCHANGED loc
    PROVE  loc' = [loc EXCEPT ![p] = loc'[p]] /\ loc'[p] = loc[p] /\ loc'[p] \in Locals
BY DEF Inv, Typed

\* A process whose locals are replaced.
LEMMA Sets ==
    ASSUME Inv, NEW p \in Procs, NEW m, Set(p, m)
    PROVE  loc' = [loc EXCEPT ![p] = loc'[p]] /\ loc'[p] = m /\ loc[p] \in Locals
BY Zenon DEF Inv, Typed, Set

\* Where a process is that is at one of these steps.
LEMMA AtTeardown ==
    ASSUME Inv, NEW p \in Procs
    PROVE  /\ pc[p] \in {"evict", "row", "notify", "tail"} => p \in Downers
           /\ p \in Downers => p \notin Flights /\ p # "stopper"
           /\ p \in Downers \/ p \in Flights \/ p = "stopper"
BY Zenon, ProcNames DEF Inv, GenInv, FlightInv, FlightSteps, StopperSteps, Downers

\* A teardown invalidates the endpoint and opens a generation of its own.
LEMMA NewGenStep ==
    ASSUME Inv, NEW p \in Procs,
           pc' = [pc EXCEPT ![p] = pc'[p]], loc' = [loc EXCEPT ![p] = loc'[p]],
           loc'[p] \in Locals, loc'[p].epoch = loc[p].epoch,
           pc[p] \notin {"handshake", "kill"},
           px' \in PxType, px'.gen = px.gen + 1, px'.endpoint = 0, px.closed => px'.closed,
           p \in Flights => pc'[p] = "post" /\ loc'[p].why \in Outcomes \cup {"none"},
           p \notin Downers => px'.reaping = px.reaping,
           p \in Downers => /\ pc'[p] = "reset" /\ pc[p] # "sending"
                            /\ px'.reaping /\ (px.reaping => Owner(p)),
           p = "stopper" => loc'[p] = loc[p] /\ pc'[p] = "reset" /\ px.closed,
           p # "stopper" => loc'[p].gen = px.gen + 1,
           UNCHANGED <<kind, lc, proc, gate, rd, docs>>
    PROVE  Inv'
<1>1. /\ pc' = [q \in Procs |-> pc'[q]] /\ loc' \in [Procs -> Locals]
      /\ \A q \in Procs \ {p} : pc'[q] = pc[q] /\ loc'[q] = loc[q]
      /\ LcCalm(p) => \A q \in Procs : LcCalm(q)
      /\ (p \in Reqs => DocCalm(p)) => \A r \in Reqs : DocCalm(r)
  BY SMTT(40), OnlyMover
<1>2. px.gen \in Nat /\ \A q \in Procs : loc[q].gen \in Nat /\ loc[q].gen <= px.gen
  BY Zenon DEF Inv, Typed, GenInv, PxType, Locals
<1>3. /\ \A q \in Procs \ {p} : loc'[q].gen < px'.gen /\ loc'[q].gen # px.gen + 1
      /\ \A q \in Procs : loc'[q].gen <= px'.gen
      /\ p # "stopper" => loc'[p].gen = px'.gen
  <2>1. ASSUME NEW q \in Procs \ {p} PROVE loc'[q].gen < px'.gen /\ loc'[q].gen # px.gen + 1 /\ loc'[q].gen <= px'.gen
    BY <1>1, <1>2
  <2>2. loc'[p].gen <= px'.gen
    BY <1>2
  <2> QED
    BY Zenon, <2>1, <2>2
<1>4. ASSUME NEW r \in Reqs PROVE ReqInv(r)'
  <2>1. CASE r = p
    BY Zenon, <2>1, ProcNames DEF ReqInv, Tearing, Bound
  <2>2. CASE r # p
    BY <1>1, <1>3, <2>2, ProcNames DEF ReqInv, Inv, GenInv
  <2> QED
    BY Zenon, <2>1, <2>2
<1>5. ASSUME NEW f \in Flights PROVE FlightInv(f)'
  <2>1. FlightInv(f) /\ f \in Procs /\ f # "stopper" /\ f \notin Downers
    BY Zenon, ProcNames DEF Inv, GenInv, Downers
  <2>2. CASE f = p
    <3>1. /\ \A g \in Flights \ {f} : loc'[g].gen # loc'[f].gen
          /\ \A q \in Downers : loc'[q].gen # loc'[f].gen
      BY ZenonT(40), <1>3, <2>1, <2>2, ProcNames
    <3>2. loc'[f].gen # 0
      BY SMTT(40), <1>2, <2>1, <2>2
    <3> QED
      BY Zenon, <2>2, <3>1, <3>2 DEF FlightInv, FlightSteps
  <2>3. CASE f # p
    <3>1. pc'[f] = pc[f] /\ loc'[f] = loc[f] /\ loc'[f].gen # px.gen + 1
      BY Zenon, <1>1, <1>3, <2>1, <2>3
    <3>2. \A q \in Procs \ {p} : pc'[q] = pc[q] /\ loc'[q] = loc[q] /\ (Holds(q)' <=> Holds(q))
      BY Zenon, <1>1 DEF Holds
    <3>3. p \in Flights \cup Downers => loc'[p].gen # loc'[f].gen
      BY Zenon, <3>1, ProcNames DEF Downers
    <3> QED
      BY <2>1, <3>1, <3>2, <3>3, ProcNames DEF FlightInv
  <2> QED
    BY Zenon, <2>2, <2>3
<1>6. GenInv'
  <2>2. /\ pc'["stopper"] \in StopperSteps /\ loc'["stopper"].why = "none"
        /\ pc'["stopper"] # "stopper" => px'.closed
    <3>1. CASE p = "stopper"
      BY Zenon, <3>1 DEF StopperSteps, Inv, GenInv
    <3>2. CASE p # "stopper"
      BY Zenon, <1>1, <3>2, ProcNames DEF Inv, GenInv
    <3> QED
      BY Zenon, <3>1, <3>2
  <2> QED
    BY Zenon, <1>3, <1>4, <1>5, <2>2 DEF GenInv
<1>7. MailInv'
  <2>1. MailKeys' = MailKeys /\ \A k \in MailKeys : k \in Keys
    BY Zenon DEF MailKeys, Inv, Typed, Publishers
  <2>2. ASSUME NEW k \in MailKeys' PROVE KeyInv(k)' /\ k.epoch < px'.gen /\ k.epoch # px.gen + 1
    <3>1. k.epoch \in Nat /\ k.epoch <= px.gen /\ (k.epoch # 0 => k.rank # 0)
      BY Zenon, <2>1, <2>2 DEF Keys, Inv, MailInv, KeyInv
    <3>2. k.epoch < px'.gen /\ k.epoch <= px'.gen /\ k.epoch # px'.gen
      BY <1>2, <3>1
    <3> QED
      BY Zenon, <3>1, <3>2 DEF KeyInv
  <2>3. ASSUME NEW f \in Flights PROVE AckInv(f)'
    <3>1. f \in Procs /\ f # "stopper" /\ AckInv(f)
      BY Zenon, ProcNames DEF Inv, MailInv
    <3>2. CASE f = p
      BY <2>2, <3>1, <3>2 DEF AckInv
    <3>3. CASE f # p
      <4>1. pc'[f] = pc[f] /\ loc'[f] = loc[f] /\ loc'[f].gen # px'.gen
        BY <1>1, <1>3, <3>1, <3>3
      <4> QED
        BY <2>1, <3>1, <4>1 DEF AckInv
    <3> QED
      BY Zenon, <3>2, <3>3
  <2>4. rd'.busy # NoKey => pc'["worker"] = "sending"
    <3>1. CASE p = "worker"
      BY Zenon, <3>1, ProcNames DEF Inv, MailInv
    <3>2. CASE p # "worker"
      BY Zenon, <1>1, <3>2, ProcNames DEF Inv, MailInv
    <3> QED
      BY Zenon, <3>1, <3>2
  <2>5. rd'.closed => px'.closed
    BY Zenon DEF Inv, MailInv
  <2> QED
    BY Zenon, <2>2, <2>3, <2>4, <2>5 DEF MailInv
<1>8. LcCalm(p) /\ (p \in Reqs => DocCalm(p))
  BY Zenon, AtTeardown, ProcNames DEF LcCalm, DocCalm, Undoable
<1>9. Typed'
  BY Zenon, <1>1 DEF Inv, Typed
<1>10. OwnInv'
  <2>1. \A q \in Downers \ {p} : Owner(q)' <=> Owner(q)
    BY Zenon, <1>1, ProcNames DEF Owner
  <2> QED
    BY Zenon, <2>1 DEF Inv, OwnInv
<1> QED
  BY Zenon, <1>1, <1>6, <1>7, <1>8, <1>9, <1>10, LcFrame, DocFrame, SameDocsHolds DEF Inv

\* A process that is torn down to the fields of a new generation.
LEMMA TornDownType ==
    ASSUME px \in PxType
    PROVE  /\ TornDown(px) \in PxType /\ TornDown(px).gen = px.gen + 1
           /\ TornDown(px).endpoint = 0 /\ TornDown(px).closed = px.closed
<1>1. px.gen \in Nat
  BY Zenon DEF PxType
<1>2. px.gen + 1 \in Nat
  BY <1>1
<1> QED
  BY Zenon, <1>2 DEF TornDown, PxType, Rows

\* The locals of an idle process are typed.
LEMMA NoLocalsType ==
    NoLocals \in Locals /\ NoLocals.gen = 0 /\ NoLocals.host = 0 /\ NoLocals.epoch = 0
BY Zenon DEF NoLocals, Locals

\* A calm step of a process that is neither a request nor a flight, or is done
\* with its teardown.
LEMMA CalmDowner ==
    ASSUME Inv, NEW p \in Downers,
           pc' = [pc EXCEPT ![p] = pc'[p]], loc' = [loc EXCEPT ![p] = loc'[p]],
           loc'[p] \in Locals,
           \/ loc'[p] = loc[p]
           \/ loc'[p] = NoLocals /\ pc'[p] \notin Tearing
           \/ p \notin Reqs /\ loc'[p].gen = loc[p].gen,
           pc'[p] \in Tearing => pc[p] \in Tearing, Owner(p)' => Owner(p),
           p \in Reqs => /\ pc[p] \in Tearing /\ pc'[p] \notin Tearing => loc'[p].host = 0
                         /\ pc'[p] \notin Bound \cup Undoable,
           pc[p] # "sending", {pc[p], pc'[p]} \cap {"handshake", "kill"} = {},
           SamePx, gate' \in GateType, UNCHANGED <<kind, lc, proc, rd, docs>>
    PROVE  Inv'
<1>1. p \in Procs /\ p \notin Flights /\ p # "stopper"
  BY Zenon, ProcNames DEF Downers
<1>2. GenCalm(p)
  BY Zenon, <1>1, NoLocalsType DEF GenCalm, Bound, Tearing, OwnCalm
<1>3. LcCalm(p)
  BY Zenon DEF LcCalm
<1>4. p \in Reqs => DocCalm(p)
  BY Zenon, NoLocalsType DEF DocCalm
<1> QED
  BY Zenon, <1>1, <1>2, <1>3, <1>4, CalmStep, SameDocsHolds

\* A failed send tears the endpoint down, if it is still the current one.
LEMMA OnSendFailureStep == ASSUME Inv, NEW p \in Procs, OnSendFailure(p) PROVE Inv'
<1>1. pc[p] = "evict" /\ p \in Downers /\ p \notin Flights /\ p # "stopper" /\ px \in PxType
  BY Zenon, AtTeardown DEF OnSendFailure, Inv, Typed
<1>2. UNCHANGED <<kind, lc, proc, gate, rd, docs>>
  BY Zenon DEF OnSendFailure
<1>3. CASE px.closed \/ px.reaping \/ px.gen # loc[p].gen
  <2>1. pc' = [pc EXCEPT ![p] = pc'[p]] /\ pc'[p] = After(p)
    BY Zenon, <1>3, Moves DEF OnSendFailure
  <2>2. loc' = [loc EXCEPT ![p] = loc'[p]] /\ loc'[p] = NoLocals /\ UNCHANGED px
    BY Zenon, <1>3, Sets DEF OnSendFailure
  <2>3. /\ pc'[p] \notin Tearing \cup {"handshake", "kill"} /\ ~Owner(p)'
        /\ p \in Reqs => pc'[p] \notin Bound \cup Undoable
    BY Zenon, <1>1, <2>1, ProcNames DEF After, Tearing, Bound, Undoable, Downers, Procs, Owner
  <2> QED
    BY Zenon, <1>1, <1>2, <2>1, <2>2, <2>3, CalmDowner, NoLocalsType, SamePxHolds, GateStays
<1>4. CASE ~(px.closed \/ px.reaping \/ px.gen # loc[p].gen)
  <2>1. pc' = [pc EXCEPT ![p] = pc'[p]] /\ pc'[p] = "reset"
    BY Zenon, <1>4, Moves DEF OnSendFailure
  <2>2. /\ loc' = [loc EXCEPT ![p] = loc'[p]] /\ loc[p] \in Locals
        /\ loc'[p] = [loc[p] EXCEPT !.gen = px.gen + 1]
    BY Zenon, <1>4, Sets DEF OnSendFailure
  <2>3. px.gen + 1 \in Nat
    <3>1. px.gen \in Nat
      BY Zenon, <1>1 DEF PxType
    <3> QED
      BY <3>1
  <2>4. loc'[p] \in Locals /\ loc'[p].gen = px.gen + 1 /\ loc'[p].epoch = loc[p].epoch
    BY Zenon, <2>2, <2>3 DEF Locals
  <2>5. /\ px' \in PxType /\ px'.gen = px.gen + 1 /\ px'.endpoint = 0 /\ px'.closed = px.closed
        /\ px'.reaping
    <3>1. px' = [TornDown(px) EXCEPT !.reaping = TRUE]
      BY <1>4 DEF OnSendFailure
    <3> QED
      BY Zenon, <1>1, <3>1, TornDownType DEF PxType
  <2> QED
    BY Zenon, <1>1, <1>2, <1>4, <2>1, <2>2, <2>4, <2>5, NewGenStep
<1> QED
  BY Zenon, <1>3, <1>4

\* The gate forgets the flight that is over.
LEMMA ForgetGateStep == ASSUME Inv, NEW p \in Procs, ForgetGate(p) PROVE Inv'
<1>1. /\ pc' = [pc EXCEPT ![p] = pc'[p]] /\ pc[p] = "forget"
      /\ pc'[p] = IF p \in Flights THEN "fin" ELSE IF p = "stopper" THEN "stopped"
                  ELSE IF loc[p].why = "idle" THEN "notify" ELSE "row"
  BY Zenon, Moves DEF ForgetGate
<1>2. loc' = [loc EXCEPT ![p] = loc'[p]] /\ loc'[p] = loc[p] /\ loc'[p] \in Locals
  BY Stays DEF ForgetGate
<1>3. UNCHANGED <<kind, px, lc, proc, rd, docs>> /\ gate' \in GateType
  BY Zenon DEF ForgetGate, tSame, Inv, Typed, Forget, GateType
<1>4. GenCalm(p)
  <2>1. p \in Flights => loc[p].why \in Outcomes \cup {"none"}
    BY Zenon DEF Inv, GenInv, FlightInv
  <2>2. p = "stopper" => px'.closed /\ loc[p].why = "none"
    BY Zenon, <1>1, <1>3 DEF Inv, GenInv
  <2> QED
    BY Zenon, <1>1, <1>2, <2>1, <2>2, ProcNames
       DEF GenCalm, Tearing, Bound, Raising, FlightSteps, StopperSteps, Downers, OwnCalm, Owner
<1>5. LcCalm(p) /\ (p \in Reqs => DocCalm(p))
  BY Zenon, <1>1, <1>2, <1>3, ProcNames DEF LcCalm, DocCalm, Undoable
<1> QED
  BY Zenon, <1>1, <1>2, <1>3, <1>4, <1>5, CalmStep, SamePxHolds, SameDocsHolds

\* The row is stamped as failed or asleep.
LEMMA StampFailedStep == ASSUME Inv, NEW p \in Procs, StampFailed(p) PROVE Inv'
<1>1. pc' = [pc EXCEPT ![p] = pc'[p]] /\ pc[p] = "row" /\ pc'[p] = "notify" /\ p \in Downers
  BY Zenon, Moves, AtTeardown DEF StampFailed
<1>2. loc' = [loc EXCEPT ![p] = loc'[p]] /\ loc'[p] = loc[p] /\ loc'[p] \in Locals
  BY Stays DEF StampFailed
<1>3. UNCHANGED <<kind, px, lc, proc, rd, docs>> /\ SamePx /\ gate' \in GateType
  BY Zenon, SamePxHolds, GateStays DEF StampFailed, tSame
<1> QED
  BY Zenon, <1>1, <1>2, <1>3, CalmDowner DEF Tearing, Bound, Undoable, Owner

\* The owner gives reaping up.
LEMMA ReleaseStep ==
    ASSUME Inv, NEW p \in Downers, Owner(p),
           pc' = [pc EXCEPT ![p] = pc'[p]], loc' = [loc EXCEPT ![p] = loc'[p]],
           pc'[p] = After(p), pc[p] \notin {"sending", "handshake", "kill"},
           loc'[p] = NoLocals \/ (p \notin Reqs /\ loc'[p] = loc[p]),
           SameGen, ~px'.reaping, UNCHANGED <<kind, lc, proc, gate, rd, docs>>
    PROVE  Inv'
<1>1. p \in Procs /\ p \notin Flights /\ p # "stopper" /\ loc'[p] \in Locals
  BY Zenon, NoLocalsType DEF Downers, Inv, Typed
<1>2. pc'[p] \notin Tearing \cup {"handshake", "kill"} \cup Bound \cup Undoable /\ ~Owner(p)'
  BY Zenon, <1>1 DEF After, Tearing, Bound, Undoable, Procs, Owner
<1>3. GenCalm(p)
  BY Zenon, <1>1, <1>2, NoLocalsType DEF GenCalm, Bound, OwnCalm
<1>4. LcCalm(p) /\ (p \in Reqs => DocCalm(p))
  BY Zenon, <1>2, NoLocalsType DEF LcCalm, DocCalm
<1>5. /\ pc' = [q \in Procs |-> pc'[q]] /\ loc' \in [Procs -> Locals]
      /\ \A q \in Procs \ {p} : pc'[q] = pc[q]
      /\ \A q \in Procs : GenCalm(q)
      /\ \A q \in Procs : LcCalm(q)
      /\ \A r \in Reqs : DocCalm(r)
  BY <1>1, <1>3, <1>4, OnlyMover DEF SameGen
<1>6. \A q \in Procs : GenSafe(q) /\ MailCalm(q)
  BY Zenon, <1>5, CalmIsSafe
<1>7. OwnInv'
  <2>1. \A q \in Downers : ~Owner(q)'
    <3>1. \A q \in Downers \ {p} : ~Owner(q) /\ pc'[q] = pc[q]
      BY Zenon, <1>5, ProcNames DEF Inv, OwnInv
    <3> QED
      BY Zenon, <1>2, <3>1 DEF Owner
  <2> QED
    BY Zenon, <2>1 DEF OwnInv
<1>8. Typed'
  BY Zenon, <1>5 DEF Inv, Typed, SameGen
<1> QED
  BY Zenon, <1>5, <1>6, <1>7, <1>8, GenFrame, MailFrame, LcFrame, DocFrame, SameDocsHolds DEF Inv

\* The teardown ends and gives reaping up.
LEMMA EndTeardownStep == ASSUME Inv, NEW p \in Procs, EndTeardown(p) PROVE Inv'
<1>1. pc' = [pc EXCEPT ![p] = pc'[p]] /\ pc[p] = "tail" /\ pc'[p] = After(p) /\ p \in Downers
  BY Zenon, Moves, AtTeardown DEF EndTeardown
<1>2. loc' = [loc EXCEPT ![p] = loc'[p]] /\ loc'[p] = NoLocals
  BY Zenon, Sets DEF EndTeardown
<1>3. UNCHANGED <<kind, lc, proc, gate, rd, docs>>
  BY ZenonT(40) DEF EndTeardown, tSame
<1>4. SameGen /\ ~px'.reaping
  <2>1. px \in PxType
    BY DEF Inv, Typed
  <2>2. /\ Released(px) \in PxType /\ Released(px).gen = px.gen /\ Released(px).endpoint = px.endpoint
        /\ Released(px).warmed = px.warmed /\ Released(px).closed = px.closed
        /\ ~Released(px).reaping
    BY ZenonT(40), <2>1 DEF Released, PxType
  <2>3. ReconcileTo(Released(px)) \/ px' = Released(px)
    BY DEF EndTeardown
  <2> QED
    BY Zenon, <2>2, <2>3, ReconcileKeeps DEF SameGen
<1>5. Owner(p)
  BY Zenon, <1>1 DEF Owner, Tearing
<1> QED
  BY Zenon, <1>1, <1>2, <1>3, <1>4, <1>5, ReleaseStep

\* The teardown publishes that its generation is down.
LEMMA PublishDownStep == ASSUME Inv, NEW p \in Procs, PublishDown(p) PROVE Inv'
<1>1. pc' = [pc EXCEPT ![p] = pc'[p]] /\ pc[p] = "notify" /\ pc'[p] = "tail" /\ p \in Downers
  BY Zenon, Moves, AtTeardown DEF PublishDown
<1>2. UNCHANGED <<loc, kind, px, lc, proc, gate, docs>> /\ rd' = Publish(rd, Down(loc[p].gen))
  BY Zenon DEF PublishDown, tSame
<1>3. loc[p] \in Locals /\ loc[p].gen \in Nat /\ loc[p].gen <= px.gen /\ px.endpoint = 0
  BY Zenon, <1>1 DEF Inv, Typed, GenInv, Locals, OwnInv, Owner, Tearing
<1>4. Down(loc[p].gen) \in Keys /\ Down(loc[p].gen).rank = 3 /\ Down(loc[p].gen).epoch = loc[p].gen
  BY <1>3 DEF Down, Keys
<1>5. KeyInv(Down(loc[p].gen))
  BY <1>1, <1>3, <1>4 DEF KeyInv
<1>6. \A g \in Flights : pc[g] \in Raising => loc[p].gen # loc[g].gen
  BY Zenon, <1>1 DEF Inv, GenInv, FlightInv, Holds, Tearing
<1>7. p \in Procs \ Flights /\ p # "stopper"
  BY Zenon, <1>1 DEF Downers
<1>8. GenCalm(p) /\ LcCalm(p) /\ (p \in Reqs => DocCalm(p))
  BY Zenon, <1>1, <1>2, <1>7 DEF GenCalm, LcCalm, DocCalm, Undoable, Bound, Tearing, OwnCalm, Owner
<1> QED
  BY <1>1, <1>2, <1>4, <1>5, <1>6, <1>7, <1>8, PublishStep

\* A teardown that goes on keeps its generation.
LEMMA TearOn ==
    ASSUME Inv, NEW p \in Procs, pc[p] \in {"reset", "swap", "kill"},
           pc'[p] \in {"swap", "kill", "forget"} \/ (pc'[p] = "row" /\ p \in Downers),
           loc'[p].gen = loc[p].gen, loc'[p].host = loc[p].host, loc'[p].epoch = loc[p].epoch,
           loc'[p].why = loc[p].why \/ p \in Downers,
           UNCHANGED <<px, kind>>
    PROVE  /\ GenCalm(p) /\ (p \in Reqs => DocCalm(p))
           /\ GenSafe(p) /\ MailCalm(p) /\ OwnCalm(p)
<1>1. p \in Flights => loc'[p].why \in Outcomes \cup {"none"}
  BY Zenon, ProcNames DEF Inv, GenInv, FlightInv, Downers
<1>2. p = "stopper" => px'.closed /\ loc'[p].why = "none"
  BY Zenon, ProcNames DEF Inv, GenInv, Downers
<1>3. GenCalm(p)
  BY Zenon, <1>1, <1>2, ProcNames DEF GenCalm, Tearing, Bound, Raising, FlightSteps, StopperSteps, Downers,
                                      OwnCalm, Owner
<1>4. p \in Reqs => DocCalm(p)
  BY Zenon DEF DocCalm, Undoable
<1> QED
  BY Zenon, <1>3, <1>4, CalmIsSafe, SamePxHolds

\* The teardown resets the document count.
LEMMA ResetDocRefsStep == ASSUME Inv, NEW p \in Procs, ResetDocRefs(p) PROVE Inv'
<1>1. pc' = [pc EXCEPT ![p] = pc'[p]] /\ pc[p] = "reset" /\ pc'[p] = "swap"
  BY Zenon, Moves DEF ResetDocRefs
<1>2. loc' = [loc EXCEPT ![p] = loc'[p]] /\ loc'[p] = loc[p] /\ loc'[p] \in Locals /\ UNCHANGED loc
  BY Zenon, Stays DEF ResetDocRefs
<1>3. UNCHANGED <<kind, px, lc, proc, gate, rd>> /\ SamePx /\ gate' \in GateType
      /\ kind' \in [Reqs -> AllKinds]
  BY Zenon, SamePxHolds, GateStays DEF ResetDocRefs, tSame, Inv, Typed
<1>4. docs' \in DocType /\ DocInv'
  <2>1. docs \in DocType /\ docs.epoch \in Nat /\ \A r \in Reqs : loc[r].epoch \in Nat /\ loc[r].epoch <= docs.epoch
    BY Zenon, ProcNames DEF Inv, Typed, DocType, Locals, DocInv
  <2>2. docs.epoch + 1 \in Nat /\ \A r \in Reqs : loc[r].epoch <= docs.epoch + 1 /\ loc[r].epoch # docs.epoch + 1
    BY <2>1
  <2>3. docs' = [docs EXCEPT !.count = 0, !.epoch = docs.epoch + 1, !.opened = FALSE]
    BY DEF ResetDocRefs
  <2>4. docs' \in DocType /\ docs'.count = 0 /\ docs'.epoch = docs.epoch + 1
    BY Zenon, <2>1, <2>2, <2>3 DEF DocType
  <2> QED
    BY <1>2, <2>2, <2>4 DEF DocInv
<1>5. GenSafe(p) /\ MailCalm(p) /\ OwnCalm(p)
  BY Zenon, <1>1, <1>2, <1>3, TearOn
<1>6. LcCalm(p)
  BY Zenon, <1>1 DEF LcCalm
<1> QED
  BY Zenon, <1>1, <1>2, <1>3, <1>4, <1>5, <1>6, SafeStep

\* A step of one calm process that changes only the backends.
LEMMA BackendStep ==
    ASSUME Inv, NEW p \in Procs,
           pc' = [pc EXCEPT ![p] = pc'[p]], loc' = [loc EXCEPT ![p] = loc'[p]],
           loc'[p] \in Locals, GenCalm(p), p \in Reqs => DocCalm(p),
           lc' \in [mu : Flights \cup {0}, host : Backends \cup {0}],
           proc' \in [Backends -> {"unborn", "up", "dead", "stuck"}], LcInv',
           UNCHANGED <<kind, px, gate, rd, docs>>
    PROVE  Inv'
<1>1. px' = px /\ kind' = kind
  BY Zenon
<1>2. /\ pc' = [q \in Procs |-> pc'[q]] /\ loc' \in [Procs -> Locals]
      /\ \A q \in Procs : GenCalm(q)
      /\ \A r \in Reqs : DocCalm(r)
  BY <1>1, OnlyMover
<1>3. \A q \in Procs : GenSafe(q) /\ MailCalm(q) /\ OwnCalm(q)
  BY Zenon, <1>2, CalmIsSafe, SamePxHolds
<1>4. Typed'
  BY Zenon, <1>2 DEF Inv, Typed
<1> QED
  BY Zenon, <1>2, <1>3, <1>4, GenFrame, OwnFrame, MailFrame, DocFrame, SamePxHolds, SameDocsHolds DEF Inv

\* The teardown takes the host away from the lifecycle.
LEMMA TakeHostStep == ASSUME Inv, NEW p \in Procs, TakeHost(p) PROVE Inv'
<1>1. pc' = [pc EXCEPT ![p] = pc'[p]] /\ pc[p] = "swap" /\ pc'[p] = "kill" /\ lc.mu = 0
  BY Zenon, Moves DEF TakeHost
<1>2. /\ loc' = [loc EXCEPT ![p] = loc'[p]] /\ loc[p] \in Locals
      /\ loc'[p] = [loc[p] EXCEPT !.victim = lc.host]
  BY Zenon, Sets DEF TakeHost
<1>3. lc \in [mu : Flights \cup {0}, host : Backends \cup {0}]
      /\ proc \in [Backends -> {"unborn", "up", "dead", "stuck"}]
  BY DEF Inv, Typed
<1>4. /\ loc'[p] \in Locals /\ loc'[p].gen = loc[p].gen /\ loc'[p].host = loc[p].host
      /\ loc'[p].epoch = loc[p].epoch /\ loc'[p].why = loc[p].why /\ loc'[p].victim = lc.host
  BY Zenon, <1>2, <1>3 DEF Locals
<1>5. UNCHANGED <<kind, px, proc, gate, rd, docs>> /\ lc' = [lc EXCEPT !.host = 0]
  BY DEF TakeHost, tSame
<1>6. lc' \in [mu : Flights \cup {0}, host : Backends \cup {0}] /\ lc'.mu = 0 /\ lc'.host = 0
  BY Zenon, <1>1, <1>3, <1>5
<1>7. \A q \in Procs \ {p} : pc'[q] = pc[q] /\ loc'[q] = loc[q]
  BY <1>1, <1>2, <1>4, OnlyMover
<1>8. LcInv'
  <2>1. \A f \in Flights : pc[f] # "handshake" /\ pc'[f] # "handshake"
    BY Zenon, <1>1, <1>7, ProcNames DEF Inv, LcInv
  <2>2. ASSUME NEW b \in Backends, Live(b)'
        PROVE  \E q \in Procs : pc'[q] = "kill" /\ loc'[q].victim = b
    <3>1. lc.host = b \/ \E q \in Procs : pc[q] = "kill" /\ loc[q].victim = b
      BY Zenon, <1>5, <2>1, <2>2 DEF Inv, LcInv, NoStrayBackend, Live
    <3> QED
      BY Zenon, <1>1, <1>4, <1>7, <3>1
  <2> QED
    BY Zenon, <1>6, <2>1, <2>2 DEF LcInv, NoStrayBackend
<1>9. GenCalm(p) /\ (p \in Reqs => DocCalm(p))
  BY Zenon, <1>1, <1>4, <1>5, TearOn
<1> QED
  BY Zenon, <1>1, <1>2, <1>3, <1>4, <1>5, <1>6, <1>8, <1>9, BackendStep

\* The teardown stops the host it took.
LEMMA StopHostStep == ASSUME Inv, NEW p \in Procs, StopHost(p) PROVE Inv'
<1>1. pc' = [pc EXCEPT ![p] = pc'[p]] /\ pc[p] = "kill"
  BY Zenon, Moves DEF StopHost
<1>2. /\ loc' = [loc EXCEPT ![p] = loc'[p]] /\ loc[p] \in Locals
      /\ \/ loc'[p] = loc[p] /\ pc'[p] = "forget"
         \/ loc[p].why = "idle" /\ loc'[p] = [loc[p] EXCEPT !.why = "fail"] /\ pc'[p] \in {"forget", "row"}
  BY Sets, Stays, Moves DEF StopHost, Inv, Typed
<1>3. p \in Flights \cup {"stopper"} => loc[p].why # "idle"
  BY Zenon DEF Inv, GenInv, FlightInv, Outcomes, Failures
<1>4. /\ loc'[p] \in Locals /\ loc'[p].gen = loc[p].gen /\ loc'[p].host = loc[p].host
      /\ loc'[p].epoch = loc[p].epoch
  BY Zenon, <1>2 DEF Locals
<1>5. UNCHANGED <<kind, px, lc, gate, rd, docs>>
  BY Zenon DEF StopHost, tSame
<1>6. /\ proc' \in [Backends -> {"unborn", "up", "dead", "stuck"}]
      /\ \A b \in Backends : Live(b)' => Live(b) /\ b # loc[p].victim
  BY Zenon, LazyAssumption DEF StopHost, Inv, Typed, Live
<1>7. \A q \in Procs \ {p} : pc'[q] = pc[q] /\ loc'[q] = loc[q]
  BY <1>1, <1>2, <1>4, OnlyMover
<1>8. LcInv'
  <2>1. \A f \in Flights : f \in Procs /\ (pc'[f] = "handshake" => f # p /\ pc[f] = "handshake")
    BY Zenon, <1>2, <1>7, ProcNames
  <2>2. ASSUME NEW b \in Backends, Live(b)'
        PROVE  \/ lc'.host = b
               \/ \E f \in Flights : lc'.mu = f /\ pc'[f] = "handshake" /\ loc'[f].host = b
               \/ \E q \in Procs : pc'[q] = "kill" /\ loc'[q].victim = b
    <3>1. \/ lc.host = b
          \/ \E f \in Flights : lc.mu = f /\ pc[f] = "handshake" /\ loc[f].host = b
          \/ \E q \in Procs : pc[q] = "kill" /\ loc[q].victim = b
      BY Zenon, <1>6, <2>2 DEF Inv, LcInv, NoStrayBackend
    <3> QED
      BY Zenon, <1>1, <1>5, <1>6, <1>7, <2>2, <3>1, ProcNames
  <2> QED
    BY Zenon, <1>5, <2>1, <2>2 DEF Inv, LcInv, NoStrayBackend
<1>9. GenCalm(p) /\ (p \in Reqs => DocCalm(p))
  <2>1. pc'[p] = "forget" \/ (p \in Downers /\ pc'[p] \in {"forget", "row"})
    BY Zenon, <1>2, <1>3, AtTeardown
  <2> QED
    BY Zenon, <1>1, <1>2, <1>3, <1>4, <1>5, <2>1, TearOn, AtTeardown
<1> QED
  BY ZenonT(40), <1>1, <1>2, <1>4, <1>5, <1>6, <1>8, <1>9, BackendStep DEF Inv, Typed

\* Every step of a teardown keeps the invariant.
LEMMA TeardownStep == ASSUME Inv, NEW p \in Procs, Teardown(p) PROVE Inv'
BY Zenon, OnSendFailureStep, ResetDocRefsStep, TakeHostStep, StopHostStep, ForgetGateStep, StampFailedStep,
   PublishDownStep, EndTeardownStep DEF Teardown

\* The ticker is a process that tears down.
LEMMA TickerIs == "ticker" \in Procs /\ "ticker" \in Downers /\ "ticker" \notin Reqs
                  /\ "ticker" \notin Flights
BY Zenon, ProcNames DEF Downers

\* A step of the ticker outside teardowns.
LEMMA CalmTicker ==
    ASSUME Inv, pc' = [pc EXCEPT !["ticker"] = pc'["ticker"]],
           pc["ticker"] \notin {"sending", "handshake", "kill"},
           pc'["ticker"] \in {"ticker", "idle", "probation", "orphan", "unread", "disarm", "free"},
           Owner("ticker")' => Owner("ticker"),
           SamePx, UNCHANGED <<loc, kind, lc, proc, gate, rd, docs>>
    PROVE  Inv'
<1>1. /\ loc' = [loc EXCEPT !["ticker"] = loc'["ticker"]] /\ loc'["ticker"] = loc["ticker"]
      /\ loc'["ticker"] \in Locals
  BY Zenon, Stays, TickerIs
<1> QED
  BY Zenon, <1>1, TickerIs, CalmDowner, GateStays DEF Tearing

\* The ticker begins a teardown.
LEMMA TickerTears ==
    ASSUME Inv, pc' = [pc EXCEPT !["ticker"] = pc'["ticker"]], pc'["ticker"] = "reset",
           pc["ticker"] \notin {"sending", "handshake", "kill"},
           NEW why \in {"idle", loc["ticker"].why},
           loc' = [loc EXCEPT !["ticker"] = loc'["ticker"]],
           loc'["ticker"] = [loc["ticker"] EXCEPT !.gen = px.gen + 1, !.why = why],
           px' \in PxType, px'.gen = px.gen + 1, px'.endpoint = 0, px'.closed = px.closed,
           px'.reaping, px.reaping => Owner("ticker"),
           UNCHANGED <<kind, lc, proc, gate, rd, docs>>
    PROVE  Inv'
<1>1. px.gen \in Nat /\ loc["ticker"] \in Locals
  BY Zenon, TickerIs DEF Inv, Typed, PxType
<1>2. px.gen + 1 \in Nat
  BY <1>1
<1>3. /\ loc'["ticker"] \in Locals /\ loc'["ticker"].gen = px.gen + 1
      /\ loc'["ticker"].epoch = loc["ticker"].epoch
  BY ZenonT(40), <1>1, <1>2 DEF Locals
<1> QED
  BY Zenon, <1>3, TickerIs, NewGenStep

\* The ticker wakes up, or reads the row of an orphan.
LEMMA TickStep == ASSUME Inv, Tick \/ ReadOrphanRow PROVE Inv'
<1>1. /\ pc' = [pc EXCEPT !["ticker"] = pc'["ticker"]]
      /\ \/ pc["ticker"] = "ticker" /\ pc'["ticker"] \in {"idle", "probation"}
         \/ pc["ticker"] = "orphan" /\ pc'["ticker"] \in {"unread", "free", "disarm"}
  BY Moves, TickerIs DEF Tick, ReadOrphanRow
<1>2. SamePx /\ UNCHANGED <<loc, kind, lc, proc, gate, rd, docs>>
  BY Zenon, SamePxHolds DEF Tick, ReadOrphanRow, tSame
<1>3. Owner("ticker")' => Owner("ticker")
  BY <1>1 DEF Owner, Tearing
<1> QED
  BY <1>1, <1>2, <1>3, CalmTicker

\* The ticker begins to reap an idle backend.
LEMMA ReapIdleStep == ASSUME Inv, ReapIdleBackend PROVE Inv'
<1>1. UNCHANGED <<kind, lc, proc, gate, rd, docs>> /\ pc["ticker"] = "idle" /\ px \in PxType
  BY Zenon DEF ReapIdleBackend, tSame, Inv, Typed
<1>2. CASE px.endpoint = 0 \/ px.reaping \/ px.inflight > 0 \/ ~px.used
  <2>1. pc' = [pc EXCEPT !["ticker"] = pc'["ticker"]] /\ pc'["ticker"] = "ticker"
    BY Zenon, <1>2, Moves, TickerIs DEF ReapIdleBackend
  <2>2. UNCHANGED <<loc, px>>
    BY Zenon, <1>2 DEF ReapIdleBackend
  <2> QED
    BY Zenon, <1>1, <2>1, <2>2, CalmTicker, SamePxHolds DEF Owner, Tearing
<1>3. CASE ~(px.endpoint = 0 \/ px.reaping \/ px.inflight > 0 \/ ~px.used)
  <2>1. pc' = [pc EXCEPT !["ticker"] = pc'["ticker"]] /\ pc'["ticker"] = "reset"
    BY Zenon, <1>3, Moves, TickerIs DEF ReapIdleBackend
  <2>2. /\ loc' = [loc EXCEPT !["ticker"] = loc'["ticker"]]
        /\ loc'["ticker"] = [loc["ticker"] EXCEPT !.gen = px.gen + 1, !.why = "idle"]
    BY ZenonT(40), <1>3, Sets, TickerIs DEF ReapIdleBackend
  <2>3. /\ px' \in PxType /\ px'.gen = px.gen + 1 /\ px'.endpoint = 0 /\ px'.closed = px.closed
        /\ px'.reaping
    <3>1. px' = [TornDown(px) EXCEPT !.reaping = TRUE]
      BY Zenon, <1>3 DEF ReapIdleBackend
    <3> QED
      BY Zenon, <1>1, <3>1, TornDownType DEF PxType
  <2> QED
    BY Zenon, <1>1, <1>3, <2>1, <2>2, <2>3, TickerTears
<1> QED
  BY <1>2, <1>3

\* Two updates of the locals are one.
LEMMA SetGenIsSetBoth ==
    ASSUME Inv, NEW n
    PROVE  [loc["ticker"] EXCEPT !.gen = n]
             = [loc["ticker"] EXCEPT !.gen = n, !.why = loc["ticker"].why]
<1>1. loc["ticker"] \in Locals
  BY Zenon, TickerIs DEF Inv, Typed
<1> QED
  BY Zenon, <1>1 DEF Locals

\* The ticker begins to reap a backend that never became warm.
LEMMA ReapWedgedStep == ASSUME Inv, ReapWedgedProbation PROVE Inv'
<1>1. UNCHANGED <<kind, lc, proc, gate, rd, docs>> /\ pc["ticker"] = "probation" /\ px \in PxType
  BY Zenon DEF ReapWedgedProbation, tSame, Inv, Typed
<1>2. \/ Goto("ticker", "ticker") /\ UNCHANGED <<loc, px>>
      \/ /\ ~px.reaping
         /\ px' = [TornDown(px) EXCEPT !.reaping = TRUE,
                      !.severed = IF px.inflight > 0 THEN px.gen ELSE @]
         /\ Set("ticker", [loc["ticker"] EXCEPT !.gen = px.gen + 1])
         /\ Goto("ticker", "reset")
      \/ /\ ~px.reaping /\ px.endpoint = 0
         /\ px' = [px EXCEPT !.reaping = TRUE] /\ Goto("ticker", "orphan") /\ UNCHANGED loc
  BY Zenon DEF ReapWedgedProbation
<1>3. CASE Goto("ticker", "ticker") /\ UNCHANGED <<loc, px>>
  <2>1. pc' = [pc EXCEPT !["ticker"] = pc'["ticker"]] /\ pc'["ticker"] = "ticker"
    BY Zenon, <1>3, Moves, TickerIs
  <2> QED
    BY Zenon, <1>1, <1>3, <2>1, CalmTicker, SamePxHolds DEF Owner, Tearing
<1>4. CASE /\ ~px.reaping /\ px.endpoint = 0
           /\ px' = [px EXCEPT !.reaping = TRUE] /\ Goto("ticker", "orphan") /\ UNCHANGED loc
  <2>1. pc' = [pc EXCEPT !["ticker"] = pc'["ticker"]] /\ pc'["ticker"] = "orphan"
    BY Zenon, <1>4, Moves, TickerIs
  <2>2. /\ loc' = [loc EXCEPT !["ticker"] = loc'["ticker"]] /\ loc'["ticker"] = loc["ticker"]
        /\ loc'["ticker"] \in Locals /\ loc["ticker"].gen <= px.gen
    BY Zenon, <1>4, Stays, TickerIs DEF Inv, GenInv
  <2>3. SameGen /\ px'.reaping
    BY Zenon, <1>1, <1>4 DEF SameGen, PxType
  <2>4. GenSafe("ticker") /\ MailCalm("ticker") /\ LcCalm("ticker")
    BY ZenonT(40), <1>1, <2>1, <2>2, <2>3, TickerIs DEF GenSafe, MailCalm, LcCalm, Holds, Tearing, SameGen
  <2>5. /\ pc' = [q \in Procs |-> pc'[q]] /\ loc' \in [Procs -> Locals]
        /\ \A q \in Procs \ {"ticker"} : pc'[q] = pc[q] /\ GenCalm(q)
        /\ \A q \in Procs : LcCalm(q)
        /\ \A r \in Reqs : DocCalm(r)
    BY SMTT(40), <1>1, <2>1, <2>2, <2>3, <2>4, OnlyMover, TickerIs DEF SameGen
  <2>6. \A q \in Procs : GenSafe(q) /\ MailCalm(q)
    BY Zenon, <2>3, <2>4, <2>5, CalmIsSafe
  <2>7. OwnInv'
    <3>1. \A q \in Downers \ {"ticker"} : ~Owner(q) /\ pc'[q] = pc[q]
      BY Zenon, <1>4, <2>5, ProcNames DEF Inv, OwnInv
    <3>2. \A q \in Downers \ {"ticker"} : ~Owner(q)'
      BY Zenon, <3>1 DEF Owner
    <3> QED
      BY Zenon, <1>4, <2>3, <3>2 DEF OwnInv, SameGen
  <2>8. Typed'
    BY Zenon, <1>1, <2>3, <2>5 DEF Inv, Typed, SameGen
  <2> QED
    BY ZenonT(40), <1>1, <2>3, <2>5, <2>6, <2>7, <2>8, GenFrame, MailFrame, LcFrame, DocFrame, SameDocsHolds DEF Inv
<1>5. CASE /\ ~px.reaping
           /\ px' = [TornDown(px) EXCEPT !.reaping = TRUE,
                        !.severed = IF px.inflight > 0 THEN px.gen ELSE @]
           /\ Set("ticker", [loc["ticker"] EXCEPT !.gen = px.gen + 1])
           /\ Goto("ticker", "reset")
  <2>1. pc' = [pc EXCEPT !["ticker"] = pc'["ticker"]] /\ pc'["ticker"] = "reset"
    BY Zenon, <1>5, Moves, TickerIs
  <2>2. /\ loc' = [loc EXCEPT !["ticker"] = loc'["ticker"]]
        /\ loc'["ticker"] = [loc["ticker"] EXCEPT !.gen = px.gen + 1, !.why = loc["ticker"].why]
    BY Zenon, <1>5, Sets, TickerIs, SetGenIsSetBoth
  <2>3. /\ px' \in PxType /\ px'.gen = px.gen + 1 /\ px'.endpoint = 0 /\ px'.closed = px.closed
        /\ px'.reaping
    BY Zenon, <1>1, <1>5, TornDownType DEF PxType
  <2> QED
    BY Zenon, <1>1, <1>5, <2>1, <2>2, <2>3, TickerTears
<1> QED
  BY Zenon, <1>2, <1>3, <1>4, <1>5

\* The ticker settles the row of an orphan.
LEMMA ReapOrphanStep == ASSUME Inv, ReapOrphan PROVE Inv'
<1>1. /\ UNCHANGED <<kind, lc, proc, gate, rd, docs>> /\ px \in PxType
      /\ pc["ticker"] \in {"unread", "disarm", "free"} /\ Owner("ticker")
  BY Zenon DEF ReapOrphan, tSame, Inv, Typed, Owner
<1>2. px.reaping /\ px.endpoint = 0
  BY Zenon, <1>1, TickerIs DEF Inv, OwnInv
<1>3. CASE pc["ticker"] \in {"unread", "disarm"}
  <2>1. pc' = [pc EXCEPT !["ticker"] = pc'["ticker"]] /\ pc'["ticker"] = "ticker"
    BY Zenon, <1>3, Moves, TickerIs DEF ReapOrphan
  <2>2. loc' = [loc EXCEPT !["ticker"] = loc'["ticker"]] /\ loc'["ticker"] = loc["ticker"]
    BY Zenon, <1>3, Stays, TickerIs DEF ReapOrphan
  <2>3. SameGen /\ ~px'.reaping
    BY Zenon, <1>1, <1>3 DEF ReapOrphan, SameGen, PxType
  <2> QED
    BY Zenon, <1>1, <2>1, <2>2, <2>3, ReleaseStep, TickerIs DEF After
<1>4. CASE pc["ticker"] = "free"
  <2>1. pc' = [pc EXCEPT !["ticker"] = pc'["ticker"]] /\ pc'["ticker"] = "reset"
    BY ZenonT(40), <1>4, Moves, TickerIs DEF ReapOrphan
  <2>2. /\ loc' = [loc EXCEPT !["ticker"] = loc'["ticker"]]
        /\ loc'["ticker"] = [loc["ticker"] EXCEPT !.gen = px.gen + 1, !.why = loc["ticker"].why]
    BY ZenonT(40), <1>4, Sets, TickerIs, SetGenIsSetBoth DEF ReapOrphan
  <2>3. /\ px' \in PxType /\ px'.gen = px.gen + 1 /\ px'.endpoint = 0 /\ px'.closed = px.closed
        /\ px'.reaping
    <3>1. px' = [px EXCEPT !.gen = px.gen + 1, !.marker = FALSE, !.shadow = ""] /\ px.gen \in Nat
      BY Zenon, <1>1, <1>4 DEF ReapOrphan, PxType
    <3>2. px.gen + 1 \in Nat
      BY <3>1
    <3> QED
      BY ZenonT(40), <1>1, <1>2, <3>1, <3>2 DEF PxType
  <2> QED
    BY Zenon, <1>1, <1>4, <2>1, <2>2, <2>3, TickerTears
<1> QED
  BY Zenon, <1>1, <1>3, <1>4

\* Every step of the ticker keeps the invariant.
LEMMA ReapStep == ASSUME Inv, Reap PROVE Inv'
BY Zenon, ReapIdleStep, ReapWedgedStep, TickStep, ReapOrphanStep DEF Reap

-----------------------------------------------------------------------------
(* Flights. *)

\* A flight is a process of its own.
LEMMA FlightIs ==
    ASSUME NEW f \in Flights
    PROVE  f \in Procs /\ f \notin Reqs /\ f \notin Downers /\ f # "worker" /\ f # "stopper"
           /\ f # "ticker" /\ f # 0
BY Zenon, ProcNames DEF Downers

\* A flight that moves outside publications and handshakes.
LEMMA CalmFlight ==
    ASSUME Inv, NEW f \in Flights,
           pc' = [pc EXCEPT ![f] = pc'[f]], loc' = [loc EXCEPT ![f] = loc'[f]],
           loc'[f] \in Locals, loc'[f].gen \in {loc[f].gen, 0},
           loc'[f].why \in Outcomes \cup {"none"},
           pc[f] \notin {"handshake", "kill"},
           pc'[f] \in FlightSteps \ (Raising \cup {"handshake", "kill"}),
           SamePx, gate' \in GateType, UNCHANGED <<kind, lc, proc, rd, docs>>
    PROVE  Inv'
<1>1. GenCalm(f)
  BY Zenon, FlightIs DEF GenCalm
<1>2. LcCalm(f) /\ (f \in Reqs => DocCalm(f))
  BY ZenonT(40), FlightIs DEF LcCalm
<1> QED
  BY Zenon, <1>1, <1>2, CalmStep, SameDocsHolds, FlightIs

\* What a flight that raises a generation holds.
LEMMA FlightHas ==
    ASSUME Inv, NEW f \in Flights
    PROVE  loc[f] \in Locals /\ loc[f].gen \in Nat /\ loc[f].why \in Outcomes \cup {"none"}
           /\ px \in PxType /\ px.gen \in Nat /\ loc[f].gen <= px.gen /\ gate \in GateType
BY Zenon, FlightIs DEF Inv, Typed, GenInv, FlightInv, Locals, PxType

\* The end of a flight, for itself and for those that joined it.
LEMMA DeliverStep ==
    ASSUME Inv, NEW f \in Flights, NEW out \in Outcomes \cup {"none"}, Deliver(f, out),
           Goto(f, "free"), pc[f] \in {"start", "fin"}, gate' \in GateType,
           UNCHANGED <<kind, px, lc, proc, rd, docs>>
    PROVE  Inv'
<1>1. f \in Procs /\ f \notin Reqs /\ f \notin Downers /\ f # "worker" /\ f # "stopper"
  BY Zenon, FlightIs
<1>2. /\ pc' = [q \in Procs |-> pc'[q]] /\ pc'[f] = "free"
      /\ \A q \in Procs \ {f} : pc'[q] = pc[q]
  BY Zenon, <1>1 DEF Inv, Typed, Goto
<1>3. loc'[f] = NoLocals
  BY Zenon, <1>1 DEF Deliver
<1>4. ASSUME NEW q \in Procs \ {f}
      PROVE  /\ loc'[q] \in Locals /\ loc'[q].gen = loc[q].gen /\ loc'[q].host = loc[q].host
             /\ loc'[q].epoch = loc[q].epoch /\ loc'[q].why = loc[q].why
             /\ loc'[q].victim = loc[q].victim
  <2>1. loc[q] \in Locals
    BY Zenon DEF Inv, Typed
  <2>2. loc'[q] = loc[q] \/ loc'[q] = [loc[q] EXCEPT !.res = out]
    BY Zenon DEF Deliver
  <2> QED
    BY Zenon, <2>1, <2>2 DEF Locals
<1>5. loc' \in [Procs -> Locals]
  <2>1. loc' = [q \in Procs |-> loc'[q]]
    BY Zenon DEF Deliver
  <2>2. \A q \in Procs : loc'[q] \in Locals
    BY Zenon, <1>3, <1>4, NoLocalsType
  <2> QED
    BY Zenon, <2>1, <2>2
<1>6. ASSUME NEW q \in Procs PROVE GenCalm(q) /\ LcCalm(q)
  <2>1. CASE q = f
    BY <1>1, <1>2, <1>3, <2>1, NoLocalsType, FlightIs
       DEF GenCalm, LcCalm, FlightSteps, Raising, NoLocals
  <2>2. CASE q # f
    <3>1. pc'[q] = pc[q] /\ px' = px
      BY Zenon, <1>2, <2>2
    <3>2. q \in Flights => pc[q] \in FlightSteps /\ loc[q].why \in Outcomes \cup {"none"}
      BY ZenonT(40) DEF Inv, GenInv, FlightInv
    <3>3. q = "stopper" => pc[q] \in StopperSteps /\ loc[q].why = "none" /\ (pc[q] # "stopper" => px.closed)
      BY Zenon DEF Inv, GenInv
    <3>4. OwnCalm(q)
      BY Zenon, <3>1 DEF OwnCalm, Owner
    <3>5. /\ loc'[q].gen = loc[q].gen /\ loc'[q].host = loc[q].host
          /\ loc'[q].why = loc[q].why /\ loc'[q].victim = loc[q].victim
      BY Zenon, <1>4, <2>2
    <3> QED
      BY Zenon, <3>1, <3>2, <3>3, <3>4, <3>5 DEF GenCalm, LcCalm
  <2> QED
    BY ZenonT(40), <2>1, <2>2
<1>7. \A r \in Reqs : DocCalm(r)
  BY Zenon, <1>1, <1>2, <1>4, ProcNames DEF DocCalm
<1> QED
  BY ZenonT(40), <1>2, <1>5, <1>6, <1>7, AllCalm, SamePxHolds, SameDocsHolds

\* A flight begins.
LEMMA BeginFlightStep == ASSUME Inv, NEW f \in Flights, BeginFlight(f) PROVE Inv'
<1>1. UNCHANGED <<kind, px, lc, proc, rd, docs>> /\ pc[f] = "start" /\ gate \in GateType
  BY Zenon DEF BeginFlight, tSame, Inv, Typed
<1>2. CASE Throttled(gate)
  <2>1. gate' = Leave(gate, f) /\ Deliver(f, gate.failure) /\ Goto(f, "free")
    BY Zenon, <1>2 DEF BeginFlight
  <2>2. gate' \in GateType /\ gate.failure \in Outcomes \cup {"none"}
    BY Zenon, <1>1, <2>1 DEF Leave, GateType, Outcomes
  <2> QED
    BY Zenon, <1>1, <2>1, <2>2, DeliverStep
<1>3. CASE ~Throttled(gate)
  <2>1. pc' = [pc EXCEPT ![f] = pc'[f]] /\ pc'[f] = "check" /\ gate' = Begin(gate) /\ UNCHANGED loc
    BY Zenon, <1>3, Moves, FlightIs DEF BeginFlight
  <2>2. loc' = [loc EXCEPT ![f] = loc'[f]] /\ loc'[f] = loc[f] /\ loc'[f] \in Locals
    BY Zenon, <2>1, Stays, FlightIs
  <2>3. gate' \in GateType
    <3>1. gate.active \in Int
      BY Zenon, <1>1 DEF GateType
    <3>2. gate.active + 1 \in Int
      BY <3>1
    <3> QED
      BY Zenon, <1>1, <2>1, <3>2 DEF Begin, GateType
  <2> QED
    BY Zenon, <1>1, <2>1, <2>2, <2>3, CalmFlight, FlightHas, SamePxHolds DEF FlightSteps, Raising
<1> QED
  BY Zenon, <1>2, <1>3

\* A flight ends and the gate keeps its outcome.
LEMMA EndFlightStep == ASSUME Inv, NEW f \in Flights, EndFlight(f) PROVE Inv'
<1>1. /\ UNCHANGED <<kind, px, lc, proc, rd, docs>> /\ pc[f] = "fin"
      /\ gate' = Settle(gate, f, loc[f].why) /\ Deliver(f, loc[f].why) /\ Goto(f, "free")
  BY Zenon DEF EndFlight, tSame
<1>2. loc[f].why \in Outcomes \cup {"none"} /\ gate \in GateType
  BY Zenon, FlightHas
<1>3. gate' \in GateType
  <2>1. gate.active \in Int
    BY Zenon, <1>2 DEF GateType
  <2>2. gate.active - 1 \in Int
    BY <2>1
  <2>3. Leave(gate, f) \in GateType /\ Leave(gate, f).active = gate.active
    BY Zenon, <1>2 DEF Leave, GateType
  <2> QED
    BY Zenon, <1>1, <1>2, <2>2, <2>3 DEF Settle, GateType, Outcomes
<1> QED
  BY Zenon, <1>1, <1>2, <1>3, DeliverStep

\* The flight finds a live endpoint, or materializes one.
LEMMA CheckLiveStep == ASSUME Inv, NEW f \in Flights, CheckLive(f) PROVE Inv'
<1>1. UNCHANGED <<kind, lc, proc, gate, rd, docs>> /\ pc[f] = "check" /\ gate' \in GateType
  BY Zenon, GateStays DEF CheckLive, tSame
<1>2. pc' = [pc EXCEPT ![f] = pc'[f]] /\ pc'[f] \in {"fin", "materialize"}
  BY Zenon, Moves, FlightIs DEF CheckLive
<1>3. /\ loc' = [loc EXCEPT ![f] = loc'[f]]
      /\ loc'[f] = loc[f] \/ loc'[f] = [loc[f] EXCEPT !.why = "ok"]
  BY Zenon, Sets, Stays, FlightIs DEF CheckLive
<1>4. loc'[f] \in Locals /\ loc'[f].gen = loc[f].gen /\ loc'[f].why \in Outcomes \cup {"none"}
  BY Zenon, <1>3, FlightHas DEF Locals, Outcomes
<1>5. SamePx
  <2>1. px \in PxType
    BY Zenon DEF Inv, Typed
  <2> QED
    BY Zenon, <2>1, ReconcileKeeps DEF CheckLive, SamePx, SameGen
<1> QED
  BY Zenon, <1>1, <1>2, <1>3, <1>4, <1>5, CalmFlight DEF FlightSteps, Raising

\* The flight stamps the row with its outcome.
LEMMA StampFlightStep == ASSUME Inv, NEW f \in Flights, StampFlight(f) PROVE Inv'
<1>1. UNCHANGED <<loc, kind, px, lc, proc, gate, rd, docs>> /\ pc[f] = "bad" /\ gate' \in GateType
  BY Zenon, GateStays DEF StampFlight, tSame
<1>2. pc' = [pc EXCEPT ![f] = pc'[f]] /\ pc'[f] = "fin"
  BY Zenon, Moves, FlightIs DEF StampFlight
<1>3. loc' = [loc EXCEPT ![f] = loc'[f]] /\ loc'[f] = loc[f] /\ loc'[f] \in Locals
  BY Zenon, <1>1, Stays, FlightIs
<1> QED
  BY Zenon, <1>1, <1>2, <1>3, CalmFlight, FlightHas, SamePxHolds DEF FlightSteps, Raising

\* The supervisor did not acknowledge: the flight gives its generation up.
LEMMA AckFailedStep == ASSUME Inv, NEW f \in Flights, AckFailed(f) PROVE Inv'
<1>1. UNCHANGED <<kind, lc, proc, gate, rd, docs>> /\ pc[f] = "unack" /\ gate' \in GateType
  BY Zenon, GateStays DEF AckFailed, tSame
<1>2. pc' = [pc EXCEPT ![f] = pc'[f]] /\ pc'[f] = "swap"
  BY Zenon, Moves, FlightIs DEF AckFailed, DropBackend
<1>3. /\ loc' = [loc EXCEPT ![f] = loc'[f]] /\ loc'[f] = [loc[f] EXCEPT !.why = "error"]
  BY Zenon, Sets, FlightIs DEF AckFailed, DropBackend
<1>4. loc'[f] \in Locals /\ loc'[f].gen = loc[f].gen /\ loc'[f].why \in Outcomes \cup {"none"}
  BY Zenon, <1>3, FlightHas DEF Locals, Outcomes, Failures
<1>5. SamePx
  BY Zenon DEF AckFailed, SamePx, SameGen, Inv, Typed, PxType
<1> QED
  BY Zenon, <1>1, <1>2, <1>3, <1>4, <1>5, CalmFlight DEF FlightSteps, Raising

\* A flight that takes the lifecycle's mutex or gives it back.
LEMMA FlightBackendStep ==
    ASSUME Inv, NEW f \in Flights,
           pc' = [pc EXCEPT ![f] = pc'[f]], loc' = [loc EXCEPT ![f] = loc'[f]],
           loc'[f] \in Locals, loc'[f].gen = loc[f].gen,
           loc'[f].why \in Outcomes \cup {"none"},
           pc[f] # "kill", pc'[f] \in {"handshake", "publish", "bad"},
           lc' \in [mu : Flights \cup {0}, host : Backends \cup {0}],
           proc' \in [Backends -> {"unborn", "up", "dead", "stuck"}],
           lc'.mu # 0 => lc'.host = 0,
           \A g \in Flights : pc'[g] = "handshake" => lc'.mu = g,
           \A b \in Backends : Live(b)' =>
              \/ lc'.host = b
              \/ lc'.mu = f /\ pc'[f] = "handshake" /\ loc'[f].host = b
              \/ \E p \in Procs : pc[p] = "kill" /\ loc[p].victim = b,
           UNCHANGED <<kind, px, gate, rd, docs>>
    PROVE  Inv'
<1>1. f \in Procs /\ f \notin Reqs /\ f \notin Downers /\ f # "worker" /\ f # "stopper" /\ f # "ticker"
  BY Zenon, FlightIs
<1>2. GenCalm(f)
  BY Zenon, <1>1 DEF GenCalm, FlightSteps, Raising
<1>3. \A q \in Procs \ {f} : pc'[q] = pc[q] /\ loc'[q] = loc[q]
  BY <1>1, OnlyMover
<1>4. LcInv'
  <2>1. ASSUME NEW b \in Backends, Live(b)'
        PROVE  \/ lc'.host = b
               \/ \E g \in Flights : lc'.mu = g /\ pc'[g] = "handshake" /\ loc'[g].host = b
               \/ \E p \in Procs : pc'[p] = "kill" /\ loc'[p].victim = b
    <3>1. \/ lc'.host = b
          \/ lc'.mu = f /\ pc'[f] = "handshake" /\ loc'[f].host = b
          \/ \E p \in Procs : pc[p] = "kill" /\ loc[p].victim = b
      BY Zenon, <2>1
    <3> QED
      BY <1>3, <3>1
  <2> QED
    BY Zenon, <2>1 DEF LcInv, NoStrayBackend
<1> QED
  BY Zenon, <1>1, <1>2, <1>4, BackendStep

\* The flight starts a backend under the lifecycle's lock.
LEMMA MaterializeStep == ASSUME Inv, NEW f \in Flights, Materialize(f) PROVE Inv'
<1>1. UNCHANGED <<kind, px, gate, rd, docs>> /\ pc[f] = "materialize" /\ lc.mu = 0 /\ gate' \in GateType
  BY Zenon, GateStays DEF Materialize, tSame
<1>2. /\ lc \in [mu : Flights \cup {0}, host : Backends \cup {0}]
      /\ proc \in [Backends -> {"unborn", "up", "dead", "stuck"}]
  BY DEF Inv, Typed
<1>3. CASE Hosted
  <2>1. pc' = [pc EXCEPT ![f] = pc'[f]] /\ pc'[f] = "publish" /\ UNCHANGED <<lc, proc>>
    BY Zenon, <1>3, Moves, FlightIs DEF Materialize
  <2>2. loc' = [loc EXCEPT ![f] = loc'[f]] /\ loc'[f] = [loc[f] EXCEPT !.host = lc.host]
    BY Zenon, <1>3, Sets, FlightIs DEF Materialize
  <2>3. loc'[f] \in Locals /\ loc'[f].gen = loc[f].gen /\ loc'[f].why \in Outcomes \cup {"none"}
    BY Zenon, <1>2, <2>2, FlightHas DEF Locals
  <2> QED
    BY Zenon, <1>1, <2>1, <2>2, <2>3, CalmFlight, SamePxHolds DEF FlightSteps, Raising
<1>4. CASE ~Hosted /\ UNCHANGED <<lc, proc>> /\ pc'[f] = "bad"
  <2>1. pc' = [pc EXCEPT ![f] = pc'[f]]
    BY Zenon, Moves, FlightIs DEF Materialize
  <2>2. PICK out \in {"missing", "error"} :
          loc' = [loc EXCEPT ![f] = loc'[f]] /\ loc'[f] = [loc[f] EXCEPT !.why = out]
    BY <1>4, Sets, Moves, FlightIs DEF Materialize
  <2>3. loc'[f] \in Locals /\ loc'[f].gen = loc[f].gen /\ loc'[f].why \in Outcomes \cup {"none"}
    BY Zenon, <2>2, FlightHas DEF Locals, Outcomes, Failures
  <2> QED
    BY Zenon, <1>1, <1>4, <2>1, <2>2, <2>3, CalmFlight, SamePxHolds DEF FlightSteps, Raising
<1>5. CASE ~Hosted /\ ~(UNCHANGED <<lc, proc>> /\ pc'[f] = "bad")
  <2>1. PICK b \in Backends :
          /\ proc' = [proc EXCEPT ![b] = "up"] /\ Set(f, [loc[f] EXCEPT !.host = b])
          /\ lc' = [lc EXCEPT !.mu = f] /\ Goto(f, "handshake")
    BY Zenon, <1>5, Moves, FlightIs DEF Materialize
  <2>2. pc' = [pc EXCEPT ![f] = pc'[f]] /\ pc'[f] = "handshake"
    BY Zenon, <2>1, Moves, FlightIs
  <2>3. loc' = [loc EXCEPT ![f] = loc'[f]] /\ loc'[f] = [loc[f] EXCEPT !.host = b]
    BY Zenon, <2>1, Sets, FlightIs
  <2>4. /\ loc'[f] \in Locals /\ loc'[f].gen = loc[f].gen /\ loc'[f].host = b
        /\ loc'[f].why \in Outcomes \cup {"none"}
    BY Zenon, <2>3, FlightHas DEF Locals
  <2>5. /\ lc' \in [mu : Flights \cup {0}, host : Backends \cup {0}] /\ lc'.mu = f /\ lc'.host = 0
        /\ proc' \in [Backends -> {"unborn", "up", "dead", "stuck"}]
    BY Zenon, <1>2, <1>5, <2>1 DEF Hosted
  <2>6. \A g \in Flights : pc[g] # "handshake" /\ g \in Procs
    BY Zenon, <1>1, FlightIs DEF Inv, LcInv
  <2>7. \A g \in Flights : pc'[g] = "handshake" => lc'.mu = g
    BY <2>2, <2>3, <2>4, <2>5, <2>6, OnlyMover, FlightIs
  <2>8. ASSUME NEW c \in Backends, Live(c)', c # b
        PROVE  \E p \in Procs : pc[p] = "kill" /\ loc[p].victim = c
    <3>1. Live(c) /\ lc.host # c
      BY Zenon, <1>2, <1>5, <2>1, <2>8, LazyAssumption DEF Live, Hosted
    <3> QED
      BY Zenon, <2>6, <3>1 DEF Inv, LcInv, NoStrayBackend
  <2>9. \A c \in Backends : Live(c)' =>
          \/ lc'.host = c
          \/ lc'.mu = f /\ pc'[f] = "handshake" /\ loc'[f].host = c
          \/ \E p \in Procs : pc[p] = "kill" /\ loc[p].victim = c
    BY Zenon, <2>2, <2>4, <2>5, <2>8
  <2>10. lc'.mu # 0 => lc'.host = 0
    BY Zenon, <2>5
  <2> QED
    BY Zenon, <1>1, <2>2, <2>3, <2>4, <2>5, <2>7, <2>9, <2>10, FlightBackendStep
<1> QED
  BY Zenon, <1>3, <1>4, <1>5

\* The backend answers the handshake, or is stopped.
LEMMA HandshakeStep == ASSUME Inv, NEW f \in Flights, Handshake(f) PROVE Inv'
<1>1. UNCHANGED <<kind, px, gate, rd, docs>> /\ pc[f] = "handshake"
  BY Zenon DEF Handshake, tSame
<1>2. /\ lc \in [mu : Flights \cup {0}, host : Backends \cup {0}]
      /\ proc \in [Backends -> {"unborn", "up", "dead", "stuck"}]
      /\ lc.mu = f /\ lc.host = 0 /\ f # 0
      /\ \A g \in Flights \ {f} : pc[g] # "handshake" /\ g \in Procs
  BY Zenon, <1>1, FlightIs DEF Inv, Typed, LcInv
<1>3. pc' = [pc EXCEPT ![f] = pc'[f]] /\ pc'[f] \in {"publish", "bad"}
  BY Zenon, Moves, FlightIs DEF Handshake
<1>4. /\ loc' = [loc EXCEPT ![f] = loc'[f]]
      /\ loc'[f] = loc[f] \/ loc'[f] = [loc[f] EXCEPT !.why = "error"]
  BY Zenon, Sets, Stays, FlightIs DEF Handshake
<1>5. loc'[f] \in Locals /\ loc'[f].gen = loc[f].gen /\ loc'[f].why \in Outcomes \cup {"none"}
  BY Zenon, <1>4, FlightHas DEF Locals, Outcomes, Failures
<1>6. loc[f].host \in Backends \cup {0}
  BY Zenon, FlightHas DEF Locals
<1>7. /\ lc' \in [mu : Flights \cup {0}, host : Backends \cup {0}] /\ lc'.mu = 0
      /\ \/ lc'.host = loc[f].host /\ UNCHANGED proc
         \/ lc'.host = 0 /\ proc' = [proc EXCEPT ![loc[f].host] = "dead"]
  BY <1>2, <1>6 DEF Handshake
<1>8. /\ proc' \in [Backends -> {"unborn", "up", "dead", "stuck"}]
      /\ \A c \in Backends : Live(c)' => Live(c) /\ (c = loc[f].host => lc'.host = c)
  BY Zenon, <1>2, <1>7 DEF Live
<1>9. \A g \in Flights : pc'[g] # "handshake"
  BY SMTT(40), <1>2, <1>3, <1>4, <1>5, OnlyMover, FlightIs
<1>10. ASSUME NEW c \in Backends, Live(c)'
       PROVE  lc'.host = c \/ \E p \in Procs : pc[p] = "kill" /\ loc[p].victim = c
  <2>1. Live(c) /\ (c = loc[f].host => lc'.host = c) /\ c # 0
    BY Zenon, <1>8, <1>10, LazyAssumption
  <2> QED
    BY Zenon, <1>2, <2>1 DEF Inv, LcInv, NoStrayBackend
<1> QED
  BY Zenon, <1>1, <1>3, <1>4, <1>5, <1>7, <1>8, <1>9, <1>10, FlightBackendStep
=============================================================================
