-------------------------- MODULE LazyProxyProofs --------------------------
(***************************************************************************)
(* The safety properties of LazyProxy, for any number of requests, flights *)
(* and backends: the publications of flights and the steps of the          *)
(* readiness worker, of Stop and of the environment keep the invariant of  *)
(* LazyStepProofs, and the properties follow from it.  Last, the registry  *)
(* row where its writes succeed.                                           *)
(***************************************************************************)
EXTENDS LazyStepProofs

-----------------------------------------------------------------------------
(* Flights with a backend to publish. *)

\* The flight opens the generation of its backend.
LEMMA OpenGenerationStep == ASSUME Inv, NEW f \in Flights, OpenGeneration(f) PROVE Inv'
<1>1. UNCHANGED <<kind, lc, proc, gate, rd, docs>> /\ pc[f] = "publish" /\ gate' \in GateType
  BY GateStays DEF OpenGeneration, tSame
<1>2. px \in PxType /\ px.gen \in Nat /\ loc[f] \in Locals
  BY FlightHas
<1>3. CASE px.closed \/ px.reaping \/ px.endpoint # 0
  <2>1. /\ pc' = [pc EXCEPT ![f] = pc'[f]] /\ pc'[f] \in {"swap", "fin"}
    BY Zenon, <1>3, Moves, FlightIs DEF OpenGeneration, DropBackend
  <2>2. /\ loc' = [loc EXCEPT ![f] = loc'[f]]
        /\ \E w \in {"unpublishable", "ok"} : loc'[f] = [loc[f] EXCEPT !.why = w]
    BY Zenon, <1>3, Sets, FlightIs DEF OpenGeneration, DropBackend
  <2>3. loc'[f] \in Locals /\ loc'[f].gen = loc[f].gen /\ loc'[f].why \in Outcomes \cup {"none"}
    BY Zenon, <1>2, <2>2 DEF Locals, Outcomes, Failures
  <2>4. SamePx
    BY Zenon, <1>2, <1>3 DEF OpenGeneration, SamePx, SameGen, PxType
  <2> QED
    BY Zenon, <1>1, <2>1, <2>2, <2>3, <2>4, CalmFlight DEF FlightSteps, Raising
<1>4. CASE ~(px.closed \/ px.reaping \/ px.endpoint # 0)
  <2>1. /\ pc' = [pc EXCEPT ![f] = pc'[f]] /\ pc'[f] = "post"
        /\ px' = [px EXCEPT !.gen = @ + 1, !.shadow = "", !.warmed = FALSE]
    BY Zenon, <1>4, Moves, FlightIs DEF OpenGeneration
  <2>2. loc' = [loc EXCEPT ![f] = loc'[f]] /\ loc'[f] = [loc[f] EXCEPT !.gen = px.gen + 1]
    BY Zenon, <1>4, Sets, FlightIs DEF OpenGeneration
  <2>3. px.gen + 1 \in Nat
    BY <1>2
  <2>4. /\ loc'[f] \in Locals /\ loc'[f].gen = px.gen + 1 /\ loc'[f].epoch = loc[f].epoch
        /\ loc'[f].why \in Outcomes \cup {"none"}
    BY Zenon, <2>2, <2>3, FlightHas DEF Locals
  <2>5. /\ px' \in PxType /\ px'.gen = px.gen + 1 /\ px'.endpoint = 0
        /\ px'.closed = px.closed /\ px'.reaping = px.reaping
    BY Zenon, <1>2, <1>4, <2>1, <2>3 DEF PxType
  <2> QED
    BY Zenon, <1>1, <2>1, <2>2, <2>4, <2>5, NewGenStep, FlightIs
<1> QED
  BY Zenon, <1>3, <1>4

\* The flight posts that its generation is starting.
LEMMA PostStartingStep == ASSUME Inv, NEW f \in Flights, PostStarting(f) PROVE Inv'
<1> DEFINE k == Starting(loc[f].gen, loc[f].host)
<1>1. UNCHANGED <<loc, kind, px, lc, proc, gate, docs>> /\ pc[f] = "post" /\ rd' = Publish(rd, k)
  BY DEF PostStarting, tSame
<1>2. pc' = [pc EXCEPT ![f] = pc'[f]] /\ pc'[f] = IF rd.closed THEN "unack" ELSE "ack"
  BY Zenon, Moves, FlightIs DEF PostStarting
<1>3. loc' = [loc EXCEPT ![f] = loc'[f]] /\ loc'[f] = loc[f] /\ loc'[f] \in Locals
  BY Zenon, <1>1, Stays, FlightIs
<1>4. /\ f \in Procs /\ f \notin Reqs /\ f \notin Downers /\ f # "worker" /\ f # "stopper" /\ f # "ticker"
      /\ px' = px /\ kind' = kind
  BY Zenon, <1>1, FlightIs
<1>5. /\ pc' = [q \in Procs |-> pc'[q]] /\ loc' \in [Procs -> Locals]
      /\ \A q \in Procs \ {f} : GenCalm(q)
      /\ LcCalm(f) => \A q \in Procs : LcCalm(q)
      /\ \A r \in Reqs : DocCalm(r)
  <2>1. /\ pc' = [q \in Procs |-> pc'[q]] /\ loc' \in [Procs -> Locals]
        /\ (px.closed => px'.closed) => \A q \in Procs \ {f} : GenCalm(q)
        /\ LcCalm(f) => \A q \in Procs : LcCalm(q)
        /\ (f \in Reqs => DocCalm(f)) /\ UNCHANGED kind => \A r \in Reqs : DocCalm(r)
    BY <1>2, <1>3, <1>4, OnlyMover
  <2> QED
    BY Zenon, <1>4, <2>1
<1>6. SameGen /\ SamePx
  BY Zenon, <1>4, SamePxHolds
<1>7. FlightInv(f) /\ AckInv(f) /\ loc[f].gen \in Nat /\ loc[f].gen <= px.gen /\ px.gen \in Nat
  BY Zenon, FlightHas DEF Inv, GenInv, MailInv
<1>8. GenSafe(f) /\ OwnCalm(f) /\ LcCalm(f)
  <2>1. loc[f].why \in Outcomes \cup {"none"} /\ loc'[f].gen <= px'.gen
    BY Zenon, <1>3, <1>4, <1>7 DEF FlightInv
  <2> QED
    BY Zenon, <1>1, <1>2, <1>3, <1>4, <2>1
       DEF GenSafe, OwnCalm, LcCalm, FlightSteps, Raising
<1>9. /\ \A q \in Procs : GenSafe(q) /\ OwnCalm(q)
      /\ \A q \in Procs \ {f} : MailCalm(q)
  BY Zenon, <1>5, <1>6, <1>8, CalmIsSafe
<1>10. k \in Keys /\ k.epoch = loc[f].gen /\ k.rank = 1 /\ KeyInv(k)
  <2>1. loc[f].host \in Nat
    <3>1. loc[f] \in Locals
      BY Zenon, FlightHas
    <3>2. loc[f].host \in Backends \cup {0}
      BY Zenon, <3>1 DEF Locals
    <3>3. Backends \subseteq Nat
      BY LazyAssumption
    <3>4. \A b \in Backends \cup {0} : b \in Nat
      BY <3>3
    <3> QED
      BY Zenon, <3>2, <3>4
  <2>2. k \in Keys /\ k.epoch = loc[f].gen /\ k.rank = 1
    BY <1>7, <2>1 DEF Starting, Keys
  <2> QED
    BY <1>7, <2>2 DEF KeyInv
<1>11. /\ rd' \in Publishers /\ MailKeys' \subseteq MailKeys \cup {k}
       /\ \A j \in MailKeys' : KeyInv(j)'
       /\ \A g \in Flights \ {f} : AckInv(g)'
       /\ px'.endpoint # 0 => rd'.tracker.epoch = px'.gen
       /\ rd'.busy # NoKey => pc'["worker"] = "sending"
       /\ rd'.closed => px'.closed
  <2>1. MailCalm("worker") /\ \A g \in Flights \ {f} : MailCalm(g)
    BY Zenon, <1>4, <1>9, ProcNames
  <2>2. \A g \in Flights \ {f} : pc[g] \in Raising => k.epoch # loc[g].gen
    BY Zenon, <1>1, <1>7, <1>10 DEF FlightInv, Raising
  <2>3. {f} \in SUBSET Flights /\ k.rank # 0
    BY <1>10
  <2> HIDE DEF k
  <2> QED
    BY Zenon, <1>1, <1>6, <1>10, <2>1, <2>2, <2>3, PublishKeeps
<1>12. AckInv(f)'
  <2>1. \A j \in MailKeys : j.epoch # loc[f].gen
    BY Zenon, <1>1, <1>7 DEF AckInv, Raising
  <2>2. \A j \in MailKeys' : j.epoch = loc'[f].gen => j.rank = 1
    BY Zenon, <1>3, <1>10, <1>11, <2>1
  <2>3. ASSUME pc'[f] = "ack", loc'[f].gen = px'.gen, ~px'.closed
        PROVE  rd'.latest.epoch = px'.gen /\ rd'.pending.epoch = px'.gen
    <3>1. ~rd.closed /\ loc[f].gen = px.gen /\ rd \in Publishers
      BY Zenon, <1>3, <1>4, <2>3 DEF Inv, MailInv, Typed
    <3>2. rd.latest \in Keys /\ rd.latest.epoch \in Nat /\ rd.latest.epoch # px.gen /\ rd.latest.epoch <= px.gen
      BY Zenon, <2>1, <3>1 DEF Publishers, Keys, MailKeys, Inv, MailInv, KeyInv
    <3>3. ~Below(k, rd.latest) /\ ~Same(k, rd.latest)
      BY <1>7, <1>10, <3>1, <3>2 DEF Below, Same
    <3>4. rd' = [rd EXCEPT !.latest = k, !.pending = k]
      BY Zenon, <1>1, <3>1, <3>3 DEF Publish
    <3>5. rd'.latest = k /\ rd'.pending = k
      BY Zenon, <3>1, <3>4 DEF Publishers
    <3> QED
      BY Zenon, <1>4, <1>10, <3>1, <3>5
  <2> QED
    BY Zenon, <1>2, <2>2, <2>3 DEF AckInv
<1>13. MailInv' /\ Typed'
  BY Zenon, <1>1, <1>5, <1>11, <1>12 DEF MailInv, Typed, Inv
<1> QED
  BY <1>1, <1>5, <1>6, <1>8, <1>9, <1>13, GenFrame, OwnFrame, LcFrame, DocFrame, SameDocsHolds DEF Inv

\* A flight that goes on with its publication, or gives it up, and changes
\* nothing else.
LEMMA AwaitAckStep == ASSUME Inv, NEW f \in Flights, AwaitAck(f) PROVE Inv'
<1>1. UNCHANGED <<loc, kind, px, lc, proc, gate, rd, docs>> /\ pc[f] = "ack" /\ gate' \in GateType
  BY Zenon, GateStays DEF AwaitAck, tSame
<1>2. pc' = [pc EXCEPT ![f] = pc'[f]] /\ pc'[f] \in {"unack", "expose"}
  BY Zenon, Moves, FlightIs DEF AwaitAck
<1>3. loc' = [loc EXCEPT ![f] = loc'[f]] /\ loc'[f] = loc[f] /\ loc'[f] \in Locals
  BY Zenon, <1>1, Stays, FlightIs
<1>4. CASE pc'[f] = "unack"
  BY Zenon, <1>1, <1>2, <1>3, <1>4, CalmFlight, FlightHas, SamePxHolds DEF FlightSteps, Raising
<1>5. CASE pc'[f] = "expose"
  <2>1. /\ f \in Procs /\ f \notin Reqs /\ f \notin Downers /\ f # "worker" /\ f # "stopper" /\ f # "ticker"
        /\ px' = px /\ kind' = kind
    BY Zenon, <1>1, FlightIs
  <2>2. /\ pc' = [q \in Procs |-> pc'[q]] /\ loc' \in [Procs -> Locals]
        /\ \A q \in Procs \ {f} : GenCalm(q)
        /\ LcCalm(f) => \A q \in Procs : LcCalm(q)
        /\ \A r \in Reqs : DocCalm(r)
    <3>1. /\ pc' = [q \in Procs |-> pc'[q]] /\ loc' \in [Procs -> Locals]
          /\ (px.closed => px'.closed) => \A q \in Procs \ {f} : GenCalm(q)
          /\ LcCalm(f) => \A q \in Procs : LcCalm(q)
          /\ (f \in Reqs => DocCalm(f)) /\ UNCHANGED kind => \A r \in Reqs : DocCalm(r)
      BY <1>2, <1>3, <2>1, OnlyMover
    <3> QED
      BY <2>1, <3>1
  <2>3. SameGen /\ SamePx
    BY Zenon, <2>1, SamePxHolds
  <2>4. FlightInv(f) /\ AckInv(f) /\ loc[f].gen <= px.gen
    BY Zenon, FlightHas DEF Inv, GenInv, MailInv
  <2>5. GenSafe(f) /\ OwnCalm(f) /\ LcCalm(f)
    <3>1. loc[f].why \in Outcomes \cup {"none"} /\ loc'[f].gen <= px'.gen
      BY Zenon, <1>3, <2>1, <2>4 DEF FlightInv
    <3> QED
      BY Zenon, <1>1, <1>3, <1>5, <2>1, <3>1 DEF GenSafe, OwnCalm, LcCalm, FlightSteps, Raising
  <2>6. /\ \A q \in Procs : GenSafe(q) /\ OwnCalm(q)
        /\ \A q \in Procs \ {f} : MailCalm(q)
    BY Zenon, <2>2, <2>3, <2>5, CalmIsSafe
  <2>7. MailKeys' = MailKeys /\ rd' = rd
    BY Zenon, <1>1 DEF MailKeys
  <2>8. AckInv(f)'
    <3>1. \A j \in MailKeys' : j.epoch = loc'[f].gen => j.rank = 1
      BY Zenon, <1>1, <1>3, <2>4, <2>7 DEF AckInv, Raising
    <3>2. ASSUME loc[f].gen = px.gen, ~px.closed PROVE rd.tracker.epoch = px.gen
      <4>1. /\ \/ \E j \in {rd.pending, rd.busy} : j.epoch = px.gen
               \/ px.gen \in rd.failed \/ rd.tracker.epoch = px.gen
        BY Zenon, <1>1, <2>4, <3>2 DEF AckInv
      <4>2. /\ Settled(rd, Starting(loc[f].gen, loc[f].host)) /\ px.gen \notin rd.failed
        BY <1>5, <3>2, Moves, FlightIs DEF AwaitAck, Inv, MailInv
      <4>3. rd.pending \in MailKeys /\ rd.busy \in MailKeys
        BY DEF MailKeys
      <4>4. \A j \in {rd.pending, rd.busy} : j.epoch # px.gen
        BY Zenon, <1>3, <2>7, <3>1, <3>2, <4>2, <4>3 DEF Settled, Same, Starting
      <4> QED
        BY Zenon, <4>1, <4>2, <4>4
    <3> QED
      BY Zenon, <1>3, <1>5, <2>1, <2>7, <3>1, <3>2 DEF AckInv
  <2>9. MailInv'
    <3>1. \A j \in MailKeys' : KeyInv(j)'
      BY Zenon, <2>1, <2>7 DEF Inv, MailInv, KeyInv
    <3>2. ASSUME NEW g \in Flights PROVE AckInv(g)'
      <4>1. CASE g = f
        BY Zenon, <2>8, <4>1
      <4>2. CASE g # f
        <5>1. AckInv(g) /\ MailCalm(g)
          BY Zenon, <2>6, <4>2, FlightIs DEF Inv, MailInv
        <5>2. CASE pc'[g] \notin Raising
          BY Zenon, <5>2 DEF AckInv, Raising
        <5>3. CASE pc'[g] \in Raising
          BY Zenon, <2>1, <2>7, <5>1, <5>3 DEF AckInv, MailCalm
        <5> QED
          BY Zenon, <5>2, <5>3
      <4> QED
        BY Zenon, <4>1, <4>2
    <3>3. /\ px'.endpoint # 0 => rd'.tracker.epoch = px'.gen
          /\ rd'.busy # NoKey => pc'["worker"] = "sending"
          /\ rd'.closed => px'.closed
      BY Zenon, <2>1, <2>6, <2>7, ProcNames DEF Inv, MailInv, MailCalm
    <3> QED
      BY Zenon, <3>1, <3>2, <3>3 DEF MailInv
  <2>10. Typed'
    BY Zenon, <1>1, <2>2 DEF Inv, Typed
  <2> QED
    BY ZenonT(40), <1>1, <2>2, <2>3, <2>5, <2>6, <2>9, <2>10, GenFrame, OwnFrame, LcFrame, DocFrame, SameDocsHolds DEF Inv
<1> QED
  BY Zenon, <1>2, <1>4, <1>5

\* The flight publishes the endpoint if its generation is still current.
LEMMA ExposeEndpointStep == ASSUME Inv, NEW f \in Flights, ExposeEndpoint(f) PROVE Inv'
<1>1. UNCHANGED <<kind, lc, proc, gate, rd, docs>> /\ pc[f] = "expose" /\ gate' \in GateType
  BY Zenon, GateStays DEF ExposeEndpoint, tSame
<1>2. px \in PxType /\ px.gen \in Nat /\ loc[f] \in Locals
  BY FlightHas
<1>3. CASE Overtaken(f)
  <2>1. /\ pc' = [pc EXCEPT ![f] = pc'[f]] /\ pc'[f] = "swap"
        /\ loc' = [loc EXCEPT ![f] = loc'[f]] /\ loc'[f] = [loc[f] EXCEPT !.why = "unpublishable"]
        /\ px' = [px EXCEPT !.marker = FALSE]
    BY Zenon, <1>3, Moves, Sets, FlightIs DEF ExposeEndpoint, DropBackend
  <2>2. loc'[f] \in Locals /\ loc'[f].gen = loc[f].gen /\ loc'[f].why \in Outcomes \cup {"none"}
    BY Zenon, <1>2, <2>1 DEF Locals, Outcomes, Failures
  <2>3. SamePx
    BY Zenon, <1>2, <2>1 DEF SamePx, SameGen, PxType
  <2> QED
    BY Zenon, <1>1, <2>1, <2>2, <2>3, CalmFlight DEF FlightSteps, Raising
<1>4. CASE ~Overtaken(f)
  <2>1. px.endpoint = 0 /\ ~px.closed /\ ~px.reaping /\ loc[f].gen = px.gen
    BY Zenon, <1>4 DEF Overtaken
  <2>2. /\ pc' = [pc EXCEPT ![f] = pc'[f]] /\ pc'[f] = "fin"
        /\ loc' = [loc EXCEPT ![f] = loc'[f]] /\ loc'[f] = [loc[f] EXCEPT !.why = "ok"]
    BY Zenon, <1>4, Moves, Sets, FlightIs DEF ExposeEndpoint
  <2>3. /\ loc'[f] \in Locals /\ loc'[f].gen = loc[f].gen /\ loc'[f].why \in Outcomes \cup {"none"}
        /\ loc'[f].why = "ok"
    BY Zenon, <1>2, <2>2 DEF Locals, Outcomes
  <2>4. /\ px' \in PxType /\ px'.endpoint = loc[f].host /\ px'.gen = px.gen
        /\ px'.warmed = px.warmed /\ px'.closed = px.closed /\ px'.reaping = px.reaping
    <3>1. loc[f].host \in Backends \cup {0}
      BY Zenon, <1>2 DEF Locals
    <3>2. [px EXCEPT !.endpoint = loc[f].host, !.marker = FALSE] \in PxType
      BY Zenon, <1>2, <3>1 DEF PxType
    <3>3. ReconcileTo([px EXCEPT !.endpoint = loc[f].host, !.marker = FALSE])
      BY Zenon, <1>4 DEF ExposeEndpoint
    <3> QED
      BY Zenon, <1>2, <3>2, <3>3, ReconcileKeeps DEF PxType
  <2>5. /\ pc' = [q \in Procs |-> pc'[q]] /\ loc' \in [Procs -> Locals]
        /\ \A q \in Procs \ {f} : pc'[q] = pc[q] /\ loc'[q] = loc[q]
        /\ \A q \in Procs : LcCalm(q)
        /\ \A r \in Reqs : DocCalm(r)
    <3>1. LcCalm(f) /\ f \in Procs /\ (f \in Reqs => DocCalm(f)) /\ kind' = kind
      BY Zenon, <1>1, <2>2, FlightIs DEF LcCalm
    <3>2. /\ pc' = [q \in Procs |-> pc'[q]] /\ loc' \in [Procs -> Locals]
          /\ \A q \in Procs \ {f} : pc'[q] = pc[q] /\ loc'[q] = loc[q]
          /\ LcCalm(f) => \A q \in Procs : LcCalm(q)
          /\ (f \in Reqs => DocCalm(f)) /\ UNCHANGED kind => \A r \in Reqs : DocCalm(r)
      BY <2>2, <2>3, <3>1, OnlyMover
    <3> QED
      BY Zenon, <3>1, <3>2
  <2>6. FlightInv(f) /\ AckInv(f) /\ f \notin Reqs /\ f \notin Downers /\ f # "stopper" /\ f # "worker"
    BY Zenon, FlightIs DEF Inv, GenInv, MailInv
  <2>7. GenInv'
    <3>1. ASSUME NEW q \in Procs PROVE loc'[q].gen <= px'.gen
      <4>1. loc[q].gen <= px.gen /\ loc'[q].gen = loc[q].gen
        BY Zenon, <2>3, <2>5 DEF Inv, GenInv
      <4> QED
        BY Zenon, <2>4, <4>1
    <3>2. ASSUME NEW r \in Reqs PROVE ReqInv(r)'
      <4>1. ReqInv(r) /\ pc'[r] = pc[r] /\ loc'[r] = loc[r]
        BY Zenon, <2>5, <2>6, ProcNames DEF Inv, GenInv
      <4> QED
        BY Zenon, <2>1, <2>4, <4>1 DEF ReqInv
    <3>3. ASSUME NEW g \in Flights PROVE FlightInv(g)'
      <4>1. CASE g = f
        BY Zenon, <2>2, <2>3, <4>1 DEF FlightInv, FlightSteps, Raising
      <4>2. CASE g # f
        <5>1. FlightInv(g) /\ pc'[g] = pc[g] /\ loc'[g] = loc[g]
          BY Zenon, <2>5, <4>2, FlightIs DEF Inv, GenInv
        <5>2. pc[g] \in Raising => loc[g].gen # px.gen
          BY Zenon, <1>1, <2>1, <2>6, <4>2 DEF FlightInv, Raising
        <5>3. \A h \in Flights : pc'[h] \in Raising => pc[h] \in Raising /\ loc'[h].gen = loc[h].gen
          BY Zenon, <2>2, <2>5, FlightIs DEF Raising
        <5>4. \A q \in Downers : (Holds(q)' <=> Holds(q)) /\ loc'[q] = loc[q]
          BY Zenon, <2>5, <2>6, ProcNames DEF Holds
        <5> QED
          BY Zenon, <2>4, <5>1, <5>2, <5>3, <5>4 DEF FlightInv
      <4> QED
        BY <4>1, <4>2
    <3>4. px'.gen # 0
      BY Zenon, <1>1, <2>1, <2>4, <2>6 DEF FlightInv, Raising
    <3>5. /\ pc'["stopper"] \in StopperSteps /\ loc'["stopper"].why = "none"
          /\ pc'["stopper"] # "stopper" => px'.closed
      BY Zenon, <2>4, <2>5, <2>6, ProcNames DEF Inv, GenInv
    <3> QED
      BY Zenon, <3>1, <3>2, <3>3, <3>4, <3>5 DEF GenInv
  <2>8. MailInv'
    <3>1. MailKeys' = MailKeys /\ rd' = rd
      BY Zenon, <1>1 DEF MailKeys
    <3>2. ASSUME NEW j \in MailKeys' PROVE KeyInv(j)'
      <4>1. KeyInv(j) /\ (j.epoch = px.gen => j.rank = 1)
        BY ZenonT(40), <1>1, <2>1, <2>6, <3>1, <3>2 DEF Inv, MailInv, AckInv, Raising
      <4> QED
        BY <2>4, <4>1 DEF KeyInv
    <3>3. ASSUME NEW g \in Flights PROVE AckInv(g)'
      <4>1. CASE g = f
        BY Zenon, <2>2, <4>1 DEF AckInv, Raising
      <4>2. CASE g # f
        <5>1. AckInv(g) /\ pc'[g] = pc[g] /\ loc'[g] = loc[g]
          BY Zenon, <2>5, <4>2, FlightIs DEF Inv, MailInv
        <5> QED
          BY Zenon, <2>4, <3>1, <5>1 DEF AckInv
      <4> QED
        BY <4>1, <4>2
    <3>4. rd'.tracker.epoch = px'.gen
      BY Zenon, <1>1, <2>1, <2>4, <2>6, <3>1 DEF AckInv
    <3>5. /\ rd'.busy # NoKey => pc'["worker"] = "sending"
          /\ rd'.closed => px'.closed
      BY Zenon, <2>4, <2>5, <2>6, <3>1, ProcNames DEF Inv, MailInv
    <3> QED
      BY Zenon, <3>2, <3>3, <3>4, <3>5 DEF MailInv
  <2>9. OwnInv'
    <3>1. \A q \in Downers : Owner(q)' <=> Owner(q)
      BY Zenon, <2>5, <2>6, ProcNames DEF Owner
    <3> QED
      BY Zenon, <2>1, <2>4, <3>1 DEF Inv, OwnInv
  <2>10. Typed'
    BY Zenon, <1>1, <2>4, <2>5 DEF Inv, Typed
  <2> QED
    BY Zenon, <1>1, <2>5, <2>7, <2>8, <2>9, <2>10, LcFrame, DocFrame, SameDocsHolds DEF Inv
<1> QED
  BY Zenon, <1>3, <1>4

\* Every step of a flight keeps the invariant.
LEMMA FlightStep == ASSUME Inv, NEW f \in Flights, Flight(f) PROVE Inv'
BY ZenonT(40), BeginFlightStep, CheckLiveStep, MaterializeStep, HandshakeStep, StampFlightStep,
   OpenGenerationStep, PostStartingStep, AwaitAckStep, AckFailedStep, ExposeEndpointStep,
   EndFlightStep DEF Flight

-----------------------------------------------------------------------------
(* The readiness worker, Stop and the environment. *)

\* A step that moves no flight and adds no state to the mailbox.
LEMMA MailboxStep ==
    ASSUME Inv, NEW p \in Procs, p \notin Flights \cup Reqs,
           pc' = [pc EXCEPT ![p] = pc'[p]], loc' = [loc EXCEPT ![p] = loc'[p]],
           loc'[p] \in Locals, GenSafe(p), OwnCalm(p), LcCalm(p),
           UNCHANGED <<kind, px, lc, proc, gate, docs>>,
           rd' \in Publishers, MailKeys' \subseteq MailKeys \cup {NoKey},
           rd.tracker.epoch = px.gen => rd'.tracker.epoch = px.gen,
           rd'.busy # NoKey => pc'["worker"] = "sending",
           rd'.closed => px.closed,
           \A f \in Flights : pc[f] = "ack" /\ loc[f].gen = px.gen /\ ~px.closed =>
              /\ rd'.latest.epoch = px.gen
              /\ \/ \E k \in {rd'.pending, rd'.busy} : k.epoch = px.gen
                 \/ px.gen \in rd'.failed \/ rd'.tracker.epoch = px.gen
    PROVE  Inv'
<1>1. px' = px /\ kind' = kind /\ px.gen \in Nat /\ NoKey.epoch = 0 /\ NoKey.rank = 0
  BY Zenon DEF Inv, Typed, PxType, NoKey
<1>2. /\ pc' = [q \in Procs |-> pc'[q]] /\ loc' \in [Procs -> Locals]
      /\ \A q \in Procs \ {p} : pc'[q] = pc[q] /\ loc'[q] = loc[q] /\ GenCalm(q)
      /\ \A q \in Procs : LcCalm(q)
      /\ \A r \in Reqs : DocCalm(r)
  <2>1. /\ pc' = [q \in Procs |-> pc'[q]] /\ loc' \in [Procs -> Locals]
        /\ \A q \in Procs \ {p} : pc'[q] = pc[q] /\ loc'[q] = loc[q]
        /\ (px.closed => px'.closed) => \A q \in Procs \ {p} : GenCalm(q)
        /\ LcCalm(p) => \A q \in Procs : LcCalm(q)
        /\ (p \in Reqs => DocCalm(p)) /\ UNCHANGED kind => \A r \in Reqs : DocCalm(r)
    BY <1>1, OnlyMover
  <2> QED
    BY Zenon, <1>1, <2>1
<1>3. SameGen /\ SamePx
  BY <1>1, SamePxHolds
<1>4. \A q \in Procs : GenSafe(q) /\ OwnCalm(q)
  BY Zenon, <1>2, <1>3, CalmIsSafe
<1>5. ASSUME NEW j \in MailKeys' PROVE KeyInv(j)'
  <2>1. CASE j \in MailKeys
    BY Zenon, <1>1, <2>1 DEF Inv, MailInv, KeyInv
  <2>2. CASE j = NoKey
    BY <1>1, <2>2 DEF KeyInv
  <2> QED
    BY Zenon, <1>5, <2>1, <2>2
<1>6. ASSUME NEW f \in Flights PROVE AckInv(f)'
  <2>1. AckInv(f) /\ FlightInv(f) /\ pc'[f] = pc[f] /\ loc'[f] = loc[f]
    BY Zenon, <1>2, FlightIs DEF Inv, MailInv, GenInv
  <2>2. pc'[f] \in Raising => \A j \in MailKeys' : j.epoch = loc'[f].gen => pc'[f] # "post" /\ j.rank = 1
    BY <1>1, <2>1 DEF AckInv, FlightInv
  <2>3. pc'[f] = "expose" /\ loc'[f].gen = px'.gen /\ ~px'.closed => rd'.tracker.epoch = px'.gen
    BY Zenon, <1>1, <2>1 DEF AckInv
  <2> QED
    BY Zenon, <1>1, <2>1, <2>2, <2>3 DEF AckInv
<1>7. MailInv'
  BY Zenon, <1>1, <1>5, <1>6 DEF Inv, MailInv
<1>8. Typed'
  BY Zenon, <1>2 DEF Inv, Typed
<1> QED
  BY ZenonT(40), <1>2, <1>3, <1>4, <1>7, <1>8, GenFrame, OwnFrame, LcFrame, DocFrame, SameDocsHolds DEF Inv

\* The readiness worker is a process of its own.
LEMMA WorkerIs == "worker" \in Procs /\ "worker" \notin Flights \cup Reqs /\ "worker" \in Downers
BY Zenon, ProcNames

\* A step of the worker outside its teardown.
LEMMA CalmWorker ==
    ASSUME Inv, loc'["worker"].gen <= px'.gen, pc["worker"] \in {"worker", "sending"},
           pc'["worker"] \in {"worker", "sending", "evict"}
    PROVE  GenSafe("worker") /\ OwnCalm("worker") /\ LcCalm("worker")
BY Zenon, WorkerIs DEF GenSafe, OwnCalm, LcCalm, Holds, Owner, Tearing

\* What the mailbox holds is a key.
LEMMA MailHas ==
    ASSUME Inv
    PROVE  /\ rd \in Publishers /\ px.gen \in Nat
           /\ \A k \in MailKeys : k \in Keys /\ k.epoch \in Nat /\ k.epoch <= px.gen
           /\ NoKey \in Keys /\ NoKey.epoch = 0
<1>1. rd \in Publishers /\ px.gen \in Nat /\ NoKey \in Keys /\ NoKey.epoch = 0
  <2>1. rd \in Publishers /\ px.gen \in Nat
    BY Zenon DEF Inv, Typed, PxType
  <2>2. NoKey \in Keys /\ NoKey.epoch = 0
    BY DEF NoKey, Keys
  <2> QED
    BY Zenon, <2>1, <2>2
<1>2. ASSUME NEW k \in MailKeys PROVE k \in Keys /\ k.epoch \in Nat /\ k.epoch <= px.gen
  <2>1. k \in Keys
    BY Zenon, <1>1 DEF MailKeys, Publishers
  <2> QED
    BY Zenon, <2>1 DEF Keys, Inv, MailInv, KeyInv
<1> QED
  BY Zenon, <1>1, <1>2

\* The worker takes the pending message.
LEMMA TakeReadinessStep == ASSUME Inv, TakeReadiness PROVE Inv'
<1>1. /\ UNCHANGED <<loc, kind, px, lc, proc, gate, docs>> /\ pc["worker"] = "worker"
      /\ rd' = [rd EXCEPT !.busy = rd.pending, !.pending = NoKey] /\ px' = px /\ loc' = loc
  BY Zenon DEF TakeReadiness, tSame, TakePending
<1>2. pc' = [pc EXCEPT !["worker"] = pc'["worker"]] /\ pc'["worker"] = "sending"
  BY Zenon, Moves, WorkerIs DEF TakeReadiness
<1>3. loc' = [loc EXCEPT !["worker"] = loc'["worker"]] /\ loc'["worker"] \in Locals
  BY Zenon, <1>1, Stays, WorkerIs
<1>4. loc'["worker"].gen <= px'.gen
  BY Zenon, <1>1, WorkerIs DEF Inv, GenInv
<1>5. /\ rd' \in Publishers /\ rd'.busy = rd.pending /\ rd'.pending = NoKey /\ rd'.latest = rd.latest
      /\ rd'.tracker = rd.tracker /\ rd'.failed = rd.failed /\ rd'.closed = rd.closed
      /\ rd'.delivered = rd.delivered /\ rd'.watch = rd.watch
  BY Zenon, <1>1, MailHas DEF Publishers
<1>6. rd.busy = NoKey
  BY Zenon, <1>1 DEF Inv, MailInv
<1>7. MailKeys' \subseteq MailKeys \cup {NoKey}
  BY Zenon, <1>5 DEF MailKeys
<1>8. ASSUME NEW f \in Flights, pc[f] = "ack", loc[f].gen = px.gen, ~px.closed
      PROVE  /\ rd'.latest.epoch = px.gen
             /\ \/ \E k \in {rd'.pending, rd'.busy} : k.epoch = px.gen
                \/ px.gen \in rd'.failed \/ rd'.tracker.epoch = px.gen
  <2>1. AckInv(f) /\ FlightInv(f) /\ NoKey.epoch = 0
    BY Zenon, MailHas DEF Inv, MailInv, GenInv
  <2> QED
    BY ZenonT(40), <1>5, <1>6, <1>8, <2>1 DEF AckInv, FlightInv, Raising
<1>9. rd'.closed => px.closed
  BY Zenon, <1>5 DEF Inv, MailInv
<1>10. GenSafe("worker") /\ OwnCalm("worker") /\ LcCalm("worker")
  BY Zenon, <1>1, <1>2, <1>4, CalmWorker
<1> QED
  BY Zenon, <1>1, <1>2, <1>3, <1>5, <1>7, <1>8, <1>9, <1>10, MailboxStep, WorkerIs

\* What a send does to the mailbox.
LEMMA SentIs ==
    ASSUME Inv, NEW lost \in BOOLEAN, NEW applied \in BOOLEAN, lost \/ applied,
           rd' = Sent(rd, lost, applied)
    PROVE  /\ rd' \in Publishers /\ MailKeys' \subseteq MailKeys \cup {NoKey}
           /\ rd'.latest = rd.latest /\ rd'.pending = rd.pending /\ rd'.busy = NoKey
           /\ rd'.closed = rd.closed /\ rd.failed \subseteq rd'.failed
           /\ rd.tracker.epoch = px.gen => rd'.tracker.epoch = px.gen
           /\ rd.busy.rank = 1 /\ rd.busy.epoch = px.gen =>
                px.gen \in rd'.failed \/ rd'.tracker.epoch = px.gen
<1> DEFINE k == rd.busy
           tr == rd.tracker
<1>1. /\ rd \in Publishers /\ k \in Keys /\ tr \in Keys /\ k.epoch \in Nat /\ tr.epoch \in Nat
      /\ k.epoch <= px.gen /\ tr.epoch <= px.gen /\ px.gen \in Nat /\ NoKey \in Keys
  BY Zenon, MailHas DEF MailKeys
<1>2. /\ rd'.busy = NoKey /\ rd'.latest = rd.latest /\ rd'.pending = rd.pending
      /\ rd'.closed = rd.closed /\ rd'.fatal \in BOOLEAN
  BY Zenon, <1>1 DEF Sent, Publishers
<1>3. rd'.tracker = IF applied /\ ~Rejects(tr, k) THEN Commit(tr, k) ELSE tr
  BY Zenon, <1>1 DEF Sent, Publishers
<1>4. rd'.delivered \in {k, rd.delivered} /\ rd'.watch \in {k, NoKey, rd.watch}
  BY Zenon, <1>1 DEF Sent, Publishers
<1>5. /\ rd'.failed \in {rd.failed, rd.failed \cup {k.epoch}}
      /\ k.rank = 1 /\ (lost \/ Rejects(tr, k)) => k.epoch \in rd'.failed
  BY Zenon, <1>1 DEF Sent, Publishers
<1>6. rd'.tracker \in {k, tr}
  BY Zenon, <1>3 DEF Commit
<1>7. MailKeys' \subseteq MailKeys \cup {NoKey}
  BY <1>2, <1>4, <1>6 DEF MailKeys
<1>8. rd' \in Publishers
  <2>1. rd' = [rd EXCEPT !.busy = rd'.busy, !.tracker = rd'.tracker, !.delivered = rd'.delivered,
                         !.watch = rd'.watch, !.failed = rd'.failed, !.fatal = rd'.fatal]
    BY Zenon, <1>1 DEF Sent, Publishers
  <2>2. rd.delivered \in Keys /\ rd.watch \in Keys /\ rd.failed \in SUBSET Nat
    BY Zenon, <1>1 DEF Publishers
  <2>3. /\ rd'.busy \in Keys /\ rd'.tracker \in Keys /\ rd'.delivered \in Keys /\ rd'.watch \in Keys
        /\ rd'.failed \in SUBSET Nat
    BY Zenon, <1>1, <1>2, <1>4, <1>5, <1>6, <2>2
  <2> QED
    BY Zenon, <1>1, <1>2, <2>1, <2>3 DEF Publishers
<1>9. tr.epoch = px.gen => rd'.tracker.epoch = px.gen
  BY <1>1, <1>3 DEF Commit
<1>10. k.rank = 1 /\ k.epoch = px.gen => px.gen \in rd'.failed \/ rd'.tracker.epoch = px.gen
  <2>1. tr.epoch < k.epoch \/ ~(tr.epoch < k.epoch)
    BY Zenon
  <2>2. k.epoch = px.gen /\ ~(tr.epoch < k.epoch) => tr.epoch = px.gen
    BY <1>1
  <2> QED
    BY Zenon, <1>3, <1>5, <1>9, <2>1, <2>2 DEF Commit
<1> QED
  BY ZenonT(40), <1>2, <1>5, <1>7, <1>8, <1>9, <1>10

\* The worker's send ends: the supervisor has the message, or it failed.
LEMMA SendReadinessStep == ASSUME Inv, SendReadiness PROVE Inv'
<1>1. /\ UNCHANGED <<loc, kind, px, lc, proc, gate, docs>> /\ pc["worker"] = "sending"
      /\ px' = px /\ loc' = loc
  BY Zenon DEF SendReadiness, tSame
<1>2. pc' = [pc EXCEPT !["worker"] = pc'["worker"]] /\ pc'["worker"] = "worker"
  BY Zenon, Moves, WorkerIs DEF SendReadiness
<1>3. loc' = [loc EXCEPT !["worker"] = loc'["worker"]] /\ loc'["worker"] \in Locals
  BY Zenon, <1>1, Stays, WorkerIs
<1>4. loc'["worker"].gen <= px'.gen
  BY Zenon, <1>1, WorkerIs DEF Inv, GenInv
<1>5. \E lost, applied \in BOOLEAN : (lost \/ applied) /\ rd' = Sent(rd, lost, applied)
  BY Zenon DEF SendReadiness
<1>6. /\ rd' \in Publishers /\ MailKeys' \subseteq MailKeys \cup {NoKey}
      /\ rd'.latest = rd.latest /\ rd'.pending = rd.pending /\ rd'.busy = NoKey
      /\ rd'.closed = rd.closed /\ rd.failed \subseteq rd'.failed
      /\ rd.tracker.epoch = px.gen => rd'.tracker.epoch = px.gen
      /\ rd.busy.rank = 1 /\ rd.busy.epoch = px.gen =>
           px.gen \in rd'.failed \/ rd'.tracker.epoch = px.gen
  BY Zenon, <1>5, SentIs
<1>7. ASSUME NEW f \in Flights, pc[f] = "ack", loc[f].gen = px.gen, ~px.closed
      PROVE  /\ rd'.latest.epoch = px.gen
             /\ \/ \E k \in {rd'.pending, rd'.busy} : k.epoch = px.gen
                \/ px.gen \in rd'.failed \/ rd'.tracker.epoch = px.gen
  <2>1. /\ rd.latest.epoch = px.gen
        /\ \/ \E k \in {rd.pending, rd.busy} : k.epoch = px.gen
           \/ px.gen \in rd.failed \/ rd.tracker.epoch = px.gen
        /\ rd.busy.epoch = px.gen => rd.busy.rank = 1
    BY Zenon, <1>7 DEF Inv, MailInv, AckInv, Raising, MailKeys
  <2> QED
    BY Zenon, <1>6, <2>1
<1>8. rd'.closed => px.closed
  BY Zenon, <1>6 DEF Inv, MailInv
<1>9. GenSafe("worker") /\ OwnCalm("worker") /\ LcCalm("worker")
  BY Zenon, <1>1, <1>2, <1>4, CalmWorker
<1> QED
  BY <1>1, <1>2, <1>3, <1>6, <1>7, <1>8, <1>9, MailboxStep, WorkerIs

\* The worker reports the exit of the backend it watches.
LEMMA WatchExitStep == ASSUME Inv, WatchExit PROVE Inv'
<1>1. /\ UNCHANGED <<kind, px, lc, proc, gate, docs>> /\ pc["worker"] = "worker"
      /\ rd' = [rd EXCEPT !.watch = NoKey] /\ px' = px
  BY Zenon DEF WatchExit, tSame
<1>2. pc' = [pc EXCEPT !["worker"] = pc'["worker"]] /\ pc'["worker"] = "evict"
  BY Zenon, Moves, WorkerIs DEF WatchExit
<1>3. /\ loc' = [loc EXCEPT !["worker"] = loc'["worker"]] /\ loc["worker"] \in Locals
      /\ loc'["worker"] = [loc["worker"] EXCEPT !.gen = rd.watch.epoch, !.why = "fail"]
  BY Sets, WorkerIs DEF WatchExit
<1>4. rd.watch.epoch \in Nat /\ rd.watch.epoch <= px.gen
  BY Zenon, MailHas DEF MailKeys
<1>5. loc'["worker"] \in Locals /\ loc'["worker"].gen <= px'.gen
  BY Zenon, <1>1, <1>3, <1>4 DEF Locals
<1>6. /\ rd' \in Publishers /\ rd'.busy = rd.busy /\ rd'.pending = rd.pending /\ rd'.latest = rd.latest
      /\ rd'.tracker = rd.tracker /\ rd'.failed = rd.failed /\ rd'.closed = rd.closed
      /\ rd'.delivered = rd.delivered /\ rd'.watch = NoKey
  BY Zenon, <1>1, MailHas DEF Publishers
<1>7. rd'.busy = NoKey /\ (rd'.closed => px.closed)
  BY Zenon, <1>1, <1>6 DEF Inv, MailInv
<1>8. MailKeys' \subseteq MailKeys \cup {NoKey}
  BY Zenon, <1>6 DEF MailKeys
<1>9. ASSUME NEW f \in Flights, pc[f] = "ack", loc[f].gen = px.gen, ~px.closed
      PROVE  /\ rd'.latest.epoch = px.gen
             /\ \/ \E k \in {rd'.pending, rd'.busy} : k.epoch = px.gen
                \/ px.gen \in rd'.failed \/ rd'.tracker.epoch = px.gen
  BY Zenon, <1>6, <1>9 DEF Inv, MailInv, AckInv
<1>10. GenSafe("worker") /\ OwnCalm("worker") /\ LcCalm("worker")
  BY Zenon, <1>1, <1>2, <1>5, CalmWorker
<1> QED
  BY <1>1, <1>2, <1>3, <1>5, <1>6, <1>7, <1>8, <1>9, <1>10, MailboxStep, WorkerIs

\* Every step of the worker keeps the invariant.
LEMMA WorkStep == ASSUME Inv, Work PROVE Inv'
BY Zenon, TakeReadinessStep, SendReadinessStep, WatchExitStep DEF Work

\* Stop is a process of its own.
LEMMA StopperIs ==
    /\ "stopper" \in Procs /\ "stopper" \notin Flights \cup Reqs /\ "stopper" \notin Downers
    /\ "stopper" # "worker" /\ "stopper" # "ticker"
BY Zenon, ProcNames DEF Downers

\* A step of Stop before its teardown.
LEMMA CalmStopper ==
    ASSUME Inv, loc'["stopper"] = loc["stopper"], px'.closed,
           pc["stopper"] \in {"stopper", "halt", "drain"},
           pc'["stopper"] \in {"halt", "drain", "close"}
    PROVE  GenCalm("stopper") /\ OwnCalm("stopper") /\ LcCalm("stopper")
<1>1. loc["stopper"].why = "none"
  BY DEF Inv, GenInv
<1> QED
  BY Zenon, <1>1, StopperIs DEF GenCalm, OwnCalm, LcCalm, StopperSteps

\* Stop is called: the proxy is closed.
LEMMA CallStopStep == ASSUME Inv, CallStop PROVE Inv'
<1>1. /\ UNCHANGED <<loc, kind, lc, proc, gate, rd, docs>> /\ pc["stopper"] = "stopper"
      /\ px' = [px EXCEPT !.closed = TRUE] /\ gate' \in GateType /\ SameDocs
  BY Zenon, GateStays, SameDocsHolds DEF CallStop, tSame
<1>2. pc' = [pc EXCEPT !["stopper"] = pc'["stopper"]] /\ pc'["stopper"] = "halt"
  BY Zenon, Moves, StopperIs DEF CallStop
<1>3. /\ loc' = [loc EXCEPT !["stopper"] = loc'["stopper"]] /\ loc'["stopper"] = loc["stopper"]
      /\ loc'["stopper"] \in Locals
  BY Zenon, <1>1, Stays, StopperIs
<1>4. SamePx /\ px'.closed
  BY Zenon, <1>1 DEF Inv, Typed, SamePx, SameGen, PxType
<1>5. GenCalm("stopper") /\ LcCalm("stopper")
  BY Zenon, <1>1, <1>2, <1>3, <1>4, CalmStopper
<1> QED
  BY Zenon, <1>1, <1>2, <1>3, <1>4, <1>5, CalmStep, StopperIs

\* Stop closes the mailbox.
LEMMA HaltReadinessStep == ASSUME Inv, HaltReadiness PROVE Inv'
<1>1. /\ UNCHANGED <<loc, kind, px, lc, proc, gate, docs>> /\ pc["stopper"] = "halt"
      /\ rd' = [rd EXCEPT !.closed = TRUE, !.pending = NoKey] /\ px' = px
  BY Zenon DEF HaltReadiness, tSame, Close
<1>2. pc' = [pc EXCEPT !["stopper"] = pc'["stopper"]] /\ pc'["stopper"] = "drain"
  BY Zenon, Moves, StopperIs DEF HaltReadiness
<1>3. /\ loc' = [loc EXCEPT !["stopper"] = loc'["stopper"]] /\ loc'["stopper"] = loc["stopper"]
      /\ loc'["stopper"] \in Locals
  BY Zenon, <1>1, Stays, StopperIs
<1>4. px.closed
  BY Zenon, <1>1 DEF Inv, GenInv
<1>5. GenSafe("stopper") /\ OwnCalm("stopper") /\ LcCalm("stopper")
  BY ZenonT(40), <1>1, <1>2, <1>3, <1>4, CalmStopper, CalmIsSafe, SamePxHolds, StopperIs
<1>6. /\ rd' \in Publishers /\ rd'.busy = rd.busy /\ rd'.pending = NoKey /\ rd'.latest = rd.latest
      /\ rd'.tracker = rd.tracker /\ rd'.delivered = rd.delivered /\ rd'.watch = rd.watch
  BY Zenon, <1>1, MailHas DEF Publishers
<1>7. MailKeys' \subseteq MailKeys \cup {NoKey}
  BY Zenon, <1>6 DEF MailKeys
<1>8. rd'.busy # NoKey => pc'["worker"] = "sending"
  <2>1. pc'["worker"] = pc["worker"]
    BY Zenon, <1>2, StopperIs, WorkerIs DEF Inv, Typed
  <2> QED
    BY Zenon, <1>6, <2>1 DEF Inv, MailInv
<1> QED
  BY Zenon, <1>1, <1>2, <1>3, <1>4, <1>5, <1>6, <1>7, <1>8, MailboxStep, StopperIs

\* Stop waits for the worker.
LEMMA WorkerDoneStep == ASSUME Inv, WorkerDone PROVE Inv'
<1>1. /\ UNCHANGED <<loc, kind, px, lc, proc, gate, rd, docs>>
      /\ pc["stopper"] = "drain" /\ pc["worker"] = "worker" /\ px' = px /\ loc' = loc /\ kind' = kind
  BY Zenon DEF WorkerDone, tSame
<1>2. /\ pc' = [q \in Procs |-> pc'[q]] /\ pc'["stopper"] = "close" /\ pc'["worker"] = "gone"
      /\ \A q \in Procs \ {"stopper", "worker"} : pc'[q] = pc[q]
  BY Zenon, StopperIs, WorkerIs DEF WorkerDone, Inv, Typed
<1>3. px.closed /\ loc \in [Procs -> Locals]
  BY Zenon, <1>1 DEF Inv, GenInv, Typed
<1>4. ASSUME NEW q \in Procs PROVE GenCalm(q) /\ LcCalm(q)
  <2>1. CASE q = "stopper"
    BY Zenon, <1>1, <1>2, <1>3, <2>1, CalmStopper
  <2>2. CASE q = "worker"
    BY Zenon, <1>1, <1>2, <2>2, WorkerIs, ProcNames DEF GenCalm, LcCalm, Tearing
  <2>3. CASE q \notin {"stopper", "worker"}
    <3>1. pc'[q] = pc[q] /\ loc'[q] = loc[q]
      BY Zenon, <1>1, <1>2, <2>3
    <3>2. q \in Flights => pc[q] \in FlightSteps /\ loc[q].why \in Outcomes \cup {"none"}
      BY Zenon DEF Inv, GenInv, FlightInv
    <3>3. OwnCalm(q)
      BY Zenon, <3>1 DEF OwnCalm, Owner
    <3> QED
      BY Zenon, <2>3, <3>1, <3>2, <3>3 DEF GenCalm, LcCalm
  <2> QED
    BY Zenon, <2>1, <2>2, <2>3
<1>5. \A r \in Reqs : DocCalm(r)
  BY Zenon, <1>1, <1>2, StopperIs, WorkerIs, ProcNames DEF DocCalm
<1> QED
  BY ZenonT(40), <1>1, <1>2, <1>3, <1>4, <1>5, AllCalm, SamePxHolds, SameDocsHolds, GateStays

\* Stop withdraws the endpoint.
LEMMA CloseEndpointStep == ASSUME Inv, CloseEndpoint PROVE Inv'
<1>1. /\ UNCHANGED <<loc, kind, lc, proc, gate, rd, docs>> /\ pc["stopper"] = "close"
      /\ px' = TornDown(px)
  BY Zenon DEF CloseEndpoint, tSame
<1>2. pc' = [pc EXCEPT !["stopper"] = pc'["stopper"]] /\ pc'["stopper"] = "reset"
  BY Zenon, Moves, StopperIs DEF CloseEndpoint
<1>3. /\ loc' = [loc EXCEPT !["stopper"] = loc'["stopper"]] /\ loc'["stopper"] = loc["stopper"]
      /\ loc'["stopper"] \in Locals
  BY Zenon, <1>1, Stays, StopperIs
<1>4. px \in PxType /\ px.closed
  BY Zenon, <1>1 DEF Inv, GenInv, Typed
<1>5. /\ px' \in PxType /\ px'.gen = px.gen + 1 /\ px'.endpoint = 0 /\ px'.closed = px.closed
      /\ px'.reaping = px.reaping
  <2>1. px'.reaping = px.reaping
    BY Zenon, <1>1, <1>4 DEF TornDown, PxType
  <2> QED
    BY Zenon, <1>1, <1>4, <2>1, TornDownType
<1> QED
  BY Zenon, <1>1, <1>2, <1>3, <1>4, <1>5, NewGenStep, StopperIs

\* Every step of Stop keeps the invariant.
LEMMA StopStep == ASSUME Inv, Stop PROVE Inv'
BY Zenon, CallStopStep, HaltReadinessStep, WorkerDoneStep, CloseEndpointStep DEF Stop

\* A step that moves no process.
LEMMA StillStep ==
    ASSUME Inv, UNCHANGED <<pc, loc, kind, px, lc, rd, docs>>, gate' \in GateType,
           proc' \in [Backends -> {"unborn", "up", "dead", "stuck"}],
           \A b \in Backends : Live(b)' => Live(b)
    PROVE  Inv'
<1>1. Typed'
  BY Zenon DEF Inv, Typed
<1>2. GenInv' /\ OwnInv'
  BY ZenonT(40) DEF Inv, GenInv, ReqInv, FlightInv, Holds, OwnInv, Owner
<1>3. MailInv'
  BY DEF Inv, MailInv, KeyInv, AckInv, MailKeys
<1>4. LcInv'
  BY Zenon DEF Inv, LcInv, NoStrayBackend
<1>5. DocInv'
  BY Zenon DEF Inv, DocInv
<1> QED
  BY Zenon, <1>1, <1>2, <1>3, <1>4, <1>5 DEF Inv

\* A backend exits by itself.
LEMMA ExitStep == ASSUME Inv, NEW b \in Backends, Exit(b) PROVE Inv'
<1>1. UNCHANGED <<pc, loc, kind, px, lc, rd, docs>> /\ gate' \in GateType
  BY Zenon, GateStays DEF Exit, tSame
<1>2. /\ proc' \in [Backends -> {"unborn", "up", "dead", "stuck"}]
      /\ \A c \in Backends : Live(c)' => Live(c)
  BY DEF Exit, Inv, Typed, Live
<1> QED
  BY Zenon, <1>1, <1>2, StillStep

\* The retry gap of the gate passes.
LEMMA RetryGapStep == ASSUME Inv, RetryGap PROVE Inv'
<1>1. UNCHANGED <<pc, loc, kind, px, lc, rd, docs>> /\ proc' = proc /\ gate' = GapElapsed(gate)
  BY Zenon DEF RetryGap, tSame
<1>2. gate' \in GateType
  BY Zenon, <1>1 DEF Inv, Typed, GapElapsed, GateType
<1>3. /\ proc' \in [Backends -> {"unborn", "up", "dead", "stuck"}]
      /\ \A c \in Backends : Live(c)' => Live(c)
  BY Zenon, <1>1 DEF Inv, Typed, Live
<1> QED
  BY Zenon, <1>1, <1>2, <1>3, StillStep

\* A step that changes nothing.
LEMMA StutterStep == ASSUME Inv, UNCHANGED vars PROVE Inv'
<1>1. UNCHANGED <<pc, loc, kind, px, lc, rd, docs>> /\ proc' = proc /\ gate' = gate
  BY Zenon DEF vars
<1>2. /\ proc' \in [Backends -> {"unborn", "up", "dead", "stuck"}] /\ gate' \in GateType
      /\ \A c \in Backends : Live(c)' => Live(c)
  BY Zenon, <1>1 DEF Inv, Typed, Live
<1> QED
  BY Zenon, <1>1, <1>2, StillStep

-----------------------------------------------------------------------------
(* The theorems. *)

\* The invariant holds initially.
LEMMA InitInv == ASSUME Init PROVE Inv
<1>1. /\ pc = [p \in Procs |-> Idle(p)] /\ loc = [p \in Procs |-> NoLocals]
      /\ \A p \in Procs : pc[p] = Idle(p) /\ loc[p] = NoLocals
  BY Zenon DEF Init
<1>2. /\ px \in PxType /\ px.endpoint = 0 /\ px.gen = 0 /\ ~px.reaping /\ ~px.closed
  <2>1. px = [endpoint |-> 0, gen |-> 0, warmed |-> FALSE, reaping |-> FALSE,
              closed |-> FALSE, marker |-> FALSE, shadow |-> "", used |-> FALSE,
              severed |-> 0, inflight |-> 0]
    BY Zenon DEF Init
  <2>2. 0 \in Nat /\ 0 \in Int /\ 0 \in Backends \cup {0}
    OBVIOUS
  <2>3. px \in PxType
    BY ZenonT(90), <2>1, <2>2 DEF PxType
  <2> QED
    BY Zenon, <2>1, <2>3
<1>3. lc.mu = 0 /\ \A b \in Backends : ~Live(b)
  BY Zenon DEF Init, Live
<1>4. Typed
  <2>1. loc \in [Procs -> Locals]
    BY Zenon, <1>1, NoLocalsType
  <2>2. rd \in Publishers
    <3>1. NoKey \in Keys
      BY DEF NoKey, Keys
    <3>2. rd = NewPublisher
      BY Zenon DEF Init
    <3> QED
      BY Zenon, <3>1, <3>2 DEF NewPublisher, Publishers
  <2>3. /\ pc = [p \in Procs |-> pc[p]] /\ kind \in [Reqs -> AllKinds]
        /\ lc \in [mu : Flights \cup {0}, host : Backends \cup {0}]
        /\ proc \in [Backends -> {"unborn", "up", "dead", "stuck"}]
    BY Zenon DEF Init, AllKinds
  <2>4. gate \in GateType /\ docs \in DocType
    <3>1. /\ gate = [call |-> 0, active |-> 0, failure |-> "none"]
          /\ docs = [count |-> 0, epoch |-> 0, opened |-> FALSE, view |-> {}]
      BY Zenon DEF Init, NewInflightGate
    <3>2. gate \in GateType
      BY <3>1 DEF GateType
    <3>3. docs \in DocType
      BY Zenon, <3>1 DEF DocType
    <3> QED
      BY Zenon, <3>2, <3>3
  <2> QED
    BY Zenon, <1>2, <2>1, <2>2, <2>3, <2>4 DEF Typed
<1>5. /\ \A r \in Reqs : pc[r] = "done" /\ loc[r] = NoLocals
      /\ \A f \in Flights : pc[f] = "free" /\ loc[f] = NoLocals
      /\ pc["ticker"] = "ticker" /\ pc["worker"] = "worker" /\ pc["stopper"] = "stopper"
      /\ loc["stopper"] = NoLocals
  BY Zenon, <1>1, ProcNames DEF Idle
<1>6. NoLocals.gen = 0 /\ NoLocals.host = 0 /\ NoLocals.epoch = 0 /\ NoLocals.why = "none"
  BY Zenon DEF NoLocals
<1>7. GenInv
  <2>1. \A p \in Procs : loc[p].gen <= px.gen
    BY <1>1, <1>2, <1>6
  <2>2. \A r \in Reqs : ReqInv(r)
    BY Zenon, <1>5, <1>6 DEF ReqInv, Bound
  <2>3. \A f \in Flights : FlightInv(f)
    BY Zenon, <1>5, <1>6 DEF FlightInv, FlightSteps, Raising
  <2> QED
    BY Zenon, <1>2, <1>5, <1>6, <2>1, <2>2, <2>3 DEF GenInv, StopperSteps
<1>8. OwnInv
  <2>1. ASSUME NEW q \in Downers PROVE ~Owner(q)
    <3>1. q \in Reqs \/ q \in {"ticker", "worker"}
      BY Zenon, ProcNames DEF Downers, Procs
    <3> QED
      BY Zenon, <1>5, <3>1, ProcNames DEF Owner, Tearing
  <2> QED
    BY Zenon, <1>2, <2>1 DEF OwnInv
<1>9. MailInv
  <2>1. /\ \A k \in MailKeys : k.epoch = 0 /\ k.rank = 0
        /\ rd.busy = NoKey /\ ~rd.closed
    <3>1. /\ MailKeys = {NoKey} /\ rd.busy = NoKey /\ ~rd.closed
      BY Zenon DEF Init, NewPublisher, MailKeys
    <3>2. NoKey.epoch = 0 /\ NoKey.rank = 0
      BY Zenon DEF NoKey
    <3> QED
      BY Zenon, <3>1, <3>2
  <2>2. \A k \in MailKeys : KeyInv(k)
    BY <1>2, <2>1 DEF KeyInv
  <2>3. \A f \in Flights : AckInv(f)
    BY Zenon, <1>5 DEF AckInv, Raising
  <2> QED
    BY Zenon, <1>2, <2>1, <2>2, <2>3 DEF MailInv
<1>10. LcInv
  BY Zenon, <1>3, <1>5 DEF LcInv, NoStrayBackend
<1>11. DocInv
  <2>1. docs.count = 0 /\ docs.epoch = 0
    BY Zenon DEF Init
  <2> QED
    BY <1>5, <1>6, <2>1 DEF DocInv, Undoable
<1> QED
  BY ZenonT(40), <1>4, <1>7, <1>8, <1>9, <1>10, <1>11 DEF Inv

\* The inductive invariant of the lazy proxy.
THEOREM LazyInvariant == Spec => []Inv
<1>1. Init => Inv
  BY Zenon, InitInv
<1>2. Inv /\ [Next]_vars => Inv'
  BY ZenonT(40), ArriveStep, RequestStep, FlightStep, TeardownStep, TickStep, ReapStep, WorkStep, StopStep,
     ExitStep, RetryGapStep, StutterStep DEF Next
<1> QED
  BY <1>1, <1>2, PTL DEF Spec

\* NoStrayBackend for any number of requests, flights and backends: no
\* overlap of flights, teardowns and Stop leaks a process.
THEOREM NoStrayBackendHolds == Spec => []NoStrayBackend
<1>1. Inv => NoStrayBackend
  BY Zenon DEF Inv, LcInv
<1> QED
  BY <1>1, LazyInvariant, PTL

\* ExposedIsAcked: an endpoint clients can see is of the generation the
\* supervisor has acknowledged, as starting or ready.
THEOREM ExposedIsAckedHolds == Spec => []ExposedIsAcked
<1>1. Inv => ExposedIsAcked
  <2> SUFFICES ASSUME Inv, px.endpoint # 0
               PROVE  rd.tracker.epoch = px.gen /\ rd.tracker.rank \in {1, 2}
    BY Zenon DEF ExposedIsAcked
  <2>1. rd.tracker.epoch = px.gen /\ px.gen # 0 /\ KeyInv(rd.tracker)
    BY DEF Inv, GenInv, MailInv, MailKeys
  <2>2. rd.tracker.rank \in 0 .. 3
    <3>1. rd.tracker \in Keys
      BY Zenon, MailHas DEF MailKeys
    <3> QED
      BY Zenon, <3>1 DEF Keys
  <2>3. rd.tracker.rank # 0 /\ rd.tracker.rank # 3
    BY ZenonT(40), <2>1 DEF KeyInv
  <2> QED
    BY <2>1, <2>2, <2>3
<1> QED
  BY <1>1, LazyInvariant, PTL

\* ReadyIsWarm: what the supervisor calls ready and current has answered.
THEOREM ReadyIsWarmHolds == Spec => []ReadyIsWarm
<1>1. Inv => ReadyIsWarm
  BY ZenonT(40) DEF ReadyIsWarm, Inv, MailInv, KeyInv, MailKeys
<1> QED
  BY <1>1, LazyInvariant, PTL

\* GenNamesEndpoint: a failure of the current generation is a failure of the
\* published backend.
THEOREM GenNamesEndpointHolds == Spec => []GenNamesEndpoint
<1>1. Inv => GenNamesEndpoint
  BY Zenon DEF GenNamesEndpoint, Inv, GenInv, ReqInv, Tearing
<1> QED
  BY <1>1, LazyInvariant, PTL

\* CountsAreThisEpochs: a rollback adds nothing to the map a teardown began.
THEOREM CountsAreThisEpochsHolds == Spec => []CountsAreThisEpochs
<1>1. Inv => CountsAreThisEpochs
  BY DEF CountsAreThisEpochs, Inv, DocInv
<1> QED
  BY <1>1, LazyInvariant, PTL

-----------------------------------------------------------------------------
(* The registry row, where its writes succeed. *)

\* While a teardown runs it owns the current generation.  The row says active
\* during it only until it is stamped failed, or reconciled by the idle reaper.
OwnerRow(q) ==
    Owner(q) /\ ~px.closed =>
        /\ pc[q] \in Tearing => loc[q].gen = px.gen
        /\ row = "active" => /\ pc[q] \in Tearing
                             /\ pc[q] \in {"notify", "tail"} => loc[q].why = "idle"

RowInv ==
    /\ budget \in [Inputs -> Nat] /\ budget["write"] = 0
    /\ ActiveIsWarm
    /\ row = "active" => px.shadow \in {"active", ""}
    /\ \A q \in Downers : OwnerRow(q)

\* An input happens, or none.
Thrifty == budget' = budget \/ \E i \in Inputs : Spend(i)

\* Process q begins no teardown, and comes to the end of one only if the row
\* does not say active or it is the idle reaper's.
RowSafe(q) ==
    Owner(q)' =>
        /\ Owner(q)
        /\ pc'[q] \in Tearing => pc[q] \in Tearing /\ loc'[q].gen = loc[q].gen
        /\ pc[q] \in Tearing => pc'[q] \in Tearing
        /\ pc'[q] \in {"notify", "tail"} =>
             \/ row' # "active" \/ loc'[q].why = "idle"
             \/ pc[q] \in {"notify", "tail"} /\ loc'[q].why = loc[q].why

\* The fields keep what the row relies on.
PxQuiet ==
    /\ px'.gen = px.gen /\ (px.closed => px'.closed) /\ (px.reaping => px'.reaping)
    /\ px'.shadow \in {px.shadow, ""}
    /\ px.endpoint # 0 /\ px.warmed => px'.endpoint # 0 /\ px'.warmed

\* No registry write fails.
LEMMA BudgetKept ==
    ASSUME RowInv
    PROVE  /\ ~Spend("write")
           /\ Thrifty => budget' \in [Inputs -> Nat] /\ budget'["write"] = 0
<1>1. budget \in [Inputs -> Nat] /\ budget["write"] = 0 /\ "write" \in Inputs
  BY Zenon DEF RowInv, Inputs
<1>2. ~Spend("write")
  BY <1>1 DEF Spend
<1>3. ASSUME NEW i \in Inputs, Spend(i) PROVE budget' \in [Inputs -> Nat] /\ budget'["write"] = 0
  <2>1. i # "write"
    BY Zenon, <1>2, <1>3
  <2>2. budget[i] > 0 /\ budget' = [budget EXCEPT ![i] = budget[i] - 1] /\ budget[i] - 1 \in Nat
    BY <1>1, <1>3 DEF Spend
  <2> QED
    BY Zenon, <1>1, <2>1, <2>2
<1> QED
  BY Zenon, <1>1, <1>2, <1>3 DEF Thrifty

\* Steps that write no active row and disturb no teardown.
LEMMA RowFrame ==
    ASSUME RowInv, Thrifty, PxQuiet, row' = row \/ row' # "active",
           \A q \in Downers : RowSafe(q)
    PROVE  RowInv'
<1>1. ASSUME NEW q \in Downers PROVE OwnerRow(q)'
  BY Zenon DEF RowInv, OwnerRow, RowSafe, PxQuiet
<1>2. ActiveIsWarm'
  BY Zenon DEF RowInv, ActiveIsWarm, PxQuiet
<1>3. row' = "active" => px'.shadow \in {"active", ""}
  BY Zenon DEF RowInv, PxQuiet
<1> QED
  BY Zenon, <1>1, <1>2, <1>3, BudgetKept DEF RowInv

\* reconcileRegistryLifecycleLocked leaves the row as derived.
LEMMA RowReconcile ==
    ASSUME Inv', RowInv, NEW q \in PxType, ReconcileTo(q),
           q.gen = px.gen, px.closed => q.closed, q.shadow = px.shadow,
           \A d \in Downers : RowSafe(d)
    PROVE  RowInv'
<1>1. /\ UNCHANGED budget
      /\ \/ px' = q /\ Derived(q) = q.shadow /\ row' = row
         \/ px' = [q EXCEPT !.shadow = Derived(q)] /\ row' = Derived(q)
  BY Zenon, BudgetKept DEF ReconcileTo
<1>2. px' \in [endpoint : {q.endpoint}, gen : {px.gen}, warmed : {q.warmed}, reaping : {q.reaping},
               closed : {q.closed}, marker : {q.marker}, shadow : {Derived(q)}, used : {q.used},
               severed : {q.severed}, inflight : {q.inflight}]
  BY Zenon, <1>1 DEF PxType
<1>3. row' = "active" => Derived(q) = "active"
  BY Zenon, <1>1 DEF RowInv, Derived
<1>4. row' = "active" => px'.endpoint # 0 /\ px'.warmed /\ px'.shadow = "active"
  BY Zenon, <1>2, <1>3 DEF Derived
<1>5. row' = "active" => \A d \in Downers : ~Owner(d)'
  BY Zenon, <1>4 DEF Inv, OwnInv
<1>6. ASSUME NEW d \in Downers PROVE OwnerRow(d)'
  BY Zenon, <1>2, <1>5 DEF RowInv, OwnerRow, RowSafe
<1>7. Thrifty
  BY Zenon, <1>1 DEF Thrifty
<1> QED
  BY Zenon, <1>4, <1>6, <1>7, BudgetKept DEF RowInv, ActiveIsWarm

\* A request that moves outside a teardown leaves every teardown alone.
LEMMA RequestRowSafe ==
    ASSUME Inv, NEW r \in Reqs, NEW to, Goto(r, to), to \notin Tearing,
           UNCHANGED loc \/ \E m : Set(r, m)
    PROVE  \A q \in Downers : RowSafe(q)
<1>1. pc' = [pc EXCEPT ![r] = to] /\ pc = [p \in Procs |-> pc[p]] /\ loc \in [Procs -> Locals]
      /\ r # "ticker" /\ Downers \subseteq Procs /\ Reqs \subseteq Procs
  BY Zenon, ProcNames DEF Goto, Inv, Typed
<1>2. ~Owner(r)'
  BY Zenon, <1>1 DEF Owner
<1>3. ASSUME NEW q \in Downers, q # r PROVE pc'[q] = pc[q] /\ loc'[q] = loc[q]
  BY Zenon, <1>1, <1>3 DEF Set
<1> QED
  BY Zenon, <1>2, <1>3 DEF RowSafe, Owner

\* Every step of a request keeps the row true.
LEMMA RequestRow ==
    ASSUME Inv, Inv', RowInv, NEW r \in Reqs, Arrive(r) \/ Request(r)
    PROVE  RowInv'
<1> USE DEF rSame, Refuse, Answer, Tearing
<1>a. PxQuiet \/ ~(UNCHANGED px)
  BY Zenon DEF PxQuiet
<1>1. CASE Arrive(r) \/ Receive(r) \/ CheckClosed(r) \/ Snapshot(r)
  <2>1. \E to : Goto(r, to) /\ to \notin Tearing
    BY SMTT(40), <1>1 DEF Arrive, Receive, CheckClosed, Snapshot
  <2>2. UNCHANGED <<loc, px, row>>
    BY Zenon, <1>1 DEF Arrive, Receive, CheckClosed, Snapshot
  <2>3. Thrifty
    BY Zenon, <1>1 DEF Arrive, Receive, CheckClosed, Snapshot, Thrifty, Inputs
  <2> QED
    BY ZenonT(40), <1>a, <2>1, <2>2, <2>3, RequestRowSafe, RowFrame
<1>2. CASE ApplyDocRef(r) \/ AwaitFlight(r) \/ SendRequest(r) \/ Respond(r)
  <2>1. \E to : Goto(r, to) /\ to \notin Tearing
    BY SMTT(40), <1>2 DEF ApplyDocRef, AwaitFlight, SendRequest, Respond
  <2>2. UNCHANGED <<px, row>> /\ (UNCHANGED loc \/ \E m : Set(r, m))
    BY Zenon, <1>2 DEF ApplyDocRef, AwaitFlight, SendRequest, Respond
  <2>3. Thrifty
    BY Zenon, <1>2 DEF ApplyDocRef, AwaitFlight, SendRequest, Respond, Thrifty, Inputs
  <2> QED
    BY ZenonT(40), <1>a, <2>1, <2>2, <2>3, RequestRowSafe, RowFrame
<1>3. CASE CutWait(r) \/ LoseBackend(r) \/ Classify(r) \/ RollbackDocRef(r)
  <2>1. \E to : Goto(r, to) /\ to \notin Tearing
    BY SMTT(40), <1>3 DEF CutWait, LoseBackend, Classify, RollbackDocRef
  <2>2. UNCHANGED <<px, row>> /\ (UNCHANGED loc \/ \E m : Set(r, m))
    BY Zenon, <1>3 DEF CutWait, LoseBackend, Classify, RollbackDocRef
  <2>3. Thrifty
    BY Zenon, <1>3 DEF CutWait, LoseBackend, Classify, RollbackDocRef, Thrifty, Inputs
  <2> QED
    BY ZenonT(40), <1>a, <2>1, <2>2, <2>3, RequestRowSafe, RowFrame
<1>4. CASE CheckReady(r) \/ TellReady(r)
  <2>1. \E to : Goto(r, to) /\ to \notin Tearing
    <3>1. \E to \in {"undo", "end", "tell"} : Goto(r, to)
      <4>1. CASE CheckReady(r)
        BY Zenon, <4>1 DEF CheckReady
      <4>2. CASE TellReady(r)
        BY Zenon, <4>2 DEF TellReady
      <4> QED
        BY Zenon, <1>4, <4>1, <4>2
    <3> QED
      BY Zenon, <3>1
  <2>2. UNCHANGED <<px, row, loc, budget>>
    BY Zenon, <1>4 DEF CheckReady, TellReady
  <2> QED
    BY Zenon, <1>a, <2>1, <2>2, RequestRowSafe, RowFrame DEF Thrifty
<1>5. CASE InvalidateShadow(r) \/ MarkStartingReserved(r) \/ EndBackendRequest(r)
  <2>1. \E to \in {"mark", "gate", "done"} : Goto(r, to)
    BY ZenonT(40), <1>5 DEF InvalidateShadow, MarkStartingReserved, EndBackendRequest
  <2>2. UNCHANGED <<row, budget>> /\ (UNCHANGED loc \/ \E m : Set(r, m))
    BY Zenon, <1>5 DEF InvalidateShadow, MarkStartingReserved, EndBackendRequest
  <2>3. PxQuiet
    <3>1. px \in PxType
      BY Zenon DEF Inv, Typed
    <3> QED
      BY Zenon, <1>5, <3>1 DEF InvalidateShadow, MarkStartingReserved, EndBackendRequest, PxQuiet, PxType
  <2> QED
    BY Zenon, <2>1, <2>2, <2>3, RequestRowSafe, RowFrame DEF Thrifty
<1>6. CASE ReserveMaterializedSlot(r) \/ FlightFailed(r)
  <2>1. \E to : Goto(r, to) /\ to \notin Tearing
    BY SMTT(40), <1>6 DEF ReserveMaterializedSlot, FlightFailed
  <2>2. UNCHANGED px /\ (UNCHANGED loc \/ \E m : Set(r, m))
    BY Zenon, <1>6 DEF ReserveMaterializedSlot, FlightFailed
  <2>3. row' = row \/ row' # "active"
    BY Zenon, <1>6 DEF ReserveMaterializedSlot, FlightFailed, Stamp
  <2>4. Thrifty
    BY Zenon, <1>6 DEF ReserveMaterializedSlot, FlightFailed, Stamp, Thrifty, Inputs
  <2> QED
    BY ZenonT(40), <1>a, <2>1, <2>2, <2>3, <2>4, RequestRowSafe, RowFrame
<1>7. ASSUME NEW to, Goto(r, to), to \notin Tearing, UNCHANGED loc \/ \E m : Set(r, m),
             \/ UNCHANGED <<px, row>> /\ Thrifty
             \/ ReconcileTo([px EXCEPT !.inflight = @ + 1, !.used = TRUE])
             \/ ReconcileTo(px) \/ ReconcileTo(Warmed(px))
      PROVE  RowInv'
  <2>1. \A q \in Downers : RowSafe(q)
    BY Zenon, <1>7, RequestRowSafe
  <2>2. ASSUME NEW q \in {[px EXCEPT !.inflight = @ + 1, !.used = TRUE], px, Warmed(px)}
        PROVE  q \in PxType /\ q.gen = px.gen /\ q.closed = px.closed /\ q.shadow = px.shadow
    <3>1. px \in PxType
      BY Zenon DEF Inv, Typed
    <3>2. CASE q = [px EXCEPT !.inflight = @ + 1, !.used = TRUE]
      <4>0. px.inflight \in Int
        BY Zenon, <3>1 DEF PxType
      <4>1. px.inflight + 1 \in Int
        BY <4>0
      <4>2. [px EXCEPT !.inflight = @ + 1, !.used = TRUE] \in PxType
        BY Zenon, <3>1, <4>1 DEF PxType
      <4>3. q.gen = px.gen /\ q.closed = px.closed /\ q.shadow = px.shadow
        BY Zenon, <3>1, <3>2 DEF PxType
      <4> QED
        BY Zenon, <3>2, <4>2, <4>3
    <3>3. CASE q = Warmed(px)
      BY Zenon, <3>1, <3>3 DEF PxType, Warmed
    <3> QED
      BY Zenon, <3>1, <3>2, <3>3
  <2> QED
    BY Zenon, <1>7, <1>a, <2>1, <2>2, RowFrame, RowReconcile
<1>8. CASE LookUp(r) \/ AcquirePublished(r)
  <2>1. CASE Acquire(r)
    BY Zenon, <1>7, <2>1 DEF Acquire
  <2>2. CASE ~Acquire(r)
    <3>1. \E to : Goto(r, to) /\ to \notin Tearing
      BY SMTT(40), <1>8, <2>2 DEF LookUp, AcquirePublished
    <3>2. UNCHANGED <<loc, px, row>>
      BY Zenon, <1>8, <2>2 DEF LookUp, AcquirePublished
    <3>3. Thrifty
      BY Zenon, <1>8, <2>2 DEF LookUp, AcquirePublished, Thrifty, Inputs
    <3> QED
      BY Zenon, <1>7, <3>1, <3>2, <3>3
  <2> QED
    BY Zenon, <2>1, <2>2
<1>9. CASE AbandonFlight(r) \/ MarkWarmedOnFirstSuccess(r)
  <2>1. \E to : Goto(r, to) /\ to \notin Tearing
    BY SMTT(40), <1>9 DEF AbandonFlight, MarkWarmedOnFirstSuccess
  <2>2. UNCHANGED loc
    BY Zenon, <1>9 DEF AbandonFlight, MarkWarmedOnFirstSuccess
  <2>3. \/ UNCHANGED <<px, row>> /\ Thrifty
        \/ ReconcileTo(px) \/ ReconcileTo(Warmed(px))
    BY Zenon, <1>9 DEF AbandonFlight, MarkWarmedOnFirstSuccess, Thrifty
  <2> QED
    BY Zenon, <1>7, <2>1, <2>2, <2>3
<1>10. CASE DoBounded(r)
  <2>1. UNCHANGED <<px, row, budget>>
    BY Zenon, <1>10 DEF DoBounded
  <2>2. ASSUME NEW q \in Downers PROVE (pc'[q] = pc[q] /\ loc'[q] = loc[q]) \/ ~Owner(q)'
    <3>1. /\ pc = [p \in Procs |-> pc[p]] /\ loc \in [Procs -> Locals]
          /\ r # "ticker" /\ q \in Procs /\ q \notin Flights /\ r \in Procs
      BY Zenon, ProcNames DEF Inv, Typed, Downers
    <3>2. \E m : Set(r, m)
      BY Zenon, <1>10 DEF DoBounded
    <3>3. \/ \E to \in {"failed", "join"} : Goto(r, to)
          \/ \E f \in Flights : pc' = [pc EXCEPT ![r] = "join", ![f] = "start"]
      BY Zenon, <1>10 DEF DoBounded
    <3>4. CASE q # r
      BY Zenon, <3>1, <3>2, <3>3, <3>4 DEF Set, Goto
    <3>5. CASE q = r
      <4>1. pc'[q] \in {"failed", "join"}
        BY Zenon, <3>1, <3>3, <3>5 DEF Goto
      <4> QED
        BY Zenon, <3>1, <3>5, <4>1 DEF Owner
    <3> QED
      BY Zenon, <3>4, <3>5
  <2>3. \A q \in Downers : RowSafe(q)
    BY Zenon, <2>2 DEF RowSafe, Owner
  <2> QED
    BY Zenon, <1>a, <2>1, <2>3, RowFrame DEF Thrifty
<1> QED
  BY ZenonT(40), <1>1, <1>2, <1>3, <1>4, <1>5, <1>6, <1>8, <1>9, <1>10 DEF Request

\* Nobody's teardown moves.
LEMMA UntouchedRow ==
    ASSUME \A q \in Downers : \/ ~Owner(q)'
                              \/ /\ pc'[q] = pc[q] /\ loc'[q].gen = loc[q].gen
                                 /\ loc'[q].why = loc[q].why
    PROVE  \A q \in Downers : RowSafe(q)
BY Zenon DEF RowSafe, Owner

\* The processes other than the one that moves.
LEMMA OthersRow ==
    ASSUME Inv, NEW p \in Procs, \E to : Goto(p, to), UNCHANGED loc \/ \E m : Set(p, m)
    PROVE  \A q \in Procs \ {p} : pc'[q] = pc[q] /\ loc'[q] = loc[q]
BY Zenon DEF Inv, Typed, Goto, Set

\* A teardown begins, or the ticker goes on to one.
LEMMA RowTear ==
    ASSUME Inv, RowInv, Thrifty, NEW p \in Downers, px.reaping => Owner(p),
           \A q \in Procs \ {p} : pc'[q] = pc[q] /\ loc'[q] = loc[q],
           pc'[p] = "reset", px'.reaping, loc'[p].gen = px'.gen, px'.shadow = "", row' = row
    PROVE  RowInv'
<1>1. ASSUME NEW q \in Downers \ {p} PROVE ~Owner(q)'
  <2>1. ~Owner(q)
    BY Zenon DEF Inv, OwnInv
  <2>2. q \in Procs \ {p}
    BY Zenon, ProcNames
  <2> QED
    BY Zenon, <2>1, <2>2 DEF Owner
<1>2. OwnerRow(p)'
  BY Zenon DEF OwnerRow, Tearing
<1> QED
  BY Zenon, <1>1, <1>2, BudgetKept DEF RowInv, OwnerRow, ActiveIsWarm

\* Every step of a teardown keeps the row true.
LEMMA TeardownRow ==
    ASSUME Inv, Inv', RowInv, NEW p \in Procs, Teardown(p)
    PROVE  RowInv'
<1> USE DEF tSame
<1>a. PxQuiet \/ ~(UNCHANGED px)
  BY Zenon DEF PxQuiet
<1>b. px \in PxType /\ px.gen \in Nat
  BY Zenon DEF Inv, Typed, PxType
<1>c. ASSUME p \in Downers PROVE After(p) \notin Tearing /\ (p = "ticker" => After(p) = "ticker")
  <2>1. p \in Reqs \/ p \in {"ticker", "worker"}
    BY Zenon, <1>c DEF Downers, Procs
  <2> QED
    BY Zenon, <2>1, ProcNames DEF After, Tearing
<1>1. CASE OnSendFailure(p)
  <2>0. p \in Downers /\ pc[p] = "evict" /\ UNCHANGED <<row, budget>>
    BY Zenon, <1>1, AtTeardown DEF OnSendFailure
  <2>1. CASE px.closed \/ px.reaping \/ px.gen # loc[p].gen
    <3>1. Goto(p, After(p)) /\ Set(p, NoLocals) /\ UNCHANGED px
      BY Zenon, <1>1, <2>1 DEF OnSendFailure
    <3>2. \A q \in Procs \ {p} : pc'[q] = pc[q] /\ loc'[q] = loc[q]
      BY Zenon, <3>1, OthersRow
    <3>3. ~Owner(p)'
      BY Zenon, <1>c, <2>0, <3>1, Moves DEF Owner
    <3>4. \A q \in Downers : RowSafe(q)
      BY Zenon, <3>2, <3>3, UntouchedRow, ProcNames
    <3> QED
      BY ZenonT(40), <1>a, <2>0, <3>1, <3>4, RowFrame DEF Thrifty
  <2>2. CASE ~(px.closed \/ px.reaping \/ px.gen # loc[p].gen)
    <3>1. /\ px' = [TornDown(px) EXCEPT !.reaping = TRUE]
          /\ Set(p, [loc[p] EXCEPT !.gen = px.gen + 1]) /\ Goto(p, "reset")
      BY Zenon, <1>1, <2>2 DEF OnSendFailure
    <3>2. \A q \in Procs \ {p} : pc'[q] = pc[q] /\ loc'[q] = loc[q]
      BY Zenon, <3>1, OthersRow
    <3>3. px'.reaping /\ px'.gen = px.gen + 1 /\ px'.shadow = ""
      BY Zenon, <1>b, <3>1 DEF TornDown, PxType
    <3>4. pc'[p] = "reset" /\ loc'[p].gen = px.gen + 1
      BY <3>1, Moves, Sets DEF Locals
    <3> QED
      BY Zenon, <2>0, <2>2, <3>2, <3>3, <3>4, RowTear DEF Thrifty
  <2> QED
    BY Zenon, <2>1, <2>2
<1>2. CASE ResetDocRefs(p) \/ TakeHost(p) \/ StopHost(p)
  <2>1. UNCHANGED <<px, row>> /\ Thrifty
    BY Zenon, <1>2 DEF ResetDocRefs, TakeHost, StopHost, Thrifty, Inputs
  <2>2. pc[p] \in {"reset", "swap", "kill"} /\ \E to \in {"swap", "kill", "forget", "row"} : Goto(p, to)
    BY Zenon, <1>2 DEF ResetDocRefs, TakeHost, StopHost
  <2>3. /\ UNCHANGED loc \/ \E m : Set(p, m)
        /\ loc'[p].gen = loc[p].gen
    <3>1. CASE UNCHANGED loc
      BY Zenon, <3>1
    <3>2. CASE Set(p, [loc[p] EXCEPT !.victim = lc.host])
      BY <3>2, Sets DEF Locals
    <3>3. CASE Set(p, [loc[p] EXCEPT !.why = "fail"])
      BY <3>3, Sets DEF Locals
    <3> QED
      BY Zenon, <1>2, <3>1, <3>2, <3>3 DEF ResetDocRefs, TakeHost, StopHost
  <2>4. \A q \in Procs \ {p} : pc'[q] = pc[q] /\ loc'[q] = loc[q]
    BY Zenon, <2>2, <2>3, OthersRow
  <2>5. pc'[p] \in {"swap", "kill", "forget", "row"}
    BY Zenon, <2>2, Moves
  <2>6. RowSafe(p)
    BY Zenon, <2>2, <2>3, <2>5 DEF RowSafe, Owner, Tearing
  <2>7. \A q \in Downers : RowSafe(q)
    BY Zenon, <2>4, <2>6, ProcNames DEF RowSafe, Owner
  <2> QED
    BY Zenon, <1>a, <2>1, <2>7, RowFrame
<1>3. CASE ForgetGate(p) \/ StampFailed(p) \/ PublishDown(p)
  <2>1. UNCHANGED <<px, loc>> /\ (row' = row \/ row' # "active") /\ Thrifty
    BY Zenon, <1>3 DEF ForgetGate, StampFailed, PublishDown, Stamp, Thrifty, Inputs
  <2>2. \E to : Goto(p, to)
    BY Zenon, <1>3 DEF ForgetGate, StampFailed, PublishDown
  <2>3. \A q \in Procs \ {p} : pc'[q] = pc[q] /\ loc'[q] = loc[q]
    BY Zenon, <2>1, <2>2, OthersRow
  <2>4. ASSUME p \in Downers
        PROVE  /\ pc[p] \in Tearing /\ pc'[p] \in Tearing
               /\ pc'[p] \in {"notify", "tail"} =>
                    row' # "active" \/ loc[p].why = "idle" \/ pc[p] = "notify"
    <3>1. CASE ForgetGate(p)
      <4>1. Goto(p, IF loc[p].why = "idle" THEN "notify" ELSE "row") /\ pc[p] = "forget"
        BY Zenon, <2>4, <3>1 DEF ForgetGate, Downers
      <4> QED
        BY <4>1, Moves DEF Tearing
    <3>2. CASE StampFailed(p)
      BY Zenon, <3>2, Moves, BudgetKept DEF StampFailed, Stamp, Tearing
    <3>3. CASE PublishDown(p)
      BY Zenon, <3>3, Moves DEF PublishDown, Tearing
    <3> QED
      BY ZenonT(40), <1>3, <3>1, <3>2, <3>3
  <2>5. \A q \in Downers : RowSafe(q)
    BY Zenon, <2>1, <2>3, <2>4, ProcNames DEF RowSafe, Owner
  <2> QED
    BY Zenon, <1>a, <2>1, <2>5, RowFrame
<1>4. CASE EndTeardown(p)
  <2>1. p \in Downers /\ pc[p] = "tail" /\ Owner(p)
    BY Zenon, <1>4, AtTeardown DEF EndTeardown, Owner, Tearing
  <2>2. Goto(p, After(p)) /\ Set(p, NoLocals)
    BY Zenon, <1>4 DEF EndTeardown
  <2>3. \A q \in Procs \ {p} : pc'[q] = pc[q] /\ loc'[q] = loc[q]
    BY Zenon, <2>2, OthersRow
  <2>4. ASSUME NEW q \in Downers PROVE ~Owner(q)'
    <3>1. CASE q = p
      BY Zenon, <1>c, <2>1, <2>2, <3>1, Moves DEF Owner
    <3>2. CASE q # p
      <4>1. ~Owner(q)
        BY Zenon, <2>1, <3>2 DEF Inv, OwnInv
      <4> QED
        BY Zenon, <2>3, <3>2, <4>1, ProcNames DEF Owner
    <3> QED
      BY Zenon, <3>1, <3>2
  <2>5. \A q \in Downers : RowSafe(q)
    BY Zenon, <2>4, UntouchedRow
  <2>6. Released(px) \in PxType /\ Released(px).gen = px.gen /\ Released(px).closed = px.closed
        /\ Released(px).shadow = px.shadow
    BY Zenon, <1>b DEF Released, PxType
  <2>7. CASE loc[p].why = "idle" /\ loc[p].gen = px.gen
    <3>1. ReconcileTo(Released(px))
      BY Zenon, <1>4, <2>7 DEF EndTeardown
    <3> QED
      BY Zenon, <2>5, <2>6, <3>1, RowReconcile
  <2>8. CASE ~(loc[p].why = "idle" /\ loc[p].gen = px.gen)
    <3>1. px' = Released(px) /\ UNCHANGED <<row, budget>>
      BY Zenon, <1>4, <2>8 DEF EndTeardown
    <3>2. row = "active" => px.closed
      BY Zenon, <2>1, <2>8 DEF RowInv, OwnerRow, Tearing
    <3>3. ActiveIsWarm' /\ (row' = "active" => px'.shadow \in {"active", ""})
      BY Zenon, <2>6, <3>1, <3>2 DEF RowInv, ActiveIsWarm
    <3> QED
      BY Zenon, <2>4, <3>1, <3>3 DEF RowInv, OwnerRow
  <2> QED
    BY Zenon, <2>7, <2>8
<1> QED
  BY Zenon, <1>1, <1>2, <1>3, <1>4 DEF Teardown

\* Every step of the ticker keeps the row true.
LEMMA ReapRow ==
    ASSUME Inv, RowInv, Tick \/ Reap
    PROVE  RowInv'
<1> USE DEF tSame
<1>a. px \in PxType /\ px.gen \in Nat /\ "ticker" \in Procs /\ "ticker" \in Downers
  BY Zenon, TickerIs DEF Inv, Typed, PxType
<1>b. UNCHANGED row /\ Thrifty
  BY Zenon DEF Tick, Reap, ReapIdleBackend, ReapWedgedProbation, ReadOrphanRow, ReapOrphan, Thrifty, Inputs
<1>c. (\E to : Goto("ticker", to)) /\ (UNCHANGED loc \/ \E m : Set("ticker", m))
  BY Zenon DEF Tick, Reap, ReapIdleBackend, ReapWedgedProbation, ReadOrphanRow, ReapOrphan
<1>d. \A q \in Procs \ {"ticker"} : pc'[q] = pc[q] /\ loc'[q] = loc[q]
  BY Zenon, <1>a, <1>c, OthersRow
<1>e. ASSUME ~Owner("ticker")' PROVE \A q \in Downers : RowSafe(q)
  BY Zenon, <1>d, <1>e, UntouchedRow, ProcNames
<1>f. ASSUME UNCHANGED px, ~Owner("ticker")' PROVE RowInv'
  BY Zenon, <1>b, <1>e, <1>f, RowFrame DEF PxQuiet
<1>1. CASE Tick
  <2>1. UNCHANGED px /\ pc'["ticker"] \in {"idle", "probation"}
    BY Zenon, <1>1, <1>a, Moves DEF Tick
  <2> QED
    BY Zenon, <1>f, <2>1 DEF Owner, Tearing
<1>2. CASE ReapIdleBackend
  <2>1. CASE Goto("ticker", "ticker") /\ UNCHANGED px
    BY Zenon, <1>a, <1>f, <2>1, Moves DEF Owner, Tearing
  <2>2. CASE /\ ~px.reaping /\ px' = [TornDown(px) EXCEPT !.reaping = TRUE]
             /\ Set("ticker", [loc["ticker"] EXCEPT !.gen = px.gen + 1, !.why = "idle"])
             /\ Goto("ticker", "reset")
    <3>1. px'.reaping /\ px'.gen = px.gen + 1 /\ px'.shadow = ""
      BY Zenon, <1>a, <2>2 DEF TornDown, PxType
    <3>2. pc'["ticker"] = "reset" /\ loc'["ticker"].gen = px.gen + 1
      <4>1. loc'["ticker"] = [loc["ticker"] EXCEPT !.gen = px.gen + 1, !.why = "idle"]
            /\ loc["ticker"] \in Locals /\ pc'["ticker"] = "reset"
        BY <1>a, <2>2, Moves, Sets
      <4> QED
        BY Zenon, <4>1 DEF Locals
    <3> QED
      BY ZenonT(40), <1>a, <1>b, <1>d, <2>2, <3>1, <3>2, RowTear
  <2> QED
    BY Zenon, <1>2, <2>1, <2>2 DEF ReapIdleBackend
<1>3. CASE ReapWedgedProbation
  <2>1. CASE Goto("ticker", "ticker") /\ UNCHANGED px
    BY Zenon, <1>a, <1>f, <2>1, Moves DEF Owner, Tearing
  <2>2. CASE /\ ~px.reaping
             /\ px' = [TornDown(px) EXCEPT !.reaping = TRUE,
                          !.severed = IF px.inflight > 0 THEN px.gen ELSE @]
             /\ Set("ticker", [loc["ticker"] EXCEPT !.gen = px.gen + 1])
             /\ Goto("ticker", "reset")
    <3>1. px'.reaping /\ px'.gen = px.gen + 1 /\ px'.shadow = ""
      BY Zenon, <1>a, <2>2 DEF TornDown, PxType
    <3>2. pc'["ticker"] = "reset" /\ loc'["ticker"].gen = px.gen + 1
      BY <1>a, <2>2, Moves, Sets DEF Locals
    <3> QED
      BY ZenonT(40), <1>a, <1>b, <1>d, <2>2, <3>1, <3>2, RowTear
  <2>3. CASE /\ ~px.reaping /\ px.endpoint = 0
             /\ px' = [px EXCEPT !.reaping = TRUE] /\ Goto("ticker", "orphan")
    <3>1. px'.reaping /\ px'.closed = px.closed /\ px'.shadow = px.shadow
      BY Zenon, <1>a, <2>3 DEF PxType
    <3>2. row = "active" => px.closed
      BY Zenon, <2>3 DEF RowInv, ActiveIsWarm
    <3>3. ASSUME NEW q \in Downers \ {"ticker"} PROVE ~Owner(q)'
      BY ZenonT(40), <1>d, <2>3, <3>3, ProcNames DEF Inv, OwnInv, Owner
    <3>4. pc'["ticker"] = "orphan"
      BY Zenon, <1>a, <2>3, Moves
    <3>5. OwnerRow("ticker")'
      BY Zenon, <1>b, <3>1, <3>2, <3>4 DEF OwnerRow, Tearing
    <3> QED
      BY Zenon, <1>b, <3>1, <3>3, <3>5, BudgetKept DEF RowInv, ActiveIsWarm, OwnerRow
  <2> QED
    BY ZenonT(40), <1>3, <2>1, <2>2, <2>3 DEF ReapWedgedProbation
<1>4. CASE ReadOrphanRow
  <2>1. UNCHANGED <<px, loc>> /\ pc["ticker"] = "orphan" /\ pc'["ticker"] \in {"unread", "free", "disarm"}
    BY Zenon, <1>4, <1>a, Moves DEF ReadOrphanRow
  <2>2. RowSafe("ticker")
    BY Zenon, <2>1 DEF RowSafe, Owner, Tearing
  <2>3. \A q \in Downers : RowSafe(q)
    BY Zenon, <1>d, <2>2, ProcNames DEF RowSafe, Owner
  <2> QED
    BY Zenon, <1>b, <2>1, <2>3, RowFrame DEF PxQuiet
<1>5. CASE ReapOrphan
  <2>1. pc["ticker"] \in {"unread", "disarm", "free"} /\ Owner("ticker")
    BY Zenon, <1>5 DEF ReapOrphan, Owner
  <2>2. row = "active" => px.closed
    BY ZenonT(40), <1>a, <2>1 DEF RowInv, OwnerRow, Tearing
  <2>3. ASSUME NEW q \in Downers \ {"ticker"} PROVE ~Owner(q)'
    BY ZenonT(40), <1>a, <1>d, <2>1, <2>3, ProcNames DEF Inv, OwnInv, Owner
  <2>4. CASE /\ px' = [px EXCEPT !.reaping = FALSE, !.marker = @ /\ pc["ticker"] = "unread"]
             /\ Goto("ticker", "ticker")
    <3>1. px'.closed = px.closed /\ px'.shadow = px.shadow
      BY Zenon, <1>a, <2>4 DEF PxType
    <3>2. ~Owner("ticker")'
      BY Zenon, <1>a, <2>4, Moves DEF Owner, Tearing
    <3> QED
      BY ZenonT(40), <1>b, <2>2, <2>3, <3>1, <3>2, BudgetKept DEF RowInv, ActiveIsWarm, OwnerRow
  <2>5. CASE /\ px' = [px EXCEPT !.gen = @ + 1, !.marker = FALSE, !.shadow = ""]
             /\ Set("ticker", [loc["ticker"] EXCEPT !.gen = px.gen + 1])
             /\ Goto("ticker", "reset")
    <3>1. px.reaping
      BY Zenon, <1>a, <2>1 DEF Inv, OwnInv
    <3>2. px'.reaping /\ px'.gen = px.gen + 1 /\ px'.shadow = ""
      BY Zenon, <1>a, <2>5, <3>1 DEF PxType
    <3>3. pc'["ticker"] = "reset" /\ loc'["ticker"].gen = px.gen + 1
      BY <1>a, <2>5, Moves, Sets DEF Locals
    <3> QED
      BY ZenonT(40), <1>a, <1>b, <1>d, <2>1, <3>2, <3>3, RowTear
  <2> QED
    BY Zenon, <1>5, <2>4, <2>5 DEF ReapOrphan
<1> QED
  BY Zenon, <1>1, <1>2, <1>3, <1>4, <1>5 DEF Reap

\* A process outside the teardowns moves.
LEMMA BystanderRow ==
    ASSUME Inv, NEW p \in Procs \ Downers, \E to : Goto(p, to),
           UNCHANGED loc \/ \E m : Set(p, m)
    PROVE  \A q \in Downers : RowSafe(q)
<1>1. \A q \in Procs \ {p} : pc'[q] = pc[q] /\ loc'[q] = loc[q]
  BY Zenon, OthersRow
<1> QED
  BY Zenon, <1>1, UntouchedRow, ProcNames

\* A flight's end leaves the joined requests where they are.
LEMMA DeliverRow ==
    ASSUME Inv, NEW f \in Flights, NEW out, Deliver(f, out), Goto(f, "free")
    PROVE  \A q \in Downers : RowSafe(q)
<1>1. ASSUME NEW q \in Downers
      PROVE  pc'[q] = pc[q] /\ loc'[q].gen = loc[q].gen /\ loc'[q].why = loc[q].why
  <2>1. q \in Procs /\ q # f
    BY Zenon, FlightIs, ProcNames
  <2>2. pc'[q] = pc[q]
    BY ZenonT(40), <2>1, FlightIs DEF Inv, Typed, Goto
  <2>3. loc[q] \in Locals /\ loc'[q] \in {loc[q], [loc[q] EXCEPT !.res = out]}
    BY Zenon, <2>1 DEF Inv, Typed, Deliver
  <2> QED
    BY Zenon, <2>2, <2>3 DEF Locals
<1> QED
  BY Zenon, <1>1, UntouchedRow

\* Every step of a flight keeps the row true.
LEMMA FlightRow ==
    ASSUME Inv, Inv', RowInv, NEW f \in Flights, Flight(f)
    PROVE  RowInv'
<1> USE DEF tSame
<1>a. px \in PxType /\ px.gen \in Nat /\ f \in Procs \ Downers
  BY Zenon, FlightIs DEF Inv, Typed, PxType
<1>1. CASE BeginFlight(f) \/ EndFlight(f)
  <2>1. UNCHANGED <<px, row, budget>>
    BY Zenon, <1>1 DEF BeginFlight, EndFlight
  <2>2. \A q \in Downers : RowSafe(q)
    <3>1. CASE \E out : Deliver(f, out) /\ Goto(f, "free")
      BY Zenon, <3>1, DeliverRow
    <3>2. CASE UNCHANGED loc /\ Goto(f, "check")
      BY Zenon, <1>a, <3>2, BystanderRow
    <3> QED
      BY Zenon, <1>1, <3>1, <3>2 DEF BeginFlight, EndFlight
  <2> QED
    BY Zenon, <2>1, <2>2, RowFrame DEF PxQuiet, Thrifty
<1>2. CASE CheckLive(f) \/ ExposeEndpoint(f)
  <2>1. (\E to : Goto(f, to)) /\ (UNCHANGED loc \/ \E m : Set(f, m))
    BY Zenon, <1>2 DEF CheckLive, ExposeEndpoint, DropBackend
  <2>2. \A q \in Downers : RowSafe(q)
    BY Zenon, <1>a, <2>1, BystanderRow
  <2>3. CASE px' \in {px, [px EXCEPT !.marker = FALSE]} /\ UNCHANGED <<row, budget>>
    <3>1. PxQuiet
      BY Zenon, <1>a, <2>3 DEF PxQuiet, PxType
    <3> QED
      BY ZenonT(40), <2>2, <2>3, <3>1, RowFrame DEF Thrifty
  <2>4. CASE ReconcileTo(px)
    BY Zenon, <1>a, <2>2, <2>4, RowReconcile
  <2>5. CASE /\ pc[f] = "expose"
             /\ ReconcileTo([px EXCEPT !.endpoint = loc[f].host, !.marker = FALSE])
    <3>1. loc[f].host \in Backends \cup {0}
      BY ZenonT(40), <1>a DEF Inv, Typed, Locals
    <3> DEFINE q == [px EXCEPT !.endpoint = loc[f].host, !.marker = FALSE]
    <3>2. q \in PxType /\ q.gen = px.gen /\ q.closed = px.closed /\ q.shadow = px.shadow
      BY Zenon, <1>a, <3>1 DEF PxType
    <3> HIDE DEF q
    <3>3. ReconcileTo(q)
      BY Zenon, <2>5 DEF q
    <3> QED
      BY ZenonT(40), <2>2, <3>2, <3>3, RowReconcile
  <2> QED
    BY Zenon, <1>2, <2>3, <2>4, <2>5 DEF CheckLive, ExposeEndpoint
<1>3. CASE Materialize(f) \/ Handshake(f) \/ StampFlight(f) \/ PostStarting(f) \/ AwaitAck(f)
  <2>1. UNCHANGED px /\ (row' = row \/ row' # "active") /\ Thrifty
    BY Zenon, <1>3 DEF Materialize, Handshake, StampFlight, PostStarting, AwaitAck, Stamp, Thrifty, Inputs
  <2>2. (\E to : Goto(f, to)) /\ (UNCHANGED loc \/ \E m : Set(f, m))
    BY Zenon, <1>3 DEF Materialize, Handshake, StampFlight, PostStarting, AwaitAck
  <2>3. \A q \in Downers : RowSafe(q)
    BY Zenon, <1>a, <2>2, BystanderRow
  <2> QED
    BY Zenon, <2>1, <2>3, RowFrame DEF PxQuiet
<1>4. CASE AckFailed(f) \/ OpenGeneration(f)
  <2>1. (\E to : Goto(f, to)) /\ (UNCHANGED loc \/ \E m : Set(f, m)) /\ UNCHANGED <<row, budget>>
    BY Zenon, <1>4 DEF AckFailed, OpenGeneration, DropBackend
  <2>2. \A q \in Downers : RowSafe(q)
    BY Zenon, <1>a, <2>1, BystanderRow
  <2>3. CASE px' \in {px, [px EXCEPT !.marker = FALSE],
                      [px EXCEPT !.marker = @ /\ px.gen # loc[f].gen]}
    <3>1. PxQuiet
      BY ZenonT(40), <1>a, <2>3 DEF PxQuiet, PxType
    <3> QED
      BY ZenonT(40), <2>1, <2>2, <3>1, RowFrame DEF Thrifty
  <2>4. CASE /\ ~px.closed /\ ~px.reaping /\ px.endpoint = 0
             /\ px' = [px EXCEPT !.gen = @ + 1, !.shadow = "", !.warmed = FALSE]
    <3>1. row # "active"
      BY Zenon, <2>4 DEF RowInv, ActiveIsWarm
    <3>2. \A q \in Downers : ~Owner(q)'
      BY Zenon, <2>2, <2>4 DEF RowSafe, Inv, OwnInv
    <3> QED
      BY Zenon, <2>1, <3>1, <3>2 DEF RowInv, ActiveIsWarm, OwnerRow
  <2> QED
    BY Zenon, <1>4, <2>3, <2>4 DEF AckFailed, OpenGeneration
<1> QED
  BY ZenonT(40), <1>1, <1>2, <1>3, <1>4 DEF Flight

\* The readiness worker, Stop and the environment keep the row true.
LEMMA OutsideRow ==
    ASSUME Inv, RowInv,
           \/ Work \/ Stop \/ (\E b \in Backends : Exit(b)) \/ RetryGap \/ UNCHANGED vars
    PROVE  RowInv'
<1> USE DEF tSame
<1>a. px \in PxType
  BY Zenon DEF Inv, Typed
<1>b. UNCHANGED row /\ Thrifty
  BY Zenon DEF Work, TakeReadiness, SendReadiness, WatchExit, Stop, CallStop, HaltReadiness, WorkerDone,
         CloseEndpoint, Exit, RetryGap, vars, Thrifty, Inputs
<1>1. CASE Work \/ WorkerDone
  <2>1. UNCHANGED px /\ pc'["worker"] \in {"sending", "worker", "evict", "gone"}
        /\ \A q \in Procs \ {"worker", "stopper"} : pc'[q] = pc[q] /\ loc'[q] = loc[q]
    <3>1. CASE WorkerDone
      BY ZenonT(40), <3>1, WorkerIs, StopperIs DEF WorkerDone, Inv, Typed
    <3>2. CASE Work
      <4>1. UNCHANGED px /\ \E to \in {"sending", "worker", "evict"} : Goto("worker", to)
        BY Zenon, <3>2 DEF Work, TakeReadiness, SendReadiness, WatchExit
      <4>2. UNCHANGED loc \/ \E m : Set("worker", m)
        BY Zenon, <3>2 DEF Work, TakeReadiness, SendReadiness, WatchExit
      <4> QED
        BY ZenonT(40), <4>1, <4>2, OthersRow, WorkerIs, Moves
    <3> QED
      BY Zenon, <1>1, <3>1, <3>2
  <2>2. ~Owner("worker")'
    BY Zenon, <2>1 DEF Owner, Tearing
  <2>3. \A q \in Downers : RowSafe(q)
    BY ZenonT(40), <2>1, <2>2, UntouchedRow, StopperIs, ProcNames
  <2> QED
    BY ZenonT(40), <1>b, <2>1, <2>3, RowFrame DEF PxQuiet
<1>2. CASE CallStop \/ HaltReadiness \/ CloseEndpoint
  <2>1. (\E to : Goto("stopper", to)) /\ UNCHANGED loc
    BY Zenon, <1>2 DEF CallStop, HaltReadiness, CloseEndpoint
  <2>2. \A q \in Downers : RowSafe(q)
    BY Zenon, <2>1, BystanderRow, StopperIs
  <2>3. CASE CallStop \/ HaltReadiness
    <3>1. px' \in {px, [px EXCEPT !.closed = TRUE]}
      BY Zenon, <2>3 DEF CallStop, HaltReadiness
    <3>2. PxQuiet
      BY Zenon, <1>a, <3>1 DEF PxQuiet, PxType
    <3> QED
      BY Zenon, <1>b, <2>2, <3>2, RowFrame
  <2>4. CASE CloseEndpoint
    <3>1. px.closed
      BY Zenon, <2>4 DEF CloseEndpoint, Inv, GenInv
    <3>2. px'.closed /\ px'.shadow = ""
      BY Zenon, <1>a, <2>4, <3>1 DEF CloseEndpoint, TornDown, PxType
    <3> QED
      BY ZenonT(40), <1>b, <3>2, BudgetKept DEF RowInv, ActiveIsWarm, OwnerRow
  <2> QED
    BY Zenon, <1>2, <2>3, <2>4
<1>3. CASE (\E b \in Backends : Exit(b)) \/ RetryGap \/ UNCHANGED vars
  <2>1. UNCHANGED <<pc, loc, px>>
    BY Zenon, <1>3 DEF Exit, RetryGap, vars
  <2>2. \A q \in Downers : RowSafe(q)
    BY Zenon, <2>1, UntouchedRow
  <2> QED
    BY Zenon, <1>b, <2>1, <2>2, RowFrame DEF PxQuiet
<1> QED
  BY ZenonT(40), <1>1, <1>2, <1>3 DEF Stop

\* ActiveIsWarm, where no write of the registry fails: whatever the requests,
\* flights and reapers do to each other, a row that says active is that of a
\* published backend that has answered, unless a teardown or Stop is under way.
THEOREM ActiveIsWarmHolds == Spec /\ budget["write"] = 0 => []ActiveIsWarm
<1>1. Init /\ budget["write"] = 0 => RowInv
  <2> SUFFICES ASSUME Init, budget["write"] = 0 PROVE RowInv
    BY Zenon
  <2>1. row # "active" /\ budget \in [Inputs -> Nat]
    BY Zenon, LazyAssumption DEF Init
  <2>2. Inv /\ \A q \in Downers : ~Owner(q)
    BY Zenon, InitInv DEF Init, Inv, OwnInv
  <2> QED
    BY Zenon, <2>1, <2>2 DEF RowInv, ActiveIsWarm, OwnerRow
<1>2. Inv /\ Inv' /\ RowInv /\ [Next]_vars => RowInv'
  BY ZenonT(40), RequestRow, FlightRow, TeardownRow, ReapRow, OutsideRow DEF Next
<1>3. RowInv => ActiveIsWarm
  BY Zenon DEF RowInv
<1> QED
  BY <1>1, <1>2, <1>3, LazyInvariant, PTL DEF Spec
=============================================================================
