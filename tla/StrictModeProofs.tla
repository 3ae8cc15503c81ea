-------------------------- MODULE StrictModeProofs --------------------------
(***************************************************************************)
(* The safety properties of StrictMode, for any number of processes,       *)
(* commands and faults.  Inv is the inductive invariant: what a process    *)
(* holds in its locals at each step (Own), and, as long as commands have   *)
(* not overlapped, what that says of the two resources and the breadcrumb  *)
(* (Alone).  Every step of a process inside the locks goes through         *)
(* Assemble, every return through ReturnStep.                              *)
(***************************************************************************)
EXTENDS StrictMode, TLAPS

AnyPolicies == [strict : BOOLEAN, owner : {"none", "gui", "supervise"}]

AnyCrumbs == [phase : {"none", "in-progress", "torn"}, intended : AnyPolicies, actual : AnyPolicies]

Locals ==
  [cmd : {"none", "strict", "owner", "recover"}, want : AnyPolicies, orig : AnyPolicies,
   known : BOOLEAN, snap : Shims, crumb : AnyCrumbs, ok : BOOLEAN, applied : BOOLEAN]

Outside == {"idle", "locks"}

\* The steps of a command that come after its breadcrumb and before Clear.
Changing == {"write", "reread", "project", "enable", "revert", "reprobe", "tear"}

\* What process p has in its locals, and what its step says of the files: nobody
\* else changes them while it holds the locks.
Own(p) ==
  LET l == loc[p]
  IN  /\ pc[p] \in Changing \cup {"mark", "clear", "audit", "reassert"} => l.want \in Policies
      /\ pc[p] \in Changing \cup {"mark", "clear", "audit"} /\ l.cmd # "recover"
           => l.orig \in Policies
      /\ l.cmd = "recover" => /\ l.crumb.phase # "none"
                              /\ l.crumb.intended \in Policies /\ l.crumb.actual \in Policies
      /\ pc[p] = "tear" => l.crumb.actual \in Policies
      /\ pc[p] \in {"idle", "snapshot", "mark", "reread", "revert", "reprobe", "tear", "audit"}
           => l.cmd # "recover"
      /\ pc[p] \in {"choose", "reassert"} => l.cmd = "recover"
      /\ pc[p] \notin {"clear", "audit"} => ~l.ok
      /\ pc[p] \in {"project", "enable", "audit"} => intent = l.want
      /\ pc[p] = "clear" /\ l.ok => intent = l.want
      /\ pc[p] = "reprobe" => intent = l.orig
      /\ pc[p] = "enable" => autorun # "off"
      /\ pc[p] \in Changing /\ l.cmd # "recover" => crumb # NoCrumb

\* Shim s launches the policy, and is there if the operator has one.
SyncedWith(policy, s) ==
  /\ s # Absent => s.policy = policy
  /\ installed => s # Absent /\ s.on

\* What the step of the only running process says of the two resources.
Alone(p) ==
  LET l == loc[p]
  IN  /\ pc[p] = "clear" => InSync
      /\ pc[p] # "clear" /\ l.cmd = "recover" => crumb # NoCrumb
      /\ pc[p] \in {"locks", "snapshot", "mark"} /\ l.cmd # "recover" => crumb = NoCrumb
      /\ pc[p] \in {"mark", "write", "reread", "project"} /\ l.cmd # "recover"
           => SyncedWith(l.orig, shim)
      /\ pc[p] \in {"mark", "write", "reread", "project", "enable", "revert", "reprobe"}
           /\ l.cmd # "recover" /\ l.known
           => SyncedWith(l.orig, l.snap)

Typed ==
  /\ TypeOK
  /\ os \in OSes /\ loc \in [Procs -> Locals] /\ overlapped \in BOOLEAN /\ installed \in BOOLEAN

\* An OFF preference goes with an operator who has no shim.
OffIsOff == autorun = "off" => ~installed

\* While no two commands have overlapped.
Lonely == \A p, q \in Procs : pc[p] # "idle" /\ pc[q] # "idle" => p = q

Marked == crumb = NoCrumb => InSync

Quiet == ~overlapped => /\ Lonely
                        /\ os # "darwin" => Marked /\ \A p \in Procs : Alone(p)

Inv == Typed /\ OffIsOff /\ (\A p \in Procs : Own(p)) /\ Quiet

\* A process inside the locks is the only one there.
LEMMA OneInside ==
  ASSUME Typed, NEW p \in Procs, pc[p] \notin Outside
  PROVE  lock = p /\ \A q \in Procs \ {p} : pc[q] \in Outside
BY DEF Typed, TypeOK, Outside

\* The step of process p says nothing about another process: either p holds the
\* locks, and the other is outside them, or no file changes.
LEMMA OthersOwn ==
  ASSUME Inv, NEW p \in Procs, NEW q \in Procs \ {p}, pc'[q] = pc[q], loc'[q] = loc[q],
         lock = p \/ UNCHANGED <<intent, autorun, crumb>>
  PROVE  Own(q)'
<1>1. Own(q)
  BY DEF Inv
<1>2. CASE lock = p
  <2>1. pc[q] \in Outside
    BY <1>2 DEF Inv, Typed, TypeOK, Outside
  <2> QED
    BY <1>1, <2>1 DEF Own, Outside, Changing
<1>3. CASE UNCHANGED <<intent, autorun, crumb>>
  BY <1>1, <1>3 DEF Own
<1> QED
  BY <1>2, <1>3

\* A step of process p, put together: it is enough to look at p.
LEMMA Assemble ==
  ASSUME Inv, NEW p \in Procs, pc[p] # "idle",
         pc' = [pc EXCEPT ![p] = pc'[p]], pc'[p] \in Steps,
         loc' = [loc EXCEPT ![p] = loc'[p]], loc'[p] \in Locals,
         UNCHANGED <<os, overlapped>>,
         lock' = IF pc'[p] \notin Outside THEN p ELSE IF lock = p THEN Free ELSE lock,
         pc'[p] \notin Outside => lock \in {p, Free},
         lock = p \/ UNCHANGED <<intent, autorun, crumb>>,
         intent' \in Policies, shim' \in Shims, autorun' \in {"legacy", "on", "off"},
         crumb' \in Crumbs, installed' \in BOOLEAN,
         OffIsOff', Own(p)',
         ~overlapped /\ os # "darwin" => Marked' /\ Alone(p)'
  PROVE  Inv'
<1>1. Typed
  BY DEF Inv
<1>2. \A q \in Procs \ {p} : pc'[q] = pc[q] /\ loc'[q] = loc[q]
  BY <1>1 DEF Typed, TypeOK
<1>3. Free \notin Procs
  BY StrictAssumption DEF Free
<1>4. \A q \in Procs : (lock' = q) <=> pc'[q] \notin Outside
  BY <1>1, <1>2, <1>3 DEF Typed, TypeOK, Outside
<1>5. pc' \in [Procs -> Steps] /\ loc' \in [Procs -> Locals]
  BY <1>1 DEF Typed, TypeOK
<1>6. Typed'
  BY <1>1, <1>4, <1>5 DEF Typed, TypeOK, Outside
<1>7. \A q \in Procs : Own(q)'
  <2> SUFFICES ASSUME NEW q \in Procs \ {p} PROVE Own(q)'
    OBVIOUS
  <2> QED
    BY <1>2, OthersOwn
<1>8. ASSUME ~overlapped PROVE Lonely'
  <2>1. \A q \in Procs \ {p} : pc[q] = "idle"
    BY <1>8 DEF Inv, Quiet, Lonely
  <2> QED
    BY <1>2, <2>1 DEF Lonely
<1>9. ASSUME ~overlapped, os # "darwin", NEW q \in Procs \ {p} PROVE Alone(q)'
  <2>1. pc[q] = "idle" /\ Own(q)
    BY <1>9 DEF Inv, Quiet, Lonely
  <2>2. pc'[q] = "idle" /\ loc'[q].cmd # "recover"
    BY <1>2, <2>1 DEF Own
  <2> QED
    BY <2>2 DEF Alone
<1>10. Quiet'
  BY <1>8, <1>9 DEF Quiet
<1> QED
  BY <1>6, <1>7, <1>10 DEF Inv

\* A process that returns, or is killed, gives up the locks and its locals.
LEMMA ReturnStep ==
  ASSUME Inv, NEW p \in Procs, pc[p] # "idle", Return(p), UNCHANGED <<os, overlapped>>,
         UNCHANGED <<shim, autorun, installed>>,
         intent' \in Policies, crumb' \in Crumbs,
         lock = p \/ UNCHANGED <<intent, crumb>>,
         ~overlapped /\ os # "darwin" => Marked'
  PROVE  Inv'
<1>1. Typed
  BY DEF Inv
<1>2. pc'[p] = "idle" /\ pc' = [pc EXCEPT ![p] = "idle"] /\ loc'[p] = NoLocals /\ loc' = [loc EXCEPT ![p] = NoLocals]
  BY <1>1 DEF Return, Goto, Typed, TypeOK
<1>3. NoLocals \in Locals
  BY DEF NoLocals, Locals, NoPolicy, AnyPolicies, Absent, Shims, NoCrumb, AnyCrumbs
<1>4. Own(p)' /\ Alone(p)'
  BY <1>2 DEF Own, Alone, NoLocals, Changing
<1>5. lock' = IF pc'[p] \notin Outside THEN p ELSE IF lock = p THEN Free ELSE lock
  BY <1>2 DEF Return, Outside
<1>6. /\ shim' \in Shims /\ autorun' \in {"legacy", "on", "off"} /\ installed' \in BOOLEAN
      /\ OffIsOff'
  BY <1>1 DEF Inv, Typed, TypeOK, OffIsOff
<1>7. pc'[p] \in Outside /\ pc'[p] \in Steps
  BY <1>2 DEF Outside, Steps
<1> QED
  BY Zenon, <1>2, <1>3, <1>4, <1>5, <1>6, <1>7, Assemble

\* ... also when it changed nothing.
LEMMA GiveUpStep ==
  ASSUME Inv, NEW p \in Procs, pc[p] # "idle", Return(p), UNCHANGED <<os, overlapped, Files>>
  PROVE  Inv'
<1>1. UNCHANGED <<intent, shim, autorun, crumb, installed>>
  BY DEF Files
<1>2. intent' \in Policies /\ crumb' \in Crumbs
  BY <1>1 DEF Inv, Typed, TypeOK
<1>3. ~overlapped /\ os # "darwin" => Marked'
  BY <1>1 DEF Inv, Quiet, Marked, InSync
<1> QED
  BY <1>1, <1>2, <1>3, ReturnStep

\* Process p goes on inside the locks.
LEMMA WorkStep ==
  ASSUME Inv, NEW p \in Procs, pc[p] \notin Outside,
         NEW to \in Steps \ Outside, Goto(p, to),
         loc' = [loc EXCEPT ![p] = loc'[p]], loc'[p] \in Locals,
         UNCHANGED <<os, overlapped, lock>>,
         intent' \in Policies, shim' \in Shims, autorun' \in {"legacy", "on", "off"},
         crumb' \in Crumbs, installed' \in BOOLEAN, OffIsOff',
         Own(p)', ~overlapped /\ os # "darwin" => Marked' /\ Alone(p)'
  PROVE  Inv'
<1>1. Typed /\ lock = p
  BY OneInside DEF Inv
<1>2. pc'[p] = to /\ pc' = [pc EXCEPT ![p] = to]
  BY <1>1 DEF Goto, Typed, TypeOK
<1>3. pc[p] # "idle"
  BY DEF Outside
<1>4. lock' = IF pc'[p] \notin Outside THEN p ELSE IF lock = p THEN Free ELSE lock
  BY <1>1, <1>2
<1> QED
  BY Zenon, <1>1, <1>2, <1>3, <1>4, Assemble

\* ... and leaves the files alone.
LEMMA GoOnStep ==
  ASSUME Inv, NEW p \in Procs, pc[p] \notin Outside,
         NEW to \in Steps \ Outside, Goto(p, to),
         loc' = [loc EXCEPT ![p] = loc'[p]], loc'[p] \in Locals,
         UNCHANGED <<os, overlapped, lock, Files>>,
         Own(p)', ~overlapped /\ os # "darwin" => Alone(p)'
  PROVE  Inv'
<1>1. UNCHANGED <<intent, shim, autorun, crumb, installed>>
  BY DEF Files
<1>2. /\ intent' \in Policies /\ shim' \in Shims /\ autorun' \in {"legacy", "on", "off"}
      /\ crumb' \in Crumbs /\ installed' \in BOOLEAN /\ OffIsOff'
  BY <1>1 DEF Inv, Typed, TypeOK, OffIsOff
<1>3. ~overlapped /\ os # "darwin" => Marked'
  BY <1>1 DEF Inv, Quiet, Marked, InSync
<1> QED
  BY <1>2, <1>3, WorkStep

---------------------------------------------------------------------------
(* Entry *)

\* A command begins: any other running process makes it an overlap.
LEMMA BeginStep ==
  ASSUME Inv, NEW p \in Procs, NEW l \in Locals, Begin(p, l),
         l.cmd = "recover" => /\ l.crumb.phase # "none" /\ l.crumb.intended \in Policies
                              /\ l.crumb.actual \in Policies /\ crumb # NoCrumb,
         l.cmd # "recover" => crumb = NoCrumb,
         ~l.ok
  PROVE  Inv'
<1>1. /\ pc[p] = "idle" /\ pc' = [pc EXCEPT ![p] = "locks"] /\ loc' = [loc EXCEPT ![p] = l]
      /\ overlapped' = (overlapped \/ \E q \in Procs : pc[q] # "idle")
      /\ UNCHANGED <<os, lock, intent, shim, autorun, crumb, installed>>
  BY DEF Begin, Goto, Files
<1>2. Typed
  BY DEF Inv
<1>3. /\ pc'[p] = "locks" /\ loc'[p] = l
      /\ \A q \in Procs \ {p} : pc'[q] = pc[q] /\ loc'[q] = loc[q]
  BY <1>1, <1>2 DEF Typed, TypeOK
<1>4. Typed'
  <2>1. pc' \in [Procs -> Steps] /\ loc' \in [Procs -> Locals]
    BY <1>1, <1>2 DEF Typed, TypeOK, Steps
  <2>2. \A q \in Procs : (lock' = q) <=> pc'[q] \notin {"idle", "locks"}
    BY <1>1, <1>2, <1>3 DEF Typed, TypeOK
  <2>3. overlapped' \in BOOLEAN
    BY <1>1
  <2> QED
    BY <1>1, <1>2, <2>1, <2>2, <2>3 DEF Typed, TypeOK
<1>5. Own(p)'
  BY <1>3 DEF Own, Changing
<1>6. \A q \in Procs \ {p} : Own(q)'
  BY <1>1, <1>3, OthersOwn
<1>7. ASSUME ~overlapped' PROVE Lonely' /\ (os' # "darwin" => Marked' /\ \A q \in Procs : Alone(q)')
  <2>1. ~overlapped /\ \A q \in Procs : pc[q] = "idle"
    BY Zenon, <1>1, <1>7
  <2>2. Lonely'
    BY <1>3, <2>1 DEF Lonely
  <2>3. os # "darwin" => Marked'
    BY <1>1, <2>1 DEF Inv, Quiet, Marked, InSync
  <2>4. Alone(p)'
    BY <1>1, <1>3 DEF Alone
  <2>5. ASSUME NEW q \in Procs \ {p} PROVE Alone(q)'
    <3>1. pc'[q] = "idle" /\ loc'[q].cmd # "recover"
      BY <1>3, <2>1 DEF Inv, Own
    <3> QED
      BY <3>1 DEF Alone
  <2> QED
    BY <1>1, <2>2, <2>3, <2>4, <2>5
<1>8. OffIsOff'
  BY <1>1 DEF Inv, OffIsOff
<1> QED
  BY <1>4, <1>5, <1>6, <1>7, <1>8 DEF Inv, Quiet

\* The strict-mode command begins.
LEMMA RunStrictModeStep ==
  ASSUME Inv, NEW p \in Procs, RunStrictMode(p)
  PROVE  Inv'
<1>1. PICK desired \in BOOLEAN :
        Begin(p, [NoLocals EXCEPT !.cmd = "strict", !.want = [strict |-> desired, owner |-> "none"]])
  BY Zenon DEF RunStrictMode
<1> DEFINE l == [NoLocals EXCEPT !.cmd = "strict", !.want = [strict |-> desired, owner |-> "none"]]
<1>2. l \in Locals /\ l.cmd = "strict" /\ ~l.ok
  BY Zenon DEF NoLocals, Locals, NoPolicy, AnyPolicies, Absent, Shims, NoCrumb, AnyCrumbs
<1>3. Begin(p, l) /\ crumb = NoCrumb
  BY <1>1 DEF RunStrictMode
<1> HIDE DEF l
<1> QED
  BY <1>2, <1>3, BeginStep

\* The autostart-owner command begins.
LEMMA RunAutostartOwnerModeStep ==
  ASSUME Inv, NEW p \in Procs, RunAutostartOwnerMode(p)
  PROVE  Inv'
<1>1. PICK desired \in Policies :
        Begin(p, [NoLocals EXCEPT !.cmd = "owner", !.want = desired])
  BY Zenon DEF RunAutostartOwnerMode
<1> DEFINE l == [NoLocals EXCEPT !.cmd = "owner", !.want = desired]
<1>2. l \in Locals /\ l.cmd = "owner" /\ ~l.ok
  BY Zenon DEF NoLocals, Locals, NoPolicy, Policies, AnyPolicies, Absent, Shims, NoCrumb, AnyCrumbs
<1>3. Begin(p, l) /\ crumb = NoCrumb
  BY <1>1 DEF RunAutostartOwnerMode
<1> HIDE DEF l
<1> QED
  BY <1>2, <1>3, BeginStep

\* A breadcrumb names two policies.
LEMMA CrumbShape ==
  ASSUME NEW c \in Crumbs
  PROVE  /\ c \in AnyCrumbs
         /\ c # NoCrumb => /\ c.phase # "none" /\ c.intended \in Policies /\ c.actual \in Policies
<1>1. Policies \subseteq AnyPolicies /\ NoPolicy \in AnyPolicies
  BY DEF Policies, AnyPolicies, NoPolicy
<1>2. CASE c = NoCrumb
  BY <1>1, <1>2 DEF NoCrumb, AnyCrumbs
<1>3. CASE c \in [phase : {"in-progress", "torn"}, intended : Policies, actual : Policies]
  BY <1>1, <1>3 DEF AnyCrumbs
<1> QED
  BY <1>2, <1>3 DEF Crumbs

\* The recovery begins, with the breadcrumb it read.
LEMMA RunStrictModeRecoverStep ==
  ASSUME Inv, NEW p \in Procs, RunStrictModeRecover(p)
  PROVE  Inv'
<1> DEFINE l == [NoLocals EXCEPT !.cmd = "recover", !.crumb = crumb]
<1>1. crumb \in Crumbs /\ crumb # NoCrumb
  BY DEF Inv, Typed, TypeOK, RunStrictModeRecover
<1>2. /\ crumb \in AnyCrumbs
      /\ crumb.phase # "none" /\ crumb.intended \in Policies /\ crumb.actual \in Policies
  BY <1>1, CrumbShape
<1>3. l \in Locals /\ l.cmd = "recover" /\ l.crumb = crumb /\ ~l.ok
  BY Zenon, <1>2 DEF NoLocals, Locals, NoPolicy, AnyPolicies, Absent, Shims
<1>4. Begin(p, l)
  BY DEF RunStrictModeRecover
<1> HIDE DEF l
<1>5. l.crumb.phase # "none" /\ l.crumb.intended \in Policies /\ l.crumb.actual \in Policies
  BY <1>2, <1>3
<1> QED
  BY <1>1, <1>3, <1>4, <1>5, BeginStep

\* A process that enters the locks finds what it found when it looked at the
\* breadcrumb, if nobody else ran in between.
LEMMA AcquireLocksStep ==
  ASSUME Inv, NEW p \in Procs, AcquireLocks(p)
  PROVE  Inv'
<1> DEFINE to == IF loc[p].cmd = "recover" THEN "choose" ELSE "snapshot"
<1>1. Typed /\ Own(p) /\ pc[p] = "locks"
  BY DEF Inv, AcquireLocks
<1>2. UNCHANGED <<os, overlapped, Files>>
  BY DEF AcquireLocks
<1>3. CASE lock # Free /\ Return(p)
  BY <1>1, <1>2, <1>3, GiveUpStep
<1>4. CASE lock = Free /\ lock' = p /\ Goto(p, to) /\ UNCHANGED loc
  <2>1. /\ pc' = [pc EXCEPT ![p] = to] /\ pc'[p] = to
        /\ loc'[p] = loc[p] /\ loc' = [loc EXCEPT ![p] = loc'[p]] /\ loc[p] \in Locals
    BY <1>1, <1>4 DEF Goto, Typed, TypeOK
  <2>2. UNCHANGED <<intent, shim, autorun, crumb, installed>>
    BY <1>2 DEF Files
  <2>3. to \in Steps /\ to \notin Outside
    BY DEF Steps, Outside
  <2>4. Own(p)'
    BY <1>1, <2>1 DEF Own, Changing
  <2>5. ~overlapped /\ os # "darwin" => Marked' /\ Alone(p)'
    <3>1. ASSUME ~overlapped, os # "darwin" PROVE Alone(p) /\ Marked
      BY <3>1 DEF Inv, Quiet
    <3>2. ASSUME Alone(p) PROVE Alone(p)'
      BY <1>1, <2>1, <2>2, <3>2 DEF Alone
    <3>3. ASSUME Marked PROVE Marked'
      BY <2>2, <3>3 DEF Marked, InSync
    <3> QED
      BY <3>1, <3>2, <3>3
  <2>6. /\ intent' \in Policies /\ shim' \in Shims /\ autorun' \in {"legacy", "on", "off"}
        /\ crumb' \in Crumbs /\ installed' \in BOOLEAN /\ OffIsOff'
    BY <1>1, <2>2 DEF Inv, Typed, TypeOK, OffIsOff
  <2>7. pc[p] # "idle" /\ lock' = p
    BY <1>1, <1>4
  <2> HIDE DEF to
  <2> QED
    BY Zenon, <1>2, <1>4, <2>1, <2>2, <2>3, <2>4, <2>5, <2>6, <2>7, Assemble
<1> QED
  BY <1>3, <1>4 DEF AcquireLocks

---------------------------------------------------------------------------
(* runAutostartPolicyUnderLocks *)

\* What the first reads tell is in sync with the policy that was read, if the
\* process is alone.
LEMMA SnapshotStep ==
  ASSUME Inv, NEW p \in Procs, Snapshot(p)
  PROVE  Inv'
<1>1. /\ Typed /\ Own(p) /\ pc[p] = "snapshot" /\ loc[p] \in Locals
      /\ intent \in Policies /\ shim \in Shims
  BY DEF Inv, Typed, TypeOK, Snapshot
<1>2. UNCHANGED <<os, overlapped, Files>>
  BY DEF Snapshot
<1>3. CASE Return(p)
  BY <1>1, <1>2, <1>3, GiveUpStep
<1>4. ASSUME NEW known \in BOOLEAN,
             loc' = [loc EXCEPT ![p] = FirstReads(@, known)],
             Goto(p, "mark"), UNCHANGED lock
      PROVE  Inv'
  <2> DEFINE l == loc[p]
  <2>1. /\ l.cmd # "recover" /\ ~l.ok
        /\ l.want.strict \in BOOLEAN /\ l.want.owner \in {"none", "gui", "supervise"}
    BY <1>1 DEF Own, Locals, AnyPolicies
  <2>2. loc'[p] = FirstReads(l, known)
    BY <1>1, <1>4 DEF Typed
  <2>3. loc' = [loc EXCEPT ![p] = loc'[p]]
    BY <1>1, <1>4 DEF Typed
  <2>4. /\ loc'[p].cmd = l.cmd /\ loc'[p].orig = intent /\ loc'[p].known = known
        /\ loc'[p].snap = (IF known THEN shim ELSE Absent)
        /\ loc'[p].crumb = l.crumb /\ loc'[p].ok = l.ok /\ loc'[p].applied = l.applied
        /\ loc'[p].want \in Policies
        /\ loc'[p] \in Locals
    <3> DEFINE w == [l.want EXCEPT !.owner = IF @ = "none" THEN intent.owner ELSE @]
               s == IF known THEN shim ELSE Absent
    <3>1. w \in Policies /\ Policies \subseteq AnyPolicies
      BY <1>1, <2>1 DEF Locals, AnyPolicies, Policies
    <3>2. s \in Shims
      BY <1>1 DEF Absent, Shims
    <3>3. FirstReads(l, known) = [l EXCEPT !.orig = intent, !.known = known, !.snap = s, !.want = w]
      BY <1>1 DEF FirstReads, Locals
    <3> HIDE DEF w, s
    <3>4. loc'[p] = [l EXCEPT !.orig = intent, !.known = known, !.snap = s, !.want = w]
      BY <2>2, <3>3
    <3>5. loc'[p].snap = (IF known THEN shim ELSE Absent)
      BY <1>1, <3>4 DEF s, Locals
    <3> QED
      BY ZenonT(40), <1>1, <3>1, <3>2, <3>4, <3>5 DEF Locals
  <2>5. pc'[p] = "mark"
    BY <1>1, <1>4 DEF Goto, Typed, TypeOK
  <2>6. UNCHANGED <<intent, shim, autorun, crumb, installed>>
    BY <1>2 DEF Files
  <2>7. Own(p)'
    BY <1>1, <2>1, <2>4, <2>5 DEF Own, Changing
  <2>8. ASSUME ~overlapped, os # "darwin" PROVE Alone(p)'
    <3>1. crumb = NoCrumb /\ InSync
      BY <1>1, <2>1, <2>8 DEF Inv, Quiet, Marked, Alone
    <3>2. SyncedWith(intent, shim)
      BY <3>1 DEF SyncedWith, InSync
    <3>3. SyncedWith(loc[p].orig, shim)'
      BY <2>4, <2>6, <3>2 DEF SyncedWith
    <3>4. loc'[p].known => SyncedWith(loc[p].orig, loc[p].snap)'
      BY <2>4, <2>6, <3>2 DEF SyncedWith
    <3> QED
      BY <2>1, <2>4, <2>5, <2>6, <3>1, <3>3, <3>4 DEF Alone
  <2> HIDE DEF l
  <2>9. pc[p] \notin Outside /\ "mark" \in Steps \ Outside
    BY <1>1 DEF Outside, Steps
  <2> QED
    BY Zenon, <1>2, <1>4, <2>3, <2>4, <2>7, <2>8, <2>9, GoOnStep
<1> QED
  BY <1>3, <1>4 DEF Snapshot

\* What every step inside the locks starts from.
LEMMA Inside ==
  ASSUME Inv, NEW p \in Procs, pc[p] \notin Outside
  PROVE  /\ Own(p) /\ loc[p] \in Locals /\ lock = p
         /\ pc \in [Procs -> Steps] /\ loc \in [Procs -> Locals]
         /\ intent \in Policies /\ shim \in Shims /\ autorun \in {"legacy", "on", "off"}
         /\ crumb \in Crumbs /\ installed \in BOOLEAN /\ OffIsOff
         /\ ~overlapped /\ os # "darwin" => Marked /\ Alone(p)
BY OneInside DEF Inv, Typed, TypeOK, Quiet

\* The in-progress breadcrumb is written before the first write.
LEMMA MarkStep ==
  ASSUME Inv, NEW p \in Procs, Mark(p)
  PROVE  Inv'
<1>1. pc[p] = "mark" /\ pc[p] \notin Outside
  BY DEF Mark, Outside
<1>2. UNCHANGED <<os, intent, shim, autorun, installed, overlapped>>
  BY DEF Mark
<1>3. CASE Return(p) /\ UNCHANGED crumb
  <2>1. UNCHANGED Files
    BY <1>3 DEF Mark, Files
  <2> QED
    BY <1>1, <1>2, <1>3, <2>1, GiveUpStep
<1>4. CASE /\ crumb' = [phase |-> "in-progress", intended |-> loc[p].want, actual |-> loc[p].orig]
           /\ Goto(p, "write") /\ UNCHANGED <<lock, loc>>
  <2>1. /\ Own(p) /\ loc[p] \in Locals /\ loc'[p] = loc[p] /\ pc'[p] = "write"
        /\ loc' = [loc EXCEPT ![p] = loc'[p]]
    BY <1>1, <1>4, Inside DEF Goto
  <2>2. loc[p].want \in Policies /\ loc[p].orig \in Policies /\ loc[p].cmd # "recover"
    BY <1>1, <2>1 DEF Own
  <2>3. crumb' \in Crumbs /\ crumb' # NoCrumb
    BY <1>4, <2>2 DEF Crumbs, NoCrumb
  <2>4. Own(p)'
    BY Zenon, <1>1, <2>1, <2>2, <2>3 DEF Own, Changing
  <2>5. ASSUME ~overlapped, os # "darwin" PROVE Marked' /\ Alone(p)'
    <3>1. Alone(p)
      BY <1>1, <2>5, Inside
    <3>2. Marked'
      BY <2>3 DEF Marked
    <3> QED
      BY <1>1, <1>2, <2>1, <2>2, <2>3, <3>1, <3>2 DEF Alone, SyncedWith
  <2>6. "write" \in Steps \ Outside /\ OffIsOff'
    BY <1>1, <1>2, Inside DEF Steps, Outside, OffIsOff
  <2> QED
    BY <1>1, <1>2, <1>4, <2>1, <2>3, <2>4, <2>5, <2>6, Inside, WorkStep
<1> QED
  BY <1>3, <1>4 DEF Mark

\* The intent is written; a failed write of a command is followed by a re-read,
\* and one that is known to have been published ends with the breadcrumb.
LEMMA WriteIntentStep ==
  ASSUME Inv, NEW p \in Procs, WriteIntent(p)
  PROVE  Inv'
<1> DEFINE l == loc[p]
<1>1. pc[p] = "write" /\ pc[p] \notin Outside
  BY DEF WriteIntent, Outside
<1>2. UNCHANGED <<os, shim, autorun, crumb, installed, overlapped>>
  BY Zenon DEF WriteIntent
<1>3. /\ Own(p) /\ l \in Locals /\ l.want \in Policies /\ ~l.ok
      /\ l.cmd # "recover" => l.orig \in Policies /\ crumb # NoCrumb
      /\ l.cmd = "recover" => /\ l.crumb.phase # "none"
                              /\ l.crumb.intended \in Policies /\ l.crumb.actual \in Policies
  BY <1>1, Inside DEF Own, Changing
<1>4. ASSUME ~overlapped, os # "darwin" PROVE crumb # NoCrumb /\ Marked' /\ Alone(p)
  <2>1. Alone(p)
    BY <1>1, <1>4, Inside
  <2> QED
    BY <1>1, <1>2, <1>3, <2>1 DEF Alone, Marked
<1>5. intent' \in Policies
  BY <1>1, <1>3, Inside DEF WriteIntent
<1>6. ASSUME NEW to \in {"project", "reread", "reassert"}, Goto(p, to), UNCHANGED lock,
             loc' = [loc EXCEPT ![p] = loc'[p]],
             loc'[p] = l \/ loc'[p] = [l EXCEPT !.applied = TRUE],
             to = "project" => intent' = l.want,
             to = "reread" => l.cmd # "recover",
             to = "reassert" => l.cmd = "recover"
      PROVE  Inv'
  <2>1. /\ loc'[p] \in Locals /\ loc'[p].cmd = l.cmd /\ loc'[p].want = l.want
        /\ loc'[p].orig = l.orig /\ loc'[p].crumb = l.crumb /\ loc'[p].ok = l.ok
        /\ loc'[p].known = l.known /\ loc'[p].snap = l.snap
    BY Zenon, <1>3, <1>6 DEF Locals
  <2>2. pc'[p] = to
    BY <1>1, <1>6, Inside DEF Goto
  <2>3. Own(p)'
    BY <1>1, <1>2, <1>3, <1>6, <2>1, <2>2 DEF Own, Changing
  <2>4. ASSUME ~overlapped, os # "darwin" PROVE Alone(p)'
    <3>1. Alone(p) /\ crumb # NoCrumb
      BY <1>4, <2>4
    <3> QED
      BY <1>1, <1>2, <1>6, <2>1, <2>2, <3>1 DEF Alone, SyncedWith
  <2>5. to \in Steps \ Outside
    BY <1>6 DEF Steps, Outside
  <2>6. /\ shim' \in Shims /\ autorun' \in {"legacy", "on", "off"} /\ crumb' \in Crumbs
        /\ installed' \in BOOLEAN /\ OffIsOff'
    BY <1>1, <1>2, Inside DEF OffIsOff
  <2> HIDE DEF l
  <2> QED
    BY <1>1, <1>2, <1>4, <1>5, <1>6, <2>1, <2>3, <2>4, <2>5, <2>6, WorkStep
<1>7. CASE Return(p)
  BY <1>1, <1>2, <1>4, <1>5, <1>7, Inside, ReturnStep
<1>8. loc \in [Procs -> Locals]
  BY <1>1, Inside
<1>9. CASE intent' = l.want /\ Goto(p, "project") /\ UNCHANGED <<lock, loc>>
  BY <1>6, <1>8, <1>9
<1>10. CASE /\ Goto(p, IF l.cmd = "recover" THEN "reassert" ELSE "reread")
            /\ UNCHANGED <<lock, loc>>
  BY <1>6, <1>8, <1>10
<1>11. CASE /\ intent' = l.want /\ loc' = [loc EXCEPT ![p].applied = TRUE]
            /\ Goto(p, "project") /\ UNCHANGED lock
  <2>1. loc' = [loc EXCEPT ![p] = loc'[p]] /\ loc'[p] = [l EXCEPT !.applied = TRUE]
    BY <1>8, <1>11
  <2> QED
    BY <1>6, <1>11, <2>1
<1> QED
  BY <1>7, <1>9, <1>10, <1>11 DEF WriteIntent

\* After a failed write the intent is read again.
LEMMA RereadStep ==
  ASSUME Inv, NEW p \in Procs, Reread(p)
  PROVE  Inv'
<1>1. pc[p] = "reread" /\ pc[p] \notin Outside
  BY DEF Reread, Outside
<1>2. UNCHANGED <<os, overlapped, Files>>
  BY DEF Reread
<1>3. CASE Return(p)
  BY <1>1, <1>2, <1>3, GiveUpStep
<1>4. CASE intent = loc[p].orig /\ Goto(p, "clear") /\ UNCHANGED <<lock, loc>>
  <2>1. /\ Own(p) /\ loc[p] \in Locals /\ loc'[p] = loc[p] /\ pc'[p] = "clear"
        /\ loc' = [loc EXCEPT ![p] = loc'[p]]
    BY Zenon, <1>1, <1>4, Inside DEF Goto
  <2>2. UNCHANGED <<intent, shim, autorun, crumb, installed>>
    BY <1>2 DEF Files
  <2>3. Own(p)'
    BY <1>1, <2>1, <2>2 DEF Own, Changing
  <2>4. ASSUME ~overlapped, os # "darwin" PROVE Alone(p)'
    <3>1. Alone(p)
      BY <1>1, <2>4, Inside
    <3>2. InSync'
      BY <1>1, <1>4, <2>1, <2>2, <3>1 DEF Own, Alone, SyncedWith, InSync
    <3> QED
      BY <2>1, <3>2 DEF Alone
  <2>5. "clear" \in Steps \ Outside
    BY DEF Steps, Outside
  <2> QED
    BY <1>1, <1>2, <1>4, <2>1, <2>3, <2>4, <2>5, GoOnStep
<1> QED
  BY <1>3, <1>4 DEF Reread

\* A projection that failed, whatever it did to the shim, leaves the breadcrumb.
LEMMA ProjectFailedStep ==
  ASSUME Inv, NEW p \in Procs, pc[p] \in {"project", "enable"}, ProjectFailed(p),
         UNCHANGED <<os, overlapped, lock, loc, intent, crumb, installed>>,
         shim' \in Shims, autorun' \in {autorun, "on"}
  PROVE  Inv'
<1> DEFINE l  == loc[p]
           to == IF l.cmd = "recover" THEN "reassert" ELSE "revert"
<1>1. pc[p] \notin Outside /\ to \in Steps \ Outside /\ Goto(p, to)
  BY DEF Outside, Steps, ProjectFailed
<1>2. /\ Own(p) /\ l \in Locals /\ loc'[p] = l /\ pc'[p] = to
      /\ loc' = [loc EXCEPT ![p] = loc'[p]]
  BY <1>1, Inside DEF Goto
<1>3. Own(p)'
  BY <1>2 DEF Own, Changing
<1>4. ASSUME ~overlapped, os # "darwin" PROVE Marked' /\ Alone(p)'
  <2>1. Alone(p)
    BY <1>1, <1>4, Inside
  <2>2. crumb # NoCrumb
    BY <1>2, <2>1 DEF Own, Alone, Changing
  <2> QED
    BY Zenon, <1>2, <2>1, <2>2 DEF Alone, Marked, SyncedWith
<1>5. /\ intent' \in Policies /\ autorun' \in {"legacy", "on", "off"} /\ crumb' \in Crumbs
      /\ installed' \in BOOLEAN /\ OffIsOff'
  BY <1>1, Inside DEF OffIsOff
<1> HIDE DEF l, to
<1> QED
  BY <1>1, <1>2, <1>3, <1>4, <1>5, WorkStep

\* The shim that Enable leaves before the call that can fail is a shim.
LEMMA DisturbedType ==
  ASSUME NEW s \in Shims, NEW w \in Policies, os \in OSes
  PROVE  Disturbed(s, w) \in Shims
<1>1. os \in {"windows", "linux", "darwin"}
  BY StrictAssumption
<1>2. CASE os = "windows"
  BY <1>2 DEF Disturbed, Absent, Shims
<1>3. CASE os = "linux"
  <2>1. CASE s = [policy |-> NoPolicy, on |-> FALSE]
    BY Zenon, <1>3, <2>1 DEF Disturbed, Shims
  <2>2. CASE s \in [policy : Policies, on : BOOLEAN]
    BY <1>3, <2>2 DEF Disturbed, Shims
  <2> QED
    BY <2>1, <2>2 DEF Shims
<1>4. CASE os = "darwin"
  BY <1>4 DEF Disturbed, Absent, Shims
<1> QED
  BY <1>1, <1>2, <1>3, <1>4

\* The policy is projected onto the autostart shim.
LEMMA ProjectStep ==
  ASSUME Inv, NEW p \in Procs, Project(p)
  PROVE  Inv'
<1> DEFINE l == loc[p]
<1>1. pc[p] = "project" /\ pc[p] \notin Outside /\ os \in OSes
  BY DEF Project, Outside, Inv, Typed
<1>2. UNCHANGED <<os, intent, crumb, lock, installed, overlapped>>
  BY DEF Project
<1>3. /\ Own(p) /\ l \in Locals /\ l.want \in Policies /\ intent = l.want
      /\ shim \in Shims /\ autorun \in {"legacy", "on", "off"} /\ OffIsOff
      /\ pc \in [Procs -> Steps] /\ loc \in [Procs -> Locals]
      /\ intent' \in Policies /\ crumb' \in Crumbs /\ installed' \in BOOLEAN
  BY <1>1, <1>2, Inside DEF Own, Changing
<1>4. ASSUME ~overlapped, os # "darwin" PROVE crumb # NoCrumb /\ Marked' /\ Alone(p)
  <2>1. Alone(p)
    BY <1>1, <1>4, Inside
  <2> QED
    BY <1>1, <1>2, <1>3, <2>1 DEF Own, Changing, Alone, Marked
<1>5. CASE /\ autorun = "off" /\ UNCHANGED autorun /\ shim' = Absent
           /\ Goto(p, "clear") /\ loc' = [loc EXCEPT ![p].ok = TRUE]
  <2>1. /\ loc' = [loc EXCEPT ![p] = loc'[p]] /\ loc'[p] = [l EXCEPT !.ok = TRUE]
        /\ pc'[p] = "clear" /\ "clear" \in Steps \ Outside
    BY <1>3, <1>5 DEF Goto, Steps, Outside
  <2>2. /\ loc'[p] \in Locals /\ loc'[p].cmd = l.cmd /\ loc'[p].want = l.want
        /\ loc'[p].orig = l.orig /\ loc'[p].crumb = l.crumb
    BY Zenon, <1>3, <2>1 DEF Locals
  <2>3. Own(p)'
    BY <1>1, <1>2, <1>3, <2>1, <2>2 DEF Own, Changing
  <2>4. InSync' /\ Alone(p)'
    BY <1>2, <1>3, <1>5, <2>1 DEF InSync, OffIsOff, Alone
  <2>5. shim' \in Shims /\ OffIsOff' /\ autorun' \in {"legacy", "on", "off"}
    BY Zenon, <1>2, <1>3, <1>5 DEF Shims, Absent, OffIsOff
  <2> HIDE DEF l
  <2> QED
    BY Zenon, <1>1, <1>2, <1>3, <1>4, <1>5, <2>1, <2>2, <2>3, <2>4, <2>5, WorkStep
<1>6. CASE /\ autorun # "off" \/ l.cmd = "owner"
           /\ shim' = Disturbed(shim, l.want)
           /\ Goto(p, "enable") /\ UNCHANGED loc
           /\ autorun' = IF l.cmd = "owner" THEN "on" ELSE autorun
  <2>1. /\ loc' = [loc EXCEPT ![p] = loc'[p]] /\ loc'[p] = l
        /\ pc'[p] = "enable" /\ "enable" \in Steps \ Outside
    BY <1>3, <1>6 DEF Goto, Steps, Outside
  <2>2. autorun' # "off" /\ autorun' \in {"legacy", "on", "off"} /\ OffIsOff'
    BY Zenon, <1>3, <1>6 DEF OffIsOff
  <2>3. Own(p)'
    BY <1>1, <1>2, <1>3, <2>1, <2>2 DEF Own, Changing
  <2>4. ASSUME ~overlapped, os # "darwin" PROVE Alone(p)'
    <3>1. Alone(p) /\ crumb # NoCrumb
      BY <1>4, <2>4
    <3> QED
      BY <1>1, <1>2, <2>1, <3>1 DEF Alone, SyncedWith
  <2>5. shim' \in Shims
    BY <1>1, <1>3, <1>6, DisturbedType
  <2> HIDE DEF l
  <2> QED
    BY <1>1, <1>2, <1>3, <1>4, <1>6, <2>1, <2>2, <2>3, <2>4, <2>5, WorkStep
<1>7. CASE /\ ProjectFailed(p) /\ UNCHANGED loc /\ shim' \in {shim, Absent}
           /\ autorun' \in {autorun, "on"}
  <2>1. shim' \in Shims
    BY <1>3, <1>7 DEF Shims, Absent
  <2> QED
    BY <1>1, <1>2, <1>7, <2>1, ProjectFailedStep
<1> QED
  BY <1>5, <1>6, <1>7 DEF Project

\* The call that registers the shim.
LEMMA EnableStep ==
  ASSUME Inv, NEW p \in Procs, Enable(p)
  PROVE  Inv'
<1> DEFINE l == loc[p]
<1>1. pc[p] = "enable" /\ pc[p] \notin Outside
  BY DEF Enable, Outside
<1>2. UNCHANGED <<os, intent, autorun, crumb, lock, overlapped>>
  BY DEF Enable
<1>3. /\ Own(p) /\ l \in Locals /\ l.want \in Policies /\ intent = l.want /\ autorun # "off"
      /\ pc \in [Procs -> Steps] /\ loc \in [Procs -> Locals] /\ shim \in Shims
      /\ intent' \in Policies /\ crumb' \in Crumbs /\ autorun' \in {"legacy", "on", "off"}
  BY <1>1, <1>2, Inside DEF Own, Changing
<1>4. CASE ProjectFailed(p) /\ UNCHANGED <<shim, installed, loc>>
  BY <1>1, <1>2, <1>3, <1>4, ProjectFailedStep
<1>5. CASE /\ shim' = [policy |-> l.want, on |-> TRUE] /\ installed' = TRUE
           /\ loc' = [loc EXCEPT ![p].ok = TRUE] /\ Goto(p, "clear")
  <2>1. /\ loc' = [loc EXCEPT ![p] = loc'[p]] /\ loc'[p] = [l EXCEPT !.ok = TRUE]
        /\ pc'[p] = "clear" /\ "clear" \in Steps \ Outside
    BY <1>3, <1>5 DEF Goto, Steps, Outside
  <2>2. /\ loc'[p] \in Locals /\ loc'[p].cmd = l.cmd /\ loc'[p].want = l.want
        /\ loc'[p].orig = l.orig /\ loc'[p].crumb = l.crumb
    BY Zenon, <1>3, <2>1 DEF Locals
  <2>3. Own(p)'
    BY <1>1, <1>2, <1>3, <2>1, <2>2 DEF Own, Changing
  <2>4. InSync'
    BY <1>2, <1>3, <1>5 DEF InSync, Absent
  <2>5. Alone(p)' /\ Marked'
    BY <2>1, <2>4 DEF Alone, Marked
  <2>6. shim' \in Shims /\ OffIsOff' /\ installed' \in BOOLEAN
    BY <1>2, <1>3, <1>5 DEF Shims, OffIsOff
  <2> HIDE DEF l
  <2> QED
    BY Zenon, <1>1, <1>2, <1>3, <1>5, <2>1, <2>2, <2>3, <2>5, <2>6, WorkStep
<1> QED
  BY Zenon, <1>4, <1>5 DEF Enable

\* After a failed projection the intent is put back.
LEMMA RevertStep ==
  ASSUME Inv, NEW p \in Procs, Revert(p)
  PROVE  Inv'
<1> DEFINE l == loc[p]
<1>1. pc[p] = "revert" /\ pc[p] \notin Outside
  BY DEF Revert, Outside
<1>2. UNCHANGED <<os, shim, autorun, crumb, lock, installed, overlapped>>
  BY DEF Revert
<1>3. /\ Own(p) /\ l \in Locals /\ l.want \in Policies /\ l.orig \in Policies
      /\ l.cmd # "recover" /\ crumb # NoCrumb /\ intent \in Policies
      /\ pc \in [Procs -> Steps] /\ loc \in [Procs -> Locals]
  BY <1>1, Inside DEF Own, Changing
<1>4. /\ shim' \in Shims /\ autorun' \in {"legacy", "on", "off"} /\ crumb' \in Crumbs
      /\ installed' \in BOOLEAN /\ OffIsOff' /\ intent' \in Policies
  BY <1>1, <1>2, <1>3, Inside DEF OffIsOff, Revert
<1>5. Marked'
  BY <1>2, <1>3 DEF Marked
<1>6. CASE intent' = l.orig /\ Goto(p, "reprobe") /\ UNCHANGED loc
  <2>1. /\ loc' = [loc EXCEPT ![p] = loc'[p]] /\ loc'[p] = l
        /\ pc'[p] = "reprobe" /\ "reprobe" \in Steps \ Outside
    BY Zenon, <1>3, <1>6 DEF Goto, Steps, Outside
  <2>2. Own(p)'
    BY Zenon, <1>1, <1>2, <1>3, <1>6, <2>1 DEF Own, Changing
  <2>3. ASSUME ~overlapped, os # "darwin" PROVE Alone(p)'
    <3>1. Alone(p)
      BY <1>1, <2>3, Inside
    <3> QED
      BY <1>1, <1>2, <1>3, <2>1, <3>1 DEF Alone, SyncedWith
  <2> HIDE DEF l
  <2> QED
    BY <1>1, <1>2, <1>3, <1>4, <1>5, <1>6, <2>1, <2>2, <2>3, WorkStep
<1>7. ASSUME NEW a \in Policies, loc' = [loc EXCEPT ![p].crumb.actual = a], Goto(p, "tear")
      PROVE  Inv'
  <2>1. /\ loc' = [loc EXCEPT ![p] = loc'[p]] /\ loc'[p] = [l EXCEPT !.crumb.actual = a]
        /\ pc'[p] = "tear" /\ "tear" \in Steps \ Outside
    BY <1>3, <1>7 DEF Goto, Steps, Outside
  <2>2. a \in AnyPolicies
    BY DEF Policies, AnyPolicies
  <2>3. /\ loc'[p] \in Locals /\ loc'[p].cmd = l.cmd /\ loc'[p].want = l.want
        /\ loc'[p].orig = l.orig /\ loc'[p].ok = l.ok /\ loc'[p].crumb.actual = a
    BY SMTT(40), <1>3, <2>1, <2>2 DEF Locals, AnyCrumbs
  <2>4. Own(p)'
    BY <1>1, <1>2, <1>3, <2>1, <2>3 DEF Own, Changing
  <2>5. Alone(p)'
    BY <1>3, <2>1, <2>3 DEF Alone
  <2> HIDE DEF l
  <2> QED
    BY Zenon, <1>1, <1>2, <1>3, <1>4, <1>5, <1>7, <2>1, <2>3, <2>4, <2>5, WorkStep
<1>8. TornActual(l) \in Policies
  BY <1>3 DEF TornActual, Policies
<1> QED
  BY <1>3, <1>6, <1>7, <1>8 DEF Revert

\* Away from launchd, whose probe reports every plist as enabled, a shim that is
\* proven unchanged is the one of the first probe.
LEMMA UnchangedIsSnap ==
  ASSUME NEW p \in Procs, os # "darwin", ProvenUnchanged(p)
  PROVE  loc[p].known /\ shim = loc[p].snap
BY DEF ProvenUnchanged, Fingerprint

\* The intent is back: the shim is compared with the snapshot.
LEMMA ReprobeStep ==
  ASSUME Inv, NEW p \in Procs, Reprobe(p)
  PROVE  Inv'
<1> DEFINE l == loc[p]
<1>1. pc[p] = "reprobe" /\ pc[p] \notin Outside
  BY DEF Reprobe, Outside
<1>2. UNCHANGED <<os, overlapped, lock, Files>>
  BY DEF Reprobe
<1>3. UNCHANGED <<intent, shim, autorun, crumb, installed>>
  BY Zenon, <1>2 DEF Files
<1>4. /\ Own(p) /\ l \in Locals /\ l.want \in Policies /\ l.orig \in Policies
      /\ l.cmd # "recover" /\ crumb # NoCrumb /\ intent = l.orig
      /\ pc \in [Procs -> Steps] /\ loc \in [Procs -> Locals]
  BY <1>1, Inside DEF Own, Changing
<1>5. CASE ProvenUnchanged(p) /\ Goto(p, "clear") /\ UNCHANGED loc
  <2>1. /\ loc' = [loc EXCEPT ![p] = loc'[p]] /\ loc'[p] = l
        /\ pc'[p] = "clear" /\ "clear" \in Steps \ Outside
    BY Zenon, <1>4, <1>5 DEF Goto, Steps, Outside
  <2>2. Own(p)'
    BY <1>1, <1>3, <1>4, <2>1 DEF Own, Changing
  <2>3. ASSUME ~overlapped, os # "darwin" PROVE Alone(p)'
    <3>1. Alone(p)
      BY <1>1, <2>3, Inside
    <3>2. l.known /\ shim = l.snap
      BY <1>5, <2>3, UnchangedIsSnap
    <3>3. SyncedWith(l.orig, shim)
      BY <1>1, <1>4, <3>1, <3>2 DEF Alone
    <3>4. InSync'
      BY <1>3, <1>4, <3>3 DEF SyncedWith, InSync
    <3> QED
      BY <2>1, <3>4 DEF Alone
  <2> HIDE DEF l
  <2> QED
    BY <1>1, <1>2, <1>4, <1>5, <2>1, <2>2, <2>3, GoOnStep
<1>6. CASE loc' = [loc EXCEPT ![p].crumb.actual = l.orig] /\ Goto(p, "tear")
  <2>1. /\ loc' = [loc EXCEPT ![p] = loc'[p]] /\ loc'[p] = [l EXCEPT !.crumb.actual = l.orig]
        /\ pc'[p] = "tear" /\ "tear" \in Steps \ Outside
    BY <1>4, <1>6 DEF Goto, Steps, Outside
  <2>2. l.orig \in AnyPolicies
    BY <1>4 DEF Locals
  <2>3. /\ loc'[p] \in Locals /\ loc'[p].cmd = l.cmd /\ loc'[p].want = l.want
        /\ loc'[p].orig = l.orig /\ loc'[p].ok = l.ok /\ loc'[p].crumb.actual = l.orig
    BY SMTT(40), <1>4, <2>1, <2>2 DEF Locals, AnyCrumbs
  <2>4. Own(p)'
    BY <1>1, <1>3, <1>4, <2>1, <2>3 DEF Own, Changing
  <2>5. Alone(p)'
    BY <1>4, <2>1, <2>3 DEF Alone
  <2> HIDE DEF l
  <2> QED
    BY Zenon, <1>1, <1>2, <1>4, <1>6, <2>1, <2>3, <2>4, <2>5, GoOnStep
<1> QED
  BY <1>5, <1>6 DEF Reprobe

\* The breadcrumb is overwritten with the torn shape.
LEMMA TearStep ==
  ASSUME Inv, NEW p \in Procs, Tear(p)
  PROVE  Inv'
<1>1. pc[p] = "tear" /\ pc[p] \notin Outside /\ Return(p)
  BY DEF Tear, Outside
<1>2. UNCHANGED <<os, intent, shim, autorun, installed, overlapped>>
  BY DEF Tear
<1>3. /\ loc[p].want \in Policies /\ loc[p].crumb.actual \in Policies
      /\ crumb # NoCrumb /\ crumb \in Crumbs /\ intent \in Policies /\ lock = p
  BY <1>1, Inside DEF Own, Changing
<1>4. crumb' \in Crumbs /\ crumb' # NoCrumb
  BY <1>3 DEF Tear, Crumbs, NoCrumb
<1>5. Marked'
  BY <1>4 DEF Marked
<1> QED
  BY <1>1, <1>2, <1>3, <1>4, <1>5, ReturnStep

\* The breadcrumb goes when both resources agree.
LEMMA ClearStep ==
  ASSUME Inv, NEW p \in Procs, Clear(p)
  PROVE  Inv'
<1> DEFINE l == loc[p]
<1>1. pc[p] = "clear" /\ pc[p] \notin Outside
  BY DEF Clear, Outside
<1>2. UNCHANGED <<os, intent, shim, autorun, installed, overlapped>>
  BY DEF Clear
<1>3. /\ Own(p) /\ l \in Locals /\ lock = p /\ crumb \in Crumbs
      /\ pc \in [Procs -> Steps] /\ loc \in [Procs -> Locals]
      /\ intent' \in Policies /\ shim' \in Shims /\ autorun' \in {"legacy", "on", "off"}
      /\ installed' \in BOOLEAN /\ OffIsOff'
  BY <1>1, <1>2, Inside DEF OffIsOff
<1>4. crumb' \in Crumbs
  BY <1>3 DEF Clear, Crumbs
<1>5. ASSUME ~overlapped, os # "darwin" PROVE Marked'
  BY <1>1, <1>2, <1>5, Inside DEF Alone, InSync, Marked
<1>6. CASE Return(p)
  BY <1>1, <1>2, <1>3, <1>4, <1>5, <1>6, ReturnStep
<1>7. CASE /\ l.ok /\ l.cmd # "recover"
           /\ Goto(p, "audit") /\ UNCHANGED <<lock, loc>>
  <2>1. /\ loc' = [loc EXCEPT ![p] = loc'[p]] /\ loc'[p] = l
        /\ pc'[p] = "audit" /\ "audit" \in Steps \ Outside
    BY ZenonT(40), <1>3, <1>7 DEF Goto, Steps, Outside
  <2>2. Own(p)'
    BY <1>1, <1>2, <1>3, <1>7, <2>1 DEF Own, Changing
  <2>3. Alone(p)'
    BY Zenon, <1>7, <2>1 DEF Alone
  <2> HIDE DEF l
  <2> QED
    BY <1>1, <1>2, <1>3, <1>4, <1>5, <1>7, <2>1, <2>2, <2>3, WorkStep
<1> QED
  BY <1>6, <1>7 DEF Clear

\* The audit row is appended, and tells the policy on disk.
LEMMA AuditStep ==
  ASSUME Inv, NEW p \in Procs, Audit(p)
  PROVE  Inv' /\ (audit' # audit => audit'.to = intent'.strict)
<1>1. pc[p] = "audit" /\ pc[p] \notin Outside /\ Return(p)
  BY DEF Audit, Outside
<1>2. UNCHANGED <<os, intent, shim, autorun, crumb, installed, overlapped>>
  BY Zenon DEF Audit
<1>3. intent = loc[p].want /\ intent' \in Policies /\ crumb' \in Crumbs /\ lock = p
  BY <1>1, <1>2, Inside DEF Own
<1>4. audit' # audit => audit'.to = intent'.strict
  BY <1>2, <1>3 DEF Audit
<1>5. ~overlapped /\ os # "darwin" => Marked'
  BY <1>1, <1>2, Inside DEF Marked, InSync
<1> QED
  BY ZenonT(40), <1>1, <1>2, <1>3, <1>4, <1>5, ReturnStep

---------------------------------------------------------------------------
(* RunStrictModeRecover *)

\* The operator of the recovery chooses a side, or gives up.
LEMMA ChooseStep ==
  ASSUME Inv, NEW p \in Procs, Choose(p)
  PROVE  Inv'
<1> DEFINE l == loc[p]
<1>1. pc[p] = "choose" /\ pc[p] \notin Outside
  BY DEF Choose, Outside
<1>2. UNCHANGED <<os, overlapped, Files>>
  BY ZenonT(40) DEF Choose
<1>3. UNCHANGED <<intent, shim, autorun, crumb, installed>>
  BY <1>2 DEF Files
<1>4. /\ Own(p) /\ l \in Locals /\ l.cmd = "recover" /\ ~l.ok
      /\ l.crumb.intended \in Policies /\ l.crumb.actual \in Policies
      /\ pc \in [Procs -> Steps] /\ loc \in [Procs -> Locals]
  BY <1>1, Inside DEF Own
<1>5. CASE Return(p)
  BY <1>1, <1>2, <1>5, GiveUpStep
<1>6. ASSUME NEW to \in {l.crumb.intended, l.crumb.actual}, loc' = [loc EXCEPT ![p].want = to],
             Goto(p, "write"), UNCHANGED lock
      PROVE  Inv'
  <2>1. /\ loc' = [loc EXCEPT ![p] = loc'[p]] /\ loc'[p] = [l EXCEPT !.want = to]
        /\ pc'[p] = "write" /\ "write" \in Steps \ Outside
    BY <1>4, <1>6 DEF Goto, Steps, Outside
  <2>2. to \in Policies /\ to \in AnyPolicies
    BY <1>4 DEF Policies, AnyPolicies
  <2>3. /\ loc'[p] \in Locals /\ loc'[p].cmd = l.cmd /\ loc'[p].want = to
        /\ loc'[p].crumb = l.crumb /\ loc'[p].ok = l.ok
    BY <1>4, <2>1, <2>2 DEF Locals
  <2>4. Own(p)'
    BY <1>1, <1>3, <1>4, <2>1, <2>2, <2>3 DEF Own, Changing
  <2>5. ASSUME ~overlapped, os # "darwin" PROVE Alone(p)'
    <3>1. Alone(p)
      BY <1>1, <2>5, Inside
    <3> QED
      BY <1>1, <1>3, <1>4, <2>1, <2>3, <3>1 DEF Alone
  <2> HIDE DEF l
  <2> QED
    BY Zenon, <1>1, <1>2, <1>6, <2>1, <2>3, <2>4, <2>5, GoOnStep
<1> QED
  BY <1>5, <1>6 DEF Choose

\* A recovery that did not converge writes the breadcrumb again.
LEMMA ReassertStep ==
  ASSUME Inv, NEW p \in Procs, Reassert(p)
  PROVE  Inv'
<1> DEFINE l == loc[p]
<1>1. pc[p] = "reassert" /\ pc[p] \notin Outside /\ Return(p)
  BY DEF Reassert, Outside
<1>2. UNCHANGED <<os, intent, shim, autorun, installed, overlapped>>
  BY ZenonT(40) DEF Reassert
<1>3. /\ l \in Locals /\ l.cmd = "recover" /\ l.want \in Policies /\ l.crumb.phase # "none"
      /\ l.crumb.intended \in Policies /\ l.crumb.actual \in Policies
      /\ crumb \in Crumbs /\ intent' \in Policies /\ lock = p
  BY <1>1, <1>2, Inside DEF Own
<1>4. /\ [l.crumb EXCEPT !.actual = IF l.applied THEN l.want ELSE @] \in Crumbs
      /\ [l.crumb EXCEPT !.actual = IF l.applied THEN l.want ELSE @] # NoCrumb
  BY <1>3 DEF Locals, AnyCrumbs, Crumbs, NoCrumb
<1>5. crumb' \in Crumbs /\ (crumb' # crumb => crumb' # NoCrumb)
  BY <1>3, <1>4 DEF Reassert
<1>6. ~overlapped /\ os # "darwin" => Marked'
  BY <1>1, <1>2, <1>5, Inside DEF Marked, InSync
<1> QED
  BY <1>1, <1>2, <1>3, <1>5, <1>6, ReturnStep

---------------------------------------------------------------------------
(* The environment, and the invariant *)

\* The operator's `autostart disable`, at any point of a command.
LEMMA DisableAutostartStep ==
  ASSUME Inv, DisableAutostart
  PROVE  Inv'
<1>1. /\ UNCHANGED <<os, intent, crumb, lock, pc, loc, overlapped>>
      /\ installed' = FALSE /\ shim' \in {shim, Absent}
      /\ autorun' = IF os = "windows" THEN "off" ELSE autorun
      /\ os = "windows" => \A p \in Procs : pc[p] # "enable"
  BY DEF DisableAutostart
<1>2. Typed'
  <2>1. shim' \in Shims
    BY <1>1 DEF Inv, Typed, TypeOK, Shims, Absent
  <2>2. autorun' \in {"legacy", "on", "off"}
    BY <1>1 DEF Inv, Typed, TypeOK
  <2> QED
    BY Zenon, <1>1, <2>1, <2>2 DEF Inv, Typed, TypeOK
<1>3. OffIsOff'
  BY <1>1 DEF OffIsOff
<1>4. ASSUME NEW p \in Procs PROVE Own(p)'
  <2>1. Own(p)
    BY DEF Inv
  <2>2. pc[p] = "enable" => autorun' = autorun
    BY <1>1
  <2> QED
    BY <1>1, <2>1, <2>2 DEF Own
<1>5. InSync => InSync'
  BY <1>1 DEF InSync
<1>6. ASSUME NEW p \in Procs, Alone(p) PROVE Alone(p)'
  <2>1. SyncedWith(loc[p].orig, shim) => SyncedWith(loc[p].orig, shim)'
    BY <1>1 DEF SyncedWith
  <2>2. SyncedWith(loc[p].orig, loc[p].snap) => SyncedWith(loc[p].orig, loc[p].snap)'
    BY <1>1 DEF SyncedWith
  <2> QED
    BY <1>1, <1>5, <1>6, <2>1, <2>2 DEF Alone
<1>7. Quiet'
  BY <1>1, <1>5, <1>6 DEF Inv, Quiet, Lonely, Marked
<1> QED
  BY <1>2, <1>3, <1>4, <1>7 DEF Inv

\* The invariant holds initially.
LEMMA InitInv == Init => Inv
<1> SUFFICES ASSUME Init PROVE Inv
  BY Zenon
<1>1. NoLocals \in Locals /\ NoLocals.cmd = "none" /\ NoLocals.ok = FALSE
  BY DEF NoLocals, Locals, NoPolicy, AnyPolicies, Absent, Shims, NoCrumb, AnyCrumbs
<1>2. /\ pc = [p \in Procs |-> "idle"] /\ loc = [p \in Procs |-> NoLocals]
      /\ intent \in Policies /\ crumb = NoCrumb /\ autorun = "legacy" /\ lock = Free
      /\ os \in OSes /\ overlapped = FALSE /\ installed = (shim # Absent)
      /\ shim \in {Absent, [policy |-> intent, on |-> TRUE]}
  BY DEF Init
<1>3. Typed
  <2>1. shim \in Shims
    <3>1. Absent \in Shims /\ [policy |-> intent, on |-> TRUE] \in Shims
      BY <1>2 DEF Shims, Absent
    <3> QED
      BY Zenon, <1>2, <3>1
  <2>2. installed \in BOOLEAN /\ overlapped \in BOOLEAN
    BY Zenon, <1>2
  <2>3. \A p \in Procs : (lock = p) <=> pc[p] \notin {"idle", "locks"}
    BY <1>2, StrictAssumption DEF Free
  <2>4. crumb \in Crumbs /\ pc \in [Procs -> Steps] /\ loc \in [Procs -> Locals]
    BY <1>1, <1>2 DEF Crumbs, Steps
  <2> QED
    BY <1>2, <2>1, <2>2, <2>3, <2>4 DEF Typed, TypeOK
<1>4. \A p \in Procs : Own(p) /\ Alone(p)
  BY <1>1, <1>2 DEF Own, Alone, Changing
<1>5. OffIsOff /\ Lonely
  BY <1>2 DEF OffIsOff, Lonely
<1>6. InSync
  <2>1. installed <=> shim # Absent
    BY Zenon, <1>2
  <2>2. CASE shim = Absent
    BY <2>1, <2>2 DEF InSync
  <2>3. CASE shim = [policy |-> intent, on |-> TRUE]
    BY <2>1, <2>3 DEF InSync, Absent
  <2> QED
    BY <1>2, <2>2, <2>3
<1> QED
  BY <1>3, <1>4, <1>5, <1>6 DEF Inv, Quiet, Marked

\* A step of any process, with what it says of the audit log.
LEMMA ProcStep ==
  ASSUME Inv, NEW p \in Procs, Step(p)
  PROVE  Inv' /\ (audit' # audit => audit'.to = intent'.strict)
<1>1. CASE AcquireLocks(p)
  BY <1>1, AcquireLocksStep DEF AcquireLocks, Files
<1>2. CASE Snapshot(p)
  BY Zenon, <1>2, SnapshotStep DEF Snapshot, Files
<1>3. CASE Mark(p)
  BY <1>3, MarkStep DEF Mark
<1>4. CASE WriteIntent(p)
  BY Zenon, <1>4, WriteIntentStep DEF WriteIntent
<1>5. CASE Reread(p)
  BY <1>5, RereadStep DEF Reread, Files
<1>6. CASE Project(p)
  BY <1>6, ProjectStep DEF Project
<1>7. CASE Enable(p)
  BY Zenon, <1>7, EnableStep DEF Enable
<1>8. CASE Revert(p)
  BY <1>8, RevertStep DEF Revert
<1>9. CASE Reprobe(p)
  BY <1>9, ReprobeStep DEF Reprobe, Files
<1>10. CASE Tear(p)
  BY <1>10, TearStep DEF Tear
<1>11. CASE Clear(p)
  BY <1>11, ClearStep DEF Clear
<1>12. CASE Audit(p)
  BY <1>12, AuditStep
<1>13. CASE Choose(p)
  BY <1>13, ChooseStep DEF Choose, Files
<1>14. CASE Reassert(p)
  BY Zenon, <1>14, ReassertStep DEF Reassert
<1> QED
  BY ZenonT(40), <1>1, <1>2, <1>3, <1>4, <1>5, <1>6, <1>7, <1>8, <1>9, <1>10, <1>11, <1>12, <1>13, <1>14
     DEF Step

\* Every step keeps the invariant.
LEMMA NextInv ==
  ASSUME Inv, [Next]_vars
  PROVE  Inv' /\ (audit' # audit => audit'.to = intent'.strict)
<1>1. ASSUME NEW p \in Procs, RunStrictMode(p)
      PROVE  Inv' /\ audit' = audit
  BY Zenon, <1>1, RunStrictModeStep DEF RunStrictMode, Begin, Files
<1>2. ASSUME NEW p \in Procs, RunAutostartOwnerMode(p)
      PROVE  Inv' /\ audit' = audit
  BY Zenon, <1>2, RunAutostartOwnerModeStep DEF RunAutostartOwnerMode, Begin, Files
<1>3. ASSUME NEW p \in Procs, RunStrictModeRecover(p)
      PROVE  Inv' /\ audit' = audit
  BY Zenon, <1>3, RunStrictModeRecoverStep DEF RunStrictModeRecover, Begin, Files
<1>4. ASSUME NEW p \in Procs, Crash(p)
      PROVE  Inv' /\ audit' = audit
  BY <1>4, GiveUpStep DEF Crash, Files
<1>5. CASE DisableAutostart
  BY Zenon, <1>5, DisableAutostartStep DEF DisableAutostart
<1>6. CASE UNCHANGED vars
  <2>1. UNCHANGED <<os, intent, shim, autorun, crumb, lock, pc, loc, audit, installed, overlapped>>
    BY <1>6 DEF vars
  <2>2. Typed' /\ OffIsOff'
    BY ZenonT(40), <2>1 DEF Inv, Typed, TypeOK, OffIsOff
  <2>3. \A p \in Procs : Own(p)'
    BY <2>1 DEF Inv, Own
  <2>4. InSync' = InSync /\ \A p \in Procs : Alone(p)' = Alone(p)
    BY <2>1 DEF InSync, Alone, SyncedWith
  <2>5. Quiet'
    BY <2>1, <2>4 DEF Inv, Quiet, Lonely, Marked
  <2> QED
    BY <2>1, <2>2, <2>3, <2>5 DEF Inv
<1> QED
  BY Zenon, <1>1, <1>2, <1>3, <1>4, <1>5, <1>6, ProcStep DEF Next

\* The inductive invariant of the strict-mode commands holds in every
\* reachable state.
THEOREM StrictInvariant == Spec => []Inv
<1> QED
  BY InitInv, NextInv, PTL DEF Spec

\* Type correctness, and mutual exclusion of the commands past the state-dir
\* locks (acquireStrictModeStateLocks), whatever fails and whoever is killed.
THEOREM StrictTypeCorrect == Spec => []TypeOK
<1>1. Inv => TypeOK
  BY DEF Inv, Typed
<1> QED
  BY <1>1, StrictInvariant, PTL

\* On Windows and Linux, as long as commands do not overlap, an intent and a
\* shim that disagree are marked by a breadcrumb.
THEOREM DriftIsMarkedHolds == Spec => [](os # "darwin" => DriftIsMarked)
<1>1. Inv => (os # "darwin" => DriftIsMarked)
  BY Zenon DEF Inv, Quiet, Marked, DriftIsMarked
<1> QED
  BY <1>1, StrictInvariant, PTL

\* A command past its first write has its breadcrumb on disk, also when commands
\* overlap and on every platform.
THEOREM MarkedWhileMutatingHolds == Spec => []MarkedWhileMutating
<1>1. Inv => MarkedWhileMutating
  BY DEF Inv, Own, Changing, MarkedWhileMutating
<1> QED
  BY <1>1, StrictInvariant, PTL

\* An audit row names the policy that is on disk when it is appended.
THEOREM AuditInOrderHolds == Spec => AuditInOrder
<1>1. Inv /\ [Next]_vars => [audit' # audit => audit'.to = intent'.strict]_vars
  BY NextInv
<1> QED
  BY <1>1, StrictInvariant, PTL DEF Spec, AuditInOrder
=============================================================================
