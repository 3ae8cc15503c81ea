----------------------------- MODULE StrictMode -----------------------------
(***************************************************************************)
(* The strict-mode commands of internal/cli/strict_mode.go.  A command      *)
(* moves two resources together: the policy in supervisor-intent.json and  *)
(* the autostart shim the operating system launches at login.  It marks    *)
(* the change with a breadcrumb file before the first write and removes    *)
(* the breadcrumb once both agree, so that a process killed half way leaves *)
(* something for `strict-mode --recover` to repair.                        *)
(*                                                                         *)
(* A process runs one command after another.  Every step is one read or    *)
(* write of a file or one call of the operating system; a crash may come   *)
(* between any two, and frees the state-dir locks, which are flocks.       *)
(***************************************************************************)
EXTENDS Naturals, FiniteSets

CONSTANTS
  Procs,     \* processes that may run a command
  OSes,      \* the platforms of the instance
  Commands,  \* how many strict-mode / autostart commands are issued
  Faults     \* how many calls fail, processes die or operators give up

ASSUME StrictAssumption ==
  /\ OSes \subseteq {"windows", "linux", "darwin"}
  /\ Commands \in Nat
  /\ Faults \in Nat
  /\ "free" \notin Procs

VARIABLES
  os,          \* the platform this behaviour runs on
  intent,      \* strict_mode and owner_mode of supervisor-intent.json
  shim,        \* the installed shim
  autorun,     \* the GUI's autorun preference (Windows)
  crumb,       \* strict-mode-mutation-incomplete.json
  lock,        \* holder of migration.lock and --once.lock
  pc, loc,     \* each process's step and its local variables
  audit,       \* the last strict-mode-changed row of supervisor-events.log
  installed,   \* whether the operator has a shim (history)
  overlapped,  \* whether two commands ever ran at once (history)
  budget

vars == <<os, intent, shim, autorun, crumb, lock, pc, loc, audit, installed,
          overlapped, budget>>

Policies == [strict : BOOLEAN, owner : {"gui", "supervise"}]

NoPolicy == [strict |-> FALSE, owner |-> "none"]

\* policy: the argv the shim launches.  on: the task, unit or agent is
\* registered with the operating system.
Shims == [policy : Policies, on : BOOLEAN] \cup {[policy |-> NoPolicy, on |-> FALSE]}

Absent == [policy |-> NoPolicy, on |-> FALSE]

NoCrumb == [phase |-> "none", intended |-> NoPolicy, actual |-> NoPolicy]

Crumbs == {NoCrumb} \cup
  [phase : {"in-progress", "torn"}, intended : Policies, actual : Policies]

Free == "free"

NoLocals == [cmd |-> "none", want |-> NoPolicy, orig |-> NoPolicy, known |-> FALSE,
             snap |-> Absent, crumb |-> NoCrumb, ok |-> FALSE, applied |-> FALSE]

Init ==
  /\ os \in OSes
  /\ intent \in {p \in Policies : os # "windows" => p.owner = "gui"}
  /\ shim \in {Absent, [policy |-> intent, on |-> TRUE]}
  /\ installed = (shim # Absent)
  /\ autorun = "legacy"
  /\ crumb = NoCrumb
  /\ lock = Free
  /\ pc = [p \in Procs |-> "idle"]
  /\ loc = [p \in Procs |-> NoLocals]
  /\ audit = [from |-> FALSE, to |-> FALSE]
  /\ overlapped = FALSE
  /\ budget = [command |-> Commands, fault |-> Faults]

Files == <<intent, shim, autorun, crumb, audit, installed>>

Goto(p, to) == pc' = [pc EXCEPT ![p] = to]

Fault ==
  /\ budget.fault > 0
  /\ budget' = [budget EXCEPT !.fault = @ - 1]

NoFault == UNCHANGED budget

\* A return path without the deferred release.
ReturnHolding(p) ==
  /\ Goto(p, "idle")
  /\ loc' = [loc EXCEPT ![p] = NoLocals]
  /\ UNCHANGED lock

\* The command returns and its deferred locks.Release() runs.
Return(p) ==
  /\ Goto(p, "idle")
  /\ loc' = [loc EXCEPT ![p] = NoLocals]
  /\ lock' = IF lock = p THEN Free ELSE lock

---------------------------------------------------------------------------
(* Entry: the breadcrumb is looked at before the locks are taken. *)

Begin(p, l) ==
  /\ pc[p] = "idle"
  /\ Goto(p, "locks")
  /\ loc' = [loc EXCEPT ![p] = l]
  /\ overlapped' = (overlapped \/ \E q \in Procs : pc[q] # "idle")
  /\ UNCHANGED <<os, lock, Files>>

IssueCommand ==
  /\ budget.command > 0
  /\ budget' = [budget EXCEPT !.command = @ - 1]

RunStrictMode(p) ==
  /\ crumb = NoCrumb
  /\ IssueCommand
  /\ \E desired \in BOOLEAN :
       Begin(p, [NoLocals EXCEPT !.cmd = "strict", !.want = [strict |-> desired, owner |-> "none"]])

RunAutostartOwnerMode(p) ==
  /\ os = "windows"
  /\ crumb = NoCrumb
  /\ IssueCommand
  /\ \E desired \in Policies : Begin(p, [NoLocals EXCEPT !.cmd = "owner", !.want = desired])

\* A --recover that knows only the older, torn shape.
RecoverTornOnly(p) ==
  /\ crumb.phase = "torn"
  /\ Begin(p, [NoLocals EXCEPT !.cmd = "recover", !.crumb = crumb])
  /\ NoFault

RunStrictModeRecover(p) ==
  /\ crumb # NoCrumb
  /\ Begin(p, [NoLocals EXCEPT !.cmd = "recover", !.crumb = crumb])
  /\ NoFault

\* acquireStrictModeStateLocks: refused when held, exit 9.
AcquireLocks(p) ==
  /\ pc[p] = "locks"
  /\ \/ /\ lock = Free
        /\ lock' = p
        /\ Goto(p, IF loc[p].cmd = "recover" THEN "choose" ELSE "snapshot")
        /\ UNCHANGED loc
     \/ lock # Free /\ Return(p)
  /\ NoFault
  /\ UNCHANGED <<os, Files, overlapped>>

---------------------------------------------------------------------------
(* runAutostartPolicyUnderLocks *)

\* What a command knows once it has read the intent and probed the shim.  A
\* probe that fails says absent, and the error is kept.
FirstReads(l, known) ==
  [l EXCEPT !.orig = intent, !.known = known, !.snap = IF known THEN shim ELSE Absent,
            !.want.owner = IF @ = "none" THEN intent.owner ELSE @]

Snapshot(p) ==
  /\ pc[p] = "snapshot"
  /\ \/ \E known \in BOOLEAN :
          /\ IF known THEN NoFault ELSE Fault
          /\ loc' = [loc EXCEPT ![p] = FirstReads(@, known)]
          /\ Goto(p, "mark")
          /\ UNCHANGED lock
     \/ Fault /\ Return(p)
  /\ UNCHANGED <<os, Files, overlapped>>

\* Only handled failures leave a breadcrumb.
MarkNothing(p) ==
  /\ pc[p] = "mark"
  /\ Goto(p, "write")
  /\ UNCHANGED <<os, lock, loc, Files, overlapped, budget>>

\* The in-progress breadcrumb, before the first write.
Mark(p) ==
  /\ pc[p] = "mark"
  /\ \/ /\ crumb' = [phase |-> "in-progress", intended |-> loc[p].want, actual |-> loc[p].orig]
        /\ Goto(p, "write")
        /\ NoFault
        /\ UNCHANGED <<lock, loc>>
     \/ Fault /\ Return(p) /\ UNCHANGED crumb
  /\ UNCHANGED <<os, intent, shim, autorun, audit, installed, overlapped>>

\* Step 1, and the intent write of --recover.  A failed write may leave the
\* file alone or have published it already; an "applied" failure is the
\* durable write whose lock could not be released.
WriteIntent(p) ==
  /\ pc[p] = "write"
  /\ \/ NoFault /\ intent' = loc[p].want /\ Goto(p, "project") /\ UNCHANGED <<lock, loc>>
     \/ /\ Fault
        /\ intent' \in {intent, loc[p].want}
        /\ Goto(p, IF loc[p].cmd = "recover" THEN "reassert" ELSE "reread")
        /\ UNCHANGED <<lock, loc>>
     \/ /\ Fault
        /\ intent' = loc[p].want
        /\ IF loc[p].cmd = "recover"
           THEN /\ loc' = [loc EXCEPT ![p].applied = TRUE]
                /\ Goto(p, "project")
                /\ UNCHANGED lock
           ELSE Return(p)
  /\ UNCHANGED <<os, shim, autorun, crumb, audit, installed, overlapped>>

\* After a failed step 1 the breadcrumb goes only when a re-read proves the
\* intent unchanged.
Reread(p) ==
  /\ pc[p] = "reread"
  /\ \/ NoFault /\ intent = loc[p].orig /\ Goto(p, "clear") /\ UNCHANGED <<lock, loc>>
     \/ NoFault /\ intent # loc[p].orig /\ Return(p)
     \/ Fault /\ Return(p)
  /\ UNCHANGED <<os, Files, overlapped>>

ProjectFailed(p) == Goto(p, IF loc[p].cmd = "recover" THEN "reassert" ELSE "revert")

\* What Enable does to the installed shim before the call that can fail: on
\* Windows it deletes the task, elsewhere it overwrites the unit or plist
\* (and boots the launchd agent out).
Disturbed(s, want) ==
  CASE os = "windows" -> Absent
    [] os = "linux"   -> [s EXCEPT !.policy = want]
    [] os = "darwin"  -> [policy |-> want, on |-> FALSE]

\* Step 2, projectAutostartWithGUIControl: an explicit OFF preference removes
\* the shim and reads the removal back, otherwise Enable replaces it.
Project(p) ==
  /\ pc[p] = "project"
  /\ IF autorun = "off" /\ loc[p].cmd # "owner"
     THEN /\ \/ NoFault /\ shim' = Absent /\ Goto(p, "clear") /\ loc' = [loc EXCEPT ![p].ok = TRUE]
             \/ Fault /\ shim' \in {shim, Absent} /\ ProjectFailed(p) /\ UNCHANGED loc
          /\ UNCHANGED autorun
     ELSE /\ \/ /\ NoFault
                /\ shim' = Disturbed(shim, loc[p].want)
                /\ Goto(p, "enable")
                /\ autorun' = IF loc[p].cmd = "owner" THEN "on" ELSE autorun
             \/ /\ Fault
                /\ ProjectFailed(p)
                /\ autorun' \in {autorun, IF loc[p].cmd = "owner" THEN "on" ELSE autorun}
                /\ UNCHANGED shim
          /\ UNCHANGED loc
  /\ UNCHANGED <<os, intent, crumb, lock, audit, installed, overlapped>>

\* The call that registers the shim; it needs the file that was written.
Enable(p) ==
  /\ pc[p] = "enable"
  /\ \/ /\ os # "windows" => shim # Absent
        /\ shim' = [policy |-> loc[p].want, on |-> TRUE]
        /\ installed' = TRUE
        /\ loc' = [loc EXCEPT ![p].ok = TRUE]
        /\ Goto(p, "clear")
        /\ NoFault
     \/ /\ IF os # "windows" /\ shim = Absent THEN NoFault ELSE Fault
        /\ ProjectFailed(p)
        /\ UNCHANGED <<shim, installed, loc>>
  /\ UNCHANGED <<os, intent, autorun, crumb, lock, audit, overlapped>>

\* What the torn breadcrumb says when the revert failed, unless the revert
\* is known to have reached the disk.
TornActual(l) == [strict |-> l.want.strict, owner |-> l.orig.owner]

\* Revert step 1.
Revert(p) ==
  /\ pc[p] = "revert"
  /\ \/ NoFault /\ intent' = loc[p].orig /\ Goto(p, "reprobe") /\ UNCHANGED loc
     \/ /\ Fault
        /\ intent' \in {intent, loc[p].orig}
        /\ Goto(p, "tear")
        /\ loc' = [loc EXCEPT ![p].crumb.actual = TornActual(loc[p])]
     \/ /\ Fault
        /\ intent' = loc[p].orig
        /\ Goto(p, "tear")
        /\ loc' = [loc EXCEPT ![p].crumb.actual = loc[p].orig]
  /\ UNCHANGED <<os, shim, autorun, crumb, lock, audit, installed, overlapped>>

\* strictModeShimDriftFingerprint of a probe: the launchd backend reports
\* every plist as enabled.
Fingerprint(s) == IF os = "darwin" THEN [s EXCEPT !.on = s # Absent] ELSE s

\* The error of the first probe is forgotten.
ProvenUnchangedUnprobed(p) == Fingerprint(shim) = Fingerprint(loc[p].snap)

ProvenUnchanged(p) == loc[p].known /\ Fingerprint(shim) = Fingerprint(loc[p].snap)

\* The intent is back; the breadcrumb goes only when the shim is proven
\* unchanged.
Reprobe(p) ==
  /\ pc[p] = "reprobe"
  /\ \/ NoFault /\ ProvenUnchanged(p) /\ Goto(p, "clear") /\ UNCHANGED loc
     \/ /\ IF ProvenUnchanged(p) THEN Fault ELSE NoFault
        /\ Goto(p, "tear")
        /\ loc' = [loc EXCEPT ![p].crumb.actual = loc[p].orig]
  /\ UNCHANGED <<os, Files, lock, overlapped>>

\* Overwrite the breadcrumb with the torn shape, exit 10.  When that fails
\* too, the in-progress one is still there.
Tear(p) ==
  /\ pc[p] = "tear"
  /\ \/ NoFault /\ crumb' = [phase |-> "torn", intended |-> loc[p].want, actual |-> loc[p].crumb.actual]
     \/ Fault /\ UNCHANGED crumb
  /\ Return(p)
  /\ UNCHANGED <<os, intent, shim, autorun, audit, installed, overlapped>>

\* The locks are released before the audit row is written.
ClearThenRelease(p) ==
  /\ pc[p] = "clear"
  /\ crumb' = NoCrumb
  /\ IF loc[p].ok /\ loc[p].cmd # "recover" /\ loc[p].orig.strict # loc[p].want.strict
     THEN Goto(p, "audit") /\ lock' = Free /\ UNCHANGED loc
     ELSE Return(p)
  /\ UNCHANGED <<os, intent, shim, autorun, audit, installed, overlapped, budget>>

\* os.Remove of the breadcrumb; a failure is reported and nothing else.
Clear(p) ==
  /\ pc[p] = "clear"
  /\ \/ NoFault /\ crumb' = NoCrumb
     \/ Fault /\ UNCHANGED crumb
  /\ IF loc[p].ok /\ loc[p].cmd # "recover" /\ loc[p].orig.strict # loc[p].want.strict
     THEN Goto(p, "audit") /\ UNCHANGED <<lock, loc>>
     ELSE Return(p)
  /\ UNCHANGED <<os, intent, shim, autorun, audit, installed, overlapped>>

\* emitStrictModeChangedEvent, still under the locks; bounded and best effort.
Audit(p) ==
  /\ pc[p] = "audit"
  /\ \/ NoFault /\ audit' = [from |-> loc[p].orig.strict, to |-> loc[p].want.strict]
     \/ Fault /\ UNCHANGED audit
  /\ Return(p)
  /\ UNCHANGED <<os, intent, shim, autorun, crumb, installed, overlapped>>

---------------------------------------------------------------------------
(* RunStrictModeRecover *)

\* Branch A drives both resources to intended, branch B to
\* actual_intent_state; the operator may also give up.
Choose(p) ==
  /\ pc[p] = "choose"
  /\ \/ /\ \E to \in {loc[p].crumb.intended, loc[p].crumb.actual} :
             loc' = [loc EXCEPT ![p].want = to]
        /\ Goto(p, "write")
        /\ NoFault
        /\ UNCHANGED lock
     \/ Fault /\ Return(p)
  /\ UNCHANGED <<os, Files, overlapped>>

\* A reconcile that did not converge writes the breadcrumb again.
Reassert(p) ==
  /\ pc[p] = "reassert"
  /\ \/ /\ NoFault
        /\ crumb' = [loc[p].crumb EXCEPT !.actual = IF loc[p].applied THEN loc[p].want ELSE @]
     \/ Fault /\ UNCHANGED crumb
  /\ Return(p)
  /\ UNCHANGED <<os, intent, shim, autorun, audit, installed, overlapped>>

---------------------------------------------------------------------------
(* The environment *)

\* The process is killed, or the machine loses power.
Crash(p) ==
  /\ pc[p] # "idle"
  /\ Fault
  /\ Return(p)
  /\ UNCHANGED <<os, Files, overlapped>>

\* `mcphub autostart disable` takes no state-dir lock.  On Windows the
\* settings lock keeps it out of a projection.
DisableAutostart ==
  /\ IssueCommand
  /\ os = "windows" => \A p \in Procs : pc[p] # "enable"
  /\ autorun' = IF os = "windows" THEN "off" ELSE autorun
  /\ shim' \in {shim, Absent}
  /\ installed' = FALSE
  /\ UNCHANGED <<os, intent, crumb, lock, pc, loc, audit, overlapped>>

Step(p) ==
  \/ AcquireLocks(p) \/ Snapshot(p) \/ Mark(p) \/ WriteIntent(p) \/ Reread(p)
  \/ Project(p) \/ Enable(p) \/ Revert(p) \/ Reprobe(p) \/ Tear(p) \/ Clear(p)
  \/ Audit(p) \/ Choose(p) \/ Reassert(p)

Next ==
  \/ \E p \in Procs :
       \/ RunStrictMode(p) \/ RunAutostartOwnerMode(p) \/ RunStrictModeRecover(p)
       \/ Step(p) \/ Crash(p)
  \/ DisableAutostart

Spec == Init /\ [][Next]_vars

\* A running command goes on, and an operator who sees the breadcrumb runs
\* `strict-mode --recover`, as the refusal tells them to.
FairSpec ==
  /\ Spec
  /\ \A p \in Procs : WF_vars(Step(p))
  /\ WF_vars(\E p \in Procs : RunStrictModeRecover(p))

---------------------------------------------------------------------------
(* Properties *)

Steps == {"idle", "locks", "snapshot", "mark", "write", "reread", "project", "enable",
          "revert", "reprobe", "tear", "clear", "audit", "choose", "reassert"}

\* The variables have their types, and a process past the locks holds them.
TypeOK ==
  /\ intent \in Policies
  /\ shim \in Shims
  /\ autorun \in {"legacy", "on", "off"}
  /\ crumb \in Crumbs
  /\ pc \in [Procs -> Steps]
  /\ \A p \in Procs : (lock = p) <=> pc[p] \notin {"idle", "locks"}

\* The shim launches what the intent says, and is there if the operator has one.
InSync ==
  /\ shim # Absent => shim.policy = intent
  /\ installed => shim # Absent /\ shim.on

\* As long as commands do not overlap, two resources that disagree are always
\* marked by a breadcrumb, whatever fails and wherever the process dies: the
\* breadcrumb is written before the first change and removed only after both
\* agree again (runAutostartPolicyUnderLocks, RunStrictModeRecover).
DriftIsMarked == ~overlapped /\ crumb = NoCrumb => InSync

\* The same for commands that do overlap, once none holds the locks:
\* strict-mode never removes the breadcrumb, or returns, while the shim may be
\* out of sync with the intent.
NeverUnmarkedDrift == lock = Free /\ crumb = NoCrumb => InSync

\* While a strict-mode or autostart command holds the locks and is past its
\* first write, the breadcrumb is there, even when commands overlap: nobody
\* else removes it (RunStrictMode, RunAutostartOwnerMode).
MarkedWhileMutating ==
  \A p \in Procs :
    pc[p] \in {"write", "reread", "project", "enable", "revert", "reprobe", "tear"}
      /\ loc[p].cmd # "recover" => crumb # NoCrumb

\* An audit row tells the policy that is on disk when it is appended: it is
\* written before the locks are released, so the log is in the order of the
\* changes (emitStrictModeChangedEvent).
AuditInOrder == [][audit' # audit => audit'.to = intent'.strict]_vars

\* A breadcrumb does not stay for good: an operator who runs --recover until
\* it succeeds clears it (RunStrictModeRecover).
CrumbCleared == crumb # NoCrumb ~> crumb = NoCrumb

\* A torn breadcrumb's actual_intent_state and actual_intent_owner_mode name
\* one of the two policies the command moved the intent file between, so that
\* branch B of --recover goes back to something the file really held.
CrumbNamesIntent ==
  [][\A p \in Procs :
       pc[p] = "tear" /\ crumb' # crumb => crumb'.actual \in {loc[p].want, loc[p].orig}]_vars
=============================================================================
