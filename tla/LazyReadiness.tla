---------------------------- MODULE LazyReadiness ---------------------------
(***************************************************************************)
(* The readiness publisher of a lazy proxy (lazy_proxy_readiness.go) and   *)
(* the row of the supervisor's tracker it commits to                       *)
(* (CommitLazyProxyReadinessEvent).                                        *)
(*                                                                         *)
(* A state is a backend generation and a transition: 1 starting, 2 ready,  *)
(* 3 idle or failed.  The mailbox has one pending slot, which only a       *)
(* greater or equal state replaces; one worker takes it, commits it over   *)
(* IPC and then, if it is still the latest, records it as delivered and    *)
(* installs or removes the watch on the backend's exit.                    *)
(***************************************************************************)
EXTENDS Integers

Keys == [epoch : Nat, rank : 0 .. 3, host : Nat]

NoKey == [epoch |-> 0, rank |-> 0, host |-> 0]

Starting(epoch, host) == [epoch |-> epoch, rank |-> 1, host |-> host]
Ready(epoch) == [epoch |-> epoch, rank |-> 2, host |-> 0]
Down(epoch) == [epoch |-> epoch, rank |-> 3, host |-> 0]

\* compareLazyProxyReadinessKey.
Below(a, b) == a.epoch < b.epoch \/ (a.epoch = b.epoch /\ a.rank < b.rank)
Same(a, b) == a.epoch = b.epoch /\ a.rank = b.rank

\* failed: the starting states whose commit failed; watch: the starting state
\* whose backend's exit is watched; tracker: the state the supervisor holds.
Publishers ==
    [latest : Keys, pending : Keys, busy : Keys, delivered : Keys, watch : Keys,
     failed : SUBSET Nat, closed : BOOLEAN, fatal : BOOLEAN, tracker : Keys]

NewPublisher ==
    [latest |-> NoKey, pending |-> NoKey, busy |-> NoKey, delivered |-> NoKey,
     watch |-> NoKey, failed |-> {}, closed |-> FALSE, fatal |-> FALSE,
     tracker |-> NoKey]

\* Mutant: a late state replaces a newer one.
PublishAlways(r, k) == IF r.closed THEN r ELSE [r EXCEPT !.latest = k, !.pending = k]

\* publish, up to the wait.  A state below the latest, already delivered or
\* already on its way is dropped.
Publish(r, k) ==
    IF \/ r.closed
       \/ Below(k, r.latest)
       \/ Same(k, r.latest) /\ \E old \in {r.delivered, r.pending, r.busy} : Same(k, old)
    THEN r
    ELSE [r EXCEPT !.latest = k, !.pending = k]

\* takePending.
TakePending(r) == [r EXCEPT !.busy = r.pending, !.pending = NoKey]

\* The producer's wait for its starting state is over: sent, failed, or
\* dropped for a greater one.
Settled(r, k) == ~Same(r.pending, k) /\ ~Same(r.busy, k)

isCurrent(r, k) == ~r.closed /\ r.latest = k

\* CommitLazyProxyReadinessEvent refuses to begin with anything but a
\* starting state, and a ready state of a generation it saw no start of.
Rejects(tr, k) ==
    \/ tr.epoch = 0 /\ k.rank # 1
    \/ tr.epoch < k.epoch /\ k.rank = 2

\* A state of an older generation, and within a generation anything but ready
\* after starting, is acknowledged without effect.
Commit(tr, k) ==
    IF \/ tr.epoch < k.epoch
       \/ tr.epoch = k.epoch /\ tr.rank = 1 /\ k.rank = 2
    THEN k
    ELSE tr

\* run, after send.  lost: both attempts failed in transport; the last may
\* have been applied.  A state that could not be settled and is still the
\* latest stops the proxy, unless it is ready.
Sent(r, lost, applied) ==
    LET k == r.busy
        ok == ~lost /\ ~Rejects(r.tracker, k)
        current == isCurrent(r, k)
    IN [r EXCEPT
         !.busy = NoKey,
         !.tracker = IF applied /\ ~Rejects(@, k) THEN Commit(@, k) ELSE @,
         !.delivered = IF ok /\ current THEN k ELSE @,
         !.watch = IF ~(ok /\ current) \/ k.rank = 2 THEN @
                   ELSE IF k.rank = 3 THEN NoKey
                   ELSE IF Below(k, r.tracker) THEN @ ELSE k,
         !.failed = IF ok \/ k.rank # 1 THEN @ ELSE @ \cup {k.epoch},
         !.fatal = @ \/ (~ok /\ current /\ k.rank # 2)]

\* stop, up to the wait for the worker.
Close(r) == [r EXCEPT !.closed = TRUE, !.pending = NoKey]
=============================================================================
