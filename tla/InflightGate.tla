---------------------------- MODULE InflightGate ----------------------------
(***************************************************************************)
(* The lazy proxy's gate for one (workspace, language) key,                *)
(* internal/daemon/inflight.go: a singleflight group and a retry throttle. *)
(*                                                                         *)
(* call is the flight a new caller would join (0: none), active the number *)
(* of flights whose function runs, failure the last failure while it is    *)
(* younger than minRetryGap.  Forget drops call and failure but not active:*)
(* a forgotten flight keeps running beside its successor.                  *)
(***************************************************************************)
EXTENDS Integers

\* What a flight ends with; "none" is no result and no recorded failure.
Failures == {"error", "missing", "unpublishable"}
Outcomes == Failures \cup {"ok"}

Gates(Flights) == [call : Flights \cup {0}, active : Nat, failure : Failures \cup {"none"}]

NewInflightGate == [call |-> 0, active |-> 0, failure |-> "none"]

Throttled(g) == g.failure # "none"

HasActiveFlight(g) == g.active > 0

\* DoChan: flight f becomes the call that later callers join.
Enter(g, f) == [g EXCEPT !.call = f]

\* The flight's call is removed unless Forget has already given the key to
\* a successor.
Leave(g, f) == [g EXCEPT !.call = IF @ = f THEN 0 ELSE @]

Begin(g) == [g EXCEPT !.active = @ + 1]

Settle(g, f, out) ==
    [Leave(g, f) EXCEPT !.active = @ - 1,
                        !.failure = IF out = "ok" THEN "none" ELSE out]

Forget(g) == [g EXCEPT !.call = 0, !.failure = "none"]

\* Time passes minRetryGap after the failure.
GapElapsed(g) == [g EXCEPT !.failure = "none"]
=============================================================================
