-------------------------- MODULE StopTransaction --------------------------
(***************************************************************************)
(* What the durable stop promises.  stop[t] is what the state file says of *)
(* daemon t: how far a stop of it has come and which child it is about.    *)
(* current[t] is the number of the daemon's latest child.                  *)
(*                                                                         *)
(* A batch of stops is admitted as a whole.  The stop of a daemon that has *)
(* a child goes through the exit of that child and the release of its port *)
(* to its commit, that of a daemon without one starts behind the exit; no  *)
(* phase is skipped, repeated or taken back, and until the commit the      *)
(* daemon gets no new child.  A crash of the supervisor changes nothing.   *)
(***************************************************************************)
EXTENDS Naturals

CONSTANT Tasks

VARIABLES stop, current

None == [phase |-> "none", child |-> 0]

Init ==
  /\ stop = [t \in Tasks |-> None]
  /\ current \in [Tasks -> Nat]

Begin(S) ==
  /\ \A t \in S : stop[t] = None
  /\ \E at \in [S -> {"stop_requested", "exit_observed"}] :
       stop' = [t \in Tasks |-> IF t \in S THEN [phase |-> at[t], child |-> current[t]]
                                ELSE stop[t]]
  /\ UNCHANGED current

Advance(t, from, to) ==
  /\ stop[t].phase = from
  /\ stop' = [stop EXCEPT ![t].phase = to]
  /\ UNCHANGED current

ObserveExit(t) == Advance(t, "stop_requested", "exit_observed")

ReleasePort(t) == Advance(t, "exit_observed", "port_released")

Commit(t) ==
  /\ stop[t].phase = "port_released"
  /\ stop' = [stop EXCEPT ![t] = None]
  /\ UNCHANGED current

Spawn(t) ==
  /\ stop[t] = None
  /\ current' = [current EXCEPT ![t] = @ + 1]
  /\ UNCHANGED stop

Next ==
  \/ \E S \in SUBSET Tasks : Begin(S)
  \/ \E t \in Tasks : ObserveExit(t) \/ ReleasePort(t) \/ Commit(t) \/ Spawn(t)

Spec == Init /\ [][Next]_<<stop, current>>
============================================================================
