--------------------------- MODULE MCSettlement ---------------------------
(* Small instances of StopSettlement. *)
EXTENDS StopSettlement, TLC

CONSTANTS t1, t2

Budget(targets, stop, start, death, fault, timeout, crash, retry, watch) ==
  [targets |-> targets, stop |-> stop, start |-> start, death |-> death, fault |-> fault,
   timeout |-> timeout, crash |-> crash, retry |-> retry, watch |-> watch]

\* One stop or two at a time, each against a few of the things that may happen.
MCBudgets ==
  {Budget(<<t1>>, 2, 1, 0, 0, 1, 0, 0, 1), Budget(<<t1>>, 2, 0, 0, 1, 1, 0, 0, 0),
   Budget(<<t1>>, 2, 0, 0, 0, 1, 0, 1, 0), Budget(<<t1>>, 1, 0, 1, 1, 0, 1, 0, 0),
   Budget(<<t1>>, 1, 1, 1, 0, 0, 0, 0, 1), Budget(<<t1>>, 1, 1, 1, 0, 1, 0, 0, 0),
   Budget(<<t1>>, 1, 0, 0, 1, 0, 0, 0, 1), Budget(<<t1>>, 2, 1, 1, 0, 0, 1, 0, 0),
   Budget(<<t1, t2>>, 1, 0, 0, 1, 0, 0, 0, 0), Budget(<<t1, t2>>, 1, 0, 0, 0, 1, 0, 0, 0),
   Budget(<<t1, t2>>, 1, 0, 1, 0, 0, 1, 0, 0)}

\* A stop, a start and a second stop, for a settlement that saw the port free
\* before the start.
StalePort == {Budget(<<t1>>, 2, 1, 0, 0, 0, 0, 1, 2)}
============================================================================
