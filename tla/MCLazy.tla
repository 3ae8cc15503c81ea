-------------------------------- MODULE MCLazy -------------------------------
(***************************************************************************)
(* Instances of LazyProxy for TLC.  A run starts in each of its scenarios: *)
(* what may go wrong together, and how many requests the clients send.     *)
(***************************************************************************)
EXTENDS LazyProxy, TLC

\* Neither requests nor flights are told apart.
Symmetry == Permutations(Reqs) \cup Permutations(Flights)

Scenario(b) == [i \in Inputs |-> IF i \in DOMAIN b THEN b[i] ELSE 0]

\* Two requests at once, against one fault or two.
Races ==
    {Scenario(b) : b \in
        {[request |-> 2, exit |-> 1, probation |-> 1],
         [request |-> 2, exit |-> 1, cancel |-> 1],
         [request |-> 2, close |-> 1],
         [request |-> 2, lost |-> 1],
         [request |-> 3, idle |-> 1, stop |-> 1],
         [request |-> 3, start |-> 1],
         [request |-> 3, refuse |-> 1, full |-> 1]}}

\* One client after another, for the properties of whole executions.
Lifetimes ==
    {Scenario(b) : b \in
        {[request |-> 2, exit |-> 1],
         [request |-> 1, exit |-> 1, probation |-> 1],
         [request |-> 1, exit |-> 1, close |-> 1],
         [request |-> 1, start |-> 1, probation |-> 1, write |-> 1],
         [request |-> 1, exit |-> 1, lost |-> 1],
         [request |-> 2, idle |-> 1, cancel |-> 1],
         [request |-> 2, full |-> 1, reject |-> 1]}}

\* A first open that is given up while a second one is absorbed.
Opens == {Scenario([request |-> 2])}

\* A backend that exits before its generation is exposed.
EarlyExit == {Scenario([request |-> 2, exit |-> 1])}
=============================================================================
