CONSTANTS
    Reqs = {r1, r2}
    Flights = {f1, f2}
    Backends = {1, 2, 3}
    Kinds = {"call"}
    Budgets <- Races
SPECIFICATION Spec
SYMMETRY Symmetry
INVARIANTS NoStrayBackend ExposedIsAcked ReadyIsWarm GenNamesEndpoint ActiveIsWarm
CHECK_DEADLOCK FALSE
