CONSTANTS
    Reqs = {r1}
    Flights = {f1, f2}
    Backends = {1, 2, 3}
    Kinds = {"call", "open", "close"}
    Budgets <- Lifetimes
SPECIFICATION FairSpec
INVARIANTS CountsAreThisEpochs
PROPERTIES EveryRequestAnswered StopKillsAll DownIsReported
CHECK_DEADLOCK FALSE
