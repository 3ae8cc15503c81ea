CONSTANTS
    Reqs = {r1, r2}
    None = None
    Kinds = {"initialize", "call"}
    Answers = {"ok", "unsupported"}
    ServerIds = {}
    MaxPending = 2
    MaxSessions = 2
    MaxSubscribers = 1
    StdinCapacity = 1
    MaxUnsolicited = 0
    Faults = {"stop", "exit", "descendant"}
SPECIFICATION FairSpec
CHECK_DEADLOCK FALSE
INVARIANTS FinalAnswerWins NoSessionAfterStop CacheIsInitialize
PROPERTIES ExitReported WrittenReturns
