CONSTANTS
    Reqs = {r1, r2}
    None = None
    Kinds = {"initialize", "call"}
    Answers = {"ok"}
    ServerIds = {1, 2}
    MaxPending = 2
    MaxSessions = 2
    MaxSubscribers = 1
    StdinCapacity = 2
    MaxUnsolicited = 1
    Faults = {}
SPECIFICATION Spec
CHECK_DEADLOCK FALSE
INVARIANTS AnsweredWithAnswer
