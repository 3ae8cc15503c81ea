CONSTANTS
    Reqs = {r1, r2, r3}
    None = None
    Kinds = {"initialize", "call", "notification", "delete", "sse"}
    Answers = {"ok"}
    ServerIds = {1}
    MaxPending = 2
    MaxSessions = 2
    MaxSubscribers = 1
    StdinCapacity = 1
    MaxUnsolicited = 1
    Faults = {"repeat"}
SPECIFICATION Spec
CHECK_DEADLOCK FALSE
SYMMETRY Symmetry
INVARIANTS OwnAnswer PendingIsInFlight SessionsKept SubscribersCounted
