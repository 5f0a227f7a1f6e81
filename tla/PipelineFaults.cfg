SPECIFICATION FairSpec
CONSTANTS
    Prompts = {p1}
    Analyses = {a1}
    Workers = {w1, w2}
    Dispatchers = {d1, d2}
    Requests = {}
    MaxAttempts = 2
    MaxStalled = 1
    RetryableErrors = {"PROVIDER_ERROR"}
    FatalErrors = {"INVALID_RESPONSE"}
    Faults = {"setup", "database", "claimLost", "ackLost", "crash", "stall", "dispatch"}
    None = None
CHECK_DEADLOCK FALSE
INVARIANTS ExclusiveRun BilledOnce ErrorIsCurrent QueuedHasCarrier
PROPERTIES ImplementsLease CompletedIsFinal QueuedIsTried DeliveredJobEnds
