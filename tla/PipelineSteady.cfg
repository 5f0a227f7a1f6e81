SPECIFICATION Spec
CONSTANTS
    Prompts = {p1}
    Analyses = {a1, a2}
    Workers = {w1, w2}
    Dispatchers = {d1}
    Requests = {r1}
    MaxAttempts = 2
    MaxStalled = 1
    RetryableErrors = {"PROVIDER_ERROR"}
    FatalErrors = {"INVALID_RESPONSE"}
    Faults = {"setup", "dispatch", "ackLost"}
    None = None
CHECK_DEADLOCK FALSE
SYMMETRY Symmetry
INVARIANTS RunningIsHeld FailedIsRetried SecondActiveIsRetry
