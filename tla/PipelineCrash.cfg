SPECIFICATION Spec
CONSTANTS
    Prompts = {p1}
    Analyses = {a1}
    Workers = {w1}
    Dispatchers = {d1}
    Requests = {}
    MaxAttempts = 2
    MaxStalled = 1
    RetryableErrors = {"PROVIDER_ERROR"}
    FatalErrors = {"INVALID_RESPONSE"}
    Faults = {"crash"}
    None = None
CHECK_DEADLOCK FALSE
INVARIANT RunningIsRecoverable
