SPECIFICATION FairSpec
CONSTANTS
    Workers = {w1, w2}
    Tenants = {t1}
    requestsPerMinute = 2
    failureThreshold = 2
    Budget = 2
    MaxTokens = 2
    LastMinute = 1
    MaxFailures = 2
    MaxRequests = 4
    None = None
CHECK_DEADLOCK FALSE
INVARIANTS RateKept OvershootBounded
PROPERTY FailuresForgotten
