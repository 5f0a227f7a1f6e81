SPECIFICATION FairSpec
CONSTANTS
    Events = {e1, e2, e3}
    Hooks = {h1}
    Overlap = FALSE
    Crashes = TRUE
    None = None
CHECK_DEADLOCK FALSE
INVARIANT KeptUntilAccepted
PROPERTY HookEnds
