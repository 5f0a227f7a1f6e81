SPECIFICATION Spec
CONSTANTS
    Events = {e1, e2}
    Hooks = {h1, h2}
    Overlap = TRUE
    Crashes = FALSE
    None = None
CHECK_DEADLOCK FALSE
INVARIANT KeptUntilAccepted
