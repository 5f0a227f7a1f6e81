SPECIFICATION CaptureSpec
CONSTANTS
    Events = {e1, e2}
    Hooks = {h1}
    Overlap = FALSE
    Crashes = TRUE
    Tags = {a, b}
    TagsOf <- AllTags
    Requests = {r1, r2}
    None = None
SYMMETRY Symmetry
CHECK_DEADLOCK FALSE
INVARIANTS CaptureTypeOK OneRowPerEvent SecondConflictFromTags AcceptedIsStored
PROPERTY ImplementsQueue
