SPECIFICATION FairSpec
CONSTANTS
    Tenants = {t1, t2}
    Prompts = {p1}
    Runs = {r1, r2}
    Window = 1
    Retentions = {0, 1}
    LastTick = 2
    Changes = 2
    None = None
CHECK_DEADLOCK FALSE
PROPERTIES RunFollowsSettings DueIsDeleted ExpiredIsPurged
