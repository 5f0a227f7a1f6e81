SPECIFICATION TokensSpec
CONSTANTS
    Credentials = {k1, k2, k3}
    Families = {f1, f2}
    Refreshers = {q1, q2}
    Hooks = {h1, h2}
    Expiries = 1
    None = None
SYMMETRY Symmetry
CHECK_DEADLOCK FALSE
INVARIANTS TokensTypeOK OneCurrent ReuseIsReal NoFalseAlarm ReuseEndsFamily
PROPERTY ClearedAreDead
