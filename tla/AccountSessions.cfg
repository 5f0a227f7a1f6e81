SPECIFICATION Spec
CONSTANTS
    Sessions = {s1, s2, s3}
    Tenants = {t1, t2}
    Home = t1
    Tokens = {k1, k2}
    Calls = {c1, c2}
    None = None
SYMMETRY Symmetry
CHECK_DEADLOCK FALSE
INVARIANTS SessionIsEntitled SwitchMovesSession TokenSpentOnce LastTokenOnly
