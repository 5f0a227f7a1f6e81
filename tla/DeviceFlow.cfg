SPECIFICATION FairSpec
CONSTANTS
    Approvers = {a1, a2, a3}
    Pollers = {p1, p2}
    None = None
CHECK_DEADLOCK FALSE
INVARIANTS FamiliesWithinApprovals ConsumedIsIssued
PROPERTY ApprovedIsConsumed
