SPECIFICATION Spec
CONSTANTS
    Users = {u1, u2, u3}
    Roles = {"OWNER", "ADMIN"}
    Calls = {c1, c2}
    None = None
SYMMETRY Symmetry
CHECK_DEADLOCK FALSE
INVARIANTS OwnerRemains RemovedHaveNoSession
PROPERTY OwnersActOnOwners
