SPECIFICATION Spec
CONSTANTS
    Clients = {c1, c2}
    People = {p1}
    Ids = {i1, i2, i3}
    Keys = {k1, k2, k3}
    FailUntil = 3
SYMMETRY Sym
INVARIANTS ActiveIsProvisioned ConflictsOnRecord
CHECK_DEADLOCK FALSE
