SPECIFICATION Spec
CONSTANTS
    Clients = {c1, c2}
    Items = {i1, i2, i3}
    Types = {"FS", "SS"}
    None = None
    Spans <- MCSpans
    MaxDeps = 3
    MaxMoves = 2
SYMMETRY Sym
INVARIANTS CycleFree ScheduleHolds
CHECK_DEADLOCK FALSE
