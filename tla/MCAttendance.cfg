SPECIFICATION AttendanceSpec
CONSTANTS
    f1 = f1
    f2 = f2
    d1 = d1
    d2 = d2
    Handlers = {c1, c2}
    Files = {f1, f2}
    Days = {d1, d2}
    FileRows <- MCRows
    Calendar <- MCCalendar
    Pattern <- MCPattern
    RequestIds = {i1}
    RequestKeys = {k1}
    Wants <- MCWants
    Leaves <- MCLeaves
    Assignments <- MCAssignments
SYMMETRY Sym
INVARIANTS BatchOwnsEvents DayHasReason
PROPERTY CorrectionStands
CHECK_DEADLOCK FALSE
