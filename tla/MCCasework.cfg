SPECIFICATION CaseSpec
CONSTANTS
    Callers = {c1, c2}
    People = {p1, p2}
    MaxRounds = 2
SYMMETRY Sym
INVARIANTS StateHasEvidence AgreesUnlessRaced
CHECK_DEADLOCK FALSE
