SPECIFICATION Spec
CONSTANTS
    Clients = {c1, c2}
    Instances = {i1, i2}
    Seeded = {}
    SeedNode = "a"
    Keys = {k1}
    NoKey = NoKey
    Nodes <- MCNodes
    Definitions = {"ext", "line"}
    SeedDefinition = "ext"
    Kind <- MCKind
    Outs <- MCOuts
    Start = "start"
    GuardLimit = 24
    MaxVersions = 2
    MayRestart = TRUE
SYMMETRY Sym
INVARIANTS KeyAppliedOnce StatusMatchesTokens JoinNeverFull 
CHECK_DEADLOCK FALSE
