SPECIFICATION Spec
CONSTANTS
    Clients = {c1}
    Instances = {i1, i2, i3}
    Seeded = {i3}
    SeedNode = "b"
    Keys = {k1}
    NoKey = NoKey
    Nodes <- MCNodes
    Definitions = {"full"}
    SeedDefinition = "full"
    Kind <- MCKind
    Outs <- MCOuts
    Start = "start"
    GuardLimit = 24
    MaxVersions = 1
    MayRestart = FALSE
INVARIANTS TokensHaveWork NeverStuck RunsOnce CommandsKeepPace
CHECK_DEADLOCK FALSE
