SPECIFICATION FairSpec
CONSTANTS
    Runners = {r1, r2}
    Desks = {d1}
    Launches = {l1}
    Opened = {"UAT"}
    Steps <- MCSteps
    MaxFaults = 1
INVARIANTS ActiveIsPrepared DoneIsMade LinkedIsLive
PROPERTY LaunchesComplete
CHECK_DEADLOCK FALSE
