SPECIFICATION Spec
CONSTANTS
    Operators = {o1}
    Clerks = {c1, c2}
    Keys = {k1, k2, k3}
    Required = {k1, k2}
    MaxFaults = 2
INVARIANTS  ReadyMeansDone
 
CHECK_DEADLOCK FALSE
