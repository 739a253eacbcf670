CONSTANTS
    Task = {1, 2, 3}
    Cap = 2
    Lens = {1, 2}
    MaxRound = 1
    Ops <- MCOpsAll
SPECIFICATION Spec
INVARIANT TypeOK
INVARIANT NoLostWakeup
CHECK_DEADLOCK FALSE
