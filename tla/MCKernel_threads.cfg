CONSTANTS
    NumTask = 3
    LockNum = 0
    CondNum = 0
    BarNum = 0
    MaxPid = 2
    Goals = {}
    Ops <- MCOpsThreads
    KillArgs = {1}
    WaitArgs = {}
    JoinArgs = {1, 2, 3}
    KillRunning = FALSE
    SleepArgs = {}
SPECIFICATION Spec
INVARIANT ListsWellFormed
INVARIANT StatusMatchesQueue
INVARIANT RunningIsLive
CHECK_DEADLOCK FALSE
