CONSTANTS
    NumTask = 3
    LockNum = 1
    CondNum = 1
    BarNum = 0
    MaxPid = 4
    Goals = {}
    Ops <- MCOpsSchedMutex
    KillArgs = {1, 2, 3}
    WaitArgs = {1, 2, 3}
    JoinArgs = {}
    KillRunning = FALSE
    SleepArgs = {}
SPECIFICATION Spec
INVARIANT TypeOK
INVARIANT ListsWellFormed
INVARIANT StatusMatchesQueue
INVARIANT RunningIsLive
INVARIANT MutexExclusion
INVARIANT NoWaiterOnFreeMutex
PROPERTY MutexRefined
