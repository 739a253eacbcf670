CONSTANTS
    NumTask = 3
    LockNum = 0
    CondNum = 0
    BarNum = 1
    MaxPid = 3
    Goals = {2, 3}
    Ops <- MCOpsBarrier
    KillArgs = {}
    WaitArgs = {}
    JoinArgs = {}
    KillRunning = FALSE
    SleepArgs = {1}
SPECIFICATION FairSpec
INVARIANT ListsWellFormed
INVARIANT RunningIsLive
PROPERTY ReadyEventuallyRuns
PROPERTY SleeperEventuallyWakes
