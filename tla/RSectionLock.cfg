SPECIFICATION FairSpec
CONSTANTS
    Threads = {1, 2, 3, 4}
    None = 0
    MaxOps = 8
CHECK_DEADLOCK FALSE
INVARIANTS BookkeepingExact NoLostWakeup
PROPERTIES LockSpec Served
