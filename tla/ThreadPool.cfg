SPECIFICATION FairSpec
CONSTANTS
    Workers = {w1,w2}
    Tasks = {1, 2, 3}
    Clients = {c1,c2}
    Max = 2
    MinIdle = 1
    MaxIdle = 2
    Release = TRUE
    Stops = {"stop", "stopWait"}
INVARIANTS TasksAccounted ListsLive NoLockInversion NoLostSignal
PROPERTIES TasksSettled StopReturns
