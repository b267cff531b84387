SPECIFICATION FairSpec
CONSTANTS
    Threads = {t1, t2, t3}
    min = 1
    max = 2
    Callback = TRUE
INVARIANTS OneOwner NoLostWakeup FreeCleanHeldOpen
PROPERTIES TransactionStays WaitersServed
