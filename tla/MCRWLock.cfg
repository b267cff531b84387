SPECIFICATION Spec
CONSTANTS
    Threads = {t1, t2, t3}
    Locks = {l1, l2}
    Conds = {c1}
    Timed = {TRUE}
    Deletable = {l1}
    MaxReads = 2
SYMMETRY Perms
INVARIANTS WriterExcludes NoPairDeadlock BookkeepingExact
PROPERTIES ReadsRestored WakeupLostToTimeout
