SPECIFICATION Spec
CONSTANTS
    Threads = {t1, t2, t3}
    Mutexes = {m1}
    Gates = {g1, g2}
    Synced = {g2}
    Conds = {c1}
    Timed = {TRUE, FALSE}
    Deletable = {m1}
    MaxCount = 2
SYMMETRY Perms
INVARIANTS HeldExact ResourcesCover NoLostWakeup NoPairDeadlock
