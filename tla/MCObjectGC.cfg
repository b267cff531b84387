SPECIFICATION Spec
CONSTANTS
    Objs = {o1, o2}
    Threads = {t1, t2}
    Nil = Nil
    Bad = Bad
    Kinds = {"assign", "drop", "take"}
    MaxOps = 5
SYMMETRY Symmetry
INVARIANTS LiveKeptUnlessRaced GarbageCollected DeletedOnce SetsCurrent OnlyInversionBlocks
CHECK_DEADLOCK FALSE
