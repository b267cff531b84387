SPECIFICATION Spec
CONSTANTS
    Threads = {t1, t2, t3}
    Plain = {p}
    Scannable = {s}
    max = 2
    Timeouts = {"never", "timed", "negative"}
    Cap = 2
    ScanCap = 2
SYMMETRY Perms
INVARIANTS LenIsLength NoLostReaderWakeup ScanBalance DeletedWakesAll
PROPERTY DequeSpec
