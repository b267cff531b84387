SPECIFICATION FairSpec
CONSTANTS
    Threads = {t1, t2, t3}
    Plain = {p}
    Scannable = {s}
    max <- Unlimited
    Timeouts = {"never", "timed"}
    Cap = 2
    ScanCap = 1
PROPERTY ReaderServed
