SPECIFICATION FairSpec
CONSTANTS
    Threads = {t1, t2, t3}
    Plain = {p}
    Scannable = {}
    max = 2
    Timeouts = {"never"}
    Cap = 2
    ScanCap = 1
PROPERTY WriterServed
