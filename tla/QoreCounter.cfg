SPECIFICATION FairSpec
CONSTANTS
    Threads = {t1, t2, t3}
    MaxCnt = 2
INVARIANT CountExact
PROPERTIES ZeroOnReturn WaitsEnd
