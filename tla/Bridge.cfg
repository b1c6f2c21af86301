SPECIFICATION FairSpec
CONSTANTS
    r1 = r1
    r2 = r2
    Runs = {r1, r2}
    NoRun = NoRun
    MaxStarts = 2
    MaxFaults = 1
INVARIANTS
    TypeOK
    MixUpsBalance
    TwiceOnlyLate
    AsleepAfterReport
PROPERTIES
    EveryRunEnds
    InboxDrained
CHECK_DEADLOCK FALSE
