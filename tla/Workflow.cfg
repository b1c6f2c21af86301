SPECIFICATION FairSpec
CONSTANTS
    w1 = w1
    r1 = r1
    r2 = r2
    q1 = q1
    Flows = {w1}
    Runs = {r1, r2}
    Requests = {q1}
    NoFlow = NoFlow
    NoRun = NoRun
    MaxSteps = 1
INVARIANTS
    TypeOK
    RowTellsOutcome
    CronSequential
    LateCronOnce
PROPERTIES
    LoopEnds
    RunsEnd
