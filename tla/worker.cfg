SPECIFICATION FairSpec
CONSTANTS
    None = None
    Jobs = {j1, j2}
    Threads = {t1, t2}
    BatchSize = 2
    LeaseTicks = 3
    BeatTicks = 1
    TimeoutTicks = 3
    PromptTicks = 0
    MaxMissed = 1
    MaxCopies = 1
    Lossy = FALSE
CHECK_DEADLOCK FALSE
INVARIANTS
    TypeOK
    LeaseKeptWhileServing
    
    StopLeavesNothing
PROPERTIES
    StopEnds
