SPECIFICATION Spec
CONSTANTS
    None = None
    Jobs = {j1}
    Threads = {t1}
    BatchSize = 1
    LeaseTicks = 3
    BeatTicks = 1
    TimeoutTicks = 3
    PromptTicks = 0
    MaxMissed = 1
    MaxCopies = 1
    Lossy = FALSE
CHECK_DEADLOCK FALSE
INVARIANTS
    LeaseKeptWhileAlive
