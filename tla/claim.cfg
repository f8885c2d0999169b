SPECIFICATION FairSpec
CONSTANTS
    None = None
    j1 = j1
    j2 = j2
    j3 = j3
    qa = qa
    qb = qb
    w1 = w1
    w2 = w2
    Jobs = {j1, j2, j3}
    Queues = {qa, qb}
    Workers = {w1, w2}
    QueueOf <- TwoQueues
    QPriority <- Priorities
    Rank <- Ranks
    Subscribed <- SomeQueues
    Batch = 2
    Limits <- SomeLimits
    Databases = {"postgres", "sqlite"}
    Aborts = TRUE
    MaxMoves = 1
INVARIANTS
    TypeOK
    ClaimIsFresh
    GuardAlwaysWins
    PerWorkerWithinLimit
PROPERTIES
    ImplementsAtomicClaim
    PassedOverOnlyByArrivals
