SPECIFICATION Spec
CONSTANTS
    None = None
    j1 = j1
    j2 = j2
    j3 = j3
    qa = qa
    qb = qb
    w1 = w1
    w2 = w2
    Jobs = {j1, j2}
    Queues = {qa}
    Workers = {w1, w2}
    QueueOf <- OneQueue
    QPriority <- Priorities
    Rank <- Ranks
    Subscribed <- AllQueues
    Batch = 1
    Limits <- OneSlot
    Databases = {"postgres"}
    Aborts = FALSE
    MaxMoves = 0
INVARIANTS
    ConcurrencyLimitHeld
