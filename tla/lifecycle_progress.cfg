SPECIFICATION FairSpec
CONSTANTS
    None = None
    Jobs = {j1, j2}
    Workers = {w1, w2}
    Mortal = {w1}
    Users = {}
    Parent <- Chain
    MaxAttempts = 2
    MaxClaims = 6
    Lossy = FALSE
    Timely = TRUE
CHECK_DEADLOCK FALSE
PROPERTIES
    EveryJobFinishes
    ChildFinishes
