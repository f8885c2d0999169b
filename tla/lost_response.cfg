SPECIFICATION FairSpec
CONSTANTS
    None = None
    Jobs = {j1}
    Workers = {w1}
    Mortal = {}
    Users = {}
    Parent <- Independent
    MaxAttempts = 1
    MaxClaims = 2
    Lossy = TRUE
    Timely = TRUE
CHECK_DEADLOCK FALSE
PROPERTIES
    EveryJobFinishes
