SPECIFICATION Spec
CONSTANTS
    None = None
    Jobs = {j1}
    Workers = {w1, w2}
    Mortal = {}
    Users = {u1}
    Parent <- Independent
    MaxAttempts = 2
    MaxClaims = 2
    Lossy = TRUE
    Timely = FALSE
SYMMETRY WorkerSymmetry
CHECK_DEADLOCK FALSE
INVARIANTS
    TypeOK
    AttemptsCounted
    DeadLetteredAfterAllAttempts
    CompletedHasSuccess
    DeadHasLetter
