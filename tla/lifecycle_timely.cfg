SPECIFICATION Spec
CONSTANTS
    None = None
    Jobs = {j1, j2, j3, j4}
    Workers = {w1, w2}
    Mortal = {w1}
    Users = {}
    Parent <- Line
    MaxAttempts = 2
    MaxClaims = 4
    Lossy = TRUE
    Timely = TRUE
CHECK_DEADLOCK FALSE
INVARIANTS
    SingleExecution
    ActiveIsLeased
    AttemptsExact
    OneDeadLetter
    AttemptsWithinMax
    DependentWaitsForParent
    ReleasedByParent
PROPERTIES
    ImplementsJobService
