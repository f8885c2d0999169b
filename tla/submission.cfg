SPECIFICATION Spec
CONSTANTS
    None = None
    Clients = {c1, c2}
    Keys = {k1}
    BatchSize = 2
    MaxJobs = 3
    MaxCancelled = 1
    MaxDead = 1
    Lossy = TRUE
SYMMETRY ClientSymmetry
INVARIANTS
    TypeOK
    OneJobPerKey
    OnlyLateDependentsAreLeft
    MarkedHasFreshJob
