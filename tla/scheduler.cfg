SPECIFICATION FairSpec
CONSTANTS
    None = None
    Schedules = {x1}
    Schedulers = {s1}
    Operators = {o1}
    LastDate <- AllDates
    MaxSlots = 3
    Workers = {w1}
    Jobs = {j1}
    Timeout = 2
    MaxFaults = 1
INVARIANTS
    TypeOK
    OffMeansQuiet
    ShownAliveKeepsJobs
PROPERTIES
    OncePerDate
    DatesFire
    StatusSettles
    OrphansReturn
