SPECIFICATION FairSpec
CONSTANTS
    None = None
    Schedules = {x1}
    Schedulers = {s1}
    Operators = {}
    LastDate <- OneDate
    MaxSlots = 1
    Workers = {w1, w2}
    Jobs = {j1}
    Timeout = 1
    MaxFaults = 0
PROPERTIES
    OrphansRecovered
