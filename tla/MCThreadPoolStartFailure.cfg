SPECIFICATION FairSpec
CONSTANTS
    Clients = {c1}
    NoOne = NoOne
    NumCores = 2
    CoreCounts = {2}
    MayFailAt = {2}
    MaxTasks = 1
PROPERTIES StartFailureFallsBack
CHECK_DEADLOCK FALSE
