SPECIFICATION FairSpec
CONSTANTS
    Clients = {c1, c2}
    NoOne = NoOne
    NumCores = 2
    CoreCounts = {0, 1, 2}
    MayFailAt = {1}
    MaxTasks = 2
INVARIANTS TypeOK WorkBlocks AssertionsHold NoLostWakeup OneWaiter
PROPERTIES ImplementsWorkPool CallsReturn
