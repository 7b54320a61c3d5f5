SPECIFICATION SpuriousSpec
CONSTANTS
    Clients = {c1}
    NoOne = NoOne
    NumCores = 2
    CoreCounts = {2}
    MayFailAt = {}
    MaxTasks = 1
INVARIANTS WorkBlocks
