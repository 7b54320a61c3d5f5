SPECIFICATION Spec
CONSTANTS
    Threads = {t1, t2, t3}
    Creator = t1
    NoThread = NoThread
    ChunkSize = 4
    Requests <- MCRequests
    MaxAllocs = 4
    MaxArenas = 5
INVARIANTS TypeOK NoOverlap InsideChunk NothingWasted NothingLeaked
PROPERTIES ListOnlyGrows AllocSpaceReturns
