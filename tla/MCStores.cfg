SPECIFICATION StoresSpec
CONSTANTS
    Threads = {t1, t2}
    NoThread = NoThread
    Texts = {"a", "b"}
    MaxCalls = 3
    Addresses <- MCAddresses
    Programs <- MCPrograms
    Leaves <- MCLeaves
    Shape <- MCShape
    Placements <- MCPlacements
INVARIANTS StoresOK NoTemporaryLeaks
PROPERTIES ImplementsTypeTable ImplementsNameTable
