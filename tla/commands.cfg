SPECIFICATION Spec
CONSTANTS
    c1 = c1
    c2 = c2
    c3 = c3
    Threads <- TwoConnections
    Tables <- DatabaseTables
    Rank <- LockOrder
    Programs <- AllCommands
    MaxRequests = 2
SYMMETRY Symmetric
INVARIANTS
    TypeOK
    BinarySemaphores
    WritersExclude
    NoLostUpdate
    SomeoneProceeds
