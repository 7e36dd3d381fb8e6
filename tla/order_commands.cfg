SPECIFICATION FairSpec
CONSTANTS
    c1 = c1
    c2 = c2
    c3 = c3
    Threads <- ThreeConnections
    Tables <- OrderTables
    Rank <- OrderRank
    Programs <- OrderCommands
    MaxRequests = 1
INVARIANTS
    ReadersExcludeWriters
    LockedLoadsSeeWholeFiles
PROPERTIES
    ImplementsReadersWriters
    CommandsFinish
