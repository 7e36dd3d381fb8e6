SPECIFICATION Spec
CONSTANTS
    p1 = p1
    p2 = p2
    p3 = p3
    p4 = p4
    Procs <- FourThreads
    Locks <- AllLocks
    Files <- AllFiles
    Programs <- Installed
    Scenarios <- FixedReadersWriters
    MaxKills = 0
CHECK_DEADLOCK FALSE
INVARIANTS
    WholeFiles
