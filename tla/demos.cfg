SPECIFICATION Spec
CONSTANTS
    p1 = p1
    p2 = p2
    p3 = p3
    p4 = p4
    Procs <- ThreeProcesses
    Locks <- AllLocks
    Files <- AllFiles
    Programs <- Installed
    Scenarios <- Folders
    MaxKills = 1
CHECK_DEADLOCK FALSE
INVARIANTS
    TypeOK
    WholeFiles
    NoLostUpdate
    NotAllWait
    NothingLeaks
