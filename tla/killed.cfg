SPECIFICATION Spec
CONSTANTS
    c1 = c1
    c2 = c2
    c3 = c3
    Clients <- TwoClients
    Kinds <- AllKinds
    QueueAtStart = {TRUE, FALSE}
    MaxMessages = 2
    MaxRequests = 2
    MaxConnected = 2
    MaxExits = 1
    MaxKills = 1
SYMMETRY Symmetric
INVARIANTS
    ExecutedAtMostOnce
CHECK_DEADLOCK FALSE
