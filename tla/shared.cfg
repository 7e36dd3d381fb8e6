SPECIFICATION FairSpec
CONSTANTS
    c1 = c1
    c2 = c2
    c3 = c3
    Clients <- TwoClients
    Kinds <- Answered
    QueueAtStart = {TRUE}
    MaxMessages = 1
    MaxRequests = 4
    MaxConnected = 2
    MaxExits = 0
    MaxKills = 0
INVARIANTS
    TypeOK
    EveryWaitIsCovered
PROPERTIES
    ClientsAnswered
