SPECIFICATION Spec
CONSTANTS
    c1 = c1
    c2 = c2
    c3 = c3
    Clients <- TwoClients
    Kinds <- Answered
    QueueAtStart = {TRUE}
    MaxMessages = 2
    MaxRequests = 1
    MaxConnected = 2
    MaxExits = 0
    MaxKills = 0
SYMMETRY Symmetric
INVARIANTS
    OwnReplies
