SPECIFICATION FairSpec
CONSTANTS
    c1 = c1
    c2 = c2
    c3 = c3
    Clients <- OneClient
    Kinds <- Answered
    QueueAtStart = {TRUE}
    MaxMessages = 2
    MaxRequests = 20
    MaxConnected = 1
    MaxExits = 0
    MaxKills = 0
PROPERTIES
    ImplementsRequestReply
