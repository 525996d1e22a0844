SPECIFICATION ServicesSpec
CONSTANTS
    Connections <- MCConnections
    NetworkOf <- MCNetworkOf
    Replicas <- MCReplicas
    TicketOf <- MCTicketOf
    ConnectionLimit = 2
    ScopedMax = 1
    NetworkLimit = 1
    LeaseLife = 2
    Writers <- MCWriters
    First = First
    NoConversation = NoConversation
    NoWriter = NoWriter
    MaxMessages = 2
    Admins = {"a", "b"}
    NoAdmin = NoAdmin
    Texts = {x}
    TakeoverLife = 1
    RepeatWindow = 0
    MaxTime = 2
    MaxTicketMessages = 2
    Emails = {e}
    Sessions = {"session"}
    GuestSockets = {"tab"}
    Calls = {"m1", "m2"}
    SessionOf <- MCSessionOf
    ConnectionOf <- MCConnectionOf
    NoCall = NoCall
    MaxAttempts = 2
    MaxCodes = 2
    MaxRemembered = 1
    MaxLost = 1
    CartRequests = {q1, q2}
    MaxSockets = 2
    Req <- MCRequests
    Concurrency = 1
    MaxQueue = 2
    QueueWait = 1
    Lease = 2
    SendDelay = 1
INVARIANT ClosedSocketRenewsNothing
CHECK_DEADLOCK FALSE
