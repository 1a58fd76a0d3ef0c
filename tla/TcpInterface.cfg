SPECIFICATION TcpSpec
CONSTANTS
    t1 = t1
    t2 = t2
    HEADER_MINSIZE = 2
    Thread <- TcpThreads
    EndOf <- TcpEnds
    Payloads <- TcpPayloads
    MAX_PENDING_INBOUND = 1
    MAX_DRAIN_PER_TICK = 1
CHECK_DEADLOCK FALSE
INVARIANT ArrivedWereSent
INVARIANT SentAreAccounted
INVARIANT EndedIsOffline
PROPERTY StopReturns
PROPERTY SentIsHandled
