SPECIFICATION StoreSpec
CONSTANTS
    a = a
    b = b
    c = c
    d = d
    x = x
    y = y
    Msg <- FourMsg
    Peer = {x, y}
    PeerOf <- FourPeerOf
    Path <- FourMsg
    PathOf <- FourOwnPath
    Status <- TwoStatus
    NoFile = NoFile
    Unused = Unused
    Uncached = Uncached
    HasArchive = TRUE
    MAX_CONVERSATIONS = 1
    MAX_MESSAGES_PER_CONVERSATION = 2
    HOT_MESSAGES_PER_CONVERSATION = 1
    Faults <- SafeFaults
    MaxCalls = 3
    MaxCrashes = 1
CHECK_DEADLOCK FALSE
INVARIANT IdleIsDurable
INVARIANT ListedIsStored
INVARIANT HotStateIsCurrent
PROPERTY DurableChangesByCommit
PROPERTY CallsReturn
