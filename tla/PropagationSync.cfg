SPECIFICATION SyncSpec
CONSTANTS
    m1 = m1
    m2 = m2
    m3 = m3
    Msg <- ThreeMsg
    NoMsg = NoMsg
    Genuine <- ThreeMsg
    Stamped <- ThreeMsg
    Readable <- TwoMsg
    NodeOrder <- ThreeOrder
    PENDING_INBOUND_SIZE = 1
    RECENT_INBOUND_SIZE = 2
    TRANSIENT_IDS_SIZE = 1
    SYNC_TIMEOUT = 1
    MaxArrivals = 1
    MaxSyncs = 3
INVARIANT WaitingCanHear
INVARIANT AckedWasProcessed
PROPERTY ContractSpec
