SPECIFICATION SyncSafeSpec
CONSTANTS
    m1 = m1
    m2 = m2
    m3 = m3
    Msg <- TwoMsg
    NoMsg = NoMsg
    Genuine <- TwoMsg
    Stamped <- TwoMsg
    Readable <- TwoMsg
    NodeOrder <- TwoOrder
    PENDING_INBOUND_SIZE = 1
    RECENT_INBOUND_SIZE = 2
    TRANSIENT_IDS_SIZE = 2
    SYNC_TIMEOUT = 1
    MaxArrivals = 1
    MaxSyncs = 3
INVARIANT AckedIsDelivered
