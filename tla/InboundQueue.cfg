SPECIFICATION Spec
CONSTANTS
    m1 = m1
    m2 = m2
    m3 = m3
    Msg <- InboundMsg
    NoMsg = NoMsg
    Genuine <- InboundGenuine
    Stamped <- InboundStamped
    PENDING_INBOUND_SIZE = 2
    RECENT_INBOUND_SIZE = 2
    MaxArrivals = 3
INVARIANT DispatchedOncePerWindow
INVARIANT NothingVanishes
PROPERTY QueueDrains
