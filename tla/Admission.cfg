SPECIFICATION AdmissionSpec
CONSTANTS
    a = a
    b = b
    c = c
    u = u
    x = x
    y = y
    z = z
    Peer <- AdmissionPeer
    NoPeer = NoPeer
    OUTBOUND_STAMP_COSTS_SIZE = 2
    MAX_STAMP_COST = 2
    ANNOUNCED_COSTS <- AdmissionCosts
    MaxUpdates = 3
    Msg <- AdmissionMsg
    TextOf <- AdmissionText
    PeerOf <- AdmissionTo
    Propagated <- AdmissionPropagated
    Sourceless <- AdmissionSourceless
    Guarded <- AdmissionGuarded
    NoHash = NoHash
    NoBytes = NoBytes
    NoStamp = NoStamp
    MAX_AUTO_OUTBOUND_STAMP_COST = 1
    PENDING_OUTBOUND_SIZE = 1
    MaxVersion = 1
CHECK_DEADLOCK FALSE
INVARIANT CostsAreLatest
INVARIANT SilentAreForgottenFirst
INVARIANT AutomaticStampsHold
INVARIANT WaitingIsOutbound
