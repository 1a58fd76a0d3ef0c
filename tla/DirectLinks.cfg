SPECIFICATION LinkSpec
CONSTANTS
    d = d
    e = e
    x = x
    y = y
    Msg <- LinkMsg
    Peer <- LinkPeer
    PackedMethod <- LinkMethod
    Representation <- LinkRepresentation
    To <- LinkTo
    PoolSize <- OneSlotEach
    DIRECT_LINKS_SIZE = 1
    RegistryRoom = 1
    LINK_ESTABLISHMENT_TIMEOUT = 1
    MaxLinks = 3
    PENDING_OUTBOUND_SIZE = 2
    FAILED_OUTBOUND_SIZE = 1
    MAX_DELIVERY_ATTEMPTS = 2
    OUTBOUND_RETRY_DELAY = 1
    PATH_REQUEST_WAIT = 1
    LINK_POLL_DELAY = 1
    PropagationOnlyChoices = {TRUE, FALSE}
    SentCallbackMayThrow = FALSE
    DeliveredCallbackMayThrow = FALSE
    FailedCallbackMayThrow = FALSE
INVARIANT ClosedLinksLeaveTheTable
PROPERTY ActiveLinksStay
PROPERTY ContractSpec
