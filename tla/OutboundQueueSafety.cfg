SPECIFICATION SafeSpec
CONSTANTS
    o = o
    d = d
    p = p
    Msg <- MixedMsg
    PackedMethod <- MixedMethod
    Representation <- MixedRepresentation
    PoolSize <- OneSlotEach
    PENDING_OUTBOUND_SIZE = 2
    FAILED_OUTBOUND_SIZE = 1
    MAX_DELIVERY_ATTEMPTS = 2
    OUTBOUND_RETRY_DELAY = 2
    PATH_REQUEST_WAIT = 2
    LINK_POLL_DELAY = 1
    PropagationOnlyChoices = {TRUE, FALSE}
    SentCallbackMayThrow = TRUE
    DeliveredCallbackMayThrow = TRUE
    FailedCallbackMayThrow = TRUE
INVARIANT NoMessageTwice
INVARIANT NothingLostInSilence
INVARIANT DeliveredOnlyAfterSent
INVARIANT LeakedSlotsHaveACause
