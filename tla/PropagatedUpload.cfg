SPECIFICATION UploadSpec
CONSTANTS
    p = p
    r = r
    NoNode = NoNode
    NoStamp = NoStamp
    Msg <- UploadMsg
    PackedMethod <- UploadMethod
    Representation <- UploadRepresentation
    PoolSize <- TwoSlotsEach
    Node = {n1, n2}
    StampCost = {0, 1}
    SearchMayFail = TRUE
    PENDING_OUTBOUND_SIZE = 2
    FAILED_OUTBOUND_SIZE = 1
    MAX_DELIVERY_ATTEMPTS = 3
    OUTBOUND_RETRY_DELAY = 1
    PATH_REQUEST_WAIT = 1
    LINK_POLL_DELAY = 1
    PropagationOnlyChoices = {FALSE}
    SentCallbackMayThrow = FALSE
    DeliveredCallbackMayThrow = FALSE
    FailedCallbackMayThrow = FALSE
INVARIANT StampedUnlessSearchFailed
INVARIANT MisfitsHaveACause
PROPERTY UploadsGoToTheChosenNode
PROPERTY ContractSpec
