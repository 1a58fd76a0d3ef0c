SPECIFICATION BridgeSpec
CONSTANT MaxCalls = 3
CHECK_DEADLOCK FALSE
INVARIANT CallbackIsOfThisCall
INVARIANT StartedIsOurs
PROPERTY CallReturns
