SPECIFICATION RegistrySpec
CONSTANTS
    r1 = r1
    r2 = r2
    r3 = r3
    home = home
    away = away
    m1 = m1
    Router <- RegistryRouters
    NoRouter = NoRouter
    Dest <- RegistryDests
    NoDest = NoDest
    DestOf <- RegistryDestOf
    Msg <- RegistryMsgs
    ROUTER_REGISTRY_SIZE = 3
CHECK_DEADLOCK FALSE
INVARIANT SoleRouterIsFirst
INVARIANT RoomIsKept
PROPERTY ProofsAreHeardOnce
