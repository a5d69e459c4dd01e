SPECIFICATION FairSpec
CONSTANTS
    g1 = g1
    g2 = g2
    w1 = w1
    ra = ra
    rb = rb
    Reads = {g1, g2}
    Writes = {w1}
    Routes = {ra, rb}
    RouteOf <- MCRouteOf
    None = None
    Slots = 2
    Limit = 4
    Reserve = 1
    Window = 2
    Delay = 1
INVARIANTS TypeOK InflightExact Conservative
PROPERTIES EveryRequestReturns
CHECK_DEADLOCK FALSE
