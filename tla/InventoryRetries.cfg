\* The retry loop of one request: what a client sees after three conflicts.
SPECIFICATION MCSpec
CONSTANTS
    p1 = p1
    l1 = l1
    l2 = l2
    w1 = w1
    w2 = w2
    k1 = k1
    r1 = r1
    r2 = r2
    Products <- MCProducts
    Locations <- MCLocations
    Warehouses <- MCWarehouses
    WarehouseOf <- MCWarehouseOf
    NoLocation = NoLocation
    Capacity = 2
    Requests <- MCRequests
    Keys <- MCKeys
    NoKey = NoKey
    NoMovement = NoMovement
    Bodies <- MCBodies
    MaxSends = 2
    Switchable <- MCSwitchable
INVARIANT
    ConflictsAreHandled
