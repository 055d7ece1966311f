\* One order whose steps overlap; two orders that compete for one warehouse's stock.
SPECIFICATION MCSpec
CONSTANTS
    o1 = o1
    o2 = o2
    p1 = p1
    p2 = p2
    l1 = l1
    l2 = l2
    l3 = l3
    w1 = w1
    w2 = w2
    t1 = t1
    t2 = t2
    Products <- MCProducts
    Locations <- MCLocations
    Warehouses <- MCWarehouses
    WarehouseOf <- MCWarehouseOf
    NoLocation = NoLocation
    Capacity = 2
    Orders <- MCOrders
    Clients <- MCClients
    NoRequest = NoRequest
    ItemChoices <- MCItemChoices
    CodeOrder <- MCCodeOrder
    Switchable <- MCSwitchable
SYMMETRY Symmetry
INVARIANTS
    ReservationsAreSound
    ShippedOnce
    AllocationIsExact
PROPERTIES
    LateWritesAreRefused
    ImplementsContract
