\* Purchase orders, receipt requests that may share a key, and the stock they enter.
SPECIFICATION MCSpec
CONSTANTS
    o1 = o1
    p1 = p1
    p2 = p2
    l1 = l1
    l2 = l2
    w1 = w1
    k1 = k1
    k2 = k2
    d1 = d1
    d2 = d2
    r1 = r1
    r2 = r2
    t1 = t1
    t2 = t2
    Orders = {o1}
    NoLocation = NoLocation
    NoRequest = NoRequest
    NoReceipt = NoReceipt
    Details = {d1, d2}
    Keys = {k1, k2}
    Products <- MCProducts
    Locations <- MCLocations
    Warehouses <- MCWarehouses
    WarehouseOf <- SameWarehouse
    Capacity = 2
    Clients <- MCClients
    ItemChoices <- MCItemChoices
    Requests <- MCRequests
    Bodies <- MCBodies
    MaxSends = 2
    Switchable <- MCSwitchable
    Elsewhere <- MCElsewhere
    Countable <- MCWarehouses
INVARIANTS
    ReceiptsAgree
    KeysAreSound
PROPERTIES
    LateWritesAreRefused
    ImplementsContract
    SentIsAnswered
\* The requests may all be answered and the order closed: then nothing is left to do.
CHECK_DEADLOCK FALSE
