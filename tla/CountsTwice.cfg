\* One count that is approved again after a late recount.
SPECIFICATION Spec
CONSTANTS
    p1 = p1
    l1 = l1
    l2 = l2
    w1 = w1
    k1 = k1
    k2 = k2
    Products <- OneProduct
    Locations <- OneLocation
    Warehouses <- OneWarehouse
    WarehouseOf <- InWarehouse
    NoLocation = NoLocation
    Capacity = 2
    Counts <- OneCount
    Clients = {t1, t2}
    NoRequest = NoRequest
    NoItem = NoItem
    NotCounted = NotCounted
    Switchable <- NoSwitches
PROPERTY
    ApprovedOnce
