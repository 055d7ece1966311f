\* One count decided between the clerks' requests; two decided at any moment.
SPECIFICATION MCSpec
CONSTANTS
    p1 = p1
    l1 = l1
    l2 = l2
    w1 = w1
    k1 = k1
    k2 = k2
    Products <- OneProduct
    Locations <- TwoLocations
    Warehouses <- OneWarehouse
    WarehouseOf <- InWarehouse
    NoLocation = NoLocation
    Capacity = 2
    Counts <- TwoCounts
    Clients = {t1, t2}
    NoRequest = NoRequest
    NoItem = NoItem
    NotCounted = NotCounted
    Switchable <- ProductSwitch
SYMMETRY Symmetry
INVARIANTS
    CountsAreSound
    SnapshotHolds
PROPERTIES
    ApprovalSetsCounted
    ImplementsContract
