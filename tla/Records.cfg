\* Users and roles, warehouses and locations, customers and suppliers, products,
\* and the lists, stock reads and forms over records.
SPECIFICATION RecordsSpec
CONSTANTS
    founder = founder
    other = other
    system = system
    extra = extra
    t1 = t1
    t2 = t2
    clerk = clerk
    w1 = w1
    w2 = w2
    l1 = l1
    l2 = l2
    l3 = l3
    cpf1 = cpf1
    cpf2 = cpf2
    cnpj = cnpj
    c1 = c1
    c2 = c2
    s1 = s1
    a1 = a1
    a2 = a2
    p1 = p1
    ca1 = ca1
    ca2 = ca2
    u1 = u1
    u2 = u2
    v1 = v1
    v2 = v2
    Null = Null
    Absent = Absent
    Warehouse = {w1, w2}
    Location = {l1, l2, l3}
    HomeOf <- Homes
    Customers = {c1, c2}
    Suppliers = {s1}
    Documents = {cpf1, cpf2, cnpj}
    TypeOf <- DocumentTypes
    Addresses = {a1}
    SharedCustomers = {c1}
    SharedDocuments = {cpf1}
    SharedAddresses = {a1, a2}
    Product = {p1}
    Categories = {ca1, ca2}
    Units = {u1, u2}
    MaxRow = 3
    MaxKey = 2
    Limit = 1
    MaxWrites = 1
    Products = {p1}
    Locations = {l1, l2}
    Warehouses = {w1}
    WarehouseOf <- OneHome
    Capacity = 2
    Values = {v1, v2}
    MaxMoves = 3
    MaxChanges = 1
    MaxFetches = 1
    Users = {founder, other}
    Founder = founder
    SystemRole = system
    Permissions <- AllPermissions
    NoRequest = NoRequest
    Roles = {system, extra}
    RoleChoices <- ExtraRole
    PermissionChoices <- Administering
    Clients <- Overlapping
    MaxVersion = 2
SYMMETRY Alike
INVARIANTS
    AccountsAreSound
    RecordsAreSound
    ListsAreComplete
    ShownStockIsReal
PROPERTIES
    WritesAreSound
    FormsKeep
\* Tokens and requests run out with the bound of authVersion.
CHECK_DEADLOCK FALSE
