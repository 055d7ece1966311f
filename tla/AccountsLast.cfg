\* Overlapping requests and the last administrator.
SPECIFICATION Spec
CONSTANTS
    founder = founder
    other = other
    system = system
    extra = extra
    t1 = t1
    t2 = t2
    Users = {founder, other}
    Founder = founder
    SystemRole = system
    Permissions <- AllPermissions
    NoRequest = NoRequest
    Roles = {system}
    RoleChoices <- SystemOnly
    PermissionChoices <- None
    Clients <- Overlapping
    MaxVersion = 2
INVARIANT
    AdministratorRemains
\* Tokens and requests run out with the bound of authVersion.
CHECK_DEADLOCK FALSE
