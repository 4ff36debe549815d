SPECIFICATION Spec
CONSTANTS
    a = a
    b = b
    admin = admin
    manager = manager
    root = root
    john = john
    Client = {c1, c2}
    Role = {admin, manager}
    User = {root, john}
    Operation = {"role:write", "role:assign", "operation:assign", "operation:write", "resource:write"}
    RecordId = {i1}
    Resource = {"role", "operation", "resource"}
    ResourceOf <- MCResourceOf
    Configured = {a}
    AdminRole = admin
    AdminSub = root
    Declared <- MCDelegated
    RequestScope = {"FULL"}
    MaxChanges = 3
SYMMETRY Symmetry
INVARIANT Inv
PROPERTY AccessGrowsByGrantOnly
