SPECIFICATION Spec
CONSTANTS
    a = a
    b = b
    admin = admin
    manager = manager
    root = root
    john = john
    Client = {c1}
    Role = {admin, manager}
    User = {root, john}
    Operation = {"role:write", "role:assign", "operation:assign", "operation:write", "resource:write"}
    RecordId = {}
    Resource = {"role", "operation", "resource"}
    ResourceOf <- MCResourceOf
    Configured = {a, b}
    AdminRole = admin
    AdminSub = root
    Declared <- MCElsewhere
    RequestScope = {"FULL"}
    MaxChanges = 2
SYMMETRY Symmetry
PROPERTY TenantsAreIsolated
