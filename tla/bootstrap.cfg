SPECIFICATION Spec
CONSTANTS
    a = a
    b = b
    p1 = p1
    admin = admin
    manager = manager
    root = root
    john = john
    meta = meta
    read = read
    i1 = i1
    Role = {admin, manager}
    User = {root, john}
    Operation = {meta, read}
    RecordId = {i1}
    Resource = {p1}
    ResourceOf <- MCResourceOf
    TenantName = {a, b}
    Configured = {a}
    FileLists <- MCFileLists
    MetaOperation = {meta}
    AdminRole = admin
    AdminSub = root
    MaxUpdates = 1
    MaxStops = 1
INVARIANTS
    Inv
    ServesWhatIsDeclared
PROPERTIES
    AdditiveAndIdempotent
    AlwaysServesAgain
