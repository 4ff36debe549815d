SPECIFICATION Spec
CONSTANTS
    Client = {c1, c2}
    Role = {r1, r2}
    User = {u1}
    Operation = {o1}
    RecordId = {i1}
    RequestScope = {"FULL", "RESTRICTED"}
    p1 = p1
    Resource = {p1}
    ResourceOf <- MCResourceOf
SYMMETRY Symmetry
INVARIANTS
    Inv
    UsersProvisioned
    GrantsOnceRegistered
    OperationsHaveResources
