SPECIFICATION ReadSpec
CONSTANTS
    Client = {c1, c2}
    Role = {r1, r2}
    User = {u1}
    Operation = {o1}
    RecordId = {i1}
    MaxRowId = 2
    SomeScope = {"FULL"}
    NoRole = NoRole
SYMMETRY Symmetry
CONSTRAINT OneBesideRead
INVARIANTS
    Inv
    OneChangeIsBeforeOrAfter
    KeptIsAnswered
    NothingIsMadeUp
PROPERTY ImplementsTenantStore
