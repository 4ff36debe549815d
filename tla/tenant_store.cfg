SPECIFICATION Spec
CONSTANTS
    Role = {r1, r2}
    User = {u1, u2}
    Operation = {o1, o2}
    RecordId = {i1}
    MaxEntries = 2
SYMMETRY Symmetry
CONSTRAINT FewEntries
INVARIANT Inv
PROPERTIES
    OnlyTheTargetIsAffected
    RenameAndCreateKeepAccess
    RevocationNeverWidens
