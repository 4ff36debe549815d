SPECIFICATION Spec
CONSTANTS
    Role = {r1, r2}
    User = {u1}
    Operation = {o1}
    RecordId = {}
    MaxEntries = 1
SYMMETRY Symmetry
CONSTRAINT FewEntries
INVARIANTS
    Consistent
    AckedIsDurable
    GoneIsGone
PROPERTY WritesAreMethods
