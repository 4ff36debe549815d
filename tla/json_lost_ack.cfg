SPECIFICATION Spec
CONSTANTS
    Role = {r1}
    User = {u1}
    Operation = {o1}
    RecordId = {i1}
    MaxEntries = 2
SYMMETRY Symmetry
CONSTRAINT FewEntries
INVARIANT NilMeansDurable
