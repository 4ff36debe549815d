SPECIFICATION Spec
CONSTANTS
    Role = {r1, r2, r3}
    User = {u1}
    Sub = u1
    Operation = {o1, o2}
    RecordId = {}
SYMMETRY Symmetry
INVARIANTS
    Inv
    ResolvedByRules
CHECK_DEADLOCK FALSE
