SPECIFICATION Spec
CONSTANTS
    Role = {r1, r2}
    User = {u1}
    Sub = u1
    Operation = {o1}
    RecordId = {i1}
    MaxUpdates = 2
SYMMETRY Symmetry
INVARIANT FullOnlyIfHeld
