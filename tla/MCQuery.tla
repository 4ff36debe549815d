------------------------------ MODULE MCQuery ------------------------------
EXTENDS Query, TLC

Symmetry == Permutations(Role) \cup Permutations(RecordId)
=============================================================================
