--------------------------- MODULE MCTenantStore ---------------------------
EXTENDS TenantStore, FiniteSets, TLC

CONSTANT MaxEntries     \* bound: subjects and operations with a permission or ids

FewEntries ==
    Cardinality({x \in Subject \X Operation :
                   tenant.perm[x[1]][x[2]] # Unset \/ tenant.ids[x[1]][x[2]] # {}})
       <= MaxEntries

Symmetry ==
    Permutations(Role) \cup Permutations(User)
        \cup Permutations(Operation) \cup Permutations(RecordId)
=============================================================================
