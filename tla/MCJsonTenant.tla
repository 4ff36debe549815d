---------------------------- MODULE MCJsonTenant ----------------------------
EXTENDS JsonTenant, FiniteSets, TLC

CONSTANT MaxEntries     \* bound: subjects and operations with a permission or ids

FewEntries ==
    Cardinality({x \in Subject \X Operation :
                   mem.perm[x[1]][x[2]] # Unset \/ mem.ids[x[1]][x[2]] # {}}) <= MaxEntries

Symmetry == Permutations(Role) \cup Permutations(User)
=============================================================================
