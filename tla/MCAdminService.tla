--------------------------- MODULE MCAdminService ---------------------------
EXTENDS AdminService, TLC

CONSTANT p1

(* All operations belong to one resource. *)
MCResourceOf == [o \in Operation |-> p1]

Symmetry ==
    Permutations(Client) \cup Permutations(Role) \cup Permutations(User)
        \cup Permutations(RecordId)
=============================================================================
