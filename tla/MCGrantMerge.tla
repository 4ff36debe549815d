---------------------------- MODULE MCGrantMerge ----------------------------
EXTENDS GrantMerge, TLC

(* Roles and operations only ever occur in sets and as function arguments. *)
Symmetry == Permutations(Role) \cup Permutations(Operation)
=============================================================================
