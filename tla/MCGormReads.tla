---------------------------- MODULE MCGormReads -----------------------------
EXTENDS GormReads, FiniteSets, TLC

(* Bound: beside a reading method one other handler is between its two     *)
(* statements, and users' own permissions and ids, which the reading       *)
(* methods of this module do not touch, are left out.                      *)
OneBesideRead ==
    read # NoRead =>
        /\ Cardinality({c \in Client : call[c] # Idle}) <= 1
        /\ \A u \in User : db.perm[u] = NoPerms /\ db.ids[u] = NoIds

Symmetry == Permutations(Client) \cup Permutations(Role)
=============================================================================
