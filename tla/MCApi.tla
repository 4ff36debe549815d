------------------------------- MODULE MCApi -------------------------------
EXTENDS Api, TLC

CONSTANTS a, b, admin, manager, root, john

MCResourceOf ==
    [o \in Operation |->
       CASE o \in {"role:write", "role:assign"} -> "role"
         [] o \in {"operation:write", "operation:assign"} -> "operation"
         [] o = "resource:write" -> "resource"]

(* Without granting anything himself, john may write roles in tenant a ... *)
MCDelegated ==
    {[tenant |-> a, role |-> manager, user |-> john, operation |-> "role:write"]}

(* ... or is the administrator of tenant a, and of no other, while the     *)
(* files declare something in tenant b, too.                               *)
MCElsewhere ==
    {[tenant |-> a, role |-> manager, user |-> john, operation |-> o] : o \in Operation}
      \cup {[tenant |-> b, role |-> manager, user |-> root, operation |-> "role:write"]}

Symmetry == Permutations(Client)
=============================================================================
