---------------------------- MODULE SharedStore ----------------------------
(***************************************************************************)
(* The store all tenants share (store.Shared): the users provisioned, the  *)
(* resources and the operations registered on them, one indivisible action *)
(* per method of the JSON store (json.go:106-206).  As in TenantStore the  *)
(* last argument of an action is the outcome the method reports.           *)
(***************************************************************************)
EXTENDS Integers

CONSTANTS
    User,
    Operation,
    Resource,
    ResourceOf      \* model.OperationResource: the part before the colon

VARIABLE shared

SharedData ==
    [users      : SUBSET User,
     resources  : SUBSET Resource,
     operations : SUBSET Operation]

Outcome == {"saved", "noop", "not_found", "conflict"}

Saved(out, s) == out = "saved" /\ shared' = s
Noop(out) == out = "noop" /\ UNCHANGED shared
NotFound(out) == out = "not_found" /\ UNCHANGED shared
Conflict(out) == out = "conflict" /\ UNCHANGED shared

Init == shared = [users |-> {}, resources |-> {}, operations |-> {}]

-----------------------------------------------------------------------------
EnsureUser(u, out) ==
    \/ u \in shared.users /\ Noop(out)
    \/ /\ u \notin shared.users
       /\ Saved(out, [shared EXCEPT !.users = @ \cup {u}])

AddResource(s, res) == [s EXCEPT !.resources = @ \cup {res}]

CreateResource(res, out) ==
    \/ res \in shared.resources /\ Conflict(out)
    \/ res \notin shared.resources /\ Saved(out, AddResource(shared, res))

EnsureResource(res, out) ==
    \/ res \in shared.resources /\ Noop(out)
    \/ res \notin shared.resources /\ Saved(out, AddResource(shared, res))

(* A slip of the next definition: the operations of the resource stay. *)
DeleteResourceOnly(res, out) ==
    \/ res \notin shared.resources /\ NotFound(out)
    \/ /\ res \in shared.resources
       /\ Saved(out, [shared EXCEPT !.resources = @ \ {res}])

(* A resource goes together with its operations. *)
DeleteResource(res, out) ==
    \/ res \notin shared.resources /\ NotFound(out)
    \/ /\ res \in shared.resources
       /\ Saved(out, [shared EXCEPT
                        !.resources = @ \ {res},
                        !.operations = {o \in @ : ResourceOf[o] # res}])

(* The parent resource is registered when missing. *)
AddOperation(s, o) ==
    [s EXCEPT !.resources = @ \cup {ResourceOf[o]},
              !.operations = @ \cup {o}]

CreateOperation(o, out) ==
    \/ o \in shared.operations /\ Conflict(out)
    \/ o \notin shared.operations /\ Saved(out, AddOperation(shared, o))

EnsureOperation(o, out) ==
    \/ o \in shared.operations /\ Noop(out)
    \/ o \notin shared.operations /\ Saved(out, AddOperation(shared, o))

DeleteOperation(o, out) ==
    \/ o \notin shared.operations /\ NotFound(out)
    \/ /\ o \in shared.operations
       /\ Saved(out, [shared EXCEPT !.operations = @ \ {o}])

ResourceCall(out) ==
    \E res \in Resource :
        \/ CreateResource(res, out)
        \/ EnsureResource(res, out)
        \/ DeleteResource(res, out)

OperationCall(out) ==
    \E o \in Operation :
        \/ CreateOperation(o, out)
        \/ EnsureOperation(o, out)
        \/ DeleteOperation(o, out)

UserCall(out) == \E u \in User : EnsureUser(u, out)

Call(out) == ResourceCall(out) \/ OperationCall(out) \/ UserCall(out)

Next == \E out \in Outcome : Call(out)

Spec == Init /\ [][Next]_shared

-----------------------------------------------------------------------------
TypeOK == shared \in SharedData

(* Every operation's resource is registered: deleting a resource takes its *)
(* operations along, and registering an operation its resource             *)
(* (json.go:153-158, 178-181).                                             *)
ResourceRegistered ==
    \A o \in shared.operations : ResourceOf[o] \in shared.resources

(* Types and referential integrity of the shared data. *)
Inv == TypeOK /\ ResourceRegistered

=============================================================================
