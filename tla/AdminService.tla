---------------------------- MODULE AdminService ----------------------------
(***************************************************************************)
(* The administrative functions of the service layer (admin.go), as the    *)
(* request handlers of one tenant run them side by side.  The store        *)
(* methods are indivisible; a service function that calls several is not:  *)
(* between its statements any other handler may run.  call[c] says where   *)
(* handler c is.  A function that makes one store call, and a check that   *)
(* fails, leave no trace in call.                                          *)
(***************************************************************************)
EXTENDS Sfbac

CONSTANTS
    Client,         \* request handlers at work at the same time
    Resource,
    ResourceOf,
    RequestScope    \* bound: the scopes requests ask for

ASSUME ResourceOfIsTotal == ResourceOf \in [Operation -> Resource]
ASSUME RequestScopeIsScope == RequestScope \subseteq Scope

VARIABLES
    tenant,         \* the tenant's store
    shared,         \* the shared store
    call,           \* each handler's service function, past its first statement
    everRegistered  \* history: the operations registered at some time

vars == <<tenant, shared, call, everRegistered>>

Tenant == INSTANCE TenantStore
Shared == INSTANCE SharedStore

Idle == [fn |-> "none"]

(* The functions in progress; at names the statement to run next. *)
AssignRoleCall ==
    [fn : {"AssignRole"}, at : {"assign"}, sub : User, role : Role]

SetPermissionCall ==
    [fn : {"SetPermission"}, at : {"ensure"},
     subject : User, operation : Operation, scope : RequestScope]
      \cup [fn : {"SetPermission"}, at : {"set"},
            subject : Subject, operation : Operation, scope : RequestScope]

UpdateRestrictedIDsCall ==
    [fn : {"UpdateRestrictedIDs"}, at : {"add", "remove"},
     subject : Subject, operation : Operation,
     add : SUBSET RecordId, remove : SUBSET RecordId]

CallState ==
    {Idle} \cup AssignRoleCall \cup SetPermissionCall \cup UpdateRestrictedIDsCall

Init ==
    /\ Tenant!Init
    /\ Shared!Init
    /\ call = [c \in Client |-> Idle]
    /\ everRegistered = {}

-----------------------------------------------------------------------------
Enter(c, state) == call[c] = Idle /\ call' = [call EXCEPT ![c] = state]
At(c, fn, at) == call[c] # Idle /\ call[c].fn = fn /\ call[c].at = at
Goto(c, at) == call' = [call EXCEPT ![c].at = at]
Return(c) == call' = [call EXCEPT ![c] = Idle]

OnTenant == UNCHANGED <<shared, everRegistered>>
OnShared == UNCHANGED tenant /\ everRegistered' = everRegistered \cup shared'.operations
ReadOnly == UNCHANGED <<tenant, shared, everRegistered>>

(* The functions that are one store call: EnsureUser, CreateResource,      *)
(* DeleteResource, CreateOperation, EnsureOperation, DeleteOperation ...   *)
SharedCall(c) ==
    /\ call[c] = Idle
    /\ \E out \in Shared!Outcome : Shared!Call(out)
    /\ OnShared
    /\ UNCHANGED call

(* ... CreateRole, EnsureRole, RenameRole, DeleteRole, UnassignRole,       *)
(* RemoveRolePermission and RemoveUserPermission.                          *)
TenantCall(c) ==
    /\ call[c] = Idle
    /\ \E out \in Tenant!Outcome :
          \/ Tenant!RoleCall(out)
          \/ \E u \in User, r \in Role : Tenant!UnassignRole(u, r, out)
          \/ \E s \in Subject, o \in Operation : Tenant!RemovePermission(s, o, out)
    /\ OnTenant
    /\ UNCHANGED call

-----------------------------------------------------------------------------
(* AssignRole *)

(* A slip of the next definition: the user is not provisioned. *)
AssignWithoutUser(c, u, r) ==
    /\ Enter(c, [fn |-> "AssignRole", at |-> "assign", sub |-> u, role |-> r])
    /\ ReadOnly

AssignEnsureUser(c, u, r) ==
    /\ Enter(c, [fn |-> "AssignRole", at |-> "assign", sub |-> u, role |-> r])
    /\ \E out \in Shared!Outcome : Shared!EnsureUser(u, out)
    /\ OnShared

Assign(c) ==
    /\ At(c, "AssignRole", "assign")
    /\ \E out \in Tenant!Outcome : Tenant!AssignRole(call[c].sub, call[c].role, out)
    /\ OnTenant
    /\ Return(c)

-----------------------------------------------------------------------------
(* SetRolePermission and SetUserPermission; only the latter provisions.    *)

SetCall(s, o, scope) ==
    [fn |-> "SetPermission", at |-> IF s \in User THEN "ensure" ELSE "set",
     subject |-> s, operation |-> o, scope |-> scope]

(* A slip of the next definition: the operation is not looked up. *)
SetWithoutOperation(c, s, o, scope) ==
    /\ Enter(c, SetCall(s, o, scope))
    /\ ReadOnly

SetRequireOperation(c, s, o, scope) ==
    /\ o \in shared.operations
    /\ Enter(c, SetCall(s, o, scope))
    /\ ReadOnly

SetEnsureUser(c) ==
    /\ At(c, "SetPermission", "ensure")
    /\ \E out \in Shared!Outcome : Shared!EnsureUser(call[c].subject, out)
    /\ OnShared
    /\ Goto(c, "set")

Set(c) ==
    /\ At(c, "SetPermission", "set")
    /\ \E out \in Tenant!Outcome :
          Tenant!SetPermission(call[c].subject, call[c].operation, call[c].scope, out)
    /\ OnTenant
    /\ Return(c)

-----------------------------------------------------------------------------
(* UpdateRoleRestrictedIDs and UpdateUserRestrictedIDs *)

UpdateCall(s, o, add, remove) ==
    [fn |-> "UpdateRestrictedIDs", at |-> "add",
     subject |-> s, operation |-> o, add |-> add, remove |-> remove]

(* A slip of the next definition: the subject is looked up, its permission *)
(* is not.                                                                 *)
UpdateRequireSubject(c, s, o, add, remove) ==
    /\ Tenant!Known(s)
    /\ Enter(c, UpdateCall(s, o, add, remove))
    /\ ReadOnly

UpdateRequirePermission(c, s, o, add, remove) ==
    /\ Tenant!Known(s) /\ tenant.perm[s][o] # Unset
    /\ Enter(c, UpdateCall(s, o, add, remove))
    /\ ReadOnly

UpdateAdd(c) ==
    /\ At(c, "UpdateRestrictedIDs", "add")
    /\ \/ /\ Tenant!AddRestrictedIDs(call[c].subject, call[c].operation, call[c].add, "saved")
          /\ Goto(c, "remove")
       \/ /\ Tenant!AddRestrictedIDs(call[c].subject, call[c].operation, call[c].add, "not_found")
          /\ Return(c)
    /\ OnTenant

UpdateRemove(c) ==
    /\ At(c, "UpdateRestrictedIDs", "remove")
    /\ \E out \in Tenant!Outcome :
          Tenant!RemoveRestrictedIDs(call[c].subject, call[c].operation, call[c].remove, out)
    /\ OnTenant
    /\ Return(c)

-----------------------------------------------------------------------------
Begin(c) ==
    \/ \E u \in User, r \in Role : AssignEnsureUser(c, u, r)
    \/ \E s \in Subject, o \in Operation :
          \/ \E scope \in RequestScope : SetRequireOperation(c, s, o, scope)
          \/ \E add, remove \in SUBSET RecordId :
                UpdateRequirePermission(c, s, o, add, remove)

Continue(c) ==
    \/ Assign(c)
    \/ SetEnsureUser(c)
    \/ Set(c)
    \/ UpdateAdd(c)
    \/ UpdateRemove(c)

Next == \E c \in Client : SharedCall(c) \/ TenantCall(c) \/ Begin(c) \/ Continue(c)

Spec == Init /\ [][Next]_vars

-----------------------------------------------------------------------------
TypeOK ==
    /\ tenant \in TenantData
    /\ shared \in Shared!SharedData
    /\ call \in [Client -> CallState]
    /\ everRegistered \subseteq Operation

(* Users are provisioned lazily, yet always before the tenant's store      *)
(* refers to them, whichever handlers run at the same time                 *)
(* (admin.go:10-12, 142-149, 179-192).                                     *)
UsersProvisioned ==
    \A u \in User \ shared.users :
        /\ tenant.assigned[u] = {}
        /\ tenant.perm[u] = NoPerms
        /\ tenant.ids[u] = NoIds

(* No permission, and no list of ids, names an operation that was never    *)
(* registered: what remains of "operations must be registered before being *)
(* granted" (admin.go:10-12) when handlers race.                           *)
GrantsOnceRegistered ==
    \A s \in Subject, o \in Operation :
        tenant.perm[s][o] # Unset \/ tenant.ids[s][o] # {} => o \in everRegistered

(* What the handlers in progress have already seen to: the user they will  *)
(* write about is provisioned, the operation has been registered, and ids  *)
(* are only added to a subject whose data says so already.                 *)
CallsPrepared ==
    \A c \in Client :
        /\ At(c, "AssignRole", "assign") => call[c].sub \in shared.users
        /\ At(c, "SetPermission", "set") \/ call[c] \in UpdateRestrictedIDsCall
              => (call[c].subject \in User => call[c].subject \in shared.users)
        /\ call[c] \in SetPermissionCall \cup UpdateRestrictedIDsCall
              => call[c].operation \in everRegistered

(* The two invariants above with what makes them inductive (admin.go:142-230). *)
Inv ==
    /\ TypeOK
    /\ shared.operations \subseteq everRegistered
    /\ UsersProvisioned
    /\ GrantsOnceRegistered
    /\ CallsPrepared

(* Whatever handlers do to the shared store at the same time, the resource *)
(* of every registered operation is registered: deleting a resource takes  *)
(* its operations along, and registering an operation its resource         *)
(* (json.go:146-183, admin.go:37-65).                                      *)
OperationsHaveResources == Shared!ResourceRegistered

(* A permission is written only on an operation that is registered at that *)
(* moment (admin.go:161-162, 167-170).                                     *)
GrantRegisteredWhenWritten ==
    [][\A c \in Client :
          Set(c) /\ tenant' # tenant => call[c].operation \in shared.operations]_vars

=============================================================================
