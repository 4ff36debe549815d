---------------------------- MODULE TenantStore ----------------------------
(***************************************************************************)
(* What a tenant store (store.Tenant) does to the authorization data, one  *)
(* indivisible action per method.  The methods are those of the JSON store *)
(* (json.go), where a mutex makes each one indivisible; how the change     *)
(* reaches the file is JsonTenant's subject.                               *)
(*                                                                         *)
(* A method's action takes the outcome as its last argument: it is enabled *)
(* for exactly one outcome, the one the method reports in this state.      *)
(***************************************************************************)
EXTENDS Sfbac

VARIABLE tenant

(* "saved": the data changed and persist was called; "noop": nil returned  *)
(* before persist; the others are the errors of store.go:16-20.            *)
Outcome == {"saved", "noop", "not_found", "conflict"}

Saved(out, t) == out = "saved" /\ tenant' = t
Noop(out) == out = "noop" /\ UNCHANGED tenant
NotFound(out) == out = "not_found" /\ UNCHANGED tenant
Conflict(out) == out = "conflict" /\ UNCHANGED tenant

Init == tenant = EmptyTenant

-----------------------------------------------------------------------------
(* Roles *)

(* newJSONRole: no permission, no restricted id. *)
AddRole(t, r) ==
    [t EXCEPT !.roles = @ \cup {r},
              !.perm[r] = NoPerms,
              !.ids[r] = NoIds]

CreateRole(r, out) ==
    \/ r \notin tenant.roles /\ Saved(out, AddRole(tenant, r))
    \/ r \in tenant.roles /\ Conflict(out)

EnsureRole(r, out) ==
    \/ r \notin tenant.roles /\ Saved(out, AddRole(tenant, r))
    \/ r \in tenant.roles /\ Noop(out)

(* A slip of the next definition: the restricted ids stay behind.          *)
MoveRoleForgettingIds(t, a, b) ==
    [t EXCEPT !.roles = (@ \ {a}) \cup {b},
              !.assigned = [u \in User |-> IF a \in t.assigned[u]
                                           THEN (t.assigned[u] \ {a}) \cup {b}
                                           ELSE t.assigned[u]],
              !.perm[a] = NoPerms, !.perm[b] = t.perm[a],
              !.ids[a] = NoIds]

(* The role's data and every assignment move to the new name. *)
MoveRole(t, a, b) ==
    [t EXCEPT !.roles = (@ \ {a}) \cup {b},
              !.assigned = [u \in User |-> IF a \in t.assigned[u]
                                           THEN (t.assigned[u] \ {a}) \cup {b}
                                           ELSE t.assigned[u]],
              !.perm[a] = NoPerms, !.perm[b] = t.perm[a],
              !.ids[a] = NoIds, !.ids[b] = t.ids[a]]

RenameRole(a, b, out) ==
    \/ a \notin tenant.roles /\ NotFound(out)
    \/ a \in tenant.roles /\ b \in tenant.roles /\ Conflict(out)
    \/ /\ a \in tenant.roles /\ b \notin tenant.roles
       /\ Saved(out, MoveRole(tenant, a, b))

(* A slip of the next definition: no cascade to the assignments. *)
DropRoleOnly(t, r) ==
    [t EXCEPT !.roles = @ \ {r},
              !.perm[r] = NoPerms,
              !.ids[r] = NoIds]

(* A role goes with its permissions, restricted ids and assignments. *)
DropRole(t, r) ==
    [t EXCEPT !.roles = @ \ {r},
              !.assigned = [u \in User |-> t.assigned[u] \ {r}],
              !.perm[r] = NoPerms,
              !.ids[r] = NoIds]

DeleteRole(r, out) ==
    \/ r \notin tenant.roles /\ NotFound(out)
    \/ r \in tenant.roles /\ Saved(out, DropRole(tenant, r))

-----------------------------------------------------------------------------
(* Assignments *)

AssignRole(u, r, out) ==
    \/ r \notin tenant.roles /\ NotFound(out)
    \/ r \in tenant.roles /\ r \in tenant.assigned[u] /\ Noop(out)
    \/ /\ r \in tenant.roles /\ r \notin tenant.assigned[u]
       /\ Saved(out, [tenant EXCEPT !.assigned[u] = @ \cup {r}])

(* A slip of the next definition: every holder loses the role. *)
UnassignEveryone(u, r, out) ==
    \/ /\ r \notin tenant.roles \/ r \notin tenant.assigned[u]
       /\ NotFound(out)
    \/ /\ r \in tenant.roles /\ r \in tenant.assigned[u]
       /\ Saved(out, [tenant EXCEPT !.assigned = [v \in User |-> @[v] \ {r}]])

UnassignRole(u, r, out) ==
    \/ /\ r \notin tenant.roles \/ r \notin tenant.assigned[u]
       /\ NotFound(out)
    \/ /\ r \in tenant.roles /\ r \in tenant.assigned[u]
       /\ Saved(out, [tenant EXCEPT !.assigned[u] = @ \ {r}])

-----------------------------------------------------------------------------
(* Permissions and restricted ids.  The methods come in pairs, one for     *)
(* roles and one for users; a role must exist, a user need not.            *)

Known(s) == s \in User \/ s \in tenant.roles

SetPermission(s, o, scope, out) ==
    \/ ~Known(s) /\ NotFound(out)
    \/ Known(s) /\ Saved(out, [tenant EXCEPT !.perm[s][o] = scope])

RemovePermission(s, o, out) ==
    \/ /\ ~Known(s) \/ tenant.perm[s][o] = Unset
       /\ NotFound(out)
    \/ /\ Known(s) /\ tenant.perm[s][o] # Unset
       /\ Saved(out, [tenant EXCEPT !.perm[s][o] = Unset, !.ids[s][o] = {}])

AddRestrictedIDs(s, o, new, out) ==
    \/ ~Known(s) /\ NotFound(out)
    \/ Known(s) /\ Saved(out, [tenant EXCEPT !.ids[s][o] = @ \cup new])

RemoveRestrictedIDs(s, o, old, out) ==
    \/ ~Known(s) /\ NotFound(out)
    \/ Known(s) /\ Saved(out, [tenant EXCEPT !.ids[s][o] = @ \ old])

-----------------------------------------------------------------------------
RoleCall(out) ==
    \E r \in Role :
        \/ CreateRole(r, out)
        \/ EnsureRole(r, out)
        \/ DeleteRole(r, out)
        \/ \E b \in Role : RenameRole(r, b, out)

AssignmentCall(out) ==
    \E u \in User, r \in Role :
        \/ AssignRole(u, r, out)
        \/ UnassignRole(u, r, out)

PermissionCall(out) ==
    \E s \in Subject, o \in Operation :
        \/ \E scope \in Scope : SetPermission(s, o, scope, out)
        \/ RemovePermission(s, o, out)
        \/ \E some \in SUBSET RecordId :
              AddRestrictedIDs(s, o, some, out) \/ RemoveRestrictedIDs(s, o, some, out)

Call(out) == RoleCall(out) \/ AssignmentCall(out) \/ PermissionCall(out)

Next == \E out \in Outcome : Call(out)

Spec == Init /\ [][Next]_tenant

-----------------------------------------------------------------------------
(* Invariants *)

TypeOK == tenant \in TenantData

(* Whatever refers to a role goes with it: nobody holds a role that does   *)
(* not exist, and a missing role has left no permission or id behind for   *)
(* the next role of its name (store.go:75, "cascades everything").         *)
Integrity ==
    /\ \A u \in User : tenant.assigned[u] \subseteq tenant.roles
    /\ \A r \in Role \ tenant.roles :
          tenant.perm[r] = NoPerms /\ tenant.ids[r] = NoIds

(* Types and referential integrity of the tenant's data. *)
Inv == TypeOK /\ Integrity

-----------------------------------------------------------------------------
(* Action properties: what a call may do to the access of which user. *)

AccessKept(u, o) == Access(tenant', u, o) = Access(tenant, u, o)

(* "Rename keeps permissions and assignments": no user's scope or record   *)
(* ids change when a role is renamed, and a role created under any name,   *)
(* one deleted or renamed away earlier included, grants nobody anything    *)
(* (json.go:302-347).                                                      *)
RenameOrCreate ==
    \E r \in Role :
        \/ CreateRole(r, "saved")
        \/ EnsureRole(r, "saved")
        \/ \E b \in Role : RenameRole(r, b, "saved")

RenameAndCreateKeepAccess ==
    [][RenameOrCreate =>
          \A u \in User, o \in Operation : AccessKept(u, o)]_tenant

(* Taking something away from a role, or an id from a user, never widens   *)
(* anybody's access, although the widest remaining scope is computed anew  *)
(* over the other roles (authz.go:48-69).  Removing a user override is not *)
(* in the list: it uncovers the roles' scope, which may well be wider.     *)
Revocation ==
    \/ \E r \in Role : DeleteRole(r, "saved")
    \/ \E u \in User, r \in Role : UnassignRole(u, r, "saved")
    \/ \E r \in Role, o \in Operation : RemovePermission(r, o, "saved")
    \/ \E s \in Subject, o \in Operation, some \in SUBSET RecordId :
          RemoveRestrictedIDs(s, o, some, "saved")

RevocationNeverWidens ==
    [][Revocation =>
          \A u \in User, o \in Operation :
             NoWiderThan(Access(tenant', u, o), Access(tenant, u, o))]_tenant

(* A call that assigns or unassigns a role changes the access of no other  *)
(* user, however many hold the role; the deletion of a role that of its    *)
(* holders only; and a call about a permission or its ids that of the      *)
(* subject it names, or the holders of that role, to the operation it      *)
(* names (json.go:349-577).                                                *)
AssignmentCallFor(u) ==
    \E r \in Role : AssignRole(u, r, "saved") \/ UnassignRole(u, r, "saved")

PermissionCallOn(s, o) ==
    \/ \E scope \in Scope : SetPermission(s, o, scope, "saved")
    \/ RemovePermission(s, o, "saved")
    \/ \E some \in SUBSET RecordId :
          \/ AddRestrictedIDs(s, o, some, "saved")
          \/ RemoveRestrictedIDs(s, o, some, "saved")

Concerns(s, u) == s = u \/ s \in tenant.assigned[u]

OnlyTheTargetIsAffected ==
    [][/\ \A v \in User :
             AssignmentCallFor(v) => \A u \in User \ {v}, o \in Operation : AccessKept(u, o)
       /\ \A r \in Role :
             DeleteRole(r, "saved") =>
                \A u \in User, o \in Operation : Concerns(r, u) \/ AccessKept(u, o)
       /\ \A s \in Subject, p \in Operation :
             PermissionCallOn(s, p) =>
                \A u \in User, o \in Operation :
                   (Concerns(s, u) /\ o = p) \/ AccessKept(u, o)]_tenant

=============================================================================
