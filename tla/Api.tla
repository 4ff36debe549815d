-------------------------------- MODULE Api --------------------------------
(***************************************************************************)
(* The HTTP API: the middleware that authenticates a request, picks its    *)
(* tenant and checks the caller's meta permissions one after the other,    *)
(* and then the handler.  Requests run side by side, so the permissions    *)
(* may change between the reads of a check, between the checks and before  *)
(* the handler acts; and what the handlers change are the very permissions *)
(* the middleware checks.                                                  *)
(*                                                                         *)
(* A handler is one step here; AdminService takes the service functions    *)
(* apart, Bootstrap the synchronization, and Query the permission query    *)
(* that is one read here.  Requests that only read are here no more than   *)
(* what they provision.                                                    *)
(***************************************************************************)
EXTENDS Sfbac, Sequences

CONSTANTS
    Client,         \* requests served at the same time
    Resource,
    ResourceOf,
    Configured,     \* the tenants of the configuration
    AdminRole,      \* model.AdminRole
    AdminSub,       \* bootstrap.admin-sub
    Declared,       \* what the bootstrap files declare
    RequestScope,   \* bound: the scopes requests ask for
    MaxChanges      \* bound: handlers that act; no request arrives after the last

ASSUME AdminInSets == AdminRole \in Role /\ AdminSub \in User
ASSUME ResourceOfIsTotal == ResourceOf \in [Operation -> Resource]
ASSUME RequestScopeIsScope == RequestScope \subseteq Scope
ASSUME MaxChangesType == MaxChanges \in Nat

(* One declaration makes a tenant's role FULL on an operation, and the     *)
(* role a user's.                                                          *)
ASSUME DeclaredType ==
    Declared \subseteq [tenant : Configured, role : Role, user : User, operation : Operation]

VARIABLES
    shared,     \* the shared store
    tenants,    \* each tenant's store
    request,    \* each request in progress
    changes

vars == <<shared, tenants, request, changes>>

Shared == INSTANCE SharedStore
Data == INSTANCE TenantStore WITH tenant <- EmptyTenant

(* A slip of the next definition: role:write suffices to assign roles. *)
AssignByWriter ==
    [roles       |-> <<"role:write">>,
     assignments |-> <<"role:write">>,
     permissions |-> <<"operation:assign">>,
     operations  |-> <<"operation:write">>,
     resources   |-> <<"resource:write">>,
     sync        |-> <<"resource:write", "operation:write",
                       "role:write", "role:assign", "operation:assign">>]

(* The meta operations that the routes of a kind require. *)
Required ==
    [roles       |-> <<"role:write">>,
     assignments |-> <<"role:assign">>,
     permissions |-> <<"operation:assign">>,
     operations  |-> <<"operation:write">>,
     resources   |-> <<"resource:write">>,
     sync        |-> <<"resource:write", "operation:write",
                       "role:write", "role:assign", "operation:assign">>]

Route == DOMAIN Required
MetaOperation == UNION {{Required[k][n] : n \in DOMAIN Required[k]} : k \in Route}

ASSUME MetaOperationsExist == MetaOperation \subseteq Operation

(* A request is in the middleware at one of the reads of the next check or *)
(* in the handler; own and roles are what the check has read so far.       *)
Idle == [at |-> "idle"]
Read == {"permissions", "roles", "grants"}
InProgress ==
    UNION {[at : Read \cup {"act"}, user : User, tenant : Configured, route : {k},
            next : 1 .. Len(Required[k]), own : Grant, roles : SUBSET Role] : k \in Route}

(* What BootstrapMeta makes of an empty tenant. *)
Bootstrapped ==
    [EmptyTenant EXCEPT
        !.roles = {AdminRole},
        !.assigned[AdminSub] = {AdminRole},
        !.perm[AdminRole] = [o \in Operation |-> IF o \in MetaOperation THEN "FULL" ELSE Unset]]

(* What Sync makes of the data of tenant t, and of the shared data. *)
WithDeclared(d, t) ==
    LET mine == {x \in Declared : x.tenant = t}
        FullOn(s, o) == \E x \in mine : x.role = s /\ x.operation = o
    IN  [d EXCEPT
           !.roles = @ \cup {x.role : x \in mine},
           !.assigned = [u \in User |-> d.assigned[u] \cup {x.role : x \in {y \in mine : y.user = u}}],
           !.perm = [s \in Subject |->
                       [o \in Operation |-> IF FullOn(s, o) THEN "FULL" ELSE d.perm[s][o]]]]

(* A slip of the next definition: the users are not provisioned. *)
SharedUnprovisioned(s) ==
    [s EXCEPT !.resources = @ \cup {ResourceOf[x.operation] : x \in Declared},
              !.operations = @ \cup {x.operation : x \in Declared}]

SharedDeclared(s) ==
    [s EXCEPT !.users = @ \cup {x.user : x \in Declared},
              !.resources = @ \cup {ResourceOf[x.operation] : x \in Declared},
              !.operations = @ \cup {x.operation : x \in Declared}]

(* The process serves after BootstrapMeta and Sync. *)
Init ==
    /\ shared = SharedDeclared(
                  [users      |-> {AdminSub},
                   resources  |-> {ResourceOf[o] : o \in MetaOperation},
                   operations |-> MetaOperation])
    /\ tenants = [t \in Configured |-> WithDeclared(Bootstrapped, t)]
    /\ request = [c \in Client |-> Idle]
    /\ changes = 0

-----------------------------------------------------------------------------
(* Middleware *)

(* withAuth provisions the user.  A request that withTenant turns away, or *)
(* that only reads, changes nothing else.                                  *)
Provision(u) ==
    /\ \E out \in Shared!Outcome : Shared!EnsureUser(u, out)
    /\ UNCHANGED <<tenants, request, changes>>

Arrive(c, u, t, route) ==
    /\ request[c] = Idle /\ changes < MaxChanges
    /\ \E out \in Shared!Outcome : Shared!EnsureUser(u, out)
    /\ request' = [request EXCEPT ![c] =
                     [at |-> "permissions", user |-> u, tenant |-> t, route |-> route,
                      next |-> 1, own |-> Unset, roles |-> {}]]
    /\ UNCHANGED <<tenants, changes>>

Before(c) == tenants[request[c].tenant]
Checking(c) == Required[request[c].route][request[c].next]

(* The request goes on as k. *)
Goto(c, k) ==
    /\ request' = [request EXCEPT ![c] = k]
    /\ UNCHANGED <<shared, tenants, changes>>

(* service.Authorize asks resolve, which reads the store three times;      *)
(* without roles there are no grants to read.                              *)
ReadPermissions(c) ==
    /\ request[c].at = "permissions"
    /\ Goto(c, [request[c] EXCEPT !.at = "roles",
                                  !.own = Before(c).perm[request[c].user][Checking(c)]])

ReadRoles(c) ==
    /\ request[c].at = "roles"
    /\ Before(c).assigned[request[c].user] # {}
    /\ Goto(c, [request[c] EXCEPT !.at = "grants",
                                  !.roles = Before(c).assigned[request[c].user]])

LastRead(c) ==
    \/ request[c].at = "roles" /\ Before(c).assigned[request[c].user] = {}
    \/ request[c].at = "grants"

(* FULL on the operation, and nothing less, as the last read shows it: the *)
(* user's own permission if there was one, or the roles' found before.     *)
Authorized(c) ==
    \/ request[c].own = "FULL"
    \/ /\ request[c].own = Unset
       /\ WidestScope({Before(c).perm[r][Checking(c)] : r \in request[c].roles}) = "FULL"

Pass(c) ==
    /\ LastRead(c) /\ Authorized(c)
    /\ LET k == [request[c] EXCEPT !.own = Unset, !.roles = {}]
       IN  Goto(c, IF k.next < Len(Required[k.route])
                   THEN [k EXCEPT !.at = "permissions", !.next = k.next + 1]
                   ELSE [k EXCEPT !.at = "act"])

Forbid(c) ==
    /\ LastRead(c) /\ ~Authorized(c)
    /\ Goto(c, Idle)

(* A read of the store fails: 500. *)
ReadFails(c) == request[c].at \in Read /\ Goto(c, Idle)

-----------------------------------------------------------------------------
(* Handlers *)

Acts(c, route) ==
    /\ request[c].at = "act" /\ request[c].route = route
    /\ changes < MaxChanges /\ changes' = changes + 1
    /\ request' = [request EXCEPT ![c] = Idle]

Becomes(c, data) == tenants' = [tenants EXCEPT ![request[c].tenant] = data]

CreateRole(c) ==
    /\ Acts(c, "roles")
    /\ \E r \in Role \ Before(c).roles : Becomes(c, Data!AddRole(Before(c), r))
    /\ UNCHANGED shared

RenameRole(c) ==
    /\ Acts(c, "roles")
    /\ \E a \in Before(c).roles, b \in Role \ Before(c).roles :
          Becomes(c, Data!MoveRole(Before(c), a, b))
    /\ UNCHANGED shared

DeleteRole(c) ==
    /\ Acts(c, "roles")
    /\ \E r \in Before(c).roles : Becomes(c, Data!DropRole(Before(c), r))
    /\ UNCHANGED shared

AssignRole(c) ==
    /\ Acts(c, "assignments")
    /\ \E u \in User, r \in Before(c).roles :
          /\ \E out \in Shared!Outcome : Shared!EnsureUser(u, out)
          /\ Becomes(c, [Before(c) EXCEPT !.assigned[u] = @ \cup {r}])

UnassignRole(c) ==
    /\ Acts(c, "assignments")
    /\ \E u \in User : \E r \in Before(c).assigned[u] :
          Becomes(c, [Before(c) EXCEPT !.assigned[u] = @ \ {r}])
    /\ UNCHANGED shared

SetPermission(c) ==
    /\ Acts(c, "permissions")
    /\ \E s \in Before(c).roles \cup User, o \in shared.operations, scope \in RequestScope :
          /\ IF s \in User THEN \E out \in Shared!Outcome : Shared!EnsureUser(s, out)
                           ELSE UNCHANGED shared
          /\ Becomes(c, [Before(c) EXCEPT !.perm[s][o] = scope])

RemovePermission(c) ==
    /\ Acts(c, "permissions")
    /\ \E s \in Before(c).roles \cup User, o \in Operation :
          /\ Before(c).perm[s][o] # Unset
          /\ Becomes(c, [Before(c) EXCEPT !.perm[s][o] = Unset, !.ids[s][o] = {}])
    /\ UNCHANGED shared

UpdateRestrictedIDs(c) ==
    /\ Acts(c, "permissions")
    /\ \E s \in Before(c).roles \cup User, o \in Operation, add, remove \in SUBSET RecordId :
          /\ Before(c).perm[s][o] # Unset
          /\ Becomes(c, [Before(c) EXCEPT !.ids[s][o] = (@ \cup add) \ remove])
    /\ UNCHANGED shared

HandleOperations(c) ==
    /\ Acts(c, "operations")
    /\ \E o \in Operation :
          Shared!CreateOperation(o, "saved") \/ Shared!DeleteOperation(o, "saved")
    /\ UNCHANGED tenants

HandleResources(c) ==
    /\ Acts(c, "resources")
    /\ \E p \in Resource :
          Shared!CreateResource(p, "saved") \/ Shared!DeleteResource(p, "saved")
    /\ UNCHANGED tenants

(* The files name their tenants themselves. *)
HandleSync(c) ==
    /\ Acts(c, "sync")
    /\ tenants' = [t \in Configured |-> WithDeclared(tenants[t], t)]
    /\ shared' = SharedDeclared(shared)

(* The handler answers 404 or 409, and changes nothing. *)
Refuse(c) ==
    /\ request[c].at = "act"
    /\ Goto(c, Idle)

Handle(c) ==
    \/ CreateRole(c) \/ RenameRole(c) \/ DeleteRole(c)
    \/ AssignRole(c) \/ UnassignRole(c)
    \/ SetPermission(c) \/ RemovePermission(c) \/ UpdateRestrictedIDs(c)
    \/ HandleOperations(c) \/ HandleResources(c) \/ HandleSync(c)
    \/ Refuse(c)

Next ==
    \/ \E u \in User : Provision(u)
    \/ \E c \in Client :
          \/ \E u \in User, t \in Configured, route \in Route : Arrive(c, u, t, route)
          \/ ReadPermissions(c) \/ ReadRoles(c) \/ Pass(c) \/ Forbid(c) \/ ReadFails(c)
          \/ Handle(c)

Spec == Init /\ [][Next]_vars

-----------------------------------------------------------------------------
TypeOK ==
    /\ shared \in Shared!SharedData
    /\ tenants \in [Configured -> TenantData]
    /\ request \in [Client -> {Idle} \cup InProgress]
    /\ changes \in 0 .. MaxChanges

(* Types, and: whoever asks for anything, or is given a role or permission *)
(* in some tenant, has been provisioned in the store all tenants share     *)
(* (middleware.go:43, admin.go:144-147, 188-190).                          *)
Inv ==
    /\ TypeOK
    /\ \A c \in Client : request[c] # Idle => request[c].user \in shared.users
    /\ \A t \in Configured, u \in User \ shared.users :
          tenants[t].assigned[u] = {} /\ tenants[t].perm[u] = NoPerms

(* The request has got past its check for the operation o, *)
Passed(c, o) ==
    /\ request[c] # Idle
    /\ \E n \in DOMAIN Required[request[c].route] :
          /\ Required[request[c].route][n] = o
          /\ request[c].at = "act" \/ n < request[c].next

(* or is about to, having read that its user has FULL on it. *)
Passing(c, o) ==
    request[c].at \in {"roles", "grants"} /\ Checking(c) = o /\ request[c].own = "FULL"

(* Nobody is left to hand out permissions in tenant t: nothing there gives *)
(* FULL on the two operations that takes, and no request in t has seen or  *)
(* passed more.                                                            *)
NoGrantor(t) ==
    \A o \in {"role:assign", "operation:assign"} :
        /\ \A s \in Subject : tenants[t].perm[s][o] # "FULL"
        /\ \A c \in Client : request[c] # Idle /\ request[c].tenant = t =>
                                ~Passed(c, o) /\ ~Passing(c, o)

Synced == \E c \in Client : HandleSync(c)

(* Without a synchronization it stays so, and nobody's access in a tenant  *)
(* grows, once nobody is left to hand out permissions: those who may still *)
(* create, rename and delete roles cannot give anybody, themselves         *)
(* included, more than he has, nor can the requests of other tenants, or   *)
(* those whose checks were under way while the permission was being taken  *)
(* away (middleware.go:70-89, authz.go:25-71, server.go:43-92).            *)
AccessGrowsByGrantOnly ==
    [][\A t \in Configured : NoGrantor(t) /\ ~Synced =>
          /\ NoGrantor(t)'
          /\ \A u \in User, o \in Operation :
                NoWiderThan(Access(tenants'[t], u, o), Access(tenants[t], u, o))]_vars

(* The user has in tenant t all that the route requires. *)
GrantedIn(t, u, route) ==
    \A n \in DOMAIN Required[route] :
        EffectiveScope(tenants[t], u, Required[route][n]) = "FULL"

(* "A user with role:write in tenant-a cannot touch roles in tenant-b      *)
(* unless granted there too" (docs/meta-authorization.md:31-33): a tenant  *)
(* changes by requests in that tenant, or of users who may do the same     *)
(* there (handlers.go:323-336).                                            *)
TenantsAreIsolated ==
    [][\A t \in Configured : tenants'[t] # tenants[t] =>
          \E c \in Client :
              /\ request[c].at = "act"
              /\ request'[c] = Idle
              /\ \/ request[c].tenant = t
                 \/ GrantedIn(t, request[c].user, request[c].route)]_vars

=============================================================================
