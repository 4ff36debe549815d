----------------------------- MODULE ApiProofs -----------------------------
(***************************************************************************)
(* What requests, checked and handled side by side, do to the shared store *)
(* and to the tenants' data, for any number of clients, tenants, roles,    *)
(* users, operations and record ids, and any declarations.                 *)
(***************************************************************************)
EXTENDS Api, TLAPS

(* What is proved of a tenant store's methods. *)
Store == INSTANCE TenantStoreProofs WITH tenant <- EmptyTenant

(* The instances' names stand for the same values. *)
LEMMA SameValues ==
    /\ Store!EmptyTenant = EmptyTenant /\ Store!Unset = Unset /\ Store!Scope = Scope
    /\ Store!NoPerms = NoPerms /\ Store!NoIds = NoIds /\ Store!Grant = Grant
    /\ Store!Subject = Subject /\ Store!TenantData = TenantData
  BY DEF Store!EmptyTenant, EmptyTenant, Store!NoPerms, NoPerms, Store!NoIds, NoIds,
         Store!Unset, Unset, Store!Scope, Scope, Store!Grant, Grant,
         Store!Subject, Subject, Store!TenantData, TenantData

LEMMA SameAccess ==
    /\ \A S : Store!WidestScope(S) = WidestScope(S)
    /\ \A t, u, o : Store!Access(t, u, o) = Access(t, u, o)
    /\ \A a, b : Store!NoWiderThan(a, b) <=> NoWiderThan(a, b)
<1>1. \A S : Store!WidestScope(S) = WidestScope(S)
  BY DEF Store!WidestScope, WidestScope, Store!IsWidest, IsWidest, Store!Width, Width,
         Store!Grant, Grant, Store!Scope, Scope, Store!Unset, Unset
<1>2. \A t, u, o : Store!EffectiveScope(t, u, o) = EffectiveScope(t, u, o)
  BY <1>1, SameValues
     DEF Store!EffectiveScope, EffectiveScope, Store!Overridden, Overridden,
         Store!RoleScope, RoleScope
<1>3. \A t, u, o : Store!RestrictedIds(t, u, o) = RestrictedIds(t, u, o)
  BY SameValues DEF Store!RestrictedIds, RestrictedIds, Store!IdSources, IdSources,
                    Store!Overridden, Overridden
<1>4. \A t, u, o : Store!Access(t, u, o) = Access(t, u, o)
  BY <1>2, <1>3 DEF Store!Access, Access
<1>5. \A a, b : Store!NoWiderThan(a, b) <=> NoWiderThan(a, b)
  BY DEF Store!NoWiderThan, NoWiderThan, Store!Width, Width, Store!Grant, Grant,
         Store!Scope, Scope, Store!Unset, Unset
<1> QED BY <1>1, <1>4, <1>5

LEMMA SameChanges ==
    \A t, r, b : /\ Data!AddRole(t, r) = Store!AddRole(t, r)
                 /\ Data!DropRole(t, r) = Store!DropRole(t, r)
                 /\ Data!MoveRole(t, r, b) = Store!MoveRole(t, r, b)
  BY DEF Data!AddRole, Store!AddRole, Data!DropRole, Store!DropRole,
         Data!MoveRole, Store!MoveRole, Data!NoPerms, Store!NoPerms,
         Data!NoIds, Store!NoIds, Data!Unset, Store!Unset

-----------------------------------------------------------------------------
(* One tenant's data *)

Good(t) ==
    /\ t \in TenantData
    /\ \A u \in User : t.assigned[u] \subseteq t.roles
    /\ \A r \in Role \ t.roles : t.perm[r] = NoPerms /\ t.ids[r] = NoIds

(* The data refers to provisioned users only. *)
Fits(t, users) ==
    /\ Good(t)
    /\ \A u \in User \ users : t.assigned[u] = {} /\ t.perm[u] = NoPerms

LEMMA SameGood == \A t : Store!Good(t) <=> Good(t)
  BY SameValues DEF Store!Good, Good

LEMMA FitsMore ==
    ASSUME NEW t, NEW users, NEW more, Fits(t, users), users \subseteq more
    PROVE  Fits(t, more)
  BY DEF Fits

(* The handlers on roles (admin.go:88-140). *)
LEMMA AddRoleFits ==
    ASSUME NEW t, NEW users, Fits(t, users), NEW r \in Role
    PROVE  Fits(Data!AddRole(t, r), users)
<1> DEFINE n == Data!AddRole(t, r)
<1>1. Good(n)
  BY SameChanges, SameGood, SubjectsApart, Store!AddRoleIsGood DEF Fits
<1>2. /\ n.assigned = t.assigned
      /\ \A s \in Subject \ {r} : n.perm[s] = t.perm[s]
  BY DEF Fits, Good, Data!AddRole, TenantData
<1> HIDE DEF n
<1>3. \A u \in User : u # r /\ u \in Subject
  BY SubjectsApart DEF Subject
<1> QED BY <1>1, <1>2, <1>3 DEF Fits, n

LEMMA MoveRoleFits ==
    ASSUME NEW t, NEW users, Fits(t, users), NEW a \in t.roles, NEW b \in Role \ t.roles
    PROVE  Fits(Data!MoveRole(t, a, b), users)
<1> DEFINE n == Data!MoveRole(t, a, b)
<1>1. Good(n) /\ a \in Role
  BY SameChanges, SameGood, SubjectsApart, Store!MoveRoleIsGood DEF Fits, Good, TenantData
<1>2. /\ \A u \in User : a \notin t.assigned[u] => n.assigned[u] = t.assigned[u]
      /\ \A s \in Subject \ {a, b} : n.perm[s] = t.perm[s]
  BY DEF Fits, Good, Data!MoveRole, TenantData
<1> HIDE DEF n
<1>3. \A u \in User : u # a /\ u # b /\ u \in Subject
  BY <1>1, SubjectsApart DEF Subject
<1> QED BY <1>1, <1>2, <1>3 DEF Fits, n

LEMMA DropRoleFits ==
    ASSUME NEW t, NEW users, Fits(t, users), NEW r \in Role
    PROVE  Fits(Data!DropRole(t, r), users)
<1> DEFINE n == Data!DropRole(t, r)
<1>1. Good(n)
  BY SameChanges, SameGood, SubjectsApart, Store!DropRoleIsGood DEF Fits
<1>2. /\ \A u \in User : n.assigned[u] = t.assigned[u] \ {r}
      /\ \A s \in Subject \ {r} : n.perm[s] = t.perm[s]
  BY DEF Fits, Good, Data!DropRole, TenantData
<1> HIDE DEF n
<1>3. \A u \in User : u # r /\ u \in Subject
  BY SubjectsApart DEF Subject
<1> QED BY <1>1, <1>2, <1>3 DEF Fits, n

(* The handlers on assignments (admin.go:142-157). *)
LEMMA AssignedFits ==
    ASSUME NEW t, NEW users, Fits(t, users), NEW u \in User,
           NEW rs \in SUBSET t.roles, u \in users \/ rs = {}
    PROVE  Fits([t EXCEPT !.assigned[u] = rs], users)
  BY DEF Fits, Good, TenantData

(* The handlers on permissions (admin.go:159-230). *)
LEMMA EntryFits ==
    ASSUME NEW t, NEW users, Fits(t, users), NEW s \in t.roles \cup User, NEW o \in Operation,
           NEW g \in Grant, NEW i \in SUBSET RecordId,
           s \in User => s \in users \/ g = Unset
    PROVE  Fits([t EXCEPT !.perm[s][o] = g, !.ids[s][o] = i], users)
<1> DEFINE n == [t EXCEPT !.perm[s][o] = g, !.ids[s][o] = i]
<1>1. t \in TenantData /\ s \in Subject /\ s \notin Role \ t.roles
  BY SubjectsApart DEF Fits, Good, TenantData, Subject
<1>2. n \in TenantData
  BY <1>1 DEF TenantData
<1>3. /\ n.roles = t.roles /\ n.assigned = t.assigned
      /\ n.perm[s] = [t.perm[s] EXCEPT ![o] = g]
      /\ \A x \in Subject \ {s} : n.perm[x] = t.perm[x] /\ n.ids[x] = t.ids[x]
  BY <1>1 DEF TenantData
<1> HIDE DEF n
<1>4. s \in User \ users => n.perm[s] = NoPerms
  <2> SUFFICES ASSUME s \in User \ users PROVE n.perm[s] = NoPerms
    OBVIOUS
  <2>1. t.perm[s] = NoPerms /\ g = Unset
    BY DEF Fits
  <2> QED BY <1>3, <2>1 DEF NoPerms
<1>5. \A u \in User \ users : n.assigned[u] = {} /\ n.perm[u] = NoPerms
  BY <1>3, <1>4 DEF Fits, Subject
<1>6. \A r \in Role \ n.roles : n.perm[r] = NoPerms /\ n.ids[r] = NoIds
  BY <1>1, <1>3 DEF Fits, Good, Subject
<1>7. \A u \in User : n.assigned[u] \subseteq n.roles
  BY <1>3 DEF Fits, Good
<1> QED BY <1>2, <1>5, <1>6, <1>7 DEF Fits, Good, n

(* The synchronization, which provisions whom it declares (sync.go). *)
LEMMA DeclaredFits ==
    ASSUME NEW d, NEW users, Fits(d, users), NEW t, {x.user : x \in Declared} \subseteq users
    PROVE  Fits(WithDeclared(d, t), users)
<1> DEFINE mine == {x \in Declared : x.tenant = t}
           n == WithDeclared(d, t)
           fullOn(s, o) == \E x \in mine : x.role = s /\ x.operation = o
           newRoles == d.roles \cup {x.role : x \in mine}
           newAssigned == [u \in User |-> d.assigned[u]
                                            \cup {x.role : x \in {y \in mine : y.user = u}}]
           newPerm == [s \in Subject |->
                         [o \in Operation |-> IF fullOn(s, o) THEN "FULL" ELSE d.perm[s][o]]]
<1>1. \A x \in mine : x.role \in Role /\ x.user \in users
  BY DeclaredType
<1>2. d \in TenantData
  BY DEF Fits, Good
<1>3. n = [d EXCEPT !.roles = newRoles, !.assigned = newAssigned, !.perm = newPerm]
  BY DEF WithDeclared
<1> HIDE DEF n, newRoles, newAssigned, newPerm
<1>10. n.roles = newRoles /\ n.assigned = newAssigned /\ n.perm = newPerm /\ n.ids = d.ids
  BY <1>2, <1>3 DEF TenantData
<1>4. "FULL" \in Grant
  BY DEF Grant, Scope
<1>5. n \in TenantData
  <2>1. newRoles \in SUBSET Role
    BY <1>1, <1>2 DEF TenantData, newRoles
  <2>2. newAssigned \in [User -> SUBSET Role]
    BY <1>1, <1>2 DEF TenantData, newAssigned
  <2>3. newPerm \in [Subject -> [Operation -> Grant]]
    BY <1>2, <1>4 DEF TenantData, newPerm
  <2> QED BY <1>2, <1>3, <2>1, <2>2, <2>3 DEF TenantData
<1>6. \A u \in User : n.assigned[u] \subseteq n.roles
  BY <1>10 DEF Fits, Good, newRoles, newAssigned
<1>7. \A s \in Subject : (\A x \in mine : x.role # s) /\ d.perm[s] = NoPerms
                           => n.perm[s] = NoPerms
  BY <1>10 DEF NoPerms, newPerm
<1>8. \A r \in Role \ n.roles : n.perm[r] = NoPerms /\ n.ids[r] = NoIds
  <2> SUFFICES ASSUME NEW r \in Role \ n.roles PROVE n.perm[r] = NoPerms /\ n.ids[r] = NoIds
    OBVIOUS
  <2>1. r \in Subject /\ (\A x \in mine : x.role # r) /\ r \notin d.roles
    BY <1>10 DEF Subject, newRoles
  <2> QED BY <1>7, <1>10, <2>1 DEF Fits, Good
<1>9. \A u \in User \ users : n.assigned[u] = {} /\ n.perm[u] = NoPerms
  <2> SUFFICES ASSUME NEW u \in User \ users PROVE n.assigned[u] = {} /\ n.perm[u] = NoPerms
    OBVIOUS
  <2>1. u \in Subject /\ (\A x \in mine : x.role # u /\ x.user # u)
    BY <1>1, SubjectsApart DEF Subject
  <2>2. n.assigned[u] = {}
    BY <1>10, <2>1 DEF Fits, newAssigned
  <2> QED BY <1>7, <2>1, <2>2 DEF Fits
<1> QED BY <1>5, <1>6, <1>8, <1>9 DEF Fits, Good, n

(* A tenant when the process begins to serve (sync.go, admin.go). *)
LEMMA BootstrappedFits == Fits(Bootstrapped, {AdminSub})
<1>1. NoPerms \in [Operation -> Grant] /\ NoIds \in [Operation -> SUBSET RecordId]
  BY DEF NoPerms, NoIds, Grant
<1>2. [o \in Operation |-> IF o \in MetaOperation THEN "FULL" ELSE Unset] \in [Operation -> Grant]
  BY DEF Grant, Scope
<1>3. AdminRole \in Role /\ AdminSub \in User /\ AdminRole \in Subject
  BY AdminInSets DEF Subject
<1>4. EmptyTenant \in TenantData
  BY <1>1 DEF EmptyTenant, TenantData
<1>5. Bootstrapped \in TenantData
  BY <1>2, <1>3, <1>4 DEF Bootstrapped, TenantData
<1>6. /\ Bootstrapped.roles = {AdminRole}
      /\ Bootstrapped.assigned[AdminSub] = {AdminRole}
      /\ \A u \in User \ {AdminSub} : Bootstrapped.assigned[u] = {}
      /\ \A s \in Subject \ {AdminRole} : Bootstrapped.perm[s] = NoPerms
      /\ \A s \in Subject : Bootstrapped.ids[s] = NoIds
  BY <1>3 DEF Bootstrapped, EmptyTenant
<1> QED BY <1>3, <1>5, <1>6, SubjectsApart DEF Fits, Good, Subject

-----------------------------------------------------------------------------
(* The shared store *)

SharedGood(s) ==
    /\ s \in Shared!SharedData
    /\ \A o \in s.operations : ResourceOf[o] \in s.resources

(* Every method of the store keeps the types and the resources of the      *)
(* operations; who is provisioned stays so (json.go:106-206).              *)
LEMMA SharedMethods ==
    ASSUME SharedGood(shared), NEW out,
           \/ \E u \in User : Shared!EnsureUser(u, out)
           \/ \E o \in Operation : Shared!CreateOperation(o, out) \/ Shared!DeleteOperation(o, out)
           \/ \E p \in Resource : Shared!CreateResource(p, out) \/ Shared!DeleteResource(p, out)
    PROVE  SharedGood(shared') /\ shared.users \subseteq shared'.users
<1>1. CASE UNCHANGED shared
  BY <1>1 DEF SharedGood
<1>2. ASSUME NEW u \in User, shared' = [shared EXCEPT !.users = @ \cup {u}]
      PROVE  SharedGood(shared') /\ shared.users \subseteq shared'.users
  BY <1>2 DEF SharedGood, Shared!SharedData
<1>3. ASSUME NEW o \in Operation, shared' = Shared!AddOperation(shared, o)
      PROVE  SharedGood(shared') /\ shared.users \subseteq shared'.users
  BY <1>3, ResourceOfIsTotal DEF SharedGood, Shared!SharedData, Shared!AddOperation
<1>4. ASSUME NEW o \in Operation, shared' = [shared EXCEPT !.operations = @ \ {o}]
      PROVE  SharedGood(shared') /\ shared.users \subseteq shared'.users
  BY <1>4 DEF SharedGood, Shared!SharedData
<1>5. ASSUME NEW p \in Resource, shared' = Shared!AddResource(shared, p)
      PROVE  SharedGood(shared') /\ shared.users \subseteq shared'.users
  BY <1>5 DEF SharedGood, Shared!SharedData, Shared!AddResource
<1>6. ASSUME NEW p \in Resource,
             shared' = [shared EXCEPT !.resources = @ \ {p},
                                      !.operations = {o \in @ : ResourceOf[o] # p}]
      PROVE  SharedGood(shared') /\ shared.users \subseteq shared'.users
  BY <1>6 DEF SharedGood, Shared!SharedData
<1> QED BY <1>1, <1>2, <1>3, <1>4, <1>5, <1>6
        DEF Shared!EnsureUser, Shared!CreateOperation, Shared!DeleteOperation,
            Shared!CreateResource, Shared!DeleteResource,
            Shared!Saved, Shared!Noop, Shared!NotFound, Shared!Conflict

LEMMA Provisioned ==
    ASSUME SharedGood(shared), NEW u \in User, NEW out, Shared!EnsureUser(u, out)
    PROVE  u \in shared'.users
  BY DEF Shared!EnsureUser, Shared!Saved, Shared!Noop, SharedGood, Shared!SharedData

LEMMA DeclaredShared ==
    ASSUME NEW s, SharedGood(s)
    PROVE  /\ SharedGood(SharedDeclared(s)) /\ s.users \subseteq SharedDeclared(s).users
           /\ {x.user : x \in Declared} \subseteq SharedDeclared(s).users
<1> DEFINE us == {x.user : x \in Declared}
           os == {x.operation : x \in Declared}
           rs == {ResourceOf[x.operation] : x \in Declared}
<1>1. us \subseteq User /\ os \subseteq Operation /\ rs \subseteq Resource
  BY DeclaredType, ResourceOfIsTotal
<1>2. \A o \in os : ResourceOf[o] \in rs
  OBVIOUS
<1>3. SharedDeclared(s) = [s EXCEPT !.users = @ \cup us, !.resources = @ \cup rs,
                                    !.operations = @ \cup os]
  BY DEF SharedDeclared
<1> HIDE DEF us, os, rs
<1>4. /\ SharedDeclared(s) \in Shared!SharedData
      /\ SharedDeclared(s).users = s.users \cup us
      /\ SharedDeclared(s).resources = s.resources \cup rs
      /\ SharedDeclared(s).operations = s.operations \cup os
  BY <1>1, <1>3 DEF SharedGood, Shared!SharedData
<1> QED BY <1>2, <1>4 DEF SharedGood, us

-----------------------------------------------------------------------------
(* The requests *)

RequestType == {Idle} \cup InProgress

LEMMA RouteRequires ==
    /\ Route = {"roles", "assignments", "permissions", "operations", "resources", "sync"}
    /\ \A k \in Route : Len(Required[k]) \in Nat \ {0} /\ DOMAIN Required[k] = 1 .. Len(Required[k])
<1>1. Route = {"roles", "assignments", "permissions", "operations", "resources", "sync"}
  BY DEF Route, Required
<1>2. ASSUME NEW k \in Route \ {"sync"} PROVE Len(Required[k]) = 1 /\ DOMAIN Required[k] = 1 .. 1
  BY <1>1, <1>2 DEF Required
<1>3. Len(Required["sync"]) = 5 /\ DOMAIN Required["sync"] = 1 .. 5
  BY DEF Required
<1>4. ASSUME NEW k \in Route
      PROVE  Len(Required[k]) \in Nat \ {0} /\ DOMAIN Required[k] = 1 .. Len(Required[k])
  <2>1. CASE k = "sync"
    BY <1>3, <2>1
  <2>2. CASE k # "sync"
    BY <1>2, <2>2
  <2> QED BY <2>1, <2>2
<1> QED BY <1>1, <1>4

LEMMA RequestIs ==
    ASSUME NEW k \in RequestType, k # Idle
    PROVE  /\ k = [at |-> k.at, user |-> k.user, tenant |-> k.tenant, route |-> k.route,
                   next |-> k.next, own |-> k.own, roles |-> k.roles]
           /\ k.at \in Read \cup {"act"} /\ k.own \in Grant /\ k.roles \in SUBSET Role
           /\ k.user \in User /\ k.tenant \in Configured /\ k.route \in Route
           /\ k.next \in 1 .. Len(Required[k.route])
  BY DEF RequestType, InProgress

LEMMA NewRequest ==
    ASSUME NEW at \in Read \cup {"act"}, NEW u \in User, NEW t \in Configured, NEW k \in Route,
           NEW n \in 1 .. Len(Required[k]), NEW own \in Grant, NEW roles \in SUBSET Role
    PROVE  [at |-> at, user |-> u, tenant |-> t, route |-> k,
            next |-> n, own |-> own, roles |-> roles] \in RequestType
  BY DEF RequestType, InProgress

-----------------------------------------------------------------------------
(* The inductive invariant: the parts of Inv, and what keeps them: every   *)
(* tenant's integrity and every operation's resource.                      *)

RequestsProvisioned == \A c \in Client : request[c] # Idle => request[c].user \in shared.users

IInv ==
    /\ SharedGood(shared)
    /\ tenants \in [Configured -> TenantData]
    /\ \A t \in Configured : Fits(tenants[t], shared.users)
    /\ request \in [Client -> RequestType]
    /\ RequestsProvisioned
    /\ changes \in 0 .. MaxChanges

LEMMA InvHolds == IInv => Inv
  BY DEF IInv, Inv, TypeOK, SharedGood, Fits, RequestsProvisioned, RequestType

LEMMA InitInv == Init => IInv
<1> SUFFICES ASSUME Init PROVE IInv
  OBVIOUS
<1> DEFINE s == [users |-> {AdminSub}, resources |-> {ResourceOf[o] : o \in MetaOperation},
                 operations |-> MetaOperation]
<1>1. SharedGood(s)
  BY AdminInSets, MetaOperationsExist, ResourceOfIsTotal DEF SharedGood, Shared!SharedData
<1>2. shared = SharedDeclared(s) /\ s.users = {AdminSub}
  BY DEF Init
<1> HIDE DEF s
<1>3. SharedGood(shared) /\ {AdminSub} \cup {x.user : x \in Declared} \subseteq shared.users
  BY <1>1, <1>2, DeclaredShared
<1>4. ASSUME NEW t \in Configured
      PROVE  Fits(tenants[t], shared.users)
  <2>1. Fits(Bootstrapped, shared.users)
    BY <1>3, BootstrappedFits, FitsMore
  <2>2. Fits(WithDeclared(Bootstrapped, t), shared.users)
    BY <1>3, <2>1, DeclaredFits
  <2> QED BY <2>2 DEF Init
<1>5. tenants \in [Configured -> TenantData]
  BY <1>4 DEF Init, Fits, Good
<1>6. request \in [Client -> RequestType] /\ RequestsProvisioned
  BY DEF Init, RequestType, RequestsProvisioned
<1>7. changes \in 0 .. MaxChanges
  BY MaxChangesType DEF Init
<1> QED BY <1>3, <1>4, <1>5, <1>6, <1>7 DEF IInv

(* The middleware (middleware.go:20-100). *)
LEMMA ProvisionInv ==
    ASSUME IInv, NEW u \in User, Provision(u)
    PROVE  IInv'
<1>1. SharedGood(shared') /\ shared.users \subseteq shared'.users
  BY SharedMethods DEF Provision, IInv
<1>2. UNCHANGED <<tenants, request, changes>>
  BY DEF Provision
<1>3. \A t \in Configured : Fits(tenants'[t], shared'.users)
  BY <1>1, <1>2, FitsMore DEF IInv
<1> QED BY <1>1, <1>2, <1>3 DEF IInv, RequestsProvisioned

LEMMA ArriveInv ==
    ASSUME IInv, NEW c \in Client, NEW u \in User, NEW t \in Configured, NEW k \in Route,
           Arrive(c, u, t, k)
    PROVE  IInv'
<1> DEFINE new == [at |-> "permissions", user |-> u, tenant |-> t, route |-> k,
                   next |-> 1, own |-> Unset, roles |-> {}]
<1>1. SharedGood(shared') /\ shared.users \subseteq shared'.users /\ u \in shared'.users
  BY SharedMethods, Provisioned DEF Arrive, IInv
<1>2. UNCHANGED <<tenants, changes>> /\ request' = [request EXCEPT ![c] = new]
  BY DEF Arrive
<1>3. \A x \in Configured : Fits(tenants'[x], shared'.users)
  BY <1>1, <1>2, FitsMore DEF IInv
<1>4. new \in RequestType /\ new.user = u
  <2>1. 1 \in 1 .. Len(Required[k]) /\ "permissions" \in Read /\ Unset \in Grant
    BY RouteRequires DEF Read, Grant
  <2> QED BY <2>1, NewRequest
<1> HIDE DEF new
<1> QED BY <1>1, <1>2, <1>3, <1>4 DEF IInv, RequestsProvisioned

LEMMA IdleIs == Idle \in RequestType /\ Idle.at = "idle"
  BY DEF Idle, RequestType

(* A request changes its state, its user stays. *)
LEMMA RequestMoves ==
    ASSUME IInv, NEW c \in Client, NEW k \in RequestType, Goto(c, k),
           k # Idle => request[c] # Idle /\ k.user = request[c].user
    PROVE  IInv'
<1>1. request' \in [Client -> RequestType]
  BY DEF IInv, Goto
<1>2. RequestsProvisioned'
  BY DEF IInv, RequestsProvisioned, Goto
<1> QED BY <1>1, <1>2 DEF IInv, Goto

Check(c) == ReadPermissions(c) \/ ReadRoles(c) \/ Pass(c) \/ Forbid(c) \/ ReadFails(c)

(* The request k elsewhere. *)
To(k, at, next, own, roles) ==
    [at |-> at, user |-> k.user, tenant |-> k.tenant, route |-> k.route,
     next |-> next, own |-> own, roles |-> roles]

Fields == {"at", "user", "tenant", "route", "next", "own", "roles"}

LEMMA RequestChanges ==
    ASSUME NEW k \in RequestType, k # Idle
    PROVE  LET q == [k EXCEPT !.own = Unset, !.roles = {}]
           IN  /\ \A own : [k EXCEPT !.at = "roles", !.own = own] = To(k, "roles", k.next, own, k.roles)
               /\ \A roles : [k EXCEPT !.at = "grants", !.roles = roles]
                                = To(k, "grants", k.next, k.own, roles)
               /\ q.next = k.next /\ q.route = k.route
               /\ \A next : [q EXCEPT !.at = "permissions", !.next = next]
                               = To(k, "permissions", next, Unset, {})
               /\ [q EXCEPT !.at = "act"] = To(k, "act", k.next, Unset, {})
<1> DEFINE q == [k EXCEPT !.own = Unset, !.roles = {}]
<1>1. PICK a, u, t, r, n, o, rs : k = [at |-> a, user |-> u, tenant |-> t, route |-> r,
                                       next |-> n, own |-> o, roles |-> rs]
  BY RequestIs
<1>2. q = To(k, k.at, k.next, Unset, {})
  <2> DEFINE p == q
  <2>1. p = [f \in Fields |-> p[f]]
    BY <1>1 DEF Fields
  <2>2. /\ p.at = k.at /\ p.user = k.user /\ p.tenant = k.tenant /\ p.route = k.route
        /\ p.next = k.next /\ p.own = Unset /\ p.roles = {}
    BY <1>1
  <2> HIDE DEF p
  <2>3. p = To(k, k.at, k.next, Unset, {})
    BY <2>1, <2>2 DEF Fields, To
  <2> QED BY <2>3 DEF p
<1>4. ASSUME NEW own
      PROVE  [k EXCEPT !.at = "roles", !.own = own] = To(k, "roles", k.next, own, k.roles)
  <2> DEFINE p == [k EXCEPT !.at = "roles", !.own = own]
  <2>1. p = [f \in Fields |-> p[f]]
    BY <1>1 DEF Fields
  <2>2. /\ p.at = "roles" /\ p.user = k.user /\ p.tenant = k.tenant /\ p.route = k.route
        /\ p.next = k.next /\ p.own = own /\ p.roles = k.roles
    BY <1>1
  <2> HIDE DEF p
  <2>3. p = To(k, "roles", k.next, own, k.roles)
    BY <2>1, <2>2 DEF Fields, To
  <2> QED BY <2>3 DEF p
<1>5. ASSUME NEW roles
      PROVE  [k EXCEPT !.at = "grants", !.roles = roles] = To(k, "grants", k.next, k.own, roles)
  <2> DEFINE p == [k EXCEPT !.at = "grants", !.roles = roles]
  <2>1. p = [f \in Fields |-> p[f]]
    BY <1>1 DEF Fields
  <2>2. /\ p.at = "grants" /\ p.user = k.user /\ p.tenant = k.tenant /\ p.route = k.route
        /\ p.next = k.next /\ p.own = k.own /\ p.roles = roles
    BY <1>1
  <2> HIDE DEF p
  <2>3. p = To(k, "grants", k.next, k.own, roles)
    BY <2>1, <2>2 DEF Fields, To
  <2> QED BY <2>3 DEF p
<1>3. q = [at |-> a, user |-> u, tenant |-> t, route |-> r, next |-> n, own |-> Unset, roles |-> {}]
  BY <1>1, <1>2 DEF To
<1> HIDE DEF q
<1>6. ASSUME NEW next
      PROVE  [q EXCEPT !.at = "permissions", !.next = next] = To(k, "permissions", next, Unset, {})
  <2> DEFINE p == [q EXCEPT !.at = "permissions", !.next = next]
  <2>1. p = [f \in Fields |-> p[f]]
    BY <1>3 DEF Fields
  <2>2. /\ p.at = "permissions" /\ p.user = k.user /\ p.tenant = k.tenant /\ p.route = k.route
        /\ p.next = next /\ p.own = Unset /\ p.roles = {}
    BY <1>1, <1>3
  <2> HIDE DEF p
  <2>3. p = To(k, "permissions", next, Unset, {})
    BY <2>1, <2>2 DEF Fields, To
  <2> QED BY <2>3 DEF p
<1>7. [q EXCEPT !.at = "act"] = To(k, "act", k.next, Unset, {})
  <2> DEFINE p == [q EXCEPT !.at = "act"]
  <2>1. p = [f \in Fields |-> p[f]]
    BY <1>3 DEF Fields
  <2>2. /\ p.at = "act" /\ p.user = k.user /\ p.tenant = k.tenant /\ p.route = k.route
        /\ p.next = k.next /\ p.own = Unset /\ p.roles = {}
    BY <1>1, <1>3
  <2> HIDE DEF p
  <2>3. p = To(k, "act", k.next, Unset, {})
    BY <2>1, <2>2 DEF Fields, To
  <2> QED BY <2>3 DEF p
<1>8. q.next = k.next /\ q.route = k.route
  BY <1>1, <1>3
<1> QED BY <1>4, <1>5, <1>6, <1>7, <1>8 DEF q

(* The steps of a check, and what becomes of the request.                  *)
LEMMA CheckIs ==
    ASSUME IInv, NEW c \in Client, Check(c)
    PROVE  LET k == request[c]
           IN  /\ k \in RequestType /\ k # Idle /\ k.at \in Read
               /\ \/ Goto(c, Idle)
                  \/ /\ ReadPermissions(c)
                     /\ Goto(c, To(k, "roles", k.next, Before(c).perm[k.user][Checking(c)], k.roles))
                  \/ /\ ReadRoles(c)
                     /\ Goto(c, To(k, "grants", k.next, k.own, Before(c).assigned[k.user]))
                  \/ /\ Pass(c) /\ k.next < Len(Required[k.route])
                     /\ Goto(c, To(k, "permissions", k.next + 1, Unset, {}))
                  \/ /\ Pass(c) /\ k.next = Len(Required[k.route])
                     /\ Goto(c, To(k, "act", k.next, Unset, {}))
<1> DEFINE k == request[c]
           q == [k EXCEPT !.own = Unset, !.roles = {}]
<1>1. k \in RequestType /\ k # Idle /\ k.at \in Read
  BY IdleIs DEF Check, ReadPermissions, ReadRoles, Pass, Forbid, ReadFails, LastRead, IInv, Read
<1>2. ~(k.next < Len(Required[k.route])) => k.next = Len(Required[k.route])
  <2>1. k.next \in 1 .. Len(Required[k.route]) /\ Len(Required[k.route]) \in Nat
    BY <1>1, RequestIs, RouteRequires
  <2> QED BY <2>1
<1>3. CASE ReadPermissions(c)
  <2>1. [k EXCEPT !.at = "roles", !.own = Before(c).perm[k.user][Checking(c)]]
          = To(k, "roles", k.next, Before(c).perm[k.user][Checking(c)], k.roles)
    BY <1>1, RequestChanges
  <2> QED BY <1>1, <1>3, <2>1 DEF ReadPermissions
<1>4. CASE ReadRoles(c)
  <2>1. [k EXCEPT !.at = "grants", !.roles = Before(c).assigned[k.user]]
          = To(k, "grants", k.next, k.own, Before(c).assigned[k.user])
    BY <1>1, RequestChanges
  <2> QED BY <1>1, <1>4, <2>1 DEF ReadRoles
<1>5. CASE Pass(c)
  <2>1. /\ q.next = k.next /\ q.route = k.route
        /\ [q EXCEPT !.at = "permissions", !.next = k.next + 1]
              = To(k, "permissions", k.next + 1, Unset, {})
        /\ [q EXCEPT !.at = "act"] = To(k, "act", k.next, Unset, {})
    BY <1>1, RequestChanges
  <2>2. Goto(c, IF q.next < Len(Required[q.route])
                THEN [q EXCEPT !.at = "permissions", !.next = q.next + 1]
                ELSE [q EXCEPT !.at = "act"])
    BY <1>5 DEF Pass
  <2> HIDE DEF q
  <2>3. CASE k.next < Len(Required[k.route])
    BY <1>1, <1>5, <2>1, <2>2, <2>3
  <2>4. CASE ~(k.next < Len(Required[k.route]))
    BY <1>1, <1>2, <1>5, <2>1, <2>2, <2>4
  <2> QED BY <2>3, <2>4
<1>6. CASE Forbid(c) \/ ReadFails(c)
  BY <1>1, <1>6 DEF Forbid, ReadFails
<1> QED BY <1>3, <1>4, <1>5, <1>6 DEF Check

(* What a check reads is of the types of the store (authz.go:25-71).       *)
LEMMA ReadsTyped ==
    ASSUME IInv, NEW c \in Client, request[c] \in RequestType, request[c] # Idle
    PROVE  /\ Checking(c) \in Operation
           /\ Before(c).perm[request[c].user][Checking(c)] \in Grant
           /\ Before(c).assigned[request[c].user] \in SUBSET Role
<1> DEFINE k == request[c]
<1>1. k.user \in User /\ k.tenant \in Configured /\ k.route \in Route
      /\ k.next \in 1 .. Len(Required[k.route])
  BY RequestIs
<1>2. k.next \in DOMAIN Required[k.route]
  BY <1>1, RouteRequires
<1>3. Checking(c) \in Operation
  BY <1>1, <1>2, MetaOperationsExist DEF Checking, MetaOperation
<1>4. Before(c) \in TenantData
  BY <1>1 DEF Before, IInv
<1> QED BY <1>1, <1>3, <1>4 DEF TenantData, Subject

LEMMA CheckInv ==
    ASSUME IInv, NEW c \in Client, Check(c)
    PROVE  IInv'
<1> DEFINE k == request[c]
<1>1. k \in RequestType /\ k # Idle
  BY CheckIs
<1>2. /\ k.user \in User /\ k.tenant \in Configured /\ k.route \in Route
      /\ k.next \in 1 .. Len(Required[k.route]) /\ Len(Required[k.route]) \in Nat
      /\ k.own \in Grant /\ k.roles \in SUBSET Role
      /\ Unset \in Grant /\ Read = {"permissions", "roles", "grants"}
  BY <1>1, RequestIs, RouteRequires DEF Grant, Read
<1>3. /\ Before(c).perm[k.user][Checking(c)] \in Grant
      /\ Before(c).assigned[k.user] \in SUBSET Role
  BY <1>1, ReadsTyped
<1>4. \/ Goto(c, Idle)
      \/ \E at \in Read \cup {"act"}, next \in 1 .. Len(Required[k.route]),
            own \in Grant, roles \in SUBSET Role : Goto(c, To(k, at, next, own, roles))
  <2>1. k.next < Len(Required[k.route]) => k.next + 1 \in 1 .. Len(Required[k.route])
    BY <1>2
  <2> QED BY <1>2, <1>3, <2>1, CheckIs
<1>5. \A at \in Read \cup {"act"}, next \in 1 .. Len(Required[k.route]),
         own \in Grant, roles \in SUBSET Role :
            To(k, at, next, own, roles) \in RequestType /\ To(k, at, next, own, roles).user = k.user
  BY <1>2, NewRequest DEF To
<1> QED BY <1>1, <1>4, <1>5, IdleIs, RequestMoves

(* A handler acts. *)
LEMMA ActsIs ==
    ASSUME IInv, NEW c \in Client, NEW k, Acts(c, k)
    PROVE  /\ request[c].tenant \in Configured /\ request[c].user \in shared.users
           /\ Fits(Before(c), shared.users) /\ Before(c) \in TenantData
           /\ changes' \in 0 .. MaxChanges
           /\ request' \in [Client -> RequestType]
           /\ \A x \in Client : request'[x] # Idle => request'[x] = request[x]
<1>1. request[c] \in RequestType /\ request[c] # Idle
  BY IdleIs DEF IInv, Acts
<1>2. request[c].tenant \in Configured /\ request[c].user \in shared.users
  BY <1>1, RequestIs DEF IInv, RequestsProvisioned
<1>3. changes' \in 0 .. MaxChanges
  BY MaxChangesType DEF IInv, Acts
<1>4. request' \in [Client -> RequestType]
  BY IdleIs DEF IInv, Acts
<1>5. \A x \in Client : request'[x] # Idle => request'[x] = request[x]
  BY DEF IInv, Acts
<1> QED BY <1>2, <1>3, <1>4, <1>5 DEF IInv, Before

LEMMA Handled ==
    ASSUME IInv, NEW c \in Client, NEW k, Acts(c, k),
           SharedGood(shared'), shared.users \subseteq shared'.users,
           tenants' \in [Configured -> TenantData],
           \A t \in Configured : Fits(tenants'[t], shared'.users)
    PROVE  IInv'
<1>1. RequestsProvisioned'
  BY ActsIs DEF IInv, RequestsProvisioned
<1> QED BY <1>1, ActsIs DEF IInv

LEMMA TenantHandled ==
    ASSUME IInv, NEW c \in Client, NEW k, Acts(c, k),
           SharedGood(shared'), shared.users \subseteq shared'.users,
           NEW d, Fits(d, shared'.users), Becomes(c, d)
    PROVE  IInv'
<1>1. d \in TenantData /\ request[c].tenant \in Configured
  BY ActsIs DEF Fits, Good
<1>2. tenants' \in [Configured -> TenantData]
  BY <1>1 DEF Becomes, IInv
<1>3. \A t \in Configured : Fits(tenants'[t], shared'.users)
  <2> SUFFICES ASSUME NEW t \in Configured PROVE Fits(tenants'[t], shared'.users)
    OBVIOUS
  <2>1. tenants'[t] = IF t = request[c].tenant THEN d ELSE tenants[t]
    BY DEF Becomes, IInv
  <2>2. Fits(tenants[t], shared'.users)
    BY FitsMore DEF IInv
  <2> QED BY <2>1, <2>2
<1> QED BY <1>2, <1>3, Handled

LEMMA RolesInv ==
    ASSUME IInv, NEW c \in Client, CreateRole(c) \/ RenameRole(c) \/ DeleteRole(c)
    PROVE  IInv'
<1>1. Acts(c, "roles") /\ UNCHANGED shared /\ SharedGood(shared')
  BY DEF CreateRole, RenameRole, DeleteRole, IInv
<1>2. Fits(Before(c), shared'.users) /\ Before(c).roles \subseteq Role
  BY <1>1, ActsIs DEF TenantData
<1>3. PICK d : Fits(d, shared'.users) /\ Becomes(c, d)
  <2>1. CASE CreateRole(c)
    BY <1>2, <2>1, AddRoleFits DEF CreateRole
  <2>2. CASE RenameRole(c)
    BY <1>2, <2>2, MoveRoleFits DEF RenameRole
  <2>3. CASE DeleteRole(c)
    BY <1>2, <2>3, DropRoleFits DEF DeleteRole
  <2> QED BY <2>1, <2>2, <2>3
<1> QED BY <1>1, <1>3, TenantHandled

LEMMA AssignmentsInv ==
    ASSUME IInv, NEW c \in Client, AssignRole(c) \/ UnassignRole(c)
    PROVE  IInv'
<1>1. Acts(c, "assignments") /\ SharedGood(shared)
  BY DEF AssignRole, UnassignRole, IInv
<1>2. /\ Fits(Before(c), shared.users) /\ Before(c) \in TenantData
      /\ \A u \in User : Before(c).assigned[u] \subseteq Before(c).roles
  BY <1>1, ActsIs DEF Fits, Good
<1>3. CASE AssignRole(c)
  <2>1. PICK u \in User, r \in Before(c).roles :
           /\ \E out \in Shared!Outcome : Shared!EnsureUser(u, out)
           /\ Becomes(c, [Before(c) EXCEPT !.assigned[u] = @ \cup {r}])
    BY <1>3 DEF AssignRole
  <2>2. SharedGood(shared') /\ shared.users \subseteq shared'.users /\ u \in shared'.users
    BY <1>1, <2>1, SharedMethods, Provisioned
  <2> DEFINE rs == Before(c).assigned[u] \cup {r}
             d == [Before(c) EXCEPT !.assigned[u] = rs]
  <2>3. Becomes(c, d)
    BY <1>2, <2>1
  <2>4. Fits(Before(c), shared'.users) /\ rs \in SUBSET Before(c).roles
    BY <1>2, <2>2, FitsMore
  <2>5. Fits(d, shared'.users)
    BY <2>2, <2>4, AssignedFits
  <2> QED BY <1>1, <2>2, <2>3, <2>5, TenantHandled
<1>4. CASE UnassignRole(c)
  <2>1. PICK u \in User : \E r \in Before(c).assigned[u] :
           Becomes(c, [Before(c) EXCEPT !.assigned[u] = @ \ {r}])
    BY <1>4 DEF UnassignRole
  <2>2. PICK r \in Before(c).assigned[u] :
           Becomes(c, [Before(c) EXCEPT !.assigned[u] = @ \ {r}])
    BY <2>1
  <2> DEFINE rs == Before(c).assigned[u] \ {r}
             d == [Before(c) EXCEPT !.assigned[u] = rs]
  <2>3. UNCHANGED shared /\ SharedGood(shared') /\ shared.users \subseteq shared'.users
    BY <1>1, <1>4 DEF UnassignRole
  <2>4. Becomes(c, d)
    BY <1>2, <2>2
  <2>5. rs \in SUBSET Before(c).roles /\ u \in shared.users
    BY <1>2, <2>2 DEF Fits
  <2>6. Fits(d, shared'.users)
    BY <1>2, <2>3, <2>5, AssignedFits
  <2> QED BY <1>1, <2>3, <2>4, <2>6, TenantHandled
<1> QED BY <1>3, <1>4

LEMMA PermissionsInv ==
    ASSUME IInv, NEW c \in Client,
           SetPermission(c) \/ RemovePermission(c) \/ UpdateRestrictedIDs(c)
    PROVE  IInv'
<1> DEFINE b == Before(c)
<1>1. Acts(c, "permissions") /\ SharedGood(shared)
  BY DEF SetPermission, RemovePermission, UpdateRestrictedIDs, IInv
<1>2. SharedGood(shared') /\ shared.users \subseteq shared'.users
  BY <1>1, SharedMethods DEF SetPermission, RemovePermission, UpdateRestrictedIDs
<1>3. Fits(b, shared.users) /\ Fits(b, shared'.users) /\ b \in TenantData
  BY <1>1, <1>2, ActsIs, FitsMore
<1>4. b.roles \cup User \subseteq Subject
  BY <1>3 DEF TenantData, Subject
<1>5. \E s \in b.roles \cup User, o \in Operation, g \in Grant, i \in SUBSET RecordId :
         /\ s \in User => s \in shared'.users \/ g = Unset
         /\ Becomes(c, [b EXCEPT !.perm[s][o] = g, !.ids[s][o] = i])
  <2>1. CASE SetPermission(c)
    <3>1. PICK s \in b.roles \cup User, o \in shared.operations, scope \in RequestScope :
             /\ IF s \in User THEN \E out \in Shared!Outcome : Shared!EnsureUser(s, out)
                              ELSE UNCHANGED shared
             /\ Becomes(c, [b EXCEPT !.perm[s][o] = scope])
      BY <2>1 DEF SetPermission
    <3>2. o \in Operation /\ scope \in Grant
      BY <1>1, RequestScopeIsScope DEF SharedGood, Shared!SharedData, Grant
    <3>3. s \in User => s \in shared'.users
      BY <1>1, <3>1, Provisioned
    <3>4. b.ids[s][o] \in SUBSET RecordId
      BY <1>3, <1>4, <3>2 DEF TenantData
    <3>5. [b EXCEPT !.perm[s][o] = scope]
            = [b EXCEPT !.perm[s][o] = scope, !.ids[s][o] = b.ids[s][o]]
      BY <1>3, <1>4 DEF TenantData
    <3>6. Becomes(c, [b EXCEPT !.perm[s][o] = scope, !.ids[s][o] = b.ids[s][o]])
      BY <3>1, <3>5
    <3> HIDE DEF b
    <3> USE <3>2, <3>4
    <3> WITNESS s \in b.roles \cup User, o \in Operation, scope \in Grant,
                b.ids[s][o] \in SUBSET RecordId
    <3> QED BY <3>3, <3>6
  <2>2. CASE RemovePermission(c)
    <3>1. PICK s \in b.roles \cup User, o \in Operation :
             Becomes(c, [b EXCEPT !.perm[s][o] = Unset, !.ids[s][o] = {}])
      BY <2>2 DEF RemovePermission
    <3>2. Unset \in Grant /\ {} \in SUBSET RecordId
      BY DEF Grant
    <3> HIDE DEF b
    <3> QED BY <3>1, <3>2
  <2>3. CASE UpdateRestrictedIDs(c)
    <3>1. PICK s \in b.roles \cup User, o \in Operation, add \in SUBSET RecordId,
               remove \in SUBSET RecordId :
             /\ b.perm[s][o] # Unset
             /\ Becomes(c, [b EXCEPT !.ids[s][o] = (@ \cup add) \ remove])
      BY <2>3 DEF UpdateRestrictedIDs
    <3> DEFINE i == (b.ids[s][o] \cup add) \ remove
    <3>2. i \in SUBSET RecordId /\ b.perm[s][o] \in Grant
      BY <1>3, <1>4 DEF TenantData
    <3>3. [b EXCEPT !.ids[s][o] = (@ \cup add) \ remove]
            = [b EXCEPT !.perm[s][o] = b.perm[s][o], !.ids[s][o] = i]
      BY <1>3, <1>4 DEF TenantData
    <3>4. s \in User => s \in shared.users
      BY <1>3, <3>1 DEF Fits, NoPerms
    <3>5. Becomes(c, [b EXCEPT !.perm[s][o] = b.perm[s][o], !.ids[s][o] = i])
      BY <3>1, <3>3
    <3> HIDE DEF b, i
    <3> USE <3>2
    <3> WITNESS s \in b.roles \cup User, o \in Operation, b.perm[s][o] \in Grant,
                i \in SUBSET RecordId
    <3> QED BY <1>2, <3>4, <3>5
  <2> QED BY <2>1, <2>2, <2>3
<1>6. PICK s \in b.roles \cup User, o \in Operation, g \in Grant, i \in SUBSET RecordId :
         /\ s \in User => s \in shared'.users \/ g = Unset
         /\ Becomes(c, [b EXCEPT !.perm[s][o] = g, !.ids[s][o] = i])
  BY <1>5
<1> DEFINE d == [b EXCEPT !.perm[s][o] = g, !.ids[s][o] = i]
<1> HIDE DEF b
<1>7. Fits(d, shared'.users)
  BY <1>3, <1>6, EntryFits
<1> QED BY <1>1, <1>2, <1>6, <1>7, TenantHandled

LEMMA SharedHandlersInv ==
    ASSUME IInv, NEW c \in Client, HandleOperations(c) \/ HandleResources(c)
    PROVE  IInv'
<1>1. SharedGood(shared') /\ shared.users \subseteq shared'.users
  BY SharedMethods DEF HandleOperations, HandleResources, IInv
<1>2. \E k : Acts(c, k) /\ UNCHANGED tenants
  BY DEF HandleOperations, HandleResources
<1>3. \A t \in Configured : Fits(tenants'[t], shared'.users)
  BY <1>1, <1>2, FitsMore DEF IInv
<1> QED BY <1>1, <1>2, <1>3, Handled DEF IInv

LEMMA SyncInv ==
    ASSUME IInv, NEW c \in Client, HandleSync(c)
    PROVE  IInv'
<1>1. /\ SharedGood(shared') /\ shared.users \subseteq shared'.users
      /\ {x.user : x \in Declared} \subseteq shared'.users
  BY DeclaredShared DEF HandleSync, IInv
<1>2. ASSUME NEW t \in Configured
      PROVE  Fits(tenants'[t], shared'.users)
  BY <1>1, FitsMore, DeclaredFits DEF HandleSync, IInv
<1>3. tenants' \in [Configured -> TenantData]
  BY <1>2 DEF HandleSync, Fits, Good
<1> QED BY <1>1, <1>2, <1>3, Handled DEF HandleSync

LEMMA RefuseInv ==
    ASSUME IInv, NEW c \in Client, Refuse(c)
    PROVE  IInv'
  BY IdleIs, RequestMoves DEF Refuse

LEMMA NextInv ==
    ASSUME IInv, [Next]_vars
    PROVE  IInv'
<1>1. CASE UNCHANGED vars
  BY <1>1 DEF vars, IInv, RequestsProvisioned
<1>2. ASSUME NEW c \in Client, Handle(c) PROVE IInv'
  BY <1>2, RolesInv, AssignmentsInv, PermissionsInv, SharedHandlersInv, SyncInv, RefuseInv
     DEF Handle
<1>3. CASE Next
  BY <1>2, <1>3, ProvisionInv, ArriveInv, CheckInv DEF Next, Check
<1> QED BY <1>1, <1>3

(* Types, and every user who asks for something or is given something has  *)
(* been provisioned, for any number of requests at a time, their checks    *)
(* and handlers in any order (middleware.go:43, admin.go:142-192).         *)
THEOREM ApiInv == Spec => []Inv
<1>1. Spec => []IInv
  BY InitInv, NextInv, PTL DEF Spec
<1> QED BY <1>1, InvHolds, PTL

-----------------------------------------------------------------------------
(* Access *)

LEMMA SameIsNoWider ==
    ASSUME NEW t \in TenantData, NEW u \in User, NEW o \in Operation
    PROVE  NoWiderThan(Access(t, u, o), Access(t, u, o))
<1>1. \A r \in t.assigned[u] : t.perm[r][o] \in {t.perm[r][o], Unset}
  OBVIOUS
<1> QED BY <1>1, SameValues, SameAccess, Store!LessIsNoWider, SubjectsApart

(* A handler on roles gives nobody anything (admin.go:88-140). *)
LEMMA RoleHandlersAreSafe ==
    ASSUME IInv, NEW c \in Client, CreateRole(c) \/ RenameRole(c) \/ DeleteRole(c),
           NEW u \in User, NEW o \in Operation
    PROVE  LET t == request[c].tenant
           IN  NoWiderThan(Access(tenants'[t], u, o), Access(tenants[t], u, o))
<1> DEFINE t == request[c].tenant
           b == Before(c)
<1>1. PICK k : Acts(c, k)
  BY DEF CreateRole, RenameRole, DeleteRole
<1>2. t \in Configured /\ Fits(b, shared.users) /\ b \in TenantData /\ b = tenants[t]
  BY <1>1, ActsIs DEF Before
<1>3. \A d : Becomes(c, d) => tenants'[t] = d
  BY <1>2 DEF Becomes, IInv
<1>4. Store!Good(b) /\ b.roles \subseteq Role
  BY <1>2, SameGood DEF Fits, TenantData
<1>5. CASE CreateRole(c)
  <2>1. PICK r \in Role \ b.roles : Becomes(c, Data!AddRole(b, r))
    BY <1>5 DEF CreateRole
  <2>2. Access(tenants'[t], u, o) = Access(b, u, o)
    BY <1>3, <1>4, <2>1, SameChanges, SameAccess, SubjectsApart, Store!AddRoleKeepsAccess
  <2> QED BY <1>2, <2>2, SameIsNoWider
<1>6. CASE RenameRole(c)
  <2>1. PICK x \in b.roles, y \in Role \ b.roles : Becomes(c, Data!MoveRole(b, x, y))
    BY <1>6 DEF RenameRole
  <2>2. Access(tenants'[t], u, o) = Access(b, u, o)
    BY <1>3, <1>4, <2>1, SameChanges, SameAccess, SubjectsApart, Store!MoveRoleKeepsAccess
  <2> QED BY <1>2, <2>2, SameIsNoWider
<1>7. CASE DeleteRole(c)
  <2>1. PICK r \in b.roles : Becomes(c, Data!DropRole(b, r))
    BY <1>7 DEF DeleteRole
  <2> DEFINE n == tenants'[t]
  <2>2. n = Store!DropRole(b, r) /\ r \in Role
    BY <1>3, <1>4, <2>1, SameChanges
  <2>3. /\ n.assigned[u] = b.assigned[u] \ {r}
        /\ n.perm[u][o] = b.perm[u][o] /\ n.ids[u][o] = b.ids[u][o]
        /\ \A x \in b.assigned[u] \ {r} :
              n.perm[x][o] = b.perm[x][o] /\ n.ids[x][o] = b.ids[x][o]
    BY <1>4, <2>2, SubjectsApart, Store!DropRoleData
  <2>4. n \in Store!TenantData /\ b \in Store!TenantData
    BY <1>2, <1>4, <2>2, SubjectsApart, SameValues, Store!DropRoleIsGood DEF Store!Good
  <2>5. Store!NoWiderThan(Store!Access(n, u, o), Store!Access(b, u, o))
    BY <2>3, <2>4, SubjectsApart, Store!LessIsNoWider
  <2> QED BY <1>2, <2>5, SameAccess
<1> QED BY <1>5, <1>6, <1>7

(* Who gets to the handlers that grant has passed the check for it         *)
(* (server.go:43-92).                                                      *)
LEMMA GrantersPassed ==
    ASSUME NEW c \in Client, NEW k \in {"assignments", "permissions"}, Acts(c, k)
    PROVE  ~NoGrantor(request[c].tenant)
<1>1. request[c].at = "act" /\ request[c] # Idle /\ request[c].route = k
  BY IdleIs DEF Acts
<1>2. 1 \in DOMAIN Required[k] /\ Required[k][1] \in {"role:assign", "operation:assign"}
  BY DEF Required
<1>3. Passed(c, Required[k][1])
  BY <1>1, <1>2 DEF Passed
<1> QED BY <1>1, <1>2, <1>3 DEF NoGrantor

LEMMA StepGrantsNothing ==
    ASSUME IInv, [Next]_vars, NEW t \in Configured, NoGrantor(t), ~Synced,
           NEW u \in User, NEW o \in Operation
    PROVE  NoWiderThan(Access(tenants'[t], u, o), Access(tenants[t], u, o))
<1>1. tenants[t] \in TenantData
  BY DEF IInv
<1>2. CASE tenants'[t] = tenants[t]
  BY <1>1, <1>2, SameIsNoWider
<1>3. ASSUME NEW c \in Client, Handle(c)
      PROVE  NoWiderThan(Access(tenants'[t], u, o), Access(tenants[t], u, o))
  <2>1. CASE CreateRole(c) \/ RenameRole(c) \/ DeleteRole(c)
    <3>1. CASE request[c].tenant = t
      BY <2>1, <3>1, RoleHandlersAreSafe
    <3>2. CASE request[c].tenant # t
      BY <1>2, <2>1, <3>2 DEF CreateRole, RenameRole, DeleteRole, Becomes, IInv
    <3> QED BY <3>1, <3>2
  <2>2. CASE \/ AssignRole(c) \/ UnassignRole(c)
             \/ SetPermission(c) \/ RemovePermission(c) \/ UpdateRestrictedIDs(c)
    <3>1. \E k \in {"assignments", "permissions"} : Acts(c, k)
      BY <2>2 DEF AssignRole, UnassignRole, SetPermission, RemovePermission, UpdateRestrictedIDs
    <3>2. request[c].tenant # t
      BY <3>1, GrantersPassed
    <3>3. \E d : Becomes(c, d)
      BY <2>2 DEF AssignRole, UnassignRole, SetPermission, RemovePermission, UpdateRestrictedIDs
    <3> QED BY <1>2, <3>2, <3>3 DEF Becomes, IInv
  <2>3. CASE HandleOperations(c) \/ HandleResources(c) \/ Refuse(c)
    BY <1>2, <2>3 DEF HandleOperations, HandleResources, Refuse, Goto
  <2> QED BY <1>3, <2>1, <2>2, <2>3 DEF Handle, Synced
<1>4. CASE UNCHANGED tenants
  BY <1>2, <1>4
<1> QED BY <1>3, <1>4
        DEF Next, vars, Provision, Arrive, ReadPermissions, ReadRoles, Pass, Forbid, ReadFails, Goto

(* The two operations that let hand out permissions. *)
Granting == {"role:assign", "operation:assign"}
NothingGrants(d) == \A o \in Granting, s \in Subject : d.perm[s][o] # "FULL"

LEMMA GrantingExists == Granting \subseteq Operation
<1>1. /\ "assignments" \in Route /\ 1 \in DOMAIN Required["assignments"]
      /\ Required["assignments"][1] = "role:assign"
      /\ "permissions" \in Route /\ 1 \in DOMAIN Required["permissions"]
      /\ Required["permissions"][1] = "operation:assign"
  BY RouteRequires DEF Required
<1> QED BY <1>1, MetaOperationsExist DEF Granting, MetaOperation

(* A handler on roles moves permissions at most (admin.go:88-140). *)
LEMMA RolesGrantNothing ==
    ASSUME NEW d \in TenantData, NothingGrants(d), NEW a \in Role, NEW b \in Role
    PROVE  /\ NothingGrants(Data!AddRole(d, a))
           /\ NothingGrants(Data!DropRole(d, a))
           /\ NothingGrants(Data!MoveRole(d, a, b))
<1>1. \A o \in Granting : o \in Operation /\ NoPerms[o] # "FULL"
  BY GrantingExists DEF NoPerms, Unset
<1>2. a \in Subject /\ b \in Subject /\ d.perm \in [Subject -> [Operation -> Grant]]
  BY DEF Subject, TenantData
<1>3. /\ Data!AddRole(d, a).perm = [d.perm EXCEPT ![a] = NoPerms]
      /\ Data!DropRole(d, a).perm = [d.perm EXCEPT ![a] = NoPerms]
      /\ Data!MoveRole(d, a, b).perm = [[d.perm EXCEPT ![a] = NoPerms] EXCEPT ![b] = d.perm[a]]
  BY DEF Data!AddRole, Data!DropRole, Data!MoveRole, Data!NoPerms, NoPerms, Data!Unset, Unset,
         TenantData
<1>4. NothingGrants(Data!AddRole(d, a)) /\ NothingGrants(Data!DropRole(d, a))
  BY <1>1, <1>2, <1>3 DEF NothingGrants
<1>5. NothingGrants(Data!MoveRole(d, a, b))
  BY <1>1, <1>2, <1>3 DEF NothingGrants
<1> QED BY <1>4, <1>5

(* No step gives FULL on them where nobody is left to. *)
LEMMA NothingGrantsLater ==
    ASSUME IInv, [Next]_vars, NEW t \in Configured, NoGrantor(t), ~Synced
    PROVE  NothingGrants(tenants'[t])
<1>1. tenants[t] \in TenantData /\ NothingGrants(tenants[t])
  BY DEF IInv, NoGrantor, NothingGrants, Granting
<1>2. CASE tenants'[t] = tenants[t]
  BY <1>1, <1>2
<1>3. ASSUME NEW c \in Client, Handle(c)
      PROVE  NothingGrants(tenants'[t])
  <2>1. CASE CreateRole(c) \/ RenameRole(c) \/ DeleteRole(c)
    <3>1. CASE request[c].tenant = t
      <4>1. Before(c) = tenants[t] /\ \A d : Becomes(c, d) => tenants'[t] = d
        BY <3>1 DEF Before, Becomes, IInv
      <4>2. Before(c).roles \subseteq Role
        BY <1>1, <4>1 DEF TenantData
      <4> QED BY <1>1, <2>1, <4>1, <4>2, RolesGrantNothing DEF CreateRole, RenameRole, DeleteRole
    <3>2. CASE request[c].tenant # t
      BY <1>2, <2>1, <3>2 DEF CreateRole, RenameRole, DeleteRole, Becomes, IInv
    <3> QED BY <3>1, <3>2
  <2>2. CASE \/ AssignRole(c) \/ UnassignRole(c)
             \/ SetPermission(c) \/ RemovePermission(c) \/ UpdateRestrictedIDs(c)
    <3>1. \E k \in {"assignments", "permissions"} : Acts(c, k)
      BY <2>2 DEF AssignRole, UnassignRole, SetPermission, RemovePermission, UpdateRestrictedIDs
    <3>2. request[c].tenant # t
      BY <3>1, GrantersPassed
    <3>3. \E d : Becomes(c, d)
      BY <2>2 DEF AssignRole, UnassignRole, SetPermission, RemovePermission, UpdateRestrictedIDs
    <3> QED BY <1>2, <3>2, <3>3 DEF Becomes, IInv
  <2>3. CASE HandleOperations(c) \/ HandleResources(c) \/ Refuse(c)
    BY <1>2, <2>3 DEF HandleOperations, HandleResources, Refuse, Goto
  <2> QED BY <1>3, <2>1, <2>2, <2>3 DEF Handle, Synced
<1>4. CASE UNCHANGED tenants
  BY <1>2, <1>4
<1> QED BY <1>3, <1>4
        DEF Next, vars, Provision, Arrive, ReadPermissions, ReadRoles, Pass, Forbid, ReadFails, Goto

(* Has k, a request in tenant t, seen or passed nothing that grants? *)
Harmless(k, t) ==
    k # Idle /\ k.tenant = t =>
        \A o \in Granting :
            /\ \A n \in DOMAIN Required[k.route] :
                  Required[k.route][n] = o => k.at # "act" /\ ~(n < k.next)
            /\ ~(k.at \in {"roles", "grants"} /\ Required[k.route][k.next] = o /\ k.own = "FULL")

LEMMA NoGrantorIs ==
    ASSUME NEW t
    PROVE  /\ NoGrantor(t) <=> NothingGrants(tenants[t]) /\ \A c \in Client : Harmless(request[c], t)
           /\ NoGrantor(t)' <=> NothingGrants(tenants'[t]) /\ \A c \in Client : Harmless(request'[c], t)
  BY DEF NoGrantor, NothingGrants, Granting, Harmless, Passed, Passing, Checking

(* Nor does a check then pass whose operation grants (authz.go:25-71). *)
LEMMA PassIsHarmless ==
    ASSUME IInv, NEW c \in Client, Pass(c), NoGrantor(request[c].tenant)
    PROVE  Checking(c) \notin Granting
<1> DEFINE k == request[c]
           S == {Before(c).perm[r][Checking(c)] : r \in k.roles}
<1>1. k \in RequestType /\ k # Idle
  BY IdleIs DEF Pass, LastRead, IInv
<1>2. k.tenant \in Configured /\ k.roles \in SUBSET Role
  BY <1>1, RequestIs
<1>3. Checking(c) \in Operation /\ Before(c) \in TenantData
  BY <1>1, <1>2, ReadsTyped DEF Before, IInv
<1> SUFFICES ASSUME Checking(c) \in Granting PROVE FALSE
  OBVIOUS
<1>4. k.own # "FULL"
  BY <1>1 DEF Pass, LastRead, NoGrantor, Granting, Passing
<1>5. S \in SUBSET Grant /\ "FULL" \notin S
  <2>1. NothingGrants(Before(c))
    BY NoGrantorIs DEF Before
  <2> QED BY <1>2, <1>3, <2>1 DEF TenantData, Subject, NothingGrants
<1> HIDE DEF S
<1>6. WidestScope(S) \in S \cup {Unset}
  <2>1. S \in SUBSET Store!Grant /\ Store!Unset = Unset
    BY <1>5, SameValues
  <2>2. Store!IsWidest(Store!WidestScope(S), S)
    BY <2>1, SubjectsApart, Store!WidestExists
  <2> QED BY <2>1, <2>2, SameAccess DEF Store!IsWidest
<1>7. WidestScope(S) # "FULL"
  BY <1>5, <1>6 DEF Unset
<1> QED BY <1>4, <1>7 DEF Pass, Authorized, S

(* The check goes on without seeing or passing anything that grants. *)
LEMMA CheckIsHarmless ==
    ASSUME IInv, NEW c \in Client, Check(c), NEW t \in Configured, NoGrantor(t)
    PROVE  Harmless(request'[c], t)
<1> DEFINE k == request[c]
<1>1. /\ k \in RequestType /\ k # Idle /\ k.at \in Read
      /\ \A x : Goto(c, x) => request'[c] = x
  BY CheckIs DEF Goto, IInv
<1>2. /\ k.user \in User /\ k.route \in Route /\ k.next \in 1 .. Len(Required[k.route])
      /\ DOMAIN Required[k.route] = 1 .. Len(Required[k.route]) /\ Len(Required[k.route]) \in Nat
  BY <1>1, RequestIs, RouteRequires
<1>3. Harmless(k, t) /\ k.at # "act"
  BY <1>1, NoGrantorIs DEF Read
<1>4. CASE Goto(c, Idle)
  BY <1>1, <1>4 DEF Harmless
<1>5. CASE k.tenant # t
  <2>1. CASE request'[c] = Idle
    BY <2>1 DEF Harmless
  <2>2. CASE \E at, next, own, roles : request'[c] = To(k, at, next, own, roles)
    BY <1>5, <2>2 DEF Harmless, To
  <2> QED BY <1>1, <2>1, <2>2, CheckIs
<1>6. CASE k.tenant = t
  <2>1. \A o \in Granting : \A n \in DOMAIN Required[k.route] :
           Required[k.route][n] = o => ~(n < k.next)
    BY <1>1, <1>3, <1>6 DEF Harmless
  <2>2. Pass(c) => Required[k.route][k.next] \notin Granting
    BY <1>6, PassIsHarmless DEF Checking
  <2>3. ASSUME ReadPermissions(c)
        PROVE  Checking(c) \in Granting => Before(c).perm[k.user][Checking(c)] # "FULL"
    BY <1>2, <1>6, NoGrantorIs DEF NothingGrants, Before, Subject
  <2>4. ASSUME ReadRoles(c)
        PROVE  Checking(c) \in Granting => k.own # "FULL"
    BY <1>1, <1>3, <1>6, <2>4 DEF ReadRoles, Harmless, Checking
  <2>5. \A n \in DOMAIN Required[k.route] :
           /\ n < k.next + 1 => n < k.next \/ n = k.next
           /\ k.next = Len(Required[k.route]) => n < k.next \/ n = k.next
    BY <1>2
  <2>6. CASE ReadPermissions(c) /\ Goto(c, To(k, "roles", k.next,
                                  Before(c).perm[k.user][Checking(c)], k.roles))
    <3>1. PICK own : own = Before(c).perm[k.user][Checking(c)]
      OBVIOUS
    <3>2. request'[c] = To(k, "roles", k.next, own, k.roles)
      BY <1>1, <2>6, <3>1
    <3>3. Required[k.route][k.next] \in Granting => own # "FULL"
      BY <2>3, <2>6, <3>1 DEF Checking
    <3> QED BY <2>1, <3>2, <3>3 DEF Harmless, To
  <2>7. CASE ReadRoles(c) /\ Goto(c, To(k, "grants", k.next, k.own, Before(c).assigned[k.user]))
    BY <1>1, <2>1, <2>4, <2>7 DEF Harmless, To, Checking
  <2>8. CASE Pass(c) /\ Goto(c, To(k, "permissions", k.next + 1, Unset, {}))
    BY <1>1, <2>1, <2>2, <2>5, <2>8 DEF Harmless, To
  <2>9. CASE Pass(c) /\ k.next = Len(Required[k.route]) /\ Goto(c, To(k, "act", k.next, Unset, {}))
    BY <1>1, <2>1, <2>2, <2>5, <2>9 DEF Harmless, To
  <2> QED BY <1>4, <2>6, <2>7, <2>8, <2>9, CheckIs
<1> QED BY <1>5, <1>6

LEMMA NoGrantorLater ==
    ASSUME IInv, [Next]_vars, NEW t \in Configured, NoGrantor(t), ~Synced
    PROVE  NoGrantor(t)'
<1>1. NothingGrants(tenants'[t])
  BY NothingGrantsLater
<1>2. \A c \in Client : Harmless(request[c], t)
  BY NoGrantorIs
<1>3. ASSUME NEW c \in Client, \A x \in Client \ {c} : request'[x] = request[x],
             Harmless(request'[c], t)
      PROVE  NoGrantor(t)'
  BY <1>1, <1>2, <1>3, NoGrantorIs
<1>4. CASE UNCHANGED request
  BY <1>1, <1>2, <1>4, NoGrantorIs
<1>5. Harmless(Idle, t)
  BY DEF Harmless
<1>6. ASSUME NEW c \in Client, Check(c) PROVE NoGrantor(t)'
  <2>1. \A x \in Client \ {c} : request'[x] = request[x]
    BY <1>6, CheckIs DEF Goto, IInv
  <2> QED BY <1>3, <1>6, <2>1, CheckIsHarmless
<1>7. ASSUME NEW c \in Client, Handle(c) PROVE NoGrantor(t)'
  <2>1. request' = [request EXCEPT ![c] = Idle]
    BY <1>7 DEF Handle, CreateRole, RenameRole, DeleteRole, AssignRole, UnassignRole,
                SetPermission, RemovePermission, UpdateRestrictedIDs, HandleOperations,
                HandleResources, HandleSync, Refuse, Acts, Goto
  <2> QED BY <1>3, <1>5, <2>1 DEF IInv
<1>8. ASSUME NEW c \in Client, NEW u \in User, NEW x \in Configured, NEW k \in Route,
             Arrive(c, u, x, k)
      PROVE  NoGrantor(t)'
  <2> DEFINE new == [at |-> "permissions", user |-> u, tenant |-> x, route |-> k,
                     next |-> 1, own |-> Unset, roles |-> {}]
  <2>1. request' = [request EXCEPT ![c] = new]
    BY <1>8 DEF Arrive
  <2>2. \A n \in DOMAIN Required[k] : ~(n < 1)
    BY RouteRequires
  <2>3. Harmless(new, t)
    BY <2>2 DEF Harmless
  <2> HIDE DEF new
  <2> QED BY <1>3, <2>1, <2>3 DEF IInv
<1> QED BY <1>4, <1>6, <1>7, <1>8 DEF Next, vars, Check, Provision

(* Once nothing in a tenant gives FULL on the operations that hand out     *)
(* permissions, and no request there has seen or passed more, it stays so, *)
(* and no step but a synchronization gives anybody more access there,      *)
(* whatever reads, checks and handlers of the requests come in between     *)
(* (middleware.go:70-89, authz.go:25-71, server.go:43-92).                 *)
THEOREM AccessGrowsByGrant == Spec => AccessGrowsByGrantOnly
<1>1. Spec => []IInv
  BY InitInv, NextInv, PTL DEF Spec
<1>2. IInv /\ [Next]_vars =>
         [\A t \in Configured : NoGrantor(t) /\ ~Synced =>
            /\ NoGrantor(t)'
            /\ \A u \in User, o \in Operation :
                  NoWiderThan(Access(tenants'[t], u, o), Access(tenants[t], u, o))]_vars
  BY StepGrantsNothing, NoGrantorLater
<1> QED BY <1>1, <1>2, PTL DEF Spec, AccessGrowsByGrantOnly

=============================================================================
