------------------------- MODULE TenantStoreProofs -------------------------
(***************************************************************************)
(* The tenant store, for all sets of roles, users, operations and record   *)
(* ids: it keeps its data well typed and free of references to roles that  *)
(* do not exist, and its calls do to the access of users what the action   *)
(* properties of TenantStore say.                                          *)
(***************************************************************************)
EXTENDS TenantStore, TLAPS

(* Inv as a predicate on the data, to speak of a tenant before and after.  *)
Good(t) ==
    /\ t \in TenantData
    /\ \A u \in User : t.assigned[u] \subseteq t.roles
    /\ \A r \in Role \ t.roles : t.perm[r] = NoPerms /\ t.ids[r] = NoIds

LEMMA InvIsGood == (Inv <=> Good(tenant)) /\ (Inv' <=> Good(tenant'))
  BY DEF Inv, TypeOK, Integrity, Good

(* A tenant without a file or tables is well formed (json.go:250-265).     *)
LEMMA EmptyTenantIsGood == Good(EmptyTenant)
<1>1. NoPerms \in [Operation -> Grant] /\ NoIds \in [Operation -> SUBSET RecordId]
  BY DEF NoPerms, NoIds, Grant
<1> QED BY <1>1 DEF Good, EmptyTenant, TenantData, Subject

(* Creating a role (json.go:302-320). *)
LEMMA AddRoleIsGood ==
    ASSUME NEW t, Good(t), NEW r \in Role
    PROVE  Good(AddRole(t, r))
<1>1. NoPerms \in [Operation -> Grant] /\ NoIds \in [Operation -> SUBSET RecordId]
  BY DEF NoPerms, NoIds, Grant
<1> QED BY <1>1 DEF Good, AddRole, TenantData, Subject

(* Renaming a role to a free name (json.go:339-345). *)
LEMMA MoveRoleIsGood ==
    ASSUME NEW t, Good(t), NEW a \in t.roles, NEW b \in Role \ t.roles
    PROVE  Good(MoveRole(t, a, b))
<1> DEFINE n == MoveRole(t, a, b)
<1>1. NoPerms \in [Operation -> Grant] /\ NoIds \in [Operation -> SUBSET RecordId]
  BY DEF NoPerms, NoIds, Grant
<1>2. a \in Role /\ a # b /\ t \in TenantData
  BY DEF Good, TenantData
<1>3. n.roles = (t.roles \ {a}) \cup {b} /\ n.roles \subseteq Role
  BY <1>2 DEF MoveRole, TenantData
<1>4. /\ n.assigned \in [User -> SUBSET Role]
      /\ \A u \in User : n.assigned[u] \subseteq n.roles
  <2>1. n.assigned = [u \in User |-> IF a \in t.assigned[u]
                                     THEN (t.assigned[u] \ {a}) \cup {b}
                                     ELSE t.assigned[u]]
    BY <1>2 DEF MoveRole, TenantData
  <2>2. \A u \in User : t.assigned[u] \subseteq t.roles
    BY DEF Good
  <2>3. \A u \in User : n.assigned[u] \subseteq n.roles
    BY <1>3, <2>1, <2>2
  <2> QED BY <1>3, <2>1, <2>3
<1>5. /\ n.perm = [t.perm EXCEPT ![a] = NoPerms, ![b] = t.perm[a]]
      /\ n.ids = [t.ids EXCEPT ![a] = NoIds, ![b] = t.ids[a]]
  BY <1>2 DEF MoveRole, TenantData
<1>6. /\ n.perm \in [Subject -> [Operation -> Grant]]
      /\ n.ids \in [Subject -> [Operation -> SUBSET RecordId]]
  <2>1. a \in Subject /\ b \in Subject
    BY <1>2 DEF Subject
  <2>2. /\ t.perm \in [Subject -> [Operation -> Grant]]
        /\ t.ids \in [Subject -> [Operation -> SUBSET RecordId]]
    BY <1>2 DEF TenantData
  <2>3. n.perm \in [Subject -> [Operation -> Grant]]
    <3>1. t.perm[a] \in [Operation -> Grant] /\ NoPerms \in [Operation -> Grant]
      BY <1>1, <2>1, <2>2
    <3>2. [t.perm EXCEPT ![a] = NoPerms] \in [Subject -> [Operation -> Grant]]
      BY <2>1, <2>2, <3>1
    <3> QED BY <1>5, <2>1, <3>1, <3>2
  <2>4. n.ids \in [Subject -> [Operation -> SUBSET RecordId]]
    <3>1. t.ids[a] \in [Operation -> SUBSET RecordId] /\ NoIds \in [Operation -> SUBSET RecordId]
      BY <1>1, <2>1, <2>2
    <3>2. [t.ids EXCEPT ![a] = NoIds] \in [Subject -> [Operation -> SUBSET RecordId]]
      BY <2>1, <2>2, <3>1
    <3> QED BY <1>5, <2>1, <3>1, <3>2
  <2> QED BY <2>3, <2>4
<1>7. \A r \in Role \ n.roles : n.perm[r] = NoPerms /\ n.ids[r] = NoIds
  BY <1>2, <1>3, <1>5 DEF Good, TenantData, Subject
<1>8. n \in TenantData
  BY <1>2, <1>3, <1>4, <1>6 DEF MoveRole, TenantData
<1> QED BY <1>4, <1>7, <1>8 DEF Good

(* Deleting a role (json.go:355-358). *)
LEMMA DropRoleIsGood ==
    ASSUME NEW t, Good(t), NEW r \in Role
    PROVE  Good(DropRole(t, r))
<1>1. NoPerms \in [Operation -> Grant] /\ NoIds \in [Operation -> SUBSET RecordId]
  BY DEF NoPerms, NoIds, Grant
<1>2. \A u \in User : t.assigned[u] \ {r} \subseteq t.roles \ {r}
  BY DEF Good
<1>3. DropRole(t, r) \in TenantData
  BY <1>1 DEF Good, DropRole, TenantData, Subject
<1>4. \A u \in User : DropRole(t, r).assigned[u] \subseteq DropRole(t, r).roles
  BY <1>2 DEF Good, DropRole, TenantData
<1>5. \A x \in Role \ DropRole(t, r).roles :
          DropRole(t, r).perm[x] = NoPerms /\ DropRole(t, r).ids[x] = NoIds
  BY DEF Good, DropRole, TenantData, Subject
<1> QED BY <1>3, <1>4, <1>5 DEF Good

(* The methods on roles (json.go:302-360). *)
LEMMA RoleCallInv ==
    ASSUME Inv, NEW out \in Outcome, RoleCall(out)
    PROVE  Inv'
<1>1. Good(tenant)
  BY InvIsGood
<1>2. SUFFICES Good(tenant')
  BY InvIsGood
<1>3. CASE UNCHANGED tenant
  BY <1>1, <1>3
<1>4. ASSUME NEW r \in Role, CreateRole(r, out) \/ EnsureRole(r, out)
      PROVE  Good(tenant')
  BY <1>1, <1>3, <1>4, AddRoleIsGood
     DEF CreateRole, EnsureRole, Saved, Noop, Conflict
<1>5. ASSUME NEW r \in Role, DeleteRole(r, out)
      PROVE  Good(tenant')
  BY <1>1, <1>3, <1>5, DropRoleIsGood DEF DeleteRole, Saved, NotFound
<1>6. ASSUME NEW a \in Role, NEW b \in Role, RenameRole(a, b, out)
      PROVE  Good(tenant')
  BY <1>1, <1>3, <1>6, MoveRoleIsGood DEF RenameRole, Saved, NotFound, Conflict
<1> QED BY <1>4, <1>5, <1>6, RoleCall(out) DEF RoleCall

(* The methods on assignments (json.go:377-404). *)
LEMMA AssignmentCallInv ==
    ASSUME Inv, NEW out \in Outcome, AssignmentCall(out)
    PROVE  Inv'
<1>1. Good(tenant)
  BY InvIsGood
<1>2. SUFFICES Good(tenant')
  BY InvIsGood
<1>3. PICK u \in User, r \in Role : AssignRole(u, r, out) \/ UnassignRole(u, r, out)
  BY DEF AssignmentCall
<1>4. CASE UNCHANGED tenant
  BY <1>1, <1>4
<1>5. CASE /\ r \in tenant.roles
           /\ tenant' = [tenant EXCEPT !.assigned[u] = @ \cup {r}]
  BY <1>1, <1>5 DEF Good, TenantData
<1>6. CASE tenant' = [tenant EXCEPT !.assigned[u] = @ \ {r}]
  BY <1>1, <1>6 DEF Good, TenantData
<1> QED BY <1>3, <1>4, <1>5, <1>6
        DEF AssignRole, UnassignRole, Saved, Noop, NotFound

(* The methods on permissions and restricted ids (json.go:416-577).        *)
LEMMA PermissionCallInv ==
    ASSUME Inv, NEW out \in Outcome, PermissionCall(out)
    PROVE  Inv'
<1>1. Good(tenant)
  BY InvIsGood
<1>2. SUFFICES Good(tenant')
  BY InvIsGood
<1>3. PICK s \in Subject, o \in Operation :
         \/ \E scope \in Scope : SetPermission(s, o, scope, out)
         \/ RemovePermission(s, o, out)
         \/ \E some \in SUBSET RecordId :
               AddRestrictedIDs(s, o, some, out) \/ RemoveRestrictedIDs(s, o, some, out)
  BY DEF PermissionCall
<1>4. CASE UNCHANGED tenant
  BY <1>1, <1>4
<1>5. ASSUME Known(s),
             NEW g \in Grant, NEW i \in SUBSET RecordId,
             tenant' = [tenant EXCEPT !.perm[s][o] = g, !.ids[s][o] = i]
      PROVE  Good(tenant')
  <2>1. s \notin Role \ tenant.roles
    BY <1>5, SubjectsApart DEF Known
  <2>2. tenant' \in TenantData
    BY <1>1, <1>5 DEF Good, TenantData
  <2>3. /\ tenant'.roles = tenant.roles
        /\ tenant'.assigned = tenant.assigned
        /\ \A x \in Subject \ {s} : /\ tenant'.perm[x] = tenant.perm[x]
                                    /\ tenant'.ids[x] = tenant.ids[x]
    BY <1>1, <1>5 DEF Good, TenantData
  <2> QED BY <1>1, <2>1, <2>2, <2>3 DEF Good, Subject
<1>6. /\ tenant \in TenantData
      /\ tenant.perm[s][o] \in Grant
      /\ tenant.ids[s][o] \in SUBSET RecordId
  BY <1>1 DEF Good, TenantData
<1>7. ASSUME NEW scope \in Scope, SetPermission(s, o, scope, out)
      PROVE  Good(tenant')
  <2>1. CASE Known(s) /\ tenant' = [tenant EXCEPT !.perm[s][o] = scope]
    <3>1. tenant' = [tenant EXCEPT !.perm[s][o] = scope, !.ids[s][o] = tenant.ids[s][o]]
      BY <1>6, <2>1 DEF TenantData
    <3>2. scope \in Grant
      BY DEF Grant
    <3> QED BY <1>5, <1>6, <2>1, <3>1, <3>2
  <2> QED BY <1>4, <1>7, <2>1 DEF SetPermission, Saved, NotFound
<1>8. ASSUME RemovePermission(s, o, out)
      PROVE  Good(tenant')
  <2>1. Unset \in Grant /\ {} \in SUBSET RecordId
    BY DEF Grant
  <2> QED BY <1>4, <1>5, <1>8, <2>1 DEF RemovePermission, Saved, NotFound
<1>9. ASSUME NEW some \in SUBSET RecordId,
             AddRestrictedIDs(s, o, some, out) \/ RemoveRestrictedIDs(s, o, some, out)
      PROVE  Good(tenant')
  <2>1. ASSUME NEW i \in SUBSET RecordId, Known(s),
               tenant' = [tenant EXCEPT !.ids[s][o] = i]
        PROVE  Good(tenant')
    <3>1. tenant' = [tenant EXCEPT !.perm[s][o] = tenant.perm[s][o], !.ids[s][o] = i]
      BY <1>6, <2>1 DEF TenantData
    <3> QED BY <1>5, <1>6, <2>1, <3>1
  <2>2. /\ tenant.ids[s][o] \cup some \in SUBSET RecordId
        /\ tenant.ids[s][o] \ some \in SUBSET RecordId
    BY <1>6
  <2> QED BY <1>4, <1>9, <2>1, <2>2
          DEF AddRestrictedIDs, RemoveRestrictedIDs, Saved, NotFound
<1> QED BY <1>3, <1>7, <1>8, <1>9

(* No sequence of calls leaves an assignment to a role that is gone, nor   *)
(* permissions or ids under the name of one.                               *)
THEOREM StoreInv == Spec => []Inv
<1>1. Init => Inv
  BY EmptyTenantIsGood, InvIsGood DEF Init
<1>2. Inv /\ [Next]_tenant => Inv'
  <2>1. ASSUME Inv, Next PROVE Inv'
    BY <2>1, RoleCallInv, AssignmentCallInv, PermissionCallInv DEF Next, Call
  <2>2. ASSUME Inv, UNCHANGED tenant PROVE Inv'
    BY <2>2, InvIsGood
  <2> QED BY <2>1, <2>2
<1> QED BY <1>1, <1>2, PTL DEF Spec

-----------------------------------------------------------------------------
(* How access depends on the data. *)

(* A set of scopes has a widest one (model.go:12-16, authz.go:53-68). *)
LEMMA WidestExists ==
    ASSUME NEW S \in SUBSET Grant
    PROVE  WidestScope(S) \in Grant /\ IsWidest(WidestScope(S), S)
<1>1. SUFFICES \E s \in Grant : IsWidest(s, S)
  BY DEF WidestScope
<1>2. /\ \A s \in Grant : Width[s] \in 0..3 /\ (s = Unset => Width[s] = 0)
      /\ Width["FULL"] = 3 /\ Width["RESTRICTED"] = 2 /\ Width["EMPTY"] = 1
      /\ Unset \in Grant /\ Scope \subseteq Grant
  BY DEF Width, Grant, Scope, Unset
<1>3. Grant = {"FULL", "RESTRICTED", "EMPTY", Unset}
  BY DEF Grant, Scope
<1>4. CASE "FULL" \in S
  BY <1>2, <1>3, <1>4 DEF IsWidest
<1>5. CASE "FULL" \notin S /\ "RESTRICTED" \in S
  BY <1>2, <1>3, <1>5 DEF IsWidest
<1>6. CASE "FULL" \notin S /\ "RESTRICTED" \notin S /\ "EMPTY" \in S
  BY <1>2, <1>3, <1>6 DEF IsWidest
<1>7. CASE "FULL" \notin S /\ "RESTRICTED" \notin S /\ "EMPTY" \notin S
  BY <1>2, <1>3, <1>7 DEF IsWidest
<1> QED BY <1>4, <1>5, <1>6, <1>7

(* Fewer scopes have a narrower widest one. *)
LEMMA WidestIsMonotonic ==
    ASSUME NEW S \in SUBSET Grant, NEW T \in SUBSET Grant, S \subseteq T \cup {Unset}
    PROVE  Width[WidestScope(S)] <= Width[WidestScope(T)]
<1>1. /\ WidestScope(S) \in Grant /\ IsWidest(WidestScope(S), S)
      /\ WidestScope(T) \in Grant /\ IsWidest(WidestScope(T), T)
  BY WidestExists
<1>2. WidestScope(S) \in T \cup {Unset}
  BY <1>1 DEF IsWidest
<1>3. Width[Unset] = 0 /\ Width[WidestScope(T)] \in 0..3
  BY <1>1 DEF Width, Grant, Scope, Unset
<1> QED BY <1>1, <1>2, <1>3 DEF IsWidest

(* Two states of the data that agree on the user's own entry, on the       *)
(* scopes its roles grant and on the ids of those that grant RESTRICTED    *)
(* give the user the same access.                                          *)
FromRoles(t, u, o) == {t.perm[r][o] : r \in t.assigned[u]}
IdsFromRoles(t, u, o) ==
    UNION {t.ids[r][o] : r \in {x \in t.assigned[u] : t.perm[x][o] = "RESTRICTED"}}

LEMMA AccessIsSame ==
    ASSUME NEW t, NEW n, NEW u, NEW o,
           n.perm[u][o] = t.perm[u][o], n.ids[u][o] = t.ids[u][o],
           FromRoles(n, u, o) = FromRoles(t, u, o),
           IdsFromRoles(n, u, o) = IdsFromRoles(t, u, o)
    PROVE  Access(n, u, o) = Access(t, u, o)
<1>1. EffectiveScope(n, u, o) = EffectiveScope(t, u, o)
  BY DEF EffectiveScope, Overridden, RoleScope, FromRoles
<1>2. RestrictedIds(n, u, o) = RestrictedIds(t, u, o)
  <2>1. CASE Overridden(t, u, o)
    BY <2>1 DEF RestrictedIds, IdSources, Overridden
  <2>2. CASE ~Overridden(t, u, o)
    BY <2>2 DEF RestrictedIds, IdSources, Overridden, IdsFromRoles
  <2> QED BY <2>1, <2>2
<1> QED BY <1>1, <1>2 DEF Access

(* In particular when nothing about the user and the user's roles changed. *)
LEMMA UntouchedAccess ==
    ASSUME NEW t, NEW n, NEW u, NEW o,
           n.perm[u][o] = t.perm[u][o], n.ids[u][o] = t.ids[u][o],
           n.assigned[u] = t.assigned[u],
           \A r \in t.assigned[u] : n.perm[r][o] = t.perm[r][o] /\ n.ids[r][o] = t.ids[r][o]
    PROVE  Access(n, u, o) = Access(t, u, o)
<1>1. FromRoles(n, u, o) = FromRoles(t, u, o)
  BY DEF FromRoles
<1>2. IdsFromRoles(n, u, o) = IdsFromRoles(t, u, o)
  BY DEF IdsFromRoles
<1> QED BY <1>1, <1>2, AccessIsSame

(* With fewer roles, fewer grants and fewer ids access is no wider. *)
LEMMA LessIsNoWider ==
    ASSUME NEW t \in TenantData, NEW n \in TenantData, NEW u \in User, NEW o \in Operation,
           n.perm[u][o] = t.perm[u][o], n.ids[u][o] \subseteq t.ids[u][o],
           n.assigned[u] \subseteq t.assigned[u],
           \A r \in n.assigned[u] : /\ n.perm[r][o] \in {t.perm[r][o], Unset}
                                    /\ n.ids[r][o] \subseteq t.ids[r][o]
    PROVE  NoWiderThan(Access(n, u, o), Access(t, u, o))
<1>1. /\ FromRoles(n, u, o) \in SUBSET Grant /\ FromRoles(t, u, o) \in SUBSET Grant
      /\ FromRoles(n, u, o) \subseteq FromRoles(t, u, o) \cup {Unset}
      /\ n.perm[u][o] \in Grant
  BY DEF FromRoles, TenantData, Subject
<1>2. /\ EffectiveScope(n, u, o) \in Grant
      /\ EffectiveScope(t, u, o) \in Grant
      /\ Width[EffectiveScope(n, u, o)] <= Width[EffectiveScope(t, u, o)]
  <2>1. CASE Overridden(t, u, o)
    <3>1. EffectiveScope(n, u, o) = EffectiveScope(t, u, o) /\ EffectiveScope(n, u, o) \in Grant
      BY <1>1, <2>1 DEF EffectiveScope, Overridden
    <3>2. Width[EffectiveScope(n, u, o)] \in 0..3
      BY <3>1 DEF Width, Grant, Scope, Unset
    <3> QED BY <3>1, <3>2
  <2>2. CASE ~Overridden(t, u, o)
    <3>1. /\ EffectiveScope(n, u, o) = WidestScope(FromRoles(n, u, o))
          /\ EffectiveScope(t, u, o) = WidestScope(FromRoles(t, u, o))
      BY <2>2 DEF EffectiveScope, Overridden, RoleScope, FromRoles
    <3> QED BY <1>1, <3>1, WidestExists, WidestIsMonotonic
  <2> QED BY <2>1, <2>2
<1>3. RestrictedIds(n, u, o) \subseteq RestrictedIds(t, u, o)
  <2>1. CASE Overridden(t, u, o)
    BY <2>1 DEF RestrictedIds, IdSources, Overridden
  <2>2. CASE ~Overridden(t, u, o)
    <3>1. \A r \in IdSources(n, u, o) : r \in IdSources(t, u, o)
      BY <2>2 DEF IdSources, Overridden, Unset
    <3>2. \A r \in IdSources(n, u, o) : n.ids[r][o] \subseteq t.ids[r][o]
      BY <2>2 DEF IdSources, Overridden
    <3> QED BY <3>1, <3>2 DEF RestrictedIds
  <2> QED BY <2>1, <2>2
<1>4. EffectiveScope(t, u, o) = "RESTRICTED" =>
         Access(n, u, o).ids \subseteq RestrictedIds(t, u, o)
  BY <1>3 DEF Access
<1> QED BY <1>2, <1>4 DEF NoWiderThan, Access

-----------------------------------------------------------------------------
(* What each change of the data does to access. *)

(* A new role has no holders (json.go:302-320). *)
LEMMA AddRoleKeepsAccess ==
    ASSUME NEW t, Good(t), NEW r \in Role \ t.roles, NEW u \in User, NEW o \in Operation
    PROVE  Access(AddRole(t, r), u, o) = Access(t, u, o)
<1> DEFINE n == AddRole(t, r)
<1>1. u # r /\ r \notin t.assigned[u] /\ t.assigned[u] \subseteq Role
  BY SubjectsApart DEF Good, TenantData
<1>2. /\ n.assigned[u] = t.assigned[u]
      /\ \A s \in Subject \ {r} : n.perm[s] = t.perm[s] /\ n.ids[s] = t.ids[s]
  BY DEF AddRole, Good, TenantData
<1>3. /\ n.perm[u][o] = t.perm[u][o] /\ n.ids[u][o] = t.ids[u][o]
      /\ \A x \in t.assigned[u] : n.perm[x][o] = t.perm[x][o] /\ n.ids[x][o] = t.ids[x][o]
  BY <1>1, <1>2 DEF Subject
<1> HIDE DEF n
<1> QED BY <1>2, <1>3, UntouchedAccess DEF n

(* A renamed role has the holders, scopes and ids it had (json.go:339-345). *)
LEMMA MoveRoleKeepsAccess ==
    ASSUME NEW t, Good(t), NEW a \in t.roles, NEW b \in Role \ t.roles,
           NEW u \in User, NEW o \in Operation
    PROVE  Access(MoveRole(t, a, b), u, o) = Access(t, u, o)
<1> DEFINE n == MoveRole(t, a, b)
<1>1. /\ a \in Role /\ u # a /\ u # b /\ a # b
      /\ t.assigned[u] \subseteq Role /\ b \notin t.assigned[u]
  BY SubjectsApart DEF Good, TenantData
<1>2. n.assigned[u] = IF a \in t.assigned[u]
                      THEN (t.assigned[u] \ {a}) \cup {b} ELSE t.assigned[u]
  BY DEF MoveRole, Good, TenantData
<1>3. /\ \A s \in Subject \ {a, b} : n.perm[s] = t.perm[s] /\ n.ids[s] = t.ids[s]
      /\ n.perm[b] = t.perm[a] /\ n.ids[b] = t.ids[a]
  BY <1>1 DEF MoveRole, Good, TenantData, Subject
<1>4. /\ n.perm[u][o] = t.perm[u][o] /\ n.ids[u][o] = t.ids[u][o]
      /\ \A x \in t.assigned[u] \ {a} : n.perm[x] = t.perm[x] /\ n.ids[x] = t.ids[x]
  BY <1>1, <1>3 DEF Subject
<1> HIDE DEF n
<1>5. CASE a \notin t.assigned[u]
  <2>1. n.assigned[u] = t.assigned[u]
    BY <1>2, <1>5
  <2> QED BY <1>4, <1>5, <2>1, UntouchedAccess DEF n
<1>6. CASE a \in t.assigned[u]
  <2>1. n.assigned[u] = (t.assigned[u] \ {a}) \cup {b}
    BY <1>2, <1>6
  <2>2. FromRoles(n, u, o) = FromRoles(t, u, o)
    BY <1>3, <1>4, <1>6, <2>1 DEF FromRoles
  <2>3. IdsFromRoles(n, u, o) = IdsFromRoles(t, u, o)
    BY <1>3, <1>4, <1>6, <2>1 DEF IdsFromRoles
  <2> QED BY <1>4, <2>2, <2>3, AccessIsSame DEF n
<1> QED BY <1>5, <1>6

(* What a deletion leaves of the data (json.go:355-358). *)
LEMMA DropRoleData ==
    ASSUME NEW t, Good(t), NEW r \in Role, NEW u \in User, NEW o \in Operation,
           NEW n, n = DropRole(t, r)
    PROVE  /\ n.assigned[u] = t.assigned[u] \ {r}
           /\ n.perm[u][o] = t.perm[u][o] /\ n.ids[u][o] = t.ids[u][o]
           /\ \A x \in t.assigned[u] \ {r} :
                 n.perm[x][o] = t.perm[x][o] /\ n.ids[x][o] = t.ids[x][o]
<1>1. u # r /\ t.assigned[u] \subseteq Role
  BY SubjectsApart DEF Good, TenantData
<1>2. \A s \in Subject \ {r} :
         DropRole(t, r).perm[s] = t.perm[s] /\ DropRole(t, r).ids[s] = t.ids[s]
  BY DEF DropRole, Good, TenantData
<1>3. DropRole(t, r).assigned[u] = t.assigned[u] \ {r}
  BY DEF DropRole, Good, TenantData
<1> QED BY <1>1, <1>2, <1>3 DEF Subject

(* The entry of subject s for operation o becomes g and i, the rest stays. *)
SetEntry(t, s, o, g, i) == [t EXCEPT !.perm[s][o] = g, !.ids[s][o] = i]

LEMMA SetEntryData ==
    ASSUME NEW t \in TenantData, NEW s \in Subject, NEW o \in Operation, NEW g, NEW i
    PROVE  LET n == SetEntry(t, s, o, g, i)
           IN  /\ n.roles = t.roles /\ n.assigned = t.assigned
               /\ n.perm[s][o] = g /\ n.ids[s][o] = i
               /\ \A x \in Subject, p \in Operation : x # s \/ p # o =>
                     n.perm[x][p] = t.perm[x][p] /\ n.ids[x][p] = t.ids[x][p]
BY DEF SetEntry, TenantData

(* The methods on permissions and ids all set one entry (json.go:416-577). *)
LEMMA EntriesSet ==
    ASSUME tenant \in TenantData, NEW out \in Outcome,
           NEW s \in Subject, NEW o \in Operation
    PROVE  /\ \A scope \in Scope : SetPermission(s, o, scope, out) =>
                 \/ UNCHANGED tenant
                 \/ tenant' = SetEntry(tenant, s, o, scope, tenant.ids[s][o])
           /\ RemovePermission(s, o, out) =>
                 \/ UNCHANGED tenant
                 \/ tenant' = SetEntry(tenant, s, o, Unset, {})
           /\ \A some \in SUBSET RecordId :
                 /\ AddRestrictedIDs(s, o, some, out) =>
                      \/ UNCHANGED tenant
                      \/ tenant' = SetEntry(tenant, s, o, tenant.perm[s][o],
                                            tenant.ids[s][o] \cup some)
                 /\ RemoveRestrictedIDs(s, o, some, out) =>
                      \/ UNCHANGED tenant
                      \/ tenant' = SetEntry(tenant, s, o, tenant.perm[s][o],
                                            tenant.ids[s][o] \ some)
<1>1. \A i : [tenant EXCEPT !.ids[s][o] = i] = SetEntry(tenant, s, o, tenant.perm[s][o], i)
  BY DEF SetEntry, TenantData
<1>2. \A g : [tenant EXCEPT !.perm[s][o] = g] = SetEntry(tenant, s, o, g, tenant.ids[s][o])
  BY DEF SetEntry, TenantData
<1>3. ASSUME NEW scope \in Scope, SetPermission(s, o, scope, out)
      PROVE  \/ UNCHANGED tenant
             \/ tenant' = SetEntry(tenant, s, o, scope, tenant.ids[s][o])
  BY <1>2, <1>3 DEF SetPermission, Saved, NotFound
<1>4. ASSUME RemovePermission(s, o, out)
      PROVE  UNCHANGED tenant \/ tenant' = SetEntry(tenant, s, o, Unset, {})
  BY <1>4 DEF RemovePermission, Saved, NotFound, SetEntry
<1>5. ASSUME NEW some \in SUBSET RecordId, AddRestrictedIDs(s, o, some, out)
      PROVE  \/ UNCHANGED tenant
             \/ tenant' = SetEntry(tenant, s, o, tenant.perm[s][o], tenant.ids[s][o] \cup some)
  BY <1>1, <1>5 DEF AddRestrictedIDs, Saved, NotFound
<1>6. ASSUME NEW some \in SUBSET RecordId, RemoveRestrictedIDs(s, o, some, out)
      PROVE  \/ UNCHANGED tenant
             \/ tenant' = SetEntry(tenant, s, o, tenant.perm[s][o], tenant.ids[s][o] \ some)
  BY <1>1, <1>6 DEF RemoveRestrictedIDs, Saved, NotFound
<1> QED BY <1>3, <1>4, <1>5, <1>6

-----------------------------------------------------------------------------
(* Renaming and creating roles. *)

LEMMA RenameOrCreateKeepsAccess ==
    ASSUME Inv, RenameOrCreate, NEW u \in User, NEW o \in Operation
    PROVE  AccessKept(u, o)
<1>1. Good(tenant)
  BY InvIsGood
<1>2. PICK r \in Role :
         \/ CreateRole(r, "saved")
         \/ EnsureRole(r, "saved")
         \/ \E b \in Role : RenameRole(r, b, "saved")
  BY DEF RenameOrCreate
<1>3. CASE CreateRole(r, "saved") \/ EnsureRole(r, "saved")
  <2>1. r \in Role \ tenant.roles /\ tenant' = AddRole(tenant, r)
    BY <1>3 DEF CreateRole, EnsureRole, Saved, Noop, Conflict
  <2> QED BY <1>1, <2>1, AddRoleKeepsAccess DEF AccessKept
<1>4. ASSUME NEW b \in Role, RenameRole(r, b, "saved")
      PROVE  AccessKept(u, o)
  <2>1. r \in tenant.roles /\ b \in Role \ tenant.roles /\ tenant' = MoveRole(tenant, r, b)
    BY <1>4 DEF RenameRole, Saved, NotFound, Conflict
  <2> QED BY <1>1, <2>1, MoveRoleKeepsAccess DEF AccessKept
<1> QED BY <1>2, <1>3, <1>4

(* No rename and no creation of a role changes what any user may do        *)
(* (json.go:302-347).                                                      *)
THEOREM RenameAndCreateAreNeutral == Spec => RenameAndCreateKeepAccess
<1>1. Inv => [RenameOrCreate =>
                \A u \in User, o \in Operation : AccessKept(u, o)]_tenant
  BY RenameOrCreateKeepsAccess
<1> QED BY <1>1, StoreInv, PTL DEF RenameAndCreateKeepAccess

-----------------------------------------------------------------------------
(* Revocation. *)

LEMMA RevocationIsNoWider ==
    ASSUME Inv, Inv', Revocation, NEW u \in User, NEW o \in Operation
    PROVE  NoWiderThan(Access(tenant', u, o), Access(tenant, u, o))
<1>1. Good(tenant) /\ tenant \in TenantData /\ tenant' \in TenantData
  BY InvIsGood DEF Good
<1>2. /\ u \in Subject /\ Role \subseteq Subject /\ u \notin Role
      /\ tenant.assigned[u] \subseteq Role
  BY <1>1, SubjectsApart DEF Subject, TenantData
<1>3. SUFFICES /\ tenant'.perm[u][o] = tenant.perm[u][o]
               /\ tenant'.ids[u][o] \subseteq tenant.ids[u][o]
               /\ tenant'.assigned[u] \subseteq tenant.assigned[u]
               /\ \A r \in tenant'.assigned[u] :
                     /\ tenant'.perm[r][o] \in {tenant.perm[r][o], Unset}
                     /\ tenant'.ids[r][o] \subseteq tenant.ids[r][o]
  BY <1>1, LessIsNoWider
<1>4. CASE UNCHANGED tenant
  BY <1>4
<1>5. ASSUME NEW r \in Role, DeleteRole(r, "saved")
      PROVE  <1>3!1
  <2>1. tenant' = DropRole(tenant, r)
    BY <1>5 DEF DeleteRole, Saved, NotFound
  <2> QED BY <1>1, <2>1, DropRoleData
<1>6. ASSUME NEW v \in User, NEW r \in Role, UnassignRole(v, r, "saved")
      PROVE  <1>3!1
  <2>1. tenant' = [tenant EXCEPT !.assigned[v] = @ \ {r}]
    BY <1>6 DEF UnassignRole, Saved, NotFound
  <2> QED BY <1>1, <2>1 DEF TenantData
<1>7. ASSUME NEW r \in Role, NEW p \in Operation, RemovePermission(r, p, "saved")
      PROVE  <1>3!1
  <2>1. UNCHANGED tenant \/ tenant' = SetEntry(tenant, r, p, Unset, {})
    BY <1>1, <1>2, <1>7, EntriesSet DEF Outcome
  <2>2. CASE tenant' = SetEntry(tenant, r, p, Unset, {})
    BY <1>1, <1>2, <2>2, SetEntryData
  <2> QED BY <1>4, <2>1, <2>2
<1>8. ASSUME NEW s \in Subject, NEW p \in Operation, NEW some \in SUBSET RecordId,
             RemoveRestrictedIDs(s, p, some, "saved")
      PROVE  <1>3!1
  <2>1. \/ UNCHANGED tenant
        \/ tenant' = SetEntry(tenant, s, p, tenant.perm[s][p], tenant.ids[s][p] \ some)
    BY <1>1, <1>8, EntriesSet DEF Outcome
  <2>2. CASE tenant' = SetEntry(tenant, s, p, tenant.perm[s][p], tenant.ids[s][p] \ some)
    <3>1. tenant'.assigned = tenant.assigned
      BY <1>1, <2>2, SetEntryData
    <3>2. \A x \in Subject : /\ tenant'.perm[x][o] = tenant.perm[x][o]
                             /\ tenant'.ids[x][o] \subseteq tenant.ids[x][o]
      BY <1>1, <2>2, SetEntryData
    <3> QED BY <1>1, <1>2, <3>1, <3>2
  <2> QED BY <1>4, <2>1, <2>2
<1> QED BY <1>5, <1>6, <1>7, <1>8 DEF Revocation

(* Deleting or unassigning a role, removing a role's permission and        *)
(* removing ids never widen anybody's access, for any number of roles to   *)
(* fall back on (authz.go:48-69).                                          *)
THEOREM RevocationIsSafe == Spec => RevocationNeverWidens
<1>1. Inv /\ Inv' => [Revocation =>
                        \A u \in User, o \in Operation :
                           NoWiderThan(Access(tenant', u, o), Access(tenant, u, o))]_tenant
  BY RevocationIsNoWider
<1> QED BY <1>1, StoreInv, PTL DEF RevocationNeverWidens

-----------------------------------------------------------------------------
(* Whom a call concerns. *)

LEMMA AssignmentIsTheUsers ==
    ASSUME Inv, NEW u \in User, NEW o \in Operation, NEW v \in User \ {u}, AssignmentCallFor(v)
    PROVE  AccessKept(u, o)
<1>1. Good(tenant) /\ tenant \in TenantData
  BY InvIsGood DEF Good
<1>2. PICK r \in Role : AssignRole(v, r, "saved") \/ UnassignRole(v, r, "saved")
  BY DEF AssignmentCallFor
<1>3. \/ tenant' = [tenant EXCEPT !.assigned[v] = @ \cup {r}]
      \/ tenant' = [tenant EXCEPT !.assigned[v] = @ \ {r}]
  BY <1>2 DEF AssignRole, UnassignRole, Saved, Noop, NotFound
<1>4. /\ tenant'.assigned[u] = tenant.assigned[u]
      /\ tenant'.perm = tenant.perm /\ tenant'.ids = tenant.ids
  BY <1>1, <1>3 DEF TenantData
<1> QED BY <1>4, UntouchedAccess DEF AccessKept

LEMMA DeletionIsTheHolders ==
    ASSUME Inv, NEW u \in User, NEW o \in Operation, NEW r \in Role,
           DeleteRole(r, "saved"), r \notin tenant.assigned[u]
    PROVE  AccessKept(u, o)
<1>1. Good(tenant)
  BY InvIsGood
<1>2. tenant' = DropRole(tenant, r)
  BY DEF DeleteRole, Saved, NotFound
<1>3. /\ tenant'.assigned[u] = tenant.assigned[u] \ {r}
      /\ tenant'.perm[u][o] = tenant.perm[u][o] /\ tenant'.ids[u][o] = tenant.ids[u][o]
      /\ \A x \in tenant.assigned[u] \ {r} :
            tenant'.perm[x][o] = tenant.perm[x][o] /\ tenant'.ids[x][o] = tenant.ids[x][o]
  BY <1>1, <1>2, DropRoleData
<1>4. tenant'.assigned[u] = tenant.assigned[u]
  BY <1>3
<1>5. \A x \in tenant.assigned[u] :
         tenant'.perm[x][o] = tenant.perm[x][o] /\ tenant'.ids[x][o] = tenant.ids[x][o]
  BY <1>3
<1>6. Access(tenant', u, o) = Access(tenant, u, o)
  BY <1>3, <1>4, <1>5, UntouchedAccess
<1> QED BY <1>6 DEF AccessKept

LEMMA PermissionIsTheSubjects ==
    ASSUME Inv, NEW u \in User, NEW o \in Operation, NEW s \in Subject, NEW p \in Operation,
           PermissionCallOn(s, p), ~(Concerns(s, u) /\ p = o)
    PROVE  AccessKept(u, o)
<1>1. Good(tenant) /\ tenant \in TenantData
  BY InvIsGood DEF Good
<1>2. u \in Subject /\ tenant.assigned[u] \subseteq Subject
  BY <1>1 DEF Subject, TenantData
<1>3. ASSUME NEW g, NEW i, tenant' = SetEntry(tenant, s, p, g, i)
      PROVE  AccessKept(u, o)
  <2>1. /\ tenant'.assigned[u] = tenant.assigned[u]
        /\ tenant'.perm[u][o] = tenant.perm[u][o] /\ tenant'.ids[u][o] = tenant.ids[u][o]
        /\ \A x \in tenant.assigned[u] : /\ tenant'.perm[x][o] = tenant.perm[x][o]
                                          /\ tenant'.ids[x][o] = tenant.ids[x][o]
    BY <1>1, <1>2, <1>3, SetEntryData DEF Concerns
  <2> QED BY <2>1, UntouchedAccess DEF AccessKept
<1>4. CASE UNCHANGED tenant
  BY <1>4 DEF AccessKept
<1>5. UNCHANGED tenant \/ \E g, i : tenant' = SetEntry(tenant, s, p, g, i)
  <2>1. ASSUME NEW scope \in Scope, SetPermission(s, p, scope, "saved")
        PROVE  <1>5
    BY <1>1, <2>1, EntriesSet DEF Outcome
  <2>2. CASE RemovePermission(s, p, "saved")
    BY <1>1, <2>2, EntriesSet DEF Outcome
  <2>3. ASSUME NEW some \in SUBSET RecordId, AddRestrictedIDs(s, p, some, "saved")
        PROVE  <1>5
    <3>1. \/ UNCHANGED tenant
          \/ tenant' = SetEntry(tenant, s, p, tenant.perm[s][p], tenant.ids[s][p] \cup some)
      BY <1>1, <2>3, EntriesSet DEF Outcome
    <3> QED BY <3>1
  <2>4. ASSUME NEW some \in SUBSET RecordId, RemoveRestrictedIDs(s, p, some, "saved")
        PROVE  <1>5
    <3>1. \/ UNCHANGED tenant
          \/ tenant' = SetEntry(tenant, s, p, tenant.perm[s][p], tenant.ids[s][p] \ some)
      BY <1>1, <2>4, EntriesSet DEF Outcome
    <3> QED BY <3>1
  <2> QED BY <2>1, <2>2, <2>3, <2>4 DEF PermissionCallOn
<1> QED BY <1>3, <1>4, <1>5

(* A call changes the access only of the user it names or of the holders   *)
(* of the role it names, and only to the operation it names                *)
(* (json.go:349-577).                                                      *)
THEOREM CallsAffectTheirTarget == Spec => OnlyTheTargetIsAffected
<1> DEFINE Local ==
      /\ \A v \in User :
            AssignmentCallFor(v) => \A u \in User \ {v}, o \in Operation : AccessKept(u, o)
      /\ \A r \in Role :
            DeleteRole(r, "saved") =>
               \A u \in User, o \in Operation : Concerns(r, u) \/ AccessKept(u, o)
      /\ \A s \in Subject, p \in Operation :
            PermissionCallOn(s, p) =>
               \A u \in User, o \in Operation :
                  (Concerns(s, u) /\ o = p) \/ AccessKept(u, o)
<1>1. Inv => Local
  <2> SUFFICES ASSUME Inv PROVE Local
    OBVIOUS
  <2>1. ASSUME NEW v \in User, AssignmentCallFor(v), NEW u \in User \ {v}, NEW o \in Operation
        PROVE  AccessKept(u, o)
    BY <2>1, AssignmentIsTheUsers
  <2>2. ASSUME NEW r \in Role, DeleteRole(r, "saved"), NEW u \in User, NEW o \in Operation
        PROVE  Concerns(r, u) \/ AccessKept(u, o)
    BY <2>2, DeletionIsTheHolders DEF Concerns
  <2>3. ASSUME NEW s \in Subject, NEW p \in Operation, PermissionCallOn(s, p),
               NEW u \in User, NEW o \in Operation
        PROVE  (Concerns(s, u) /\ o = p) \/ AccessKept(u, o)
    BY <2>3, PermissionIsTheSubjects
  <2> QED BY <2>1, <2>2, <2>3
<1>2. Inv => [Local]_tenant
  BY <1>1
<1> QED BY <1>2, StoreInv, PTL DEF OnlyTheTargetIsAffected
=============================================================================
