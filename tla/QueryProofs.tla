---------------------------- MODULE QueryProofs ----------------------------
(***************************************************************************)
(* What a permission query may answer while other handlers change the      *)
(* tenant, for all sets of roles, users, operations and record ids, any    *)
(* number of updates, and, where the answer is compared with the user's    *)
(* access, at most one update of any kind at any place between the reads.  *)
(***************************************************************************)
EXTENDS Query, TLAPS

(* What is proved of the tenant store. *)
Store == INSTANCE TenantStoreProofs

Good(t) ==
    /\ t \in TenantData
    /\ \A u \in User : t.assigned[u] \subseteq t.roles
    /\ \A r \in Role \ t.roles : t.perm[r] = NoPerms /\ t.ids[r] = NoIds

LEMMA SameValues ==
    /\ Store!EmptyTenant = EmptyTenant /\ Store!Unset = Unset /\ Store!Scope = Scope
    /\ Store!NoPerms = NoPerms /\ Store!NoIds = NoIds /\ Store!Grant = Grant
    /\ Store!Subject = Subject /\ Store!TenantData = TenantData
  BY DEF Store!EmptyTenant, EmptyTenant, Store!NoPerms, NoPerms, Store!NoIds, NoIds,
         Store!Unset, Unset, Store!Scope, Scope, Store!Grant, Grant,
         Store!Subject, Subject, Store!TenantData, TenantData

LEMMA SameAccess ==
    /\ \A S : Store!WidestScope(S) = WidestScope(S)
    /\ \A S, s : Store!IsWidest(s, S) <=> IsWidest(s, S)
    /\ \A t, u, o : Store!Access(t, u, o) = Access(t, u, o)
    /\ \A a, b : Store!NoWiderThan(a, b) <=> NoWiderThan(a, b)
<1>1. \A S : Store!WidestScope(S) = WidestScope(S)
  BY DEF Store!WidestScope, WidestScope, Store!IsWidest, IsWidest, Store!Width, Width,
         Store!Grant, Grant, Store!Scope, Scope, Store!Unset, Unset
<1>2. \A t, u, o : Store!EffectiveScope(t, u, o) = EffectiveScope(t, u, o)
  BY <1>1, SameValues
     DEF Store!EffectiveScope, EffectiveScope, Store!Overridden, Overridden,
         Store!RoleScope, RoleScope
<1>3. \A t, u, o : Store!RestrictedIds(t, u, o) = RestrictedIds(t, u, o)
  BY SameValues DEF Store!RestrictedIds, RestrictedIds, Store!IdSources, IdSources,
                    Store!Overridden, Overridden
<1>4. \A t, u, o : Store!Access(t, u, o) = Access(t, u, o)
  BY <1>2, <1>3 DEF Store!Access, Access
<1>5. \A a, b : Store!NoWiderThan(a, b) <=> NoWiderThan(a, b)
  BY DEF Store!NoWiderThan, NoWiderThan, Store!Width, Width, Store!Grant, Grant,
         Store!Scope, Scope, Store!Unset, Unset
<1>6. \A S, s : Store!IsWidest(s, S) <=> IsWidest(s, S)
  BY DEF Store!IsWidest, IsWidest, Store!Width, Width,
         Store!Grant, Grant, Store!Scope, Scope, Store!Unset, Unset
<1> QED BY <1>1, <1>4, <1>5, <1>6

LEMMA SameGood == \A t : Store!Good(t) <=> Good(t)
  BY SameValues DEF Store!Good, Good

-----------------------------------------------------------------------------
(* Access *)

LEMMA NothingSet ==
    NoPerms \in [Operation -> Grant] /\ NoIds \in [Operation -> SUBSET RecordId]
  BY DEF NoPerms, NoIds, Grant

LEMMA SubIs == Sub \in User /\ Sub \in Subject /\ Sub \notin Role /\ Role \subseteq Subject
  BY SubIsUser, SubjectsApart DEF Subject

LEMMA AccessTyped ==
    ASSUME NEW t \in TenantData, NEW o \in Operation
    PROVE  /\ EffectiveScope(t, Sub, o) \in Grant
           /\ IdSources(t, Sub, o) \subseteq Subject
           /\ t.perm[Sub][o] = Unset => IdSources(t, Sub, o) \subseteq t.assigned[Sub]
           /\ t.perm[Sub][o] # Unset => IdSources(t, Sub, o) = {Sub}
           /\ Access(t, Sub, o) \in AccessType
<1>1. t.assigned[Sub] \subseteq Role /\ t.perm[Sub][o] \in Grant
  BY SubIs DEF TenantData
<1>2. {t.perm[r][o] : r \in t.assigned[Sub]} \in SUBSET Grant
  BY <1>1, SubIs DEF TenantData
<1>3. RoleScope(t, Sub, o) \in Grant
  <2>1. \A S \in SUBSET Grant : WidestScope(S) \in Grant
    BY SameValues, SameAccess, SubjectsApart, Store!WidestExists
  <2> QED BY <1>2, <2>1 DEF RoleScope
<1>4. EffectiveScope(t, Sub, o) \in Grant
  BY <1>1, <1>3 DEF EffectiveScope
<1>5. /\ IdSources(t, Sub, o) \subseteq Subject
      /\ t.perm[Sub][o] = Unset => IdSources(t, Sub, o) \subseteq t.assigned[Sub]
      /\ t.perm[Sub][o] # Unset => IdSources(t, Sub, o) = {Sub}
  BY <1>1, SubIs DEF IdSources, Overridden
<1>6. RestrictedIds(t, Sub, o) \in SUBSET RecordId
  <2>1. \A s \in Subject : t.ids[s][o] \subseteq RecordId
    BY DEF TenantData
  <2> QED BY <1>5, <2>1 DEF RestrictedIds
<1> QED BY <1>4, <1>5, <1>6 DEF Access, AccessType

(* The scope depends on the user's own entry, the roles and their scopes. *)
LEMMA SameScope ==
    ASSUME NEW a, NEW b, NEW o \in Operation,
           a.perm[Sub][o] = b.perm[Sub][o], a.assigned[Sub] = b.assigned[Sub],
           \A r \in a.assigned[Sub] : a.perm[r][o] = b.perm[r][o]
    PROVE  /\ EffectiveScope(a, Sub, o) = EffectiveScope(b, Sub, o)
           /\ IdSources(a, Sub, o) = IdSources(b, Sub, o)
<1>1. {a.perm[r][o] : r \in a.assigned[Sub]} = {b.perm[r][o] : r \in b.assigned[Sub]}
  OBVIOUS
<1>2. {r \in a.assigned[Sub] : a.perm[r][o] = "RESTRICTED"}
        = {r \in b.assigned[Sub] : b.perm[r][o] = "RESTRICTED"}
  OBVIOUS
<1> QED BY <1>1, <1>2 DEF EffectiveScope, Overridden, RoleScope, IdSources

(* Less of the data is no wider access. *)
LEMMA LessIsNoWider ==
    ASSUME NEW t \in TenantData, NEW n \in TenantData, NEW o \in Operation,
           n.perm[Sub][o] = t.perm[Sub][o], n.ids[Sub][o] \subseteq t.ids[Sub][o],
           n.assigned[Sub] \subseteq t.assigned[Sub],
           \A r \in n.assigned[Sub] : n.perm[r] = t.perm[r] /\ n.ids[r][o] \subseteq t.ids[r][o]
    PROVE  NoWiderThan(Access(n, Sub, o), Access(t, Sub, o))
<1>1. \A r \in n.assigned[Sub] : n.perm[r][o] \in {t.perm[r][o], Unset}
  OBVIOUS
<1> QED BY <1>1, SubIs, SubjectsApart, SameValues, SameAccess, Store!LessIsNoWider

-----------------------------------------------------------------------------
(* What one update, of any kind, leaves of what a query reads about Sub.   *)

(* The roles changed, and perhaps who holds them: Sub's own entries and    *)
(* those of the roles it held that still exist are what they were.  Either *)
(* all those roles exist, or those that do are held still.                 *)
Kept(t, n) ==
    /\ n.perm[Sub] = t.perm[Sub] /\ n.ids[Sub] = t.ids[Sub]
    /\ \A r \in t.assigned[Sub] \cap n.roles : n.perm[r] = t.perm[r] /\ n.ids[r] = t.ids[r]

RolesRenamed(t, n) == Kept(t, n) /\ t.assigned[Sub] \cap n.roles \subseteq n.assigned[Sub]

RolesChanged(t, n) ==
    /\ Kept(t, n)
    /\ t.assigned[Sub] \subseteq n.roles \/ t.assigned[Sub] \cap n.roles = n.assigned[Sub]

(* One entry changed: a scope, its ids, or the removal of both. *)
EntryChanged(t, n) ==
    /\ n.roles = t.roles /\ n.assigned = t.assigned
    /\ \/ n.perm = t.perm
       \/ \A s \in Subject, o \in Operation : n.ids[s][o] \subseteq t.ids[s][o]
    /\ \/ n.perm[Sub] = t.perm[Sub]
       \/ \A r \in Role : n.perm[r] = t.perm[r] /\ n.ids[r] = t.ids[r]

Changed(t, n, rename) ==
    \/ EntryChanged(t, n) \/ RolesChanged(t, n)
    \/ rename /\ RolesRenamed(t, n)

LEMMA NothingChanged ==
    ASSUME NEW t
    PROVE  Changed(t, t, FALSE)
  BY DEF Changed, RolesChanged, EntryChanged

(* The methods on roles (json.go:302-360). *)
LEMMA RoleCallChanges ==
    ASSUME Good(tenant), Tenant!RoleCall("saved")
    PROVE  \/ RolesChanged(tenant, tenant')
           \/ Renaming /\ RolesRenamed(tenant, tenant')
<1>1. tenant \in TenantData /\ tenant.assigned[Sub] \subseteq tenant.roles
  BY SubIs DEF Good
<1>2. PICK r \in Role :
         \/ Tenant!CreateRole(r, "saved") \/ Tenant!EnsureRole(r, "saved")
         \/ Tenant!DeleteRole(r, "saved")
         \/ \E b \in Role : Tenant!RenameRole(r, b, "saved")
  BY DEF Tenant!RoleCall
<1>3. CASE Tenant!CreateRole(r, "saved") \/ Tenant!EnsureRole(r, "saved")
  <2>1. r \notin tenant.roles /\ tenant' = Tenant!AddRole(tenant, r)
    BY <1>3 DEF Tenant!CreateRole, Tenant!EnsureRole, Tenant!Saved, Tenant!Noop, Tenant!Conflict
  <2>2. /\ tenant'.assigned = tenant.assigned /\ tenant.roles \subseteq tenant'.roles
        /\ \A s \in Subject \ {r} : tenant'.perm[s] = tenant.perm[s] /\ tenant'.ids[s] = tenant.ids[s]
    BY <1>1, <2>1 DEF Tenant!AddRole, TenantData
  <2>3. \A s \in tenant.assigned[Sub] \cup {Sub} : s \in Subject \ {r}
    BY <1>1, <2>1, SubIs DEF TenantData
  <2> QED BY <1>1, <2>2, <2>3 DEF RolesChanged, Kept
<1>4. CASE Tenant!DeleteRole(r, "saved")
  <2>1. tenant' = Tenant!DropRole(tenant, r)
    BY <1>4 DEF Tenant!DeleteRole, Tenant!Saved, Tenant!NotFound
  <2>2. /\ tenant'.assigned[Sub] = tenant.assigned[Sub] \ {r} /\ tenant'.roles = tenant.roles \ {r}
        /\ \A s \in Subject \ {r} : tenant'.perm[s] = tenant.perm[s] /\ tenant'.ids[s] = tenant.ids[s]
    BY <1>1, <2>1, SubIs DEF Tenant!DropRole, TenantData
  <2>3. \A s \in (tenant.assigned[Sub] \ {r}) \cup {Sub} : s \in Subject \ {r}
    BY <1>1, SubIs DEF TenantData
  <2> QED BY <1>1, <2>2, <2>3 DEF RolesChanged, Kept
<1>5. ASSUME NEW b \in Role, Tenant!RenameRole(r, b, "saved")
      PROVE  Renaming /\ RolesRenamed(tenant, tenant')
  <2>1. b \notin tenant.roles /\ tenant' = Tenant!MoveRole(tenant, r, b)
    BY <1>5 DEF Tenant!RenameRole, Tenant!Saved, Tenant!NotFound, Tenant!Conflict
  <2>2. /\ tenant.assigned[Sub] \ {r} \subseteq tenant'.assigned[Sub]
        /\ tenant'.roles = (tenant.roles \ {r}) \cup {b}
        /\ \A s \in Subject \ {r, b} :
              tenant'.perm[s] = tenant.perm[s] /\ tenant'.ids[s] = tenant.ids[s]
    BY <1>1, <2>1, SubIs DEF Tenant!MoveRole, TenantData
  <2>3. \A s \in (tenant.assigned[Sub] \ {r}) \cup {Sub} : s \in Subject \ {r, b}
    BY <1>1, <2>1, SubIs DEF TenantData
  <2>4. tenant.assigned[Sub] \cap tenant'.roles \subseteq tenant.assigned[Sub] \ {r}
    BY <1>1, <2>1, <2>2
  <2>5. RolesRenamed(tenant, tenant')
    BY <2>2, <2>3, <2>4 DEF RolesRenamed, Kept
  <2> QED BY <1>5, <2>5 DEF Renaming
<1> QED BY <1>2, <1>3, <1>4, <1>5

(* The methods on assignments (json.go:367-405). *)
LEMMA AssignmentCallChanges ==
    ASSUME Good(tenant), Tenant!AssignmentCall("saved")
    PROVE  RolesChanged(tenant, tenant')
<1>1. tenant \in TenantData /\ tenant.assigned[Sub] \subseteq tenant.roles
  BY SubIs DEF Good
<1>2. /\ tenant'.roles = tenant.roles /\ tenant'.perm = tenant.perm /\ tenant'.ids = tenant.ids
  BY <1>1 DEF Tenant!AssignmentCall, Tenant!AssignRole, Tenant!UnassignRole,
              Tenant!Saved, Tenant!Noop, Tenant!NotFound, TenantData
<1> QED BY <1>1, <1>2 DEF RolesChanged, Kept

(* The methods on permissions and ids (json.go:416-577). *)
LEMMA PermissionCallChanges ==
    ASSUME Good(tenant), Tenant!PermissionCall("saved")
    PROVE  EntryChanged(tenant, tenant')
<1>1. tenant \in TenantData
  BY DEF Good
<1>2. PICK s \in Subject, o \in Operation :
         \/ \E scope \in Scope : Tenant!SetPermission(s, o, scope, "saved")
         \/ Tenant!RemovePermission(s, o, "saved")
         \/ \E some \in SUBSET RecordId :
               \/ Tenant!AddRestrictedIDs(s, o, some, "saved")
               \/ Tenant!RemoveRestrictedIDs(s, o, some, "saved")
  BY DEF Tenant!PermissionCall, Tenant!Subject, Subject, Tenant!Scope, Scope
<1>3. /\ tenant'.roles = tenant.roles /\ tenant'.assigned = tenant.assigned
      /\ \A x \in Subject \ {s} : tenant'.perm[x] = tenant.perm[x] /\ tenant'.ids[x] = tenant.ids[x]
  <2>1. CASE \E scope \in Scope : Tenant!SetPermission(s, o, scope, "saved")
    <3>1. PICK scope \in Scope : tenant' = [tenant EXCEPT !.perm[s][o] = scope]
      BY <2>1 DEF Tenant!SetPermission, Tenant!Saved, Tenant!NotFound
    <3> QED BY <1>1, <3>1 DEF TenantData
  <2>2. CASE Tenant!RemovePermission(s, o, "saved")
    <3>1. tenant' = [tenant EXCEPT !.perm[s][o] = Tenant!Unset, !.ids[s][o] = {}]
      BY <2>2 DEF Tenant!RemovePermission, Tenant!Saved, Tenant!NotFound
    <3> QED BY <1>1, <3>1 DEF TenantData
  <2>3. CASE \E some \in SUBSET RecordId :
               \/ Tenant!AddRestrictedIDs(s, o, some, "saved")
               \/ Tenant!RemoveRestrictedIDs(s, o, some, "saved")
    <3>1. PICK some \in SUBSET RecordId :
             \/ tenant' = [tenant EXCEPT !.ids[s][o] = @ \cup some]
             \/ tenant' = [tenant EXCEPT !.ids[s][o] = @ \ some]
      BY <2>3 DEF Tenant!AddRestrictedIDs, Tenant!RemoveRestrictedIDs,
                  Tenant!Saved, Tenant!NotFound
    <3> QED BY <1>1, <3>1 DEF TenantData
  <2> QED BY <1>2, <2>1, <2>2, <2>3
<1>4. \/ tenant'.perm = tenant.perm
      \/ \A x \in Subject, p \in Operation : tenant'.ids[x][p] \subseteq tenant.ids[x][p]
  <2>1. CASE \E scope \in Scope : Tenant!SetPermission(s, o, scope, "saved")
    BY <1>1, <2>1 DEF Tenant!SetPermission, Tenant!Saved, Tenant!NotFound, TenantData
  <2>2. CASE Tenant!RemovePermission(s, o, "saved")
    <3>1. tenant'.ids = [tenant.ids EXCEPT ![s][o] = {}]
      BY <1>1, <2>2 DEF Tenant!RemovePermission, Tenant!Saved, Tenant!NotFound, TenantData
    <3> QED BY <1>1, <3>1 DEF TenantData
  <2>3. CASE \E some \in SUBSET RecordId :
               \/ Tenant!AddRestrictedIDs(s, o, some, "saved")
               \/ Tenant!RemoveRestrictedIDs(s, o, some, "saved")
    BY <1>1, <2>3 DEF Tenant!AddRestrictedIDs, Tenant!RemoveRestrictedIDs,
                      Tenant!Saved, Tenant!NotFound, TenantData
  <2> QED BY <1>2, <2>1, <2>2, <2>3
<1>5. CASE s = Sub
  <2>1. \A r \in Role : r \in Subject \ {s}
    BY <1>5, SubIs
  <2> QED BY <1>3, <1>4, <2>1 DEF EntryChanged
<1>6. CASE s # Sub
  BY <1>3, <1>4, <1>6, SubIs DEF EntryChanged
<1> QED BY <1>5, <1>6

LEMMA UpdateChanges ==
    ASSUME Good(tenant), Tenant!Call("saved")
    PROVE  Changed(tenant, tenant', Renaming)
  BY RoleCallChanges, AssignmentCallChanges, PermissionCallChanges
     DEF Tenant!Call, Changed

-----------------------------------------------------------------------------
(* Reads made on both sides of an update from t to n: Sub's permissions    *)
(* were read before it, its grants after it, its roles (R) before or after. *)

Mixed(t, n, R) ==
    [n EXCEPT !.perm[Sub] = t.perm[Sub], !.assigned[Sub] = R \cap n.roles]

LEMMA MixedIs ==
    ASSUME NEW t, NEW n, Good(t), Good(n), NEW R \in {t.assigned[Sub], n.assigned[Sub]}
    PROVE  /\ Mixed(t, n, R) \in TenantData
           /\ Mixed(t, n, R).perm[Sub] = t.perm[Sub]
           /\ Mixed(t, n, R).assigned[Sub] = R \cap n.roles
           /\ \A r \in Role : Mixed(t, n, R).perm[r] = n.perm[r]
           /\ Mixed(t, n, R).ids = n.ids /\ Mixed(t, n, R).roles = n.roles
           /\ R \subseteq Role /\ t.assigned[Sub] \subseteq t.roles
           /\ n.assigned[Sub] \cap n.roles = n.assigned[Sub]
  BY SubIs DEF Mixed, Good, TenantData

(* Without an update nothing is mixed. *)
LEMMA NothingMixed ==
    ASSUME NEW t, Good(t)
    PROVE  Mixed(t, t, t.assigned[Sub]) = t
<1>1. t \in TenantData /\ t.assigned[Sub] \cap t.roles = t.assigned[Sub]
  BY SubIs DEF Good
<1> QED BY <1>1, SubIs DEF Mixed, TenantData

(* What was mixed grants no more than the data on one side of the update.  *)
LEMMA MixedIsNoWider ==
    ASSUME NEW t, NEW n, Good(t), Good(n), NEW R \in {t.assigned[Sub], n.assigned[Sub]},
           Changed(t, n, TRUE), NEW o \in Operation
    PROVE  \E d \in {t, n} : NoWiderThan(Access(Mixed(t, n, R), Sub, o), Access(d, Sub, o))
<1> DEFINE m == Mixed(t, n, R)
<1>1. /\ m \in TenantData /\ t \in TenantData /\ n \in TenantData
      /\ m.perm[Sub] = t.perm[Sub] /\ m.assigned[Sub] = R \cap n.roles
      /\ \A r \in Role : m.perm[r] = n.perm[r]
      /\ m.ids = n.ids /\ R \subseteq Role /\ t.assigned[Sub] \subseteq t.roles
      /\ n.assigned[Sub] \cap n.roles = n.assigned[Sub]
  BY MixedIs DEF Good
<1> HIDE DEF m
<1> SUFFICES \E d \in {t, n} : NoWiderThan(Access(m, Sub, o), Access(d, Sub, o))
  BY DEF m
<1>2. ASSUME n.perm[Sub] = t.perm[Sub], R \cap n.roles \subseteq n.assigned[Sub]
      PROVE  NoWiderThan(Access(m, Sub, o), Access(n, Sub, o))
  BY <1>1, <1>2, LessIsNoWider
<1>3. ASSUME R \cap n.roles \subseteq t.assigned[Sub],
             n.ids[Sub][o] \subseteq t.ids[Sub][o],
             \A r \in R \cap n.roles : n.perm[r] = t.perm[r] /\ n.ids[r][o] \subseteq t.ids[r][o]
      PROVE  NoWiderThan(Access(m, Sub, o), Access(t, Sub, o))
  BY <1>1, <1>3, LessIsNoWider
<1>4. CASE Kept(t, n) /\ (R = n.assigned[Sub] \/ RolesRenamed(t, n))
  BY <1>1, <1>2, <1>4 DEF Kept, RolesRenamed
<1>5. CASE RolesChanged(t, n) /\ R = t.assigned[Sub]
  <2>1. CASE t.assigned[Sub] \subseteq n.roles
    BY <1>3, <1>5, <2>1 DEF RolesChanged, Kept
  <2>2. CASE t.assigned[Sub] \cap n.roles = n.assigned[Sub]
    BY <1>2, <1>5, <2>2 DEF RolesChanged, Kept
  <2> QED BY <1>5, <2>1, <2>2 DEF RolesChanged
<1>6. CASE EntryChanged(t, n)
  <2>1. R = t.assigned[Sub] /\ R = n.assigned[Sub] /\ R \cap n.roles = R
    BY <1>1, <1>6 DEF EntryChanged
  <2>2. CASE n.perm[Sub] = t.perm[Sub]
    BY <1>2, <2>1, <2>2
  <2>3. CASE /\ \A s \in Subject, p \in Operation : n.ids[s][p] \subseteq t.ids[s][p]
             /\ \A r \in Role : n.perm[r] = t.perm[r] /\ n.ids[r] = t.ids[r]
    BY <1>1, <1>3, <2>1, <2>3, SubIs
  <2> QED BY <1>6, <2>2, <2>3 DEF EntryChanged
<1> QED BY <1>4, <1>5, <1>6 DEF Changed, RolesChanged, RolesRenamed

(* Its scope is the one on one side of the update, unless that renamed.    *)
LEMMA MixedScope ==
    ASSUME NEW t, NEW n, Good(t), Good(n), NEW R \in {t.assigned[Sub], n.assigned[Sub]},
           EntryChanged(t, n) \/ RolesChanged(t, n), NEW o \in Operation
    PROVE  \E d \in {t, n} : EffectiveScope(Mixed(t, n, R), Sub, o) = EffectiveScope(d, Sub, o)
<1> DEFINE m == Mixed(t, n, R)
<1>1. /\ m.perm[Sub] = t.perm[Sub] /\ m.assigned[Sub] = R \cap n.roles
      /\ \A r \in Role : m.perm[r] = n.perm[r]
      /\ R \subseteq Role /\ t.assigned[Sub] \subseteq t.roles
      /\ n.assigned[Sub] \cap n.roles = n.assigned[Sub]
  BY MixedIs
<1> HIDE DEF m
<1> SUFFICES \E d \in {t, n} : EffectiveScope(m, Sub, o) = EffectiveScope(d, Sub, o)
  BY DEF m
<1>2. ASSUME n.perm[Sub] = t.perm[Sub], R \cap n.roles = n.assigned[Sub]
      PROVE  EffectiveScope(m, Sub, o) = EffectiveScope(n, Sub, o)
  <2>1. /\ m.perm[Sub][o] = n.perm[Sub][o] /\ m.assigned[Sub] = n.assigned[Sub]
        /\ \A r \in m.assigned[Sub] : m.perm[r][o] = n.perm[r][o]
    BY <1>1, <1>2
  <2> QED BY <2>1, SameScope
<1>3. ASSUME R \cap n.roles = t.assigned[Sub], \A r \in R \cap n.roles : n.perm[r] = t.perm[r]
      PROVE  EffectiveScope(m, Sub, o) = EffectiveScope(t, Sub, o)
  <2>1. /\ m.perm[Sub][o] = t.perm[Sub][o] /\ m.assigned[Sub] = t.assigned[Sub]
        /\ \A r \in m.assigned[Sub] : m.perm[r][o] = t.perm[r][o]
    BY <1>1, <1>3
  <2> QED BY <2>1, SameScope
<1>4. CASE RolesChanged(t, n)
  BY <1>1, <1>2, <1>3, <1>4 DEF RolesChanged, Kept
<1>5. CASE EntryChanged(t, n)
  BY <1>1, <1>2, <1>3, <1>5 DEF EntryChanged
<1> QED BY <1>4, <1>5

(* The ids that RecordIDs reads of the sources S. *)
IdsRead(d, S, o) == UNION {d.ids[s][o] : s \in S \cap (User \cup d.roles)}

LEMMA IdsReadAtOnce ==
    ASSUME NEW d \in TenantData, d.assigned[Sub] \subseteq d.roles, NEW o \in Operation
    PROVE  IdsRead(d, IdSources(d, Sub, o), o) = RestrictedIds(d, Sub, o)
<1>1. IdSources(d, Sub, o) \cap (User \cup d.roles) = IdSources(d, Sub, o)
  BY SubIs DEF IdSources
<1> QED BY <1>1 DEF IdsRead, RestrictedIds

(* A query that resolved before the update and reads its ids after it.     *)
LEMMA LateIds ==
    ASSUME NEW t, NEW n, Good(t), Good(n), Changed(t, n, TRUE), NEW o \in Operation
    PROVE  LET late == IdsRead(n, IdSources(t, Sub, o), o)
           IN  \/ late \subseteq RestrictedIds(t, Sub, o)
               \/ /\ late = RestrictedIds(n, Sub, o)
                  /\ EffectiveScope(n, Sub, o) = EffectiveScope(t, Sub, o)
<1> DEFINE late == IdsRead(n, IdSources(t, Sub, o), o)
<1>1. /\ t \in TenantData /\ n \in TenantData /\ t.assigned[Sub] \subseteq Role
      /\ n.assigned[Sub] \subseteq n.roles
  BY SubIs DEF Good, TenantData
<1>2. /\ IdSources(t, Sub, o) \subseteq t.assigned[Sub] \cup {Sub}
      /\ \A r \in t.assigned[Sub] : r \notin User
  BY <1>1, SubjectsApart DEF IdSources
<1>3. ASSUME \A s \in IdSources(t, Sub, o) \cap (User \cup n.roles) : n.ids[s][o] \subseteq t.ids[s][o]
      PROVE  late \subseteq RestrictedIds(t, Sub, o)
  BY <1>3 DEF IdsRead, RestrictedIds
<1>4. CASE Kept(t, n)
  BY <1>2, <1>3, <1>4 DEF Kept
<1>5. CASE EntryChanged(t, n)
  <2>1. CASE \A s \in Subject, p \in Operation : n.ids[s][p] \subseteq t.ids[s][p]
    BY <1>1, <1>2, <1>3, <2>1, SubIs
  <2>2. CASE n.perm = t.perm
    <3>1. /\ EffectiveScope(n, Sub, o) = EffectiveScope(t, Sub, o)
          /\ IdSources(n, Sub, o) = IdSources(t, Sub, o)
      BY <1>5, <2>2, SameScope DEF EntryChanged
    <3> QED BY <1>1, <3>1, IdsReadAtOnce
  <2> QED BY <1>5, <2>1, <2>2 DEF EntryChanged
<1> QED BY <1>4, <1>5 DEF Changed, RolesChanged, RolesRenamed

-----------------------------------------------------------------------------
(* The other handlers' calls keep the tenant well formed (TenantStore).    *)
LEMMA SameCalls ==
    ASSUME NEW out
    PROVE  /\ Tenant!RoleCall(out) <=> Store!RoleCall(out)
           /\ Tenant!AssignmentCall(out) <=> Store!AssignmentCall(out)
           /\ Tenant!PermissionCall(out) <=> Store!PermissionCall(out)
<1>1. Tenant!RoleCall(out) <=> Store!RoleCall(out)
  BY DEF Tenant!RoleCall, Tenant!CreateRole, Tenant!EnsureRole, Tenant!DeleteRole,
         Tenant!RenameRole, Tenant!AddRole, Tenant!DropRole, Tenant!MoveRole,
         Tenant!Saved, Tenant!Noop, Tenant!NotFound, Tenant!Conflict, Tenant!NoPerms, Tenant!NoIds, Tenant!Unset,
         Store!RoleCall, Store!CreateRole, Store!EnsureRole, Store!DeleteRole,
         Store!RenameRole, Store!AddRole, Store!DropRole, Store!MoveRole,
         Store!Saved, Store!Noop, Store!NotFound, Store!Conflict, Store!NoPerms, Store!NoIds, Store!Unset
<1>2. Tenant!AssignmentCall(out) <=> Store!AssignmentCall(out)
  BY DEF Tenant!AssignmentCall, Tenant!AssignRole, Tenant!UnassignRole,
         Tenant!Saved, Tenant!Noop, Tenant!NotFound, Tenant!Conflict,
         Store!AssignmentCall, Store!AssignRole, Store!UnassignRole,
         Store!Saved, Store!Noop, Store!NotFound, Store!Conflict
<1>3. Tenant!PermissionCall(out) <=> Store!PermissionCall(out)
  BY DEF Tenant!PermissionCall, Tenant!SetPermission, Tenant!RemovePermission,
         Tenant!AddRestrictedIDs, Tenant!RemoveRestrictedIDs, Tenant!Known,
         Tenant!Saved, Tenant!Noop, Tenant!NotFound, Tenant!Conflict, Tenant!Subject, Tenant!Scope, Tenant!Unset,
         Store!PermissionCall, Store!SetPermission, Store!RemovePermission,
         Store!AddRestrictedIDs, Store!RemoveRestrictedIDs, Store!Known,
         Store!Saved, Store!Noop, Store!NotFound, Store!Conflict, Store!Subject, Store!Scope, Store!Unset
<1> QED BY <1>1, <1>2, <1>3

LEMMA CallKeepsGood ==
    ASSUME Good(tenant), NEW out \in Tenant!Outcome, Tenant!Call(out)
    PROVE  Good(tenant')
<1>1. Store!Inv /\ out \in Store!Outcome
  BY SameGood, SubjectsApart, Store!InvIsGood DEF Tenant!Outcome, Store!Outcome
<1>2. Store!Inv'
  BY <1>1, SameCalls, SubjectsApart, Store!RoleCallInv, Store!AssignmentCallInv, Store!PermissionCallInv
     DEF Tenant!Call
<1> QED BY <1>2, SameGood, SubjectsApart, Store!InvIsGood

-----------------------------------------------------------------------------
(* What holds of a query however many updates fall into it.                *)

AnswerIsSound ==
    \A o \in Operation :
        /\ query.answer[o].ids # {} => query.answer[o].scope = "RESTRICTED"
        /\ o \in query.todo => query.answer[o].scope = "RESTRICTED"
        /\ query.perms[o] = Unset => query.sources[o] \subseteq query.roles
        /\ query.perms[o] # Unset => query.sources[o] \subseteq {Sub}

Sane ==
    /\ Good(tenant)
    /\ query \in QueryState
    /\ seen \in [Operation -> SUBSET AccessType]
    /\ updates \in 0..MaxUpdates
    /\ renamed \in BOOLEAN /\ onlyTook \in BOOLEAN /\ onlyGave \in BOOLEAN
    /\ query.at = "idle" => query = Idle /\ updates = 0 /\ renamed = FALSE
    /\ query.at = "roles" => query.roles = {}
    /\ query.at = "ids" => AnswerIsSound

LEMMA SaneIsInv == Sane => Inv
  BY DEF Sane, AnswerIsSound, Inv, TypeOK, Good

LEMMA IdleTyped == Idle \in QueryState /\ Idle.at = "idle" /\ Idle.roles = {}
  BY NothingSet DEF Idle, QueryState, NoAnswer, AccessType, Grant, NoIds

LEMMA BelievedTyped ==
    ASSUME Sane
    PROVE  /\ Believed \in TenantData
           /\ Believed.perm[Sub] = query.perms
           /\ Believed.assigned[Sub] \subseteq query.roles
<1>1. tenant \in TenantData /\ query.perms \in [Operation -> Grant] /\ query.roles \subseteq Role
  BY DEF Sane, Good, QueryState
<1> QED BY <1>1, SubIs DEF Believed, TenantData

(* The query after the resolution of d (authz.go:25-87).                   *)
LEMMA Resolved ==
    ASSUME NEW d \in TenantData, query \in QueryState, query' = Resolve(query, d)
    PROVE  /\ query' \in QueryState /\ query'.at = "ids"
           /\ query'.perms = query.perms /\ query'.roles = query.roles
           /\ \A o \in Operation :
                 /\ query'.answer[o] = [scope |-> EffectiveScope(d, Sub, o), ids |-> {}]
                 /\ o \in query'.todo <=> EffectiveScope(d, Sub, o) = "RESTRICTED"
                 /\ query'.sources[o] = IF EffectiveScope(d, Sub, o) = "RESTRICTED"
                                        THEN IdSources(d, Sub, o) ELSE {}
<1> DEFINE restricted == {o \in Operation : EffectiveScope(d, Sub, o) = "RESTRICTED"}
<1>1. query' = [query EXCEPT
                  !.at = "ids",
                  !.todo = restricted,
                  !.sources = [o \in Operation |-> IF o \in restricted
                                                   THEN IdSources(d, Sub, o) ELSE {}],
                  !.answer = [o \in Operation |->
                                 [scope |-> EffectiveScope(d, Sub, o), ids |-> {}]]]
  <2>1. \A o \in Operation :
           o \in restricted <=> [p \in Operation |-> EffectiveScope(d, Sub, p)][o] = "RESTRICTED"
    OBVIOUS
  <2>2. restricted = {o \in Operation :
                         [p \in Operation |-> EffectiveScope(d, Sub, p)][o] = "RESTRICTED"}
    OBVIOUS
  <2>3. [o \in Operation |-> [scope |-> EffectiveScope(d, Sub, o), ids |-> {}]]
          = [o \in Operation |->
               [scope |-> [p \in Operation |-> EffectiveScope(d, Sub, p)][o], ids |-> {}]]
    OBVIOUS
  <2> QED BY <2>2, <2>3 DEF Resolve
<1>2. restricted \subseteq Operation
  OBVIOUS
<1>3. \A o \in Operation :
         (o \in restricted <=> EffectiveScope(d, Sub, o) = "RESTRICTED")
  OBVIOUS
<1>4. \A o \in Operation :
         EffectiveScope(d, Sub, o) \in Grant /\ IdSources(d, Sub, o) \in SUBSET Subject
  BY AccessTyped
<1> HIDE DEF restricted
<1> DEFINE sources == [o \in Operation |-> IF o \in restricted
                                          THEN IdSources(d, Sub, o) ELSE {}]
           answer == [o \in Operation |-> [scope |-> EffectiveScope(d, Sub, o), ids |-> {}]]
<1>5. sources \in [Operation -> SUBSET Subject] /\ answer \in [Operation -> AccessType]
  BY <1>4 DEF AccessType
<1>6. \A o \in Operation :
         /\ answer[o] = [scope |-> EffectiveScope(d, Sub, o), ids |-> {}]
         /\ sources[o] = IF o \in restricted THEN IdSources(d, Sub, o) ELSE {}
  OBVIOUS
<1>7. query' = [query EXCEPT !.at = "ids", !.todo = restricted,
                             !.sources = sources, !.answer = answer]
  BY <1>1
<1> HIDE DEF sources, answer
<1>8. /\ query'.at = "ids" /\ query'.todo = restricted
      /\ query'.sources = sources /\ query'.answer = answer
      /\ query'.perms = query.perms /\ query'.roles = query.roles
      /\ query' \in QueryState
  BY <1>2, <1>5, <1>7 DEF QueryState
<1> QED BY <1>3, <1>6, <1>8

(* The query after it read the ids of o (authz.go:108-135).                *)
LEMMA IdsAdded ==
    ASSUME Sane, NEW o \in Operation, ReadIds(o)
    PROVE  /\ query' \in QueryState /\ query'.at = "ids" /\ query.at = "ids"
           /\ query'.perms = query.perms /\ query'.roles = query.roles
           /\ query'.sources = query.sources /\ query'.todo = query.todo \ {o}
           /\ query.answer[o].scope = "RESTRICTED"
           /\ query'.answer[o] = [scope |-> query.answer[o].scope,
                                  ids   |-> IdsRead(tenant, query.sources[o], o)]
           /\ \A p \in Operation \ {o} : query'.answer[p] = query.answer[p]
<1> DEFINE read == IdsRead(tenant, query.sources[o], o)
<1>1. query \in QueryState /\ tenant \in TenantData /\ query.answer[o].scope = "RESTRICTED"
  BY DEF Sane, Good, AnswerIsSound, ReadIds
<1>2. read \subseteq RecordId
  <2>1. query.sources[o] \subseteq Subject
    BY <1>1 DEF QueryState
  <2>2. \A s \in Subject : tenant.ids[s][o] \subseteq RecordId
    BY <1>1 DEF TenantData
  <2> QED BY <2>1, <2>2 DEF IdsRead
<1>3. query' = [query EXCEPT !.todo = query.todo \ {o}, !.answer[o].ids = read]
  BY DEF ReadIds, IdsRead
<1> HIDE DEF read
<1>4. query'.answer = [query.answer EXCEPT ![o] = [scope |-> query.answer[o].scope, ids |-> read]]
  <2>1. query'.answer = [query.answer EXCEPT ![o].ids = read]
    BY <1>1, <1>3 DEF QueryState
  <2>2. query.answer[o] \in AccessType
    BY <1>1 DEF QueryState
  <2>3. [query.answer[o] EXCEPT !.ids = read] = [scope |-> query.answer[o].scope, ids |-> read]
    BY <2>2 DEF AccessType
  <2> QED BY <2>1, <2>3
<1>5. query' = [query EXCEPT !.todo = query.todo \ {o}, !.answer = query'.answer]
  BY <1>1, <1>3 DEF QueryState
<1>6. query'.answer \in [Operation -> AccessType]
  BY <1>1, <1>2, <1>4 DEF QueryState, AccessType
<1>7. /\ query'.perms = query.perms /\ query'.roles = query.roles /\ query'.at = query.at
      /\ query'.sources = query.sources /\ query'.todo = query.todo \ {o}
      /\ query' \in QueryState
  BY <1>1, <1>5, <1>6 DEF QueryState
<1>8. query.at = "ids"
  BY DEF ReadIds
<1> QED BY <1>1, <1>4, <1>7, <1>8 DEF QueryState, read

LEMMA SaneInit == Init => Sane
<1> SUFFICES ASSUME Init PROVE Sane
  OBVIOUS
<1>1. Good(tenant)
  BY SameGood, SameValues, SubjectsApart, Store!EmptyTenantIsGood
     DEF Init, Tenant!Init, Tenant!EmptyTenant, EmptyTenant, Tenant!Subject, Subject,
         Tenant!NoPerms, NoPerms, Tenant!NoIds, NoIds, Tenant!Unset, Unset
<1>2. 0 \in 0..MaxUpdates /\ [o \in Operation |-> {}] \in [Operation -> SUBSET AccessType]
  BY MaxUpdatesType
<1> QED BY <1>1, <1>2, IdleTyped DEF Init, Sane

(* Resolving what is believed (authz.go:25-87).                            *)
LEMMA ResolvingIsSane ==
    ASSUME Sane, query' = Resolve(query, Believed), UNCHANGED <<tenant, history>>
    PROVE  Sane'
<1>1. query \in QueryState
  BY DEF Sane
<1>2. /\ Believed \in TenantData /\ Believed.perm[Sub] = query.perms
      /\ Believed.assigned[Sub] \subseteq query.roles
  BY BelievedTyped
<1>3. /\ query' \in QueryState /\ query'.at = "ids"
      /\ query'.perms = query.perms /\ query'.roles = query.roles
      /\ \A o \in Operation :
            /\ query'.answer[o] = [scope |-> EffectiveScope(Believed, Sub, o), ids |-> {}]
            /\ o \in query'.todo <=> EffectiveScope(Believed, Sub, o) = "RESTRICTED"
            /\ query'.sources[o] = IF EffectiveScope(Believed, Sub, o) = "RESTRICTED"
                                   THEN IdSources(Believed, Sub, o) ELSE {}
  BY <1>1, <1>2, Resolved
<1>4. ASSUME NEW o \in Operation
      PROVE  /\ query'.answer[o].ids = {}
             /\ o \in query'.todo => query'.answer[o].scope = "RESTRICTED"
             /\ query'.perms[o] = Unset => query'.sources[o] \subseteq query'.roles
             /\ query'.perms[o] # Unset => query'.sources[o] \subseteq {Sub}
  <2>1. /\ query.perms[o] = Unset => IdSources(Believed, Sub, o) \subseteq query.roles
        /\ query.perms[o] # Unset => IdSources(Believed, Sub, o) = {Sub}
    BY <1>2, AccessTyped
  <2>2. query'.sources[o] = IdSources(Believed, Sub, o) \/ query'.sources[o] = {}
    BY <1>3
  <2>3. /\ query'.answer[o].ids = {}
        /\ query'.answer[o].scope = EffectiveScope(Believed, Sub, o)
    <3>1. query'.answer[o] = [scope |-> EffectiveScope(Believed, Sub, o), ids |-> {}]
      BY <1>3
    <3> QED BY <3>1
  <2> QED BY <1>3, <2>1, <2>2, <2>3
<1>5. AnswerIsSound'
  BY <1>4 DEF AnswerIsSound
<1> QED BY <1>3, <1>5 DEF Sane, Good, history

LEMMA SaneStep == Sane /\ [Next]_vars => Sane'
<1> SUFFICES ASSUME Sane, [Next]_vars PROVE Sane'
  OBVIOUS
<1>1. /\ Good(tenant) /\ tenant \in TenantData /\ query \in QueryState
      /\ seen \in [Operation -> SUBSET AccessType]
      /\ updates \in 0..MaxUpdates
      /\ renamed \in BOOLEAN /\ onlyTook \in BOOLEAN /\ onlyGave \in BOOLEAN
  BY DEF Sane, Good
<1>2. CASE ReadPermissions
  <2>1. tenant.perm[Sub] \in [Operation -> Grant]
    BY <1>1, SubIs DEF TenantData
  <2>2. /\ query' = [query EXCEPT !.at = "roles", !.perms = tenant.perm[Sub]]
        /\ query.at = "idle" /\ query.roles = {}
    BY <1>2 DEF ReadPermissions, Sane, Idle
  <2>3. query' \in QueryState /\ query'.at = "roles" /\ query'.roles = {}
    BY <1>1, <2>1, <2>2 DEF QueryState
  <2>4. seen' \in [Operation -> SUBSET AccessType]
    BY <1>1, <1>2, AccessTyped DEF ReadPermissions
  <2> QED BY <1>1, <1>2, <2>3, <2>4 DEF ReadPermissions, Sane, Good
<1>3. CASE ReadNoRoles
  BY <1>3, ResolvingIsSane DEF ReadNoRoles
<1>4. CASE ReadRoles
  <2>1. tenant.assigned[Sub] \subseteq Role
    BY <1>1, SubIs DEF TenantData
  <2>2. query' \in QueryState /\ query'.at = "grants"
    BY <1>1, <1>4, <2>1 DEF ReadRoles, QueryState
  <2> QED BY <1>1, <1>4, <2>2 DEF ReadRoles, Sane, Good, history
<1>5. CASE ReadGrants
  BY <1>5, ResolvingIsSane DEF ReadGrants
<1>6. ASSUME NEW o \in Operation, ReadIds(o)
      PROVE  Sane'
  <2>1. /\ query' \in QueryState /\ query'.at = "ids" /\ query.at = "ids"
        /\ query'.perms = query.perms /\ query'.roles = query.roles
        /\ query'.sources = query.sources /\ query'.todo = query.todo \ {o}
        /\ query.answer[o].scope = "RESTRICTED"
        /\ query'.answer[o] = [scope |-> query.answer[o].scope,
                               ids   |-> IdsRead(tenant, query.sources[o], o)]
        /\ \A p \in Operation \ {o} : query'.answer[p] = query.answer[p]
    BY <1>6, IdsAdded
  <2>3. query'.answer[o].scope = "RESTRICTED"
    BY <2>1
  <2>2. AnswerIsSound'
    BY <2>1, <2>3 DEF Sane, AnswerIsSound
  <2> QED BY <1>1, <1>6, <2>1, <2>2 DEF ReadIds, Sane, Good, history
<1>7. CASE Return
  <2>1. 0 \in 0..MaxUpdates /\ [o \in Operation |-> {}] \in [Operation -> SUBSET AccessType]
    BY MaxUpdatesType
  <2> QED BY <1>1, <1>7, <2>1, IdleTyped DEF Return, Sane, Good
<1>8. CASE UpdateBetweenQueries
  <2>1. Good(tenant')
    BY <1>1, <1>8, CallKeepsGood DEF UpdateBetweenQueries, Tenant!Next
  <2> QED BY <1>8, <2>1 DEF UpdateBetweenQueries, Sane, AnswerIsSound, history
<1>9. CASE UpdateDuringQuery
  <2>1. Good(tenant') /\ tenant' \in TenantData
    BY <1>1, <1>9, CallKeepsGood DEF UpdateDuringQuery, Tenant!Outcome, Good
  <2>2. seen' \in [Operation -> SUBSET AccessType]
    BY <1>1, <1>9, <2>1, AccessTyped DEF UpdateDuringQuery
  <2>3. /\ updates' \in 0..MaxUpdates
        /\ renamed' \in BOOLEAN /\ onlyTook' \in BOOLEAN /\ onlyGave' \in BOOLEAN
    BY <1>1, <1>9, MaxUpdatesType DEF UpdateDuringQuery
  <2> QED BY <1>9, <2>1, <2>2, <2>3 DEF UpdateDuringQuery, Sane, AnswerIsSound
<1>10. CASE UNCHANGED vars
  BY <1>10 DEF vars, history, Sane, Good, AnswerIsSound
<1> QED BY <1>2, <1>3, <1>4, <1>5, <1>6, <1>7, <1>8, <1>9, <1>10 DEF Next

(* The types, and where the ids of an answer come from, whatever falls     *)
(* between the reads of a query (authz.go:25-71, 105-135).                 *)
THEOREM QueryInv == Spec => []Inv
<1>1. Spec => []Sane
  BY SaneInit, SaneStep, PTL DEF Spec
<1> QED BY <1>1, SaneIsInv, PTL

-----------------------------------------------------------------------------
(* A query with at most one update, from the tenant t it began with.       *)

(* The answer is that of the data d, with the ids read of the data in S.   *)
AnswersFrom(d, S) ==
    \A o \in Operation :
        /\ query.answer[o].scope = EffectiveScope(d, Sub, o)
        /\ EffectiveScope(d, Sub, o) = "RESTRICTED" =>
              /\ query.sources[o] = IdSources(d, Sub, o)
              /\ o \notin query.todo =>
                    \E x \in S : query.answer[o].ids = IdsRead(x, IdSources(d, Sub, o), o)

(* Resolved before the update, or from what was read on both sides of it.  *)
ResolvedBefore(t) == AnswersFrom(t, {t, tenant})
ResolvedAfter(t) ==
    \E R \in {t.assigned[Sub], tenant.assigned[Sub]} : AnswersFrom(Mixed(t, tenant, R), {tenant})

Traced(t) ==
    /\ Good(t)
    /\ Changed(t, tenant, renamed)
    /\ updates = 0 => tenant = t
    /\ \A o \in Operation : seen[o] = {Access(t, Sub, o), Access(tenant, Sub, o)}
    /\ query.perms = t.perm[Sub]
    /\ query.at = "grants" => query.roles \in {t.assigned[Sub], tenant.assigned[Sub]}
    /\ query.at = "ids" => ResolvedBefore(t) \/ ResolvedAfter(t)

OneUpdate == query.at # "idle" /\ updates <= 1 => \E t : Traced(t)

(* The query as a whole reads nothing: its first read begins the trace.    *)
LEMMA TraceBegins ==
    ASSUME Sane, ReadPermissions
    PROVE  Traced(tenant)'
<1>1. /\ Good(tenant) /\ query \in QueryState /\ updates = 0 /\ renamed = FALSE
      /\ query.at = "idle" /\ tenant' = tenant
  BY DEF Sane, ReadPermissions
<1>2. query'.at = "roles" /\ query'.perms = tenant.perm[Sub]
  BY <1>1 DEF ReadPermissions, QueryState
<1>3. \A o \in Operation : seen'[o] = {Access(tenant, Sub, o), Access(tenant, Sub, o)}
  BY DEF ReadPermissions
<1>4. Good(tenant')
  BY <1>1
<1>5. Changed(tenant', tenant', renamed')
  BY <1>1, NothingChanged DEF ReadPermissions
<1> QED BY <1>1, <1>2, <1>3, <1>4, <1>5 DEF Traced

(* A resolution answers from what was mixed.                               *)
LEMMA TraceResolves ==
    ASSUME Sane, NEW t, Traced(t), NEW R \in {t.assigned[Sub], tenant.assigned[Sub]},
           query.roles \cap tenant.roles = R \cap tenant.roles,
           query' = Resolve(query, Believed), UNCHANGED <<tenant, history>>
    PROVE  Traced(t)'
<1>1. /\ Believed \in TenantData /\ query \in QueryState
      /\ Believed = Mixed(t, tenant, R) /\ tenant' = tenant
  BY BelievedTyped DEF Sane, Traced, Mixed, Believed
<1>2. PICK d \in TenantData : d = Mixed(t, tenant, R) /\ query' = Resolve(query, d)
  BY <1>1
<1>3. /\ query'.at = "ids" /\ query'.perms = query.perms
      /\ \A o \in Operation :
            /\ query'.answer[o] = [scope |-> EffectiveScope(d, Sub, o), ids |-> {}]
            /\ o \in query'.todo <=> EffectiveScope(d, Sub, o) = "RESTRICTED"
            /\ query'.sources[o] = IF EffectiveScope(d, Sub, o) = "RESTRICTED"
                                   THEN IdSources(d, Sub, o) ELSE {}
  BY <1>1, <1>2, Resolved
<1>4. ASSUME NEW o \in Operation
      PROVE  query'.answer[o].scope = EffectiveScope(d, Sub, o)
  <2>1. query'.answer[o] = [scope |-> EffectiveScope(d, Sub, o), ids |-> {}]
    BY <1>3
  <2> QED BY <2>1
<1>5. AnswersFrom(d, {tenant})'
  BY <1>3, <1>4 DEF AnswersFrom
<1>6. ResolvedAfter(t)'
  BY <1>1, <1>2, <1>5 DEF ResolvedAfter
<1> QED BY <1>1, <1>3, <1>6 DEF Traced, history

(* The ids of o are read of the tenant as it is.                           *)
LEMMA TraceReads ==
    ASSUME Sane, NEW t, Traced(t), NEW o \in Operation, ReadIds(o)
    PROVE  Traced(t)'
<1>1. /\ query'.at = "ids" /\ query.at = "ids"
      /\ query'.perms = query.perms /\ query'.sources = query.sources
      /\ query'.todo = query.todo \ {o}
      /\ query'.answer[o] = [scope |-> query.answer[o].scope,
                             ids   |-> IdsRead(tenant, query.sources[o], o)]
      /\ \A p \in Operation \ {o} : query'.answer[p] = query.answer[p]
  BY IdsAdded
<1>2. tenant' = tenant /\ seen' = seen /\ updates' = updates /\ renamed' = renamed
  BY DEF ReadIds, history
<1>3. /\ query'.answer[o].scope = query.answer[o].scope
      /\ query'.answer[o].ids = IdsRead(tenant, query.sources[o], o)
  BY <1>1
<1>4. ASSUME NEW d, NEW S, AnswersFrom(d, S), tenant \in S
      PROVE  AnswersFrom(d, S)'
  <2>1. ASSUME NEW p \in Operation
        PROVE  /\ query'.answer[p].scope = EffectiveScope(d, Sub, p)
               /\ EffectiveScope(d, Sub, p) = "RESTRICTED" =>
                    /\ query'.sources[p] = IdSources(d, Sub, p)
                    /\ p \notin query'.todo =>
                         \E x \in S : query'.answer[p].ids = IdsRead(x, IdSources(d, Sub, p), p)
    <3>1. CASE p = o
      BY <1>1, <1>3, <1>4, <3>1 DEF AnswersFrom
    <3>2. CASE p # o
      BY <1>1, <1>4, <3>2 DEF AnswersFrom
    <3> QED BY <3>1, <3>2
  <2> QED BY <2>1 DEF AnswersFrom
<1>5. PICK now : now = tenant
  OBVIOUS
<1>6. CASE ResolvedBefore(t)
  <2>1. AnswersFrom(t, {t, now})'
    BY <1>4, <1>5, <1>6 DEF ResolvedBefore
  <2>2. ResolvedBefore(t)'
    BY <1>2, <1>5, <2>1 DEF ResolvedBefore
  <2> QED BY <1>1, <1>2, <2>2 DEF Traced
<1>7. CASE ResolvedAfter(t)
  <2>1. PICK R \in {t.assigned[Sub], now.assigned[Sub]} : AnswersFrom(Mixed(t, now, R), {now})
    BY <1>5, <1>7 DEF ResolvedAfter
  <2>2. AnswersFrom(Mixed(t, now, R), {now})'
    BY <1>4, <1>5, <2>1
  <2>3. ResolvedAfter(t)'
    BY <1>2, <1>5, <2>2 DEF ResolvedAfter
  <2> QED BY <1>1, <1>2, <2>3 DEF Traced
<1> QED BY <1>1, <1>6, <1>7 DEF Traced

(* The one update that may fall into the query (authz.go holds no lock     *)
(* between its reads).                                                     *)
LEMMA TraceUpdates ==
    ASSUME Sane, NEW t, Traced(t), UpdateDuringQuery, updates = 0
    PROVE  Traced(t)'
<1>1. /\ tenant = t /\ Good(t) /\ updates' = 1 /\ query' = query
  BY DEF Traced, UpdateDuringQuery
<1>2. Tenant!Call("saved") /\ Renaming \in BOOLEAN
  BY DEF UpdateDuringQuery, Renaming
<1>3. Changed(t, tenant', renamed')
  <2>1. Changed(tenant, tenant', Renaming)
    BY <1>1, <1>2, UpdateChanges
  <2> QED BY <1>1, <2>1 DEF UpdateDuringQuery, Changed
<1>4. \A o \in Operation : seen'[o] = {Access(t, Sub, o), Access(tenant', Sub, o)}
  BY <1>1 DEF UpdateDuringQuery, Traced
<1>5. query.at = "grants" => query.roles = t.assigned[Sub]
  BY <1>1 DEF Traced
<1>6. query.at = "ids" => AnswersFrom(t, {t})
  BY <1>1, NothingMixed DEF Traced, ResolvedBefore, ResolvedAfter
<1>7. ASSUME query.at = "ids" PROVE ResolvedBefore(t)'
  <2>1. AnswersFrom(t, {t})
    BY <1>6, <1>7
  <2> QED BY <1>1, <2>1 DEF ResolvedBefore, AnswersFrom
<1> QED BY <1>1, <1>3, <1>4, <1>5, <1>7 DEF Traced

LEMMA TraceStep == Sane /\ OneUpdate /\ [Next]_vars => OneUpdate'
<1> SUFFICES ASSUME Sane, OneUpdate, [Next]_vars, query'.at # "idle", updates' <= 1
             PROVE  \E t : Traced(t)'
  BY DEF OneUpdate
<1>1. query \in QueryState /\ updates \in Nat /\ Idle.at = "idle"
  BY IdleTyped, MaxUpdatesType DEF Sane
<1>2. CASE ReadPermissions
  BY <1>2, TraceBegins
<1>3. CASE ReadNoRoles
  <2>1. PICK t : Traced(t)
    BY <1>3 DEF OneUpdate, ReadNoRoles, history
  <2>2. query.roles = {} /\ tenant.assigned[Sub] = {}
    BY <1>3 DEF ReadNoRoles, Sane
  <2> QED BY <1>3, <2>1, <2>2, TraceResolves DEF ReadNoRoles
<1>4. CASE ReadRoles
  <2>1. PICK t : Traced(t)
    BY <1>4 DEF OneUpdate, ReadRoles, history
  <2>2. query'.at = "grants" /\ query'.roles = tenant.assigned[Sub] /\ query'.perms = query.perms
    BY <1>1, <1>4 DEF ReadRoles, QueryState
  <2> QED BY <1>4, <2>1, <2>2 DEF ReadRoles, Traced, history
<1>5. CASE ReadGrants
  <2>1. PICK t : Traced(t)
    BY <1>5 DEF OneUpdate, ReadGrants, history
  <2>2. query.roles \in {t.assigned[Sub], tenant.assigned[Sub]}
    BY <1>5, <2>1 DEF ReadGrants, Traced
  <2> QED BY <1>5, <2>1, <2>2, TraceResolves DEF ReadGrants
<1>6. ASSUME NEW o \in Operation, ReadIds(o)
      PROVE  \E t : Traced(t)'
  <2>1. PICK t : Traced(t)
    BY <1>6 DEF OneUpdate, ReadIds, history
  <2> QED BY <1>6, <2>1, TraceReads
<1>7. ~Return
  BY <1>1 DEF Return
<1>8. ~UpdateBetweenQueries
  BY DEF UpdateBetweenQueries
<1>9. CASE UpdateDuringQuery
  <2>1. updates = 0
    BY <1>1, <1>9 DEF UpdateDuringQuery
  <2>2. PICK t : Traced(t)
    BY <1>9, <2>1 DEF OneUpdate, UpdateDuringQuery
  <2> QED BY <1>9, <2>1, <2>2, TraceUpdates
<1>10. CASE UNCHANGED vars
  <2>1. PICK t : Traced(t)
    BY <1>10 DEF OneUpdate, vars, history
  <2>2. Traced(t)'
    BY <1>10, <2>1 DEF vars, history, Traced, ResolvedBefore, ResolvedAfter, AnswersFrom
  <2> QED BY <2>2
<1> QED BY <1>2, <1>3, <1>4, <1>5, <1>6, <1>7, <1>8, <1>9, <1>10 DEF Next

(* While at most one update has fallen into a query, what the query holds  *)
(* is read of the tenant t it began with, of the tenant as it is now, or,  *)
(* resolved from reads on both sides of the update, of their mixture       *)
(* (authz.go:25-135).                                                      *)
THEOREM QueryTraced == Spec => [](Sane /\ OneUpdate)
<1>1. Init => OneUpdate
  BY IdleTyped DEF Init, OneUpdate
<1> QED BY <1>1, SaneInit, SaneStep, TraceStep, PTL DEF Spec

-----------------------------------------------------------------------------
(* What is answered *)

LEMMA WidthTyped == \A s \in Grant : Width[s] \in Nat
  BY DEF Width, Grant, Scope, Unset

LEMMA SameScopeIsNoWider ==
    ASSUME NEW d \in TenantData, NEW o \in Operation, NEW a,
           a.scope = EffectiveScope(d, Sub, o),
           a.scope = "RESTRICTED" => a.ids \subseteq RestrictedIds(d, Sub, o)
    PROVE  NoWiderThan(a, Access(d, Sub, o))
<1>1. EffectiveScope(d, Sub, o) \in Grant
  BY AccessTyped
<1> QED BY <1>1, WidthTyped DEF NoWiderThan, Access

LEMMA AnsweredFrom ==
    ASSUME Sane, Answered, NEW d, NEW S, AnswersFrom(d, S), NEW o \in Operation
    PROVE  /\ query.answer[o].scope = EffectiveScope(d, Sub, o)
           /\ query.answer[o].scope = "RESTRICTED" =>
                \E x \in S : query.answer[o].ids = IdsRead(x, IdSources(d, Sub, o), o)
  BY DEF Answered, AnswersFrom

(* An answer resolved before the update is no wider than the access before *)
(* it, or, if the scope did not change, after it (authz.go:108-135).       *)
LEMMA EarlyAnswer ==
    ASSUME Sane, Answered, NEW t, Traced(t), ResolvedBefore(t), NEW o \in Operation
    PROVE  \E a \in seen[o] : NoWiderThan(query.answer[o], a)
<1>1. /\ Good(t) /\ Good(tenant) /\ Changed(t, tenant, TRUE)
      /\ t \in TenantData /\ tenant \in TenantData /\ t.assigned[Sub] \subseteq t.roles
      /\ seen[o] = {Access(t, Sub, o), Access(tenant, Sub, o)}
  BY SubIs DEF Traced, Sane, Good, Changed
<1>2. /\ query.answer[o].scope = EffectiveScope(t, Sub, o)
      /\ query.answer[o].scope = "RESTRICTED" =>
           \E x \in {t, tenant} : query.answer[o].ids = IdsRead(x, IdSources(t, Sub, o), o)
  BY AnsweredFrom DEF ResolvedBefore
<1>3. CASE query.answer[o].scope = "RESTRICTED"
           => query.answer[o].ids \subseteq RestrictedIds(t, Sub, o)
  BY <1>1, <1>2, <1>3, SameScopeIsNoWider
<1>4. CASE /\ query.answer[o].scope = "RESTRICTED"
           /\ ~ query.answer[o].ids \subseteq RestrictedIds(t, Sub, o)
  <2>1. query.answer[o].ids = IdsRead(tenant, IdSources(t, Sub, o), o)
    BY <1>1, <1>2, <1>4, IdsReadAtOnce
  <2>2. /\ query.answer[o].ids = RestrictedIds(tenant, Sub, o)
        /\ EffectiveScope(tenant, Sub, o) = EffectiveScope(t, Sub, o)
    BY <1>1, <1>4, <2>1, LateIds
  <2>3. NoWiderThan(query.answer[o], Access(tenant, Sub, o))
    BY <1>1, <1>2, <2>2, SameScopeIsNoWider
  <2> QED BY <1>1, <2>3
<1> QED BY <1>3, <1>4

(* An answer from reads on both sides of the update is the access in the   *)
(* mixed data, which is no wider than that on one side (authz.go:25-71).   *)
LEMMA LateAnswer ==
    ASSUME Sane, Answered, NEW t, Traced(t), ResolvedAfter(t), NEW o \in Operation
    PROVE  \E a \in seen[o] : NoWiderThan(query.answer[o], a)
<1>1. /\ Good(t) /\ Good(tenant) /\ Changed(t, tenant, TRUE)
      /\ seen[o] = {Access(t, Sub, o), Access(tenant, Sub, o)}
  BY DEF Traced, Sane, Changed
<1>2. PICK now : now = tenant
  OBVIOUS
<1>3. PICK R \in {t.assigned[Sub], now.assigned[Sub]} : AnswersFrom(Mixed(t, now, R), {now})
  BY <1>2 DEF ResolvedAfter
<1> DEFINE m == Mixed(t, now, R)
<1>4. /\ m \in TenantData /\ m.assigned[Sub] \subseteq m.roles
      /\ m.ids = now.ids /\ m.roles = now.roles
  BY <1>1, <1>2, MixedIs
<1>5. \E d \in {t, now} : NoWiderThan(Access(m, Sub, o), Access(d, Sub, o))
  BY <1>1, <1>2, MixedIsNoWider
<1>6. /\ query.answer[o].scope = EffectiveScope(m, Sub, o)
      /\ query.answer[o].scope = "RESTRICTED" =>
           query.answer[o].ids = IdsRead(now, IdSources(m, Sub, o), o)
  BY <1>3, AnsweredFrom
<1> HIDE DEF m
<1>7. IdsRead(now, IdSources(m, Sub, o), o) = RestrictedIds(m, Sub, o)
  <2>1. IdsRead(now, IdSources(m, Sub, o), o) = IdsRead(m, IdSources(m, Sub, o), o)
    BY <1>4 DEF IdsRead
  <2> QED BY <1>4, <2>1, IdsReadAtOnce
<1>8. query.answer[o] = Access(m, Sub, o)
  <2>1. query.answer[o] \in AccessType
    BY DEF Sane, QueryState
  <2>2. query.answer[o].scope # "RESTRICTED" => query.answer[o].ids = {}
    BY DEF Sane, AnswerIsSound, Answered
  <2> QED BY <1>6, <1>7, <2>1, <2>2 DEF Access, AccessType
<1> QED BY <1>1, <1>2, <1>5, <1>8

(* An answer is no wider than the access the user had at some moment of    *)
(* the query, when at most one update, of any kind, falls into it: scope   *)
(* and ids read on both sides of it never add up to more than was granted  *)
(* (authz.go:25-71, 108-135).                                              *)
THEOREM AnswersAreNoWider == Spec => []AnswerNoWiderThanHeld
<1>1. Sane /\ OneUpdate => AnswerNoWiderThanHeld
  <2> SUFFICES ASSUME Sane, OneUpdate, Answered, updates <= 1, NEW o \in Operation
               PROVE  \E a \in seen[o] : NoWiderThan(query.answer[o], a)
    BY DEF AnswerNoWiderThanHeld
  <2>1. PICK t : Traced(t)
    BY DEF OneUpdate, Answered
  <2> QED BY <2>1, EarlyAnswer, LateAnswer DEF Traced, Answered
<1> QED BY <1>1, QueryTraced, PTL

(* A user whose access did not change is answered the scope it had, although *)
(* one update fell into the query, unless it renamed a role                *)
(* (authz.go:25-87).                                                       *)
THEOREM StableScopesAreAnswered == Spec => []StableScopeIsAnswered
<1>1. Sane /\ OneUpdate => StableScopeIsAnswered
  <2> SUFFICES ASSUME Sane, OneUpdate, Answered, updates <= 1, ~renamed, NEW o \in Operation,
                      seen[o] = {Access(tenant, Sub, o)}
               PROVE  query.answer[o].scope = Access(tenant, Sub, o).scope
    BY DEF StableScopeIsAnswered, StableScope
  <2>1. PICK t : Traced(t)
    BY DEF OneUpdate, Answered
  <2>2. /\ Good(t) /\ Good(tenant)
        /\ EntryChanged(t, tenant) \/ RolesChanged(t, tenant)
        /\ Access(t, Sub, o) = Access(tenant, Sub, o)
    BY <2>1 DEF Traced, Sane, Changed
  <2>3. EffectiveScope(t, Sub, o) = EffectiveScope(tenant, Sub, o)
    BY <2>2 DEF Access
  <2>4. CASE ResolvedBefore(t)
    BY <2>3, <2>4, AnsweredFrom DEF ResolvedBefore, Access
  <2>5. CASE ResolvedAfter(t)
    <3>1. PICK now : now = tenant
      OBVIOUS
    <3>2. PICK R \in {t.assigned[Sub], now.assigned[Sub]} : AnswersFrom(Mixed(t, now, R), {now})
      BY <2>5, <3>1 DEF ResolvedAfter
    <3>3. query.answer[o].scope = EffectiveScope(Mixed(t, now, R), Sub, o)
      BY <3>2, AnsweredFrom
    <3>4. EffectiveScope(Mixed(t, now, R), Sub, o) = EffectiveScope(now, Sub, o)
      BY <2>2, <2>3, <3>1, MixedScope
    <3> QED BY <3>1, <3>3, <3>4 DEF Access
  <2> QED BY <2>1, <2>4, <2>5 DEF Traced, Answered
<1> QED BY <1>1, QueryTraced, PTL

-----------------------------------------------------------------------------
(* Any number of updates of one kind: all of them take away, or all give.  *)

(* a holds no more than b: for every user, role, operation and record id.  *)
Less(a, b) ==
    /\ \A u \in User : a.assigned[u] \subseteq b.assigned[u]
    /\ \A s \in Subject : \A o \in Operation :
          a.perm[s][o] \in {b.perm[s][o], Unset} /\ a.ids[s][o] \subseteq b.ids[s][o]

LEMMA LessIsTransitive ==
    ASSUME NEW a, NEW b, NEW c, Less(a, b), Less(b, c)
    PROVE  Less(a, c)
  BY DEF Less

(* Every update that takes away leaves the tenant with less (json.go).     *)
LEMMA TakingIsLess ==
    ASSUME Good(tenant), Taking
    PROVE  Less(tenant', tenant)
<1>1. tenant \in TenantData
  BY DEF Good
<1>2. CASE \E r \in Role : Tenant!DeleteRole(r, "saved")
  <2>1. PICK r \in Role : tenant' = Tenant!DropRole(tenant, r)
    BY <1>2 DEF Tenant!DeleteRole, Tenant!Saved, Tenant!NotFound
  <2>2. /\ tenant'.assigned = [u \in User |-> tenant.assigned[u] \ {r}]
        /\ tenant'.perm = [tenant.perm EXCEPT ![r] = Tenant!NoPerms]
        /\ tenant'.ids = [tenant.ids EXCEPT ![r] = Tenant!NoIds]
    BY <1>1, <2>1 DEF Tenant!DropRole, TenantData
  <2>3. \A o \in Operation : Tenant!NoPerms[o] = Unset /\ Tenant!NoIds[o] = {}
    BY DEF Tenant!NoPerms, Tenant!NoIds, Tenant!Unset, Unset
  <2> QED BY <1>1, <2>2, <2>3 DEF Less, TenantData
<1>3. CASE \E u \in User, r \in Role : Tenant!UnassignRole(u, r, "saved")
  <2>1. PICK u \in User, r \in Role :
           tenant' = [tenant EXCEPT !.assigned[u] = @ \ {r}]
    BY <1>3 DEF Tenant!UnassignRole, Tenant!Saved, Tenant!NotFound
  <2>2. /\ tenant'.perm = tenant.perm /\ tenant'.ids = tenant.ids
        /\ tenant'.assigned = [tenant.assigned EXCEPT ![u] = tenant.assigned[u] \ {r}]
    BY <1>1, <2>1 DEF TenantData
  <2> QED BY <1>1, <2>2 DEF Less, TenantData
<1>4. CASE \E s \in Subject, o \in Operation : Tenant!RemovePermission(s, o, "saved")
  <2>1. PICK s \in Subject, o \in Operation :
           tenant' = [tenant EXCEPT !.perm[s][o] = Tenant!Unset, !.ids[s][o] = {}]
    BY <1>4 DEF Tenant!RemovePermission, Tenant!Saved, Tenant!NotFound
  <2>2. /\ tenant'.assigned = tenant.assigned
        /\ tenant'.perm = [tenant.perm EXCEPT ![s] = [tenant.perm[s] EXCEPT ![o] = Unset]]
        /\ tenant'.ids = [tenant.ids EXCEPT ![s] = [tenant.ids[s] EXCEPT ![o] = {}]]
    BY <1>1, <2>1 DEF TenantData, Tenant!Unset, Unset
  <2> QED BY <1>1, <2>2 DEF Less, TenantData
<1>5. CASE \E s \in Subject, o \in Operation, old \in SUBSET RecordId :
             Tenant!RemoveRestrictedIDs(s, o, old, "saved")
  <2>1. PICK s \in Subject, o \in Operation, old \in SUBSET RecordId :
           tenant' = [tenant EXCEPT !.ids[s][o] = @ \ old]
    BY <1>5 DEF Tenant!RemoveRestrictedIDs, Tenant!Saved, Tenant!NotFound
  <2>2. /\ tenant'.assigned = tenant.assigned /\ tenant'.perm = tenant.perm
        /\ tenant'.ids = [tenant.ids EXCEPT ![s] =
                             [tenant.ids[s] EXCEPT ![o] = tenant.ids[s][o] \ old]]
    BY <1>1, <2>1 DEF TenantData
  <2> QED BY <1>1, <2>2 DEF Less, TenantData
<1> QED BY <1>2, <1>3, <1>4, <1>5 DEF Taking

(* Every update that gives leaves it with more (json.go).                  *)
LEMMA GivingIsMore ==
    ASSUME Good(tenant), Giving
    PROVE  Less(tenant, tenant')
<1>1. tenant \in TenantData
  BY DEF Good
<1>2. CASE \E u \in User, r \in Role : Tenant!AssignRole(u, r, "saved")
  <2>1. PICK u \in User, r \in Role :
           tenant' = [tenant EXCEPT !.assigned[u] = @ \cup {r}]
    BY <1>2 DEF Tenant!AssignRole, Tenant!Saved, Tenant!NotFound, Tenant!Noop
  <2>2. /\ tenant'.perm = tenant.perm /\ tenant'.ids = tenant.ids
        /\ tenant'.assigned = [tenant.assigned EXCEPT ![u] = tenant.assigned[u] \cup {r}]
    BY <1>1, <2>1 DEF TenantData
  <2> QED BY <1>1, <2>2 DEF Less, TenantData
<1>3. CASE \E s \in Subject, o \in Operation, new \in SUBSET RecordId :
             Tenant!AddRestrictedIDs(s, o, new, "saved")
  <2>1. PICK s \in Subject, o \in Operation, new \in SUBSET RecordId :
           tenant' = [tenant EXCEPT !.ids[s][o] = @ \cup new]
    BY <1>3 DEF Tenant!AddRestrictedIDs, Tenant!Saved, Tenant!NotFound
  <2>2. /\ tenant'.assigned = tenant.assigned /\ tenant'.perm = tenant.perm
        /\ tenant'.ids = [tenant.ids EXCEPT ![s] =
                             [tenant.ids[s] EXCEPT ![o] = tenant.ids[s][o] \cup new]]
    BY <1>1, <2>1 DEF TenantData
  <2> QED BY <1>1, <2>2 DEF Less, TenantData
<1> QED BY <1>2, <1>3 DEF Giving

(* A new role holds nothing, as its name did before (json.go:302-325).     *)
LEMMA CreatingIsNeither ==
    ASSUME Good(tenant), Creating
    PROVE  Less(tenant', tenant) /\ Less(tenant, tenant')
<1>1. tenant \in TenantData
  BY DEF Good
<1>2. PICK r \in Role : r \notin tenant.roles /\ tenant' = Tenant!AddRole(tenant, r)
  BY DEF Creating, Tenant!CreateRole, Tenant!EnsureRole, Tenant!Saved, Tenant!Noop, Tenant!Conflict
<1>3. tenant.perm[r] = Tenant!NoPerms /\ tenant.ids[r] = Tenant!NoIds
  BY <1>2 DEF Good, NoPerms, Tenant!NoPerms, NoIds, Tenant!NoIds, Unset, Tenant!Unset
<1>4. /\ tenant'.assigned = tenant.assigned
      /\ tenant'.perm = [tenant.perm EXCEPT ![r] = Tenant!NoPerms]
      /\ tenant'.ids = [tenant.ids EXCEPT ![r] = Tenant!NoIds]
  BY <1>1, <1>2 DEF Tenant!AddRole, TenantData
<1>5. \A s \in Subject : tenant'.perm[s] = tenant.perm[s] /\ tenant'.ids[s] = tenant.ids[s]
  BY <1>1, <1>3, <1>4 DEF TenantData
<1> QED BY <1>4, <1>5 DEF Less

(* What Sub gets of data that hold less, its own permissions the same.     *)
LEMMA LessGrantsLess ==
    ASSUME NEW a \in TenantData, NEW b \in TenantData, NEW o \in Operation,
           a.perm[Sub] = b.perm[Sub], a.assigned[Sub] \subseteq b.assigned[Sub],
           \A r \in Role : a.perm[r][o] \in {b.perm[r][o], Unset},
           \A s \in Subject : a.ids[s][o] \subseteq b.ids[s][o]
    PROVE  /\ Width[EffectiveScope(a, Sub, o)] <= Width[EffectiveScope(b, Sub, o)]
           /\ IdSources(a, Sub, o) \subseteq IdSources(b, Sub, o)
           /\ RestrictedIds(a, Sub, o) \subseteq RestrictedIds(b, Sub, o)
<1>1. a.assigned[Sub] \subseteq Role /\ IdSources(a, Sub, o) \subseteq Subject
  BY SubIs, AccessTyped DEF TenantData
<1>2. NoWiderThan(Access(a, Sub, o), Access(b, Sub, o))
  BY <1>1, SubIs, SubjectsApart, SameValues, SameAccess, Store!LessIsNoWider
<1>3. IdSources(a, Sub, o) \subseteq IdSources(b, Sub, o)
  BY <1>1 DEF IdSources, Overridden, Unset
<1>4. RestrictedIds(a, Sub, o) \subseteq RestrictedIds(b, Sub, o)
  BY <1>1, <1>3 DEF RestrictedIds
<1> QED BY <1>2, <1>3, <1>4 DEF NoWiderThan, Access

(* t is the tenant as it was when the query began.                         *)
Began(t) ==
    /\ Good(t)
    /\ \A o \in Operation : Access(t, Sub, o) \in seen[o]
    /\ query.perms = t.perm[Sub]

(* What is resolved, and the ids read so far, lie within the access in t.  *)
AnswerWithin(t) ==
    \A o \in Operation :
        /\ Width[query.answer[o].scope] <= Width[EffectiveScope(t, Sub, o)]
        /\ query.sources[o] \subseteq IdSources(t, Sub, o)
        /\ query.answer[o].ids \subseteq RestrictedIds(t, Sub, o)

TookFrom(t) ==
    /\ Less(tenant, t)
    /\ query.at = "grants" => query.roles \subseteq t.assigned[Sub]
    /\ query.at = "ids" => AnswerWithin(t)

(* The access in t lies within what is resolved and read so far.           *)
AnswerCovers(t) ==
    \A o \in Operation :
        /\ Width[EffectiveScope(t, Sub, o)] <= Width[query.answer[o].scope]
        /\ query.answer[o].scope = "RESTRICTED" =>
              /\ IdSources(t, Sub, o) \subseteq query.sources[o]
              /\ o \notin query.todo => RestrictedIds(t, Sub, o) \subseteq query.answer[o].ids

GaveTo(t) ==
    /\ Less(t, tenant)
    /\ query.at = "grants" => t.assigned[Sub] \subseteq query.roles
    /\ query.at = "ids" => AnswerCovers(t)

Since(t) ==
    /\ Began(t)
    /\ onlyTook => TookFrom(t)
    /\ onlyGave => GaveTo(t)

OneKind == query.at # "idle" => \E t : Since(t)

LEMMA SinceBegins ==
    ASSUME Sane, ReadPermissions
    PROVE  Since(tenant)'
<1>1. /\ Good(tenant) /\ query \in QueryState /\ tenant' = tenant
      /\ query'.at = "roles" /\ query'.perms = tenant.perm[Sub]
  BY DEF Sane, ReadPermissions, QueryState
<1>2. \A o \in Operation : Access(tenant, Sub, o) \in seen'[o]
  BY DEF ReadPermissions
<1>3. Less(tenant, tenant)
  BY DEF Less
<1>4. PICK now : now = tenant
  OBVIOUS
<1>5. Began(now)'
  BY <1>1, <1>2, <1>4 DEF Began
<1>6. TookFrom(now)' /\ GaveTo(now)'
  BY <1>1, <1>3, <1>4 DEF TookFrom, GaveTo
<1> QED BY <1>1, <1>4, <1>5, <1>6 DEF Since

(* The roles are read of a tenant with less, or with more, than t.         *)
LEMMA SinceRoles ==
    ASSUME Sane, NEW t, Since(t), ReadRoles
    PROVE  Since(t)'
<1>1. /\ tenant' = tenant /\ seen' = seen /\ onlyTook' = onlyTook /\ onlyGave' = onlyGave
      /\ query'.at = "grants" /\ query'.perms = query.perms
      /\ query'.roles = tenant.assigned[Sub]
  BY DEF Sane, ReadRoles, history, QueryState
<1>2. Began(t)'
  BY <1>1 DEF Since, Began
<1>3. onlyTook => TookFrom(t)'
  BY <1>1, SubIs DEF Since, TookFrom, Less
<1>4. onlyGave => GaveTo(t)'
  BY <1>1, SubIs DEF Since, GaveTo, Less
<1> QED BY <1>1, <1>2, <1>3, <1>4 DEF Since

(* The resolution of roles read, and of grants that hold less or more now. *)
LEMMA SinceResolves ==
    ASSUME Sane, NEW t, Since(t),
           onlyTook => query.roles \subseteq t.assigned[Sub],
           onlyGave => t.assigned[Sub] \subseteq query.roles,
           query' = Resolve(query, Believed), UNCHANGED <<tenant, history>>
    PROVE  Since(t)'
<1>1. /\ tenant' = tenant /\ seen' = seen /\ onlyTook' = onlyTook /\ onlyGave' = onlyGave
      /\ Good(tenant) /\ tenant \in TenantData /\ query \in QueryState
      /\ Good(t) /\ t \in TenantData /\ query.perms = t.perm[Sub]
  BY DEF Sane, Good, history, Since, Began
<1>2. PICK d \in TenantData : d = Believed
  BY BelievedTyped
<1>3. /\ d.perm[Sub] = t.perm[Sub]
      /\ d.assigned[Sub] = query.roles \cap tenant.roles
      /\ d.ids = tenant.ids /\ \A r \in Role : d.perm[r] = tenant.perm[r]
  BY <1>1, <1>2, SubIs DEF Believed, TenantData
<1>4. /\ query'.at = "ids" /\ query'.perms = query.perms
      /\ \A o \in Operation :
            /\ query'.answer[o] = [scope |-> EffectiveScope(d, Sub, o), ids |-> {}]
            /\ o \in query'.todo <=> EffectiveScope(d, Sub, o) = "RESTRICTED"
            /\ query'.sources[o] = IF EffectiveScope(d, Sub, o) = "RESTRICTED"
                                   THEN IdSources(d, Sub, o) ELSE {}
  BY <1>1, <1>2, Resolved
<1>5. \A o \in Operation : /\ query'.answer[o].scope = EffectiveScope(d, Sub, o)
                           /\ query'.answer[o].ids = {}
  <2> SUFFICES ASSUME NEW o \in Operation
               PROVE  query'.answer[o].scope = EffectiveScope(d, Sub, o) /\ query'.answer[o].ids = {}
    OBVIOUS
  <2>1. query'.answer[o] = [scope |-> EffectiveScope(d, Sub, o), ids |-> {}]
    BY <1>4
  <2> QED BY <2>1
<1>6. Began(t)'
  BY <1>1, <1>4 DEF Since, Began
<1>7. ASSUME onlyTook PROVE TookFrom(t)'
  <2>1. Less(tenant, t) /\ d.assigned[Sub] \subseteq t.assigned[Sub]
    BY <1>3, <1>7 DEF Since, TookFrom
  <2>2. ASSUME NEW o \in Operation
        PROVE  /\ Width[EffectiveScope(d, Sub, o)] <= Width[EffectiveScope(t, Sub, o)]
               /\ IdSources(d, Sub, o) \subseteq IdSources(t, Sub, o)
    <3>1. \A r \in Role : d.perm[r][o] \in {t.perm[r][o], Unset}
      BY <1>3, <2>1, SubIs DEF Less
    <3>2. \A s \in Subject : d.ids[s][o] \subseteq t.ids[s][o]
      BY <1>3, <2>1 DEF Less
    <3> QED BY <1>1, <1>3, <2>1, <3>1, <3>2, LessGrantsLess
  <2>3. AnswerWithin(t)'
    BY <1>4, <1>5, <2>2 DEF AnswerWithin
  <2> QED BY <1>1, <1>4, <2>1, <2>3 DEF TookFrom
<1>8. ASSUME onlyGave PROVE GaveTo(t)'
  <2>1. Less(t, tenant) /\ t.assigned[Sub] \subseteq query.roles
    BY <1>8 DEF Since, GaveTo
  <2>2. t.assigned[Sub] \subseteq d.assigned[Sub]
    BY <1>1, <1>3, <2>1, SubIs DEF Less, Good
  <2>3. ASSUME NEW o \in Operation
        PROVE  /\ Width[EffectiveScope(t, Sub, o)] <= Width[EffectiveScope(d, Sub, o)]
               /\ IdSources(t, Sub, o) \subseteq IdSources(d, Sub, o)
    <3>1. \A r \in Role : t.perm[r][o] \in {d.perm[r][o], Unset}
      BY <1>3, <2>1, SubIs DEF Less
    <3>2. \A s \in Subject : t.ids[s][o] \subseteq d.ids[s][o]
      BY <1>3, <2>1 DEF Less
    <3> QED BY <1>1, <1>3, <2>2, <3>1, <3>2, LessGrantsLess
  <2>4. AnswerCovers(t)'
    BY <1>4, <1>5, <2>3 DEF AnswerCovers
  <2> QED BY <1>1, <1>4, <2>1, <2>4 DEF GaveTo
<1> QED BY <1>1, <1>6, <1>7, <1>8 DEF Since

(* Ids read later, of a tenant with less or more than t.                   *)
LEMMA SinceReads ==
    ASSUME Sane, NEW t, Since(t), NEW o \in Operation, ReadIds(o)
    PROVE  Since(t)'
<1>1. /\ query'.at = "ids" /\ query.at = "ids" /\ query.answer[o].scope = "RESTRICTED"
      /\ query'.perms = query.perms /\ query'.sources = query.sources
      /\ query'.todo = query.todo \ {o}
      /\ query'.answer[o] = [scope |-> query.answer[o].scope,
                             ids   |-> IdsRead(tenant, query.sources[o], o)]
      /\ \A p \in Operation \ {o} : query'.answer[p] = query.answer[p]
  BY IdsAdded
<1>2. /\ query'.answer[o].scope = query.answer[o].scope
      /\ query'.answer[o].ids = IdsRead(tenant, query.sources[o], o)
  BY <1>1
<1>3. /\ tenant' = tenant /\ seen' = seen /\ onlyTook' = onlyTook /\ onlyGave' = onlyGave
      /\ Good(tenant) /\ t \in TenantData /\ Good(t) /\ query \in QueryState
  BY DEF Sane, Good, ReadIds, history, Since, Began
<1>4. IdSources(t, Sub, o) \subseteq Subject
  BY <1>3, AccessTyped
<1>5. Began(t)'
  BY <1>1, <1>3 DEF Since, Began
<1>6. ASSUME onlyTook PROVE TookFrom(t)'
  <2>1. Less(tenant, t) /\ AnswerWithin(t)
    BY <1>1, <1>6 DEF Since, TookFrom
  <2>2. query'.answer[o].ids \subseteq RestrictedIds(t, Sub, o)
    <3>1. \A s \in IdSources(t, Sub, o) : tenant.ids[s][o] \subseteq t.ids[s][o]
      BY <1>4, <2>1 DEF Less
    <3>2. query.sources[o] \subseteq IdSources(t, Sub, o)
      BY <2>1 DEF AnswerWithin
    <3> QED BY <1>2, <3>1, <3>2 DEF IdsRead, RestrictedIds
  <2>3. AnswerWithin(t)'
    BY <1>1, <1>2, <2>1, <2>2 DEF AnswerWithin
  <2> QED BY <1>1, <1>3, <2>1, <2>3 DEF TookFrom
<1>7. ASSUME onlyGave PROVE GaveTo(t)'
  <2>1. Less(t, tenant) /\ AnswerCovers(t)
    BY <1>1, <1>7 DEF Since, GaveTo
  <2>2. IdSources(t, Sub, o) \subseteq User \cup tenant.roles
    <3>1. t.assigned[Sub] \subseteq tenant.roles
      BY <1>3, <2>1, SubIs DEF Less, Good
    <3> QED BY <3>1, SubIs DEF IdSources
  <2>3. RestrictedIds(t, Sub, o) \subseteq query'.answer[o].ids
    <3>1. \A s \in IdSources(t, Sub, o) : t.ids[s][o] \subseteq tenant.ids[s][o]
      BY <1>4, <2>1 DEF Less
    <3>2. IdSources(t, Sub, o) \subseteq query.sources[o]
      BY <1>1, <2>1 DEF AnswerCovers
    <3> QED BY <1>2, <2>2, <3>1, <3>2 DEF IdsRead, RestrictedIds
  <2>4. AnswerCovers(t)'
    BY <1>1, <1>2, <2>1, <2>3 DEF AnswerCovers
  <2> QED BY <1>1, <1>3, <2>1, <2>4 DEF GaveTo
<1> QED BY <1>3, <1>5, <1>6, <1>7 DEF Since

LEMMA SinceUpdates ==
    ASSUME Sane, NEW t, Since(t), UpdateDuringQuery
    PROVE  Since(t)'
<1>1. query' = query /\ Good(tenant) /\ \A o \in Operation : seen[o] \subseteq seen'[o]
  BY DEF Sane, UpdateDuringQuery
<1>2. Began(t)'
  BY <1>1 DEF Since, Began
<1>3. ASSUME onlyTook' PROVE TookFrom(t)'
  <2>1. onlyTook /\ (Taking \/ Creating)
    BY <1>3 DEF UpdateDuringQuery
  <2>2. Less(tenant', tenant) /\ TookFrom(t)
    BY <1>1, <2>1, TakingIsLess, CreatingIsNeither DEF Since
  <2>3. Less(tenant', t)
    BY <2>2, LessIsTransitive DEF TookFrom
  <2> QED BY <1>1, <2>2, <2>3 DEF TookFrom, AnswerWithin
<1>4. ASSUME onlyGave' PROVE GaveTo(t)'
  <2>1. onlyGave /\ (Giving \/ Creating)
    BY <1>4 DEF UpdateDuringQuery
  <2>2. Less(tenant, tenant') /\ GaveTo(t)
    BY <1>1, <2>1, GivingIsMore, CreatingIsNeither DEF Since
  <2>3. Less(t, tenant')
    BY <2>2, LessIsTransitive DEF GaveTo
  <2> QED BY <1>1, <2>2, <2>3 DEF GaveTo, AnswerCovers
<1> QED BY <1>2, <1>3, <1>4 DEF Since

LEMMA OneKindStep == Sane /\ OneKind /\ [Next]_vars => OneKind'
<1> SUFFICES ASSUME Sane, OneKind, [Next]_vars, query'.at # "idle"
             PROVE  \E t : Since(t)'
  BY DEF OneKind
<1>1. query \in QueryState /\ Idle.at = "idle"
  BY IdleTyped DEF Sane
<1>2. CASE ReadPermissions
  BY <1>2, SinceBegins
<1>3. CASE ReadNoRoles
  <2>1. PICK t : Since(t)
    BY <1>3 DEF OneKind, ReadNoRoles
  <2>2. query.roles = {} /\ tenant.assigned[Sub] = {}
    BY <1>3 DEF ReadNoRoles, Sane
  <2>3. onlyGave => t.assigned[Sub] \subseteq query.roles
    BY <2>1, <2>2, SubIs DEF Since, GaveTo, Less
  <2> QED BY <1>3, <2>1, <2>2, <2>3, SinceResolves DEF ReadNoRoles
<1>4. CASE ReadRoles
  <2>1. PICK t : Since(t)
    BY <1>4 DEF OneKind, ReadRoles
  <2> QED BY <1>4, <2>1, SinceRoles
<1>5. CASE ReadGrants
  <2>1. PICK t : Since(t)
    BY <1>5 DEF OneKind, ReadGrants
  <2>2. /\ onlyTook => query.roles \subseteq t.assigned[Sub]
        /\ onlyGave => t.assigned[Sub] \subseteq query.roles
    BY <1>5, <2>1 DEF ReadGrants, Since, TookFrom, GaveTo
  <2> QED BY <1>5, <2>1, <2>2, SinceResolves DEF ReadGrants
<1>6. ASSUME NEW o \in Operation, ReadIds(o)
      PROVE  \E t : Since(t)'
  <2>1. PICK t : Since(t)
    BY <1>6 DEF OneKind, ReadIds
  <2> QED BY <1>6, <2>1, SinceReads
<1>7. ~Return
  BY <1>1 DEF Return
<1>8. ~UpdateBetweenQueries
  BY DEF UpdateBetweenQueries
<1>9. CASE UpdateDuringQuery
  <2>1. PICK t : Since(t)
    BY <1>9 DEF OneKind, UpdateDuringQuery
  <2> QED BY <1>9, <2>1, SinceUpdates
<1>10. CASE UNCHANGED vars
  <2>1. PICK t : Since(t)
    BY <1>10 DEF OneKind, vars
  <2>2. Since(t)'
    BY <1>10, <2>1 DEF vars, history, Since, Began, TookFrom, GaveTo, AnswerWithin, AnswerCovers
  <2> QED BY <2>2
<1> QED BY <1>2, <1>3, <1>4, <1>5, <1>6, <1>7, <1>8, <1>9, <1>10 DEF Next

(* While every update that fell into a query takes away, all the query     *)
(* holds lies within the access in the tenant it began with; while every   *)
(* one gives, that access lies within what the query holds                 *)
(* (authz.go:25-135).                                                      *)
THEOREM QueryBounded == Spec => [](Sane /\ OneKind)
<1>1. Init => OneKind
  BY IdleTyped DEF Init, OneKind
<1> QED BY <1>1, SaneInit, SaneStep, OneKindStep, PTL DEF Spec

(* However many updates fall into a query, if each takes away or creates a *)
(* role, the answer is no wider than some access the user had meanwhile:   *)
(* roles deleted and created again under a name it has read, overrides     *)
(* removed that it resolved from, lend it nothing (authz.go:25-71,         *)
(* 108-135).                                                               *)
THEOREM TakingIsSafe == Spec => []TakingNeverWidensAnswer
<1>1. Sane /\ OneKind => TakingNeverWidensAnswer
  <2> SUFFICES ASSUME Sane, OneKind, Answered, onlyTook, NEW o \in Operation
               PROVE  \E a \in seen[o] : NoWiderThan(query.answer[o], a)
    BY DEF TakingNeverWidensAnswer
  <2>1. PICK t : Since(t)
    BY DEF OneKind, Answered
  <2>2. AnswerWithin(t) /\ Access(t, Sub, o) \in seen[o]
    BY <2>1 DEF Since, Began, TookFrom, Answered
  <2>3. NoWiderThan(query.answer[o], Access(t, Sub, o))
    BY <2>2 DEF AnswerWithin, NoWiderThan, Access
  <2> QED BY <2>2, <2>3
<1> QED BY <1>1, QueryBounded, PTL

(* And if each gives or creates a role, it is no narrower than some access *)
(* the user had meanwhile (authz.go:25-71, 108-135).                       *)
THEOREM GivingIsSafe == Spec => []GivingNeverNarrowsAnswer
<1>1. Sane /\ OneKind => GivingNeverNarrowsAnswer
  <2> SUFFICES ASSUME Sane, OneKind, Answered, onlyGave, NEW o \in Operation
               PROVE  \E a \in seen[o] : NoWiderThan(a, query.answer[o])
    BY DEF GivingNeverNarrowsAnswer
  <2>1. PICK t : Since(t)
    BY DEF OneKind, Answered
  <2>2. /\ AnswerCovers(t) /\ Access(t, Sub, o) \in seen[o] /\ o \notin query.todo
        /\ RestrictedIds(t, Sub, o) \subseteq query.answer[o].ids
             \/ query.answer[o].scope # "RESTRICTED"
    BY <2>1 DEF Since, Began, GaveTo, AnswerCovers, Answered
  <2>3. NoWiderThan(Access(t, Sub, o), query.answer[o])
    BY <2>2 DEF AnswerCovers, NoWiderThan, Access
  <2> QED BY <2>2, <2>3
<1> QED BY <1>1, QueryBounded, PTL

=============================================================================
