-------------------------- MODULE BootstrapProofs --------------------------
(***************************************************************************)
(* What start-ups and synchronizations promise, for any files, any number  *)
(* of configured tenants, roles, users, operations and record ids, and any *)
(* number of stops, restarts and changes by other handlers.                *)
(***************************************************************************)
EXTENDS Bootstrap, SequenceTheorems, WellFoundedInduction, TLAPS

(* What is proved of a tenant store's methods. *)
Store == INSTANCE TenantStoreProofs WITH tenant <- EmptyTenant

(* The instances' names stand for the same values. *)
LEMMA SameValues ==
    /\ Store!EmptyTenant = EmptyTenant /\ Store!Unset = Unset /\ Store!Scope = Scope
    /\ Store!NoPerms = NoPerms /\ Store!NoIds = NoIds /\ Store!Grant = Grant
    /\ Store!Subject = Subject /\ Store!TenantData = TenantData
  BY DEF Store!EmptyTenant, EmptyTenant, Store!NoPerms, NoPerms, Store!NoIds, NoIds,
         Store!Unset, Unset, Store!Scope, Scope, Store!Grant, Grant,
         Store!Subject, Subject, Store!TenantData, TenantData

LEMMA SameChanges ==
    \A t, r : /\ Data!AddRole(t, r) = Store!AddRole(t, r)
              /\ Data!DropRole(t, r) = Store!DropRole(t, r)
              /\ \A n : Data!MoveRole(t, r, n) = Store!MoveRole(t, r, n)
  BY DEF Data!AddRole, Store!AddRole, Data!DropRole, Store!DropRole,
         Data!MoveRole, Store!MoveRole,
         Data!NoPerms, Store!NoPerms, Data!NoIds, Store!NoIds, Data!Unset, Store!Unset

-----------------------------------------------------------------------------
(* One tenant's data *)

Good(t) ==
    /\ t \in TenantData
    /\ \A u \in User : t.assigned[u] \subseteq t.roles
    /\ \A r \in Role \ t.roles : t.perm[r] = NoPerms /\ t.ids[r] = NoIds

LEMMA SameGood == \A t : Store!Good(t) <=> Good(t)
  BY SameValues DEF Store!Good, Good

(* n holds all that t holds, and has the scopes of t. *)
Wider(t, n) ==
    /\ t.roles \subseteq n.roles
    /\ \A u \in User : t.assigned[u] \subseteq n.assigned[u]
    /\ \A s \in Subject, o \in Operation : t.ids[s][o] \subseteq n.ids[s][o]

(* EnsureRole (json.go:312-320). *)
LEMMA RoleEnsuredIs ==
    ASSUME NEW t, Good(t), NEW r \in Role
    PROVE  LET n == RoleEnsured(t, r)
           IN  /\ Good(n) /\ Wider(t, n) /\ n.perm = t.perm /\ r \in n.roles
               /\ r \in t.roles => n = t
<1> DEFINE n == RoleEnsured(t, r)
<1>1. CASE r \in t.roles
  BY <1>1 DEF RoleEnsured, Wider
<1>2. CASE r \notin t.roles
  <2>1. n = Data!AddRole(t, r)
    BY <1>2 DEF RoleEnsured
  <2>2. Good(n)
    BY <2>1, SameChanges, SameGood, SubjectsApart, Store!AddRoleIsGood
  <2>3. n.roles = t.roles \cup {r} /\ n.assigned = t.assigned
    BY <2>1 DEF Good, TenantData, Data!AddRole
  <2>4. t.perm[r] = NoPerms /\ t.ids[r] = NoIds
    BY <1>2 DEF Good
  <2>5. n.perm = [t.perm EXCEPT ![r] = NoPerms] /\ n.ids = [t.ids EXCEPT ![r] = NoIds]
    BY <2>1 DEF Good, TenantData, Data!AddRole, Data!NoPerms, NoPerms, Data!NoIds, NoIds,
                Data!Unset, Unset
  <2>6. n.perm = t.perm /\ n.ids = t.ids
    BY <2>4, <2>5 DEF Good, TenantData
  <2>7. r \in n.roles /\ Wider(t, n)
    BY <2>3, <2>6 DEF Wider
  <2> HIDE DEF n
  <2> QED BY <1>2, <2>2, <2>6, <2>7 DEF n
<1> QED BY <1>1, <1>2

(* AssignRole and UnassignRole of an existing role (json.go:367-405). *)
LEMMA AssignedIs ==
    ASSUME NEW t, Good(t), NEW u \in User, NEW r \in t.roles
    PROVE  LET n == [t EXCEPT !.assigned[u] = @ \cup {r}]
           IN  /\ Good(n) /\ Wider(t, n) /\ n.perm = t.perm /\ r \in n.assigned[u]
               /\ r \in t.assigned[u] => n = t
<1> DEFINE n == [t EXCEPT !.assigned[u] = @ \cup {r}]
<1>1. t \in TenantData /\ r \in Role
  BY DEF Good, TenantData
<1>2. /\ n \in TenantData /\ n.roles = t.roles /\ n.perm = t.perm /\ n.ids = t.ids
      /\ n.assigned = [t.assigned EXCEPT ![u] = @ \cup {r}]
  BY <1>1 DEF TenantData
<1>3. r \in t.assigned[u] => n = t
  BY <1>1 DEF TenantData
<1> HIDE DEF n
<1>4. \A v \in User : n.assigned[v] = IF v = u THEN t.assigned[v] \cup {r} ELSE t.assigned[v]
  BY <1>1, <1>2 DEF TenantData
<1> QED BY <1>2, <1>3, <1>4 DEF Good, Wider, n

(* SetRolePermission and SetUserPermission (json.go:416-425). *)
LEMMA GrantedIs ==
    ASSUME NEW t, Good(t), NEW s \in Subject, Known(t, s), NEW o \in Operation,
           NEW scope \in Scope
    PROVE  LET n == Granted(t, s, o, scope)
           IN  /\ Good(n) /\ Wider(t, n) /\ n.perm[s][o] = scope
               /\ \A x \in Subject, p \in Operation :
                     n.perm[x][p] = t.perm[x][p] \/ (x = s /\ p = o)
               /\ n.roles = t.roles
               /\ t.perm[s][o] = scope => n = t
<1> DEFINE n == Granted(t, s, o, scope)
<1>1. t \in TenantData
  BY DEF Good
<1>2. /\ n \in TenantData /\ n.roles = t.roles /\ n.assigned = t.assigned /\ n.ids = t.ids
      /\ n.perm = [t.perm EXCEPT ![s] = [t.perm[s] EXCEPT ![o] = scope]]
  BY <1>1 DEF TenantData, Granted, Grant
<1>3. t.perm[s][o] = scope => n = t
  BY <1>1 DEF TenantData, Granted
<1> HIDE DEF n
<1>4. \A x \in Subject \ {s} : n.perm[x] = t.perm[x]
  BY <1>1, <1>2 DEF TenantData
<1>5. n.perm[s][o] = scope /\ \A p \in Operation \ {o} : n.perm[s][p] = t.perm[s][p]
  BY <1>1, <1>2 DEF TenantData
<1>6. \A r \in Role \ t.roles : r # s /\ r \in Subject
  BY SubjectsApart DEF Known, Subject
<1> QED BY <1>2, <1>3, <1>4, <1>5, <1>6 DEF Good, Wider, n

(* AddRoleRestrictedIDs and AddUserRestrictedIDs (json.go:513-524). *)
LEMMA IdsAddedIs ==
    ASSUME NEW t, Good(t), NEW s \in Subject, Known(t, s), NEW o \in Operation,
           NEW new \in SUBSET RecordId
    PROVE  LET n == IdsAdded(t, s, o, new)
           IN  /\ Good(n) /\ Wider(t, n) /\ n.perm = t.perm /\ new \subseteq n.ids[s][o]
               /\ new \subseteq t.ids[s][o] => n = t
<1> DEFINE n == IdsAdded(t, s, o, new)
<1>1. t \in TenantData
  BY DEF Good
<1>2. /\ n \in TenantData /\ n.roles = t.roles /\ n.assigned = t.assigned /\ n.perm = t.perm
      /\ n.ids = [t.ids EXCEPT ![s] = [t.ids[s] EXCEPT ![o] = t.ids[s][o] \cup new]]
  <2>1. n = [t EXCEPT !.ids[s][o] = t.ids[s][o] \cup new]
    BY DEF IdsAdded
  <2>2. t.ids[s][o] \cup new \in SUBSET RecordId
    BY <1>1 DEF TenantData
  <2> HIDE DEF n
  <2> QED BY <1>1, <2>1, <2>2 DEF TenantData
<1>3. ASSUME new \subseteq t.ids[s][o] PROVE n = t
  <2>1. t.ids[s][o] \cup new = t.ids[s][o]
    BY <1>3
  <2>2. n.ids = t.ids
    BY <1>1, <1>2, <2>1 DEF TenantData
  <2> HIDE DEF n
  <2> QED BY <1>1, <1>2, <2>2 DEF TenantData
<1> HIDE DEF n
<1>4. \A x \in Subject \ {s} : n.ids[x] = t.ids[x]
  BY <1>1, <1>2 DEF TenantData
<1>5. /\ n.ids[s][o] = t.ids[s][o] \cup new
      /\ \A p \in Operation \ {o} : n.ids[s][p] = t.ids[s][p]
  BY <1>1, <1>2 DEF TenantData
<1>6. \A r \in Role \ t.roles : r # s /\ r \in Subject
  BY SubjectsApart DEF Known, Subject
<1> QED BY <1>2, <1>3, <1>4, <1>5, <1>6 DEF Good, Wider, n

(* The changes of other handlers. *)
LEMMA UpdatedIsGood ==
    ASSUME NEW t, Good(t), NEW n \in Updated(t)
    PROVE  Good(n)
<1>1. t \in TenantData
  BY DEF Good
<1>2. CASE \E r \in t.roles : n = Data!DropRole(t, r)
  <2>1. PICK r \in Role : n = Data!DropRole(t, r)
    BY <1>1, <1>2 DEF TenantData
  <2> QED BY <2>1, SameChanges, SameGood, SubjectsApart, Store!DropRoleIsGood
<1>3. CASE \E u \in User, r \in Role : n = Unassigned(t, u, r)
  <2>1. PICK u \in User, r \in Role : n = Unassigned(t, u, r)
    BY <1>3
  <2>2. t.assigned \in [User -> SUBSET Role] /\ t.assigned[u] \in SUBSET Role
    BY <1>1 DEF TenantData
  <2>3. /\ n.roles = t.roles /\ n.perm = t.perm /\ n.ids = t.ids
        /\ n.assigned = [t.assigned EXCEPT ![u] = t.assigned[u] \ {r}]
    BY <1>1, <2>1 DEF TenantData, Unassigned
  <2>4. n = [t EXCEPT !.assigned = n.assigned]
    BY <1>1, <2>1, <2>3 DEF TenantData, Unassigned
  <2>5. n.assigned \in [User -> SUBSET Role]
    BY <2>2, <2>3
  <2>6. n \in TenantData
    BY <1>1, <2>4, <2>5 DEF TenantData
  <2>7. \A x \in User : n.assigned[x] \subseteq t.assigned[x]
    BY <2>2, <2>3
  <2> QED BY <2>3, <2>6, <2>7 DEF Good
<1>4. CASE \E s \in t.roles \cup User, o \in Operation, scope \in Scope : n = Granted(t, s, o, scope)
  <2>1. PICK s \in Subject, o \in Operation, scope \in Scope :
           s \in t.roles \cup User /\ n = Granted(t, s, o, scope)
    BY <1>1, <1>4 DEF TenantData, Subject
  <2> QED BY <2>1, GrantedIs DEF Known
<1>5. CASE \E s \in Subject, o \in Operation : n = Ungranted(t, s, o)
  <2>1. PICK s \in Subject, o \in Operation : n = Ungranted(t, s, o)
    BY <1>5
  <2>2. /\ n.roles = t.roles /\ n.assigned = t.assigned /\ n \in TenantData
        /\ n.perm = [t.perm EXCEPT ![s] = [t.perm[s] EXCEPT ![o] = Unset]]
        /\ n.ids = [t.ids EXCEPT ![s] = [t.ids[s] EXCEPT ![o] = {}]]
    BY <1>1, <2>1 DEF TenantData, Grant, Ungranted
  <2>3. ASSUME NEW r \in Role \ t.roles
        PROVE  n.perm[r] = NoPerms /\ n.ids[r] = NoIds
    <3>1. t.perm[r] = NoPerms /\ t.ids[r] = NoIds /\ r \in Subject
      BY DEF Good, Subject
    <3>2. CASE r = s
      <4>1. n.perm[r] = [t.perm[r] EXCEPT ![o] = Unset] /\ n.ids[r] = [t.ids[r] EXCEPT ![o] = {}]
        BY <1>1, <2>2, <3>1, <3>2 DEF TenantData
      <4>2. [NoPerms EXCEPT ![o] = Unset] = NoPerms /\ [NoIds EXCEPT ![o] = {}] = NoIds
        BY DEF NoPerms, NoIds
      <4> QED BY <3>1, <4>1, <4>2
    <3>3. CASE r # s
      BY <1>1, <2>2, <3>1, <3>3 DEF TenantData
    <3> QED BY <3>2, <3>3
  <2>4. \A u \in User : n.assigned[u] \subseteq n.roles
    BY <2>2 DEF Good
  <2> QED BY <2>2, <2>3, <2>4 DEF Good
<1>6. CASE \E r \in t.roles, new \in Role \ t.roles : n = Data!MoveRole(t, r, new)
  <2>1. PICK r \in t.roles, new \in Role \ t.roles : n = Data!MoveRole(t, r, new)
    BY <1>6
  <2>2. n = Store!MoveRole(t, r, new) /\ Store!Good(t)
    BY <2>1, SameChanges, SameGood
  <2>3. Store!Good(n)
    BY <2>1, <2>2, SubjectsApart, Store!MoveRoleIsGood
  <2> QED BY <2>3, SameGood
<1>7. CASE \E s \in Subject, o \in Operation, old \in SUBSET RecordId : n = IdsRemoved(t, s, o, old)
  <2>1. PICK s \in Subject, o \in Operation, old \in SUBSET RecordId : n = IdsRemoved(t, s, o, old)
    BY <1>7
  <2>2. t.ids[s][o] \ old \in SUBSET RecordId
    BY <1>1 DEF TenantData
  <2>3. /\ n.roles = t.roles /\ n.assigned = t.assigned /\ n.perm = t.perm /\ n \in TenantData
        /\ n.ids = [t.ids EXCEPT ![s] = [t.ids[s] EXCEPT ![o] = t.ids[s][o] \ old]]
    BY <1>1, <2>1, <2>2 DEF TenantData, IdsRemoved
  <2>4. ASSUME NEW r \in Role \ t.roles
        PROVE  n.perm[r] = NoPerms /\ n.ids[r] = NoIds
    <3>1. t.perm[r] = NoPerms /\ t.ids[r] = NoIds /\ r \in Subject
      BY DEF Good, Subject
    <3>2. CASE r = s
      <4>1. n.ids[r] = [NoIds EXCEPT ![o] = NoIds[o] \ old]
        BY <1>1, <2>3, <3>1, <3>2 DEF TenantData
      <4>2. [NoIds EXCEPT ![o] = NoIds[o] \ old] = NoIds
        BY DEF NoIds
      <4> QED BY <2>3, <3>1, <4>1, <4>2
    <3>3. CASE r # s
      BY <1>1, <2>3, <3>1, <3>3 DEF TenantData
    <3> QED BY <3>2, <3>3
  <2> QED BY <2>3, <2>4 DEF Good
<1>8. \/ \E r \in t.roles : n = Data!DropRole(t, r)
      \/ \E r \in t.roles, new \in Role \ t.roles : n = Data!MoveRole(t, r, new)
      \/ \E u \in User, r \in Role : n = Unassigned(t, u, r)
      \/ \E s \in t.roles \cup User, o \in Operation, scope \in Scope : n = Granted(t, s, o, scope)
      \/ \E s \in Subject, o \in Operation : n = Ungranted(t, s, o)
      \/ \E s \in Subject, o \in Operation, old \in SUBSET RecordId : n = IdsRemoved(t, s, o, old)
  BY DEF Updated
<1> QED BY <1>2, <1>3, <1>4, <1>5, <1>6, <1>7, <1>8

-----------------------------------------------------------------------------
(* The entries that syncFile and BootstrapMeta apply                       *)

InTenant == {"role", "user", "assign", "grant", "set"}

IsEntry(e) ==
    /\ e.do \in {"resource", "operation", "provision", "tenant"} \cup InTenant
    /\ e.do = "resource" => e.resource \in Resource
    /\ e.do = "operation" => e.operation \in Operation
    /\ e.do = "role" => e.subject \in Role
    /\ e.do \in {"provision", "user", "assign"} => e.subject \in User
    /\ e.do = "assign" => e.role \in Role
    /\ e.do \in {"grant", "set"} =>
          /\ e.subject \in Subject /\ e.operation \in Operation /\ e.ids \subseteq RecordId
          /\ e = [do |-> e.do, tenant |-> e.tenant, subject |-> e.subject,
                  operation |-> e.operation, scope |-> e.scope, ids |-> e.ids]
    /\ e.do = "set" => e.scope = "FULL" /\ e.ids = {}

Lookup(t) == [do |-> "tenant", tenant |-> t]
RoleCreation(t, r) == [do |-> "role", tenant |-> t, subject |-> r]
Registration(o) == [do |-> "operation", operation |-> o]

(* Whatever an entry needs is in its file, but for the roles it assigns.   *)
Sound(f) ==
    \A e \in f :
        /\ IsEntry(e)
        /\ e.do \in InTenant => e.tenant \in Configured \/ Lookup(e.tenant) \in f
        /\ e.do \in {"grant", "set"} /\ e.subject \in Role =>
              RoleCreation(e.tenant, e.subject) \in f
        /\ e.do \in {"assign", "grant", "set"} /\ e.subject \in User =>
              \E g \in f : g.do \in {"provision", "user"} /\ g.subject = e.subject
        /\ e.do = "set" => Registration(e.operation) \in f
        /\ \A g \in f : SameGrant(e, g) => e = g

(* A readable file, made of the maps of BootstrapFile (sync.go:20-61).     *)
LEMMA FileIsSound ==
    ASSUME NEW f, IsFile(f), Unreadable \notin f
    PROVE  Sound(f)
<1> SUFFICES ASSUME NEW e \in f
             PROVE  /\ IsEntry(e)
                    /\ e.do \in InTenant => e.tenant \in Configured \/ Lookup(e.tenant) \in f
                    /\ e.do \in {"grant", "set"} /\ e.subject \in Role =>
                          RoleCreation(e.tenant, e.subject) \in f
                    /\ e.do \in {"assign", "grant", "set"} /\ e.subject \in User =>
                          \E g \in f : g.do \in {"provision", "user"} /\ g.subject = e.subject
                    /\ e.do = "set" => Registration(e.operation) \in f
                    /\ \A g \in f : SameGrant(e, g) => e = g
  BY DEF Sound
<1>1. e \in FileEntry /\ e # Unreadable
  BY DEF IsFile
<1>2. /\ e.do \in {"role", "user", "assign", "grant"} => Lookup(e.tenant) \in f
      /\ e.do \in {"assign", "grant"} => Creation(e.tenant, e.subject) \in f
      /\ \A g \in f : SameGrant(e, g) => e = g
  BY DEF IsFile, Lookup
<1>3. IsEntry(e) /\ e.do # "set"
  <2>1. CASE e \in [do : {"resource"}, resource : Resource]
    BY <2>1 DEF IsEntry, InTenant
  <2>2. CASE e \in [do : {"operation"}, operation : Operation]
    BY <2>2 DEF IsEntry, InTenant
  <2>3. CASE e \in [do : {"tenant"}, tenant : TenantName]
    BY <2>3 DEF IsEntry, InTenant
  <2>4. CASE e \in [do : {"role"}, tenant : TenantName, subject : Role]
    BY <2>4 DEF IsEntry, InTenant
  <2>5. CASE e \in [do : {"user"}, tenant : TenantName, subject : User]
    BY <2>5 DEF IsEntry, InTenant
  <2>6. CASE e \in [do : {"assign"}, tenant : TenantName, subject : User, role : Role]
    BY <2>6 DEF IsEntry, InTenant
  <2>7. CASE e \in [do : {"grant"}, tenant : TenantName, subject : Subject,
                    operation : Operation, scope : STRING, ids : SUBSET RecordId]
    BY <2>7 DEF IsEntry, InTenant
  <2> QED BY <1>1, <2>1, <2>2, <2>3, <2>4, <2>5, <2>6, <2>7 DEF FileEntry
<1>4. CASE e.do \in {"assign", "grant"} /\ e.subject \in User
  <2>1. Creation(e.tenant, e.subject)
          = [do |-> "user", tenant |-> e.tenant, subject |-> e.subject]
    BY <1>4, SubjectsApart DEF Creation
  <2> QED BY <1>2, <1>3, <1>4, <2>1, SubjectsApart DEF InTenant
<1>5. CASE e.do \in {"assign", "grant"} /\ e.subject \in Role
  <2>1. Creation(e.tenant, e.subject) = RoleCreation(e.tenant, e.subject)
    BY <1>5 DEF Creation, RoleCreation
  <2> QED BY <1>2, <1>3, <1>5, <2>1, SubjectsApart DEF InTenant
<1>6. CASE e.do \notin {"assign", "grant"}
  BY <1>2, <1>3, <1>6 DEF InTenant
<1>7. e.do = "assign" => e.subject \in User
  BY <1>3 DEF IsEntry
<1>8. e.do = "grant" => e.subject \in Role \cup User
  BY <1>3 DEF IsEntry, Subject
<1> QED BY <1>4, <1>5, <1>6, <1>7, <1>8

(* What BootstrapMeta applies (sync.go:194-227).                           *)
LEMMA MetaIsSound == Sound(MetaFile) /\ Unreadable \notin MetaFile
<1> DEFINE Registered == {[do |-> "operation", operation |-> o] : o \in MetaOperation}
           Provisioned == {[do |-> "provision", subject |-> AdminSub]}
           Created == {[do |-> "role", tenant |-> t, subject |-> AdminRole] : t \in Configured}
           Set == {[do |-> "set", tenant |-> t, subject |-> AdminRole,
                    operation |-> o, scope |-> "FULL", ids |-> {}] :
                     t \in Configured, o \in MetaOperation}
           Assigned == {[do |-> "assign", tenant |-> t, subject |-> AdminSub,
                         role |-> AdminRole] : t \in Configured}
<1>1. MetaFile = Registered \cup Provisioned \cup Created \cup Set \cup Assigned
  BY DEF MetaFile
<1>2. ASSUME NEW e \in MetaFile
      PROVE  \/ /\ e.do = "operation" /\ e.operation \in MetaOperation
             \/ e.do = "provision" /\ e.subject = AdminSub
             \/ e.do = "role" /\ e.tenant \in Configured /\ e.subject = AdminRole
             \/ \E t \in Configured, o \in MetaOperation :
                   e = [do |-> "set", tenant |-> t, subject |-> AdminRole,
                        operation |-> o, scope |-> "FULL", ids |-> {}]
             \/ /\ e.do = "assign" /\ e.tenant \in Configured
                /\ e.subject = AdminSub /\ e.role = AdminRole
  <2>1. CASE e \in Registered
    BY <2>1
  <2>2. CASE e \in Provisioned
    BY <2>2
  <2>3. CASE e \in Created
    BY <2>3
  <2>4. CASE e \in Set
    BY <2>4
  <2>5. CASE e \in Assigned
    BY <2>5
  <2> HIDE DEF Registered, Provisioned, Created, Set, Assigned
  <2> QED BY <1>1, <2>1, <2>2, <2>3, <2>4, <2>5
<1>3. /\ \A o \in MetaOperation : Registration(o) \in MetaFile
      /\ \A t \in Configured : RoleCreation(t, AdminRole) \in MetaFile
      /\ [do |-> "provision", subject |-> AdminSub] \in MetaFile
  <2>1. \A o \in MetaOperation : Registration(o) \in Registered
    BY DEF Registration
  <2>2. \A t \in Configured : RoleCreation(t, AdminRole) \in Created
    BY DEF RoleCreation
  <2>3. [do |-> "provision", subject |-> AdminSub] \in Provisioned
    OBVIOUS
  <2> HIDE DEF Registered, Provisioned, Created, Set, Assigned
  <2> QED BY <1>1, <2>1, <2>2, <2>3
<1> HIDE DEF Registered, Provisioned, Created, Set, Assigned
<1>4. ASSUME NEW e \in MetaFile
      PROVE  /\ IsEntry(e) /\ e # Unreadable
             /\ e.do \in InTenant => e.tenant \in Configured
             /\ e.do \in {"grant", "set"} => e.do = "set" /\ e.subject = AdminRole
             /\ e.do = "assign" => e.subject = AdminSub
             /\ e.do = "set" => e.operation \in MetaOperation
             /\ \A g \in MetaFile : SameGrant(e, g) => e = g
  <2>1. CASE \/ e.do = "operation" /\ e.operation \in MetaOperation
             \/ e.do = "provision" /\ e.subject = AdminSub
             \/ e.do = "role" /\ e.tenant \in Configured /\ e.subject = AdminRole
             \/ /\ e.do = "assign" /\ e.tenant \in Configured
                /\ e.subject = AdminSub /\ e.role = AdminRole
    BY <2>1, AdminIsDeclared DEF IsEntry, InTenant, Unreadable, SameGrant, Grants
  <2>2. CASE \E t \in Configured, o \in MetaOperation :
                e = [do |-> "set", tenant |-> t, subject |-> AdminRole,
                     operation |-> o, scope |-> "FULL", ids |-> {}]
    <3>1. PICK t \in Configured, o \in MetaOperation :
             e = [do |-> "set", tenant |-> t, subject |-> AdminRole,
                  operation |-> o, scope |-> "FULL", ids |-> {}]
      BY <2>2
    <3>2. ASSUME NEW g \in MetaFile, SameGrant(e, g)
          PROVE  e = g
      <4>1. g.do \in {"grant", "set"}
        BY <3>2 DEF SameGrant, Grants
      <4>2. PICK x \in Configured, p \in MetaOperation :
               g = [do |-> "set", tenant |-> x, subject |-> AdminRole,
                    operation |-> p, scope |-> "FULL", ids |-> {}]
        BY <1>2, <4>1
      <4> QED BY <3>1, <3>2, <4>2 DEF SameGrant
    <3>3. IsEntry(e) /\ e # Unreadable
      BY <3>1, AdminIsDeclared DEF IsEntry, InTenant, Unreadable, Subject
    <3> QED BY <3>1, <3>2, <3>3 DEF InTenant
  <2> QED BY <1>2, <2>1, <2>2
<1>5. ASSUME NEW e \in MetaFile
      PROVE  /\ e.do \in {"grant", "set"} /\ e.subject \in Role =>
                   RoleCreation(e.tenant, e.subject) \in MetaFile
             /\ e.do \in {"assign", "grant", "set"} /\ e.subject \in User =>
                   \E g \in MetaFile : g.do \in {"provision", "user"} /\ g.subject = e.subject
             /\ e.do = "set" => Registration(e.operation) \in MetaFile
  <2>1. CASE e.do \in {"grant", "set"}
    <3>1. /\ e.do = "set" /\ e.subject = AdminRole /\ e.tenant \in Configured
          /\ e.operation \in MetaOperation
      BY <1>4, <2>1 DEF InTenant
    <3>2. e.subject \notin User
      BY <3>1, AdminIsDeclared, SubjectsApart
    <3> QED BY <1>3, <3>1, <3>2
  <2>2. CASE e.do = "assign"
    <3>1. e.subject = AdminSub
      BY <1>4, <2>2
    <3>2. [do |-> "provision", subject |-> AdminSub] \in MetaFile
      BY <1>3
    <3> QED BY <2>2, <3>1, <3>2
  <2> QED BY <2>1, <2>2
<1>6. Unreadable \notin MetaFile
  BY <1>4
<1> QED BY <1>4, <1>5, <1>6 DEF Sound

(* What a loop puts before what (sync.go:125-192).                         *)
LEMMA Precedes ==
    ASSUME NEW x, NEW y
    PROVE  /\ x.do = "tenant" /\ y.do \in InTenant /\ x.tenant = y.tenant => Before(x, y)
           /\ /\ x.do = "role" /\ y.do \in {"grant", "set"}
              /\ x.tenant = y.tenant /\ x.subject = y.subject
              => Before(x, y)
           /\ /\ x.do = "role" /\ x.subject \in Role /\ y.do = "assign" /\ y.subject \in User
              /\ x.tenant = y.tenant
              => Before(x, y)
           /\ x.do = "operation" /\ y.do = "set" => Before(x, y)
<1>1. /\ \A e : e.do \in InTenant \cup {"tenant"} => Part(e) = 4
      /\ \A e : e.do = "operation" => Part(e) = 2
  BY DEF Part, InTenant
<1>2. /\ \A e : e.do = "role" => Turn(e) = 1
      /\ \A e : e.do \in {"grant", "set"} => Turn(e) = 3
  BY DEF Turn
<1>3. ASSUME x.do = "tenant", y.do \in InTenant, x.tenant = y.tenant
      PROVE  Before(x, y)
  BY <1>1, <1>3 DEF Before, InOneTenant, IsLookup, InTenant
<1>4. ASSUME x.do = "role", y.do \in {"grant", "set"}, x.tenant = y.tenant, x.subject = y.subject
      PROVE  Before(x, y)
  BY <1>1, <1>2, <1>4 DEF Before, InOneTenant, IsLookup, InTenant
<1>5. ASSUME x.do = "role", x.subject \in Role, y.do = "assign", y.subject \in User,
             x.tenant = y.tenant
      PROVE  Before(x, y)
  BY <1>1, <1>5 DEF Before, InOneTenant, IsLookup, InTenant
<1>6. ASSUME x.do = "operation", y.do = "set"
      PROVE  Before(x, y)
  BY <1>1, <1>6 DEF Before, InTenant
<1> QED BY <1>3, <1>4, <1>5, <1>6

-----------------------------------------------------------------------------
(* Where the start-up or synchronization is in the files it applies        *)

(* Files that are applied; of the k-th file, what is left and was taken.   *)
Done == Len(Whole) - Len(todo)
Left(k) == IF k <= Done THEN {} ELSE todo[k - Done]
Taken(k) == Whole[k] \ Left(k)

(* The entry e is in progress: it is now, or now is a later stage of it.   *)
Staged(e) ==
    /\ e.do = "grant" /\ now.do \in {"set", "ids"}
    /\ now = [do |-> now.do, tenant |-> e.tenant, subject |-> e.subject,
              operation |-> e.operation, scope |-> e.scope, ids |-> e.ids]

Stage(e) == now # Nothing /\ (now = e \/ Staged(e))
InHand(k, e) == k = Done + 1 /\ Stage(e)

Plans == Seq(SUBSET (FileEntry \cup MetaFile))

OnPlan ==
    /\ Whole \in Plans
    /\ \A k \in DOMAIN Whole : Sound(Whole[k])
    /\ todo \in Plans /\ Len(todo) <= Len(Whole)
    /\ \A k \in DOMAIN Whole :
          /\ Left(k) \subseteq Whole[k]
          /\ k > Done + 1 => Left(k) = Whole[k]
    /\ now # Nothing =>
          /\ todo # <<>>
          /\ \E e \in Taken(Done + 1) : Stage(e) /\ \A x \in Head(todo) : ~Before(x, e)

(* What was taken and is not in progress is done.                          *)
Settled ==
    \A k \in DOMAIN Whole : \A e \in Taken(k) :
        /\ e.do \in InTenant => e.tenant \in Configured
        /\ ~InHand(k, e) => /\ e.do = "tenant" => e.tenant \in Configured
                            /\ ~disturbed => Holds(Whole, k, e)

(* What the stages of a grant have seen to.                                *)
HalfGranted ==
    now # Nothing =>
       \A e \in Taken(Done + 1) :
          Staged(e) =>
             /\ e.scope \in Scope
             /\ ~disturbed =>
                   /\ e.operation \in shared.operations
                   /\ now.do = "ids" =>
                         /\ Known(tenants[e.tenant], e.subject)
                         /\ tenants[e.tenant].perm[e.subject][e.operation] = e.scope

StoresOK ==
    /\ shared \in Shared!SharedData
    /\ tenants \in [Configured -> TenantData]
    /\ \A t \in Configured : Good(tenants[t])

ControlOK ==
    /\ files \in FileLists
    /\ loaded \in FileLists \cup {<<>>}
    /\ phase \in Phase
    /\ failed \in Phase \cup {"none"} /\ disturbed \in BOOLEAN
    /\ updates \in 0 .. MaxUpdates /\ stops \in 0 .. MaxStops
    /\ phase \in {"down", "serving"} => todo = <<>> /\ now = Nothing
    /\ phase = "meta" => loaded = <<>>
    /\ phase \in {"meta", "starting"} => ~disturbed

Applying == phase \in {"meta", "starting", "syncing"}

IInv ==
    /\ StoresOK /\ ControlOK
    /\ Applying => OnPlan /\ Settled /\ HalfGranted
    /\ FailsForAReason

LEMMA IInvImpliesInv == IInv => Inv
  BY DEF IInv, StoresOK, ControlOK, Inv, TypeOK

LEMMA Position ==
    ASSUME OnPlan
    PROVE  /\ Len(Whole) \in Nat /\ Len(todo) \in Nat /\ Done \in Nat
           /\ DOMAIN Whole = 1 .. Len(Whole) /\ DOMAIN todo = 1 .. Len(todo)
           /\ \A k \in DOMAIN Whole : k <= Done => Left(k) = {} /\ Taken(k) = Whole[k]
           /\ todo # <<>> => /\ Done + 1 \in DOMAIN Whole /\ Left(Done + 1) = Head(todo)
                             /\ Head(todo) = todo[1] /\ Len(todo) > 0
                             /\ Head(todo) \subseteq Whole[Done + 1]
<1>1. /\ Len(Whole) \in Nat /\ Len(todo) \in Nat /\ Len(todo) <= Len(Whole)
      /\ DOMAIN Whole = 1 .. Len(Whole) /\ DOMAIN todo = 1 .. Len(todo)
  BY LenProperties DEF OnPlan, Plans
<1>2. Done \in Nat
  BY <1>1 DEF Done
<1>3. \A k \in DOMAIN Whole : k <= Done => Left(k) = {} /\ Taken(k) = Whole[k]
  BY DEF Left, Taken
<1>4. CASE todo # <<>>
  <2>1. Len(todo) > 0 /\ Head(todo) = todo[1]
    BY <1>1, <1>4, EmptySeq DEF OnPlan, Plans
  <2>2. Done + 1 \in DOMAIN Whole
    BY <1>1, <2>1 DEF Done
  <2>3. Left(Done + 1) = todo[1]
    BY <1>2 DEF Left
  <2> QED BY <1>1, <1>2, <1>3, <2>1, <2>2, <2>3 DEF OnPlan
<1> QED BY <1>1, <1>2, <1>3, <1>4

LEMMA StageFields ==
    ASSUME NEW e, Stage(e)
    PROVE  /\ now = e \/ (e.do = "grant" /\ now.do \in {"set", "ids"})
           /\ now # e => /\ now.tenant = e.tenant /\ now.subject = e.subject
                         /\ now.operation = e.operation
                         /\ now.scope = e.scope /\ now.ids = e.ids
  BY DEF Stage, Staged

(* At most one entry of a file is in progress: its maps have each key once *)
(* (sync.go:44-61).                                                        *)
LEMMA StageUnique ==
    ASSUME NEW f, Sound(f), NEW x \in f, NEW y \in f, Stage(x), Stage(y)
    PROVE  x = y
<1>1. x.do # "ids" /\ y.do # "ids"
  BY DEF Sound, IsEntry, InTenant
<1>2. CASE now = x /\ now = y
  BY <1>2
<1>3. CASE now # x \/ now # y
  <2>1. Grants(x) /\ Grants(y)
    BY <1>1, <1>3, StageFields DEF Grants
  <2>2. x.tenant = y.tenant /\ x.subject = y.subject /\ x.operation = y.operation
    BY <1>3, StageFields
  <2>3. SameGrant(x, y)
    BY <2>1, <2>2 DEF SameGrant
  <2> QED BY <2>3 DEF Sound
<1> QED BY <1>2, <1>3

(* The entry h in progress, and what it needs from its file.               *)
Current(h) ==
    /\ todo # <<>> /\ Done + 1 \in DOMAIN Whole
    /\ h \in Taken(Done + 1) /\ h \in Whole[Done + 1] /\ Stage(h)
    /\ \A x \in Head(todo) : ~Before(x, h)
    /\ IsEntry(h) /\ Sound(Whole[Done + 1])
    /\ h.do \in InTenant => h.tenant \in Configured
    /\ \A g \in Whole[Done + 1] :
          Before(g, h) /\ g.do # h.do =>
             /\ g \in Taken(Done + 1) /\ ~InHand(Done + 1, g)
             /\ ~disturbed => Holds(Whole, Done + 1, g)

LEMMA SomeCurrent ==
    ASSUME OnPlan, Settled, now # Nothing
    PROVE  \E h : Current(h)
<1>1. PICK h \in Taken(Done + 1) : Stage(h) /\ \A x \in Head(todo) : ~Before(x, h)
  BY DEF OnPlan
<1>2. /\ todo # <<>> /\ Done + 1 \in DOMAIN Whole /\ Left(Done + 1) = Head(todo)
      /\ Sound(Whole[Done + 1]) /\ h \in Whole[Done + 1]
  BY Position DEF OnPlan, Taken
<1>3. IsEntry(h)
  BY <1>2 DEF Sound
<1>4. h.do \in InTenant => h.tenant \in Configured
  BY <1>2 DEF Settled
<1>5. ASSUME NEW g \in Whole[Done + 1], Before(g, h), g.do # h.do
      PROVE  /\ g \in Taken(Done + 1) /\ ~InHand(Done + 1, g)
             /\ ~disturbed => Holds(Whole, Done + 1, g)
  <2>1. g \in Taken(Done + 1)
    BY <1>1, <1>2, <1>5 DEF Taken
  <2>2. ~InHand(Done + 1, g)
    BY <1>1, <1>2, <1>5, StageUnique DEF InHand
  <2> QED BY <1>2, <2>1, <2>2 DEF Settled
<1> QED BY <1>1, <1>2, <1>3, <1>4, <1>5 DEF Current

LEMMA NowIs ==
    ASSUME NEW h, Current(h)
    PROVE  /\ now # Nothing
           /\ now.do \notin {"set", "ids"} => now = h
           /\ now.do = "set" => h.do \in {"grant", "set"}
           /\ now.do = "ids" => h.do = "grant"
           /\ now.do \in {"grant", "set", "ids"} =>
                 /\ now.tenant = h.tenant /\ now.subject = h.subject
                 /\ now.operation = h.operation /\ now.scope = h.scope /\ now.ids = h.ids
                 /\ h.tenant \in Configured /\ h.subject \in Subject
                 /\ h.operation \in Operation /\ h.ids \subseteq RecordId
                 /\ h.do \in {"grant", "set"}
<1>1. IsEntry(h) /\ h.do # "ids" /\ Stage(h)
  BY DEF Current, IsEntry, InTenant
<1>2. now # Nothing /\ (now.do \notin {"set", "ids"} => now = h)
  BY <1>1, StageFields DEF Stage
<1>3. (now.do = "set" => h.do \in {"grant", "set"}) /\ (now.do = "ids" => h.do = "grant")
  BY <1>1, StageFields
<1>4. ASSUME now.do \in {"grant", "set", "ids"}
      PROVE  /\ now.tenant = h.tenant /\ now.subject = h.subject
             /\ now.operation = h.operation /\ now.scope = h.scope /\ now.ids = h.ids
             /\ h.do \in {"grant", "set"}
  BY <1>1, <1>2, <1>3, <1>4, StageFields
<1>5. h.do \in {"grant", "set"} =>
         /\ h.tenant \in Configured /\ h.subject \in Subject
         /\ h.operation \in Operation /\ h.ids \subseteq RecordId
  BY DEF Current, IsEntry, InTenant
<1> QED BY <1>2, <1>3, <1>4, <1>5

-----------------------------------------------------------------------------
(* The steps only add, and set the permission of the entry in progress.    *)

SharedGrown ==
    /\ shared' \in Shared!SharedData
    /\ shared.users \subseteq shared'.users /\ shared.resources \subseteq shared'.resources
    /\ shared.operations \subseteq shared'.operations

Grown ==
    /\ SharedGrown
    /\ \A t \in Configured : Wider(tenants[t], tenants'[t])
    /\ \A t \in Configured, s \in Subject, o \in Operation :
          \/ tenants'[t].perm[s][o] = tenants[t].perm[s][o]
          \/ /\ now.do = "set" /\ now.tenant = t /\ now.subject = s /\ now.operation = o
             /\ tenants'[t].perm[s][o] = now.scope

(* So what was declared elsewhere still holds, or is overridden here.      *)
LEMMA GrownKeepsHolds ==
    ASSUME Grown, NEW h, Current(h), NEW W, W = Whole, NEW k \in DOMAIN W, NEW e \in W[k],
           Sound(W[k]), e.do \in InTenant => e.tenant \in Configured,
           k < Done + 1 \/ (k = Done + 1 /\ e # h), Holds(W, k, e)
    PROVE  Holds(W, k, e)'
<1>1. IsEntry(e)
  BY DEF Sound
<1>2. e.do \in InTenant => Wider(tenants[e.tenant], tenants'[e.tenant])
  BY DEF Grown
<1>3. /\ e.do = "resource" => e.resource \in shared'.resources
      /\ e.do \in {"operation", "grant"} => e.operation \in shared'.operations
      /\ e.do \in {"provision", "user"} => e.subject \in shared'.users
  BY DEF Grown, SharedGrown, Holds
<1>4. e.do = "role" => e.subject \in tenants'[e.tenant].roles
  BY <1>2 DEF Holds, Wider, InTenant
<1>5. e.do = "assign" => e.role \in tenants'[e.tenant].assigned[e.subject]
  BY <1>1, <1>2 DEF Holds, Wider, InTenant, IsEntry
<1>6. ASSUME Grants(e)
      PROVE  /\ e.ids \subseteq tenants'[e.tenant].ids[e.subject][e.operation]
             /\ \/ tenants'[e.tenant].perm[e.subject][e.operation] = e.scope
                \/ \E j \in DOMAIN W : j > k /\ \E f \in W[j] : SameGrant(e, f)
  <2>1. /\ e.do \in {"grant", "set"} /\ e.tenant \in Configured
        /\ e.subject \in Subject /\ e.operation \in Operation
    BY <1>1, <1>6 DEF Grants, IsEntry, InTenant
  <2>2. e.ids \subseteq tenants'[e.tenant].ids[e.subject][e.operation]
    BY <1>2, <1>6, <2>1 DEF Holds, Wider, InTenant
  <2>3. \/ tenants[e.tenant].perm[e.subject][e.operation] = e.scope
        \/ \E j \in DOMAIN W : j > k /\ \E f \in W[j] : SameGrant(e, f)
    BY <1>6 DEF Holds
  <2>4. CASE tenants'[e.tenant].perm[e.subject][e.operation]
               = tenants[e.tenant].perm[e.subject][e.operation]
    BY <2>2, <2>3, <2>4
  <2>5. CASE /\ now.do = "set" /\ now.tenant = e.tenant
             /\ now.subject = e.subject /\ now.operation = e.operation
    <3>1. SameGrant(e, h)
      BY <1>6, <2>5, NowIs DEF SameGrant, Grants
    <3>2. h \in W[Done + 1] /\ Done + 1 \in DOMAIN W
      BY DEF Current
    <3>3. CASE k < Done + 1
      BY <2>2, <3>1, <3>2, <3>3
    <3>4. CASE k = Done + 1 /\ e # h
      BY <3>1, <3>2, <3>4 DEF Sound
    <3> QED BY <3>3, <3>4
  <2>6. \/ tenants'[e.tenant].perm[e.subject][e.operation]
              = tenants[e.tenant].perm[e.subject][e.operation]
        \/ /\ now.do = "set" /\ now.tenant = e.tenant
           /\ now.subject = e.subject /\ now.operation = e.operation
    BY <2>1 DEF Grown
  <2> QED BY <2>4, <2>5, <2>6
<1> QED BY <1>3, <1>4, <1>5, <1>6 DEF Holds

-----------------------------------------------------------------------------
(* One step of the entry in progress                                       *)

LEMMA SamePlan ==
    ASSUME UNCHANGED <<phase, loaded>>
    PROVE  Whole' = Whole /\ \A p : Plan(p)' = Plan(p)
  BY DEF Whole, Plan

LEMMA SamePosition ==
    ASSUME UNCHANGED <<phase, loaded, todo>>
    PROVE  Done' = Done /\ \A k : Left(k)' = Left(k) /\ Taken(k)' = Taken(k)
  BY SamePlan DEF Done, Left, Taken

LEMMA SameControl ==
    ASSUME ControlOK, FailsForAReason, NEW n, Goto(n),
           phase \notin {"down", "serving"}
    PROVE  ControlOK' /\ FailsForAReason' /\ Applying' = Applying
  BY SamePlan DEF Goto, ControlOK, FailsForAReason, SelfContained, Applying

(* What is not in progress stays as it was.                                *)
LEMMA OthersSettled ==
    ASSUME OnPlan, Settled, NEW h, Current(h), Grown, UNCHANGED <<phase, loaded, todo, disturbed>>,
           NEW k \in DOMAIN Whole, NEW e \in Taken(k), ~(k = Done + 1 /\ e = h)
    PROVE  /\ e.do = "tenant" => e.tenant \in Configured
           /\ ~disturbed => \A W : W = Whole => Holds(W, k, e)'
<1>1. /\ k \in Nat /\ Done \in Nat /\ e \in Whole[k] /\ Sound(Whole[k])
      /\ k <= Done + 1
  <2>1. k > Done + 1 => Left(k) = Whole[k]
    BY DEF OnPlan
  <2> QED BY <2>1, Position DEF Taken, OnPlan
<1>2. ~InHand(k, e)
  BY <1>1, StageUnique DEF InHand, Current
<1>3. /\ e.do \in InTenant => e.tenant \in Configured
      /\ e.do = "tenant" => e.tenant \in Configured
      /\ ~disturbed => Holds(Whole, k, e)
  BY <1>2 DEF Settled
<1>4. ASSUME ~disturbed, NEW W, W = Whole
      PROVE  Holds(W, k, e)'
  <2>1. k < Done + 1 \/ (k = Done + 1 /\ e # h)
    BY <1>1
  <2>2. k \in DOMAIN W /\ e \in W[k] /\ Sound(W[k]) /\ Holds(W, k, e)
    BY <1>1, <1>3, <1>4
  <2> QED BY <1>3, <1>4, <2>1, <2>2, GrownKeepsHolds
<1> QED BY <1>3, <1>4

LEMMA EntryDone ==
    ASSUME IInv, Applying, NEW h, Current(h), Grown, StoresOK', Goto(Nothing),
           h.do = "tenant" => h.tenant \in Configured,
           ~disturbed => \A W, k : W = Whole /\ k = Done + 1 => Holds(W, k, h)'
    PROVE  IInv'
<1>1. OnPlan /\ Settled /\ ControlOK /\ FailsForAReason
  BY DEF IInv
<1>2. UNCHANGED <<phase, loaded, todo, disturbed>> /\ now' = Nothing
  BY DEF Goto
<1>3. ControlOK' /\ FailsForAReason'
  BY <1>1, SameControl DEF Applying
<1>4. /\ Whole' = Whole /\ Done' = Done
      /\ \A k : Left(k)' = Left(k) /\ Taken(k)' = Taken(k)
  BY <1>2, SamePlan, SamePosition
<1>5. OnPlan'
  BY <1>1, <1>2, <1>4 DEF OnPlan
<1>6. ASSUME NEW k \in DOMAIN Whole, NEW e \in Taken(k)
      PROVE  /\ e.do \in InTenant => e.tenant \in Configured
             /\ e.do = "tenant" => e.tenant \in Configured
             /\ ~disturbed => \A W : W = Whole => Holds(W, k, e)'
  <2>1. e.do \in InTenant => e.tenant \in Configured
    BY <1>1 DEF Settled
  <2>2. CASE k = Done + 1 /\ e = h
    BY <2>1, <2>2
  <2>3. CASE ~(k = Done + 1 /\ e = h)
    BY <1>1, <1>2, <2>1, <2>3, OthersSettled
  <2> QED BY <2>2, <2>3
<1>7. Settled'
  <2>1. PICK W : W = Whole
    OBVIOUS
  <2>2. \A k \in DOMAIN W : \A e \in Taken(k) :
           /\ e.do \in InTenant => e.tenant \in Configured
           /\ e.do = "tenant" => e.tenant \in Configured
           /\ ~disturbed => Holds(W, k, e)'
    BY <1>6, <2>1
  <2>3. Whole' = W /\ disturbed' = disturbed
    BY <1>2, <1>4, <2>1
  <2> QED BY <1>4, <2>2, <2>3 DEF Settled
<1>8. HalfGranted'
  BY <1>2 DEF HalfGranted
<1> QED BY <1>3, <1>5, <1>7, <1>8 DEF IInv

LEMMA EntryStaged ==
    ASSUME IInv, Applying, NEW h, Current(h), h.do = "grant", Grown, StoresOK',
           NEW d \in {"set", "ids"}, NEW n, Goto(n),
           n = [do |-> d, tenant |-> h.tenant, subject |-> h.subject,
                operation |-> h.operation, scope |-> h.scope, ids |-> h.ids],
           h.scope \in Scope,
           ~disturbed =>
              /\ h.operation \in shared'.operations
              /\ d = "ids" => /\ Known(tenants'[h.tenant], h.subject)
                              /\ tenants'[h.tenant].perm[h.subject][h.operation] = h.scope
    PROVE  IInv'
<1>1. OnPlan /\ Settled /\ ControlOK /\ FailsForAReason
  BY DEF IInv
<1>2. UNCHANGED <<phase, loaded, todo, disturbed>> /\ now' = n
  BY DEF Goto
<1>3. ControlOK' /\ FailsForAReason'
  BY <1>1, SameControl DEF Applying
<1>4. /\ Whole' = Whole /\ Done' = Done
      /\ \A k : Left(k)' = Left(k) /\ Taken(k)' = Taken(k)
  BY <1>2, SamePlan, SamePosition
<1>5. n # Nothing /\ n.do = d
  BY DEF Nothing
<1>6. Stage(h)'
  BY <1>2, <1>5 DEF Stage, Staged
<1>7. OnPlan'
  <2>1. \E e \in Taken(Done + 1) : Stage(e)' /\ \A x \in Head(todo) : ~Before(x, e)
    BY <1>6 DEF Current
  <2>2. todo' # <<>> /\ (\E e \in Taken(Done + 1) : Stage(e) /\ \A x \in Head(todo) : ~Before(x, e))'
    BY <1>2, <1>4, <2>1 DEF Current
  <2> QED BY <1>1, <1>2, <1>4, <2>2 DEF OnPlan
<1>8. ASSUME NEW k \in DOMAIN Whole, NEW e \in Taken(k)
      PROVE  /\ e.do \in InTenant => e.tenant \in Configured
             /\ ~InHand(k, e)' => /\ e.do = "tenant" => e.tenant \in Configured
                                  /\ ~disturbed => \A W : W = Whole => Holds(W, k, e)'
  <2>1. e.do \in InTenant => e.tenant \in Configured
    BY <1>1 DEF Settled
  <2>2. CASE k = Done + 1 /\ e = h
    BY <1>4, <1>6, <2>1, <2>2 DEF InHand
  <2>3. CASE ~(k = Done + 1 /\ e = h)
    BY <1>1, <1>2, <2>1, <2>3, OthersSettled
  <2> QED BY <2>2, <2>3
<1>9. Settled'
  <2>1. PICK W : W = Whole
    OBVIOUS
  <2>2. \A k \in DOMAIN W : \A e \in Taken(k) :
           /\ e.do \in InTenant => e.tenant \in Configured
           /\ ~InHand(k, e)' => /\ e.do = "tenant" => e.tenant \in Configured
                                /\ ~disturbed => Holds(W, k, e)'
    BY <1>8, <2>1
  <2>3. Whole' = W /\ disturbed' = disturbed
    BY <1>2, <1>4, <2>1
  <2> QED BY <1>4, <2>2, <2>3 DEF Settled
<1>10. ASSUME NEW e \in Taken(Done + 1), Staged(e)'
       PROVE  e = h
  <2>1. e \in Whole[Done + 1] /\ h \in Whole[Done + 1] /\ Sound(Whole[Done + 1])
    BY DEF Current, Taken
  <2>2. /\ e.do = "grant" /\ e.tenant = h.tenant /\ e.subject = h.subject
        /\ e.operation = h.operation
    BY <1>2, <1>10 DEF Staged
  <2>3. SameGrant(e, h)
    BY <2>2 DEF SameGrant, Grants
  <2> QED BY <2>1, <2>3 DEF Sound
<1>11. HalfGranted'
  BY <1>2, <1>4, <1>5, <1>10 DEF HalfGranted
<1> QED BY <1>3, <1>7, <1>9, <1>11 DEF IInv

-----------------------------------------------------------------------------
(* The calls that the entries make                                         *)

(* EnsureUser, EnsureResource and EnsureOperation (json.go:106-183).       *)
LEMMA SharedEnsures ==
    ASSUME shared \in Shared!SharedData
    PROVE  /\ UNCHANGED shared => SharedGrown
           /\ \A u \in User : Ensured(u) =>
                 /\ SharedGrown /\ u \in shared'.users
                 /\ u \in shared.users => UNCHANGED shared
           /\ \A r \in Resource : \A out : Shared!EnsureResource(r, out) =>
                 /\ SharedGrown /\ r \in shared'.resources
                 /\ r \in shared.resources => UNCHANGED shared
           /\ \A o \in Operation : \A out : Shared!EnsureOperation(o, out) =>
                 /\ SharedGrown /\ o \in shared'.operations
                 /\ o \in shared.operations => UNCHANGED shared
<1>1. UNCHANGED shared => SharedGrown
  BY DEF SharedGrown
<1>2. ASSUME NEW u \in User, Ensured(u)
      PROVE  SharedGrown /\ u \in shared'.users /\ (u \in shared.users => UNCHANGED shared)
  <2>1. \/ u \in shared.users /\ UNCHANGED shared
        \/ u \notin shared.users /\ shared' = [shared EXCEPT !.users = @ \cup {u}]
    BY <1>2 DEF Ensured, Shared!EnsureUser, Shared!Saved, Shared!Noop
  <2> QED BY <1>1, <2>1 DEF SharedGrown, Shared!SharedData
<1>3. ASSUME NEW r \in Resource, NEW out, Shared!EnsureResource(r, out)
      PROVE  SharedGrown /\ r \in shared'.resources /\ (r \in shared.resources => UNCHANGED shared)
  <2>1. \/ r \in shared.resources /\ UNCHANGED shared
        \/ r \notin shared.resources /\ shared' = [shared EXCEPT !.resources = @ \cup {r}]
    BY <1>3 DEF Shared!EnsureResource, Shared!AddResource, Shared!Saved, Shared!Noop
  <2> QED BY <1>1, <2>1 DEF SharedGrown, Shared!SharedData
<1>4. ASSUME NEW o \in Operation, NEW out, Shared!EnsureOperation(o, out)
      PROVE  SharedGrown /\ o \in shared'.operations /\ (o \in shared.operations => UNCHANGED shared)
  <2>1. CASE o \in shared.operations
    <3>1. UNCHANGED shared
      BY <1>4, <2>1 DEF Shared!EnsureOperation, Shared!Saved, Shared!Noop
    <3> QED BY <1>1, <2>1, <3>1
  <2>2. CASE o \notin shared.operations
    <3>1. shared' = [shared EXCEPT !.resources = @ \cup {ResourceOf[o]},
                                   !.operations = @ \cup {o}]
      BY <1>4, <2>2 DEF Shared!EnsureOperation, Shared!AddOperation, Shared!Saved, Shared!Noop
    <3>2. ResourceOf[o] \in Resource
      BY ResourceOfIsTotal
    <3>3. shared' \in Shared!SharedData
      BY <3>1, <3>2 DEF Shared!SharedData
    <3>4. /\ shared'.users = shared.users
          /\ shared'.resources = shared.resources \cup {ResourceOf[o]}
          /\ shared'.operations = shared.operations \cup {o}
      BY <3>1 DEF Shared!SharedData
    <3> QED BY <2>2, <3>3, <3>4 DEF SharedGrown
  <2> QED BY <2>1, <2>2
<1> QED BY <1>1, <1>2, <1>3, <1>4

(* One tenant's data changes.                                              *)
LEMMA ChangeIs ==
    ASSUME StoresOK, NEW t \in Configured, NEW n, Good(n), Wider(tenants[t], n), Change(t, n)
    PROVE  /\ tenants' \in [Configured -> TenantData] /\ tenants'[t] = n
           /\ \A x \in Configured : x # t => tenants'[x] = tenants[x]
           /\ \A x \in Configured : Good(tenants'[x]) /\ Wider(tenants[x], tenants'[x])
           /\ n = tenants[t] => tenants' = tenants
<1>1. /\ tenants \in [Configured -> TenantData] /\ n \in TenantData
      /\ tenants' = [tenants EXCEPT ![t] = n]
  BY DEF StoresOK, Good, Change
<1>2. /\ tenants' \in [Configured -> TenantData] /\ tenants'[t] = n
      /\ \A x \in Configured : x # t => tenants'[x] = tenants[x]
      /\ n = tenants[t] => tenants' = tenants
  BY <1>1
<1>3. \A x \in Configured : Good(tenants[x]) /\ Wider(tenants[x], tenants[x])
  BY DEF StoresOK, Wider
<1> QED BY <1>2, <1>3

LEMMA SameTenants ==
    ASSUME StoresOK, UNCHANGED tenants
    PROVE  /\ tenants' \in [Configured -> TenantData] /\ \A t \in Configured : Good(tenants'[t])
           /\ \A t \in Configured : Wider(tenants[t], tenants'[t])
  BY DEF StoresOK, Wider

-----------------------------------------------------------------------------
(* What a call of the entry in progress does to the stores: it only adds,  *)
(* and changes nothing at all when the files are applied already.          *)
Idle == AllDeclared(Whole) /\ Agreeing(Whole) => UNCHANGED stores
Adds == StoresOK' /\ Grown /\ Idle

LEMMA LastOne ==
    ASSUME NEW n \in Nat, NEW J, J \subseteq 1 .. n, J # {}
    PROVE  \E k \in J : \A j \in J : j <= k
<1> DEFINE T == {n - j : j \in J}
<1>1. T \subseteq Nat /\ T # {}
  <2>1. \A j \in J : n - j \in Nat
    OBVIOUS
  <2>2. PICK j : j \in J
    OBVIOUS
  <2>3. n - j \in T
    BY <2>2
  <2> QED BY <2>1, <2>3
<1>2. PICK x \in T : \A y \in T : ~(<<y, x>> \in OpToRel(<, Nat))
  BY <1>1, NatLessThanWellFounded, WFMin
<1>3. PICK k \in J : x = n - k
  BY <1>2
<1>4. ASSUME NEW j \in J
      PROVE  j <= k
  <2>1. n - j \in T /\ n - j \in Nat /\ x \in Nat
    BY <1>1, <1>2
  <2>2. ~(n - j < x)
    BY <1>2, <2>1 DEF OpToRel
  <2> QED BY <1>3, <2>2
<1> QED BY <1>4

(* Where all files are applied and agree, each permission is as declared.  *)
LEMMA AgreedScope ==
    ASSUME OnPlan, AllDeclared(Whole), Agreeing(Whole),
           NEW k \in DOMAIN Whole, NEW e \in Whole[k], Grants(e)
    PROVE  tenants[e.tenant].perm[e.subject][e.operation] = e.scope
<1> DEFINE J == {j \in DOMAIN Whole : \E f \in Whole[j] : SameGrant(e, f)}
<1>1. k \in J
  BY DEF SameGrant
<1>2. J \subseteq 1 .. Len(Whole) /\ Len(Whole) \in Nat
  BY Position
<1>3. PICK i \in J : \A j \in J : j <= i
  <2> HIDE DEF J
  <2> QED BY <1>1, <1>2, LastOne
<1>4. PICK f \in Whole[i] : SameGrant(e, f)
  BY <1>3
<1>5. \A j \in DOMAIN Whole : j > i => ~\E g \in Whole[j] : SameGrant(f, g)
  BY <1>2, <1>3, <1>4 DEF SameGrant
<1>6. Grants(f) /\ Holds(Whole, i, f)
  BY <1>3, <1>4 DEF AllDeclared, SameGrant
<1>7. tenants[f.tenant].perm[f.subject][f.operation] = f.scope
  BY <1>5, <1>6 DEF Holds
<1>8. e.scope = f.scope
  BY <1>3, <1>4 DEF Agreeing
<1> QED BY <1>4, <1>7, <1>8 DEF SameGrant

(* The stores after a call, from what it did to each of them.              *)
LEMMA OneTenantAdds ==
    ASSUME StoresOK, SharedGrown, NEW t \in Configured, NEW n, Good(n), Change(t, n),
           Wider(tenants[t], n),
           \A s \in Subject, o \in Operation :
              \/ n.perm[s][o] = tenants[t].perm[s][o]
              \/ /\ now.do = "set" /\ now.tenant = t /\ now.subject = s /\ now.operation = o
                 /\ n.perm[s][o] = now.scope
    PROVE  StoresOK' /\ Grown /\ tenants'[t] = n /\ (n = tenants[t] => UNCHANGED tenants)
<1>1. /\ tenants' \in [Configured -> TenantData] /\ tenants'[t] = n
      /\ \A x \in Configured : x # t => tenants'[x] = tenants[x]
      /\ \A x \in Configured : Good(tenants'[x]) /\ Wider(tenants[x], tenants'[x])
      /\ n = tenants[t] => tenants' = tenants
  BY ChangeIs
<1>2. StoresOK'
  BY <1>1 DEF StoresOK, SharedGrown
<1>3. ASSUME NEW x \in Configured, NEW s \in Subject, NEW o \in Operation
      PROVE  \/ tenants'[x].perm[s][o] = tenants[x].perm[s][o]
             \/ /\ now.do = "set" /\ now.tenant = x /\ now.subject = s /\ now.operation = o
                /\ tenants'[x].perm[s][o] = now.scope
  BY <1>1
<1>4. Grown
  BY <1>1, <1>3 DEF Grown
<1> QED BY <1>1, <1>2, <1>4

LEMMA SharedAdds ==
    ASSUME StoresOK, SharedGrown, UNCHANGED tenants
    PROVE  StoresOK' /\ Grown
  BY SameTenants DEF StoresOK, SharedGrown, Grown

LEMMA SomeEntry ==
    ASSUME IInv, now # Nothing
    PROVE  /\ Applying /\ OnPlan /\ Settled /\ HalfGranted /\ StoresOK
           /\ \E h : Current(h)
<1>1. Applying
  BY DEF IInv, ControlOK, Applying, Phase
<1> QED BY <1>1, SomeCurrent DEF IInv

(* What the entry in progress needs is there when the files are applied.   *)
LEMMA Declared ==
    ASSUME OnPlan, AllDeclared(Whole), NEW h, Current(h)
    PROVE  /\ Holds(Whole, Done + 1, h)
           /\ h.do \in {"assign", "grant", "set"} /\ h.subject \in User =>
                 h.subject \in shared.users
           /\ Agreeing(Whole) /\ Grants(h) =>
                 tenants[h.tenant].perm[h.subject][h.operation] = h.scope
<1>1. Done + 1 \in DOMAIN Whole /\ h \in Whole[Done + 1] /\ Sound(Whole[Done + 1])
  BY DEF Current
<1>2. ASSUME h.do \in {"assign", "grant", "set"}, h.subject \in User
      PROVE  h.subject \in shared.users
  <2>1. PICK g \in Whole[Done + 1] : g.do \in {"provision", "user"} /\ g.subject = h.subject
    BY <1>1, <1>2 DEF Sound
  <2>2. Holds(Whole, Done + 1, g)
    BY <1>1 DEF AllDeclared
  <2> QED BY <2>1, <2>2 DEF Holds
<1> QED BY <1>1, <1>2, AgreedScope DEF AllDeclared

LEMMA SyncResourceStep ==
    ASSUME IInv, SyncResource
    PROVE  IInv' /\ Adds
<1>1. now # Nothing /\ now.do = "resource"
  BY DEF SyncResource, Nothing
<1>2. Applying /\ OnPlan /\ Settled /\ StoresOK
  BY <1>1, SomeEntry
<1>3. PICK h : Current(h)
  BY <1>1, SomeEntry
<1>4. now = h /\ h.do = "resource" /\ h.resource \in Resource
  BY <1>1, <1>3, NowIs DEF Current, IsEntry
<1>5. PICK out : Shared!EnsureResource(h.resource, out)
  BY <1>4 DEF SyncResource
<1>6. /\ SharedGrown /\ h.resource \in shared'.resources
      /\ h.resource \in shared.resources => UNCHANGED shared
  BY <1>2, <1>4, <1>5, SharedEnsures DEF StoresOK
<1>7. UNCHANGED tenants /\ Goto(Nothing)
  BY DEF SyncResource
<1>8. StoresOK' /\ Grown
  BY <1>2, <1>6, <1>7, SharedAdds
<1>9. Idle
  BY <1>2, <1>3, <1>4, <1>6, <1>7, Declared DEF Idle, Holds, stores
<1>10. \A W, k : Holds(W, k, h)'
  BY <1>4, <1>6 DEF Holds, Grants
<1> QED BY <1>2, <1>3, <1>4, <1>7, <1>8, <1>9, <1>10, EntryDone DEF Adds

LEMMA SyncOperationStep ==
    ASSUME IInv, SyncOperation
    PROVE  IInv' /\ Adds
<1>1. now # Nothing /\ now.do = "operation"
  BY DEF SyncOperation, Nothing
<1>2. Applying /\ OnPlan /\ Settled /\ StoresOK
  BY <1>1, SomeEntry
<1>3. PICK h : Current(h)
  BY <1>1, SomeEntry
<1>4. now = h /\ h.do = "operation" /\ h.operation \in Operation
  BY <1>1, <1>3, NowIs DEF Current, IsEntry
<1>5. PICK out : Shared!EnsureOperation(h.operation, out)
  BY <1>4 DEF SyncOperation
<1>6. /\ SharedGrown /\ h.operation \in shared'.operations
      /\ h.operation \in shared.operations => UNCHANGED shared
  BY <1>2, <1>4, <1>5, SharedEnsures DEF StoresOK
<1>7. UNCHANGED tenants /\ Goto(Nothing)
  BY DEF SyncOperation
<1>8. StoresOK' /\ Grown
  BY <1>2, <1>6, <1>7, SharedAdds
<1>9. Idle
  BY <1>2, <1>3, <1>4, <1>6, <1>7, Declared DEF Idle, Holds, stores
<1>10. \A W, k : Holds(W, k, h)'
  BY <1>4, <1>6 DEF Holds, Grants
<1> QED BY <1>2, <1>3, <1>4, <1>7, <1>8, <1>9, <1>10, EntryDone DEF Adds

LEMMA SyncUserStep ==
    ASSUME IInv, SyncUser
    PROVE  IInv' /\ Adds
<1>1. now # Nothing /\ now.do \in {"provision", "user"}
  BY DEF SyncUser, Nothing
<1>2. Applying /\ OnPlan /\ Settled /\ StoresOK
  BY <1>1, SomeEntry
<1>3. PICK h : Current(h)
  BY <1>1, SomeEntry
<1>4. now = h /\ h.do \in {"provision", "user"} /\ h.subject \in User
  BY <1>1, <1>3, NowIs DEF Current, IsEntry
<1>5. Ensured(h.subject) /\ UNCHANGED tenants /\ Goto(Nothing)
  BY <1>4 DEF SyncUser
<1>6. /\ SharedGrown /\ h.subject \in shared'.users
      /\ h.subject \in shared.users => UNCHANGED shared
  BY <1>2, <1>4, <1>5, SharedEnsures DEF StoresOK
<1>8. StoresOK' /\ Grown
  BY <1>2, <1>5, <1>6, SharedAdds
<1>9. Idle
  BY <1>2, <1>3, <1>4, <1>5, <1>6, Declared DEF Idle, Holds, stores
<1>10. \A W, k : Holds(W, k, h)'
  BY <1>4, <1>6 DEF Holds, Grants
<1> QED BY <1>2, <1>3, <1>4, <1>5, <1>8, <1>9, <1>10, EntryDone DEF Adds

LEMMA SyncRoleStep ==
    ASSUME IInv, SyncRole
    PROVE  IInv' /\ Adds
<1>1. now # Nothing /\ now.do = "role"
  BY DEF SyncRole, Nothing
<1>2. Applying /\ OnPlan /\ Settled /\ StoresOK
  BY <1>1, SomeEntry
<1>3. PICK h : Current(h)
  BY <1>1, SomeEntry
<1>4. now = h /\ h.do = "role" /\ h.subject \in Role /\ h.tenant \in Configured
  BY <1>1, <1>3, NowIs DEF Current, IsEntry, InTenant
<1>5. PICK n : n = RoleEnsured(tenants[h.tenant], h.subject)
  OBVIOUS
<1>6. Change(h.tenant, n) /\ UNCHANGED shared /\ Goto(Nothing)
  BY <1>4, <1>5 DEF SyncRole
<1>7. /\ Good(n) /\ Wider(tenants[h.tenant], n) /\ n.perm = tenants[h.tenant].perm
      /\ h.subject \in n.roles
      /\ h.subject \in tenants[h.tenant].roles => n = tenants[h.tenant]
  BY <1>2, <1>4, <1>5, RoleEnsuredIs DEF StoresOK
<1>8. SharedGrown
  BY <1>2, <1>6, SharedEnsures DEF StoresOK
<1>9. /\ StoresOK' /\ Grown /\ tenants'[h.tenant] = n
      /\ n = tenants[h.tenant] => UNCHANGED tenants
  BY <1>2, <1>4, <1>6, <1>7, <1>8, OneTenantAdds
<1>10. Idle
  BY <1>2, <1>3, <1>4, <1>6, <1>7, <1>9, Declared DEF Idle, Holds, stores
<1>11. \A W, k : Holds(W, k, h)'
  BY <1>4, <1>7, <1>9 DEF Holds, Grants
<1> QED BY <1>2, <1>3, <1>4, <1>6, <1>9, <1>10, <1>11, EntryDone DEF Adds

(* A call that fails ends the start-up or the synchronization.             *)
LEMMA Failed ==
    ASSUME IInv, Applying, Fail, StoresOK', disturbed \/ ~SelfContained(Whole)
    PROVE  IInv'
<1>1. phase' \in {"down", "serving"} /\ ~Applying'
  BY DEF Fail, Applying
<1>2. ControlOK'
  BY <1>1 DEF IInv, ControlOK, Fail, Phase
<1>3. FailsForAReason'
  <2>1. Plan(failed)' = Whole
    BY DEF Fail, Plan, Whole
  <2> QED BY <2>1 DEF FailsForAReason, Fail
<1> QED BY <1>1, <1>2, <1>3 DEF IInv

LEMMA SyncTenantStep ==
    ASSUME IInv, SyncTenant
    PROVE  IInv' /\ Adds
<1>1. now # Nothing /\ now.do = "tenant"
  BY DEF SyncTenant, Nothing
<1>2. Applying /\ OnPlan /\ Settled /\ StoresOK
  BY <1>1, SomeEntry
<1>3. PICK h : Current(h)
  BY <1>1, SomeEntry
<1>4. now = h /\ h.do = "tenant"
  BY <1>1, <1>3, NowIs
<1>5. UNCHANGED stores
  BY DEF SyncTenant
<1>6. StoresOK' /\ Grown /\ Idle
  BY <1>2, <1>5, SharedEnsures, SharedAdds DEF StoresOK, stores, Idle
<1>7. CASE h.tenant \in Configured
  <2>1. Goto(Nothing)
    BY <1>4, <1>7 DEF SyncTenant
  <2>2. \A W, k : Holds(W, k, h)'
    BY <1>4 DEF Holds, Grants
  <2> QED BY <1>2, <1>3, <1>6, <1>7, <2>1, <2>2, EntryDone DEF Adds
<1>8. CASE h.tenant \notin Configured
  <2>1. ~SelfContained(Whole)
    BY <1>3, <1>4, <1>8 DEF Current, SelfContained
  <2> QED BY <1>2, <1>4, <1>6, <1>8, <2>1, Failed DEF Adds, SyncTenant
<1> QED BY <1>7, <1>8

(* The roles that self-contained files assign are there in time.           *)
LEMMA RoleIsThere ==
    ASSUME OnPlan, Settled, NEW h, Current(h), h.do = "assign",
           SelfContained(Whole), ~disturbed
    PROVE  h.role \in tenants[h.tenant].roles
<1>1. /\ Done + 1 \in DOMAIN Whole /\ h \in Whole[Done + 1]
      /\ h.subject \in User /\ h.role \in Role
  BY DEF Current, IsEntry
<1>2. PICK r : r = RoleCreation(h.tenant, h.role)
  OBVIOUS
<1>3. r.do = "role" /\ r.tenant = h.tenant /\ r.subject = h.role
  BY <1>2 DEF RoleCreation
<1>4. PICK j \in 1 .. Done + 1 : r \in Whole[j]
  BY <1>1, <1>2 DEF SelfContained, RoleCreation
<1>5. Done \in Nat /\ j \in DOMAIN Whole
  BY <1>1, <1>4, Position
<1>6. CASE j <= Done
  <2>1. r \in Taken(j) /\ ~InHand(j, r)
    BY <1>4, <1>5, <1>6, Position DEF InHand
  <2>2. Holds(Whole, j, r)
    BY <1>5, <2>1 DEF Settled
  <2> QED BY <1>3, <2>2 DEF Holds
<1>7. CASE j = Done + 1
  <2>1. Before(r, h) /\ r.do # h.do /\ r \in Whole[Done + 1]
    BY <1>1, <1>3, <1>4, <1>7, Precedes
  <2>2. Holds(Whole, Done + 1, r)
    BY <2>1 DEF Current
  <2> QED BY <1>3, <2>2 DEF Holds
<1> QED BY <1>4, <1>5, <1>6, <1>7

(* So are the subjects and operations of its permissions.                  *)
LEMMA GrantIsReady ==
    ASSUME OnPlan, NEW h, Current(h), h.do \in {"grant", "set"}, ~disturbed
    PROVE  /\ Known(tenants[h.tenant], h.subject)
           /\ h.do = "set" => h.operation \in shared.operations
<1>1. /\ Done + 1 \in DOMAIN Whole /\ h \in Whole[Done + 1] /\ Sound(Whole[Done + 1])
      /\ h.subject \in Subject
  BY DEF Current, IsEntry
<1>2. ASSUME h.subject \in Role
      PROVE  Known(tenants[h.tenant], h.subject)
  <2>1. PICK r \in Whole[Done + 1] : r = RoleCreation(h.tenant, h.subject)
    BY <1>1, <1>2 DEF Sound
  <2>2. r.do = "role" /\ r.tenant = h.tenant /\ r.subject = h.subject
    BY <2>1 DEF RoleCreation
  <2>3. Before(r, h) /\ r.do # h.do
    BY <2>2, Precedes
  <2>4. Holds(Whole, Done + 1, r)
    BY <2>3 DEF Current
  <2> QED BY <2>2, <2>4 DEF Holds, Known
<1>3. ASSUME h.do = "set"
      PROVE  h.operation \in shared.operations
  <2>1. PICK r \in Whole[Done + 1] : r = Registration(h.operation)
    BY <1>1, <1>3 DEF Sound
  <2>2. r.do = "operation" /\ r.operation = h.operation
    BY <2>1 DEF Registration
  <2>3. Before(r, h) /\ r.do # h.do
    BY <1>3, <2>2, Precedes
  <2>4. Holds(Whole, Done + 1, r)
    BY <2>3 DEF Current
  <2> QED BY <2>2, <2>4 DEF Holds
<1>4. h.subject \in User => Known(tenants[h.tenant], h.subject)
  BY DEF Known
<1> QED BY <1>1, <1>2, <1>3, <1>4 DEF Subject

LEMMA SyncAssignmentStep ==
    ASSUME IInv, SyncAssignment
    PROVE  IInv' /\ Adds
<1>1. now # Nothing /\ now.do = "assign"
  BY DEF SyncAssignment, Nothing
<1>2. Applying /\ OnPlan /\ Settled /\ StoresOK
  BY <1>1, SomeEntry
<1>3. PICK h : Current(h)
  BY <1>1, SomeEntry
<1>4. /\ now = h /\ h.do = "assign"
      /\ h.subject \in User /\ h.role \in Role /\ h.tenant \in Configured
  BY <1>1, <1>3, NowIs DEF Current, IsEntry, InTenant
<1>5. Ensured(h.subject)
  BY <1>4 DEF SyncAssignment
<1>6. SharedGrown /\ (h.subject \in shared.users => UNCHANGED shared)
  BY <1>2, <1>4, <1>5, SharedEnsures DEF StoresOK
<1>7. CASE h.role \in tenants[h.tenant].roles
  <2>1. PICK t : t = tenants[h.tenant]
    OBVIOUS
  <2>2. PICK n : n = [t EXCEPT !.assigned[h.subject] = @ \cup {h.role}]
    OBVIOUS
  <2>3. Change(h.tenant, n) /\ Goto(Nothing)
    BY <1>4, <1>7, <2>1, <2>2 DEF SyncAssignment
  <2>4. /\ Good(n) /\ Wider(t, n) /\ n.perm = t.perm /\ h.role \in n.assigned[h.subject]
        /\ h.role \in t.assigned[h.subject] => n = t
    <3>1. Good(t) /\ h.role \in t.roles
      BY <1>2, <1>4, <1>7, <2>1 DEF StoresOK
    <3> QED BY <1>4, <2>2, <3>1, AssignedIs
  <2>5. StoresOK' /\ Grown /\ tenants'[h.tenant] = n /\ (n = t => UNCHANGED tenants)
    BY <1>2, <1>4, <1>6, <2>1, <2>3, <2>4, OneTenantAdds
  <2>6. Idle
    BY <1>2, <1>3, <1>4, <1>6, <2>1, <2>4, <2>5, Declared DEF Idle, Holds, stores
  <2>7. \A W, k : Holds(W, k, h)'
    BY <1>4, <2>4, <2>5 DEF Holds, Grants
  <2> QED BY <1>2, <1>3, <1>4, <2>3, <2>5, <2>6, <2>7, EntryDone DEF Adds
<1>8. CASE h.role \notin tenants[h.tenant].roles
  <2>1. Fail /\ UNCHANGED tenants
    BY <1>4, <1>8 DEF SyncAssignment
  <2>2. StoresOK' /\ Grown
    BY <1>2, <1>6, <2>1, SharedAdds
  <2>3. Idle
    BY <1>2, <1>3, <1>4, <1>6, <2>1, Declared DEF Idle, stores
  <2>4. disturbed \/ ~SelfContained(Whole)
    BY <1>2, <1>3, <1>4, <1>8, RoleIsThere
  <2> QED BY <1>2, <2>1, <2>2, <2>3, <2>4, Failed DEF Adds
<1> QED BY <1>7, <1>8

LEMMA RegisterGrantedStep ==
    ASSUME IInv, RegisterGranted
    PROVE  IInv' /\ Adds
<1>1. now # Nothing /\ now.do = "grant"
  BY DEF RegisterGranted, Nothing
<1>2. Applying /\ OnPlan /\ Settled /\ StoresOK
  BY <1>1, SomeEntry
<1>3. PICK h : Current(h)
  BY <1>1, SomeEntry
<1>4. /\ now = h /\ h.do = "grant" /\ h.operation \in Operation
      /\ h = [do |-> h.do, tenant |-> h.tenant, subject |-> h.subject,
              operation |-> h.operation, scope |-> h.scope, ids |-> h.ids]
  BY <1>1, <1>3, NowIs DEF Current, IsEntry
<1>5. UNCHANGED tenants
  BY DEF RegisterGranted
<1>6. CASE h.scope \in Scope
  <2>1. PICK n : n = [h EXCEPT !.do = "set"]
    OBVIOUS
  <2>2. Goto(n) /\ \E out : Shared!EnsureOperation(h.operation, out)
    BY <1>4, <1>6, <2>1 DEF RegisterGranted
  <2>3. n = [do |-> "set", tenant |-> h.tenant, subject |-> h.subject,
             operation |-> h.operation, scope |-> h.scope, ids |-> h.ids]
    BY <1>4, <2>1
  <2>4. /\ SharedGrown /\ h.operation \in shared'.operations
        /\ h.operation \in shared.operations => UNCHANGED shared
    BY <1>2, <1>4, <2>2, SharedEnsures DEF StoresOK
  <2>5. StoresOK' /\ Grown
    BY <1>2, <1>5, <2>4, SharedAdds
  <2>6. Idle
    BY <1>2, <1>3, <1>4, <1>5, <2>4, Declared DEF Idle, Holds, stores
  <2>7. IInv'
    BY <1>2, <1>3, <1>4, <1>6, <2>2, <2>3, <2>4, <2>5, EntryStaged
  <2> QED BY <2>5, <2>6, <2>7 DEF Adds
<1>7. CASE h.scope \notin Scope
  <2>1. Fail /\ UNCHANGED stores
    BY <1>4, <1>5, <1>7 DEF RegisterGranted, stores
  <2>2. StoresOK' /\ Grown /\ Idle
    BY <1>2, <2>1, SharedEnsures, SharedAdds DEF StoresOK, stores, Idle
  <2>3. ~SelfContained(Whole)
    BY <1>3, <1>4, <1>7 DEF Current, SelfContained
  <2> QED BY <1>2, <2>1, <2>2, <2>3, Failed DEF Adds
<1> QED BY <1>6, <1>7

(* In the second stage of a grant the operation is registered, unless      *)
(* another handler removed it.                                             *)
LEMMA SetIsReady ==
    ASSUME OnPlan, Settled, HalfGranted, NEW h, Current(h), now.do = "set"
    PROVE  /\ h.scope \in Scope
           /\ ~disturbed => h.operation \in shared.operations
<1>1. /\ h.do \in {"grant", "set"} /\ IsEntry(h) /\ h \in Taken(Done + 1) /\ Stage(h)
      /\ now # Nothing
  BY NowIs DEF Current
<1>2. CASE h.do = "set"
  BY <1>1, <1>2, GrantIsReady DEF IsEntry, Scope
<1>3. CASE h.do = "grant"
  <2>1. Staged(h)
    BY <1>1, <1>3 DEF Stage
  <2> QED BY <1>1, <2>1 DEF HalfGranted
<1> QED BY <1>1, <1>2, <1>3

LEMMA SetPermissionStep ==
    ASSUME IInv, SetPermission
    PROVE  IInv' /\ Adds
<1>1. now # Nothing /\ now.do = "set"
  BY DEF SetPermission, Nothing
<1>2. Applying /\ OnPlan /\ Settled /\ HalfGranted /\ StoresOK
  BY <1>1, SomeEntry
<1>3. PICK h : Current(h)
  BY <1>1, SomeEntry
<1>4. /\ now.tenant = h.tenant /\ now.subject = h.subject
      /\ now.operation = h.operation /\ now.scope = h.scope /\ now.ids = h.ids
      /\ h.tenant \in Configured /\ h.subject \in Subject
      /\ h.operation \in Operation /\ h.ids \subseteq RecordId
      /\ h.do \in {"grant", "set"}
  BY <1>1, <1>3, NowIs
<1>5. PICK t : t = tenants[h.tenant]
  OBVIOUS
<1>6. Good(t)
  BY <1>2, <1>4, <1>5 DEF StoresOK
<1>7. CASE h.scope \in Scope /\ h.operation \in shared.operations
  <2>1. /\ SharedGrown
        /\ AllDeclared(Whole) => UNCHANGED shared
    <3>1. CASE h.subject \in User
      <4>1. Ensured(h.subject)
        BY <1>4, <1>7, <3>1 DEF SetPermission
      <4> QED BY <1>2, <1>3, <1>4, <3>1, <4>1, SharedEnsures, Declared DEF StoresOK
    <3>2. CASE h.subject \notin User
      <4>1. UNCHANGED shared
        BY <1>4, <1>7, <3>2 DEF SetPermission
      <4> QED BY <1>2, <4>1, SharedEnsures DEF StoresOK
    <3> QED BY <3>1, <3>2
  <2>2. CASE ~Known(t, h.subject)
    <3>1. Fail /\ UNCHANGED tenants
      BY <1>4, <1>5, <1>7, <2>2 DEF SetPermission
    <3>2. StoresOK' /\ Grown /\ Idle
      BY <1>2, <2>1, <3>1, SharedAdds DEF Idle, stores
    <3>3. disturbed
      BY <1>2, <1>3, <1>4, <1>5, <2>2, GrantIsReady
    <3> QED BY <1>2, <3>1, <3>2, <3>3, Failed DEF Adds
  <2>3. CASE Known(t, h.subject)
    <3>1. PICK n : n = Granted(t, h.subject, h.operation, h.scope)
      OBVIOUS
    <3>2. /\ Change(h.tenant, n)
          /\ Goto(IF h.ids = {} THEN Nothing ELSE [now EXCEPT !.do = "ids"])
      BY <1>4, <1>5, <1>7, <2>3, <3>1 DEF SetPermission
    <3>3. /\ Good(n) /\ Wider(t, n) /\ n.perm[h.subject][h.operation] = h.scope
          /\ \A x \in Subject, p \in Operation :
                n.perm[x][p] = t.perm[x][p] \/ (x = h.subject /\ p = h.operation)
          /\ n.roles = t.roles
          /\ t.perm[h.subject][h.operation] = h.scope => n = t
      BY <1>4, <1>6, <1>7, <2>3, <3>1, GrantedIs
    <3>4. ASSUME NEW s \in Subject, NEW o \in Operation
          PROVE  \/ n.perm[s][o] = tenants[h.tenant].perm[s][o]
                 \/ /\ now.do = "set" /\ now.tenant = h.tenant
                    /\ now.subject = s /\ now.operation = o /\ n.perm[s][o] = now.scope
      BY <1>1, <1>4, <1>5, <3>3
    <3>5. StoresOK' /\ Grown /\ tenants'[h.tenant] = n /\ (n = t => UNCHANGED tenants)
      BY <1>2, <1>4, <1>5, <2>1, <3>2, <3>3, <3>4, OneTenantAdds
    <3>6. Idle
      BY <1>2, <1>3, <1>4, <1>5, <2>1, <3>3, <3>5, Declared DEF Idle, Grants, stores
    <3>7. h.operation \in shared'.operations
      BY <1>7, <2>1 DEF SharedGrown
    <3>8. CASE h.ids = {}
      <4>1. \A W, k : Holds(W, k, h)'
        BY <1>4, <3>3, <3>5, <3>7, <3>8 DEF Holds
      <4>2. Goto(Nothing)
        BY <3>2, <3>8
      <4> QED BY <1>2, <1>3, <1>4, <3>5, <3>6, <4>1, <4>2, EntryDone DEF Adds
    <3>9. CASE h.ids # {}
      <4>1. h.do = "grant" /\ Staged(h)
        BY <1>1, <1>3, <1>4, <3>9 DEF Current, IsEntry, Stage
      <4>2. PICK m : m = [now EXCEPT !.do = "ids"]
        OBVIOUS
      <4>3. m = [do |-> "ids", tenant |-> h.tenant, subject |-> h.subject,
                 operation |-> h.operation, scope |-> h.scope, ids |-> h.ids]
        BY <4>1, <4>2 DEF Staged
      <4>4. Goto(m)
        BY <3>2, <3>9, <4>2
      <4>5. /\ Known(tenants'[h.tenant], h.subject)
            /\ tenants'[h.tenant].perm[h.subject][h.operation] = h.scope
        BY <2>3, <3>3, <3>5 DEF Known
      <4>6. IInv'
        BY <1>2, <1>3, <1>7, <3>5, <3>7, <4>1, <4>3, <4>4, <4>5, EntryStaged
      <4> QED BY <3>5, <3>6, <4>6 DEF Adds
    <3> QED BY <3>8, <3>9
  <2> QED BY <2>2, <2>3
<1>8. CASE ~(h.scope \in Scope /\ h.operation \in shared.operations)
  <2>1. Fail /\ UNCHANGED stores
    BY <1>4, <1>8 DEF SetPermission
  <2>2. StoresOK' /\ Grown /\ Idle
    BY <1>2, <2>1, SharedEnsures, SharedAdds DEF StoresOK, stores, Idle
  <2>3. disturbed
    BY <1>1, <1>2, <1>3, <1>8, SetIsReady DEF IInv, ControlOK
  <2> QED BY <1>2, <2>1, <2>2, <2>3, Failed DEF Adds
<1> QED BY <1>7, <1>8

LEMMA AddIdsStep ==
    ASSUME IInv, AddIds
    PROVE  IInv' /\ Adds
<1>1. now # Nothing /\ now.do = "ids"
  BY DEF AddIds, Nothing
<1>2. Applying /\ OnPlan /\ Settled /\ HalfGranted /\ StoresOK
  BY <1>1, SomeEntry
<1>3. PICK h : Current(h)
  BY <1>1, SomeEntry
<1>4. /\ now.tenant = h.tenant /\ now.subject = h.subject
      /\ now.operation = h.operation /\ now.scope = h.scope /\ now.ids = h.ids
      /\ h.tenant \in Configured /\ h.subject \in Subject
      /\ h.operation \in Operation /\ h.ids \subseteq RecordId
      /\ h.do = "grant"
  BY <1>1, <1>3, NowIs
<1>5. PICK t : t = tenants[h.tenant]
  OBVIOUS
<1>6. Good(t) /\ UNCHANGED shared
  BY <1>2, <1>4, <1>5 DEF StoresOK, AddIds
<1>7. /\ h.scope \in Scope
      /\ ~disturbed => /\ h.operation \in shared.operations
                       /\ Known(t, h.subject)
                       /\ t.perm[h.subject][h.operation] = h.scope
  <2>1. Staged(h) /\ h \in Taken(Done + 1)
    BY <1>1, <1>3, <1>4 DEF Current, Stage
  <2> QED BY <1>1, <1>2, <1>5, <2>1 DEF HalfGranted
<1>8. SharedGrown
  BY <1>2, <1>6, SharedEnsures DEF StoresOK
<1>9. CASE Known(t, h.subject) /\ t.perm[h.subject][h.operation] # Unset
  <2>1. PICK n : n = IdsAdded(t, h.subject, h.operation, h.ids)
    OBVIOUS
  <2>2. Change(h.tenant, n) /\ Goto(Nothing)
    BY <1>4, <1>5, <1>9, <2>1 DEF AddIds
  <2>3. /\ Good(n) /\ Wider(t, n) /\ n.perm = t.perm
        /\ h.ids \subseteq n.ids[h.subject][h.operation]
        /\ h.ids \subseteq t.ids[h.subject][h.operation] => n = t
    BY <1>4, <1>6, <1>9, <2>1, IdsAddedIs
  <2>4. StoresOK' /\ Grown /\ tenants'[h.tenant] = n /\ (n = t => UNCHANGED tenants)
    BY <1>2, <1>4, <1>5, <1>8, <2>2, <2>3, OneTenantAdds
  <2>5. Idle
    BY <1>2, <1>3, <1>4, <1>5, <1>6, <2>3, <2>4, Declared DEF Idle, Grants, Holds, stores
  <2>6. ~disturbed => \A W, k : Holds(W, k, h)'
    BY <1>4, <1>6, <1>7, <2>3, <2>4 DEF Holds
  <2> QED BY <1>2, <1>3, <1>4, <2>2, <2>4, <2>5, <2>6, EntryDone DEF Adds
<1>10. CASE ~Known(t, h.subject) \/ t.perm[h.subject][h.operation] = Unset
  <2>1. Fail /\ UNCHANGED tenants
    BY <1>4, <1>5, <1>10 DEF AddIds
  <2>2. StoresOK' /\ Grown /\ Idle
    BY <1>2, <1>6, <1>8, <2>1, SharedAdds DEF stores, Idle
  <2>3. disturbed
    BY <1>2, <1>7, <1>10 DEF Scope, Unset, IInv, ControlOK
  <2> QED BY <1>2, <2>1, <2>2, <2>3, Failed DEF Adds
<1> QED BY <1>9, <1>10

LEMMA ApplyStep ==
    ASSUME IInv, Apply
    PROVE  IInv' /\ Adds
  BY SyncResourceStep, SyncOperationStep, SyncUserStep, SyncTenantStep, SyncRoleStep,
     SyncAssignmentStep, RegisterGrantedStep, SetPermissionStep, AddIdsStep
  DEF Apply

-----------------------------------------------------------------------------
(* The steps of the process                                                *)

LEMMA Unmoved ==
    ASSUME OnPlan, UNCHANGED <<phase, loaded, todo, now>>
    PROVE  OnPlan'
<1>1. /\ Whole' = Whole /\ Done' = Done
      /\ \A k : Left(k)' = Left(k) /\ Taken(k)' = Taken(k)
  BY SamePlan, SamePosition
<1>2. \A e : Stage(e)' = Stage(e)
  BY DEF Stage, Staged
<1> QED BY <1>1, <1>2 DEF OnPlan

LEMMA SameHolds ==
    ASSUME UNCHANGED stores
    PROVE  \A W, k, e : Holds(W, k, e)' = Holds(W, k, e)
  BY DEF Holds, stores

LEMMA SameStores ==
    ASSUME StoresOK, UNCHANGED stores
    PROVE  StoresOK'
  BY DEF StoresOK, stores

LEMMA StillForAReason ==
    ASSUME FailsForAReason, UNCHANGED <<loaded, failed, disturbed>>
    PROVE  FailsForAReason'
  BY DEF FailsForAReason, Plan, SelfContained

LEMMA TakeStep ==
    ASSUME IInv, Take
    PROVE  IInv'
<1>1. /\ todo # <<>> /\ now = Nothing
      /\ UNCHANGED <<stores, files, phase, loaded, failed, disturbed, updates, stops>>
  BY DEF Take
<1>2. Applying /\ Applying'
  BY <1>1 DEF IInv, ControlOK, Applying, Phase
<1>3. OnPlan /\ Settled
  BY <1>2 DEF IInv
<1>4. PICK e \in Head(todo) : /\ \A x \in Head(todo) : ~Before(x, e)
                              /\ now' = e
                              /\ todo' = [todo EXCEPT ![1] = @ \ {e}]
  BY DEF Take
<1>5. /\ Done \in Nat /\ Done + 1 \in DOMAIN Whole /\ Left(Done + 1) = Head(todo)
      /\ Head(todo) = todo[1] /\ e \in Whole[Done + 1] /\ Sound(Whole[Done + 1])
      /\ Len(todo) \in Nat /\ Len(todo) > 0 /\ Len(Whole) \in Nat
      /\ DOMAIN Whole = 1 .. Len(Whole)
  BY <1>1, <1>3, Position DEF OnPlan
<1>6. IsEntry(e) /\ e # Nothing
  BY <1>5 DEF Sound, IsEntry, InTenant, Nothing
<1>7. Whole' = Whole
  BY <1>1, SamePlan
<1>8. /\ todo' \in Plans /\ Len(todo') = Len(todo)
      /\ \A j \in 1 .. Len(todo) : todo'[j] = IF j = 1 THEN Head(todo) \ {e} ELSE todo[j]
  <2>1. todo[1] \ {e} \in SUBSET (FileEntry \cup MetaFile)
    BY <1>3, <1>5, LenProperties DEF OnPlan, Plans
  <2>2. todo' = [todo EXCEPT ![1] = todo[1] \ {e}]
    BY <1>4
  <2>3. todo \in Seq(SUBSET (FileEntry \cup MetaFile)) /\ 1 \in 1 .. Len(todo)
    BY <1>3, <1>5 DEF OnPlan, Plans
  <2> QED BY <1>5, <2>1, <2>2, <2>3, ExceptSeq DEF Plans
<1>9. Done' = Done
  BY <1>7, <1>8 DEF Done
<1>10. ASSUME NEW k \in DOMAIN Whole
       PROVE  Left(k)' = IF k = Done + 1 THEN Left(k) \ {e} ELSE Left(k)
  <2>1. CASE k <= Done
    BY <1>5, <1>9, <2>1 DEF Left
  <2>2. CASE k > Done
    <3>1. k - Done \in 1 .. Len(todo) /\ (k - Done = 1 <=> k = Done + 1)
      BY <1>3, <1>5, <2>2 DEF Done, OnPlan
    <3>2. Left(k) = todo[k - Done] /\ Left(k)' = todo'[k - Done]
      BY <1>5, <1>9, <2>2 DEF Left
    <3> QED BY <1>5, <1>8, <3>1, <3>2
  <2> QED BY <1>5, <2>1, <2>2
<1>11. ASSUME NEW k \in DOMAIN Whole, NEW x \in Taken(k)'
       PROVE  x \in Taken(k) \/ (k = Done + 1 /\ x = e)
  BY <1>7, <1>10 DEF Taken
<1>12. e \in Taken(Done + 1)' /\ Stage(e)'
  BY <1>4, <1>5, <1>6, <1>7, <1>9, <1>10 DEF Taken, Stage
<1>13. OnPlan'
  <2>1. Head(todo') \subseteq Head(todo)
    <3>1. todo' # <<>> /\ Head(todo') = todo'[1]
      BY <1>5, <1>8, EmptySeq DEF Plans
    <3> QED BY <1>5, <1>8, <3>1
  <2>2. \A x \in Head(todo') : ~Before(x, e)
    BY <1>4, <2>1
  <2>3. todo' # <<>>
    BY <1>5, <1>8
  <2>4. ASSUME NEW k \in DOMAIN Whole
        PROVE  Left(k)' \subseteq Whole[k] /\ (k > Done + 1 => Left(k)' = Whole[k])
    BY <1>3, <1>5, <1>10 DEF OnPlan
  <2>5. \E x \in Taken(Done + 1)' : Stage(x)' /\ \A y \in Head(todo') : ~Before(y, x)
    BY <1>12, <2>2
  <2> QED BY <1>3, <1>7, <1>8, <1>9, <2>3, <2>4, <2>5 DEF OnPlan
<1>14. e.do \in InTenant => e.tenant \in Configured
  <2>1. SUFFICES ASSUME e.do \in InTenant, Lookup(e.tenant) \in Whole[Done + 1]
                 PROVE  e.tenant \in Configured
    BY <1>5 DEF Sound
  <2>2. PICK l \in Whole[Done + 1] : l = Lookup(e.tenant)
    BY <2>1
  <2>3. l.do = "tenant" /\ l.tenant = e.tenant
    BY <2>2 DEF Lookup
  <2>4. Before(l, e)
    BY <2>1, <2>3, Precedes
  <2>5. l \in Taken(Done + 1) /\ ~InHand(Done + 1, l)
    BY <1>1, <1>4, <1>5, <2>4 DEF Taken, InHand, Stage
  <2> QED BY <1>3, <1>5, <2>3, <2>5 DEF Settled
<1>15. Settled'
  <2>1. PICK W : W = Whole
    OBVIOUS
  <2>2. ASSUME NEW k \in DOMAIN W, NEW x \in Taken(k)'
        PROVE  /\ x.do \in InTenant => x.tenant \in Configured
               /\ ~InHand(k, x)' => /\ x.do = "tenant" => x.tenant \in Configured
                                    /\ ~disturbed => Holds(W, k, x)'
    <3>1. CASE k = Done + 1 /\ x = e
      BY <1>9, <1>12, <1>14, <3>1 DEF InHand
    <3>2. CASE x \in Taken(k)
      <4>1. ~InHand(k, x)
        BY <1>1 DEF InHand, Stage
      <4> QED BY <1>1, <1>3, <2>1, <3>2, <4>1, SameHolds DEF Settled
    <3> QED BY <1>11, <2>1, <3>1, <3>2
  <2>3. Whole' = W /\ disturbed' = disturbed
    BY <1>1, <1>7, <2>1
  <2> QED BY <2>2, <2>3 DEF Settled
<1>16. ASSUME NEW x \in Taken(Done + 1)', Staged(x)'
       PROVE  FALSE
  <2>1. x \in Whole[Done + 1]
    BY <1>7, <1>9 DEF Taken
  <2>2. /\ x.do = "grant" /\ e.do \in {"set", "ids"} /\ e.tenant = x.tenant
        /\ e.subject = x.subject /\ e.operation = x.operation
    BY <1>4, <1>16 DEF Staged
  <2>3. SameGrant(x, e)
    BY <1>6, <2>2 DEF SameGrant, Grants, IsEntry, InTenant
  <2> QED BY <1>5, <2>1, <2>2, <2>3 DEF Sound
<1>17. HalfGranted'
  BY <1>9, <1>16 DEF HalfGranted
<1>18. StoresOK' /\ FailsForAReason' /\ ControlOK'
  BY <1>1, <1>2, SameStores, StillForAReason DEF IInv, ControlOK, Applying
<1> QED BY <1>13, <1>15, <1>17, <1>18 DEF IInv

LEMMA NextFileStep ==
    ASSUME IInv, NextFile
    PROVE  IInv'
<1>1. /\ todo # <<>> /\ now = Nothing /\ Head(todo) = {} /\ todo' = Tail(todo)
      /\ UNCHANGED <<stores, files, phase, loaded, now, failed, disturbed, updates, stops>>
  BY DEF NextFile
<1>2. Applying /\ Applying'
  BY <1>1 DEF IInv, ControlOK, Applying, Phase
<1>3. OnPlan /\ Settled
  BY <1>2 DEF IInv
<1>4. /\ Done \in Nat /\ Done + 1 \in DOMAIN Whole /\ Left(Done + 1) = {}
      /\ Len(todo) \in Nat /\ Len(todo) > 0 /\ Len(Whole) \in Nat
      /\ DOMAIN Whole = 1 .. Len(Whole)
  BY <1>1, <1>3, Position
<1>5. Whole' = Whole
  BY <1>1, SamePlan
<1>6. /\ todo' \in Plans /\ Len(todo') = Len(todo) - 1
      /\ \A j \in 1 .. Len(todo) - 1 : todo'[j] = todo[j + 1]
  BY <1>1, <1>3, HeadTailProperties DEF OnPlan, Plans
<1>7. Done' = Done + 1
  BY <1>4, <1>5, <1>6 DEF Done
<1>8. ASSUME NEW k \in DOMAIN Whole
      PROVE  Left(k)' = Left(k) /\ Taken(k)' = Taken(k)
  <2>1. CASE k <= Done
    BY <1>4, <1>5, <1>7, <2>1 DEF Left, Taken
  <2>2. CASE k = Done + 1
    BY <1>4, <1>5, <1>7, <2>2 DEF Left, Taken
  <2>3. CASE k > Done + 1
    <3>1. k - Done - 1 \in 1 .. Len(todo) - 1 /\ (k - Done - 1) + 1 = k - Done
          /\ k - (Done + 1) = k - Done - 1
      BY <1>3, <1>4, <2>3 DEF Done, OnPlan
    <3>2. Left(k) = todo[k - Done] /\ Left(k)' = todo'[k - Done - 1]
      BY <1>4, <1>7, <2>3, <3>1 DEF Left
    <3> QED BY <1>5, <1>6, <3>1, <3>2 DEF Taken
  <2> QED BY <1>4, <2>1, <2>2, <2>3
<1>9. OnPlan'
  <2>1. \A k \in DOMAIN Whole :
           Left(k)' \subseteq Whole[k] /\ (k > Done + 2 => Left(k)' = Whole[k])
    BY <1>3, <1>4, <1>8 DEF OnPlan
  <2>2. Len(todo') <= Len(Whole) /\ Done' + 1 = Done + 2
    BY <1>3, <1>4, <1>6, <1>7 DEF OnPlan
  <2> QED BY <1>1, <1>3, <1>5, <1>6, <1>7, <2>1, <2>2 DEF OnPlan
<1>10. Settled'
  <2>1. PICK W : W = Whole
    OBVIOUS
  <2>2. ASSUME NEW k \in DOMAIN W, NEW x \in Taken(k)
        PROVE  /\ x.do \in InTenant => x.tenant \in Configured
               /\ x.do = "tenant" => x.tenant \in Configured
               /\ ~disturbed => Holds(W, k, x)'
    <3>1. ~InHand(k, x)
      BY <1>1 DEF InHand, Stage
    <3> QED BY <1>1, <1>3, <2>1, <3>1, SameHolds DEF Settled
  <2>3. Whole' = W /\ disturbed' = disturbed /\ \A k \in DOMAIN W : Taken(k)' = Taken(k)
    BY <1>1, <1>5, <1>8, <2>1
  <2> QED BY <2>2, <2>3 DEF Settled
<1>11. HalfGranted'
  BY <1>1 DEF HalfGranted
<1>12. StoresOK' /\ FailsForAReason' /\ ControlOK'
  BY <1>1, <1>2, SameStores, StillForAReason DEF IInv, ControlOK, Applying
<1> QED BY <1>9, <1>10, <1>11, <1>12 DEF IInv

(* What a start-up or synchronization sets out to apply: the files pre are *)
(* applied already, the files fs are not.                                  *)
LEMMA Begun ==
    ASSUME NEW pre \in Plans, NEW fs \in Plans, Whole' = pre \o fs, todo' = fs, now' = Nothing,
           \A k \in DOMAIN pre : Sound(pre[k]),
           \A k \in DOMAIN fs : Sound(fs[k]),
           \A k \in DOMAIN pre : \A e \in pre[k] :
              /\ e.do \in InTenant \cup {"tenant"} => e.tenant \in Configured
              /\ \A W : W = pre \o fs => Holds(W, k, e)'
    PROVE  OnPlan' /\ Settled' /\ HalfGranted'
<1>1. PICK W : W = pre \o fs
  OBVIOUS
<1>2. /\ Len(pre) \in Nat /\ Len(fs) \in Nat
      /\ DOMAIN pre = 1 .. Len(pre) /\ DOMAIN fs = 1 .. Len(fs)
  BY LenProperties DEF Plans
<1>3. /\ W \in Plans /\ Len(W) = Len(pre) + Len(fs)
      /\ \A i \in 1 .. Len(pre) + Len(fs) :
            W[i] = IF i <= Len(pre) THEN pre[i] ELSE fs[i - Len(pre)]
  BY <1>1, ConcatProperties DEF Plans
<1>4. DOMAIN W = 1 .. Len(pre) + Len(fs)
  BY <1>3, LenProperties DEF Plans
<1>5. Whole' = W /\ Done' = Len(pre)
  BY <1>1, <1>2, <1>3 DEF Done
<1>6. ASSUME NEW k \in DOMAIN W
      PROVE  /\ Sound(W[k])
             /\ k <= Len(pre) => Left(k)' = {} /\ W[k] = pre[k] /\ k \in DOMAIN pre
             /\ k > Len(pre) => Left(k)' = W[k]
  <2>1. CASE k <= Len(pre)
    BY <1>2, <1>3, <1>4, <1>5, <2>1 DEF Left
  <2>2. CASE k > Len(pre)
    <3>1. k - Len(pre) \in DOMAIN fs /\ W[k] = fs[k - Len(pre)]
      BY <1>2, <1>3, <1>4, <2>2
    <3>2. Left(k)' = fs[k - Len(pre)]
      BY <1>2, <1>4, <1>5, <2>2 DEF Left
    <3> QED BY <1>2, <1>4, <2>2, <3>1, <3>2
  <2> QED BY <1>2, <1>4, <2>1, <2>2
<1>7. OnPlan'
  <2>1. Len(todo') <= Len(Whole')
    BY <1>2, <1>3, <1>5
  <2>2. \A k \in DOMAIN W : Left(k)' \subseteq W[k] /\ (k > Len(pre) + 1 => Left(k)' = W[k])
    BY <1>2, <1>4, <1>6
  <2> QED BY <1>3, <1>5, <1>6, <2>1, <2>2 DEF OnPlan
<1>8. Settled'
  <2>1. ASSUME NEW k \in DOMAIN W, NEW e \in Taken(k)'
        PROVE  /\ e.do \in InTenant \cup {"tenant"} => e.tenant \in Configured
               /\ Holds(W, k, e)'
    <3>1. k <= Len(pre)
      BY <1>2, <1>4, <1>5, <1>6 DEF Taken
    <3>2. k \in DOMAIN pre /\ e \in pre[k]
      BY <1>5, <1>6, <3>1 DEF Taken
    <3> QED BY <1>1, <3>2
  <2> QED BY <1>5, <2>1 DEF Settled
<1>9. HalfGranted'
  BY DEF HalfGranted
<1> QED BY <1>7, <1>8, <1>9

LEMMA FilesPlan ==
    ASSUME files \in FileLists
    PROVE  /\ files \in Plans
           /\ Readable(files) => \A k \in DOMAIN files : Sound(files[k])
           /\ ~Readable(files) => ~SelfContained(files) /\ ~SelfContained(<<MetaFile>> \o files)
<1>1. files \in Seq(SUBSET FileEntry) /\ \A k \in DOMAIN files : IsFile(files[k])
  BY FileListsType
<1>2. files \in Plans
  <2>1. SUBSET FileEntry \subseteq SUBSET (FileEntry \cup MetaFile)
    OBVIOUS
  <2> QED BY <1>1, <2>1 DEF Plans
<1>3. Readable(files) => \A k \in DOMAIN files : Sound(files[k])
  BY <1>1, FileIsSound DEF Readable
<1>4. ASSUME ~Readable(files)
      PROVE  ~SelfContained(files) /\ ~SelfContained(<<MetaFile>> \o files)
  <2>1. PICK k \in DOMAIN files : Unreadable \in files[k]
    BY <1>4 DEF Readable
  <2>2. <<MetaFile>> \in Plans /\ Len(<<MetaFile>>) = 1
    BY DEF Plans
  <2>3. Len(files) \in Nat /\ DOMAIN files = 1 .. Len(files)
    BY <1>2, LenProperties DEF Plans
  <2>4. PICK W : W = <<MetaFile>> \o files
    OBVIOUS
  <2>5. /\ W \in Plans /\ Len(W) = 1 + Len(files)
        /\ \A i \in 1 .. 1 + Len(files) : W[i] = IF i <= 1 THEN <<MetaFile>>[i] ELSE files[i - 1]
    BY <1>2, <2>2, <2>4, ConcatProperties DEF Plans
  <2>6. k + 1 \in DOMAIN W /\ W[k + 1] = files[k]
    <3>1. DOMAIN W = 1 .. 1 + Len(files)
      BY <2>3, <2>5, LenProperties DEF Plans
    <3>2. k + 1 \in 1 .. 1 + Len(files) /\ ~(k + 1 <= 1) /\ (k + 1) - 1 = k
      BY <2>3
    <3> QED BY <2>5, <3>1, <3>2
  <2>7. ~SelfContained(W) /\ ~SelfContained(files)
    BY <2>1, <2>6 DEF SelfContained
  <2> QED BY <2>4, <2>7
<1> QED BY <1>2, <1>3, <1>4

LEMMA MetaPlan ==
    /\ <<MetaFile>> \in Plans /\ <<>> \in Plans
    /\ DOMAIN <<MetaFile>> = {1} /\ <<MetaFile>>[1] = MetaFile
    /\ DOMAIN <<>> = {}
    /\ <<MetaFile>> \o <<>> = <<MetaFile>>
    /\ \A fs \in Plans : <<>> \o fs = fs
<1>1. <<MetaFile>> \in Plans /\ <<>> \in Plans
  BY DEF Plans
<1> QED BY <1>1, ConcatEmptySeq DEF Plans

LEMMA StartStep ==
    ASSUME IInv, Start
    PROVE  IInv'
<1>1. /\ phase = "down" /\ phase' = "meta" /\ todo' = <<MetaFile>> /\ loaded' = <<>>
      /\ failed' = "none" /\ disturbed' = FALSE
      /\ UNCHANGED <<stores, files, now, updates, stops>>
  BY DEF Start, Begin
<1>2. now' = Nothing
  BY <1>1 DEF IInv, ControlOK
<1>3. Whole' = <<MetaFile>> \o <<>>
  BY <1>1 DEF Whole, Plan
<1>4. OnPlan' /\ Settled' /\ HalfGranted'
  <2>1. Whole' = <<>> \o <<MetaFile>>
    BY <1>3, MetaPlan
  <2>2. \A k \in DOMAIN <<MetaFile>> : Sound(<<MetaFile>>[k])
    BY MetaPlan, MetaIsSound
  <2> QED BY <1>1, <1>2, <2>1, <2>2, MetaPlan, Begun
<1>5. StoresOK' /\ ControlOK' /\ FailsForAReason'
  BY <1>1, <1>2, SameStores DEF IInv, ControlOK, Phase, FailsForAReason
<1> QED BY <1>4, <1>5 DEF IInv

(* A file that cannot be read or parsed ends it before anything is applied. *)
LEMMA LoadFails ==
    ASSUME IInv, NEW p \in {"starting", "syncing"}, Load(p), ~Readable(files),
           todo = <<>>, now = Nothing
    PROVE  IInv'
<1>1. /\ loaded' = files /\ phase' \in {"serving", "down"}
      /\ failed' = p /\ disturbed' = FALSE
      /\ UNCHANGED <<stores, files, todo, now, updates, stops>>
  BY DEF Load, Begin
<1>2. files \in FileLists
  BY DEF IInv, ControlOK
<1>3. ~SelfContained(Plan(failed)')
  BY <1>1, <1>2, FilesPlan DEF Plan
<1>4. FailsForAReason'
  BY <1>3 DEF FailsForAReason
<1>5. StoresOK' /\ ControlOK' /\ ~Applying'
  BY <1>1, <1>2, SameStores DEF IInv, ControlOK, Phase, Applying
<1> QED BY <1>4, <1>5 DEF IInv

LEMMA LoadAtStartStep ==
    ASSUME IInv, LoadAtStart
    PROVE  IInv'
<1>1. phase = "meta" /\ todo = <<>> /\ Load("starting") /\ loaded = <<>> /\ ~disturbed
  BY DEF LoadAtStart, IInv, ControlOK
<1>2. OnPlan /\ Settled
  BY <1>1 DEF IInv, Applying
<1>3. now = Nothing
  BY <1>1, <1>2 DEF OnPlan
<1>4. files \in FileLists /\ files \in Plans
  BY FilesPlan DEF IInv, ControlOK
<1>5. CASE ~Readable(files)
  BY <1>1, <1>3, <1>5, LoadFails
<1>6. CASE Readable(files)
  <2>1. /\ phase' = "starting" /\ todo' = files /\ loaded' = files
        /\ failed' = "none" /\ disturbed' = FALSE
        /\ UNCHANGED <<stores, files, now, updates, stops>>
    BY <1>1, <1>6 DEF Load, Begin
  <2>2. Whole = <<MetaFile>> /\ Whole' = <<MetaFile>> \o files
    BY <1>1, <2>1, MetaPlan DEF Whole, Plan
  <2>3. Taken(1) = MetaFile
    <3>1. Len(<<MetaFile>>) = 1 /\ Len(todo) = 0
      BY <1>1
    <3>2. Done = 1
      BY <2>2, <3>1 DEF Done
    <3> QED BY <2>2, <3>2, MetaPlan DEF Taken, Left
  <2>4. ASSUME NEW e \in MetaFile
        PROVE  /\ e.do \in InTenant \cup {"tenant"} => e.tenant \in Configured
               /\ Holds(<<MetaFile>>, 1, e)
    <3>1. ~InHand(1, e)
      BY <1>3 DEF InHand, Stage
    <3>2. 1 \in DOMAIN Whole
      BY <2>2, MetaPlan
    <3> QED BY <1>1, <1>2, <2>2, <2>3, <3>1, <3>2 DEF Settled
  <2>5. ASSUME NEW k \in DOMAIN <<MetaFile>>, NEW e \in <<MetaFile>>[k],
               NEW W, W = <<MetaFile>> \o files
        PROVE  /\ e.do \in InTenant \cup {"tenant"} => e.tenant \in Configured
               /\ Holds(W, k, e)'
    <3>1. k = 1 /\ e \in MetaFile
      BY MetaPlan
    <3>2. Holds(<<MetaFile>>, 1, e)
      BY <2>4, <3>1
    <3>3. ~\E j \in DOMAIN <<MetaFile>> : j > 1 /\ \E f \in <<MetaFile>>[j] : SameGrant(e, f)
      BY MetaPlan
    <3>4. Holds(W, k, e)
      BY <3>1, <3>2, <3>3 DEF Holds
    <3> QED BY <2>1, <2>4, <3>1, <3>4, SameHolds
  <2>6. \A k \in DOMAIN <<MetaFile>> : Sound(<<MetaFile>>[k])
    BY MetaPlan, MetaIsSound
  <2>7. \A k \in DOMAIN files : Sound(files[k])
    BY <1>4, <1>6, FilesPlan
  <2>8. now' = Nothing
    BY <1>3, <2>1
  <2>9. OnPlan' /\ Settled' /\ HalfGranted'
    <3>1. <<MetaFile>> \in Plans
      BY MetaPlan
    <3>2. \A k \in DOMAIN <<MetaFile>> : \A e \in <<MetaFile>>[k] :
             /\ e.do \in InTenant \cup {"tenant"} => e.tenant \in Configured
             /\ \A W : W = <<MetaFile>> \o files => Holds(W, k, e)'
      BY <2>5
    <3> QED BY <1>4, <2>1, <2>2, <2>6, <2>7, <2>8, <3>1, <3>2, Begun
  <2>10. StoresOK' /\ ControlOK' /\ FailsForAReason'
    BY <1>4, <2>1, SameStores DEF IInv, ControlOK, Phase, FailsForAReason
  <2> QED BY <2>9, <2>10 DEF IInv
<1> QED BY <1>5, <1>6

LEMMA HandleSyncStep ==
    ASSUME IInv, HandleSync
    PROVE  IInv'
<1>1. phase = "serving" /\ todo = <<>> /\ now = Nothing /\ Load("syncing")
  BY DEF HandleSync, IInv, ControlOK
<1>2. files \in FileLists /\ files \in Plans
  BY FilesPlan DEF IInv, ControlOK
<1>3. CASE ~Readable(files)
  BY <1>1, <1>3, LoadFails
<1>4. CASE Readable(files)
  <2>1. /\ phase' = "syncing" /\ todo' = files /\ loaded' = files
        /\ failed' = "none" /\ disturbed' = FALSE
        /\ UNCHANGED <<stores, files, now, updates, stops>>
    BY <1>1, <1>4 DEF Load, Begin
  <2>2. Whole' = <<>> \o files
    BY <1>2, <2>1, MetaPlan DEF Whole, Plan
  <2>3. now' = Nothing
    BY <1>1, <2>1
  <2>4. \A k \in DOMAIN files : Sound(files[k])
    BY <1>2, <1>4, FilesPlan
  <2>5. OnPlan' /\ Settled' /\ HalfGranted'
    BY <1>2, <2>1, <2>2, <2>3, <2>4, MetaPlan, Begun
  <2>6. StoresOK' /\ ControlOK' /\ FailsForAReason'
    BY <1>2, <2>1, SameStores DEF IInv, ControlOK, Phase, FailsForAReason
  <2> QED BY <2>5, <2>6 DEF IInv
<1> QED BY <1>3, <1>4

LEMMA ReadyStep ==
    ASSUME IInv, Ready
    PROVE  IInv'
<1>1. /\ phase \in {"starting", "syncing"} /\ todo = <<>> /\ phase' = "serving"
      /\ UNCHANGED <<stores, files, loaded, todo, now, failed, disturbed, updates, stops>>
  BY DEF Ready
<1>2. now = Nothing
  BY <1>1 DEF IInv, Applying, OnPlan
<1>3. ControlOK' /\ ~Applying'
  BY <1>1, <1>2 DEF IInv, ControlOK, Phase, Applying
<1> QED BY <1>1, <1>3, SameStores, StillForAReason DEF IInv

LEMMA StopStep ==
    ASSUME IInv, Stop
    PROVE  IInv'
<1>1. /\ stops < MaxStops /\ stops' = stops + 1
      /\ phase' = "down" /\ todo' = <<>> /\ now' = Nothing
      /\ UNCHANGED <<stores, files, loaded, failed, disturbed, updates>>
  BY DEF Stop
<1>2. stops' \in 0 .. MaxStops
  BY <1>1, BoundsAreNaturals DEF IInv, ControlOK
<1>3. ControlOK' /\ ~Applying'
  BY <1>1, <1>2 DEF IInv, ControlOK, Phase, Applying
<1> QED BY <1>1, <1>3, SameStores, StillForAReason DEF IInv

LEMMA IOErrorStep ==
    ASSUME IInv, IOError
    PROVE  IInv'
<1>1. /\ phase \in {"meta", "starting", "syncing"} /\ stops < MaxStops /\ stops' = stops + 1
      /\ phase' \in {"down", "serving"} /\ todo' = <<>> /\ now' = Nothing
      /\ failed' = phase /\ disturbed' = TRUE
      /\ UNCHANGED <<stores, files, loaded, updates>>
  BY DEF IOError
<1>2. stops' \in 0 .. MaxStops
  BY <1>1, BoundsAreNaturals DEF IInv, ControlOK
<1>3. ControlOK' /\ ~Applying'
  BY <1>1, <1>2 DEF IInv, ControlOK, Phase, Applying
<1>4. FailsForAReason'
  BY <1>1 DEF FailsForAReason
<1> QED BY <1>1, <1>3, <1>4, SameStores DEF IInv

(* Steps that leave the process where it is, and all data that is declared *)
(* unless another handler is at work.                                      *)
LEMMA PutStep ==
    ASSUME IInv, UNCHANGED <<phase, loaded, todo, now, failed>>, StoresOK', ControlOK',
           (UNCHANGED <<stores, disturbed>>) \/ disturbed' = TRUE
    PROVE  IInv'
<1>1. FailsForAReason'
  BY StillForAReason DEF IInv, FailsForAReason
<1>2. SUFFICES ASSUME Applying
               PROVE  OnPlan' /\ Settled' /\ HalfGranted'
  BY <1>1 DEF IInv, Applying
<1>3. OnPlan /\ Settled /\ HalfGranted
  BY <1>2 DEF IInv
<1>4. /\ Whole' = Whole /\ Done' = Done
      /\ \A k : Left(k)' = Left(k) /\ Taken(k)' = Taken(k)
  BY SamePlan, SamePosition
<1>5. \A e : Staged(e)' = Staged(e) /\ Stage(e)' = Stage(e)
  BY DEF Stage, Staged
<1>6. \A k, e : InHand(k, e)' = InHand(k, e)
  BY <1>4, <1>5 DEF InHand
<1>7. OnPlan'
  BY <1>3, Unmoved
<1>8. Settled'
  <2>1. PICK W : W = Whole
    OBVIOUS
  <2>2. ASSUME NEW k \in DOMAIN W, NEW e \in Taken(k)
        PROVE  /\ e.do \in InTenant => e.tenant \in Configured
               /\ ~InHand(k, e) => /\ e.do = "tenant" => e.tenant \in Configured
                                   /\ ~disturbed' => Holds(W, k, e)'
    <3>1. ~disturbed' => ~disturbed /\ (Holds(W, k, e)' = Holds(W, k, e))
      BY SameHolds
    <3> QED BY <1>3, <2>1, <3>1 DEF Settled
  <2>3. Whole' = W
    BY <1>4, <2>1
  <2> QED BY <1>4, <1>6, <2>2, <2>3 DEF Settled
<1>9. HalfGranted'
  <2>1. SUFFICES ASSUME now # Nothing, NEW e \in Taken(Done + 1), Staged(e)
                 PROVE  /\ e.scope \in Scope
                        /\ ~disturbed' =>
                              /\ e.operation \in shared'.operations
                              /\ now.do = "ids" =>
                                    /\ Known(tenants'[e.tenant], e.subject)
                                    /\ tenants'[e.tenant].perm[e.subject][e.operation] = e.scope
    BY <1>4, <1>5 DEF HalfGranted
  <2>2. /\ e.scope \in Scope
        /\ ~disturbed =>
              /\ e.operation \in shared.operations
              /\ now.do = "ids" =>
                    /\ Known(tenants[e.tenant], e.subject)
                    /\ tenants[e.tenant].perm[e.subject][e.operation] = e.scope
    BY <1>3, <2>1 DEF HalfGranted
  <2>3. ~disturbed' => shared' = shared /\ tenants' = tenants /\ ~disturbed
    BY DEF stores
  <2> QED BY <2>2, <2>3
<1> QED BY <1>7, <1>8, <1>9

(* DeleteOperation and DeleteResource (json.go:160-206).                   *)
LEMMA SharedDeletes ==
    ASSUME shared \in Shared!SharedData,
           \/ \E o \in Operation : Shared!DeleteOperation(o, "saved")
           \/ \E p \in Resource : Shared!DeleteResource(p, "saved")
    PROVE  shared' \in Shared!SharedData
<1>1. CASE \E o \in Operation : Shared!DeleteOperation(o, "saved")
  <2>1. PICK o : shared' = [shared EXCEPT !.operations = @ \ {o}]
    BY <1>1 DEF Shared!DeleteOperation, Shared!Saved, Shared!NotFound
  <2> QED BY <2>1 DEF Shared!SharedData
<1>2. CASE \E p \in Resource : Shared!DeleteResource(p, "saved")
  <2>1. PICK p : shared' = [shared EXCEPT !.resources = @ \ {p},
                                          !.operations = {o \in @ : ResourceOf[o] # p}]
    BY <1>2 DEF Shared!DeleteResource, Shared!Saved, Shared!NotFound
  <2> QED BY <2>1 DEF Shared!SharedData
<1> QED BY <1>1, <1>2

LEMMA UpdateStep ==
    ASSUME IInv, Update
    PROVE  IInv'
<1>1. /\ phase \in {"serving", "syncing"} /\ updates < MaxUpdates
      /\ updates' = updates + 1 /\ disturbed' = TRUE
      /\ UNCHANGED <<files, phase, loaded, todo, now, failed, stops>>
  BY DEF Update
<1>2. ControlOK'
  BY <1>1, BoundsAreNaturals DEF IInv, ControlOK, Phase
<1>3. StoresOK
  BY DEF IInv
<1>4. CASE /\ \E t \in Configured : \E d \in Updated(tenants[t]) : Change(t, d)
           /\ UNCHANGED shared
  <2>1. PICK t \in Configured : \E d \in Updated(tenants[t]) : Change(t, d)
    BY <1>4
  <2>2. PICK d \in Updated(tenants[t]) : Change(t, d)
    BY <2>1
  <2>3. Good(d) /\ d \in TenantData
    BY <1>3, UpdatedIsGood DEF StoresOK, Good
  <2>4. tenants' = [tenants EXCEPT ![t] = d]
    BY <2>2 DEF Change
  <2>5. StoresOK'
    BY <1>3, <1>4, <2>3, <2>4 DEF StoresOK
  <2> QED BY <1>1, <1>2, <2>5, PutStep
<1>5. CASE /\ \/ \E o \in Operation : Shared!DeleteOperation(o, "saved")
              \/ \E p \in Resource : Shared!DeleteResource(p, "saved")
           /\ UNCHANGED tenants
  <2>1. StoresOK'
    BY <1>3, <1>5, SharedDeletes DEF StoresOK
  <2> QED BY <1>1, <1>2, <2>1, PutStep
<1> QED BY <1>4, <1>5 DEF Update

LEMMA EditFilesStep ==
    ASSUME IInv, EditFiles
    PROVE  IInv'
<1>1. files' \in FileLists /\ UNCHANGED <<stores, control, updates, stops>>
  BY DEF EditFiles
<1>2. StoresOK' /\ ControlOK'
  BY <1>1, SameStores DEF IInv, ControlOK, control
<1> QED BY <1>1, <1>2, PutStep DEF control

LEMMA InitIInv == Init => IInv
<1> SUFFICES ASSUME Init PROVE IInv
  OBVIOUS
<1>1. Good(EmptyTenant)
  BY SubjectsApart DEF Good, EmptyTenant, TenantData, NoPerms, NoIds, Grant, Unset, Subject
<1>2. StoresOK
  BY <1>1 DEF Init, Shared!Init, Shared!SharedData, StoresOK, Good
<1>3. /\ files \in FileLists /\ phase = "down" /\ loaded = <<>> /\ todo = <<>> /\ now = Nothing
      /\ failed = "none" /\ disturbed = FALSE /\ updates = 0 /\ stops = 0
  BY DEF Init
<1>4. ControlOK
  <2>1. 0 \in 0 .. MaxUpdates /\ 0 \in 0 .. MaxStops
    BY BoundsAreNaturals
  <2>2. loaded \in FileLists \cup {<<>>} /\ disturbed \in BOOLEAN
    BY <1>3
  <2>3. phase \in Phase /\ failed \in Phase \cup {"none"}
    BY <1>3 DEF Phase
  <2> QED BY <1>3, <2>1, <2>2, <2>3 DEF ControlOK
<1>5. ~Applying /\ FailsForAReason
  BY <1>3 DEF Applying, FailsForAReason
<1> QED BY <1>2, <1>4, <1>5 DEF IInv

LEMMA NextIInv == IInv /\ [Next]_vars => IInv'
<1> SUFFICES ASSUME IInv, [Next]_vars PROVE IInv'
  OBVIOUS
<1>1. CASE UNCHANGED vars
  <2>1. StoresOK' /\ ControlOK'
    BY <1>1, SameStores DEF IInv, ControlOK, control, vars
  <2> QED BY <1>1, <2>1, PutStep DEF vars, control
<1>2. CASE Next
  BY <1>2, StartStep, TakeStep, NextFileStep, ApplyStep, LoadAtStartStep, ReadyStep,
     HandleSyncStep, StopStep, IOErrorStep, EditFilesStep, UpdateStep
  DEF Next, Run
<1> QED BY <1>1, <1>2

LEMMA SpecIInv == Spec => []IInv
  BY InitIInv, NextIInv, PTL DEF Spec

(* No start-up and no synchronization ends with an error that neither the  *)
(* files, another handler's change nor a failing store explains            *)
(* (sync.go:116-192).                                                      *)
THEOREM BootstrapInv == Spec => []Inv
  BY SpecIInv, IInvImpliesInv, PTL

(* The process serves, or answers an undisturbed synchronization, when the *)
(* data holds all that the files declare (sync.go:113-192, main.go:53-63). *)
THEOREM ServesDeclared == Spec => []ServesWhatIsDeclared
<1>1. IInv => ServesWhatIsDeclared
  <2> SUFFICES ASSUME IInv, phase \in {"starting", "syncing"}, todo = <<>>, ~disturbed
               PROVE  AllDeclared(Whole)
    BY DEF ServesWhatIsDeclared
  <2>1. OnPlan /\ Settled
    BY DEF IInv, Applying
  <2>2. now = Nothing
    BY <2>1 DEF OnPlan
  <2>3. /\ Len(Whole) \in Nat /\ DOMAIN Whole = 1 .. Len(Whole) /\ Done = Len(Whole)
    BY <2>1, Position DEF Done
  <2>4. \A k \in DOMAIN Whole : Taken(k) = Whole[k]
    BY <2>1, <2>3, Position
  <2>5. \A k, e : ~InHand(k, e)
    BY <2>2 DEF InHand, Stage
  <2> QED BY <2>1, <2>4, <2>5 DEF Settled, AllDeclared
<1> QED BY <1>1, SpecIInv, PTL

(* A synchronization or a start-up never stands before entries of which    *)
(* each has to wait for another, and never holds one that it cannot apply: *)
(* it is a call to a tenant's store only when the tenant is configured.    *)
SomethingIsNext == \E e \in Head(todo) : \A x \in Head(todo) : ~Before(x, e)

GoesOn ==
    Applying =>
       \/ now = Nothing /\ (todo # <<>> /\ Head(todo) # {} => SomethingIsNext)
       \/ /\ now.do \in {"resource", "operation", "provision", "tenant", "ids"} \cup InTenant
          /\ now.do \in InTenant \cup {"ids"} => now.tenant \in Configured

(* The loops' order as a number: what comes before has a smaller one.      *)
Rank(e) ==
    IF Part(e) < 4 THEN Part(e)
    ELSE IF IsLookup(e) THEN 4
    ELSE IF e.subject \in Role THEN 4 + Turn(e) ELSE 7 + Turn(e)

LEMMA RankIsNat == \A e : Rank(e) \in Nat
<1>1. \A e : Part(e) \in 1 .. 4 /\ Turn(e) \in 1 .. 3
  BY DEF Part, Turn
<1> QED BY <1>1 DEF Rank

LEMMA BeforeIsLess ==
    ASSUME NEW x, NEW y, Before(x, y)
    PROVE  Rank(x) < Rank(y)
<1>1. \A e : Part(e) \in 1 .. 4 /\ Turn(e) \in 1 .. 3
  BY DEF Part, Turn
<1>2. \A e : Part(e) = 4 => Rank(e) >= 4
  BY <1>1 DEF Rank
<1>3. CASE Part(x) < Part(y)
  BY <1>1, <1>2, <1>3 DEF Rank
<1>4. CASE InOneTenant(x, y) /\ IsLookup(x) /\ ~IsLookup(y)
  BY <1>1, <1>4 DEF Rank, InOneTenant
<1>5. CASE /\ InOneTenant(x, y) /\ ~IsLookup(x) /\ ~IsLookup(y)
           /\ \/ x.subject \in Role /\ y.subject \in User
              \/ x.subject = y.subject /\ Turn(x) < Turn(y)
  BY <1>1, <1>5, SubjectsApart DEF Rank, InOneTenant
<1> QED BY <1>3, <1>4, <1>5 DEF Before

LEMMA SomeEntryIsFirst ==
    ASSUME NEW f, f # {}
    PROVE  \E e \in f : \A x \in f : ~Before(x, e)
<1> DEFINE T == {Rank(e) : e \in f}
           R == OpToRel(<, Nat)
<1>1. T \subseteq Nat /\ T # {}
  BY RankIsNat
<1>2. PICK n \in T : \A m \in T : <<m, n>> \notin R
  <2> HIDE DEF T, R
  <2>1. IsWellFoundedOn(R, Nat)
    BY NatLessThanWellFounded DEF R
  <2> QED BY <1>1, <2>1, WFMin
<1>3. PICK e \in f : n = Rank(e)
  BY <1>2
<1>4. ASSUME NEW x \in f, Before(x, e)
      PROVE  FALSE
  <2>1. Rank(x) < Rank(e) /\ Rank(x) \in Nat /\ Rank(e) \in Nat /\ Rank(x) \in T
    BY <1>4, BeforeIsLess, RankIsNat
  <2>2. <<Rank(x), n>> \in R
    BY <1>3, <2>1 DEF OpToRel
  <2> QED BY <1>2, <2>1, <2>2
<1> QED BY <1>3, <1>4

(* No start-up and no synchronization gets stuck (sync.go:125-227).        *)
THEOREM SyncGoesOn == Spec => []GoesOn
<1>1. IInv => GoesOn
  <2> SUFFICES ASSUME IInv, Applying
               PROVE  \/ now = Nothing /\ (todo # <<>> /\ Head(todo) # {} => SomethingIsNext)
                      \/ /\ now.do \in {"resource", "operation", "provision", "tenant", "ids"}
                                      \cup InTenant
                         /\ now.do \in InTenant \cup {"ids"} => now.tenant \in Configured
    BY DEF GoesOn
  <2>1. CASE now = Nothing
    BY <2>1, SomeEntryIsFirst DEF SomethingIsNext
  <2>2. CASE now # Nothing
    <3>1. PICK h : Current(h)
      BY <2>2, SomeCurrent DEF IInv
    <3>2. IsEntry(h) /\ Stage(h) /\ (h.do \in InTenant => h.tenant \in Configured)
      BY <3>1 DEF Current
    <3>3. CASE now = h
      BY <3>2, <3>3 DEF IsEntry, InTenant
    <3>4. CASE now # h
      BY <3>2, <3>4, StageFields DEF InTenant
    <3> QED BY <3>3, <3>4
  <2> QED BY <2>1, <2>2
<1> QED BY <1>1, SpecIInv, PTL

(* Start-up and synchronization are additive and idempotent (sync.go:113-  *)
(* 115), of every single step.                                             *)
THEOREM SyncIsAdditive == Spec => AdditiveAndIdempotent
<1> DEFINE Step ==
      updates' = updates =>
         /\ ~Removed
         /\ \A t \in Configured, s \in Subject, o \in Operation :
               tenants'[t].perm[s][o] # tenants[t].perm[s][o] => Mentioned(t, s, o)
         /\ AllDeclared(Whole) /\ Agreeing(Whole) => UNCHANGED stores
<1>1. ASSUME UNCHANGED stores
      PROVE  Step
  BY <1>1 DEF Removed, stores
<1>2. ASSUME IInv, Apply
      PROVE  Step
  <2>1. Grown /\ Idle
    BY <1>2, ApplyStep DEF Adds
  <2>2. ~Removed
    BY <2>1 DEF Grown, SharedGrown, Wider, Removed
  <2>3. ASSUME NEW t \in Configured, NEW s \in Subject, NEW o \in Operation,
               tenants'[t].perm[s][o] # tenants[t].perm[s][o]
        PROVE  Mentioned(t, s, o)
    <3>1. now.do = "set" /\ now.tenant = t /\ now.subject = s /\ now.operation = o
      BY <2>1, <2>3 DEF Grown
    <3>2. now # Nothing
      BY <3>1 DEF Nothing
    <3>3. PICK h : Current(h)
      BY <1>2, <3>2, SomeEntry
    <3>4. /\ h.do \in {"grant", "set"} /\ h.tenant = t /\ h.subject = s /\ h.operation = o
          /\ h \in Whole[Done + 1] /\ Done + 1 \in DOMAIN Whole
      BY <3>1, <3>3, NowIs DEF Current
    <3> QED BY <3>4 DEF Mentioned, Grants
  <2> QED BY <2>1, <2>2, <2>3 DEF Idle
<1>3. ASSUME Next, ~Apply
      PROVE  updates' # updates \/ UNCHANGED stores \/ ~(updates \in Nat)
  BY <1>3 DEF Next, Run, Start, Begin, Take, NextFile, LoadAtStart, Load, Ready, HandleSync,
              Stop, IOError, EditFiles, Update
<1>4. IInv => updates \in Nat
  BY DEF IInv, ControlOK
<1>5. ASSUME IInv, [Next]_vars
      PROVE  [Step]_vars
  <2>1. CASE Apply
    BY <1>2, <1>5, <2>1
  <2>2. CASE Next /\ ~Apply
    BY <1>1, <1>3, <1>4, <1>5, <2>2
  <2> QED BY <1>5, <2>1, <2>2
<1>6. []IInv /\ [][Next]_vars => [][Step]_vars
  BY <1>5, PTL
<1> QED BY <1>6, SpecIInv, PTL DEF Spec, AdditiveAndIdempotent

=============================================================================
