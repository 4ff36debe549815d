----------------------------- MODULE Bootstrap -----------------------------
(***************************************************************************)
(* Start-up and synchronization: main.go runs BootstrapMeta and then Sync  *)
(* over the bootstrap files before it serves; once it serves, POST         *)
(* /admin/sync runs Sync again, one request at a time, while the other     *)
(* handlers go on changing the data.  The process may stop at any point:   *)
(* what the stores hold by then stays.                                     *)
(*                                                                         *)
(* A file is the set of the entries it declares, and each call syncFile    *)
(* makes into the service layer is a step.  The maps of a file are walked  *)
(* in random order, so any entry may be next that no loop puts after one   *)
(* still to do; entries of different subjects of one loop may alternate    *)
(* here, which allows all the orders of the code and some more.            *)
(***************************************************************************)
EXTENDS Sfbac, Sequences

CONSTANTS
    Resource,
    ResourceOf,
    TenantName,     \* the tenants a file may name
    Configured,     \* the tenants of the configuration (storage.tenants)
    FileLists,      \* what the bootstrap files may hold, in the order of Sync
    MetaOperation,  \* model.MetaOperations
    AdminRole,      \* model.AdminRole
    AdminSub,       \* bootstrap.admin-sub
    MaxUpdates,     \* bound: changes made by other handlers
    MaxStops        \* bound: times the process stops or a store fails

ASSUME ResourceOfIsTotal == ResourceOf \in [Operation -> Resource]
ASSUME ConfiguredHasNames == Configured \subseteq TenantName
ASSUME AdminIsDeclared ==
    MetaOperation \subseteq Operation /\ AdminRole \in Role /\ AdminSub \in User
ASSUME BoundsAreNaturals == MaxUpdates \in Nat /\ MaxStops \in Nat

VARIABLES
    shared,     \* the shared store
    tenants,    \* each configured tenant's store
    files,      \* the content of the bootstrap files
    phase,      \* what the process does
    loaded,     \* the files as last read by LoadBootstrapFiles
    todo,       \* what is still to apply, file by file
    now,        \* the entry in progress
    failed,     \* history: the phase that ended with an error last, or "none"
    disturbed,  \* history: another handler changed data since it began,
                \*          or a store failed
    updates, stops

stores == <<shared, tenants>>
control == <<phase, loaded, todo, now, failed, disturbed>>
vars == <<stores, files, control, updates, stops>>

Shared == INSTANCE SharedStore
Data == INSTANCE TenantStore WITH tenant <- EmptyTenant

Phase == {"down", "meta", "starting", "serving", "syncing"}
Nothing == [do |-> "nothing"]

-----------------------------------------------------------------------------
(* The files: the entries of a BootstrapFile, which is made of maps: it    *)
(* names a tenant, a tenant's role or user, and a subject's operation once. *)

(* A file that cannot be read or parsed has this entry. *)
Unreadable == [do |-> "unreadable"]

FileEntry ==
    {Unreadable}
      \cup [do : {"resource"}, resource : Resource]
      \cup [do : {"operation"}, operation : Operation]
      \cup [do : {"tenant"}, tenant : TenantName]
      \cup [do : {"role"}, tenant : TenantName, subject : Role]
      \cup [do : {"user"}, tenant : TenantName, subject : User]
      \cup [do : {"assign"}, tenant : TenantName, subject : User, role : Role]
      \cup [do : {"grant"}, tenant : TenantName, subject : Subject,
            operation : Operation, scope : STRING, ids : SUBSET RecordId]

(* The key of a subject in the maps of a tenant. *)
Creation(t, s) ==
    [do |-> IF s \in Role THEN "role" ELSE "user", tenant |-> t, subject |-> s]

Grants(e) == e.do \in {"grant", "set"}
SameGrant(e, f) ==
    /\ Grants(e) /\ Grants(f)
    /\ e.tenant = f.tenant /\ e.subject = f.subject /\ e.operation = f.operation

IsFile(f) ==
    /\ f \subseteq FileEntry
    /\ \A e \in f :
          /\ e.do \in {"role", "user", "assign", "grant"} =>
                [do |-> "tenant", tenant |-> e.tenant] \in f
          /\ e.do \in {"assign", "grant"} => Creation(e.tenant, e.subject) \in f
          /\ \A g \in f : SameGrant(e, g) => e = g

ASSUME FileListsType ==
    \A fs \in FileLists : fs \in Seq(SUBSET FileEntry) /\ \A k \in DOMAIN fs : IsFile(fs[k])

-----------------------------------------------------------------------------
Init ==
    /\ Shared!Init
    /\ tenants = [t \in Configured |-> EmptyTenant]
    /\ files \in FileLists
    /\ phase = "down"
    /\ loaded = <<>> /\ todo = <<>> /\ now = Nothing
    /\ failed = "none" /\ disturbed = FALSE
    /\ updates = 0 /\ stops = 0

-----------------------------------------------------------------------------
(* What BootstrapMeta applies, as entries. *)
MetaFile ==
    {[do |-> "operation", operation |-> o] : o \in MetaOperation}
      \cup {[do |-> "provision", subject |-> AdminSub]}
      \cup {[do |-> "role", tenant |-> t, subject |-> AdminRole] : t \in Configured}
      \cup {[do |-> "set", tenant |-> t, subject |-> AdminRole,
             operation |-> o, scope |-> "FULL", ids |-> {}] :
              t \in Configured, o \in MetaOperation}
      \cup {[do |-> "assign", tenant |-> t, subject |-> AdminSub, role |-> AdminRole] :
              t \in Configured}

Part(e) ==
    CASE e.do = "resource" -> 1 [] e.do = "operation" -> 2
      [] e.do = "provision" -> 3 [] OTHER -> 4

Turn(e) ==
    CASE e.do \in {"role", "user"} -> 1 [] e.do = "assign" -> 2 [] OTHER -> 3

InOneTenant(x, y) == Part(x) = 4 /\ Part(y) = 4 /\ x.tenant = y.tenant
IsLookup(e) == e.do = "tenant"

(* A slip of the next definition: a tenant's users before its roles. *)
UsersFirst(x, y) ==
    \/ Part(x) < Part(y)
    \/ InOneTenant(x, y) /\ IsLookup(x) /\ ~IsLookup(y)
    \/ /\ InOneTenant(x, y) /\ ~IsLookup(x) /\ ~IsLookup(y)
       /\ \/ x.subject \in User /\ y.subject \in Role
          \/ x.subject = y.subject /\ Turn(x) < Turn(y)

(* A loop of syncFile or BootstrapMeta puts x before y: the lists of the   *)
(* file, then its tenants; in a tenant its lookup, the roles, the users;   *)
(* of a subject its creation, its roles, its permissions.                  *)
Before(x, y) ==
    \/ Part(x) < Part(y)
    \/ InOneTenant(x, y) /\ IsLookup(x) /\ ~IsLookup(y)
    \/ /\ InOneTenant(x, y) /\ ~IsLookup(x) /\ ~IsLookup(y)
       /\ \/ x.subject \in Role /\ y.subject \in User
          \/ x.subject = y.subject /\ Turn(x) < Turn(y)

Take ==
    /\ todo # <<>> /\ now = Nothing
    /\ \E e \in Head(todo) :
          /\ \A x \in Head(todo) : ~Before(x, e)
          /\ now' = e
          /\ todo' = [todo EXCEPT ![1] = @ \ {e}]
    /\ UNCHANGED <<stores, files, phase, loaded, failed, disturbed, updates, stops>>

NextFile ==
    /\ todo # <<>> /\ now = Nothing /\ Head(todo) = {}
    /\ todo' = Tail(todo)
    /\ UNCHANGED <<stores, files, phase, loaded, now, failed, disturbed, updates, stops>>

-----------------------------------------------------------------------------
(* The entry in progress *)

Goto(e) ==
    /\ now' = e
    /\ UNCHANGED <<files, phase, loaded, todo, failed, disturbed, updates, stops>>

(* A slip of the next definition: the lock is not released. *)
FailHoldingLock ==
    /\ phase' = IF phase = "syncing" THEN "locked" ELSE "down"
    /\ todo' = <<>> /\ now' = Nothing /\ failed' = phase
    /\ UNCHANGED <<files, loaded, disturbed, updates, stops>>

(* An error ends the start-up and with it the process; a synchronization   *)
(* only releases its lock.                                                 *)
Fail ==
    /\ phase' = IF phase = "syncing" THEN "serving" ELSE "down"
    /\ todo' = <<>> /\ now' = Nothing /\ failed' = phase
    /\ UNCHANGED <<files, loaded, disturbed, updates, stops>>

Ensured(u) == \E out \in Shared!Outcome : Shared!EnsureUser(u, out)
Change(t, data) == tenants' = [tenants EXCEPT ![t] = data]

SyncResource ==
    /\ now.do = "resource"
    /\ \E out \in Shared!Outcome : Shared!EnsureResource(now.resource, out)
    /\ Goto(Nothing)
    /\ UNCHANGED tenants

SyncOperation ==
    /\ now.do = "operation"
    /\ \E out \in Shared!Outcome : Shared!EnsureOperation(now.operation, out)
    /\ Goto(Nothing)
    /\ UNCHANGED tenants

SyncUser ==
    /\ now.do \in {"provision", "user"}
    /\ Ensured(now.subject)
    /\ Goto(Nothing)
    /\ UNCHANGED tenants

SyncTenant ==
    /\ now.do = "tenant"
    /\ IF now.tenant \in Configured THEN Goto(Nothing) ELSE Fail
    /\ UNCHANGED stores

(* A slip of the next definition: the role is created anew. *)
RoleAfresh(d, r) == Data!AddRole(d, r)

RoleEnsured(d, r) == IF r \in d.roles THEN d ELSE Data!AddRole(d, r)

SyncRole ==
    /\ now.do = "role"
    /\ Change(now.tenant, RoleEnsured(tenants[now.tenant], now.subject))
    /\ Goto(Nothing)
    /\ UNCHANGED shared

(* The user is provisioned even when the role turns out to be missing. *)
SyncAssignment ==
    /\ now.do = "assign"
    /\ Ensured(now.subject)
    /\ \/ /\ now.role \in tenants[now.tenant].roles
          /\ Change(now.tenant, [tenants[now.tenant] EXCEPT
                                   !.assigned[now.subject] = @ \cup {now.role}])
          /\ Goto(Nothing)
       \/ /\ now.role \notin tenants[now.tenant].roles
          /\ Fail
          /\ UNCHANGED tenants

(* validate, then EnsureOperation: the operation registers itself. *)
RegisterGranted ==
    /\ now.do = "grant"
    /\ \/ /\ now.scope \in Scope
          /\ \E out \in Shared!Outcome : Shared!EnsureOperation(now.operation, out)
          /\ Goto([now EXCEPT !.do = "set"])
       \/ now.scope \notin Scope /\ Fail /\ UNCHANGED shared
    /\ UNCHANGED tenants

Known(d, s) == s \in User \/ s \in d.roles

(* A slip of the next definition: a permission that is there already stays. *)
GrantedOnce(d, s, o, scope) ==
    IF d.perm[s][o] = Unset THEN [d EXCEPT !.perm[s][o] = scope] ELSE d

Granted(d, s, o, scope) == [d EXCEPT !.perm[s][o] = scope]

(* SetRolePermission and SetUserPermission; only the latter provisions. *)
SetPermission ==
    /\ now.do = "set"
    /\ \/ /\ now.scope \in Scope /\ now.operation \in shared.operations
          /\ IF now.subject \in User THEN Ensured(now.subject) ELSE UNCHANGED shared
          /\ \/ /\ Known(tenants[now.tenant], now.subject)
                /\ Change(now.tenant, Granted(tenants[now.tenant],
                                              now.subject, now.operation, now.scope))
                /\ Goto(IF now.ids = {} THEN Nothing ELSE [now EXCEPT !.do = "ids"])
             \/ /\ ~Known(tenants[now.tenant], now.subject)
                /\ Fail
                /\ UNCHANGED tenants
       \/ /\ now.scope \notin Scope \/ now.operation \notin shared.operations
          /\ Fail
          /\ UNCHANGED stores

IdsAdded(d, s, o, new) == [d EXCEPT !.ids[s][o] = @ \cup new]

(* UpdateRoleRestrictedIDs and UpdateUserRestrictedIDs, nothing to remove. *)
AddIds ==
    /\ now.do = "ids"
    /\ LET data == tenants[now.tenant]
       IN  \/ /\ Known(data, now.subject) /\ data.perm[now.subject][now.operation] # Unset
              /\ Change(now.tenant, IdsAdded(data, now.subject, now.operation, now.ids))
              /\ Goto(Nothing)
           \/ /\ ~Known(data, now.subject) \/ data.perm[now.subject][now.operation] = Unset
              /\ Fail
              /\ UNCHANGED tenants
    /\ UNCHANGED shared

Apply ==
    \/ SyncResource \/ SyncOperation \/ SyncUser \/ SyncTenant \/ SyncRole
    \/ SyncAssignment \/ RegisterGranted \/ SetPermission \/ AddIds

-----------------------------------------------------------------------------
(* The process *)

Begin(p, plan) ==
    /\ phase' = p /\ todo' = plan
    /\ failed' = "none" /\ disturbed' = FALSE
    /\ UNCHANGED <<stores, files, now, updates, stops>>

(* The stores are opened again; what they hold is what was there. *)
Start ==
    /\ phase = "down"
    /\ Begin("meta", <<MetaFile>>)
    /\ loaded' = <<>>

Readable(fs) == \A k \in DOMAIN fs : Unreadable \notin fs[k]

Load(p) ==
    /\ loaded' = files
    /\ \/ Readable(files) /\ Begin(p, files)
       \/ /\ ~Readable(files)
          /\ phase' = IF p = "syncing" THEN "serving" ELSE "down"
          /\ failed' = p /\ disturbed' = FALSE
          /\ UNCHANGED <<stores, files, todo, now, updates, stops>>

LoadAtStart ==
    /\ phase = "meta" /\ todo = <<>>
    /\ Load("starting")

(* Another request for a synchronization waits for syncMu. *)
HandleSync ==
    /\ phase = "serving"
    /\ Load("syncing")

Ready ==
    /\ phase \in {"starting", "syncing"} /\ todo = <<>>
    /\ phase' = "serving"
    /\ UNCHANGED <<stores, files, loaded, todo, now, failed, disturbed, updates, stops>>

(* A crash, or a shutdown, which waits 15 s for a synchronization. *)
Stop ==
    /\ phase # "down" /\ stops < MaxStops
    /\ stops' = stops + 1
    /\ phase' = "down" /\ todo' = <<>> /\ now' = Nothing
    /\ UNCHANGED <<stores, files, loaded, failed, disturbed, updates>>

(* A call of a store fails, before or after it took effect, or once all is *)
(* applied the authenticator or the listener cannot be set up.  (What a    *)
(* failed save leaves only in memory is JsonTenant's subject.)             *)
IOError ==
    /\ phase \in {"meta", "starting", "syncing"} /\ stops < MaxStops
    /\ stops' = stops + 1 /\ disturbed' = TRUE
    /\ phase' = IF phase = "syncing" THEN "serving" ELSE "down"
    /\ todo' = <<>> /\ now' = Nothing /\ failed' = phase
    /\ UNCHANGED <<stores, files, loaded, updates>>

EditFiles ==
    /\ files' \in FileLists
    /\ UNCHANGED <<stores, control, updates, stops>>

Unassigned(d, u, r) == [d EXCEPT !.assigned[u] = @ \ {r}]
Ungranted(d, s, o) == [d EXCEPT !.perm[s][o] = Unset, !.ids[s][o] = {}]
IdsRemoved(d, s, o, old) == [d EXCEPT !.ids[s][o] = @ \ old]

(* Other handlers' calls, those that remove or change what was declared. *)
Updated(d) ==
    {Data!DropRole(d, r) : r \in d.roles}
      \cup {Data!MoveRole(d, r, new) : r \in d.roles, new \in Role \ d.roles}
      \cup {Unassigned(d, u, r) : u \in User, r \in Role}
      \cup {Granted(d, s, o, scope) : s \in d.roles \cup User, o \in Operation, scope \in Scope}
      \cup {Ungranted(d, s, o) : s \in Subject, o \in Operation}
      \cup {IdsRemoved(d, s, o, old) :
               s \in Subject, o \in Operation, old \in SUBSET RecordId}

Update ==
    /\ phase \in {"serving", "syncing"} /\ updates < MaxUpdates
    /\ updates' = updates + 1 /\ disturbed' = TRUE
    /\ \/ /\ \E t \in Configured : \E d \in Updated(tenants[t]) : Change(t, d)
          /\ UNCHANGED shared
       \/ /\ \E o \in Operation : Shared!DeleteOperation(o, "saved")
          /\ UNCHANGED tenants
       \/ /\ \E p \in Resource : Shared!DeleteResource(p, "saved")
          /\ UNCHANGED tenants
    /\ UNCHANGED <<files, phase, loaded, todo, now, failed, stops>>

Run == Take \/ NextFile \/ Apply \/ LoadAtStart \/ Ready

Next == Start \/ Run \/ HandleSync \/ Stop \/ IOError \/ EditFiles \/ Update

(* The process goes on with what it began, and one that is down is started *)
(* again sooner or later.                                                  *)
Spec == Init /\ [][Next]_vars /\ WF_vars(Run) /\ WF_vars(Start)

-----------------------------------------------------------------------------
TypeOK ==
    /\ shared \in Shared!SharedData
    /\ tenants \in [Configured -> TenantData]
    /\ files \in FileLists
    /\ loaded \in FileLists \cup {<<>>}
    /\ phase \in Phase
    /\ failed \in Phase \cup {"none"} /\ disturbed \in BOOLEAN
    /\ updates \in 0 .. MaxUpdates /\ stops \in 0 .. MaxStops

(* The files that a start-up or a synchronization applies, and those that  *)
(* the one going on applies.                                               *)
Plan(p) == IF p = "syncing" THEN loaded ELSE <<MetaFile>> \o loaded
Whole == Plan(phase)

(* The data holds the entry e of the k-th file; where two files declare a  *)
(* permission the later one counts, and all their ids.                     *)
Holds(fs, k, e) ==
    /\ e.do = "resource" => e.resource \in shared.resources
    /\ e.do \in {"operation", "grant"} => e.operation \in shared.operations
    /\ e.do \in {"provision", "user"} => e.subject \in shared.users
    /\ e.do = "role" => e.subject \in tenants[e.tenant].roles
    /\ e.do = "assign" => e.role \in tenants[e.tenant].assigned[e.subject]
    /\ Grants(e) =>
          /\ e.ids \subseteq tenants[e.tenant].ids[e.subject][e.operation]
          /\ \/ tenants[e.tenant].perm[e.subject][e.operation] = e.scope
             \/ \E j \in DOMAIN fs : j > k /\ \E f \in fs[j] : SameGrant(e, f)

AllDeclared(fs) == \A k \in DOMAIN fs : \A e \in fs[k] : Holds(fs, k, e)

(* Whatever order the maps are walked in, and whatever an earlier start-up *)
(* left half done when it was stopped or failed, the process serves, or    *)
(* answers a synchronization nobody disturbed, when the data holds all     *)
(* that the files declare (sync.go:113-192, main.go:53-63).                *)
ServesWhatIsDeclared ==
    phase \in {"starting", "syncing"} /\ todo = <<>> /\ ~disturbed => AllDeclared(Whole)

(* Whatever the files need is in them: their tenants are configured, their *)
(* scopes exist, the roles they assign are declared there or before.       *)
SelfContained(fs) ==
    \A k \in DOMAIN fs : \A e \in fs[k] :
        /\ e # Unreadable
        /\ e.do = "tenant" => e.tenant \in Configured
        /\ e.do = "grant" => e.scope \in Scope
        /\ e.do = "assign" =>
              \E j \in 1 .. k :
                  [do |-> "role", tenant |-> e.tenant, subject |-> e.role] \in fs[j]

(* Files that are self-contained (sync.go:149-150) are applied without an  *)
(* error from any state of the stores, unless a store fails or another     *)
(* handler takes away what was just created (sync.go:125-192).  A          *)
(* synchronization does not apply what BootstrapMeta does: to assign the   *)
(* administrator's role its files have to declare it.                      *)
FailsForAReason == failed # "none" => disturbed \/ ~SelfContained(Plan(failed))

(* Types, and no error without a reason (sync.go:116-192). *)
Inv == TypeOK /\ FailsForAReason

Mentioned(t, s, o) ==
    \E k \in DOMAIN Whole : \E e \in Whole[k] :
        Grants(e) /\ e.tenant = t /\ e.subject = s /\ e.operation = o

Agreeing(fs) ==
    \A j, k \in DOMAIN fs : \A e \in fs[j], f \in fs[k] : SameGrant(e, f) => e.scope = f.scope

(* "Additive and idempotent" (sync.go:113-115), of every single step, so   *)
(* of a run cut short too: nothing is removed, no permission changes that  *)
(* the files do not mention, and files that agree with each other and are  *)
(* applied already change nothing at all.                                  *)
Removed ==
    \/ \E f \in {"users", "resources", "operations"} : ~(shared[f] \subseteq shared'[f])
    \/ \E t \in Configured :
          \/ ~(tenants[t].roles \subseteq tenants'[t].roles)
          \/ \E u \in User : ~(tenants[t].assigned[u] \subseteq tenants'[t].assigned[u])
          \/ \E s \in Subject, o \in Operation :
                ~(tenants[t].ids[s][o] \subseteq tenants'[t].ids[s][o])

AdditiveAndIdempotent ==
    [][updates' = updates =>
          /\ ~Removed
          /\ \A t \in Configured, s \in Subject, o \in Operation :
                tenants'[t].perm[s][o] # tenants[t].perm[s][o] => Mentioned(t, s, o)
          /\ AllDeclared(Whole) /\ Agreeing(Whole) => UNCHANGED stores]_vars

(* As long as the files are self-contained the process serves again and    *)
(* again: no start-up and no synchronization hangs, and no state of the    *)
(* stores, half applied ones included, keeps the process from starting     *)
(* (main.go:42-63, handlers.go:323-336).                                   *)
AlwaysServesAgain ==
    <>[]SelfContained(<<MetaFile>> \o files) => []<>(phase = "serving")

=============================================================================
