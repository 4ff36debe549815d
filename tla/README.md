# Sforza in TLA+

Specifications, model-checking runs and machine-checked proofs for Sforza, the
authorization service of this repository. Every definition is translated from the Go
source under `src/internal` and `src/cmd`; paths below are relative to `src/internal`, those
that begin with `cmd/` or `docs/` to `src`.

| To do | Command, in this directory |
|---|---|
| check a run | `tlc -config tenant_store.cfg MCTenantStore.tla` |
| check the proofs of a module | `tlapm GrantMergeProofs.tla` |

`PROJECT.json` lists the runs, the definitions with the lines they translate, the hazards
and the theorems. Definitions whose comment calls them a *slip* are not part of a
specification: each is a plausible mistake in the definition below it, and its entry under
`mutants` names the property that must fail when it takes that definition's place.

## The system

Sforza answers two questions about a user in a tenant: which operations may the user
perform and with what scope (`FULL`, `RESTRICTED`, `EMPTY`), and for a `RESTRICTED`
operation on which records. Administrators change the data over HTTP; files can declare it.

| Component | State | Operations | Talks to |
|---|---|---|---|
| Scopes, resolution (`model/model.go`, `service/authz.go`) | none | resolve, EffectiveOperations, RecordIDs, Authorize | reads the tenant store in two to four calls |
| Tenant store (`store/json.go`, `store/gorm.go`) | roles, assignments, permissions and record ids of roles and of users; one per tenant | create, ensure, rename, delete roles; assign; set and remove permissions; add and remove ids | a file or a SQL database |
| Shared store (same files) | users, resources, operations | ensure users; create, ensure, delete resources and operations | a file or a SQL database |
| Admin functions (`service/admin.go`) | none | one per API call; validation, lookups, lazy provisioning | both stores, several calls each |
| Bootstrap and sync (`service/sync.go`) | none | BootstrapMeta, Sync | both stores, all tenants |
| HTTP API (`api/`) | a mutex around sync | authenticate, choose the tenant, require a meta permission, handle | service functions; one goroutine per request |
| Authentication (`auth/`), configuration (`config/`), start (`cmd/sforza`) | none after start | verify tokens; parse; open stores, bootstrap, serve, shut down in 15 s | |

What makes each correct:

* **Resolution**: a user's own permission overrides; otherwise the widest scope of the
  user's roles; ids are the union over exactly the sources that count. The result must not
  depend on the order in which a store returns grants.
* **Stores**: no dangling references after rename and delete; calls affect nobody they do
  not name; what was acknowledged survives a restart; the SQL tables change like the JSON
  data, although a method is several statements, and a read in two statements answers what
  was so, as far as it can.
* **Admin functions**: grants only on registered operations, users provisioned before they
  are referred to, ids only under a permission. They call the stores several times with
  nothing held in between.
* **Bootstrap**: the service serves when the data holds what the files declare, in whatever
  order and after whatever half-done earlier run; it removes nothing; it always comes to
  serve again.
* **API**: nobody's access grows unless somebody who may grant grants it, in that tenant.

The hard behaviours are concurrent handlers between the store calls of one service
function, check-then-act and reads of several statements in the SQL store, failures between the two stores, failing writes
and restarts of the JSON store, and unordered iteration. `PROJECT.json` lists them as
hazards, each at its line.

## Modules

| Module | What it is |
|---|---|
| `Sfbac` | No state: the type of a tenant's data and the reference operators for access (`EffectiveScope`, `RestrictedIds`, `Access`, `NoWiderThan`). |
| `GrantMerge`, `GrantMergeProofs` | The loop of `resolve`, one action per arm of the loop body, grants taken in any order. |
| `TenantStore`, `TenantStoreProofs` | The abstract tenant store: one indivisible action per method. The proofs are about its data first, then about users' access. |
| `SharedStore` | The abstract shared store, in the same form. What is proved of it is in `AdminServiceProofs`. |
| `JsonTenant`, `JsonTenantProofs` | The JSON file behind a tenant store: mutex, write, answer, failing save, crash and reload. Its writes are steps of `TenantStore`. |
| `GormTenant`, `GormTenantProofs` | The SQL tables behind a tenant store, the statements of concurrent methods interleaved. What one look at the tables shows implements `TenantStore`. |
| `GormReads` | The reading methods of that store, two `SELECT`s each, among those statements. It extends `GormTenant`, and its proofs are in `GormTenantProofs`. |
| `Query`, `QueryProofs` | The store reads of `resolve` and `RecordIDs`, one per step, among the updates of a `TenantStore`. |
| `AdminService`, `AdminServiceProofs` | Handlers running the functions of `admin.go` statement by statement over one `TenantStore` and one `SharedStore`. |
| `Bootstrap`, `BootstrapProofs` | Start-up, synchronization, stops and restarts over the shared store and all tenants. |
| `Api`, `ApiProofs` | Requests through the middleware to the handlers, over the shared store and all tenants. |
| `MC*` | Constants, symmetry and state constraints for TLC. |

`Query`, `AdminService`, `Bootstrap` and `Api` take the stores by INSTANCE, so what is proved
of the stores, and that both implementations change like such stores, is what the modules
above them build on. A read of the JSON store is one step, under its mutex. In SQL each of
the methods that read roles is two `SELECT`s: `GormReads` says what one such method answers,
while `Query`, `Api` and the rest take a call of a store for one step.

**Data.** A tenant is a record: `roles`, `assigned` (user to roles), `perm` (subject and
operation to a scope or `Unset`, the absent map entry) and `ids` (subject and operation to
record ids). A *subject* is a role or a user; the interface has every permission method
twice, and the actions take either (`Known` is the only difference: a role must exist, a
user need not). Sorted lists without duplicates are sets; an empty list and a missing one
are the same set, and the code distinguishes them only in the JSON text of one response.

**Outcomes.** A store action takes the outcome as a parameter (`saved`, `noop`,
`not_found`, `conflict`) and is enabled for the one the method reports. A caller's module
writes `\E out : Tenant!AssignRole(u, r, out)`, or names the outcome it branches on.

**Correspondence, AdminService.** `call[c]` is the program counter and the arguments of
handler `c`. A function enters with its first store call and is idle again after its
last; a lookup that fails changes nothing and is not recorded. Functions of a single store
call are `SharedCall` and `TenantCall`. The history variable `everRegistered` has no
counterpart in the code. Checks of argument syntax (empty names, invalid scopes) refuse
before anything is read; the inputs of the model are those that pass.

**Correspondence, Query.** `query.at` is the read to come, the other fields are the local
variables of `resolve` and `RecordIDs`. What `resolve` makes of its reads is the reference
operators applied to what it `Believed`, since `GrantMergeProofs` shows that its loop
computes them. One query about one user runs at a time: queries do not change anything, so
others would not influence it. It asks for all operations; `Authorize` and
`EffectiveOperations` are its steps up to `ReadGrants`. Five
variables are histories: `seen`, the user's access at every moment of the query; `updates`
and `renamed`, how many updates it has seen and whether one was a rename; `onlyTook` and
`onlyGave`, whether all of them were of that kind. `Taking` are the methods that delete,
unassign or remove, `Giving` those that assign a role or add ids; `Creating` a role may go
with either, since a new role gives nothing. Setting a permission replaces one and is
neither, as is a rename.

**Correspondence, JsonTenant.** `Mutate` is a method up to its call of `persist`, `Write` the
file being replaced, `Answer` the release of the mutex and the nil; or else `SaveFails`.
`phase` is what the method that holds the mutex has done, `change` what it will have to tell.
The `Answer*` actions are the methods that change nothing and yet tell the caller something:
that a role or an assignment is there (nil without a save), or is not (not found).
`saveJSON` writes a temporary file and renames it, so the file is replaced in one step; a
crash before that leaves at most a stray temporary file that nothing reads, and one after it
a change that nobody was told of. There is no `fsync`; a power failure that undoes a rename is
outside the model. Three variables are histories: `told`, what callers may know exists or is
gone; `doubted`, what they were answered out of memory while a failed save had left it ahead
of the file; `unsaved`, that it is. `AckedIsDurable` and `GoneIsGone` are about `told`; what is
doubted joins it with the next write that succeeds. The retry of a failed revocation, which
finds nothing left to revoke, is among the doubted answers: of it nothing is promised before
such a write. `WritesAreMethods` says that each write is one method's effect, the first after
a failed one excepted. `NilMeansDurable` is the promise without these exceptions, and is
refuted. The shared store's file is written by the same functions.

**Correspondence, GormTenant.** `db` is the five tables: `name` the roles, a row that is
not there having the name `NoRole`, `assigned` the table `user_roles`, `perm` and `ids` the
permission and id tables of roles (by row id) and of users (by sub). A method on a role is
`RoleByName`, the look-up, and then one statement or transaction on the row's id, kept in
`call[c]` meanwhile; `RenameRole` has a third step, the check of the new name. Methods on a
user's permissions look nothing up and are one step. `View(db)` is the tables in one look;
no method takes it, it is what the tables mean as a tenant. `raced`, a history, collects the
rows that were deleted under a method that had found them: only those may leave orphan rows
behind, which belong to no role, since the database gives no id out twice (`NewRowId`).

**Correspondence, GormReads.** `UserRoles`, `RoleGrants` and `RoleRestrictedIDs` are the three
kinds of `Method`. `Begin` is the first `SELECT`, and `found` the rows it returned with their
names; `Answer` is what the second makes of them when it comes, and `End` is the return.
`Other` is any statement of another handler. `RolePermissions` and `HasRolePermission` find
one role and read its permissions, like `RoleGrants` of that role. The other reads are one
`SELECT`. Five fields of `read` are histories: `first`, what one look would have shown at the
first `SELECT`; `kept`, what it would have shown ever since; `changes`, whether the tables
changed never, once or more often; `renamed` and `deleted`, whether a role was.

**Correspondence, Bootstrap.** A file is the set of the entries it declares; an entry is
one call into the service layer, or two or three when it goes on (`grant`, `set`, `ids`:
`EnsureOperation`, then `Set*Permission`, then `Update*RestrictedIDs`). `Before` is the
nesting and order of the loops of `syncFile`, `todo` what they have still to do, `Take` the
next turn of a loop over a map. `Fail` is a returned error. `phase` is the position in
`main.go`: `meta` and `starting` before it serves, `syncing` in the handler of
`POST /admin/sync` with its mutex held. `Stop` is a crash, or a shutdown that does not wait;
`IOError` a store that fails, or, with all applied, an authenticator or a listener that cannot
be set up; `EditFiles` the operator; `Update` another handler that deletes or renames a role,
unassigns it, sets or removes a permission, removes ids, or deletes from the shared store.
Two variables are histories: `disturbed`, that another handler changed something since, or a
store failed; `failed`, the phase that ended with an error last. A failure is
judged by the files that phase applied, `Plan(failed)`: a synchronization applies `loaded`
alone, a start-up what `BootstrapMeta` does and then `loaded`. So a file may rely on the
administrator's role at start-up, and its synchronization fails when that role has been
deleted since (the list `Deputy` of the run).

`FileListsType` says what any bootstrap file is: a set of entries in which each permission
is declared once for its subject, a subject's entries come with the creation of the subject
and the look-up of its tenant, and names are well formed; the maps of `BootstrapFile` and
the loops over them leave nothing else. Whether tenants are configured, scopes exist, roles
are declared before they are assigned, or the file can be read at all is left open. Names
the service refuses (empty ones, operations without a colon) are not among the inputs.

**Correspondence, Api.** A request is in `request[c]`: `next` is the meta operation of its
route that is being checked, `at` the read of that check to come, `own` and `roles` what
it has read, and then comes the handler. `Pass`, `Forbid` and `ReadFails` end a check at
its last read, with what that shows. `Required` is the table of routes in `server.go`.
Handlers are single steps: `AdminService` has their statements and `Bootstrap` the
synchronization's; here the question is what may happen between the reads of a check,
between checks and the handler, and by sequences of handlers. `NoGrantor` asks that
*nothing* in the tenant, held or not, gives the two operations in full, and that no check
under way has seen that or passed: that nobody *holds* them is not enough, since an
assignment to a role that gives them may end just after a check has read it, and a rename
may put the name a check has read on such a role. `Declared` stands for the bootstrap
files; the process has applied them before the first request.

## Runs

| Run | Constants | Checks |
|---|---|---|
| `grant_merge` | 3 roles, 2 operations | `Inv`, `ResolvedByRules` |
| `tenant_store` | 2 roles, 2 users, 2 operations, 1 id; 2 permissions or sets of ids at a time | `Inv`, `OnlyTheTargetIsAffected`, `RenameAndCreateKeepAccess`, `RevocationNeverWidens` |
| `query_updates` | 2 roles, 1 user, 1 id, 2 updates during a query | `Inv`, `AnswerNoWiderThanHeld`, `StableScopeIsAnswered`, `TakingNeverWidensAnswer`, `GivingNeverNarrowsAnswer` |
| `query_never_held` | 1 id, 2 updates during a query | `FullOnlyIfHeld`, violated |
| `admin_concurrent` | 2 handlers, 2 roles, 1 user, 1 id, 1 resource | `Inv`, `UsersProvisioned`, `GrantsOnceRegistered`, `OperationsHaveResources` |
| `admin_stale_operation` | 2 handlers, 1 role | `GrantRegisteredWhenWritten`, violated |
| `json_restart` | 2 roles, 1 user; any save may fail, any step may be the last before a crash | `Consistent`, `AckedIsDurable`, `GoneIsGone`, `WritesAreMethods` |
| `json_lost_ack` | 1 role, the same | `NilMeansDurable`, violated |
| `gorm_concurrent` | 2 handlers and a read, 2 roles, 2 rows, 1 user, 1 id | `Inv`, `OneChangeIsBeforeOrAfter`, `KeptIsAnswered`, `NothingIsMadeUp`, `ImplementsTenantStore` |
| `bootstrap` | 1 tenant configured of 2 named, 5 lists of files, 1 change by another handler, 1 stop or failing store | `Inv`, `ServesWhatIsDeclared`, `AdditiveAndIdempotent`, `AlwaysServesAgain` |
| `api` | 2 requests at a time, 1 tenant, 2 users, 2 roles, the five meta operations, 3 handlers that act | `Inv`, `AccessGrowsByGrantOnly` |
| `api_isolation` | 1 request at a time, 2 tenants with an administrator each, 2 handlers that act | `TenantsAreIsolated`, violated |

Why these bounds are enough to meet the interesting cases:

* Three roles are needed for a merge that goes through `EMPTY`, `RESTRICTED` and `FULL`;
  two operations show that grants are filed under their own.
* Two roles are needed for a rename, for a conflict, and for a scope that remains after a
  revocation; two users and two operations for a call that reaches the wrong one. One id is
  enough: access is compared id by id, and an id is in the union of the roles' sets or not.
* `MaxEntries` bounds the permissions and sets of ids that a tenant has at a time, in the run
  of the tenant store to two, so that a call on one finds another to disturb, and in those of
  the JSON file to what its properties tell apart, which is roles and assignments.
* Two handlers interleave every pair of functions, and each idle handler runs the
  functions of a single call, so a third would add no new pair of racing statements.
* `RequestScope` and `SomeScope` bound the scopes that requests ask for; the functions treat
  all scopes alike. `MaxUpdates` of `Query` bounds the updates that fall into one query:
  one is what two of the properties are about, two are the least that break the answer, and
  enough for a role deleted and created again or an override and its ids removed. Between
  queries any number of updates brings the tenant to every state.
* `MaxRowId` bounds the role rows ever inserted. With two rows a role is deleted under a
  method and created anew while the method still holds the old row, and a rename races with
  the creation of its new name. `OneBesideRead`: while a read is between its `SELECT`s, the
  other handlers' methods come one after the other, and users' own entries, which such a read
  does not touch, stay out. Two rows for three statements let a role be deleted and its name
  come back on the other row, or a name move from one row to the other, under a read. The
  theorems have no such bounds.
* The files of `bootstrap` are good ones, alone and overlapping (a permission declared
  twice, a user's override), one that relies on the role of `BootstrapMeta`, one that fails
  at an unknown tenant or a bad scope, whichever comes first, and one that cannot be read.
  They may be edited at any time, so that a good file is applied over any half-applied bad
  one. `MaxStops` and `MaxUpdates` allow one stop or failing store and one change anywhere:
  the entries do not depend on how often it happened before, since a start or a
  synchronization begins anew.
* `MaxChanges` bounds the handlers that act in `api`, and no request arrives after the last.
  Three of them, from a state with an administrator and a user who may only write roles,
  are a revocation, a rename onto a privileged name and whatever was checked before. The
  run starts from one tenant: the property is about each tenant by itself, and other
  tenants enter it only by the synchronization, which it excludes.

The stores, handlers and the service run for ever. `grant_merge` stops when the loop is
done, and `api` when its bound is used up, hence `CHECK_DEADLOCK FALSE` in the first; in
the second users are still provisioned. Symmetry is over names that occur only in sets and
as arguments, and is not used in the run with a liveness property.

**Fairness.** Only `Bootstrap` states any. `WF_vars(Run)`: the process goes on with the
start-up or synchronization it began; that is its own goroutine, which waits for nothing
but the stores. `WF_vars(Start)`: a process that is down is started again sooner or later.
The code does not see to that, and neither does `docker-compose.yml`, which sets no restart
policy: it is an assumption about the operator, without which nothing can be said of a
service that is down. Nothing is assumed of requests, edits, stops and other handlers.

## What the runs show

* `resolve` yields the documented scope and sources of ids in every order of the grants.
* A rename changes nobody's access, a role created under a name used before grants
  nothing, and taking a role, a role's permission or an id away widens nobody's access
  even though the widest scope is recomputed. (Removing a *user's* permission may widen:
  it uncovers the roles.)
* A query is not atomic, yet an answer that saw one update is no wider, in scope and ids,
  than what the user held before or after it; and an update that leaves the user's access
  alone does not disturb the scope that is answered, unless it is a rename. Several updates
  do no harm as long as they all take away, or all give: what a query composes beyond
  anything ever held takes one of each, or a permission set anew, or a rename.
* With concurrent handlers three promises survive: users are provisioned before the tenant
  refers to them, no grant names an operation that was never registered, and every
  registered operation's resource is registered.
* The JSON file goes through the steps of `TenantStore` across crashes. It holds what was
  acknowledged and nothing that callers were told is gone, but for the answers given out of
  memory after a failed save and before the next one that succeeds.
* The SQL methods look up a role and then act on its row id, without a transaction around
  both. A late statement acts on the role under its new name, or on a row that is gone and
  belongs to no role any more: the tables, looked at once, cannot be told from a `TenantStore`.
* The SQL methods that read roles are two statements, too. With one change in between they
  answer what was so before or after it. With several they answer at least all that was so
  throughout, but also what never was: `UserRoles` a name the user never held, when a role is
  unassigned and then renamed; `RoleGrants` of a role that it found and that is then deleted,
  a permission written late on the row. Without renames and deletions nothing is made up.
* Bootstrap and synchronization end with the declared data, in every order of the maps and
  over whatever an earlier run left; each step only adds; self-contained files fail only
  if another handler takes away what was just created or a store fails; and the service
  serves again and again.
* Once nothing in a tenant gives the right to hand out permissions, and no request has
  passed that check or seen that it will, nobody's access grows there, whatever those do who
  may still write roles, operations and resources, and however the reads of checks and the
  handlers interleave. Synchronization is the exception,
  by design: it re-applies the files.

Four runs end in a violation, each a disagreement with a text of the repository:

1. `admin_stale_operation`: "Operations must already be registered" (`docs/api.md:82`,
   `service/admin.go:161-162`). The lookup and the write are two calls on two stores; an
   operation deleted in between is granted all the same.
2. `json_lost_ack`: the store "rewrites the backing file ... on every mutation"
   (`store/json.go:15-17`). When the write fails the change stays in memory; `AssignRole` or
   `EnsureRole` then finds nothing to do, answers without an error and writes nothing, and a
   restart loses what was acknowledged. The run's trace is of a role: `CreateRole`, whose save
   fails, then `EnsureRole`, which answers nil while the file lacks the role.
3. `query_never_held`: "reports whether the user holds the operation with FULL scope"
   (`service/authz.go:137`). The user's roles are read; the user loses one of them; that
   role is granted `FULL`; the grants are read. The answer is `FULL`, which the user never
   had.
4. `api_isolation`: "A user with `role:write` in `tenant-a` cannot touch roles in
   `tenant-b` unless granted there too" (`docs/meta-authorization.md:31-33`), and "nothing
   below the middleware ever sees another tenant's data" (`docs/development.md:55-57`). A
   synchronization requested in one tenant writes to every tenant that the files name, as
   `docs/bootstrap.md:82-85` has it. In the trace the requester is the administrator of `a` and
   holds nothing in `b`; his synchronization creates a role again that the administrator of
   `b` has deleted.

## What is proved

For every value of the constants, from the assumptions the modules name alone:
`SubjectsApart` and, for the tables, `KeysApart` (role names, or row ids, and user names are
different values: they are keys of different maps or tables), `NoRoleIsNoRole` (the name of
an absent row is no role's), `ResourceOfIsTotal`, and that each bound has its type
(`RequestScopeIsScope`, `SomeScopeIsScope`, `MaxRowIdType`).

* `GrantMergeProofs!ResolveIsCorrect`: `Spec => []ResolvedByRules`. The property speaks of
  the end of the loop only, so it is not inductive. `LoopInv` says the same of the grants
  merged so far: an overridden operation is untouched, any other has the *widest* scope of
  the merged ones (`IsWidest`), with the roles that grant `RESTRICTED` when that is the
  widest. `TakeMerges` computes what taking one grant adds to the merged ones, `MergeInv`
  goes through the arms, and `WidestIsUnique` turns the relation into the reference
  operator at the end.
* `TenantStoreProofs!StoreInv`: `Spec => []Inv`, types and referential integrity; `Inv` is
  inductive. One lemma per change of the data shows that it maps a good tenant to a good
  one, one lemma per group of methods applies them.
* `TenantStoreProofs!RenameAndCreateAreNeutral`, `RevocationIsSafe` and
  `CallsAffectTheirTarget`: the three action properties of the tenant store, which add to the
  runs what small sets cannot show, any number of roles to fall back on and of other
  operations and users to leave alone. Each follows from `StoreInv` and a lemma on a single
  step. `AccessIsSame` says which parts of the data access depends on, `LessIsNoWider`
  that with fewer of them access is no wider; `WidestIsMonotonic` is the reason why a
  scope computed anew is never a wider one.
* `AdminServiceProofs!AdminInv`: `Spec => []Inv` for any number of handlers, with
  `AdminProvisions` and `AdminGrantsRegistered`, the two promises by name, and
  `AdminKeepsResources`. The promises are not inductive: a handler between its statements
  will act on what it has seen. `CallsPrepared` says what that is, for each statement.
  `Fits` is the promise about the data alone; one lemma per store call preserves it, and
  `SharedStep` and `TenantStep` lift it to a step of one handler. `SharedInv` is the same
  for the shared store on its own: `Shared!Spec => []Shared!Inv`, every operation's resource
  is registered, for any function from operations to resources.
* `JsonTenantProofs`: `JsonConsistent`, `JsonDurable`, `JsonRevocationsLast` and
  `JsonWritesAreMethods`, the four properties of `json_restart`. They are inductive together
  with `OneBehind`: between a change and its write, if no save has failed, the memory is the
  file's data with the effect of one method; and with `TrueOf`: what was told is so in the
  file and in memory, what is doubted, and what the running method will tell, in memory.
  `CallHasEffect` finds the effect of the method that was called, `EffectIsCall` the method of
  the file's `TenantStore` that has this effect. That a call keeps integrity is `StoreInv`'s
  lemmas, taken by INSTANCE.
* `GormTenantProofs!RowsInv`: `Spec => []Inv` of the tables, for any number of handlers and
  rows. `Inv` is inductive: that ids are fresh (`RowsNumbered`) keeps a new role from
  inheriting orphan rows, and `OrphansOnlyByRace` confines orphans to rows deleted under a
  running method.
* `GormTenantProofs!SqlTablesImplementTenantStore`: `Spec => ImplementsTenantStore`, the
  refinement. It is about the tables in one look. `RowSeen` and `NoRowSeen` say what that shows
  of a role with and without a row, using that names are unique. Then one lemma per change of
  the tables says what it is in `View` (`KeySeen`, `RenameSeen`, `InsertSeen`, `DeleteSeen`,
  `AssignSeen`, ...): the same change of a tenant, or nothing when the row is gone
  (`DeadRow`). `InsertSeen` needs `Unreferenced`, which is why the invariant is needed at all.
* `GormTenantProofs!SqlTablesTakeSafeSteps`: what the refinement is for. The theorems about
  `TenantStore` hold of the tables: integrity, renames and creations that change nobody's
  access, revocations that widen nobody's, and calls that affect only whom they name, although
  methods interleave between their statements.
* `GormTenantProofs!OneChangeAnsweredWhole`, `WhatStaysIsAnswered` and `AnswersAreOfTheStore`:
  what the methods that read in two `SELECT`s answer, for any number of handlers, roles and
  rows. `OneLookIsOfRows` takes one look apart into the rows the first `SELECT` finds, so that
  two `SELECT`s with nothing in between are such a look (`SelectsAtOnce`). `EveryStep` says
  what a statement leaves of a row found before, and `OneStepBetween` concludes that one of
  them is seen whole or not at all. For several, `ReadInv` keeps of the rows found what the
  answer will need: that what stayed true is in them (`KeptFound`, `KeptLater`), and that they
  have the names they had, or are gone, until there is a rename (`FoundLater`).
* `QueryProofs!QueryInv`: `Spec => []Inv` for any number of updates between the reads.
  `AnswersAreNoWider` and `StableScopesAreAnswered` are about at most one update, of any
  kind, anywhere. They speak of the answer only; the inductive invariant behind them is
  `QueryTraced`: `OneUpdate` relates everything the query holds to the tenant `t` it began
  with and the tenant as it is. What was resolved before the update comes from `t`
  (`ResolvedBefore`); what was resolved from reads on both sides of it comes from
  `Mixed(t, tenant, R)`, the user's own permissions of `t` with the grants of the tenant, for
  the roles `R` of either. `UpdateChanges` says what one update of any kind can change of
  what a query reads: the roles, or one entry. From that `MixedIsNoWider` and `MixedScope`
  show that the mixture grants no more than one of the two sides, and `LateIds` that ids read
  after the update do not add to a scope resolved before it. With a second update all of
  this fails (`query_never_held`).
* `QueryProofs!TakingIsSafe` and `GivingIsSafe` are about any number of updates of one kind.
  Behind them is `QueryBounded`: the tenant `t` a query began with bounds what the query has
  read and all it will read, from above while updates only take (`TookFrom`), from below while
  they only give (`GaveTo`). `Less(a, b)`: `a` has no assignment, permission or id that `b`
  has not. Which roles there are does not occur in it, so creating one, which has nothing,
  changes neither side. `TakingIsLess`, `GivingIsMore` and `CreatingIsNeither` place the
  methods in this order; one `Since*` lemma for each read and for an update keeps the bound.
  What bounds the answer is the access in `t`, the first that `seen` recorded, so the ids
  need no moment of their own.
* `ApiProofs!ApiInv`: `Spec => []Inv` for any number of clients and tenants. The invariant is
  strengthened by the integrity of every tenant (`Fits`, which also says that the data refers
  to provisioned users only) and by `SharedGood`; one lemma per group of handlers preserves
  it. `ApiProofs!AccessGrowsByGrant`: `Spec => AccessGrowsByGrantOnly`, the action property.
  `NoGrantorLater` is its first half, that it stays so. The data: whoever reaches a handler that
  grants has passed the check for it (`GrantersPassed`), so that none is about, and handlers on
  roles at most move permissions (`RolesGrantNothing`), so nothing gives the two operations
  later (`NothingGrantsLater`). The checks: a check that has not seen `FULL` and reads grants
  where nothing gives it does not pass (`PassIsHarmless`), and its earlier reads see none
  (`CheckIsHarmless`). For the second half `RoleHandlersAreSafe` takes from the tenant store's
  theorems that creating, renaming and deleting roles widens nobody's access.
* `BootstrapProofs`: `BootstrapInv`, `ServesDeclared` and `SyncIsAdditive`, the three safety
  properties of `bootstrap`, and `SyncGoesOn`, for any files, tenants, stops, restarts and
  changes. The first two speak of the end of a start-up or synchronization, so the invariant `IInv` says where it
  is: `OnPlan`, that what is left (`Left`) are the ends of the files, and that nothing left
  belongs before the entry in progress; `Settled`, that what was taken and is not in progress
  `Holds`, unless another handler interfered or a store failed; `HalfGranted`, what the first stages of a grant
  have seen to. `Precedes` says what the loops put first and `Sound` that a file contains it,
  so that `RoleIsThere`, `GrantIsReady` and `SetIsReady` find in the stores what a call needs:
  this is why self-contained files do not fail. One lemma per call (`SyncRoleStep`,
  `SetPermissionStep`, ...) shows that it only `Adds`; `GrownKeepsHolds` concludes that what
  was declared before still holds, or is overridden by a later file. For idempotence
  `AgreedScope` takes the last file that mentions a permission (`LastOne`), where the data
  must have the scope declared. `SyncGoesOn`: no start-up and no synchronization gets stuck.
  `Rank` numbers the turns of the loops and grows along `Before` (`BeforeIsLess`), so that
  some entry left to do waits for none of the others; and an entry in progress is one that a
  call applies, in a tenant that is configured, since its look-up came first.

TLC agrees with the inductive invariants of `Query` (`Sane`, and `OneUpdate` with the tenant it
starts from among the possible ones), `Api` and `Bootstrap` on instances of the size of their
runs; that they are inductive is what the proofs add.

The assumptions on constants are those listed above and, further: `SubIsUser` (who asks is a
user), `MaxUpdatesType`, `MaxChangesType` and `BoundsAreNaturals` (bounds are numbers),
`AdminInSets`, `AdminIsDeclared` and `MetaOperationsExist` (the names in the code and the
configuration are names), `ConfiguredHasNames` (a file may name the configured tenants),
`DeclaredType` and `FileListsType` (the shape of bootstrap files, which the types of
`sync.go` enforce).

Only model-checked: `AlwaysServesAgain`. It is liveness under fairness and rests on `ENABLED`
of `Run` and `Start`, both out of the prover's reach. What it needs of safety is proved: that
self-contained files do not fail (`BootstrapInv`) and that no step is wanting
(`SyncGoesOn`). The four properties expected to be violated are refuted by
TLC's counterexamples. No module declares a `RECURSIVE` operator.

## What could be next

* Between one update of any kind and any number of one kind there are sequences of updates,
  such as permissions set anew with a wider scope only, under which answers may be as good;
  `Less` could be taken further to find out which.
* `UpdateRestrictedIDs` adds and removes in two calls (`service/admin.go:213`, a hazard without
  a property): a promise about what a caller may conclude from its 404 would have to be
  written down first.

## Not modelled

* The SQL shared store (`gormShared`): its methods are single statements or transactions,
  which are `SharedStore`'s actions; a second module would repeat them.
* Isolation below serializable. Statements and transactions are indivisible in
  `GormTenant`, as on the single connection `openGorm` gives SQLite. On PostgreSQL and MySQL
  the parts of two transactions may interleave as far as the server's isolation level
  allows (`store/gorm.go:196`, listed as a hazard without a property). That one
  `SELECT` of several rows sees them at one moment has the same reason.
* Reuse of row ids: `NewRowId` relies on the `AUTOINCREMENT` keys that GORM creates.
* Token verification, HTTP parsing and serialization, configuration files, the opening of
  connections, migrations, and deployment files: external libraries, pure I/O or without
  state.
