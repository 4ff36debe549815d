------------------------------- MODULE Query -------------------------------
(***************************************************************************)
(* A permission query among updates: the reads that resolve and RecordIDs  *)
(* (authz.go) make of the tenant store, one store call per step, while     *)
(* other handlers go on changing the tenant.  Each read is indivisible, as *)
(* in the JSON store; the query as a whole holds nothing.  The merge of    *)
(* what was read is the reference operator of Sfbac, which GrantMerge      *)
(* shows the loop of resolve to compute.                                   *)
(***************************************************************************)
EXTENDS Sfbac

CONSTANTS
    Sub,                \* the user the query is about
    MaxUpdates          \* bound: updates while one query runs

ASSUME SubIsUser == Sub \in User
ASSUME MaxUpdatesType == MaxUpdates \in Nat

VARIABLES
    tenant,
    query,      \* the query's local variables
    seen,       \* history: the access Sub has had since the query began
    updates,    \* history: the number of updates since then
    renamed,    \* history: was one of them a rename?
    onlyTook,   \* history: did every one of them take away, or create a role?
    onlyGave    \* history: did every one of them give, or create a role?

history == <<seen, updates, renamed, onlyTook, onlyGave>>
vars == <<tenant, query, history>>

Tenant == INSTANCE TenantStore

AccessType == [scope : Grant, ids : SUBSET RecordId]

QueryState ==
    [at      : {"idle", "roles", "grants", "ids"},  \* what is read next
     perms   : [Operation -> Grant],            \* Sub's own permissions
     roles   : SUBSET Role,                     \* Sub's roles
     sources : [Operation -> SUBSET Subject],   \* whose ids to read
     todo    : SUBSET Operation,                \* RESTRICTED, ids not yet read
     answer  : [Operation -> AccessType]]

NoAnswer == [o \in Operation |-> [scope |-> Unset, ids |-> {}]]

Idle == [at      |-> "idle",
         perms   |-> NoPerms,
         roles   |-> {},
         sources |-> NoIds,
         todo    |-> {},
         answer  |-> NoAnswer]

Init ==
    /\ Tenant!Init
    /\ query = Idle
    /\ seen = [o \in Operation |-> {}]
    /\ updates = 0
    /\ renamed = FALSE
    /\ onlyTook = TRUE
    /\ onlyGave = TRUE

-----------------------------------------------------------------------------
(* The reads *)

ReadPermissions ==
    /\ query.at = "idle"
    /\ query' = [query EXCEPT !.at = "roles", !.perms = tenant.perm[Sub]]
    /\ seen' = [o \in Operation |-> {Access(tenant, Sub, o)}]
    /\ UNCHANGED <<tenant, updates, renamed, onlyTook, onlyGave>>

(* What the query believes of the tenant it reads now: the roles it found  *)
(* that still exist, under the names it found them by.                     *)
Believed ==
    [tenant EXCEPT !.perm[Sub] = query.perms,
                   !.assigned[Sub] = query.roles \cap tenant.roles]

(* The resolution of what was read. *)
Resolve(q, t) ==
    LET scope == [o \in Operation |-> EffectiveScope(t, Sub, o)]
        restricted == {o \in Operation : scope[o] = "RESTRICTED"}
    IN  [q EXCEPT
           !.at = "ids",
           !.todo = restricted,
           !.sources = [o \in Operation |-> IF o \in restricted
                                            THEN IdSources(t, Sub, o) ELSE {}],
           !.answer = [o \in Operation |-> [scope |-> scope[o], ids |-> {}]]]

(* Without roles resolve returns at once: no grant is read. *)
ReadNoRoles ==
    /\ query.at = "roles"
    /\ tenant.assigned[Sub] = {}
    /\ query' = Resolve(query, Believed)
    /\ UNCHANGED <<tenant, history>>

ReadRoles ==
    /\ query.at = "roles"
    /\ tenant.assigned[Sub] # {}
    /\ query' = [query EXCEPT !.at = "grants", !.roles = tenant.assigned[Sub]]
    /\ UNCHANGED <<tenant, history>>

(* A slip of the next definition: the user's permissions are not looked at. *)
ReadGrantsOnly ==
    /\ query.at = "grants"
    /\ query' = Resolve(query, [Believed EXCEPT !.perm[Sub] = NoPerms])
    /\ UNCHANGED <<tenant, history>>

ReadGrants ==
    /\ query.at = "grants"
    /\ query' = Resolve(query, Believed)
    /\ UNCHANGED <<tenant, history>>

(* A slip of the next definition: the ids of every role count, not only of *)
(* those that grant RESTRICTED.                                            *)
ReadIdsOfAllRoles(o) ==
    /\ query.at = "ids"
    /\ o \in query.todo
    /\ query' = [query EXCEPT
                   !.todo = @ \ {o},
                   !.answer[o].ids =
                      UNION {tenant.ids[s][o] : s \in query.sources[o] \cup query.roles}]
    /\ UNCHANGED <<tenant, history>>

(* A slip of the next definition: whose ids count is decided anew.         *)
ReadIdsOfPresentSources(o) ==
    /\ query.at = "ids"
    /\ o \in query.todo
    /\ query' = [query EXCEPT
                   !.todo = @ \ {o},
                   !.answer[o].ids =
                      UNION {tenant.ids[s][o] : s \in
                                IF tenant.perm[Sub][o] # Unset THEN {Sub}
                                ELSE {r \in query.roles : tenant.perm[r][o] = "RESTRICTED"}}]
    /\ UNCHANGED <<tenant, history>>

(* RecordIDs reads the ids of one operation; roles that are gone are       *)
(* passed over.                                                            *)
ReadIds(o) ==
    /\ query.at = "ids"
    /\ o \in query.todo
    /\ query' = [query EXCEPT
                   !.todo = @ \ {o},
                   !.answer[o].ids =
                      UNION {tenant.ids[s][o] :
                                s \in query.sources[o] \cap (User \cup tenant.roles)}]
    /\ UNCHANGED <<tenant, history>>

Answered == query.at = "ids" /\ query.todo = {}

Return ==
    /\ Answered
    /\ query' = Idle
    /\ seen' = [o \in Operation |-> {}]
    /\ updates' = 0
    /\ renamed' = FALSE
    /\ onlyTook' = TRUE
    /\ onlyGave' = TRUE
    /\ UNCHANGED tenant

-----------------------------------------------------------------------------
(* The other handlers *)

Renaming == \E a, b \in Role : Tenant!RenameRole(a, b, "saved")

Creating == \E r \in Role : Tenant!CreateRole(r, "saved") \/ Tenant!EnsureRole(r, "saved")

Taking ==
    \/ \E r \in Role : Tenant!DeleteRole(r, "saved")
    \/ \E u \in User, r \in Role : Tenant!UnassignRole(u, r, "saved")
    \/ \E s \in Subject, o \in Operation :
          \/ Tenant!RemovePermission(s, o, "saved")
          \/ \E old \in SUBSET RecordId : Tenant!RemoveRestrictedIDs(s, o, old, "saved")

Giving ==
    \/ \E u \in User, r \in Role : Tenant!AssignRole(u, r, "saved")
    \/ \E s \in Subject, o \in Operation, new \in SUBSET RecordId :
          Tenant!AddRestrictedIDs(s, o, new, "saved")

UpdateBetweenQueries ==
    /\ query.at = "idle"
    /\ Tenant!Next
    /\ UNCHANGED <<query, history>>

UpdateDuringQuery ==
    /\ query.at # "idle"
    /\ updates < MaxUpdates
    /\ Tenant!Call("saved")
    /\ updates' = updates + 1
    /\ renamed' = (renamed \/ Renaming)
    /\ onlyTook' = (onlyTook /\ (Taking \/ Creating))
    /\ onlyGave' = (onlyGave /\ (Giving \/ Creating))
    /\ seen' = [o \in Operation |-> seen[o] \cup {Access(tenant', Sub, o)}]
    /\ UNCHANGED query

Next ==
    \/ ReadPermissions
    \/ ReadNoRoles
    \/ ReadRoles
    \/ ReadGrants
    \/ \E o \in Operation : ReadIds(o)
    \/ Return
    \/ UpdateBetweenQueries
    \/ UpdateDuringQuery

Spec == Init /\ [][Next]_vars

-----------------------------------------------------------------------------
TypeOK ==
    /\ tenant \in TenantData
    /\ query \in QueryState
    /\ seen \in [Operation -> SUBSET AccessType]
    /\ updates \in 0..MaxUpdates
    /\ renamed \in BOOLEAN /\ onlyTook \in BOOLEAN /\ onlyGave \in BOOLEAN

(* Ids are attached to RESTRICTED scopes only, and come from the user's    *)
(* own list exactly when the query found a user-level permission, else     *)
(* from roles it found (authz.go:105-135).                                 *)
Inv ==
    /\ TypeOK
    /\ query.at = "ids" =>
         \A o \in Operation :
            /\ query.answer[o].ids # {} => query.answer[o].scope = "RESTRICTED"
            /\ query.perms[o] = Unset => query.sources[o] \subseteq query.roles
            /\ query.perms[o] # Unset => query.sources[o] \subseteq {Sub}

(* An answer is no wider than the access the user had at some moment of    *)
(* the query, when at most one update, of any kind, falls into it:         *)
(* scope and ids are then not composed to more than was ever granted       *)
(* (authz.go:25-71, 108-135).                                              *)
AnswerNoWiderThanHeld ==
    Answered /\ updates <= 1 =>
       \A o \in Operation : \E a \in seen[o] : NoWiderThan(query.answer[o], a)

(* A user whose access did not change while the query ran gets the scope   *)
(* it had, although one update went on, even to the user's own roles or     *)
(* permissions, unless it was a rename (authz.go:25-87).  The ids are not  *)
(* included: those of a permission removed meanwhile are missed even if a  *)
(* role grants the same.                                                   *)
StableScope ==
    \A o \in Operation :
        seen[o] = {Access(tenant, Sub, o)}
           => query.answer[o].scope = Access(tenant, Sub, o).scope

StableScopeIsAnswered == Answered /\ updates <= 1 /\ ~renamed => StableScope

(* However many updates fall into a query, an answer is no wider than some *)
(* access the user had meanwhile as long as each of them takes away or     *)
(* creates a role: a role deleted and created again under a name the query *)
(* has read, or an override removed that it resolved from, lends it        *)
(* nothing (authz.go:25-71, 108-135).                                      *)
TakingNeverWidensAnswer ==
    Answered /\ onlyTook =>
       \A o \in Operation : \E a \in seen[o] : NoWiderThan(query.answer[o], a)

(* Nor is it narrower than every access the user had meanwhile as long as  *)
(* each update assigns a role, adds ids or creates a role: what the query  *)
(* read before and after them still adds up (authz.go:25-71, 108-135).     *)
GivingNeverNarrowsAnswer ==
    Answered /\ onlyGave =>
       \A o \in Operation : \E a \in seen[o] : NoWiderThan(a, query.answer[o])

(* "Authorize reports whether the user holds the operation with FULL       *)
(* scope" (authz.go:137): FULL is answered only if the user held it at     *)
(* some moment of the query.                                               *)
FullOnlyIfHeld ==
    Answered => \A o \in Operation :
                   query.answer[o].scope = "FULL"
                      => \E a \in seen[o] : a.scope = "FULL"

=============================================================================
