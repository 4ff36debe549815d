------------------------------- MODULE Sfbac -------------------------------
(***************************************************************************)
(* Scope- and function-based access control: the authorization data of one *)
(* tenant (store.Tenant) and what that data grants a user.                 *)
(*                                                                         *)
(* A subject is a role or a user.  Both carry permissions, a map from      *)
(* operation to scope, and for each operation a set of record ids.  An     *)
(* absent map entry is the value Unset, an absent list of ids the empty    *)
(* set.  This module has no state: the stores' modules hold TenantData in  *)
(* a variable, and every property about access is stated with the          *)
(* operators below.                                                        *)
(***************************************************************************)
EXTENDS Integers

CONSTANTS
    Role,       \* role names
    User,       \* user subs
    Operation,  \* operation names
    RecordId    \* record ids

(* Role and user names live in different maps (tables) of the code. *)
ASSUME SubjectsApart == Role \cap User = {}

Scope == {"FULL", "RESTRICTED", "EMPTY"}
Unset == "UNSET"
Grant == Scope \cup {Unset}
Subject == Role \cup User

TenantData ==
    [roles    : SUBSET Role,
     assigned : [User -> SUBSET Role],
     perm     : [Subject -> [Operation -> Grant]],
     ids      : [Subject -> [Operation -> SUBSET RecordId]]]

NoPerms == [o \in Operation |-> Unset]
NoIds == [o \in Operation |-> {}]

(* A tenant whose file or tables do not exist yet. *)
EmptyTenant ==
    [roles    |-> {},
     assigned |-> [u \in User |-> {}],
     perm     |-> [s \in Subject |-> NoPerms],
     ids      |-> [s \in Subject |-> NoIds]]

-----------------------------------------------------------------------------
(* What the data grants: the rules stated at authz.go:20-24. *)

(* FULL > RESTRICTED > EMPTY, and any assignment is wider than none. *)
Width == [s \in Grant |->
            CASE s = "FULL" -> 3
              [] s = "RESTRICTED" -> 2
              [] s = "EMPTY" -> 1
              [] s = Unset -> 0]

(* s is the widest of the scopes S, or Unset when there are none. *)
IsWidest(s, S) ==
    /\ s \in S \cup {Unset}
    /\ \A t \in S : Width[t] <= Width[s]

(* A slip of the next definition: the narrowest scope wins ("deny first"). *)
NarrowestScope(S) ==
    CHOOSE s \in Grant : /\ s \in S \cup {Unset}
                         /\ s = Unset => S \subseteq {Unset}
                         /\ \A t \in S \ {Unset} : Width[s] <= Width[t]

WidestScope(S) == CHOOSE s \in Grant : IsWidest(s, S)

Overridden(t, u, o) == t.perm[u][o] # Unset

RoleScope(t, u, o) == WidestScope({t.perm[r][o] : r \in t.assigned[u]})

(* A user-level permission overrides those of the user's roles. *)
EffectiveScope(t, u, o) ==
    IF Overridden(t, u, o) THEN t.perm[u][o] ELSE RoleScope(t, u, o)

(* Whose ids count when the effective scope is RESTRICTED. *)
IdSources(t, u, o) ==
    IF Overridden(t, u, o)
    THEN {u}
    ELSE {r \in t.assigned[u] : t.perm[r][o] = "RESTRICTED"}

RestrictedIds(t, u, o) == UNION {t.ids[s][o] : s \in IdSources(t, u, o)}

(* The answer of the query endpoints for one user and operation. *)
Access(t, u, o) ==
    [scope |-> EffectiveScope(t, u, o),
     ids   |-> IF EffectiveScope(t, u, o) = "RESTRICTED"
               THEN RestrictedIds(t, u, o) ELSE {}]

(* a reaches no record and no collection that b does not reach.  EMPTY is *)
(* an assignment that reaches nothing, so it is ordered above Unset only. *)
NoWiderThan(a, b) ==
    /\ Width[a.scope] <= Width[b.scope]
    /\ b.scope = "RESTRICTED" => a.ids \subseteq b.ids

=============================================================================
