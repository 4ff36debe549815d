----------------------------- MODULE GrantMerge -----------------------------
(***************************************************************************)
(* service.resolve (authz.go): how a user's own permissions and the grants *)
(* of the user's roles are folded into one effective scope per operation.  *)
(*                                                                         *)
(* The loop consumes the grants in the order RoleGrants returns them: Go's *)
(* random map order in the JSON store, an unordered SELECT in the SQL ones.*)
(* Each arm of the loop body is an action on some grant still pending, so  *)
(* TLC takes the grants in every order and the theorem in GrantMergeProofs *)
(* covers all of them.  The data here is what one call read; reads that    *)
(* interleave with updates are not this module's subject.                  *)
(***************************************************************************)
EXTENDS Sfbac

CONSTANT Sub    \* the user the call is about

ASSUME SubIsUser == Sub \in User

VARIABLES
    tenant,     \* the data read; never changed
    pending,    \* the grants the loop has not reached
    eff         \* the map being built, operation -> resolution

vars == <<tenant, pending, eff>>

(* A scope of Unset stands for the absent map entry. *)
Resolution == [scope : Grant, fromUser : BOOLEAN, roles : SUBSET Role]

RoleGrant == [role : Role, operation : Operation, scope : Scope]

(* What tenant.RoleGrants returns for the roles of Sub. *)
RoleGrants(t) ==
    {g \in RoleGrant : /\ g.role \in t.assigned[Sub]
                       /\ t.perm[g.role][g.operation] = g.scope}

-----------------------------------------------------------------------------
(* eff after the first loop, over the user's own permissions. *)
UserResolutions(t) ==
    [o \in Operation |->
        [scope    |-> t.perm[Sub][o],
         fromUser |-> t.perm[Sub][o] # Unset,
         roles    |-> {}]]

Init ==
    /\ \E held \in SUBSET Role, p \in [Subject -> [Operation -> Grant]] :
          tenant = [EmptyTenant EXCEPT !.roles = Role,
                                       !.assigned[Sub] = held,
                                       !.perm = p]
    /\ pending = RoleGrants(tenant)
    /\ eff = UserResolutions(tenant)

(* The next grant of the loop: every arm takes it off the list. *)
Take(g) ==
    /\ g \in pending
    /\ pending' = pending \ {g}
    /\ UNCHANGED tenant

(* "continue // user override wins" *)
KeepOverride(g) ==
    /\ Take(g)
    /\ eff[g.operation].fromUser
    /\ UNCHANGED eff

(* The arms below run only without a user override. *)
TakeRoleGrant(g) ==
    /\ Take(g)
    /\ ~eff[g.operation].fromUser

(* case !ok *)
FirstGrant(g) ==
    /\ TakeRoleGrant(g)
    /\ eff[g.operation].scope = Unset
    /\ eff' = [eff EXCEPT ![g.operation] =
                 [scope    |-> g.scope,
                  fromUser |-> FALSE,
                  roles    |-> IF g.scope = "RESTRICTED" THEN {g.role} ELSE {}]]

(* case cur.scope == FULL *)
AlreadyFull(g) ==
    /\ TakeRoleGrant(g)
    /\ eff[g.operation].scope = "FULL"
    /\ UNCHANGED eff

(* case g.Scope == FULL *)
WidenToFull(g) ==
    /\ TakeRoleGrant(g)
    /\ eff[g.operation].scope \in {"RESTRICTED", "EMPTY"}
    /\ g.scope = "FULL"
    /\ eff' = [eff EXCEPT ![g.operation].scope = "FULL",
                          ![g.operation].roles = {}]

(* Two slips in the next arm: the scope not raised, the roles collected so  *)
(* far overwritten.  PROJECT.json puts each in its place as a mutant.       *)
AddRestrictedKeepingScope(g) ==
    /\ TakeRoleGrant(g)
    /\ eff[g.operation].scope \in {"RESTRICTED", "EMPTY"}
    /\ g.scope = "RESTRICTED"
    /\ eff' = [eff EXCEPT ![g.operation].roles = @ \cup {g.role}]

AddRestrictedForgetting(g) ==
    /\ TakeRoleGrant(g)
    /\ eff[g.operation].scope \in {"RESTRICTED", "EMPTY"}
    /\ g.scope = "RESTRICTED"
    /\ eff' = [eff EXCEPT ![g.operation].scope = "RESTRICTED",
                          ![g.operation].roles = {g.role}]

(* case g.Scope == RESTRICTED *)
AddRestricted(g) ==
    /\ TakeRoleGrant(g)
    /\ eff[g.operation].scope \in {"RESTRICTED", "EMPTY"}
    /\ g.scope = "RESTRICTED"
    /\ eff' = [eff EXCEPT ![g.operation].scope = "RESTRICTED",
                          ![g.operation].roles = @ \cup {g.role}]

(* No case: an EMPTY grant next to RESTRICTED or EMPTY changes nothing. *)
IgnoreEmpty(g) ==
    /\ TakeRoleGrant(g)
    /\ eff[g.operation].scope \in {"RESTRICTED", "EMPTY"}
    /\ g.scope = "EMPTY"
    /\ UNCHANGED eff

Merge(g) ==
    \/ KeepOverride(g)
    \/ FirstGrant(g)
    \/ AlreadyFull(g)
    \/ WidenToFull(g)
    \/ AddRestricted(g)
    \/ IgnoreEmpty(g)

Next == \E g \in RoleGrant : Merge(g)

Spec == Init /\ [][Next]_vars

-----------------------------------------------------------------------------
(* The data as far as the loop has got: what remains pending not counted. *)
Merged(o) == {g.scope : g \in {h \in RoleGrants(tenant) \ pending : h.operation = o}}

MergedRestricted(o) ==
    {g.role : g \in {h \in RoleGrants(tenant) \ pending :
                        h.operation = o /\ h.scope = "RESTRICTED"}}

TypeOK ==
    /\ tenant \in TenantData
    /\ pending \subseteq RoleGrants(tenant)
    /\ eff \in [Operation -> Resolution]

(* The loop invariant.  At any point of the loop an overridden operation   *)
(* has the user's scope, and any other operation the widest scope merged   *)
(* so far together with the roles whose ids that scope draws on.           *)
LoopInv ==
    \A o \in Operation :
        IF Overridden(tenant, Sub, o)
        THEN eff[o] = [scope |-> tenant.perm[Sub][o], fromUser |-> TRUE, roles |-> {}]
        ELSE /\ ~eff[o].fromUser
             /\ IsWidest(eff[o].scope, Merged(o))
             /\ eff[o].roles = IF eff[o].scope = "RESTRICTED"
                               THEN MergedRestricted(o) ELSE {}

(* The inductive invariant of the merge loop (authz.go:48-69). *)
Inv == TypeOK /\ LoopInv

(* When the loop is done, every operation has the scope that the rules of  *)
(* authz.go:20-24 give it, whatever the order of the grants, and for a     *)
(* RESTRICTED one RecordIDs will read the ids of exactly the right         *)
(* subjects (authz.go:120-124).                                            *)
ResolvedByRules ==
    pending = {} =>
        \A o \in Operation :
            /\ eff[o].scope = EffectiveScope(tenant, Sub, o)
            /\ eff[o].scope = "RESTRICTED" =>
                 (IF eff[o].fromUser THEN {Sub} ELSE eff[o].roles)
                     = IdSources(tenant, Sub, o)

=============================================================================
