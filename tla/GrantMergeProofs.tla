-------------------------- MODULE GrantMergeProofs --------------------------
(***************************************************************************)
(* The loop of service.resolve computes the documented resolution rules    *)
(* for every set of roles, operations and grants and every order of them.  *)
(***************************************************************************)
EXTENDS GrantMerge, TLAPS

(* The widest scope of a set is unique, so the CHOOSE of WidestScope is    *)
(* determined by IsWidest: the scopes of model.go:12-16 are totally        *)
(* ordered.                                                                *)
LEMMA WidestIsUnique ==
    ASSUME NEW S \in SUBSET Grant, NEW s \in Grant, IsWidest(s, S)
    PROVE  WidestScope(S) = s
<1>1. SUFFICES ASSUME NEW w \in Grant, IsWidest(w, S)
               PROVE  w = s
  BY DEF WidestScope
<1>2. \A a, b \in Grant : Width[a] = Width[b] => a = b
  BY DEF Width, Grant, Scope, Unset
<1>3. \A a \in Grant : Width[a] \in 0..3 /\ (Width[a] = 0 <=> a = Unset)
  BY DEF Width, Grant, Scope, Unset
<1>4. CASE s \in S /\ w \in S
  <2>1. Width[s] <= Width[w] /\ Width[w] <= Width[s]
    BY <1>1, <1>4 DEF IsWidest
  <2> QED BY <1>1, <1>2, <1>3, <2>1
<1>5. CASE s \notin S
  <2>1. s = Unset
    BY <1>5 DEF IsWidest
  <2>2. w \in S => Width[w] <= Width[s]
    BY DEF IsWidest
  <2> QED BY <1>1, <1>3, <2>1, <2>2 DEF IsWidest
<1>6. CASE w \notin S
  <2>1. w = Unset
    BY <1>1, <1>6 DEF IsWidest
  <2>2. s \in S => Width[s] <= Width[w]
    BY <1>1 DEF IsWidest
  <2> QED BY <1>3, <2>1, <2>2 DEF IsWidest
<1> QED BY <1>4, <1>5, <1>6

(* One turn of the loop: the operation of the grant taken gains its scope, *)
(* the other operations are as before.                                     *)
LEMMA TakeMerges ==
    ASSUME TypeOK, NEW g \in RoleGrant, Take(g)
    PROVE  /\ pending' \subseteq RoleGrants(tenant')
           /\ g.scope \in Scope /\ g.role \in Role /\ g.operation \in Operation
           /\ Merged(g.operation)' = Merged(g.operation) \cup {g.scope}
           /\ MergedRestricted(g.operation)' =
                MergedRestricted(g.operation)
                  \cup (IF g.scope = "RESTRICTED" THEN {g.role} ELSE {})
           /\ \A o \in Operation \ {g.operation} :
                 /\ Merged(o)' = Merged(o)
                 /\ MergedRestricted(o)' = MergedRestricted(o)
<1> DEFINE done == RoleGrants(tenant) \ pending
<1>1. tenant' = tenant /\ pending' = pending \ {g} /\ g \in pending
  BY DEF Take
<1>2. pending \subseteq RoleGrants(tenant)
  BY DEF TypeOK
<1>3. (RoleGrants(tenant) \ pending)' = done \cup {g}
  BY <1>1, <1>2 DEF RoleGrants
<1>4. g.scope \in Scope /\ g.role \in Role /\ g.operation \in Operation
  BY DEF RoleGrant
<1>5. pending' \subseteq RoleGrants(tenant')
  BY <1>1, <1>2
<1> HIDE DEF done
<1>6. \A o \in Operation :
         Merged(o)' = {h.scope : h \in {k \in done \cup {g} : k.operation = o}}
  BY <1>3 DEF Merged
<1>7. \A o \in Operation :
         Merged(o) = {h.scope : h \in {k \in done : k.operation = o}}
  BY DEF Merged, done
<1>8. \A o \in Operation :
         MergedRestricted(o)' =
           {h.role : h \in {k \in done \cup {g} :
                               k.operation = o /\ k.scope = "RESTRICTED"}}
  BY <1>3 DEF MergedRestricted
<1>9. \A o \in Operation :
         MergedRestricted(o) =
           {h.role : h \in {k \in done :
                               k.operation = o /\ k.scope = "RESTRICTED"}}
  BY DEF MergedRestricted, done
<1>10. Merged(g.operation)' = Merged(g.operation) \cup {g.scope}
  BY <1>4, <1>6, <1>7
<1>11. MergedRestricted(g.operation)' =
          MergedRestricted(g.operation)
            \cup (IF g.scope = "RESTRICTED" THEN {g.role} ELSE {})
  BY <1>4, <1>8, <1>9
<1>12. ASSUME NEW o \in Operation \ {g.operation}
       PROVE  Merged(o)' = Merged(o) /\ MergedRestricted(o)' = MergedRestricted(o)
  <2>1. {k \in done \cup {g} : k.operation = o} = {k \in done : k.operation = o}
    BY <1>12
  <2>2. {k \in done \cup {g} : k.operation = o /\ k.scope = "RESTRICTED"}
          = {k \in done : k.operation = o /\ k.scope = "RESTRICTED"}
    BY <1>12
  <2>3. Merged(o)' = Merged(o)
    BY <1>6, <1>7, <2>1
  <2>4. MergedRestricted(o)' = MergedRestricted(o)
    BY <1>8, <1>9, <2>2
  <2> QED BY <2>3, <2>4
<1> QED BY <1>4, <1>5, <1>10, <1>11, <1>12

-----------------------------------------------------------------------------
(* Before the first role grant only the user's own permissions are in eff, *)
(* so the loop invariant holds (authz.go:32-34).                           *)
LEMMA InitInv == Init => Inv
<1> SUFFICES ASSUME Init PROVE Inv
  OBVIOUS
<1> PICK held \in SUBSET Role, p \in [Subject -> [Operation -> Grant]] :
         tenant = [EmptyTenant EXCEPT !.roles = Role,
                                      !.assigned[Sub] = held,
                                      !.perm = p]
  BY DEF Init
<1>1. EmptyTenant \in TenantData
  BY DEF EmptyTenant, TenantData, NoPerms, NoIds, Grant
<1>2. tenant \in TenantData
  BY <1>1, SubIsUser DEF TenantData
<1>3. tenant.perm[Sub] \in [Operation -> Grant]
  BY <1>2, SubIsUser DEF TenantData, Subject
<1>4. TypeOK
  BY <1>2, <1>3 DEF Init, TypeOK, UserResolutions, Resolution
<1>5. ASSUME NEW o \in Operation, tenant.perm[Sub][o] = Unset
      PROVE  /\ ~eff[o].fromUser
             /\ IsWidest(eff[o].scope, Merged(o))
             /\ eff[o].roles = IF eff[o].scope = "RESTRICTED"
                               THEN MergedRestricted(o) ELSE {}
  <2>1. eff[o] = [scope |-> Unset, fromUser |-> FALSE, roles |-> {}]
    BY <1>5 DEF Init, UserResolutions
  <2>2. Merged(o) = {}
    BY DEF Init, Merged
  <2> QED BY <2>1, <2>2 DEF IsWidest, Unset
<1>6. ASSUME NEW o \in Operation, tenant.perm[Sub][o] # Unset
      PROVE  eff[o] = [scope |-> tenant.perm[Sub][o], fromUser |-> TRUE, roles |-> {}]
  BY <1>6 DEF Init, UserResolutions
<1>7. LoopInv
  BY <1>5, <1>6 DEF LoopInv, Overridden
<1> QED BY <1>4, <1>7 DEF Inv

(* Each arm of the loop body keeps the invariant (authz.go:49-68).         *)
LEMMA MergeInv ==
    ASSUME Inv, NEW g \in RoleGrant, Merge(g)
    PROVE  Inv'
<1> DEFINE op == g.operation
           Fold(o) == /\ ~eff[o].fromUser
                      /\ IsWidest(eff[o].scope, Merged(o))
                      /\ eff[o].roles = IF eff[o].scope = "RESTRICTED"
                                        THEN MergedRestricted(o) ELSE {}
<1>1. Take(g) /\ TypeOK
  BY DEF Merge, Inv, KeepOverride, FirstGrant, AlreadyFull, WidenToFull,
         AddRestricted, IgnoreEmpty, TakeRoleGrant
<1>2. tenant' = tenant
  BY <1>1 DEF Take
<1>3. /\ g.scope \in Scope /\ g.role \in Role /\ op \in Operation
      /\ pending' \subseteq RoleGrants(tenant')
      /\ Merged(op)' = Merged(op) \cup {g.scope}
      /\ MergedRestricted(op)' =
            MergedRestricted(op) \cup (IF g.scope = "RESTRICTED" THEN {g.role} ELSE {})
      /\ \A o \in Operation \ {op} :
            Merged(o)' = Merged(o) /\ MergedRestricted(o)' = MergedRestricted(o)
  BY <1>1, TakeMerges
<1>4. eff \in [Operation -> Resolution] /\ eff[op] \in Resolution
  BY <1>1, <1>3 DEF TypeOK
<1>5. /\ eff' \in [Operation -> Resolution]
      /\ \A o \in Operation \ {op} : eff'[o] = eff[o]
      /\ eff[op].fromUser => eff'[op] = eff[op]
  <2> USE <1>3, <1>4 DEF Resolution, Grant, Scope, TakeRoleGrant
  <2>1. CASE KeepOverride(g) BY <2>1 DEF KeepOverride
  <2>2. CASE FirstGrant(g) BY <2>2 DEF FirstGrant
  <2>3. CASE AlreadyFull(g) BY <2>3 DEF AlreadyFull
  <2>4. CASE WidenToFull(g) BY <2>4 DEF WidenToFull
  <2>5. CASE AddRestricted(g) BY <2>5 DEF AddRestricted
  <2>6. CASE IgnoreEmpty(g) BY <2>6 DEF IgnoreEmpty
  <2> QED BY <2>1, <2>2, <2>3, <2>4, <2>5, <2>6 DEF Merge
<1>6. TypeOK'
  BY <1>1, <1>2, <1>3, <1>5 DEF TypeOK
<1>7. ASSUME ~Overridden(tenant, Sub, op)
      PROVE  Fold(op)'
  <2>1. Fold(op)
    BY <1>3, <1>7 DEF Inv, LoopInv
  <2>2. \A s \in Merged(op) : s \in Scope
    BY DEF Merged, RoleGrants, RoleGrant
  <2>9. MergedRestricted(op) # {} => "RESTRICTED" \in Merged(op)
    BY DEF Merged, MergedRestricted
  <2>10. eff[op].scope = Unset => Merged(op) = {}
    <3>1. \A s \in Scope : Width[s] >= 1 /\ Width[Unset] = 0
      BY DEF Width, Grant, Scope, Unset
    <3>2. \A s \in Merged(op) : Width[s] <= Width[eff[op].scope]
      BY <2>1 DEF IsWidest
    <3>3. ASSUME NEW s \in Merged(op), eff[op].scope = Unset
          PROVE  FALSE
      <4>1. Width[s] <= 0 /\ Width[s] >= 1
        BY <2>2, <3>1, <3>2, <3>3
      <4>2. s \in Grant
        BY <2>2 DEF Grant
      <4>3. Width[s] \in 0..3
        BY <4>2 DEF Width, Grant, Scope, Unset
      <4> QED BY <4>1, <4>3
    <3> QED BY <3>3
  <2> USE <1>3, <1>4, <2>1, <2>2
      DEF IsWidest, Width, Grant, Scope, Unset, Resolution, TakeRoleGrant
  <2>3. ~KeepOverride(g)
    BY DEF KeepOverride
  <2>4. CASE FirstGrant(g)
    <3>1. Merged(op) = {} /\ MergedRestricted(op) = {}
      BY <2>4, <2>9, <2>10 DEF FirstGrant
    <3>2. /\ eff'[op].scope = g.scope
          /\ ~eff'[op].fromUser
          /\ eff'[op].roles = IF g.scope = "RESTRICTED" THEN {g.role} ELSE {}
      BY <2>4 DEF FirstGrant
    <3>3. Merged(op)' = {g.scope} /\ eff'[op].scope = g.scope
      BY <3>1, <3>2
    <3>4. IsWidest(eff'[op].scope, Merged(op)')
      BY <3>3
    <3> QED BY <3>1, <3>2, <3>4
  <2>5. CASE AlreadyFull(g)
    BY <2>5 DEF AlreadyFull
  <2>6. CASE WidenToFull(g)
    BY <2>6 DEF WidenToFull
  <2>7. CASE AddRestricted(g)
    <3>1. /\ eff'[op].scope = "RESTRICTED"
          /\ ~eff'[op].fromUser
          /\ eff'[op].roles = eff[op].roles \cup {g.role}
      BY <2>7 DEF AddRestricted
    <3>2. IsWidest(eff'[op].scope, Merged(op)')
      <4>1. eff[op].scope # "FULL" /\ g.scope = "RESTRICTED"
        BY <2>7 DEF AddRestricted
      <4>2. \A s \in Merged(op)' : Width[s] <= Width["RESTRICTED"]
        BY <4>1
      <4> QED BY <3>1, <4>1, <4>2
    <3>3. eff[op].roles = MergedRestricted(op)
      BY <2>7, <2>9 DEF AddRestricted
    <3>4. g.scope = "RESTRICTED"
      BY <2>7 DEF AddRestricted
    <3> QED BY <3>1, <3>2, <3>3, <3>4
  <2>8. CASE IgnoreEmpty(g)
    BY <2>8 DEF IgnoreEmpty
  <2> QED BY <2>3, <2>4, <2>5, <2>6, <2>7, <2>8 DEF Merge
<1>8. LoopInv'
  <2>1. ASSUME NEW o \in Operation, Overridden(tenant, Sub, o)
        PROVE  eff'[o] = [scope |-> tenant.perm[Sub][o], fromUser |-> TRUE, roles |-> {}]
    <3>1. eff[o] = [scope |-> tenant.perm[Sub][o], fromUser |-> TRUE, roles |-> {}]
      BY <2>1 DEF Inv, LoopInv
    <3>2. eff[o].fromUser
      BY <3>1
    <3>3. eff'[o] = eff[o]
      BY <1>5, <3>2
    <3> QED BY <3>1, <3>3
  <2>2. ASSUME NEW o \in Operation \ {op}, ~Overridden(tenant, Sub, o)
        PROVE  Fold(o)'
    <3>1. Fold(o)
      BY <2>2 DEF Inv, LoopInv
    <3> QED BY <1>3, <1>5, <3>1
  <2> QED BY <1>2, <1>7, <2>1, <2>2 DEF LoopInv, Overridden
<1> QED BY <1>6, <1>8 DEF Inv

(* With no grant left the invariant is the documented rule.                *)
LEMMA InvResolves == Inv => ResolvedByRules
<1> SUFFICES ASSUME Inv, pending = {}, NEW o \in Operation
             PROVE  /\ eff[o].scope = EffectiveScope(tenant, Sub, o)
                    /\ eff[o].scope = "RESTRICTED" =>
                         (IF eff[o].fromUser THEN {Sub} ELSE eff[o].roles)
                             = IdSources(tenant, Sub, o)
  BY DEF ResolvedByRules
<1>1. CASE Overridden(tenant, Sub, o)
  <2>1. eff[o] = [scope |-> tenant.perm[Sub][o], fromUser |-> TRUE, roles |-> {}]
    BY <1>1 DEF Inv, LoopInv
  <2>2. eff[o].scope = tenant.perm[Sub][o] /\ eff[o].fromUser
    BY <2>1
  <2> QED BY <1>1, <2>2 DEF EffectiveScope, IdSources
<1>2. CASE ~Overridden(tenant, Sub, o)
  <2> DEFINE held == tenant.assigned[Sub]
             S == {tenant.perm[r][o] : r \in held}
  <2>1. /\ ~eff[o].fromUser
        /\ IsWidest(eff[o].scope, Merged(o))
        /\ eff[o].roles = IF eff[o].scope = "RESTRICTED"
                          THEN MergedRestricted(o) ELSE {}
    BY <1>2 DEF Inv, LoopInv
  <2>2. /\ held \subseteq Role
        /\ \A r \in held : tenant.perm[r][o] \in Grant
        /\ eff[o].scope \in Grant
    BY SubIsUser DEF Inv, TypeOK, TenantData, Subject, Resolution
  <2>3. ASSUME NEW s PROVE s \in Merged(o) <=> s \in S /\ s # Unset
    <3>1. ASSUME s \in Merged(o) PROVE s \in S /\ s # Unset
      BY <3>1 DEF Merged, RoleGrants, RoleGrant, Scope, Unset
    <3>2. ASSUME s \in S, s # Unset PROVE s \in Merged(o)
      <4>1. PICK r \in held : s = tenant.perm[r][o]
        BY <3>2
      <4>2. [role |-> r, operation |-> o, scope |-> s] \in RoleGrants(tenant)
        BY <2>2, <3>2, <4>1 DEF RoleGrants, RoleGrant, Grant
      <4> QED BY <4>2 DEF Merged
    <3> QED BY <3>1, <3>2
  <2>4. IsWidest(eff[o].scope, S)
    BY <2>1, <2>2, <2>3 DEF IsWidest, Width, Grant, Scope, Unset
  <2>5. S \in SUBSET Grant
    BY <2>2
  <2>6. eff[o].scope = RoleScope(tenant, Sub, o)
    BY <2>2, <2>4, <2>5, WidestIsUnique DEF RoleScope
  <2>7. MergedRestricted(o) = {r \in held : tenant.perm[r][o] = "RESTRICTED"}
    <3>1. ASSUME NEW r \in MergedRestricted(o)
          PROVE  r \in held /\ tenant.perm[r][o] = "RESTRICTED"
      BY DEF MergedRestricted, RoleGrants
    <3>2. ASSUME NEW r \in held, tenant.perm[r][o] = "RESTRICTED"
          PROVE  r \in MergedRestricted(o)
      <4>1. [role |-> r, operation |-> o, scope |-> "RESTRICTED"] \in RoleGrants(tenant)
        BY <2>2, <3>2 DEF RoleGrants, RoleGrant, Scope
      <4> QED BY <4>1 DEF MergedRestricted
    <3> QED BY <3>1, <3>2
  <2> QED BY <1>2, <2>1, <2>6, <2>7 DEF EffectiveScope, IdSources
<1> QED BY <1>1, <1>2

(* The merge loop keeps its invariant, in every order of the grants.       *)
THEOREM MergeLoopInv == Spec => []Inv
<1>1. Inv /\ [Next]_vars => Inv'
  <2>1. ASSUME Inv, Next PROVE Inv'
    BY <2>1, MergeInv DEF Next
  <2>2. ASSUME Inv, UNCHANGED vars PROVE Inv'
    BY <2>2 DEF vars, Inv, TypeOK, LoopInv, Merged, MergedRestricted
  <2> QED BY <2>1, <2>2
<1> QED BY InitInv, <1>1, PTL DEF Spec

(* resolve() computes what authz.go:20-24 documents: a user permission     *)
(* overrides, else the widest scope of the roles wins, and RESTRICTED ids  *)
(* come from exactly the roles granting RESTRICTED.                        *)
THEOREM ResolveIsCorrect == Spec => []ResolvedByRules
<1> QED BY MergeLoopInv, InvResolves, PTL

=============================================================================
