-------------------------- MODULE JsonTenantProofs --------------------------
(***************************************************************************)
(* The JSON file across failed saves and crashes: it stays consistent, it  *)
(* holds what callers were told, and it goes through the steps of a        *)
(* TenantStore, for all sets of roles, users, operations and ids.          *)
(***************************************************************************)
EXTENDS JsonTenant, TLAPS

(* What is proved of a tenant store, here of the one in memory. *)
Store == INSTANCE TenantStoreProofs WITH tenant <- mem

(* The instances' names stand for the same values. *)
LEMMA SameValues ==
    /\ Memory!NoPerms = NoPerms /\ Memory!NoIds = NoIds /\ Memory!Subject = Subject
    /\ File!NoPerms = NoPerms /\ File!NoIds = NoIds /\ File!Subject = Subject
    /\ Store!NoPerms = NoPerms /\ Store!NoIds = NoIds /\ Store!Subject = Subject
    /\ Memory!Unset = Unset /\ File!Unset = Unset /\ Store!Unset = Unset
    /\ Memory!Scope = Scope /\ File!Scope = Scope /\ Store!Scope = Scope
    /\ Memory!TenantData = TenantData /\ File!TenantData = TenantData
    /\ Store!TenantData = TenantData
  BY DEF Memory!NoPerms, File!NoPerms, Store!NoPerms, NoPerms,
         Memory!NoIds, File!NoIds, Store!NoIds, NoIds,
         Memory!Subject, File!Subject, Store!Subject, Subject,
         Memory!Unset, File!Unset, Store!Unset, Unset,
         Memory!Scope, File!Scope, Store!Scope, Scope,
         Memory!Grant, File!Grant, Store!Grant, Grant,
         Memory!TenantData, File!TenantData, Store!TenantData, TenantData

LEMMA SameChanges ==
    ASSUME NEW t, NEW r, NEW b
    PROVE  /\ Memory!AddRole(t, r) = File!AddRole(t, r)
           /\ Memory!AddRole(t, r) = Store!AddRole(t, r)
           /\ Memory!DropRole(t, r) = File!DropRole(t, r)
           /\ Memory!DropRole(t, r) = Store!DropRole(t, r)
           /\ Memory!MoveRole(t, r, b) = File!MoveRole(t, r, b)
           /\ Memory!MoveRole(t, r, b) = Store!MoveRole(t, r, b)
  BY SameValues DEF Memory!AddRole, File!AddRole, Store!AddRole,
         Memory!DropRole, File!DropRole, Store!DropRole,
         Memory!MoveRole, File!MoveRole, Store!MoveRole

(* Types and integrity, as a predicate on the data. *)
Good(t) ==
    /\ t \in TenantData
    /\ \A u \in User : t.assigned[u] \subseteq t.roles
    /\ \A r \in Role \ t.roles : t.perm[r] = NoPerms /\ t.ids[r] = NoIds

LEMMA GoodStores ==
    /\ Good(mem) <=> mem \in TenantData /\ Memory!Integrity
    /\ Good(disk) <=> disk \in TenantData /\ File!Integrity
    /\ Good(mem) <=> Store!Inv
    /\ Good(mem)' <=> mem' \in TenantData /\ Memory!Integrity'
    /\ Good(disk)' <=> disk' \in TenantData /\ File!Integrity'
    /\ Good(mem)' <=> Store!Inv'
    /\ Good(mem)' <=> Good(mem')
    /\ Good(disk)' <=> Good(disk')
  BY SameValues DEF Good, Memory!Integrity, File!Integrity,
         Store!Inv, Store!TypeOK, Store!Integrity

(* A method's call is one of the calls StoreInv is about. *)
LEMMA CallKeepsGood ==
    ASSUME Good(mem), Memory!Call("saved")
    PROVE  Good(mem)'
<1>1. Memory!RoleCall("saved") => Store!RoleCall("saved")
  BY SameChanges
     DEF Memory!RoleCall, Store!RoleCall, Memory!CreateRole, Store!CreateRole,
         Memory!EnsureRole, Store!EnsureRole, Memory!DeleteRole, Store!DeleteRole,
         Memory!RenameRole, Store!RenameRole, Memory!Saved, Store!Saved,
         Memory!Noop, Memory!NotFound, Memory!Conflict
<1>2. Memory!AssignmentCall("saved") => Store!AssignmentCall("saved")
  BY DEF Memory!AssignmentCall, Store!AssignmentCall, Memory!AssignRole, Store!AssignRole,
         Memory!UnassignRole, Store!UnassignRole, Memory!Saved, Store!Saved,
         Memory!Noop, Memory!NotFound
<1>3. Memory!PermissionCall("saved") => Store!PermissionCall("saved")
  <2>1. ASSUME NEW s, NEW o, NEW g
        PROVE  /\ Memory!SetPermission(s, o, g, "saved") => Store!SetPermission(s, o, g, "saved")
               /\ Memory!AddRestrictedIDs(s, o, g, "saved") =>
                     Store!AddRestrictedIDs(s, o, g, "saved")
               /\ Memory!RemoveRestrictedIDs(s, o, g, "saved") =>
                     Store!RemoveRestrictedIDs(s, o, g, "saved")
    BY DEF Memory!SetPermission, Store!SetPermission, Memory!AddRestrictedIDs,
           Store!AddRestrictedIDs, Memory!RemoveRestrictedIDs, Store!RemoveRestrictedIDs,
           Memory!Known, Store!Known, Memory!Saved, Store!Saved, Memory!NotFound
  <2>2. ASSUME NEW s, NEW o
        PROVE  Memory!RemovePermission(s, o, "saved") => Store!RemovePermission(s, o, "saved")
    BY SameValues
       DEF Memory!RemovePermission, Store!RemovePermission,
           Memory!Known, Store!Known, Memory!Saved, Store!Saved, Memory!NotFound
  <2> QED BY <2>1, <2>2, SameValues DEF Memory!PermissionCall, Store!PermissionCall
<1>4. Store!Inv /\ "saved" \in Store!Outcome
  BY GoodStores DEF Store!Outcome
<1>5. Store!Inv'
  BY <1>1, <1>2, <1>3, <1>4, SubjectsApart,
     Store!RoleCallInv, Store!AssignmentCallInv, Store!PermissionCallInv DEF Memory!Call
<1> QED BY <1>5, GoodStores

-----------------------------------------------------------------------------
(* What one method makes of the data *)

RoleEffect(t, n) ==
    \/ \E r \in Role \ t.roles : n = Memory!AddRole(t, r)
    \/ \E r \in Role \cap t.roles : n = Memory!DropRole(t, r)
    \/ \E a \in Role \cap t.roles, b \in Role \ t.roles : n = Memory!MoveRole(t, a, b)

AssignmentEffect(t, n) ==
    \E u \in User, r \in Role \cap t.roles :
        \/ r \notin t.assigned[u] /\ n = [t EXCEPT !.assigned[u] = @ \cup {r}]
        \/ r \in t.assigned[u] /\ n = [t EXCEPT !.assigned[u] = @ \ {r}]

PermissionSet(t, n, s, o, scope) == n = [t EXCEPT !.perm[s][o] = scope]
PermissionRemoved(t, n, s, o) ==
    t.perm[s][o] # Unset /\ n = [t EXCEPT !.perm[s][o] = Unset, !.ids[s][o] = {}]
IDsAdded(t, n, s, o, some) == n = [t EXCEPT !.ids[s][o] = @ \cup some]
IDsRemoved(t, n, s, o, some) == n = [t EXCEPT !.ids[s][o] = @ \ some]

PermissionEffect(t, n) ==
    \E s \in Subject, o \in Operation :
        /\ s \in User \/ s \in t.roles
        /\ \/ \E scope \in Scope : PermissionSet(t, n, s, o, scope)
           \/ PermissionRemoved(t, n, s, o)
           \/ \E some \in SUBSET RecordId :
                 IDsAdded(t, n, s, o, some) \/ IDsRemoved(t, n, s, o, some)

Effect(t, n) == RoleEffect(t, n) \/ AssignmentEffect(t, n) \/ PermissionEffect(t, n)

LEMMA CallHasEffect ==
    ASSUME Memory!Call("saved")
    PROVE  Effect(mem, mem')
<1>1. Memory!RoleCall("saved") => RoleEffect(mem, mem')
  BY DEF Memory!RoleCall, Memory!CreateRole, Memory!EnsureRole, Memory!DeleteRole,
         Memory!RenameRole, Memory!Saved, Memory!Noop, Memory!NotFound, Memory!Conflict,
         RoleEffect
<1>2. Memory!AssignmentCall("saved") => AssignmentEffect(mem, mem')
  BY DEF Memory!AssignmentCall, Memory!AssignRole, Memory!UnassignRole,
         Memory!Saved, Memory!Noop, Memory!NotFound, AssignmentEffect
<1>3. Memory!PermissionCall("saved") => PermissionEffect(mem, mem')
  <2>1. ASSUME NEW s, NEW o, NEW g
        PROVE  /\ Memory!SetPermission(s, o, g, "saved") =>
                     Memory!Known(s) /\ PermissionSet(mem, mem', s, o, g)
               /\ Memory!AddRestrictedIDs(s, o, g, "saved") =>
                     Memory!Known(s) /\ IDsAdded(mem, mem', s, o, g)
               /\ Memory!RemoveRestrictedIDs(s, o, g, "saved") =>
                     Memory!Known(s) /\ IDsRemoved(mem, mem', s, o, g)
    BY DEF Memory!SetPermission, Memory!AddRestrictedIDs, Memory!RemoveRestrictedIDs,
           Memory!Saved, Memory!NotFound, PermissionSet, IDsAdded, IDsRemoved
  <2>2. ASSUME NEW s, NEW o
        PROVE  Memory!RemovePermission(s, o, "saved") =>
                  Memory!Known(s) /\ PermissionRemoved(mem, mem', s, o)
    BY SameValues DEF Memory!RemovePermission, Memory!Saved, Memory!NotFound, PermissionRemoved
  <2> QED BY <2>1, <2>2, SameValues DEF Memory!PermissionCall, Memory!Known, PermissionEffect
<1> QED BY <1>1, <1>2, <1>3 DEF Memory!Call, Effect

LEMMA EffectIsCall ==
    ASSUME Effect(disk, disk')
    PROVE  File!Next
<1>1. RoleEffect(disk, disk') => File!RoleCall("saved")
  BY SameChanges
     DEF File!RoleCall, File!CreateRole, File!DeleteRole, File!RenameRole, File!Saved, RoleEffect
<1>2. AssignmentEffect(disk, disk') => File!AssignmentCall("saved")
  BY DEF File!AssignmentCall, File!AssignRole, File!UnassignRole, File!Saved, AssignmentEffect
<1>3. PermissionEffect(disk, disk') => File!PermissionCall("saved")
  <2>1. ASSUME NEW s, NEW o, NEW g, File!Known(s)
        PROVE  /\ PermissionSet(disk, disk', s, o, g) => File!SetPermission(s, o, g, "saved")
               /\ IDsAdded(disk, disk', s, o, g) => File!AddRestrictedIDs(s, o, g, "saved")
               /\ IDsRemoved(disk, disk', s, o, g) => File!RemoveRestrictedIDs(s, o, g, "saved")
    BY <2>1 DEF File!SetPermission, File!AddRestrictedIDs, File!RemoveRestrictedIDs,
           File!Saved, PermissionSet, IDsAdded, IDsRemoved
  <2>2. ASSUME NEW s, NEW o, File!Known(s)
        PROVE  PermissionRemoved(disk, disk', s, o) => File!RemovePermission(s, o, "saved")
    BY <2>2, SameValues DEF File!RemovePermission, File!Saved, PermissionRemoved
  <2> QED BY <2>1, <2>2, SameValues DEF File!PermissionCall, File!Known, PermissionEffect
<1> QED BY <1>1, <1>2, <1>3 DEF Effect, File!Call, File!Next, File!Outcome

-----------------------------------------------------------------------------
(* The inductive invariant *)

(* Between a change and its save the file is one method behind. *)
OneBehind == phase = "changed" /\ ~unsaved => Effect(disk, mem)

(* What was told is so in t. *)
TrueOf(news, t) == news.there \subseteq Facts(t) /\ news.gone \cap Facts(t) = {}

IInv ==
    /\ Consistent
    /\ TrueOf(told, disk) /\ TrueOf(told, mem)
    /\ TrueOf(doubted, mem) /\ TrueOf(change, mem)
    /\ OneBehind

Flags ==
    /\ phase \in {"idle", "changed", "written"} /\ unsaved \in BOOLEAN
    /\ change \in News /\ told \in News /\ doubted \in News

(* Consistent says the same in terms of Good. *)
LEMMA ConsistentIsGood ==
    /\ Consistent <=> /\ Good(mem) /\ Good(disk) /\ Flags
                      /\ (phase = "written" \/ (phase = "idle" /\ ~unsaved) => mem = disk)
    /\ Consistent' <=> /\ Good(mem)' /\ Good(disk)' /\ Flags'
                       /\ (phase' = "written" \/ (phase' = "idle" /\ ~unsaved') => mem' = disk')
  BY GoodStores DEF Consistent, TypeOK, Flags

LEMMA FactsOfGood == \A t : Good(t) => Facts(t) \subseteq Fact
<1> SUFFICES ASSUME NEW t, Good(t) PROVE Facts(t) \subseteq Fact
  OBVIOUS
<1>1. t.roles \subseteq Role
  BY DEF Good, TenantData
<1> QED BY <1>1 DEF Facts, Fact

(* How what is told adds up. *)
LEMMA NewsAddUp ==
    ASSUME NEW a \in News, NEW b \in News, NEW t
    PROVE  /\ NoNews \in News /\ And(a, b) \in News /\ Superseded(a, b) \in News
           /\ TrueOf(NoNews, t)
           /\ TrueOf(a, t) /\ TrueOf(b, t) => TrueOf(And(a, b), t)
           /\ TrueOf(a, t) => TrueOf(Superseded(a, b), t)
  BY DEF News, NoNews, And, Superseded, TrueOf

(* What a change makes of the facts. *)
LEMMA ChangesAreNews ==
    ASSUME NEW old, NEW new, Good(old), Good(new)
    PROVE  /\ Changed(old, new) \in News
           /\ TrueOf(Changed(old, new), new)
           /\ \A a \in News : TrueOf(a, old) => TrueOf(Superseded(a, Changed(old, new)), new)
<1>1. Facts(old) \subseteq Fact /\ Facts(new) \subseteq Fact
  BY FactsOfGood
<1>2. Changed(old, new) \in News
  BY <1>1 DEF Changed, News
<1>3. TrueOf(Changed(old, new), new)
  BY DEF Changed, TrueOf
<1>4. ASSUME NEW a \in News, TrueOf(a, old)
      PROVE  TrueOf(Superseded(a, Changed(old, new)), new)
  BY <1>4 DEF Changed, Superseded, TrueOf
<1> QED BY <1>2, <1>3, <1>4

LEMMA InitIInv == Init => IInv
<1> SUFFICES ASSUME Init PROVE IInv
  OBVIOUS
<1>1. Good(EmptyTenant)
  <2>1. Store!Good(Store!EmptyTenant)
    BY SubjectsApart, Store!EmptyTenantIsGood
  <2>2. Store!EmptyTenant = EmptyTenant
    BY SameValues DEF Store!EmptyTenant, EmptyTenant
  <2> QED BY <2>1, <2>2, SameValues DEF Store!Good, Good
<1>2. Flags
  BY DEF Init, Flags, NoNews, News
<1>3. \A t : TrueOf(NoNews, t)
  BY DEF NoNews, TrueOf
<1> QED BY <1>1, <1>2, <1>3, ConsistentIsGood DEF Init, IInv, OneBehind

LEMMA MutateIInv == IInv /\ Mutate => IInv'
<1> SUFFICES ASSUME IInv, Mutate PROVE IInv'
  OBVIOUS
<1>1. /\ Good(mem) /\ Good(disk) /\ Flags /\ (~unsaved => mem = disk)
      /\ Memory!Call("saved") /\ phase' = "changed" /\ UNCHANGED <<disk, unsaved>>
      /\ change' = Changed(mem, mem')
      /\ told' = Superseded(told, change') /\ doubted' = Superseded(doubted, change')
  BY ConsistentIsGood DEF IInv, Mutate
<1>2. Good(mem)' /\ Good(disk)' /\ Good(mem')
  BY <1>1, CallKeepsGood, GoodStores
<1>3. OneBehind'
  BY <1>1, CallHasEffect DEF OneBehind
<1>4. change' \in News /\ TrueOf(change', mem')
  BY <1>1, <1>2, ChangesAreNews
<1>5. TrueOf(told', mem') /\ TrueOf(doubted', mem')
  BY <1>1, <1>2, ChangesAreNews DEF IInv, Flags
<1>6. Flags' /\ TrueOf(told', disk')
  BY <1>1, <1>4, NewsAddUp DEF Flags, IInv
<1> QED BY <1>1, <1>2, <1>3, <1>4, <1>5, <1>6, ConsistentIsGood DEF IInv

(* The file takes over what is true of the memory, what had been answered  *)
(* out of it included.                                                     *)
LEMMA WriteIInv == IInv /\ Write => IInv'
<1> SUFFICES ASSUME IInv, Write PROVE IInv'
  OBVIOUS
<1>1. Good(mem) /\ Good(disk) /\ Flags
  BY ConsistentIsGood DEF IInv
<1>2. Good(mem)' /\ Good(disk)' /\ mem' = mem /\ disk' = mem
  BY <1>1, GoodStores DEF Write
<1>3. Flags' /\ TrueOf(told', mem) /\ TrueOf(doubted', mem) /\ TrueOf(change', mem)
  BY <1>1, NewsAddUp DEF Write, IInv, Flags
<1> QED BY <1>2, <1>3, ConsistentIsGood DEF Write, IInv, OneBehind

(* The caller is told of what the file holds by then. *)
LEMMA AnswerIInv == IInv /\ Answer => IInv'
<1> SUFFICES ASSUME IInv, Answer PROVE IInv'
  OBVIOUS
<1>1. /\ Good(mem) /\ Good(disk) /\ Flags
      /\ UNCHANGED <<mem, disk, doubted, unsaved>> /\ phase' = "idle"
      /\ change' = NoNews /\ told' = And(told, change)
  BY ConsistentIsGood DEF IInv, Answer
<1>2. mem = disk
  BY ConsistentIsGood DEF IInv, Answer
<1>3. TrueOf(change, disk)
  BY <1>2 DEF IInv
<1>4. Good(mem)' /\ Good(disk)'
  BY <1>1, GoodStores
<1>5. Flags' /\ TrueOf(told', mem) /\ TrueOf(told', disk) /\ TrueOf(change', mem)
  BY <1>1, <1>3, NewsAddUp DEF IInv, Flags
<1> QED BY <1>1, <1>2, <1>4, <1>5, ConsistentIsGood DEF IInv, OneBehind

LEMMA SaveFailsIInv == IInv /\ SaveFails => IInv'
<1> SUFFICES ASSUME IInv, SaveFails PROVE IInv'
  OBVIOUS
<1>1. /\ Good(mem) /\ Good(disk) /\ Flags
      /\ UNCHANGED <<mem, disk, told, doubted>> /\ phase' = "idle"
      /\ change' = NoNews /\ unsaved' = TRUE
  BY ConsistentIsGood DEF IInv, SaveFails
<1>2. Good(mem)' /\ Good(disk)'
  BY <1>1, GoodStores
<1>3. Flags' /\ TrueOf(change', mem)
  BY <1>1, NewsAddUp DEF Flags
<1> QED BY <1>1, <1>2, <1>3, ConsistentIsGood DEF IInv, OneBehind

(* An answer given without a save is true of the memory, and of the file   *)
(* as well unless a save has failed.                                       *)
LEMMA TellIInv ==
    ASSUME IInv, UNCHANGED mem, NEW news \in News, TrueOf(news, mem), Tell(news)
    PROVE  IInv'
<1>1. /\ Good(mem) /\ Good(disk) /\ Flags /\ (~unsaved => mem = disk)
      /\ UNCHANGED <<mem, disk, phase, change, unsaved>> /\ phase = "idle"
      /\ told' = (IF unsaved THEN told ELSE And(told, news))
      /\ doubted' = (IF unsaved THEN And(doubted, news) ELSE doubted)
  BY ConsistentIsGood DEF IInv, Tell
<1>2. Good(mem)' /\ Good(disk)'
  BY <1>1, GoodStores
<1>3. Flags'
  BY <1>1, NewsAddUp DEF Flags
<1>4. TrueOf(told', mem) /\ TrueOf(told', disk) /\ TrueOf(doubted', mem)
  BY <1>1, NewsAddUp DEF IInv, Flags
<1> QED BY <1>1, <1>2, <1>3, <1>4, ConsistentIsGood DEF IInv, OneBehind

LEMMA AnswersIInv ==
    ASSUME IInv, NEW r \in Role,
           \/ AnswerRole(r) \/ AnswerNoRole(r)
           \/ \E u \in User : AnswerAssigned(u, r) \/ AnswerUnassigned(u, r)
    PROVE  IInv'
<1>1. Good(mem)
  BY ConsistentIsGood DEF IInv
<1>2. CASE AnswerRole(r)
  <2>1. UNCHANGED mem /\ r \in mem.roles
    BY <1>2 DEF AnswerRole, Memory!EnsureRole, Memory!Noop, Memory!Saved
  <2> DEFINE news == [there |-> {<<r>>}, gone |-> {}]
  <2>2. news \in News /\ TrueOf(news, mem) /\ Tell(news)
    BY <1>2, <2>1 DEF AnswerRole, News, Fact, TrueOf, Facts
  <2> QED BY <2>1, <2>2, TellIInv
<1>3. CASE AnswerNoRole(r)
  <2>1. UNCHANGED mem /\ r \notin mem.roles
    BY <1>3 DEF AnswerNoRole, Memory!DeleteRole, Memory!NotFound, Memory!Saved
  <2> DEFINE news == [there |-> {}, gone |-> {<<r>>}]
  <2>2. news \in News /\ TrueOf(news, mem) /\ Tell(news)
    BY <1>3, <2>1 DEF AnswerNoRole, News, Fact, TrueOf, Facts
  <2> QED BY <2>1, <2>2, TellIInv
<1>4. ASSUME NEW u \in User, AnswerAssigned(u, r)
      PROVE  IInv'
  <2>1. UNCHANGED mem /\ r \in mem.roles /\ r \in mem.assigned[u]
    BY <1>4 DEF AnswerAssigned, Memory!AssignRole, Memory!Noop, Memory!Saved, Memory!NotFound
  <2> DEFINE news == [there |-> {<<r>>, <<u, r>>}, gone |-> {}]
  <2>2. news \in News /\ TrueOf(news, mem) /\ Tell(news)
    BY <1>4, <2>1 DEF AnswerAssigned, News, Fact, TrueOf, Facts
  <2> QED BY <2>1, <2>2, TellIInv
<1>5. ASSUME NEW u \in User, AnswerUnassigned(u, r)
      PROVE  IInv'
  <2>1. UNCHANGED mem /\ r \notin mem.assigned[u]
    BY <1>1, <1>5 DEF AnswerUnassigned, Memory!UnassignRole, Memory!NotFound, Memory!Saved, Good
  <2> DEFINE news == [there |-> {}, gone |-> {<<u, r>>}]
  <2>2. news \in News /\ TrueOf(news, mem) /\ Tell(news)
    BY <1>5, <2>1 DEF AnswerUnassigned, News, Fact, TrueOf, Facts
  <2> QED BY <2>1, <2>2, TellIInv
<1> QED BY <1>2, <1>3, <1>4, <1>5

LEMMA CrashIInv == IInv /\ Crash => IInv'
<1> SUFFICES ASSUME IInv, Crash PROVE IInv'
  OBVIOUS
<1>1. Good(disk) /\ Flags /\ mem' = disk /\ disk' = disk
  BY ConsistentIsGood DEF IInv, Crash
<1>2. Good(mem)' /\ Good(disk)'
  BY <1>1, GoodStores DEF Crash
<1>3. Flags' /\ TrueOf(doubted', disk) /\ TrueOf(change', disk)
  BY <1>1, NewsAddUp DEF Crash, Flags
<1> QED BY <1>1, <1>2, <1>3, ConsistentIsGood DEF Crash, IInv, OneBehind

LEMMA IInvHolds == Spec => []IInv
<1>1. IInv /\ [Next]_vars => IInv'
  <2>1. ASSUME IInv, UNCHANGED vars PROVE IInv'
    <3>1. /\ Good(mem) /\ Good(disk) /\ Flags
          /\ (phase = "written" \/ (phase = "idle" /\ ~unsaved) => mem = disk)
      BY <2>1, ConsistentIsGood DEF IInv
    <3>2. Good(mem)' /\ Good(disk)' /\ Flags'
      BY <2>1, <3>1, GoodStores DEF vars, Flags
    <3> QED BY <2>1, <3>1, <3>2, ConsistentIsGood DEF vars, IInv, OneBehind
  <2> QED BY <2>1, MutateIInv, WriteIInv, AnswerIInv, SaveFailsIInv, AnswersIInv, CrashIInv
          DEF Next
<1> QED BY <1>1, InitIInv, PTL DEF Spec

-----------------------------------------------------------------------------
(* Neither failed saves nor crashes leave a reference to a missing role in *)
(* the file or the memory (json.go:250-265, 341-358).                      *)
THEOREM JsonConsistent == Spec => []Consistent
<1>1. IInv => Consistent
  BY DEF IInv
<1> QED BY <1>1, IInvHolds, PTL

(* What callers were told exists, out of memory that was saved or has been *)
(* since, is in the file (json.go:15-17, 38-61, 302-317, 384-388).         *)
THEOREM JsonDurable == Spec => []AckedIsDurable
<1>1. IInv => AckedIsDurable
  BY DEF IInv, TrueOf, AckedIsDurable
<1> QED BY <1>1, IInvHolds, PTL

(* What callers were told in that way is gone stays gone across crashes    *)
(* (json.go:349-359, 391-405).                                             *)
THEOREM JsonRevocationsLast == Spec => []GoneIsGone
<1>1. IInv => GoneIsGone
  BY DEF IInv, TrueOf, GoneIsGone
<1> QED BY <1>1, IInvHolds, PTL

(* Every write of the file that does not follow a failed one is the effect *)
(* of one method, whatever crashes come between (json.go:302-577).         *)
THEOREM JsonWritesAreMethods == Spec => WritesAreMethods
<1>1. ASSUME IInv, [Next]_vars
      PROVE  [~unsaved => File!Next]_disk
  <2>1. CASE Write
    <3> SUFFICES ASSUME ~unsaved PROVE File!Next
      OBVIOUS
    <3>1. Effect(disk, mem) /\ disk' = mem
      BY <1>1, <2>1 DEF IInv, OneBehind, Write
    <3> QED BY <3>1, EffectIsCall
  <2>2. CASE UNCHANGED disk
    BY <2>2
  <2> QED BY <1>1, <2>1, <2>2
          DEF Next, vars, Mutate, Answer, SaveFails, Tell, AnswerAssigned, AnswerRole,
              AnswerUnassigned, AnswerNoRole, Crash
<1> QED BY <1>1, IInvHolds, PTL DEF Spec, WritesAreMethods
=============================================================================
