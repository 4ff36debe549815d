----------------------------- MODULE JsonTenant -----------------------------
(***************************************************************************)
(* How the JSON store carries out a tenant method (json.go): the data in   *)
(* memory is changed under the mutex, the whole of it is written to a      *)
(* temporary file that is renamed over the store's file, and only then is  *)
(* the mutex released and the caller answered.  The process may crash at   *)
(* any point, between the rename and the answer included, and starts again *)
(* from the file.                                                          *)
(*                                                                         *)
(* The rename is one step: loadJSON reads the old file or the new one.     *)
(* A power failure that undoes a finished rename is outside the model.     *)
(***************************************************************************)
EXTENDS Sfbac

VARIABLES
    mem,        \* jsonTenant.data
    disk,       \* the file's contents
    phase,      \* of the method that holds the mutex: it has changed mem, written the file
    change,     \* what that method will have to tell its caller
    told,       \* history: what callers know, from answers given when all was saved
    doubted,    \* history: what callers were answered out of memory ahead of the file
    unsaved     \* history: the memory holds changes whose save failed

vars == <<mem, disk, phase, change, told, doubted, unsaved>>

Memory == INSTANCE TenantStore WITH tenant <- mem
File == INSTANCE TenantStore WITH tenant <- disk

(* The facts a caller is told of: a role exists, a user has a role.        *)
Fact == {<<r>> : r \in Role} \cup (User \X Role)
Facts(t) == {<<r>> : r \in t.roles} \cup {f \in User \X Role : f[2] \in t.assigned[f[1]]}

(* What callers are told: the facts that hold, and those that do not.      *)
News == [there : SUBSET Fact, gone : SUBSET Fact]
NoNews == [there |-> {}, gone |-> {}]

Changed(old, new) == [there |-> Facts(new) \ Facts(old), gone |-> Facts(old) \ Facts(new)]
And(a, b) == [there |-> a.there \cup b.there, gone |-> a.gone \cup b.gone]

(* What is still to be relied on of a, once b is under way. *)
Superseded(a, b) == [there |-> a.there \ b.gone, gone |-> a.gone \ b.there]

(* No file yet: loadJSON leaves the empty maps. *)
Init ==
    /\ mem = EmptyTenant
    /\ disk = EmptyTenant
    /\ phase = "idle"
    /\ change = NoNews /\ told = NoNews /\ doubted = NoNews
    /\ unsaved = FALSE

(* Slips of the next definition: the mutex is not taken, the answer does   *)
(* not wait for persist.                                                   *)
MutateUnlocked ==
    /\ Memory!Call("saved")
    /\ change' = Changed(mem, mem')
    /\ told' = Superseded(told, change') /\ doubted' = Superseded(doubted, change')
    /\ phase' = "changed"
    /\ UNCHANGED <<disk, unsaved>>

MutateAndAnswer ==
    /\ phase = "idle"
    /\ Memory!Call("saved")
    /\ change' = Changed(mem, mem')
    /\ told' = And(Superseded(told, change'), change')
    /\ doubted' = Superseded(doubted, change')
    /\ phase' = "changed"
    /\ UNCHANGED <<disk, unsaved>>

(* A method that changes the data, up to its call of persist.  What was    *)
(* told of the facts it changes is no longer to be relied on.              *)
Mutate ==
    /\ phase = "idle"
    /\ Memory!Call("saved")
    /\ change' = Changed(mem, mem')
    /\ told' = Superseded(told, change') /\ doubted' = Superseded(doubted, change')
    /\ phase' = "changed"
    /\ UNCHANGED <<disk, unsaved>>

(* The file is replaced, by all that is in memory; with it comes what had  *)
(* been answered out of memory.                                            *)
Write ==
    /\ phase = "changed"
    /\ disk' = mem
    /\ told' = And(told, doubted) /\ doubted' = NoNews
    /\ phase' = "written" /\ unsaved' = FALSE
    /\ UNCHANGED <<mem, change>>

(* The mutex is released, the caller gets nil. *)
Answer ==
    /\ phase = "written"
    /\ told' = And(told, change)
    /\ phase' = "idle" /\ change' = NoNews
    /\ UNCHANGED <<mem, disk, doubted, unsaved>>

(* persist fails: the caller gets the error, the change stays in memory.   *)
SaveFails ==
    /\ phase = "changed"
    /\ phase' = "idle" /\ change' = NoNews
    /\ unsaved' = TRUE
    /\ UNCHANGED <<mem, disk, told, doubted>>

(* A caller is answered without a save, of what is in memory. *)
Tell(news) ==
    /\ phase = "idle"
    /\ told' = IF unsaved THEN told ELSE And(told, news)
    /\ doubted' = IF unsaved THEN And(doubted, news) ELSE doubted
    /\ UNCHANGED <<disk, phase, change, unsaved>>

(* AssignRole and EnsureRole find nothing to do and answer nil without     *)
(* calling persist.                                                        *)
AnswerAssigned(u, r) ==
    /\ Memory!AssignRole(u, r, "noop")
    /\ Tell([there |-> {<<r>>, <<u, r>>}, gone |-> {}])

AnswerRole(r) ==
    /\ Memory!EnsureRole(r, "noop")
    /\ Tell([there |-> {<<r>>}, gone |-> {}])

(* UnassignRole and DeleteRole find nothing to take away and answer not    *)
(* found, so that the caller takes it for gone.                            *)
AnswerUnassigned(u, r) ==
    /\ Memory!UnassignRole(u, r, "not_found")
    /\ Tell([there |-> {}, gone |-> {<<u, r>>}])

AnswerNoRole(r) ==
    /\ Memory!DeleteRole(r, "not_found")
    /\ Tell([there |-> {}, gone |-> {<<r>>}])

(* The process dies and is started again (loadJSON).  Whoever was answered *)
(* out of memory ahead of the file is let down here.                       *)
Crash ==
    /\ mem' = disk
    /\ phase' = "idle" /\ change' = NoNews
    /\ doubted' = NoNews /\ unsaved' = FALSE
    /\ UNCHANGED <<disk, told>>

Next ==
    \/ Mutate
    \/ Write
    \/ Answer
    \/ SaveFails
    \/ \E u \in User, r \in Role : AnswerAssigned(u, r) \/ AnswerUnassigned(u, r)
    \/ \E r \in Role : AnswerRole(r) \/ AnswerNoRole(r)
    \/ Crash

Spec == Init /\ [][Next]_vars

-----------------------------------------------------------------------------
TypeOK ==
    /\ mem \in TenantData
    /\ disk \in TenantData
    /\ phase \in {"idle", "changed", "written"} /\ unsaved \in BOOLEAN
    /\ change \in News /\ told \in News /\ doubted \in News

(* Everything a caller was told exists is in the file, hence there after   *)
(* any restart: "rewrites the backing file atomically ... on every         *)
(* mutation" (json.go:15-17).                                              *)
NilMeansDurable == told.there \cup doubted.there \subseteq Facts(disk)

(* The answers that may be relied on across restarts are those of methods  *)
(* whose own save succeeded, those of methods that found nothing to do     *)
(* while memory was as the file, and those out of memory ahead of the file *)
(* from the next successful save on: each stays in the file until a later  *)
(* method changes the fact, through failed saves, overlapping changes and  *)
(* crashes before, after and between (json.go:38-61, 302-317, 384-388).    *)
AckedIsDurable == told.there \subseteq Facts(disk)

(* No restart brings back a role or an assignment that a caller was told   *)
(* in one of those ways is gone, whether it took it away or did not find   *)
(* it (json.go:349-359, 391-405).                                          *)
GoneIsGone == told.gone \cap Facts(disk) = {}

(* Across crashes the file goes through the very steps a tenant store      *)
(* takes: each write is the effect of one method, and no restart loses or  *)
(* repeats one.  Only the first save after a failed one writes the effect  *)
(* of several (json.go:250-265, 302-577).                                  *)
WritesAreMethods == [][~unsaved => File!Next]_disk

(* Whatever fails, the file never holds a reference to a role that is      *)
(* missing, or data left behind by one, and neither does the memory that   *)
(* ran ahead of it (json.go:341-345, 355-358).  The two are equal when a   *)
(* method is about to answer, and between methods unless a save failed.    *)
Consistent ==
    /\ TypeOK
    /\ Memory!Integrity /\ File!Integrity
    /\ phase = "written" \/ (phase = "idle" /\ ~unsaved) => mem = disk

=============================================================================
