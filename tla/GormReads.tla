----------------------------- MODULE GormReads ------------------------------
(***************************************************************************)
(* The methods of the SQL tenant store that read roles (gorm.go:353-588).  *)
(* Each is two SELECTs without a transaction: the first finds rows of a    *)
(* user or by the roles' names, the second what the answer is made of, by  *)
(* the ids of those rows.  Between the two the other handlers' statements  *)
(* run, so an answer need not be that of any one moment; the properties    *)
(* say what it is all the same.                                            *)
(*                                                                         *)
(* RolePermissions and HasRolePermission (gorm.go:406-431) are the reads   *)
(* of "grants" of a single role.  The methods that read a user's own       *)
(* permissions and ids, and ListRoles, are one SELECT.                     *)
(***************************************************************************)
EXTENDS GormTenant

VARIABLE
    read        \* the reading method that is between its two SELECTs

readVars == <<db, lastId, call, raced, read>>

Method ==
    [what : {"user_roles"}, sub : User]
      \cup [what : {"grants"}, roles : (SUBSET Role) \ {{}}]
      \cup [what : {"ids"}, roles : (SUBSET Role) \ {{}}, operation : Operation]

NoRead == [method |-> "none"]

-----------------------------------------------------------------------------
(* The two SELECTs *)

(* The rows the first SELECT finds, with the names they have then. *)
Rows(m, d) ==
    IF m.what = "user_roles"
    THEN d.assigned[m.sub]
    ELSE {i \in Live(d) : d.name[i] \in m.roles}

FirstSelect(m, d) == [i \in Rows(m, d) |-> d.name[i]]

(* A slip of the next definition: the names, too, are read anew. *)
EntriesByNewName(m, d, i, r) ==
    CASE m.what = "user_roles" -> {d.name[i]} \ {NoRole}
      [] m.what = "grants" ->
            {<<d.name[i], o, d.perm[i][o]>> : o \in {p \in Operation : d.perm[i][p] # Unset}}
      [] m.what = "ids" -> {<<d.name[i], x>> : x \in d.ids[i][m.operation]}

(* What tables d tell of row i that was found under the name r: UserRoles  *)
(* reads the name anew, the others what belongs to the row.                *)
Entries(m, d, i, r) ==
    CASE m.what = "user_roles" -> {d.name[i]} \ {NoRole}
      [] m.what = "grants" ->
            {<<r, o, d.perm[i][o]>> : o \in {p \in Operation : d.perm[i][p] # Unset}}
      [] m.what = "ids" -> {<<r, x>> : x \in d.ids[i][m.operation]}

(* A slip of the next definition: First instead of Find, one row only. *)
AnswerOfOne(found, m, d) ==
    IF DOMAIN found = {} THEN {}
    ELSE LET i == CHOOSE j \in DOMAIN found : TRUE IN Entries(m, d, i, found[i])

(* The answer when the second SELECT is made on tables d.  The ids come    *)
(* with their role here, which RoleRestrictedIDs leaves out in the end.    *)
Answer(found, m, d) == UNION {Entries(m, d, i, found[i]) : i \in DOMAIN found}

(* What the answer would be made of in a single look at the tables. *)
AtOneLook(m, d) ==
    CASE m.what = "user_roles" -> UserRoles(d, m.sub)
      [] m.what = "grants" ->
            {f \in m.roles \X Operation \X Scope : Permissions(d, f[1])[f[2]] = f[3]}
      [] m.what = "ids" ->
            {f \in m.roles \X RecordId : f[2] \in RestrictedIDs(d, f[1])[m.operation]}

(* Without any assignment UserRoles answers at once. *)
Begin(m) ==
    /\ read = NoRead
    /\ m.what = "user_roles" => Rows(m, db) # {}
    /\ read' = [method  |-> m,
                found   |-> FirstSelect(m, db),
                first   |-> AtOneLook(m, db),   \* history: the answer at the first SELECT
                kept    |-> AtOneLook(m, db),   \* history: what was true ever since
                changes |-> 0,                  \* history: since then, 2 standing for more
                renamed |-> FALSE,              \* history: a role was, since then
                deleted |-> FALSE]
    /\ UNCHANGED vars

End ==
    /\ read # NoRead
    /\ read' = NoRead
    /\ UNCHANGED vars

(* Other handlers' statements, and what the histories note of them. *)
Noted ==
    [read EXCEPT !.kept = @ \cap AtOneLook(read.method, db'),
                 !.changes = IF @ = 0 THEN 1 ELSE 2,
                 !.renamed = @ \/ \E i \in Live(db) \cap Live(db') : db'.name[i] # db.name[i],
                 !.deleted = @ \/ ~(Live(db) \subseteq Live(db'))]

Other ==
    /\ Next
    /\ read' = IF read = NoRead \/ db' = db THEN read ELSE Noted

ReadNext ==
    \/ \E m \in Method : Begin(m)
    \/ End
    \/ Other

ReadInit == Init /\ read = NoRead

ReadSpec == ReadInit /\ [][ReadNext]_readVars

-----------------------------------------------------------------------------
(* Whenever the second SELECT comes: *)
Now == AtOneLook(read.method, db)
Answered == Answer(read.found, read.method, db)

(* With one change between the SELECTs, of any kind, the answer is that of *)
(* the whole store before the change or after it (gorm.go:353-588).        *)
OneChangeIsBeforeOrAfter ==
    read # NoRead /\ read.changes < 2 => Answered \in {read.first, Now}

(* However many changes there are, what was true all along is answered: a  *)
(* role the user held under the same name, a role's scope, an id of a role *)
(* (gorm.go:353-374, 502-527, 561-588).                                    *)
KeptIsAnswered == read # NoRead => read.kept \subseteq Answered

(* Unless a role was renamed, UserRoles answers only roles the user held   *)
(* at the first SELECT, even if some were deleted and others created since *)
(* (gorm.go:353-374); unless one was renamed or deleted, RoleGrants and    *)
(* RoleRestrictedIDs answer only what the roles have at the second         *)
(* (gorm.go:502-527, 561-588).                                             *)
NothingIsMadeUp ==
    read # NoRead /\ ~read.renamed =>
        /\ read.method.what = "user_roles" => Answered \subseteq read.first
        /\ read.method.what # "user_roles" /\ ~read.deleted => Answered \subseteq Now

=============================================================================
