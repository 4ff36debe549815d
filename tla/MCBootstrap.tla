---------------------------- MODULE MCBootstrap ----------------------------
EXTENDS Bootstrap, TLC

CONSTANTS a, b, p1, admin, manager, root, john, meta, read, i1

MCResourceOf == [o \in Operation |-> p1]

(* A role with a restricted permission, and its only user. *)
Team ==
    {[do |-> "resource", resource |-> p1],
     [do |-> "tenant", tenant |-> a],
     [do |-> "role", tenant |-> a, subject |-> manager],
     [do |-> "grant", tenant |-> a, subject |-> manager, operation |-> read,
      scope |-> "RESTRICTED", ids |-> {i1}],
     [do |-> "user", tenant |-> a, subject |-> john],
     [do |-> "assign", tenant |-> a, subject |-> john, role |-> manager]}

(* Declares the role's permission again, and overrides it for the user. *)
Override ==
    {[do |-> "operation", operation |-> read],
     [do |-> "tenant", tenant |-> a],
     [do |-> "role", tenant |-> a, subject |-> manager],
     [do |-> "grant", tenant |-> a, subject |-> manager, operation |-> read,
      scope |-> "FULL", ids |-> {}],
     [do |-> "user", tenant |-> a, subject |-> john],
     [do |-> "grant", tenant |-> a, subject |-> john, operation |-> read,
      scope |-> "EMPTY", ids |-> {}]}

(* Fails at the tenant b or at the scope, whichever comes first. *)
Mistaken ==
    {[do |-> "tenant", tenant |-> b],
     [do |-> "tenant", tenant |-> a],
     [do |-> "role", tenant |-> a, subject |-> manager],
     [do |-> "grant", tenant |-> a, subject |-> manager, operation |-> read,
      scope |-> "ALL", ids |-> {}]}

(* Relies on the role that BootstrapMeta ensures when the process starts:  *)
(* a synchronization fails at it when the role has been deleted since.     *)
Deputy ==
    {[do |-> "tenant", tenant |-> a],
     [do |-> "user", tenant |-> a, subject |-> john],
     [do |-> "assign", tenant |-> a, subject |-> john, role |-> admin]}

MCFileLists ==
    {<<Team>>, <<Team, Override>>, <<Deputy>>, <<Mistaken>>, <<{Unreadable}>>}
=============================================================================
