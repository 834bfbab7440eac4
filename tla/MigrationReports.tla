-------------------------- MODULE MigrationReports --------------------------
(***************************************************************************)
(* What `kvdrain watch` promises of each migration object: the states it   *)
(* reports are states the migration has been in, in the order in which it  *)
(* was in them, and the end of a migration is reported once.  States may   *)
(* be skipped.                                                             *)
(***************************************************************************)
EXTENDS Naturals

CONSTANT Migrations  \* migration objects, by UID
VARIABLES
  object,  \* what the API server has, or last had, of each migration
  told     \* what was last reported of it

Going == {"pending", "running"}
Ended == {"succeeded", "failed"}
Objects == [phase : {"none"} \cup Going \cup Ended, known : BOOLEAN, exists : BOOLEAN]
Reports == {"none", "deleted"} \cup Going \cup Ended

\* The order of the phases; a migration that has ended is in its last one.
Rank == [s \in Reports |-> IF s = "none" THEN 0 ELSE IF s = "pending" THEN 1
                           ELSE IF s = "running" THEN 2 ELSE 3]

\* The migration u is or has been in the state s.
True(u, s) ==
  IF s = "deleted" THEN object[u].phase # "none" /\ ~object[u].exists
  ELSE s = object[u].phase \/ (s \in Going /\ Rank[s] < Rank[object[u].phase])

Init == object \in [Migrations -> Objects] /\ told = [u \in Migrations |-> "none"]

\* An object is created once, its phase advances, and it is removed once.
Move ==
  /\ object' \in [Migrations -> Objects]
  /\ \A u \in Migrations :
       \/ object'[u] = object[u]
       \/ object[u].exists /\ Rank[object[u].phase] < Rank[object'[u].phase]
       \/ object[u].exists /\ object'[u].phase = object[u].phase /\ ~object'[u].exists
       \/ object[u].phase = "none" /\ object'[u].phase = "pending"
  /\ UNCHANGED told

Tell ==
  /\ told' \in [Migrations -> Reports]
  /\ \A u \in Migrations :
       told'[u] # told[u] => Rank[told[u]] < Rank[told'[u]] /\ True(u, told'[u])
  /\ UNCHANGED object

Next == Move \/ Tell

Spec == Init /\ [][Next]_<<object, told>>
=============================================================================
