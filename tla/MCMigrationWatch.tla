-------------------------- MODULE MCMigrationWatch --------------------------
(***************************************************************************)
(* MigrationWatch for TLC: two migrations of two VMIs from one node, one   *)
(* of them with its source as an annotation.                               *)
(***************************************************************************)
EXTENDS MigrationWatch

Names   == <<"first", "second">>
VMIs    == <<"vm", "other">>
Sources == <<"node", "node">>
=============================================================================
