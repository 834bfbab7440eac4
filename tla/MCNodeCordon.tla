---------------------------- MODULE MCNodeCordon ----------------------------
(***************************************************************************)
(* NodeCordon, and with it DrainLease, for TLC: the runs are               *)
(* interchangeable.                                                        *)
(***************************************************************************)
EXTENDS NodeCordon, TLC

RunSymmetry == Permutations(Runs)
=============================================================================
