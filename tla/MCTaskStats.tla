---------------------------- MODULE MCTaskStats ----------------------------
(***************************************************************************)
(* Instances of TaskStats for TLC.                                         *)
(***************************************************************************)
EXTENDS TaskStats, TLC

Symmetry == Permutations(Tasks)
=============================================================================
