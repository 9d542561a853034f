---------------------------- MODULE MCTaskPanel ----------------------------
(***************************************************************************)
(* Instances of TaskPanel for TLC.                                         *)
(***************************************************************************)
EXTENDS TaskPanel, TLC

CONSTANTS t1, t2

TwoTasks == {t1, t2}

Symmetric == Permutations(Tasks)
=============================================================================
