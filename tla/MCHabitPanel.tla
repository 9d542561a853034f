---------------------------- MODULE MCHabitPanel ----------------------------
(***************************************************************************)
(* Instances of HabitPanel for TLC.                                        *)
(***************************************************************************)
EXTENDS HabitPanel, TLC

\* Two clicks, one failure.
Clicks == [m \in Counted |-> IF m = "click" THEN 2 ELSE 1]

Symmetry == Permutations(Habits) \cup Permutations(Slots)
=============================================================================
