---------------------------- MODULE MCGoalRunner ----------------------------
(* Small instances of GoalRunner for TLC. *)
EXTENDS GoalRunner, TLC

CONSTANTS g1, g2

Symmetry == Permutations({g1, g2})
=============================================================================
