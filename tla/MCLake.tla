-------------------------------- MODULE MCLake --------------------------------
(***************************************************************************)
(* Lake for TLC: its jobs are alike.                                       *)
(***************************************************************************)
EXTENDS Lake, TLC

Symmetry == Permutations(Jobs)
===============================================================================
