-------------------------------- MODULE MCSwap ---------------------------------
(***************************************************************************)
(* Swap for a job of each kind, in a database whose swap is atomic and in  *)
(* Oracle.                                                                 *)
(***************************************************************************)
EXTENDS Swap

MCJobConfigs == JobConfig

OracleInPlace == {c \in JobConfig : ~c.atomic /\ c.inPlace /\ c.masked}
===============================================================================
