------------------------------ MODULE MCRunState ------------------------------
(***************************************************************************)
(* Launcher for TLC: runs of one job, of both by name, or of every job.    *)
(***************************************************************************)
EXTENDS Launcher

MCSelections == {{}, {1}, {1, 2}}
===============================================================================
