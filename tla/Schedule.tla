------------------------------- MODULE Schedule -------------------------------
(***************************************************************************)
(* What a data run promises about its jobs, whatever workers, processes    *)
(* and connections are behind it.  A run is a series of cycles.  In each,  *)
(* every active job waits, then runs once its active predecessors have all *)
(* completed, then completes or fails; a job that cannot run is skipped.   *)
(*                                                                         *)
(* RunCycle implements this specification.                                 *)
(***************************************************************************)
CONSTANTS Jobs,   \* the configured data jobs
          Preds   \* [Jobs -> SUBSET Jobs]: the `predecessors` of each

VARIABLES phase,    \* [Jobs -> Phase]: where each job stands in this cycle
          stopping  \* has the run been told to stop (SIGINT or SIGTERM)?

vars == <<phase, stopping>>

Decided == {"completed", "failed", "skipped"}
Phase == {"left out", "waiting", "running"} \cup Decided

TypeOK ==
  /\ phase \in [Jobs -> Phase]
  /\ stopping \in BOOLEAN

Active == {j \in Jobs : phase[j] # "left out"}

ActivePreds(j) == Preds[j] \cap Active

AllDecided == \A j \in Active : phase[j] \in Decided

(* A cycle leaves out inactive jobs and those inside their refresh window. *)
CyclePhases == [Jobs -> {"left out", "waiting"}]

Init ==
  /\ phase \in CyclePhases
  /\ stopping = FALSE

Start(j) ==
  /\ phase[j] = "waiting"
  /\ \A p \in ActivePreds(j) : phase[p] = "completed"
  /\ phase' = [phase EXCEPT ![j] = "running"]
  /\ UNCHANGED stopping

Finish(j) ==
  /\ phase[j] = "running"
  /\ \E s \in {"completed", "failed"} : phase' = [phase EXCEPT ![j] = s]
  /\ UNCHANGED stopping

(* A job whose predecessor failed or was skipped has no data to work on. *)
Skip(j) ==
  /\ phase[j] = "waiting"
  /\ \E p \in ActivePreds(j) : phase[p] \in {"failed", "skipped"}
  /\ phase' = [phase EXCEPT ![j] = "skipped"]
  /\ UNCHANGED stopping

Stop ==
  /\ stopping' = TRUE
  /\ UNCHANGED phase

(* A run told to stop skips every job it has not started. *)
SkipRest ==
  /\ stopping
  /\ phase' = [j \in Jobs |-> IF phase[j] = "waiting" THEN "skipped" ELSE phase[j]]
  /\ UNCHANGED stopping

(* The next cycle of a --forever run.  One begins even when the signal came *)
(* in the pause between cycles, to report every job skipped.               *)
NewCycle ==
  /\ AllDecided
  /\ phase' \in CyclePhases
  /\ UNCHANGED stopping

Next ==
  \/ \E j \in Jobs : Start(j) \/ Finish(j) \/ Skip(j)
  \/ Stop
  \/ SkipRest
  \/ NewCycle

Spec == Init /\ [][Next]_vars
===============================================================================
