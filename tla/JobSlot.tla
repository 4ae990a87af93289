-------------------------------- MODULE JobSlot --------------------------------
(***************************************************************************)
(* What the run loop relies on of one job's process: it works until it has *)
(* sent its outcome or has died, and the poll that finds it over reports   *)
(* it once: its own outcome, or FAILED if it died or was past its          *)
(* deadline.  RunCycle has one of these for every running job; JobProcess  *)
(* implements it.                                                          *)
(***************************************************************************)
VARIABLES proc,     \* the process: working, over one way or another, or gone
          late,     \* has its deadline passed?
          verdict   \* what poll has reported: nothing yet, or an outcome

vars == <<proc, late, verdict>>

Outcomes == {"completed", "failed"}

(* "failed" is also the outcome a job that ran sends of itself.            *)
Sent == {"sent completed", "sent failed"}

OutcomeSent(p) == IF p = "sent completed" THEN "completed" ELSE "failed"

Init ==
  /\ proc = "working"
  /\ late = FALSE
  /\ verdict = "none"

Ends ==
  /\ proc = "working"
  /\ proc' \in Sent \cup {"died"}
  /\ UNCHANGED <<late, verdict>>

DeadlinePasses ==
  /\ late' = TRUE
  /\ UNCHANGED <<proc, verdict>>

ReportOutcome ==
  /\ proc \in Sent
  /\ verdict' = OutcomeSent(proc)
  /\ proc' = "gone"
  /\ UNCHANGED late

ReportDeath ==
  /\ proc = "died"
  /\ verdict' = "failed"
  /\ proc' = "gone"
  /\ UNCHANGED late

(* An outcome sent too late to be read is lost with the process.           *)
ReportLate ==
  /\ late
  /\ proc \in {"working"} \cup Sent
  /\ verdict' = "failed"
  /\ proc' = "gone"
  /\ UNCHANGED late

(* The loop raised, and stops its processes without a verdict.             *)
Abandon ==
  /\ verdict = "none"
  /\ proc' = "gone"
  /\ UNCHANGED <<late, verdict>>

Next ==
  \/ Ends \/ DeadlinePasses
  \/ ReportOutcome \/ ReportDeath \/ ReportLate
  \/ Abandon

Spec == Init /\ [][Next]_vars
===============================================================================
