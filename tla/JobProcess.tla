------------------------------ MODULE JobProcess ------------------------------
(***************************************************************************)
(* One job in a process of its own (jobs/workers.py): the job's process,   *)
(* which loads, records and then sends its outcome down a pipe that holds  *)
(* so much, and the run's _JobProcess, whose poll() reads the pipe, notices *)
(* a death or a passed deadline, and stops the process if it must.         *)
(*                                                                         *)
(* The two run side by side: every statement of poll and stop that looks   *)
(* at the job's process or its pipe is a step, and the process may send,   *)
(* die or hang between any two of them.  What the load does inside is the  *)
(* subject of other modules; here it is no more than its effect.           *)
(***************************************************************************)
EXTENDS Naturals, Sequences

CONSTANTS
  Capacity,  \* the messages the pipe holds before a sender waits
  PerPoll    \* MESSAGES_PER_POLL

ASSUME CapacityAssumption == Capacity \in Nat \ {0}
ASSUME PerPollAssumption == PerPoll \in Nat \ {0}

VARIABLES
  (* the job's process *)
  child,      \* the next thing it does, or "gone"
  ending,     \* the outcome _runDataJob returned, or "none"
  target,     \* what it has made of the target: "as it was", "partly" or "loaded"
  record,     \* of its success in the run state: "not tried", "recorded" or "not recorded"
  sigterm,    \* a SIGTERM held back until the swap is done
  pipe,       \* the messages sent and not yet read, each "log" or an outcome
  (* the run's process *)
  parent,     \* the next statement of poll or stop
  budget,     \* how many more messages this poll reads
  overdue,    \* was the deadline past at the `now` this poll was given?
  held,       \* _outcome, or "none"
  closed,     \* _closed: the reading end is closed
  why,        \* why stop was called: "late", "lingers" or "raised", or ""
  verdict,    \* what poll returned, or "none"
  (* the clock and the machine *)
  late,       \* the deadline has passed
  run         \* is the run's own process alive?

childVars == <<child, ending, target, record, sigterm>>
parentVars == <<parent, budget, overdue, held, closed, why, verdict>>
vars == <<childVars, pipe, parentVars, late, run>>

Outcomes == {"completed", "failed"}

Alive == child # "gone"
Reading == parent \in {"read", "drain"}

Init ==
  /\ child = "loading"
  /\ ending = "none"
  /\ target = "as it was"
  /\ record = "not tried"
  /\ sigterm = FALSE
  /\ pipe = <<>>
  /\ parent = "idle"
  /\ budget = 0
  /\ overdue = FALSE
  /\ held = "none"
  /\ closed = FALSE
  /\ why = ""
  /\ verdict = "none"
  /\ late = FALSE
  /\ run = "alive"

-------------------------------------------------------------------------------
(* The job's process *)

(* Log records and the rows written so far go down the pipe the outcome    *)
(* does, and wait for room in it.                                          *)
Log ==
  /\ child = "loading"
  /\ Len(pipe) < Capacity
  /\ pipe' = Append(pipe, "log")
  /\ UNCHANGED <<childVars, parentVars, late, run>>

WriteChunk ==
  /\ child = "loading"
  /\ target' = "partly"
  /\ UNCHANGED <<child, ending, record, sigterm, pipe, parentVars, late, run>>

Load ==
  /\ child = "loading"
  /\ target' = "loaded"
  /\ ending' = "completed"
  /\ child' = "recording"
  /\ UNCHANGED <<record, sigterm, pipe, parentVars, late, run>>

(* _terminationDeferred: SIGTERM waits for the end of a swap. *)
BeginSwap ==
  /\ child = "loading"
  /\ child' = "swapping"
  /\ UNCHANGED <<ending, target, record, sigterm, pipe, parentVars, late, run>>

SwapDone ==
  /\ child = "swapping"
  /\ target' = "loaded"
  /\ IF sigterm
     THEN child' = "gone" /\ UNCHANGED ending
     ELSE child' = "recording" /\ ending' = "completed"
  /\ UNCHANGED <<record, sigterm, pipe, parentVars, late, run>>

LoadFails ==
  /\ child \in {"loading", "swapping"}
  /\ IF sigterm
     THEN child' = "gone" /\ UNCHANGED ending
     ELSE child' = "sending" /\ ending' = "failed"
  /\ UNCHANGED <<target, record, sigterm, pipe, parentVars, late, run>>

SendBeforeRecording ==  \* mutant: the outcome is sent before it is recorded
  /\ child \in {"recording", "sending"}
  /\ Len(pipe) < Capacity
  /\ pipe' = Append(pipe, ending)
  /\ child' = "closing"
  /\ UNCHANGED <<ending, target, record, sigterm, parentVars, late, run>>

(* The watermark, the key's fingerprint and the run; a failure to record   *)
(* is logged, and the job has completed all the same.                      *)
Record ==
  /\ child = "recording"
  /\ record' \in {"recorded", "not recorded"}
  /\ child' = "sending"
  /\ UNCHANGED <<ending, target, sigterm, pipe, parentVars, late, run>>

SendOutcome ==
  /\ child = "sending"
  /\ Len(pipe) < Capacity
  /\ pipe' = Append(pipe, ending)
  /\ child' = "closing"
  /\ UNCHANGED <<ending, target, record, sigterm, parentVars, late, run>>

Exit ==
  /\ child = "closing"
  /\ child' = "gone"
  /\ UNCHANGED <<ending, target, record, sigterm, pipe, parentVars, late, run>>

(* Killed for memory, crashed in a driver. *)
Die ==
  /\ Alive
  /\ child' = "gone"
  /\ UNCHANGED <<ending, target, record, sigterm, pipe, parentVars, late, run>>

ExitOrphanedBetweenChunks ==  \* mutant: the load itself looks for its run
  /\ run = "killed"
  /\ child = "loading"
  /\ child' = "gone"
  /\ UNCHANGED <<ending, target, record, sigterm, pipe, parentVars, late, run>>

(* _exitWhenOrphaned: its own thread reads end-of-file once the run is dead. *)
ExitOrphaned ==
  /\ run = "killed"
  /\ Alive
  /\ child' = "gone"
  /\ UNCHANGED <<ending, target, record, sigterm, pipe, parentVars, late, run>>

-------------------------------------------------------------------------------
(* poll *)

BeginPoll ==
  /\ parent = "idle"
  /\ run = "alive"
  /\ budget' = PerPoll
  /\ overdue' = late
  /\ parent' = "read"
  /\ UNCHANGED <<childVars, pipe, held, closed, why, verdict, late, run>>

ReadMessageUnbounded ==  \* mutant: no MESSAGES_PER_POLL
  /\ Reading
  /\ run = "alive"
  /\ ~closed
  /\ pipe # <<>>
  /\ held' = IF Head(pipe) = "log" THEN held ELSE Head(pipe)
  /\ pipe' = Tail(pipe)
  /\ UNCHANGED <<childVars, parent, budget, overdue, closed, why, verdict, late, run>>

(* _read, one message of it.  _drain reads until the pipe is empty. *)
ReadMessage ==
  /\ Reading
  /\ run = "alive"
  /\ ~closed
  /\ pipe # <<>>
  /\ parent = "read" => budget > 0
  /\ held' = IF Head(pipe) = "log" THEN held ELSE Head(pipe)
  /\ pipe' = Tail(pipe)
  /\ budget' = IF parent = "read" THEN budget - 1 ELSE budget
  /\ UNCHANGED <<childVars, parent, overdue, closed, why, verdict, late, run>>

(* Only the job's process holds the sending end, so its death is the pipe's *)
(* end-of-file.                                                            *)
ReadEnd ==
  /\ parent = "read"
  /\ run = "alive"
  /\ ~closed
  /\ pipe = <<>> /\ ~Alive
  /\ budget > 0
  /\ closed' = TRUE
  /\ parent' = "decide"
  /\ UNCHANGED <<childVars, pipe, budget, overdue, held, why, verdict, late, run>>

ReadDone ==
  /\ parent = "read"
  /\ run = "alive"
  /\ closed \/ budget = 0 \/ (pipe = <<>> /\ Alive)
  /\ parent' = "decide"
  /\ UNCHANGED <<childVars, pipe, budget, overdue, held, closed, why, verdict, late, run>>

Decide ==
  /\ parent = "decide"
  /\ run = "alive"
  /\ parent' = IF held # "none" THEN "join" ELSE "alive?"
  /\ UNCHANGED <<childVars, pipe, budget, overdue, held, closed, why, verdict, late, run>>

(* The outcome is in: the process has EXIT_GRACE_SECONDS to exit. *)
Joined ==
  /\ parent = "join"
  /\ run = "alive"
  /\ ~Alive
  /\ parent' = "drain"
  /\ UNCHANGED <<childVars, pipe, budget, overdue, held, closed, why, verdict, late, run>>

Lingers ==
  /\ parent = "join"
  /\ run = "alive"
  /\ Alive
  /\ parent' = "terminate"
  /\ why' = "lingers"
  /\ UNCHANGED <<childVars, pipe, budget, overdue, held, closed, verdict, late, run>>

LooksDeadUndrained ==  \* mutant: dead is dead, whatever the pipe still holds
  /\ parent = "alive?"
  /\ run = "alive"
  /\ ~Alive
  /\ closed' = TRUE
  /\ verdict' = "failed"
  /\ parent' = "over"
  /\ UNCHANGED <<childVars, pipe, budget, overdue, held, why, late, run>>

LooksDead ==
  /\ parent = "alive?"
  /\ run = "alive"
  /\ ~Alive
  /\ parent' = "drain"
  /\ UNCHANGED <<childVars, pipe, budget, overdue, held, closed, why, verdict, late, run>>

LooksAlive ==
  /\ parent = "alive?"
  /\ run = "alive"
  /\ Alive
  /\ parent' = "deadline?"
  /\ UNCHANGED <<childVars, pipe, budget, overdue, held, closed, why, verdict, late, run>>

IsLateOnceSilent ==  \* mutant: a job that sent nothing this poll is late
  /\ parent = "deadline?"
  /\ run = "alive"
  /\ overdue \/ budget = PerPoll
  /\ parent' = "terminate"
  /\ why' = "late"
  /\ UNCHANGED <<childVars, pipe, budget, overdue, held, closed, verdict, late, run>>

IsLate ==
  /\ parent = "deadline?"
  /\ run = "alive"
  /\ overdue
  /\ parent' = "terminate"
  /\ why' = "late"
  /\ UNCHANGED <<childVars, pipe, budget, overdue, held, closed, verdict, late, run>>

StillRunning ==
  /\ parent = "deadline?"
  /\ run = "alive"
  /\ ~overdue
  /\ parent' = "idle"
  /\ UNCHANGED <<childVars, pipe, budget, overdue, held, closed, why, verdict, late, run>>

(* _drain has emptied the pipe of an exited process: its outcome, if that  *)
(* came out of it, or the report of its death.                             *)
Drained ==
  /\ parent = "drain"
  /\ run = "alive"
  /\ closed \/ pipe = <<>>
  /\ closed' = TRUE
  /\ verdict' = IF held # "none" THEN held ELSE "failed"
  /\ parent' = "over"
  /\ UNCHANGED <<childVars, pipe, budget, overdue, held, why, late, run>>

-------------------------------------------------------------------------------
(* stop *)

(* The loop's `finally`, when something in it raised. *)
StopForRaise ==
  /\ parent = "idle"
  /\ run = "alive"
  /\ why' = "raised"
  /\ parent' = "terminate"
  /\ UNCHANGED <<childVars, pipe, budget, overdue, held, closed, verdict, late, run>>

(* SIGTERM ends a process at once, but for one in the middle of a swap. *)
Terminate ==
  /\ parent = "terminate"
  /\ run = "alive"
  /\ IF child = "swapping"
     THEN sigterm' = TRUE /\ UNCHANGED child
     ELSE child' = "gone" /\ UNCHANGED sigterm
  /\ parent' = "grace"
  /\ UNCHANGED <<ending, target, record, pipe, budget, overdue, held, closed, why, verdict, late, run>>

(* What follows stop(), with the pipes released. *)
Stopped ==
  /\ closed' = TRUE
  /\ verdict' = CASE why = "late" -> "failed" [] why = "lingers" -> held [] OTHER -> verdict
  /\ parent' = IF why = "raised" THEN "stopped" ELSE "over"

TerminatedInTime ==
  /\ parent = "grace"
  /\ run = "alive"
  /\ ~Alive
  /\ Stopped
  /\ UNCHANGED <<childVars, pipe, budget, overdue, held, why, late, run>>

GivenUp ==  \* mutant: no SIGKILL after the grace period
  /\ parent = "grace"
  /\ run = "alive"
  /\ Alive
  /\ Stopped
  /\ UNCHANGED <<childVars, pipe, budget, overdue, held, why, late, run>>

(* TERMINATE_GRACE_SECONDS are over: SIGKILL, and the exit waited for. *)
Kill ==
  /\ parent = "grace"
  /\ run = "alive"
  /\ Alive
  /\ child' = "gone"
  /\ Stopped
  /\ UNCHANGED <<ending, target, record, sigterm, pipe, budget, overdue, held, why, late, run>>

-------------------------------------------------------------------------------
(* The clock, and the death of the run *)

DeadlinePasses ==
  /\ ~late
  /\ parent \notin {"over", "stopped"}
  /\ late' = TRUE
  /\ UNCHANGED <<childVars, pipe, parentVars, run>>

RunIsKilled ==
  /\ run = "alive"
  /\ run' = "killed"
  /\ UNCHANGED <<childVars, pipe, parentVars, late>>

ChildStep ==
  \/ Log \/ WriteChunk \/ Load \/ BeginSwap \/ SwapDone \/ LoadFails
  \/ Record \/ SendOutcome \/ Exit \/ Die

PollStep ==
  \/ BeginPoll \/ ReadMessage \/ ReadEnd \/ ReadDone \/ Decide
  \/ Joined \/ Lingers \/ LooksDead \/ LooksAlive \/ IsLate \/ StillRunning \/ Drained
  \/ Terminate \/ TerminatedInTime \/ Kill

Next ==
  \/ ChildStep \/ ExitOrphaned
  \/ PollStep \/ StopForRaise
  \/ DeadlinePasses \/ RunIsKilled

Spec == Init /\ [][Next]_vars

(* The loop goes on polling, the clock goes on, and the operating system   *)
(* closes a dead run's pipes.  Nothing is assumed of the job's process: it *)
(* may hang wherever it is, or log for ever.                               *)
Fairness ==
  /\ WF_vars(PollStep)
  /\ WF_vars(DeadlinePasses)
  /\ WF_vars(ExitOrphaned)

FairSpec == Spec /\ Fairness

-------------------------------------------------------------------------------
(* Properties *)

Reported == parent \in {"over", "stopped"}

(* An outcome the job's process has sent is the one reported, and no log   *)
(* record is left unread, however soon after sending it the process died:  *)
(* except by a process that had to be stopped.                             *)
NothingSentIsLost ==
  parent = "over" /\ why = "" =>
    /\ pipe = <<>>
    /\ held # "none" => verdict = held

(* Completion is reported of a load that is committed and whose record was *)
(* tried, and nothing is recorded of a load that is not.  (The reverse     *)
(* does not hold: a job found past its deadline, or whose process died,    *)
(* may have recorded its success just before it is reported failed.)       *)
CompletionFollowsRecord ==
  /\ verdict = "completed" => target = "loaded" /\ record # "not tried"
  /\ record = "recorded" => target = "loaded"

(* Once a job is reported, or stopped as the loop raised, it writes no row *)
(* and records nothing more: its dependents start on what it left.         *)
SilentOnceReported ==
  [][Reported => UNCHANGED <<target, record, pipe>>]_vars

(* The loop's picture of a job's process (see JobSlot): its outcome, its   *)
(* death or its lateness is reported, once.                                *)
SentOutcomes == {o \in Outcomes : o = held \/ \E i \in 1..Len(pipe) : pipe[i] = o}

Slot == INSTANCE JobSlot WITH
          proc <- IF Reported THEN "gone"
                  ELSE IF "completed" \in SentOutcomes THEN "sent completed"
                  ELSE IF "failed" \in SentOutcomes THEN "sent failed"
                  ELSE IF ~Alive THEN "died"
                  ELSE "working"

IsJobSlot == Slot!Spec

(* A job with a timeout is reported in the end, even if it hangs, floods   *)
(* the pipe or ignores SIGTERM in a swap that never ends.                  *)
IsReported == <>(Reported \/ run = "killed")

(* A job whose run was killed ends too.                                    *)
OrphanEnds == run = "killed" ~> ~Alive
===============================================================================
