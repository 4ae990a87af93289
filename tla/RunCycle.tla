------------------------------- MODULE RunCycle -------------------------------
(***************************************************************************)
(* One data run: the loop of runDataJobs (jobs/runner.py) with the         *)
(* DependencyGraph it asks what may start (jobs/dependencyGraph.py) and    *)
(* one operating-system process for every running job (jobs/workers.py).   *)
(*                                                                         *)
(* The run's own process is sequential: `pc` says where it is.  Signals,   *)
(* the jobs' processes and the clock take their steps in between.  What a  *)
(* job's process does inside is JobProcess's subject; here it works, and   *)
(* then has sent an outcome or has died.                                   *)
(***************************************************************************)
EXTENDS Naturals, FiniteSets

CONSTANTS
  Jobs,       \* the configured jobs
  Preds,      \* [Jobs -> SUBSET Jobs]: their predecessors
  Aliases,    \* the connection aliases that have a limit (maxConcurrentJobs)
  Limit,      \* [Aliases -> Nat]: the places each has
  Uses,       \* [Jobs -> SUBSET Aliases]: the limited aliases a job uses
  Count,      \* [Jobs -> Nat]: partitions.count, 1 for a job without partitions
  Automatic,  \* the jobs with `partitions: auto`
  Cores,      \* availableCores()
  Workers,    \* the `workers` slots
  Timed       \* the jobs with timeoutSeconds

ASSUME JobsAssumption ==
  /\ IsFiniteSet(Jobs)
  /\ Preds \in [Jobs -> SUBSET Jobs]

(* DependencyGraph refuses predecessors that form a cycle: among any jobs, *)
(* one has no predecessor within them.                                     *)
ASSUME AcyclicAssumption ==
  \A S \in SUBSET Jobs : S # {} => \E j \in S : Preds[j] \cap S = {}

ASSUME ConnectionsAssumption ==
  /\ Limit \in [Aliases -> Nat \ {0}]
  /\ Uses \in [Jobs -> SUBSET Aliases]
  /\ Count \in [Jobs -> Nat \ {0}]
  /\ Automatic \subseteq Jobs

ASSUME WorkersAssumption ==
  /\ Workers \in Nat \ {0}
  /\ Cores \in Nat \ {0}
  /\ Timed \subseteq Jobs

VARIABLES
  (* the DependencyGraph of this cycle *)
  active,       \* activeJobs
  notStarted,   \* _notStarted
  running,      \* _running
  reserved,     \* [Jobs -> Nat]: _reserved, 1 where nothing is reserved
  outcomes,     \* the [job, status] decided so far
  (* the run loop *)
  pc,           \* the next statement of the run's process
  scan,         \* takeReady: the jobs this pass has not looked at yet
  changed,      \* takeReady: did this pass skip a job?
  starting,     \* the jobs takeReady chose that have no process yet
  procs,        \* the jobs with a _JobProcess in the loop's `running`
  toPoll,       \* the processes this round has not polled yet
  terminating,  \* the flag the signal handler sets
  forever,      \* runForever
  (* the jobs' processes and the clock *)
  proc,         \* [Jobs -> ProcState]
  late          \* the jobs whose deadline has passed

graphVars == <<active, notStarted, running, reserved, outcomes>>
takeVars == <<scan, changed, starting>>
loopVars == <<procs, toPoll, forever>>
envVars == <<terminating, proc, late>>
vars == <<graphVars, pc, takeVars, loopVars, envVars>>

Statuses == {"completed", "failed", "skipped"}

(* A job's process has not started, works, has sent its outcome, has died  *)
(* without sending one, or is gone, its pipes closed.                      *)
Sent == {"sent completed", "sent failed"}
ProcState == {"none", "working", "died", "gone"} \cup Sent

PcState == {"check", "take", "start", "wait", "poll", "done", "sleep", "exited", "raised", "aborted"}

TypeOK ==
  /\ active \subseteq Jobs
  /\ notStarted \subseteq Jobs
  /\ running \subseteq Jobs
  /\ reserved \in [Jobs -> Nat \ {0}]
  /\ outcomes \subseteq [job : Jobs, status : Statuses]
  /\ pc \in PcState
  /\ scan \subseteq Jobs
  /\ changed \in BOOLEAN
  /\ starting \subseteq Jobs
  /\ procs \subseteq Jobs
  /\ toPoll \subseteq Jobs
  /\ terminating \in BOOLEAN
  /\ forever \in BOOLEAN
  /\ proc \in [Jobs -> ProcState]
  /\ late \subseteq Jobs

-------------------------------------------------------------------------------
(* DependencyGraph *)

ActivePreds(j) == Preds[j] \cap active

Decision(j, status) == [job |-> j, status |-> status]
DecidedAs(S) == {j \in Jobs : \E s \in S : Decision(j, s) \in outcomes}
Completed == DecidedAs({"completed"})
Unsuccessful == DecidedAs({"failed", "skipped"})

Finished == notStarted = {} /\ running = {}

Places(j) == IF j \in Automatic THEN reserved[j] ELSE Count[j]

(* The places of an alias the jobs of S hold: one for each partition of    *)
(* each job that uses it.                                                  *)
HeldBy(S, alias) ==
  UNION {{j} \X (1..Places(j)) : j \in {k \in S : alias \in Uses[k]}}

InUse(alias) == Cardinality(HeldBy(running, alias))

ConnectionFreeWithinLimit(j, alias) ==  \* mutant: no exception for an idle connection
  InUse(alias) + Places(j) <= Limit[alias]

(* A job that needs more places than there are waits for all of them.      *)
ConnectionFree(j, alias) ==
  \/ InUse(alias) = 0
  \/ /\ Places(j) <= Limit[alias]
     /\ InUse(alias) + Places(j) <= Limit[alias]

ConnectionsFree(j) == \A alias \in Uses[j] : ConnectionFree(j, alias)

FitsPlacesAlone(j, n) ==  \* mutant: the other running jobs are not counted
  n = 1 \/ \A alias \in Uses[j] : n <= Limit[alias]

(* freePlaces: job j may hold one place, or as many as every limited       *)
(* connection it uses has beside the other running jobs.                   *)
FitsPlaces(j, n) ==
  \/ n = 1
  \/ \A alias \in Uses[j] : Cardinality(HeldBy(running \ {j}, alias)) + n <= Limit[alias]

CoreShare(jobs) ==
  IF (Cores \div 2) \div jobs >= 1 THEN (Cores \div 2) \div jobs ELSE 1

(* _coreBudget: what a job with an automatic count reserves, the lesser of *)
(* its share of the cores and its free places.                             *)
Reservation(j) ==
  LET share == CoreShare(Cardinality(procs \cup starting))
  IN  CHOOSE n \in 1..share :
        /\ FitsPlaces(j, n)
        /\ \A m \in 1..share : FitsPlaces(j, m) => m <= n

-------------------------------------------------------------------------------
(* Each cycle builds a graph of the jobs that are active and outside their *)
(* refresh window; which they are is not this module's concern.            *)
Init ==
  /\ active \in SUBSET Jobs
  /\ notStarted = active
  /\ running = {}
  /\ reserved = [j \in Jobs |-> 1]
  /\ outcomes = {}
  /\ pc = "check"
  /\ scan = {}
  /\ changed = FALSE
  /\ starting = {}
  /\ procs = {}
  /\ toPoll = {}
  /\ terminating = FALSE
  /\ forever \in BOOLEAN
  /\ proc = [j \in Jobs |-> "none"]
  /\ late = {}

-------------------------------------------------------------------------------
(* The top of the loop *)

CycleEnds ==
  /\ pc = "check"
  /\ Finished
  /\ pc' = "done"
  /\ UNCHANGED <<graphVars, takeVars, loopVars, envVars>>

SkipNotStarted ==
  /\ pc = "check"
  /\ ~Finished
  /\ terminating
  /\ outcomes' = outcomes \cup {Decision(j, "skipped") : j \in notStarted}
  /\ notStarted' = {}
  /\ pc' = "wait"
  /\ UNCHANGED <<active, running, reserved, takeVars, loopVars, envVars>>

BeginTake ==
  /\ pc = "check"
  /\ ~Finished
  /\ ~terminating
  /\ scan' = notStarted
  /\ changed' = FALSE
  /\ starting' = {}
  /\ pc' = "take"
  /\ UNCHANGED <<graphVars, loopVars, envVars>>

-------------------------------------------------------------------------------
(* takeReady: a pass looks at every job not started, in the configuration's *)
(* order, which is any order here; it is followed by another pass if it    *)
(* skipped a job, whose successors the pass may already have looked at.    *)

MayStartUnlessFailed(j) ==  \* mutant: predecessors need not have completed
  /\ Cardinality(starting) < Workers - Cardinality(procs)
  /\ ActivePreds(j) \cap Unsuccessful = {}
  /\ ConnectionsFree(j)

MayStart(j) ==
  /\ Cardinality(starting) < Workers - Cardinality(procs)
  /\ ActivePreds(j) \subseteq Completed
  /\ ConnectionsFree(j)

TakeSkip(j) ==
  /\ pc = "take"
  /\ j \in scan
  /\ ActivePreds(j) \cap Unsuccessful # {}
  /\ notStarted' = notStarted \ {j}
  /\ outcomes' = outcomes \cup {Decision(j, "skipped")}
  /\ scan' = scan \ {j}
  /\ changed' = TRUE
  /\ UNCHANGED <<active, running, reserved, pc, starting, loopVars, envVars>>

TakeStart(j) ==
  /\ pc = "take"
  /\ j \in scan
  /\ ActivePreds(j) \cap Unsuccessful = {}
  /\ MayStart(j)
  /\ notStarted' = notStarted \ {j}
  /\ running' = running \cup {j}
  /\ starting' = starting \cup {j}
  /\ scan' = scan \ {j}
  /\ UNCHANGED <<active, reserved, outcomes, pc, changed, loopVars, envVars>>

TakePass(j) ==
  /\ pc = "take"
  /\ j \in scan
  /\ ActivePreds(j) \cap Unsuccessful = {}
  /\ ~MayStart(j)
  /\ scan' = scan \ {j}
  /\ UNCHANGED <<graphVars, pc, changed, starting, loopVars, envVars>>

TakeAgain ==
  /\ pc = "take"
  /\ scan = {}
  /\ changed
  /\ scan' = notStarted
  /\ changed' = FALSE
  /\ UNCHANGED <<graphVars, pc, starting, loopVars, envVars>>

TakeDoneAfterOnePass ==  \* mutant: the skips of a pass are not followed up
  /\ pc = "take"
  /\ scan = {}
  /\ pc' = "start"
  /\ UNCHANGED <<graphVars, takeVars, loopVars, envVars>>

TakeDone ==
  /\ pc = "take"
  /\ scan = {}
  /\ ~changed
  /\ pc' = "start"
  /\ UNCHANGED <<graphVars, takeVars, loopVars, envVars>>

-------------------------------------------------------------------------------
(* Starting processes, waiting for them and polling them *)

StartJob(j) ==
  /\ pc = "start"
  /\ j \in starting
  /\ IF j \in Automatic
     THEN reserved' = [reserved EXCEPT ![j] = Reservation(j)]
     ELSE UNCHANGED reserved
  /\ starting' = starting \ {j}
  /\ procs' = procs \cup {j}
  /\ proc' = [proc EXCEPT ![j] = "working"]
  /\ UNCHANGED <<active, notStarted, running, outcomes, pc, scan, changed,
                 toPoll, forever, terminating, late>>

StartDone ==
  /\ pc = "start"
  /\ starting = {}
  /\ pc' = "wait"
  /\ UNCHANGED <<graphVars, takeVars, loopVars, envVars>>

(* With nothing running every job should be decided: see JobsAllDecided.   *)
NothingRuns ==
  /\ pc = "wait"
  /\ procs = {}
  /\ pc' = "check"
  /\ UNCHANGED <<graphVars, takeVars, loopVars, envVars>>

(* The wait ends with a message, an exit, a deadline or SIGNAL_POLL_SECONDS. *)
Wake ==
  /\ pc = "wait"
  /\ procs # {}
  /\ toPoll' = procs
  /\ pc' = "poll"
  /\ UNCHANGED <<graphVars, takeVars, procs, forever, envVars>>

(* The graph's finish(), for a job whose process is over.                  *)
FinishJob(j, status) ==
  /\ running' = running \ {j}
  /\ outcomes' = outcomes \cup {Decision(j, status)}
  /\ procs' = procs \ {j}
  /\ toPoll' = toPoll \ {j}
  /\ proc' = [proc EXCEPT ![j] = "gone"]
  /\ UNCHANGED <<active, notStarted, reserved, pc, takeVars, forever, terminating, late>>

PollOutcomeAsSent(j) ==  \* mutant: the message taken for the outcome's status
  /\ pc = "poll"
  /\ j \in toPoll
  /\ proc[j] \in Sent
  /\ FinishJob(j, proc[j])

PollOutcome(j) ==
  /\ pc = "poll"
  /\ j \in toPoll
  /\ proc[j] \in Sent
  /\ FinishJob(j, IF proc[j] = "sent completed" THEN "completed" ELSE "failed")

PollDiedWhenLate(j) ==  \* mutant: a death is noticed by the deadline only
  /\ pc = "poll"
  /\ j \in toPoll \cap late
  /\ proc[j] = "died"
  /\ FinishJob(j, "failed")

PollDied(j) ==
  /\ pc = "poll"
  /\ j \in toPoll
  /\ proc[j] = "died"
  /\ FinishJob(j, "failed")

(* An outcome sent after poll read the pipe, or behind the messages one    *)
(* poll reads, is lost when the job is stopped for being late.             *)
PollLate(j) ==
  /\ pc = "poll"
  /\ j \in toPoll
  /\ proc[j] \in {"working"} \cup Sent
  /\ j \in late
  /\ FinishJob(j, "failed")

PollRunning(j) ==
  /\ pc = "poll"
  /\ j \in toPoll
  /\ proc[j] = "working"
  /\ j \notin late
  /\ toPoll' = toPoll \ {j}
  /\ UNCHANGED <<graphVars, pc, takeVars, procs, forever, envVars>>

PollsDone ==
  /\ pc = "poll"
  /\ toPoll = {}
  /\ pc' = "check"
  /\ UNCHANGED <<graphVars, takeVars, loopVars, envVars>>

-------------------------------------------------------------------------------
(* The end of a cycle, and of the run *)

RunEndsUnlessForever ==  \* mutant: --forever does not heed the signal
  /\ pc = "done"
  /\ ~forever
  /\ pc' = "exited"
  /\ UNCHANGED <<graphVars, takeVars, loopVars, envVars>>

RunEnds ==
  /\ pc = "done"
  /\ ~forever \/ terminating
  /\ pc' = "exited"
  /\ UNCHANGED <<graphVars, takeVars, loopVars, envVars>>

Pause ==
  /\ pc = "done"
  /\ forever
  /\ ~terminating
  /\ pc' = "sleep"
  /\ UNCHANGED <<graphVars, takeVars, loopVars, envVars>>

(* The pause ends when its time is up or a signal comes, and either way a  *)
(* new cycle begins.                                                       *)
NewCycle ==
  /\ pc = "sleep"
  /\ active' \in SUBSET Jobs
  /\ notStarted' = active'
  /\ running' = {}
  /\ reserved' = [j \in Jobs |-> 1]
  /\ outcomes' = {}
  /\ proc' = [j \in Jobs |-> "none"]
  /\ late' = {}
  /\ pc' = "check"
  /\ UNCHANGED <<takeVars, loopVars, terminating>>

(* An exception in the loop, such as a process that cannot be started.     *)
Raise ==
  /\ pc \in {"start", "poll"}
  /\ pc' = "raised"
  /\ UNCHANGED <<graphVars, takeVars, loopVars, envVars>>

StopProcess(j) ==
  /\ pc = "raised"
  /\ j \in procs
  /\ procs' = procs \ {j}
  /\ proc' = [proc EXCEPT ![j] = "gone"]
  /\ UNCHANGED <<graphVars, pc, takeVars, toPoll, forever, terminating, late>>

AbortAtOnce ==  \* mutant: the processes are left running
  /\ pc = "raised"
  /\ pc' = "aborted"
  /\ UNCHANGED <<graphVars, takeVars, loopVars, envVars>>

Abort ==
  /\ pc = "raised"
  /\ procs = {}
  /\ pc' = "aborted"
  /\ UNCHANGED <<graphVars, takeVars, loopVars, envVars>>

-------------------------------------------------------------------------------
(* Signals, the jobs' processes and the clock *)

Signal ==
  /\ ~terminating
  /\ terminating' = TRUE
  /\ UNCHANGED <<graphVars, pc, takeVars, loopVars, proc, late>>

JobEnds(j) ==
  /\ proc[j] = "working"
  /\ \E s \in Sent \cup {"died"} : proc' = [proc EXCEPT ![j] = s]
  /\ UNCHANGED <<graphVars, pc, takeVars, loopVars, terminating, late>>

DeadlinePasses(j) ==
  /\ j \in Timed \ late
  /\ proc[j] \in {"working", "died"} \cup Sent
  /\ late' = late \cup {j}
  /\ UNCHANGED <<graphVars, pc, takeVars, loopVars, terminating, proc>>

LoopStep ==
  \/ CycleEnds \/ SkipNotStarted \/ BeginTake
  \/ \E j \in Jobs : TakeSkip(j) \/ TakeStart(j) \/ TakePass(j)
  \/ TakeAgain \/ TakeDone
  \/ \E j \in Jobs : StartJob(j)
  \/ StartDone \/ NothingRuns \/ Wake
  \/ \E j \in Jobs : PollOutcome(j) \/ PollDied(j) \/ PollLate(j) \/ PollRunning(j)
  \/ PollsDone
  \/ RunEnds \/ Pause \/ NewCycle
  \/ \E j \in Jobs : StopProcess(j)
  \/ Abort

Next ==
  \/ LoopStep
  \/ Raise
  \/ Signal
  \/ \E j \in Jobs : JobEnds(j) \/ DeadlinePasses(j)

Spec == Init /\ [][Next]_vars

(* The run's process and the clock go on.  Nothing makes a job end but its *)
(* timeout; a job without one is assumed to end by itself.                 *)
Fairness ==
  /\ WF_vars(LoopStep)
  /\ \A j \in Timed : WF_vars(DeadlinePasses(j))
  /\ \A j \in Jobs \ Timed : WF_vars(JobEnds(j))

FairSpec == Spec /\ Fairness

-------------------------------------------------------------------------------
(* Properties *)

(* When the loop finds no process running, every job is decided: the       *)
(* assertion of _runCycle, without which a run would spin for ever over    *)
(* jobs that nothing can start.                                            *)
JobsAllDecided == pc = "wait" /\ procs = {} => Finished

(* No more processes than workers, and no limited connection used beyond   *)
(* its places, except by one job alone that by itself needs more than      *)
(* there are; whatever the jobs with an automatic count have reserved.     *)
Users(alias) == {j \in running : alias \in Uses[j]}

LimitsHold ==
  /\ Cardinality(procs) <= Workers
  /\ \A alias \in Aliases :
       InUse(alias) <= Limit[alias] \/ \A j, k \in Users(alias) : j = k

(* While the loop waits, a job that has not started waits for something    *)
(* that will change: a predecessor still to be decided, a worker slot or a *)
(* connection in use.  No job that could start is passed over, and none    *)
(* whose predecessor failed or was skipped is left waiting.                *)
EveryWaitHasAReason ==
  pc = "wait" =>
    \A j \in notStarted :
      \/ ActivePreds(j) \cap (notStarted \cup running) # {}
      \/ Cardinality(procs) = Workers
      \/ ~ConnectionsFree(j)

(* Whether the cycle ended, or the loop raised, no job's process outlives  *)
(* it, and the graph has recorded every process that is over.              *)
NoProcessOutlivesCycle ==
  /\ pc \in {"done", "sleep", "exited", "aborted"} =>
       \A j \in Jobs : proc[j] \in {"none", "gone"}
  /\ pc \in {"check", "wait", "done"} => procs = running

(* The run does what Schedule promises: it starts a job only when its      *)
(* predecessors have completed, decides each job of a cycle once, and      *)
(* skips one only for a predecessor's sake or because it was stopped.      *)
PhaseOf(j) ==
  IF j \notin active THEN "left out"
  ELSE IF j \in notStarted THEN "waiting"
  ELSE IF j \in running THEN "running"
  ELSE CHOOSE s \in Statuses : Decision(j, s) \in outcomes

Promise == INSTANCE Schedule WITH
             phase <- [j \in Jobs |-> PhaseOf(j)],
             stopping <- terminating

KeepsSchedule == Promise!Spec

(* Every cycle ends, whatever the jobs' processes do, as long as a job     *)
(* without timeoutSeconds ends by itself.                                  *)
CyclesEnd == []<>(pc \in {"done", "exited", "aborted"})

(* SIGINT or SIGTERM ends the run, a --forever run too, wherever it was.   *)
SignalEndsRun == terminating ~> pc \in {"exited", "aborted"}
===============================================================================
