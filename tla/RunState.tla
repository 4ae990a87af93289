------------------------------- MODULE RunState -------------------------------
(***************************************************************************)
(* The runs that share one run state (jobs/memory.py): the locks each      *)
(* takes before it starts a job, exclusiveRun, and the records its jobs'   *)
(* processes make in it, FileMemory's and DatabaseMemory's.                *)
(*                                                                         *)
(* A run may be killed at any moment.  The operating system then gives up  *)
(* its locks, and its jobs' processes are orphans until they notice.       *)
(***************************************************************************)
EXTENDS Naturals

CONSTANTS
  MaxRuns,     \* bound: the runs there are, numbered as they start
  JobCount,    \* the jobs, numbered as their names sort
  Selections,  \* what --job may name in a run; {} for a run of every job
  Backends     \* where the state may be kept: "file", "database"

Runs == 1..MaxRuns
Jobs == 1..JobCount

ASSUME RunStateAssumption ==
  /\ {MaxRuns, JobCount} \subseteq Nat
  /\ Selections \subseteq SUBSET Jobs
  /\ Backends \subseteq {"file", "database"}

RunLock == 0  \* the others are the jobs' own

(* What is kept of each job (its last run, its watermark, its masking key) *)
(* is one entry here: the run that recorded it, or 0.                      *)
Document == [Jobs -> 0..MaxRuns]

VARIABLES
  backend,
  selects,   \* [Runs -> Selections]
  pc,        \* [Runs -> step]
  held,      \* [Runs -> SUBSET locks]
  process,   \* [Runs -> [Jobs -> the process of a job]]
  writing,   \* the process that has the file's exclusiveLock, {<<run, job>>}, or {}
  copy,      \* [Runs -> [Jobs -> Document]]: what such a process has loaded
  document,  \* the state
  (* history *)
  recorded   \* what was recorded last for each job

stateVars == <<backend, document, recorded>>
vars == <<stateVars, selects, pc, held, process, writing, copy>>

Nothing == [j \in Jobs |-> 0]

TypeOK ==
  /\ backend \in Backends
  /\ selects \in [Runs -> SUBSET Jobs]
  /\ pc \in [Runs -> {"none", "locking", "running", "refusing", "refused", "over", "killed"}]
  /\ held \in [Runs -> SUBSET (Jobs \cup {RunLock})]
  /\ process \in [Runs -> [Jobs -> {"none", "working", "done"}]]
  /\ writing = {} \/ \E r \in Runs, j \in Jobs : writing = {<<r, j>>}
  /\ copy \in [Runs -> [Jobs -> Document]]
  /\ document \in Document /\ recorded \in Document

Init ==
  /\ backend \in Backends
  /\ selects = [r \in Runs |-> {}]
  /\ pc = [r \in Runs |-> "none"]
  /\ held = [r \in Runs |-> {}]
  /\ process = [r \in Runs |-> [j \in Jobs |-> "none"]]
  /\ writing = {}
  /\ copy = [r \in Runs |-> [j \in Jobs |-> Nothing]]
  /\ document = Nothing
  /\ recorded = Nothing

-------------------------------------------------------------------------------
(* exclusiveRun *)

Goto(r, step) == pc' = [pc EXCEPT ![r] = step]

RunsEveryJob(r) == selects[r] = {}

(* The run lock is shared by runs that name their jobs, and a job's own is *)
(* not shared.  The run lock comes first, the jobs' follow in their order. *)
Locks(r) == selects[r] \cup {RunLock}

LocksLeft(r) == Locks(r) \ held[r]

NextLockOfAny(r) == IF RunLock \in LocksLeft(r) THEN {RunLock} ELSE LocksLeft(r)  \* mutant: the jobs' in no order

NextLock(r) == {lock \in LocksLeft(r) : \A other \in LocksLeft(r) : lock <= other}

FreeUnlessExclusive(lock, r) ==  \* mutant: a run of every job shares the run lock too
  \A q \in Runs \ {r} : lock \in held[q] => lock = RunLock

Free(lock, r) ==
  \A q \in Runs \ {r} : lock \in held[q] => lock = RunLock /\ ~RunsEveryJob(q) /\ ~RunsEveryJob(r)

Start(r) ==
  /\ pc[r] = "none"
  /\ \A q \in 1..(r - 1) : pc[q] # "none"
  /\ Goto(r, "locking")
  /\ \E jobs \in Selections : selects' = [selects EXCEPT ![r] = jobs]
  /\ UNCHANGED <<stateVars, held, process, writing, copy>>

TakeLock(r) ==
  /\ pc[r] = "locking" /\ held[r] # Locks(r)
  /\ \E lock \in NextLock(r) : Free(lock, r) /\ held' = [held EXCEPT ![r] = @ \cup {lock}]
  /\ UNCHANGED <<stateVars, selects, pc, process, writing, copy>>

Refuse(r) ==
  /\ pc[r] = "locking" /\ held[r] # Locks(r)
  /\ \E lock \in NextLock(r) : ~Free(lock, r)
  /\ Goto(r, "refusing")
  /\ UNCHANGED <<stateVars, selects, held, process, writing, copy>>

(* RunInProgressError: the locks taken so far are released on its way out. *)
GiveUp(r) ==
  /\ pc[r] = "refusing"
  /\ Goto(r, "refused")
  /\ held' = [held EXCEPT ![r] = {}]
  /\ UNCHANGED <<stateVars, selects, process, writing, copy>>

-------------------------------------------------------------------------------
(* The run, and its jobs' processes *)

(* _requireUnchangedMaskingKeys reads every job's masking key before the   *)
(* run goes on.                                                            *)
ReadState(r) ==
  /\ pc[r] = "locking" /\ held[r] = Locks(r)
  /\ writing = {}
  /\ Goto(r, "running")
  /\ UNCHANGED <<stateVars, selects, held, process, writing, copy>>

JobsOf(r) == IF RunsEveryJob(r) THEN Jobs ELSE selects[r]

Alive(r, j) == process[r][j] = "working"

StartJob(r, j) ==
  /\ pc[r] = "running"
  /\ j \in JobsOf(r) /\ process[r][j] = "none"
  /\ process' = [process EXCEPT ![r][j] = "working"]
  /\ UNCHANGED <<stateVars, selects, pc, held, writing, copy>>

Done(r, j) == process' = [process EXCEPT ![r][j] = "done"]

OpenStateUnlocked(r, j) ==  \* mutant: the file is loaded before its lock is had
  /\ backend = "file"
  /\ Alive(r, j) /\ <<r, j>> \notin writing
  /\ writing' = writing \cup {<<r, j>>}
  /\ copy' = [copy EXCEPT ![r][j] = document]
  /\ UNCHANGED <<stateVars, selects, pc, held, process>>

(* FileMemory._write: waits for the lock, and loads the file as it is now. *)
OpenState(r, j) ==
  /\ backend = "file"
  /\ Alive(r, j) /\ writing = {}
  /\ writing' = {<<r, j>>}
  /\ copy' = [copy EXCEPT ![r][j] = document]
  /\ UNCHANGED <<stateVars, selects, pc, held, process>>

Record(r, j, loaded) ==
  /\ document' = [loaded EXCEPT ![j] = r]
  /\ recorded' = [recorded EXCEPT ![j] = r]

CloseState(r, j) ==
  /\ writing' = writing \ {<<r, j>>}
  /\ copy' = [copy EXCEPT ![r][j] = Nothing]

(* The file written beside it replaces the file at once. *)
ReplaceState(r, j) ==
  /\ <<r, j>> \in writing
  /\ Record(r, j, copy[r][j])
  /\ CloseState(r, j)
  /\ Done(r, j)
  /\ UNCHANGED <<backend, selects, pc, held>>

(* A write that fails is logged, and the job goes on. *)
WriteFails(r, j) ==
  /\ <<r, j>> \in writing
  /\ CloseState(r, j)
  /\ Done(r, j)
  /\ UNCHANGED <<stateVars, selects, pc, held>>

(* DatabaseMemory upserts its own columns of the job's row. *)
UpsertState(r, j) ==
  /\ backend = "database"
  /\ Alive(r, j)
  /\ Record(r, j, document)
  /\ Done(r, j)
  /\ UNCHANGED <<backend, selects, pc, held, writing, copy>>

(* The process ends, as it may at any step: it fails, is killed, or finds  *)
(* that its run is gone.                                                   *)
JobEnds(r, j) ==
  /\ Alive(r, j)
  /\ Done(r, j)
  /\ CloseState(r, j)
  /\ UNCHANGED <<stateVars, selects, pc, held>>

RunEnds(r) ==
  /\ pc[r] = "running"
  /\ \A j \in Jobs : ~Alive(r, j)
  /\ Goto(r, "over")
  /\ held' = [held EXCEPT ![r] = {}]
  /\ UNCHANGED <<stateVars, selects, process, writing, copy>>

KillRun(r) ==
  /\ pc[r] \in {"locking", "refusing", "running"}
  /\ Goto(r, "killed")
  /\ held' = [held EXCEPT ![r] = {}]
  /\ UNCHANGED <<stateVars, selects, process, writing, copy>>

RunStep(r) == TakeLock(r) \/ Refuse(r) \/ GiveUp(r) \/ ReadState(r) \/ RunEnds(r)

JobStep(r, j) ==
  \/ OpenState(r, j) \/ ReplaceState(r, j) \/ WriteFails(r, j) \/ UpsertState(r, j)
  \/ JobEnds(r, j)

Progress(r) ==
  \/ RunStep(r)
  \/ \E j \in Jobs : StartJob(r, j) \/ JobStep(r, j)

Next == \E r \in Runs : Start(r) \/ Progress(r) \/ KillRun(r)

Spec == Init /\ [][Next]_vars /\ \A r \in Runs : WF_vars(Progress(r))

-------------------------------------------------------------------------------
(* Properties *)

(* No job is loaded by two runs at once, of one job, of some or of all.    *)
(* Only an orphan, whose run was killed and its locks with it, may be      *)
(* found beside the next run's process, until it has noticed.              *)
JobsApart ==
  \A r, q \in Runs : \A j \in Jobs :
    r # q /\ Alive(r, j) /\ Alive(q, j) => "killed" \in {pc[r], pc[q]}

(* The state holds what was last recorded for every job, however many      *)
(* processes record at once, orphans among them, and whichever is killed   *)
(* between its read of the file and the file's replacement.                *)
NoUpdateLost == document = recorded

(* Runs that get in one another's way do not all give up: when each has    *)
(* been refused or is over, one of them ran.                               *)
SomeRunGoesAhead ==
  /\ \A r \in Runs : pc[r] \in {"none", "refused", "over"}
  /\ \E r \in Runs : pc[r] = "refused"
  => \E r \in Runs : pc[r] = "over"
===============================================================================
