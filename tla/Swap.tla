--------------------------------- MODULE Swap ----------------------------------
(***************************************************************************)
(* The swap of a loaded stage table with its target, rename by rename, and *)
(* what the job's next runs make of one that was stopped part-way:         *)
(* TableTarget (jobs/targets.py) over TableMaintenance                     *)
(* (database/maintenance.py) and the dialects' swap.                       *)
(*                                                                         *)
(* Oracle commits each rename; everywhere else the three are one           *)
(* transaction.  The database may refuse any statement, an undo too; the   *)
(* job may be sent SIGTERM, which a swap defers, and killed anywhere.      *)
(* Load 0 is what the target held before the first run.                    *)
(***************************************************************************)
EXTENDS Integers

CONSTANTS
  JobConfigs, \* the configurations the job may have, see JobConfig
  Retries,    \* retries
  MaxRuns     \* bound: the runs of the job

(* Is the database's swap atomic, the insertStrategy (an upsert becomes a  *)
(* swap in a --full-refresh), is the target its own source, is it masked?  *)
JobConfig ==
  {c \in [atomic : BOOLEAN, strategy : {"swap", "upsert"}, inPlace : BOOLEAN, masked : BOOLEAN] :
     c.inPlace => c.strategy = "swap"}

ASSUME SwapAssumption ==
  /\ JobConfigs \subseteq JobConfig
  /\ Retries \in Nat /\ MaxRuns \in Nat

VARIABLES
  (* the database *)
  catalog,  \* [Names -> Tables or None]: the table a name stands for
  holds,    \* [Tables -> Contents]
  keyed,    \* the tables with the keys, indexes and grants of the target
  (* the job *)
  job,      \* its configuration
  pc,       \* the next step of its process, or "idle"
  refresh,  \* is this a --full-refresh?
  attempt,  \* attemptNumber
  step,     \* the next of the renames, done or undone
  received, \* has a SIGTERM been deferred?
  outcome,  \* of the last run
  (* history *)
  runs,     \* how many runs have begun
  load,     \* the number of the last load begun
  complete, \* the loads of which every row was written
  faulted,  \* has this run met a fault of the database, a signal or a kill?
  cut,      \* has a kill or a failed undo left a swap part-way?
  refused   \* has the stage been refused the target's keys?

database == <<catalog, holds, keyed>>
runVars == <<job, refresh, attempt, outcome, runs>>
vars == <<database, pc, step, received, runVars, load, complete, faulted, cut, refused>>

Names == {"target", "stage", "temp"}
Tables == {"first", "second"}
None == "none"

(* What a table may hold: nothing, or the rows of a load, or part of them. *)
Empty == -1
Contents == Nat \cup {Empty}

(* _renameSteps: from, to. *)
Renames == <<<<"stage", "temp">>, <<"target", "stage">>, <<"temp", "target">>>>

Exists(name) == catalog[name] # None

Swaps == job.strategy = "swap" \/ refresh

(* Within _terminationDeferred. *)
InSwap == pc \in {"swap", "undo", "swapped"}

TypeOK ==
  /\ catalog \in [Names -> Tables \cup {None}]
  /\ holds \in [Tables -> Contents]
  /\ keyed \subseteq Tables
  /\ job \in JobConfigs
  /\ pc \in {"idle", "query", "recover", "prepare", "keys", "load", "swap", "undo", "swapped",
             "upsert", "empty", "post"}
  /\ refresh \in BOOLEAN
  /\ attempt \in 1..(Retries + 1)
  /\ step \in 0..3
  /\ received \in BOOLEAN
  /\ outcome \in {"none", "completed", "failed"}
  /\ runs \in 0..MaxRuns
  /\ load \in Nat
  /\ complete \subseteq Nat
  /\ faulted \in BOOLEAN /\ cut \in BOOLEAN /\ refused \in BOOLEAN

Init ==
  /\ catalog = [n \in Names |-> IF n = "target" THEN "first" ELSE IF n = "stage" THEN "second" ELSE None]
  /\ holds = [t \in Tables |-> IF t = "first" THEN 0 ELSE Empty]
  /\ keyed = {"first"}
  /\ job \in JobConfigs
  /\ pc = "idle"
  /\ refresh = FALSE
  /\ attempt = 1
  /\ step = 0
  /\ received = FALSE
  /\ outcome = "none"
  /\ runs = 0
  /\ load = 0
  /\ complete = {0}
  /\ faulted = FALSE
  /\ cut = FALSE
  /\ refused = FALSE

-------------------------------------------------------------------------------
(* How a run, and an attempt of it, may end *)

RunOver(result) ==
  /\ pc' = "idle"
  /\ outcome' = result
  /\ refresh' = FALSE
  /\ attempt' = 1
  /\ step' = 0
  /\ received' = FALSE
  /\ UNCHANGED <<job, runs>>

Retry ==
  /\ attempt <= Retries
  /\ attempt' = attempt + 1
  /\ pc' = "query"
  /\ step' = 0
  /\ UNCHANGED <<received, job, refresh, outcome, runs>>

AttemptFails == Retry \/ RunOver("failed")

-------------------------------------------------------------------------------
(* An attempt, up to its swap *)

StartRun ==
  /\ pc = "idle"
  /\ runs < MaxRuns
  /\ runs' = runs + 1
  /\ refresh' \in BOOLEAN /\ (refresh' => job.strategy = "upsert")
  /\ outcome' = "none"
  /\ faulted' = FALSE
  /\ pc' = "query"
  /\ UNCHANGED <<database, step, received, job, attempt, load, complete, cut, refused>>

(* The source is read first, and a job masking in place reads its target. *)
Query ==
  /\ pc = "query"
  /\ job.inPlace => Exists("target")
  /\ pc' = IF Swaps THEN "recover" ELSE "prepare"
  /\ UNCHANGED <<database, step, received, runVars, load, complete, faulted, cut, refused>>

Rename(from, to) ==
  /\ Exists(from) /\ ~Exists(to)
  /\ catalog' = [catalog EXCEPT ![to] = catalog[from], ![from] = None]

RecoverByUndoing ==  \* mutant: a swap without a target is undone, not finished
  /\ pc = "recover"
  /\ \/ ~Exists("temp") /\ UNCHANGED catalog
     \/ Exists("temp") /\ ~Exists("target") /\ Rename("stage", "target")
     \/ Exists("temp") /\ Exists("target") /\ Rename("temp", "stage")
  /\ cut' = FALSE
  /\ pc' = "prepare"
  /\ UNCHANGED <<holds, keyed, step, received, runVars, load, complete, faulted, refused>>

RecoverTheTarget ==  \* mutant: only a missing target is put right
  /\ pc = "recover"
  /\ IF Exists("temp") /\ ~Exists("target") THEN Rename("temp", "target") ELSE UNCHANGED catalog
  /\ cut' = FALSE
  /\ pc' = "prepare"
  /\ UNCHANGED <<holds, keyed, step, received, runVars, load, complete, faulted, refused>>

(* recoverInterruptedSwap.  That all three names exist, which it refuses,  *)
(* is no state of two tables.                                              *)
Recover ==
  /\ pc = "recover"
  /\ \/ ~Exists("temp") /\ UNCHANGED catalog
     \/ Exists("temp") /\ ~Exists("target") /\ Rename("temp", "target")
     \/ Exists("temp") /\ Exists("target") /\ Rename("temp", "stage")
  /\ cut' = FALSE
  /\ pc' = "prepare"
  /\ UNCHANGED <<holds, keyed, step, received, runVars, load, complete, faulted, refused>>

(* The target's columns and keys are read, and the stage is truncated. *)
Prepare ==
  /\ pc = "prepare"
  /\ Exists("target") /\ Exists("stage")
  /\ holds' = [holds EXCEPT ![catalog["stage"]] = Empty]
  /\ load' = load + 1
  /\ pc' = IF Swaps THEN "keys" ELSE "load"
  /\ UNCHANGED <<catalog, keyed, step, received, runVars, complete, faulted, cut, refused>>

(* Without a table it needs, the attempt fails, whoever dropped it. *)
TableMissing ==
  /\ \/ pc = "query" /\ job.inPlace /\ ~Exists("target")
     \/ pc = "prepare" /\ ~(Exists("target") /\ Exists("stage"))
  /\ AttemptFails
  /\ UNCHANGED <<database, load, complete, faulted, cut, refused>>

KeysFromStage ==  \* mutant: the stage's keys are given to the target
  /\ pc = "keys"
  /\ keyed' = IF catalog["stage"] \in keyed THEN keyed \cup {catalog["target"]} ELSE keyed
  /\ refused' = refused
  /\ pc' = "load"
  /\ UNCHANGED <<catalog, holds, step, received, runVars, load, complete, faulted, cut>>

(* copyKeys and copyAccess; a failure of theirs is a warning. *)
GiveKeys ==
  /\ pc = "keys"
  /\ \/ /\ keyed' = IF catalog["target"] \in keyed THEN keyed \cup {catalog["stage"]} ELSE keyed
        /\ UNCHANGED refused
     \/ /\ UNCHANGED keyed
        /\ refused' = TRUE
  /\ pc' = "load"
  /\ UNCHANGED <<catalog, holds, step, received, runVars, load, complete, faulted, cut>>

(* The load is part-way, then complete. *)
Load ==
  /\ pc = "load"
  /\ IF holds[catalog["stage"]] # load
     THEN /\ holds' = [holds EXCEPT ![catalog["stage"]] = load]
          /\ UNCHANGED <<pc, step, complete>>
     ELSE /\ complete' = complete \cup {load}
          /\ pc' = IF Swaps THEN "swap" ELSE "upsert"
          /\ step' = 1
          /\ UNCHANGED holds
  /\ UNCHANGED <<catalog, keyed, received, runVars, load, faulted, cut, refused>>

-------------------------------------------------------------------------------
(* The swap *)

SwapAtOnce ==
  /\ pc = "swap" /\ job.atomic
  /\ catalog' = [catalog EXCEPT !["target"] = catalog["stage"], !["stage"] = catalog["target"]]
  /\ pc' = "swapped"
  /\ step' = 0
  /\ UNCHANGED <<holds, keyed, received, runVars, load, complete, faulted, cut, refused>>

RenameStep ==
  /\ pc = "swap" /\ ~job.atomic
  /\ Rename(Renames[step][1], Renames[step][2])
  /\ IF step = 3 THEN pc' = "swapped" /\ step' = 0
                 ELSE step' = step + 1 /\ UNCHANGED pc
  /\ UNCHANGED <<holds, keyed, received, runVars, load, complete, faulted, cut, refused>>

RenameFails ==
  /\ pc = "swap" /\ ~job.atomic
  /\ pc' = "undo"
  /\ step' = step - 1
  /\ faulted' = TRUE
  /\ UNCHANGED <<database, received, runVars, load, complete, cut, refused>>

(* The renames that worked are undone, the last first. *)
UndoStep ==
  /\ pc = "undo" /\ step > 0
  /\ Rename(Renames[step][2], Renames[step][1])
  /\ step' = step - 1
  /\ UNCHANGED <<holds, keyed, pc, received, runVars, load, complete, faulted, cut, refused>>

(* An undo that fails is logged, and the ones before it are tried. *)
UndoFails ==
  /\ pc = "undo" /\ step > 0
  /\ step' = step - 1
  /\ cut' = TRUE
  /\ UNCHANGED <<database, pc, received, runVars, load, complete, faulted, refused>>

(* The swap's error is raised, unless a SIGTERM came meanwhile. *)
Undone ==
  /\ pc = "undo" /\ step = 0
  /\ IF received THEN RunOver("failed") ELSE AttemptFails
  /\ UNCHANGED <<database, load, complete, faulted, cut, refused>>

SwappedAndLeft ==  \* mutant: what the target held stays in the stage
  /\ pc = "swapped"
  /\ IF received
     THEN RunOver("failed")
     ELSE pc' = "post" /\ UNCHANGED <<step, received, runVars>>
  /\ UNCHANGED <<database, load, complete, faulted, cut, refused>>

Swapped ==
  /\ pc = "swapped"
  /\ IF received
     THEN RunOver("failed")
     ELSE /\ pc' = IF job.masked THEN "empty" ELSE "post"
          /\ UNCHANGED <<step, received, runVars>>
  /\ UNCHANGED <<database, load, complete, faulted, cut, refused>>

-------------------------------------------------------------------------------
(* After it *)

EmptyStage ==
  /\ pc = "empty"
  /\ holds' = [holds EXCEPT ![catalog["stage"]] = Empty]
  /\ pc' = "post"
  /\ UNCHANGED <<catalog, keyed, step, received, runVars, load, complete, faulted, cut, refused>>

(* The rows of the load replace those of the target, by key. *)
Upsert ==
  /\ pc = "upsert"
  /\ holds' = [holds EXCEPT ![catalog["target"]] = load]
  /\ pc' = "post"
  /\ step' = 0
  /\ UNCHANGED <<catalog, keyed, received, runVars, load, complete, faulted, cut, refused>>

(* The postTargetAdhocQueries, and the records. *)
Done ==
  /\ pc = "post"
  /\ RunOver("completed")
  /\ UNCHANGED <<database, load, complete, faulted, cut, refused>>

(* The database, or the connection to it, fails; a swap with a SIGTERM     *)
(* deferred, for good.                                                     *)
Fault ==
  /\ pc \notin {"idle", "undo", "swapped", "keys"} /\ (pc = "swap" => job.atomic)
  /\ IF received THEN RunOver("failed") ELSE AttemptFails
  /\ faulted' = TRUE
  /\ UNCHANGED <<database, load, complete, cut, refused>>

TerminateAtOnce ==  \* mutant: a swap does not defer it
  /\ pc # "idle"
  /\ RunOver("failed")
  /\ faulted' = TRUE
  /\ UNCHANGED <<database, load, complete, cut, refused>>

(* SIGTERM, which a swap acts upon when it is over. *)
Terminate ==
  /\ pc # "idle"
  /\ IF InSwap
     THEN received' = TRUE /\ UNCHANGED <<pc, step, runVars>>
     ELSE RunOver("failed")
  /\ faulted' = TRUE
  /\ UNCHANGED <<database, load, complete, cut, refused>>

Kill ==
  /\ pc # "idle"
  /\ RunOver("failed")
  /\ faulted' = TRUE
  /\ cut' = (cut \/ Exists("temp"))
  /\ UNCHANGED <<database, load, complete, refused>>

Next ==
  \/ StartRun \/ Query \/ Recover \/ Prepare \/ TableMissing \/ GiveKeys \/ Load
  \/ SwapAtOnce \/ RenameStep \/ RenameFails \/ UndoStep \/ UndoFails \/ Undone \/ Swapped
  \/ EmptyStage \/ Upsert \/ Done
  \/ Fault \/ Terminate \/ Kill

Spec == Init /\ [][Next]_vars

-------------------------------------------------------------------------------
(* Properties *)

(* With the target renamed away, the swap may still be undone as long as   *)
(* its process is at it; otherwise it can only be finished.                *)
MayBeUndone == pc = "swap" \/ (pc = "undo" /\ step >= 2)

Shown ==
  LET name == IF Exists("target") THEN "target" ELSE IF MayBeUndone THEN "stage" ELSE "temp"
  IN  holds[catalog[name]]

(* However a swap is stopped, undone or put right, the target's readers    *)
(* get a complete load, and never an older one after a newer.              *)
Promise == INSTANCE Replacement WITH shown <- Shown

IsReplacement == Promise!Spec

(* A swap that fails, or is asked to stop, leaves no table under the       *)
(* temporary name: only a kill between two renames, or an undo that the    *)
(* database refused, does.                                                 *)
OnlyACutLeavesTemp == pc = "idle" /\ Exists("temp") => cut

(* Whatever an earlier run left, a run that swaps puts it right: it fails  *)
(* only for what happens to itself.                                        *)
SwapRunPutsRight ==
  [][pc # "idle" /\ outcome' = "failed" /\ Swaps /\ ~job.inPlace => faulted']_vars

(* The next run of the job puts an interrupted swap right before loading,  *)
(* the documentation says.  One that masks in place queries the missing    *)
(* target first, and one that upserts after a full refresh does not try.   *)
NextRunPutsRight == outcome = "failed" => faulted

(* The live table has its keys, indexes and grants after every swap, not   *)
(* every other one, as long as the database would give them to the stage.  *)
KeysKept == Exists("target") /\ ~refused => catalog["target"] \in keyed

(* What a table held before it was masked in place is under no name once   *)
(* the job completed.                                                      *)
OriginalGone ==
  job.inPlace /\ job.masked /\ outcome = "completed" =>
    \A n \in Names : Exists(n) => holds[catalog[n]] # 0
===============================================================================
