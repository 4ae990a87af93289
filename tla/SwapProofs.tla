------------------------------- MODULE SwapProofs -------------------------------
(***************************************************************************)
(* Theorems about Swap, for any kinds of jobs, retries and runs.           *)
(***************************************************************************)
EXTENDS Swap, TLAPS

(* Where the two tables may be: as before and after a swap, or as its      *)
(* first or its second rename left them.                                   *)
Whole == Exists("target") /\ Exists("stage") /\ ~Exists("temp")
StageAway == Exists("target") /\ ~Exists("stage") /\ Exists("temp")
TargetAway == ~Exists("target") /\ Exists("stage") /\ Exists("temp")

NamesInv ==
  /\ Whole \/ StageAway \/ TargetAway
  /\ \A m, n \in Names : m # n /\ Exists(m) => catalog[m] # catalog[n]
  /\ Exists("temp") => ~job.atomic

(* How far the renames are, at each step of a job. *)
StepInv ==
  /\ pc \notin {"idle", "query", "recover", "prepare", "swap", "undo"} => Whole
  /\ pc = "prepare" /\ Swaps => Whole
  /\ pc = "swap" => \/ step = 1 /\ Whole
                    \/ step = 2 /\ StageAway
                    \/ step = 3 /\ TargetAway
  /\ pc = "undo" => \/ step = 2 /\ TargetAway
                    \/ step = 1 /\ (StageAway \/ (TargetAway /\ cut))
                    \/ step = 0 /\ (Whole \/ cut)
  /\ pc = "undo" => ~job.atomic

CutInv == Exists("temp") => cut \/ pc \in {"swap", "undo"}

KeysInv ==
  ~refused =>
    /\ Whole => catalog["target"] \in keyed
    /\ Exists("temp") \/ pc \in {"swap", "undo", "swapped"} \/ (pc = "load" /\ Swaps) => keyed = Tables

(* The names of the table the last swap showed and of the one it would.    *)
Old == IF Exists("target") THEN "target" ELSE "stage"
New == IF Exists("temp") THEN "temp" ELSE "stage"

LoadInv ==
  /\ \A n \in complete : n <= load
  /\ pc \in {"keys", "load"} => load \notin complete
  /\ holds[catalog[Old]] \in complete
  /\ Exists("temp") \/ pc \in {"swap", "undo"} =>
       holds[catalog[New]] \in complete /\ holds[catalog[Old]] < holds[catalog[New]]
  /\ pc = "upsert" => load \in complete /\ holds[catalog[Old]] < load

IInv == TypeOK /\ NamesInv /\ StepInv /\ CutInv /\ KeysInv /\ LoadInv

-------------------------------------------------------------------------------
(* The invariant, part by part                                             *)

LEMMA InitInv == Init => IInv
<1> SUFFICES ASSUME Init PROVE IInv
  OBVIOUS
<1> USE DEF Init
<1>1. TypeOK
  <2>1. catalog \in [Names -> Tables \cup {None}]
    BY DEF Names, Tables, None
  <2>2. holds \in [Tables -> Contents]
    BY DEF Tables, Contents, Empty
  <2>3. keyed \subseteq Tables /\ job \in JobConfigs /\ step \in 0..3 /\ load \in Nat /\ complete \subseteq Nat
    BY DEF Tables
  <2>4. attempt \in 1..(Retries + 1) /\ runs \in 0..MaxRuns
    BY SwapAssumption
  <2> QED
    BY <2>1, <2>2, <2>3, <2>4 DEF TypeOK
<1>2. Whole
  BY DEF Whole, Exists, Names, None
<1>3. NamesInv
  BY <1>2 DEF NamesInv, Whole, Exists, Names, None
<1>4. StepInv /\ CutInv
  BY <1>2 DEF StepInv, CutInv, Whole
<1>5. KeysInv
  BY <1>2 DEF KeysInv, Whole, Names
<1>6. LoadInv
  BY <1>2 DEF LoadInv, Whole, Old, New, Names, Tables
<1> QED
  BY <1>1, <1>3, <1>4, <1>5, <1>6 DEF IInv

(* How an attempt, and a run, may end. *)
LEMMA EndsKeepType ==
  ASSUME TypeOK, AttemptFails \/ RunOver("failed") \/ RunOver("completed")
  PROVE  /\ job' \in JobConfigs /\ pc' \in {"idle", "query"} /\ refresh' \in BOOLEAN
         /\ attempt' \in 1..(Retries + 1) /\ step' = 0 /\ received' \in BOOLEAN
         /\ outcome' \in {"none", "completed", "failed"} /\ runs' \in 0..MaxRuns
         /\ job' = job
<1> USE SwapAssumption DEF TypeOK
<1>1. ASSUME NEW result \in {"failed", "completed"}, RunOver(result)
      PROVE  /\ job' \in JobConfigs /\ pc' \in {"idle", "query"} /\ refresh' \in BOOLEAN
             /\ attempt' \in 1..(Retries + 1) /\ step' = 0 /\ received' \in BOOLEAN
             /\ outcome' \in {"none", "completed", "failed"} /\ runs' \in 0..MaxRuns
             /\ job' = job
  <2>1. refresh' \in BOOLEAN /\ received' \in BOOLEAN
    BY <1>1 DEF RunOver
  <2>2. attempt' \in 1..(Retries + 1)
    BY <1>1 DEF RunOver
  <2>3. job' = job /\ job' \in JobConfigs /\ runs' \in 0..MaxRuns
    BY <1>1 DEF RunOver
  <2> QED
    BY <1>1, <2>1, <2>2, <2>3 DEF RunOver
<1>2. CASE Retry
  BY <1>2 DEF Retry
<1> QED
  BY <1>1, <1>2 DEF AttemptFails

(* What the database holds keeps its type.                               *)
LEMMA DatabaseType ==
  ASSUME TypeOK, StepInv, [Next]_vars
  PROVE  /\ catalog' \in [Names -> Tables \cup {None}]
         /\ holds' \in [Tables -> Contents]
         /\ keyed' \subseteq Tables
<1> USE SwapAssumption DEF TypeOK, database
<1>1. CASE Recover
  BY <1>1 DEF Recover, Rename, Exists, Names, None
<1>2. CASE Prepare
  BY <1>2 DEF Prepare, Contents, Empty, Names
<1>3. CASE GiveKeys
  <2>1. "stage" \in Names /\ Exists("stage")
    BY <1>3 DEF GiveKeys, StepInv, Whole, Names
  <2>2. catalog["stage"] \in Tables
    BY <2>1 DEF Exists
  <2> QED
    BY <1>3, <2>2 DEF GiveKeys
<1>4. CASE Load
  BY <1>4 DEF Load, Contents
<1>5. CASE SwapAtOnce
  BY <1>5 DEF SwapAtOnce, Names
<1>6. CASE RenameStep
  <2>1. step \in 1..3
    BY <1>6 DEF RenameStep, StepInv
  <2>2. Renames[step][1] \in Names /\ Renames[step][2] \in Names
    BY <2>1 DEF Renames, Names
  <2> QED
    BY <1>6, <2>2 DEF RenameStep, Rename
<1>7. CASE UndoStep
  <2>1. step \in 1..3
    BY <1>7 DEF UndoStep
  <2>2. Renames[step][1] \in Names /\ Renames[step][2] \in Names
    BY <2>1 DEF Renames, Names
  <2> QED
    BY <1>7, <2>2 DEF UndoStep, Rename
<1>8. CASE EmptyStage
  BY <1>8 DEF EmptyStage, Contents
<1>9. CASE Upsert
  BY <1>9 DEF Upsert, Contents
<1>10. CASE UNCHANGED database
  BY <1>10
<1> QED
  BY <1>1, <1>2, <1>3, <1>4, <1>5, <1>6, <1>7, <1>8, <1>9, <1>10 DEF Next, vars, StartRun, Query, TableMissing, RenameFails, UndoFails,
     Undone, Swapped, Done, Fault, Terminate, Kill

(* So does the history.                                                   *)
LEMMA HistoryType ==
  ASSUME TypeOK, [Next]_vars
  PROVE  load' \in Nat /\ complete' \subseteq Nat /\ faulted' \in BOOLEAN /\ cut' \in BOOLEAN /\ refused' \in BOOLEAN
<1>1. CASE Prepare
  BY <1>1 DEF Prepare, TypeOK
<1>2. CASE Load
  BY <1>2, ZenonT(30) DEF Load, TypeOK
<1>3. CASE UNCHANGED <<load, complete>> /\ faulted' \in {faulted, TRUE, FALSE} /\ cut' \in {cut, TRUE, FALSE, cut \/ Exists("temp")}
           /\ refused' \in {refused, TRUE}
  BY <1>3 DEF TypeOK
<1> QED
  BY <1>1, <1>2, <1>3 DEF Next, vars, StartRun, Query, Recover, TableMissing, GiveKeys, SwapAtOnce, RenameStep, RenameFails,
     UndoStep, UndoFails, Undone, Swapped, EmptyStage, Upsert, Done, Fault, Terminate, Kill

(* And the job's process.                                                 *)
LEMMA JobType ==
  ASSUME TypeOK, StepInv, [Next]_vars
  PROVE  /\ job' \in JobConfigs
         /\ pc' \in {"idle", "query", "recover", "prepare", "keys", "load", "swap", "undo", "swapped",
                   "upsert", "empty", "post"}
         /\ refresh' \in BOOLEAN
         /\ attempt' \in 1..(Retries + 1)
         /\ step' \in 0..3
         /\ received' \in BOOLEAN
         /\ outcome' \in {"none", "completed", "failed"}
         /\ runs' \in 0..MaxRuns
<1> USE SwapAssumption DEF TypeOK, runVars
<1>1. CASE StartRun
  BY <1>1 DEF StartRun
<1>2. CASE Query
  BY <1>2 DEF Query
<1>3. CASE Recover
  BY <1>3 DEF Recover
<1>4. CASE Prepare
  BY <1>4 DEF Prepare
<1>5. CASE TableMissing
  BY <1>5, EndsKeepType DEF TableMissing
<1>6. CASE GiveKeys
  BY <1>6 DEF GiveKeys
<1>7. CASE Load
  BY <1>7 DEF Load
<1>8. CASE SwapAtOnce
  BY <1>8 DEF SwapAtOnce
<1>9. CASE RenameStep
  BY <1>9 DEF RenameStep, StepInv
<1>10. CASE RenameFails
  BY <1>10 DEF RenameFails, StepInv
<1>11. CASE UndoStep
  BY <1>11 DEF UndoStep
<1>12. CASE UndoFails
  BY <1>12 DEF UndoFails
<1>13. CASE Undone
  BY <1>13, EndsKeepType DEF Undone
<1>14. CASE Swapped
  BY <1>14, EndsKeepType DEF Swapped
<1>15. CASE EmptyStage
  BY <1>15 DEF EmptyStage
<1>16. CASE Upsert
  BY <1>16 DEF Upsert
<1>17. CASE Done
  BY <1>17, EndsKeepType DEF Done
<1>18. CASE Fault
  BY <1>18, EndsKeepType DEF Fault
<1>19. CASE Terminate
  <2>1. CASE InSwap
    BY <1>19, <2>1 DEF Terminate
  <2>2. CASE ~InSwap
    BY <1>19, <2>2, EndsKeepType DEF Terminate
  <2> QED
    BY <2>1, <2>2
<1>20. CASE Kill
  BY <1>20, EndsKeepType DEF Kill
<1>21. CASE UNCHANGED vars
  BY <1>21 DEF vars
<1> QED
  BY <1>1, <1>2, <1>3, <1>4, <1>5, <1>6, <1>7, <1>8, <1>9, <1>10, <1>11, <1>12, <1>13, <1>14, <1>15, <1>16, <1>17, <1>18, <1>19, <1>20, <1>21 DEF Next

LEMMA TypeStep == TypeOK /\ StepInv /\ [Next]_vars => TypeOK'
  BY DatabaseType, HistoryType, JobType DEF TypeOK

(* The job keeps its configuration. *)
LEMMA JobStays ==
  ASSUME TypeOK, [Next]_vars
  PROVE  job' = job
  BY EndsKeepType DEF Next, vars, runVars, StartRun, Query, Recover, Prepare, TableMissing, GiveKeys, Load,
     SwapAtOnce, RenameStep, RenameFails, UndoStep, UndoFails, Undone, Swapped, EmptyStage, Upsert, Done,
     Fault, Terminate, Kill

(* Where nothing is renamed, the tables stay where they are.              *)
LEMMA SameNames ==
  ASSUME UNCHANGED catalog
  PROVE  /\ \A n \in Names : Exists(n)' <=> Exists(n)
         /\ Whole' <=> Whole
         /\ StageAway' <=> StageAway
         /\ TargetAway' <=> TargetAway
         /\ Old' = Old
         /\ New' = New
  BY DEF Exists, Whole, StageAway, TargetAway, Old, New

LEMMA NamesStep == IInv /\ [Next]_vars => NamesInv'
<1> SUFFICES ASSUME IInv, [Next]_vars PROVE NamesInv'
  OBVIOUS
<1>0. job' = job
  BY JobStays DEF IInv
<1>1. CASE UNCHANGED catalog
  BY <1>0, <1>1, SameNames DEF IInv, NamesInv, Exists, Names
<1> USE DEF Exists, Whole, StageAway, TargetAway, Names
<1>t. catalog \in [Names -> Tables \cup {None}]
  BY DEF IInv, TypeOK
<1>2. CASE Recover
  BY <1>0, <1>2, <1>t DEF IInv, NamesInv, Recover, Rename
<1>3. CASE SwapAtOnce
  BY <1>0, <1>3, <1>t DEF IInv, NamesInv, SwapAtOnce
<1>4. CASE RenameStep
  BY <1>0, <1>4, <1>t DEF IInv, NamesInv, StepInv, RenameStep, Rename, Renames
<1>5. CASE UndoStep
  BY <1>0, <1>5, <1>t DEF IInv, NamesInv, StepInv, UndoStep, Rename, Renames
<1> QED
  BY <1>1, <1>2, <1>3, <1>4, <1>5 DEF Next, vars, database, StartRun, Query, Prepare, TableMissing,
     GiveKeys, Load, RenameFails, UndoFails, Undone, Swapped, EmptyStage, Upsert, Done, Fault, Terminate, Kill

(* An attempt that ends has nothing to keep of the renames.               *)
LEMMA EndsAtNoStep ==
  ASSUME TypeOK, AttemptFails \/ RunOver("failed") \/ RunOver("completed")
  PROVE  StepInv'
  BY EndsKeepType DEF StepInv

LEMMA StepStep == IInv /\ [Next]_vars => StepInv'
<1> SUFFICES ASSUME IInv, [Next]_vars PROVE StepInv'
  OBVIOUS
<1>0. job' = job /\ TypeOK /\ StepInv
  BY JobStays DEF IInv
<1>t. catalog \in [Names -> Tables \cup {None}]
  BY <1>0 DEF TypeOK
<1>1. CASE StartRun
  BY <1>0, <1>1 DEF StartRun, StepInv
<1>2. CASE Query
  BY <1>0, <1>2 DEF Query, StepInv, Swaps, runVars
<1>3. CASE Recover
  BY <1>0, <1>3, <1>t DEF Recover, Rename, StepInv, IInv, NamesInv, Whole, StageAway, TargetAway, Exists, Names
<1>4. CASE Prepare
  BY <1>0, <1>4, <1>t DEF Prepare, StepInv, IInv, NamesInv, Whole, StageAway, TargetAway, Exists, Names
<1>5. CASE TableMissing
  BY <1>0, <1>5, EndsAtNoStep DEF TableMissing
<1>6. CASE GiveKeys
  BY <1>0, <1>6 DEF GiveKeys, StepInv, Whole, Exists
<1>7. CASE Load
  BY <1>0, <1>7 DEF Load, StepInv, Whole, Exists
<1>8. CASE SwapAtOnce
  BY <1>0, <1>8, <1>t DEF SwapAtOnce, StepInv, IInv, NamesInv, Whole, StageAway, TargetAway, Exists, Names
<1>9. CASE RenameStep
  BY <1>0, <1>9, <1>t DEF RenameStep, Rename, Renames, StepInv, Whole, StageAway, TargetAway, Exists, Names
<1>10. CASE RenameFails
  BY <1>0, <1>10 DEF RenameFails, StepInv, Whole, StageAway, TargetAway, Exists, database
<1>11. CASE UndoStep
  BY <1>0, <1>11, <1>t DEF UndoStep, Rename, Renames, StepInv, Whole, StageAway, TargetAway, Exists, Names
<1>12. CASE UndoFails
  BY <1>0, <1>12 DEF UndoFails, StepInv, Whole, StageAway, TargetAway, Exists, database
<1>13. CASE Undone
  BY <1>0, <1>13, EndsAtNoStep DEF Undone
<1>14. CASE Swapped
  <2>1. CASE received
    BY <1>0, <1>14, <2>1, EndsAtNoStep DEF Swapped
  <2>2. CASE ~received
    BY <1>0, <1>14, <2>2 DEF Swapped, StepInv, Whole, Exists, database
  <2> QED
    BY <2>1, <2>2
<1>15. CASE EmptyStage
  BY <1>0, <1>15 DEF EmptyStage, StepInv, Whole, Exists
<1>16. CASE Upsert
  BY <1>0, <1>16 DEF Upsert, StepInv, Whole, Exists
<1>17. CASE Done
  BY <1>0, <1>17, EndsAtNoStep DEF Done
<1>18. CASE Fault
  BY <1>0, <1>18, EndsAtNoStep DEF Fault
<1>19. CASE Terminate
  <2>1. CASE InSwap
    BY <1>0, <1>19, <2>1 DEF Terminate, StepInv, Whole, StageAway, TargetAway, Exists, database, runVars, Swaps
  <2>2. CASE ~InSwap
    BY <1>0, <1>19, <2>2, EndsAtNoStep DEF Terminate
  <2> QED
    BY <2>1, <2>2
<1>20. CASE Kill
  BY <1>0, <1>20, EndsAtNoStep DEF Kill
<1>21. CASE UNCHANGED vars
  BY <1>0, <1>21 DEF vars, runVars, database, StepInv, Whole, StageAway, TargetAway, Exists, Swaps
<1> QED
  BY <1>1, <1>2, <1>3, <1>4, <1>5, <1>6, <1>7, <1>8, <1>9, <1>10, <1>11, <1>12, <1>13, <1>14, <1>15, <1>16, <1>17, <1>18, <1>19, <1>20, <1>21 DEF Next

LEMMA CutStep == IInv /\ [Next]_vars => CutInv'
<1> SUFFICES ASSUME IInv, [Next]_vars PROVE CutInv'
  OBVIOUS
<1>0. TypeOK /\ StepInv /\ CutInv /\ NamesInv
  BY DEF IInv
<1>t. catalog \in [Names -> Tables \cup {None}]
  BY <1>0 DEF TypeOK
<1>1. CASE Recover
  BY <1>0, <1>1, <1>t DEF Recover, Rename, CutInv, NamesInv, Whole, StageAway, TargetAway, Exists, Names
<1>2. CASE SwapAtOnce
  BY <1>0, <1>2, <1>t DEF SwapAtOnce, CutInv, NamesInv, StepInv, Whole, StageAway, TargetAway, Exists, Names
<1>3. CASE RenameStep
  BY <1>0, <1>3, <1>t DEF RenameStep, Rename, Renames, CutInv, StepInv, Whole, StageAway, TargetAway, Exists, Names
<1>4. CASE RenameFails
  BY <1>0, <1>4 DEF RenameFails, CutInv, Exists, database
<1>5. CASE UndoStep
  BY <1>0, <1>5, <1>t DEF UndoStep, Rename, Renames, CutInv, Exists, Names
<1>6. CASE UndoFails
  BY <1>0, <1>6 DEF UndoFails, CutInv
<1>7. CASE Undone
  BY <1>0, <1>7 DEF Undone, CutInv, StepInv, Whole, Exists, database
<1>8. CASE Kill
  BY <1>0, <1>8 DEF Kill, CutInv, Exists, database
<1>9. CASE UNCHANGED <<catalog, cut>> /\ (pc' = pc \/ pc \notin {"swap", "undo"})
  BY <1>0, <1>9 DEF CutInv, Exists
<1>10. CASE Fault
  <2>1. ~Exists("temp") \/ cut
    BY <1>0, <1>10 DEF Fault, CutInv, NamesInv
  <2> QED
    BY <1>10, <2>1 DEF Fault, CutInv, Exists, database
<1>11. CASE Terminate
  <2>1. CASE InSwap
    BY <1>9, <1>11, <2>1 DEF Terminate, database
  <2>2. CASE ~InSwap
    BY <1>9, <1>11, <2>2 DEF Terminate, InSwap, database
  <2> QED
    BY <2>1, <2>2
<1> QED
  BY <1>1, <1>2, <1>3, <1>4, <1>5, <1>6, <1>7, <1>8, <1>9, <1>10, <1>11 DEF Next, vars, database, StartRun, Query,
     Prepare, TableMissing, GiveKeys, Load, Swapped, EmptyStage, Upsert, Done

LEMMA KeysStep == IInv /\ [Next]_vars => KeysInv'
<1> SUFFICES ASSUME IInv, [Next]_vars, ~refused' PROVE KeysInv'
  BY DEF KeysInv
<1>0. job' = job /\ TypeOK /\ StepInv /\ KeysInv /\ NamesInv
  BY JobStays DEF IInv
<1>t. catalog \in [Names -> Tables \cup {None}]
  BY <1>0 DEF TypeOK
<1>1. CASE Recover
  BY <1>0, <1>1, <1>t DEF Recover, Rename, KeysInv, NamesInv, Whole, StageAway, TargetAway, Exists, Names, Tables
<1>2. CASE GiveKeys
  BY <1>0, <1>2, <1>t DEF GiveKeys, KeysInv, NamesInv, StepInv, Whole, Exists, Names, Tables, None, TypeOK, runVars
<1>3. CASE SwapAtOnce
  BY <1>0, <1>3, <1>t DEF SwapAtOnce, KeysInv, NamesInv, StepInv, Whole, Exists, Names, Tables
<1>4. CASE RenameStep
  BY <1>0, <1>4, <1>t DEF RenameStep, Rename, Renames, KeysInv, StepInv, Whole, StageAway, TargetAway, Exists, Names
<1>5. CASE UndoStep
  BY <1>0, <1>5, <1>t DEF UndoStep, Rename, Renames, KeysInv, StepInv, Whole, StageAway, TargetAway, Exists, Names
<1>6. CASE Load
  BY <1>0, <1>6 DEF Load, KeysInv, Whole, Exists, Swaps, runVars
<1>7. CASE UNCHANGED <<catalog, keyed, refused>> /\ (pc' \in {"swap", "undo", "swapped"} => pc \in {"swap", "undo", "swapped"})
           /\ (pc' = "load" => UNCHANGED runVars /\ (pc' = pc \/ ~Swaps))
  BY <1>0, <1>7 DEF KeysInv, Whole, Exists, Swaps, runVars
<1>8. ASSUME AttemptFails \/ RunOver("failed") \/ RunOver("completed")
      PROVE  pc' \notin {"swap", "undo", "swapped", "load"}
  BY <1>0, <1>8, EndsKeepType
<1>9. CASE Terminate
  <2>1. CASE InSwap
    BY <1>7, <1>9, <2>1 DEF Terminate, database
  <2>2. CASE ~InSwap
    BY <1>7, <1>8, <1>9, <2>2 DEF Terminate, database
  <2> QED
    BY <2>1, <2>2
<1>10. CASE Swapped
  <2>1. CASE received
    BY <1>7, <1>8, <1>10, <2>1 DEF Swapped, database
  <2>2. CASE ~received
    BY <1>7, <1>10, <2>2 DEF Swapped, database
  <2> QED
    BY <2>1, <2>2
<1>11. CASE TableMissing \/ Undone \/ Done \/ Fault \/ Kill
  BY <1>7, <1>8, <1>11 DEF TableMissing, Undone, Done, Fault, Kill, database
<1>12. CASE StartRun \/ Query \/ Prepare \/ RenameFails \/ UndoFails \/ EmptyStage \/ Upsert
  BY <1>7, <1>12 DEF StartRun, Query, Prepare, RenameFails, UndoFails, EmptyStage, Upsert, database
<1>13. CASE UNCHANGED vars
  BY <1>7, <1>13 DEF vars, database
<1> QED
  BY <1>1, <1>2, <1>3, <1>4, <1>5, <1>6, <1>9, <1>10, <1>11, <1>12, <1>13 DEF Next

(* While no load completes and no table is touched, the loads stay right. *)
LEMMA SameLoads ==
  ASSUME LoadInv, UNCHANGED <<catalog, holds, load, complete>>, pc' \notin {"keys", "load", "upsert"},
         pc' \in {"swap", "undo"} => pc \in {"swap", "undo"}
  PROVE  LoadInv'
  BY DEF LoadInv, Old, New, Exists

LEMMA LoadStep == IInv /\ [Next]_vars => LoadInv'
<1> SUFFICES ASSUME IInv, [Next]_vars PROVE LoadInv'
  OBVIOUS
<1>0. job' = job /\ TypeOK /\ StepInv /\ LoadInv /\ NamesInv
  BY JobStays DEF IInv
<1>t. /\ catalog \in [Names -> Tables \cup {None}]
      /\ holds \in [Tables -> Contents]
      /\ load \in Nat /\ complete \subseteq Nat
  BY <1>0 DEF TypeOK
<1> USE DEF Names, Tables, None, Contents, Empty
<1>1. CASE Recover
  BY <1>0, <1>1, <1>t DEF Recover, Rename, LoadInv, NamesInv, Whole, StageAway, TargetAway, Exists, Old, New
<1>2. CASE Prepare
  BY <1>0, <1>2, <1>t DEF Prepare, LoadInv, NamesInv, Whole, StageAway, TargetAway, Exists, Old, New
<1>3. CASE GiveKeys
  BY <1>0, <1>3, <1>t DEF GiveKeys, LoadInv, StepInv, Whole, Exists, Old, New
<1>4. CASE Load
  <2>1. /\ catalog["target"] \in Tables /\ catalog["stage"] \in Tables
        /\ catalog["target"] # catalog["stage"]
        /\ ~Exists("temp") /\ Exists("target")
    BY <1>0, <1>4, <1>t DEF Load, NamesInv, StepInv, Whole, Exists
  <2>2. /\ Old = "target" /\ Old' = "target" /\ New' = "stage" /\ ~Exists("temp")'
    BY <1>4, <2>1 DEF Load, Old, New, Exists
  <2>3. holds'[catalog["target"]] = holds[catalog["target"]] /\ holds[catalog["target"]] < load
    BY <1>0, <1>4, <1>t, <2>1, <2>2 DEF Load, LoadInv
  <2>4. CASE holds[catalog["stage"]] # load
    <3>1. UNCHANGED <<catalog, load, complete, pc>> /\ pc = "load"
      BY <1>4, <2>4 DEF Load
    <3>2. holds'[catalog'[Old']] \in complete
      BY <1>0, <2>2, <2>3, <3>1 DEF LoadInv
    <3> QED
      BY <1>0, <2>2, <3>1, <3>2 DEF LoadInv
  <2>5. CASE holds[catalog["stage"]] = load
    <3>1. UNCHANGED <<catalog, load, holds>> /\ complete' = complete \cup {load} /\ pc' \in {"swap", "upsert"}
      BY <1>4, <2>5 DEF Load
    <3>2. \A n \in complete' : n <= load'
      BY <1>0, <1>t, <3>1 DEF LoadInv
    <3>3. holds'[catalog'[Old']] \in complete /\ holds'[catalog'[Old']] < load'
      BY <1>0, <2>2, <2>3, <3>1 DEF LoadInv
    <3>4. holds'[catalog'[New']] = load
      BY <2>2, <2>5, <3>1
    <3> QED
      BY <1>0, <3>1, <3>2, <3>3, <3>4 DEF LoadInv
  <2> QED
    BY <2>4, <2>5
<1>5. CASE SwapAtOnce
  BY <1>0, <1>5, <1>t DEF SwapAtOnce, LoadInv, NamesInv, StepInv, Whole, Exists, Old, New
<1>6. CASE RenameStep
  <2>1. CASE step = 1
    BY <1>0, <1>6, <1>t, <2>1 DEF RenameStep, Rename, Renames, LoadInv, NamesInv, StepInv, Whole, StageAway, TargetAway, Exists, Old, New
  <2>2. CASE step = 2
    BY <1>0, <1>6, <1>t, <2>2 DEF RenameStep, Rename, Renames, LoadInv, NamesInv, StepInv, Whole, StageAway, TargetAway, Exists, Old, New
  <2>3. CASE step = 3
    BY <1>0, <1>6, <1>t, <2>3 DEF RenameStep, Rename, Renames, LoadInv, NamesInv, StepInv, Whole, StageAway, TargetAway, Exists, Old, New
  <2>4. step \in {1, 2, 3}
    BY <1>0, <1>6 DEF RenameStep, StepInv
  <2> QED
    BY <2>1, <2>2, <2>3, <2>4
<1>7. CASE UndoStep
  <2>1. CASE step = 1
    BY <1>0, <1>7, <1>t, <2>1 DEF UndoStep, Rename, Renames, LoadInv, NamesInv, StepInv, Whole, StageAway, TargetAway, Exists, Old, New
  <2>2. CASE step = 2
    BY <1>0, <1>7, <1>t, <2>2 DEF UndoStep, Rename, Renames, LoadInv, NamesInv, StepInv, Whole, StageAway, TargetAway, Exists, Old, New
  <2>3. step \in {1, 2}
    BY <1>0, <1>7 DEF UndoStep, StepInv
  <2> QED
    BY <2>1, <2>2, <2>3
<1>8. CASE EmptyStage
  BY <1>0, <1>8, <1>t DEF EmptyStage, LoadInv, NamesInv, StepInv, Whole, Exists, Old, New
<1>9. CASE Upsert
  BY <1>0, <1>9, <1>t DEF Upsert, LoadInv, NamesInv, StepInv, Whole, Exists, Old, New
<1>10. ASSUME AttemptFails \/ RunOver("failed") \/ RunOver("completed")
       PROVE  pc' \notin {"swap", "undo", "keys", "load", "upsert"}
  BY <1>0, <1>10, EndsKeepType
<1>11. CASE Terminate
  <2>1. CASE InSwap
    BY <1>0, <1>11, <2>1, SameLoads DEF Terminate, InSwap, database
  <2>2. CASE ~InSwap
    BY <1>0, <1>10, <1>11, <2>2, SameLoads DEF Terminate, database
  <2> QED
    BY <2>1, <2>2
<1>12. CASE Swapped
  <2>1. CASE received
    BY <1>0, <1>10, <1>12, <2>1, SameLoads DEF Swapped, database
  <2>2. CASE ~received
    BY <1>0, <1>12, <2>2, SameLoads DEF Swapped, database
  <2> QED
    BY <2>1, <2>2
<1>13. CASE TableMissing \/ Undone \/ Done \/ Fault \/ Kill
  BY <1>0, <1>10, <1>13, SameLoads DEF TableMissing, Undone, Done, Fault, Kill, database
<1>14. CASE StartRun \/ Query \/ RenameFails \/ UndoFails
  BY <1>0, <1>14, SameLoads DEF StartRun, Query, RenameFails, UndoFails, database
<1>15. CASE UNCHANGED vars
  BY <1>0, <1>15 DEF vars, database, LoadInv, Old, New, Exists
<1> QED
  BY <1>1, <1>2, <1>3, <1>4, <1>5, <1>6, <1>7, <1>8, <1>9, <1>11, <1>12, <1>13, <1>14, <1>15 DEF Next

LEMMA InvStep == IInv /\ [Next]_vars => IInv'
  BY TypeStep, NamesStep, StepStep, CutStep, KeysStep, LoadStep DEF IInv

-------------------------------------------------------------------------------
(* What follows of every behaviour                                         *)

LEMMA Invariant == Spec => []IInv
  BY InitInv, InvStep, PTL DEF Spec

(* Every variable keeps its type.                                          *)
THEOREM TypeCorrect == Spec => []TypeOK
<1>1. IInv => TypeOK
  BY DEF IInv
<1> QED
  BY Invariant, <1>1, PTL

(* Between two runs a table has the temporary name only if a kill, or an   *)
(* undo the database refused, left a swap part-way.                        *)
THEOREM TempOnlyAfterACut == Spec => []OnlyACutLeavesTemp
<1>1. IInv => OnlyACutLeavesTemp
  BY DEF IInv, CutInv, OnlyACutLeavesTemp
<1> QED
  BY Invariant, <1>1, PTL

(* The live table has its keys after every swap, the stage having been     *)
(* given them before the load.                                             *)
THEOREM KeysAfterEverySwap == Spec => []KeysKept
<1>1. ASSUME IInv PROVE KeysKept
  <2>1. catalog["target"] \in Tables \cup {None}
    BY <1>1 DEF IInv, TypeOK, Names
  <2> QED
    BY <1>1, <2>1 DEF IInv, KeysInv, NamesInv, Whole, StageAway, TargetAway, KeysKept, Exists
<1> QED
  BY Invariant, <1>1, PTL

-------------------------------------------------------------------------------
(* A run that swaps fails only for what happens to itself                  *)

FaultInv ==
  /\ pc = "undo" \/ received => faulted
  /\ received => InSwap
  /\ pc # "idle" => outcome = "none"

LEMMA FaultStep == TypeOK /\ FaultInv /\ [Next]_vars => FaultInv'
<1> SUFFICES ASSUME TypeOK, FaultInv, [Next]_vars PROVE FaultInv'
  OBVIOUS
<1> USE DEF FaultInv
<1>1. ASSUME AttemptFails \/ RunOver("failed") \/ RunOver("completed"), UNCHANGED faulted \/ faulted',
             pc # "idle", received => RunOver("failed")
      PROVE  FaultInv'
  BY <1>1 DEF AttemptFails, Retry, RunOver, InSwap
<1>2. CASE Terminate
  <2>1. CASE InSwap
    BY <1>2, <2>1 DEF Terminate, InSwap, runVars
  <2>2. CASE ~InSwap
    BY <1>1, <1>2, <2>2 DEF Terminate
  <2> QED
    BY <2>1, <2>2
<1>3. CASE Swapped
  <2>1. CASE received
    BY <1>1, <1>3, <2>1 DEF Swapped
  <2>2. CASE ~received
    BY <1>3, <2>2 DEF Swapped, runVars
  <2> QED
    BY <2>1, <2>2
<1>4. CASE TableMissing \/ Undone \/ Done \/ Fault \/ Kill
  BY <1>1, <1>4 DEF TableMissing, Undone, Done, Fault, Kill, InSwap
<1>5. CASE StartRun
  BY <1>5 DEF StartRun, InSwap
<1>6. CASE Query \/ Recover \/ Prepare \/ GiveKeys \/ Load \/ SwapAtOnce \/ RenameStep \/ RenameFails
           \/ UndoStep \/ UndoFails \/ EmptyStage \/ Upsert
  BY <1>6 DEF Query, Recover, Prepare, GiveKeys, Load, SwapAtOnce, RenameStep, RenameFails, UndoStep, UndoFails,
     EmptyStage, Upsert, InSwap, runVars
<1>7. CASE UNCHANGED vars
  BY <1>7 DEF vars, runVars, InSwap
<1> QED
  BY <1>2, <1>3, <1>4, <1>5, <1>6, <1>7 DEF Next

(* A run that swaps, of a job that does not mask in place, fails only by a *)
(* fault, a signal or a kill of its own: what an earlier run left part-way *)
(* it puts right before it needs the tables.                               *)
THEOREM SwapRunsPutRight == Spec => SwapRunPutsRight
<1>1. Init => FaultInv
  BY DEF Init, FaultInv
<1>2. ASSUME IInv, FaultInv, Next, pc # "idle", outcome' = "failed", Swaps, ~job.inPlace
      PROVE  faulted'
  <2>1. ~TableMissing
    BY <1>2 DEF IInv, StepInv, TableMissing, Whole
  <2>2. ASSUME UNCHANGED outcome PROVE FALSE
    BY <1>2, <2>2 DEF FaultInv
  <2>3. CASE Undone \/ Swapped
    <3>1. CASE received
      BY <1>2, <2>3, <3>1 DEF Undone, Swapped, FaultInv
    <3>2. CASE ~received
      BY <1>2, <2>2, <2>3, <3>2 DEF Undone, Swapped, FaultInv, runVars
    <3> QED
      BY <3>1, <3>2
  <2>4. CASE Fault \/ Terminate \/ Kill
    BY <2>4 DEF Fault, Terminate, Kill
  <2>5. CASE Done
    BY <1>2, <2>5 DEF Done, RunOver
  <2> QED
    BY <1>2, <2>1, <2>2, <2>3, <2>4, <2>5 DEF Next, StartRun, Query, Recover, Prepare, GiveKeys, Load, SwapAtOnce,
       RenameStep, RenameFails, UndoStep, UndoFails, EmptyStage, Upsert, runVars
<1>3. IInv /\ FaultInv /\ [Next]_vars =>
        [pc # "idle" /\ outcome' = "failed" /\ Swaps /\ ~job.inPlace => faulted']_vars
  BY <1>2
<1>4. IInv => TypeOK
  BY DEF IInv
<1> QED
  BY Invariant, FaultStep, <1>1, <1>3, <1>4, PTL DEF Spec, SwapRunPutsRight

-------------------------------------------------------------------------------
(* A table that is swapped is a table that is replaced                     *)

(* The load the readers are owed, in terms of the last swap.               *)
LEMMA WhatIsShown ==
  ASSUME IInv
  PROVE  Shown = holds[catalog[IF Exists("target") \/ MayBeUndone THEN Old ELSE New]]
  BY DEF IInv, NamesInv, Whole, StageAway, TargetAway, Shown, Old, New

LEMMA SameShown ==
  ASSUME UNCHANGED <<catalog, holds>>, Exists("target") \/ (MayBeUndone' <=> MayBeUndone)
  PROVE  Shown' = Shown
  BY DEF Shown, Exists

(* With the target renamed away, no longer undoing shows the newer load.   *)
LEMMA GivingUpShows ==
  ASSUME IInv, IInv', UNCHANGED <<catalog, holds, complete>>, ~MayBeUndone'
  PROVE  Promise!Show \/ Shown' = Shown
<1>1. CASE Exists("target") \/ ~MayBeUndone
  BY <1>1, SameShown
<1>2. CASE ~Exists("target") /\ MayBeUndone
  <2>1. Exists("temp")
    BY <1>2 DEF IInv, NamesInv, Whole, StageAway, TargetAway
  <2>2. Shown = holds[catalog[Old]] /\ Shown' = holds[catalog[New]]
    BY <1>2, WhatIsShown DEF Shown, New, Old, IInv, NamesInv, Whole, StageAway, TargetAway, Exists
  <2> QED
    BY <2>1, <2>2 DEF IInv, LoadInv, Promise!Show
<1> QED
  BY <1>1, <1>2

LEMMA PromiseStep == IInv /\ IInv' /\ [Next]_vars => [Promise!Next]_Promise!vars
<1> SUFFICES ASSUME IInv, IInv', [Next]_vars
             PROVE  Promise!Complete \/ Promise!Show \/ (UNCHANGED complete /\ Shown' = Shown)
  BY DEF Promise!Next, Promise!vars
<1>0. TypeOK /\ StepInv /\ NamesInv /\ LoadInv
  BY DEF IInv
<1>t. /\ catalog \in [Names -> Tables \cup {None}]
      /\ holds \in [Tables -> Contents]
      /\ load \in Nat /\ complete \subseteq Nat
  BY <1>0 DEF TypeOK
<1>w. ASSUME Whole
      PROVE  /\ Shown = holds[catalog["target"]] /\ ~Exists("temp") /\ Exists("target")
             /\ catalog["target"] \in Tables /\ catalog["stage"] \in Tables /\ catalog["target"] # catalog["stage"]
  BY <1>0, <1>t, <1>w DEF Whole, NamesInv, Shown, Exists, Names
<1>1. CASE Recover
  <2>1. ~MayBeUndone /\ ~MayBeUndone'
    BY <1>1 DEF Recover, MayBeUndone
  <2> QED
    BY <1>0, <1>1, <1>t, <2>1 DEF Recover, Rename, NamesInv, Whole, StageAway, TargetAway, Shown, Exists, Names
<1>2. CASE Prepare
  <2>1. Whole
    BY <1>0, <1>2 DEF Prepare, NamesInv, Whole, StageAway, TargetAway
  <2> QED
    BY <1>2, <1>t, <1>w, <2>1 DEF Prepare, Shown, Exists
<1>3. CASE Load
  <2>1. Whole /\ load \notin complete
    BY <1>0, <1>3 DEF Load, StepInv, LoadInv
  <2>2. Shown' = Shown
    BY <1>3, <1>t, <1>w, <2>1 DEF Load, Shown, Exists
  <2>3. CASE holds[catalog["stage"]] # load
    BY <1>3, <2>2, <2>3 DEF Load
  <2>4. CASE holds[catalog["stage"]] = load
    <3>1. complete' = complete \cup {load}
      BY <1>3, <2>4 DEF Load
    <3>2. \A m \in complete : m < load
      BY <1>0, <1>t, <2>1 DEF LoadInv
    <3> QED
      BY <2>2, <3>1, <3>2 DEF Promise!Complete
  <2> QED
    BY <2>3, <2>4
<1>4. CASE SwapAtOnce
  <2>1. Whole
    BY <1>0, <1>4 DEF SwapAtOnce, StepInv, NamesInv, StageAway, TargetAway
  <2>2. Shown' = holds[catalog["stage"]]
    BY <1>4, <1>t, <1>w, <2>1 DEF SwapAtOnce, Shown, Whole, Exists, Names
  <2>3. holds[catalog["stage"]] \in complete /\ holds[catalog["target"]] < holds[catalog["stage"]]
    BY <1>0, <1>4, <1>w, <2>1 DEF SwapAtOnce, LoadInv, Old, New
  <2> QED
    BY <1>4, <1>w, <2>1, <2>2, <2>3 DEF SwapAtOnce, Promise!Show
<1>5. CASE RenameStep
  <2>1. CASE step = 3
    <3>1. TargetAway
      BY <1>0, <1>5, <2>1 DEF RenameStep, StepInv
    <3>2. Shown = holds[catalog[Old]]
      BY <1>5, WhatIsShown DEF RenameStep, MayBeUndone
    <3>3. Shown' = holds[catalog[New]]
      BY <1>5, <1>t, <2>1, <3>1 DEF RenameStep, Rename, Renames, Shown, New, TargetAway, Exists, Names
    <3> QED
      BY <1>0, <1>5, <3>1, <3>2, <3>3 DEF RenameStep, LoadInv, TargetAway, Promise!Show
  <2>2. CASE step # 3
    BY <1>0, <1>5, <1>t, <2>2 DEF RenameStep, Rename, Renames, StepInv, NamesInv, Whole, StageAway, TargetAway, Shown, MayBeUndone,
       Exists, Names
  <2> QED
    BY <2>1, <2>2
<1>6. CASE RenameFails
  <2>1. Exists("target") \/ (MayBeUndone' /\ MayBeUndone)
    BY <1>0, <1>6 DEF RenameFails, StepInv, Whole, StageAway, MayBeUndone
  <2> QED
    BY <1>6, <2>1, SameShown DEF RenameFails, database
<1>7. CASE UndoStep
  BY <1>0, <1>7, <1>t DEF UndoStep, Rename, Renames, StepInv, NamesInv, Whole, StageAway, TargetAway, Shown, MayBeUndone, Exists, Names
<1>8. CASE UndoFails
  <2>1. ~MayBeUndone'
    BY <1>0, <1>8 DEF UndoFails, StepInv, MayBeUndone
  <2> QED
    BY <1>8, <2>1, GivingUpShows DEF UndoFails, database
<1>9. CASE EmptyStage
  <2>1. Whole
    BY <1>0, <1>9 DEF EmptyStage, StepInv
  <2> QED
    BY <1>9, <1>t, <1>w, <2>1 DEF EmptyStage, Shown, Exists
<1>10. CASE Upsert
  <2>1. Whole
    BY <1>0, <1>10 DEF Upsert, StepInv
  <2>2. Shown' = load
    BY <1>10, <1>t, <1>w, <2>1 DEF Upsert, Shown, Exists
  <2>3. load \in complete /\ Shown < load
    BY <1>0, <1>10, <1>w, <2>1 DEF Upsert, LoadInv, Old
  <2> QED
    BY <1>10, <2>2, <2>3 DEF Upsert, Promise!Show
<1>11. ASSUME AttemptFails \/ RunOver("failed") \/ RunOver("completed"), UNCHANGED <<catalog, holds, complete>>
       PROVE  Promise!Show \/ (UNCHANGED complete /\ Shown' = Shown)
  <2>1. ~MayBeUndone'
    BY <1>0, <1>11, EndsKeepType DEF MayBeUndone
  <2> QED
    BY <1>11, <2>1, GivingUpShows
<1>12. CASE Terminate
  <2>1. CASE InSwap
    BY <1>12, <2>1, SameShown DEF Terminate, MayBeUndone, database
  <2>2. CASE ~InSwap
    BY <1>11, <1>12, <2>2 DEF Terminate, database
  <2> QED
    BY <2>1, <2>2
<1>13. CASE Swapped
  <2>1. CASE received
    BY <1>11, <1>13, <2>1 DEF Swapped, database
  <2>2. CASE ~received
    BY <1>13, <2>2, SameShown DEF Swapped, MayBeUndone, database
  <2> QED
    BY <2>1, <2>2
<1>14. CASE TableMissing \/ Undone \/ Done \/ Fault \/ Kill
  BY <1>11, <1>14 DEF TableMissing, Undone, Done, Fault, Kill, database
<1>15. CASE StartRun \/ Query \/ GiveKeys
  BY <1>15, SameShown DEF StartRun, Query, GiveKeys, MayBeUndone, database
<1>16. CASE UNCHANGED vars
  BY <1>16, SameShown DEF vars, MayBeUndone, database
<1> QED
  BY <1>1, <1>2, <1>3, <1>4, <1>5, <1>6, <1>7, <1>8, <1>9, <1>10, <1>12, <1>13, <1>14, <1>15, <1>16 DEF Next

(* However a swap is stopped, undone or put right, the target's readers    *)
(* are owed a complete load, and later only later ones.                    *)
THEOREM SwapReplaces == Spec => IsReplacement
<1>1. Init => Promise!Init
  BY DEF Init, Promise!Init, Shown, Exists, Names, Tables, None
<1> QED
  BY Invariant, PromiseStep, <1>1, PTL DEF Spec, IsReplacement, Promise!Spec

-------------------------------------------------------------------------------
(* A job that masks in place leaves the original nowhere                   *)

OriginalInv ==
  job.inPlace /\ job.masked =>
    /\ pc # "upsert"
    /\ pc \in {"swapped", "empty", "post"} => holds[catalog["target"]] # 0
    /\ pc = "post" => holds[catalog["stage"]] = Empty
    /\ outcome = "completed" =>
         pc = "idle" /\ Whole /\ holds[catalog["target"]] # 0 /\ holds[catalog["stage"]] = Empty

LEMMA OriginalStep == IInv /\ FaultInv /\ OriginalInv /\ [Next]_vars => OriginalInv'
<1> SUFFICES ASSUME IInv, FaultInv, OriginalInv, [Next]_vars, job'.inPlace, job'.masked PROVE OriginalInv'
  BY DEF OriginalInv
<1>0. /\ job' = job /\ TypeOK /\ StepInv /\ NamesInv /\ LoadInv
      /\ pc # "idle" => outcome # "completed"
  BY JobStays DEF IInv, FaultInv
<1>t. /\ catalog \in [Names -> Tables \cup {None}]
      /\ holds \in [Tables -> Contents]
      /\ complete \subseteq Nat
  BY <1>0 DEF TypeOK
<1>s. Swaps
  BY <1>0, SwapAssumption DEF TypeOK, JobConfig, Swaps
<1>n. \A m, n \in complete : m < n => n # 0
  BY <1>t
<1>1. ASSUME AttemptFails \/ RunOver("failed"), pc # "idle"
      PROVE  OriginalInv'
  BY <1>0, <1>1 DEF AttemptFails, Retry, RunOver, OriginalInv
<1>2. CASE StartRun
  BY <1>2 DEF StartRun, OriginalInv
<1>3. CASE Query \/ Recover \/ Prepare \/ GiveKeys \/ RenameFails \/ UndoStep \/ UndoFails
  BY <1>0, <1>3, <1>s DEF Query, Recover, Prepare, GiveKeys, RenameFails, UndoStep, UndoFails, OriginalInv, runVars
<1>4. CASE Load
  BY <1>0, <1>4, <1>s DEF Load, OriginalInv, runVars
<1>5. CASE SwapAtOnce
  <2>1. holds[catalog["stage"]] \in complete /\ holds[catalog["target"]] \in complete
        /\ holds[catalog["target"]] < holds[catalog["stage"]]
    BY <1>0, <1>5 DEF SwapAtOnce, StepInv, NamesInv, LoadInv, Whole, StageAway, TargetAway, Old, New
  <2>2. holds[catalog["stage"]] # 0
    BY <1>n, <2>1
  <2>3. holds'[catalog'["target"]] = holds[catalog["stage"]]
    BY <1>5, <1>t DEF SwapAtOnce, Names
  <2> QED
    BY <1>0, <1>5, <2>2, <2>3 DEF SwapAtOnce, OriginalInv, runVars
<1>6. CASE RenameStep
  <2>1. CASE step = 3
    <3>1. TargetAway
      BY <1>0, <1>6, <2>1 DEF RenameStep, StepInv
    <3>2. holds[catalog["temp"]] \in complete /\ holds[catalog["stage"]] \in complete
          /\ holds[catalog["stage"]] < holds[catalog["temp"]]
      BY <1>0, <3>1 DEF LoadInv, TargetAway, Old, New
    <3>3. holds'[catalog'["target"]] = holds[catalog["temp"]]
      BY <1>6, <1>t, <2>1 DEF RenameStep, Rename, Renames, Names
    <3>4. holds[catalog["temp"]] # 0
      BY <1>n, <3>2
    <3> QED
      BY <1>0, <1>6, <2>1, <3>3, <3>4 DEF RenameStep, OriginalInv, runVars
  <2>2. CASE step # 3
    BY <1>0, <1>6, <2>2 DEF RenameStep, OriginalInv, runVars
  <2> QED
    BY <2>1, <2>2
<1>7. CASE Swapped
  <2>1. CASE received
    BY <1>1, <1>7, <2>1 DEF Swapped
  <2>2. CASE ~received
    BY <1>0, <1>7, <2>2 DEF Swapped, OriginalInv, database, runVars
  <2> QED
    BY <2>1, <2>2
<1>8. CASE EmptyStage
  <2>1. /\ catalog["target"] \in Tables /\ catalog["stage"] \in Tables
        /\ catalog["target"] # catalog["stage"]
    BY <1>0, <1>8, <1>t DEF EmptyStage, StepInv, NamesInv, Whole, Exists, Names
  <2> QED
    BY <1>0, <1>8, <1>t, <2>1 DEF EmptyStage, OriginalInv, runVars
<1>9. CASE Upsert
  BY <1>0, <1>9 DEF Upsert, OriginalInv
<1>10. CASE Done
  BY <1>0, <1>10 DEF Done, RunOver, OriginalInv, StepInv, Whole, Exists, database
<1>11. CASE Terminate
  <2>1. CASE InSwap
    BY <1>0, <1>11, <2>1 DEF Terminate, OriginalInv, InSwap, database, runVars
  <2>2. CASE ~InSwap
    BY <1>1, <1>11, <2>2 DEF Terminate
  <2> QED
    BY <2>1, <2>2
<1>12. CASE TableMissing \/ Undone \/ Fault \/ Kill
  BY <1>1, <1>12 DEF TableMissing, Undone, Fault, Kill
<1>13. CASE UNCHANGED vars
  BY <1>0, <1>13 DEF vars, database, runVars, OriginalInv, Whole, Exists
<1> QED
  BY <1>2, <1>3, <1>4, <1>5, <1>6, <1>7, <1>8, <1>9, <1>10, <1>11, <1>12, <1>13 DEF Next

(* Once a job that masks in place completed, what its table held before is *)
(* under no name, whatever runs were cut short before.                     *)
THEOREM OriginalIsGone == Spec => []OriginalGone
<1>1. Init => FaultInv /\ OriginalInv
  BY DEF Init, FaultInv, OriginalInv
<1>2. IInv /\ FaultInv /\ OriginalInv => OriginalGone
  BY DEF OriginalInv, OriginalGone, Whole, Exists, Names, Empty
<1>3. IInv => TypeOK
  BY DEF IInv
<1> QED
  BY Invariant, FaultStep, OriginalStep, <1>1, <1>2, <1>3, PTL DEF Spec
===============================================================================
