------------------------------- MODULE DataJob --------------------------------
(***************************************************************************)
(* One data job into a database table, over its runs: _runDataJob and      *)
(* _executeDataJob (jobs/pipeline.py) with the TableTarget they load       *)
(* (jobs/targets.py), what they keep in the run state, and the check of    *)
(* the masking key at the start of a run (jobs/keys.py).                   *)
(*                                                                         *)
(* The source changes while it is read, any step may fail and be retried,  *)
(* and the job's process may be killed between any two steps.  A row is    *)
(* its versions, each with the stamp its watermark column holds; a copy of *)
(* it in a table has the keys it was masked under, in order.  A chunk is   *)
(* one row, and each is committed on its own.  A swap is one step here:    *)
(* Oracle's, which is not, is Swap's subject.                              *)
(***************************************************************************)
EXTENDS Naturals, Sequences, FiniteSets

CONSTANTS
  Rows,       \* the rows of the source, by primary key
  Slices,     \* the partitions of a job that has them
  SliceOf,    \* [Rows -> Slices]: the partition that reads a row
  JobConfigs, \* the configurations the job may have, see JobConfig
  Keys,       \* the masking keys the environment may hold, one at a time
  Retries,    \* retries
  Accepts,    \* is the run given --accept-key-change?
  Lookback,   \* how far before the watermark the job's query reads
  Skew,       \* how long the slices take to open, the first to the last
  MaxClock,   \* bound: the last moment at which the source changes
  MaxRuns     \* bound: the runs of the job

(* A configuration validation lets through: the insertStrategy, has it a   *)
(* targetTableStage, a watermarkColumn, a masking policy, does the policy  *)
(* change the target's primary key, is the target its own source, is it    *)
(* read in partitions; and of its source, the lag: how long a transaction  *)
(* may take to commit a stamp it took.                                     *)
JobConfig ==
  {c \in [strategy : {"swap", "upsert"}, staged : BOOLEAN, incremental : BOOLEAN,
          masked : BOOLEAN, masksKey : BOOLEAN, inPlace : BOOLEAN,
          partitioned : BOOLEAN, lag : Nat] :
     /\ c.strategy = "swap" => c.staged /\ ~c.incremental
     /\ c.masksKey => c.masked
     /\ c.inPlace => c.strategy = "swap"}

ASSUME RowsAssumption ==
  /\ IsFiniteSet(Rows)
  /\ IsFiniteSet(Slices) /\ Slices # {}
  /\ SliceOf \in [Rows -> Slices]

ASSUME ConfigAssumption ==
  /\ JobConfigs \subseteq JobConfig
  /\ Retries \in Nat
  /\ Accepts \in BOOLEAN

(* The documentation asks for a lookback longer than any transaction keeps *)
(* its stamp to itself.  That it covers the opening of the slices, too, is *)
(* assumed here and said nowhere.                                          *)
ASSUME LookbackAssumption ==
  /\ {Lookback, Skew, MaxClock, MaxRuns} \subseteq Nat
  /\ \A c \in JobConfigs : Lookback > c.lag + IF c.partitioned THEN Skew ELSE 0

VARIABLES
  (* the source, its clock, and the operator *)
  clock,
  source,      \* [Rows -> Stamp]: each row's stamp, 0 for no such row
  key,         \* the masking key of the next run
  runs,        \* how many runs have begun
  (* the target database *)
  target,      \* targetTableFinal
  stage,       \* targetTableStage
  (* the run state *)
  watermark,   \* 0 is watermarkInitial: nothing recorded
  fingerprint, \* the key the job last completed under, or "none"
  (* the job *)
  job,         \* its configuration
  pc,          \* the next step of its process, or "idle"
  full,        \* is this a --full-refresh?
  attempt,     \* attemptNumber
  from,        \* the watermark bound into the query
  opened,      \* the slices whose query has run
  openedAt,    \* when the first of them did
  unread,      \* what their queries returned that is not yet written
  high,        \* highWatermark
  outcome,     \* of the last run
  (* history *)
  versions     \* [Rows -> SUBSET Stamp]: each row's while a swap's attempt reads

dbVars == <<clock, source, key, runs>>
tableVars == <<target, stage>>
stateVars == <<watermark, fingerprint>>
loadVars == <<from, opened, openedAt, unread, high>>
runVars == <<job, full, attempt, outcome>>
vars == <<dbVars, tableVars, stateVars, pc, loadVars, runVars, versions>>

Stamp == 0..MaxClock

(* A row as a table holds it.  The source's own rows are masked under none. *)
Copy == [row : Rows, stamp : Stamp, under : Seq(Keys)]

Original(r, s) == [row |-> r, stamp |-> s, under |-> <<>>]

TypeOK ==
  /\ clock \in Stamp
  /\ source \in [Rows -> Stamp]
  /\ key \in Keys
  /\ runs \in 0..MaxRuns
  /\ target \subseteq Copy
  /\ stage \subseteq Copy
  /\ watermark \in Stamp
  /\ fingerprint \in Keys \cup {"none"}
  /\ job \in JobConfigs
  /\ pc \in {"idle", "query", "begin", "load", "empty", "post", "recordWatermark", "recordKey"}
  /\ full \in BOOLEAN
  /\ attempt \in 1..(Retries + 1)
  /\ from \in Stamp
  /\ opened \subseteq Slices
  /\ openedAt \in Stamp
  /\ unread \subseteq Copy
  /\ high \in Stamp
  /\ outcome \in {"none", "completed", "failed"}
  /\ versions \in [Rows -> SUBSET Stamp]

Init ==
  /\ job \in JobConfigs
  /\ clock = 0
  /\ source = [r \in Rows |-> 0]
  /\ key \in Keys
  /\ runs = 0
  /\ target = IF job.inPlace THEN {Original(r, 0) : r \in Rows} ELSE {}
  /\ stage = {}
  /\ watermark = 0
  /\ fingerprint = "none"
  /\ pc = "idle"
  /\ full = FALSE
  /\ attempt = 1
  /\ from = 0
  /\ opened = {}
  /\ openedAt = 0
  /\ unread = {}
  /\ high = 0
  /\ outcome = "none"
  /\ versions = [r \in Rows |-> {0}]

-------------------------------------------------------------------------------
(* fullRefreshJobs makes an incremental job a swap for one run. *)
Swaps == job.strategy = "swap" \/ full

(* A stage-less upsert writes straight into the target. *)
Direct == ~job.staged

OneStream == ~job.partitioned

Mask(c) == IF job.masked THEN [c EXCEPT !.under = Append(@, key)] ELSE c

(* A masked primary key is another under another key. *)
PrimaryKey(c) == IF job.masksKey THEN <<c.row, c.under>> ELSE <<c.row, <<>>>>

Upserted(table, copies) ==
  {c \in table : \A d \in copies : PrimaryKey(c) # PrimaryKey(d)} \cup copies

(* What the query of a slice returns, of a source that is a table of its   *)
(* own or the target itself.                                               *)
Source == IF job.inPlace THEN target ELSE {Original(r, source[r]) : r \in {q \in Rows : source[q] # 0}}

Extract(slices, bound) ==
  {c \in Source : SliceOf[c.row] \in slices /\ (bound # 0 => c.stamp + Lookback > bound)}

-------------------------------------------------------------------------------
(* The source, and the operator *)

Tick ==
  /\ clock < MaxClock
  /\ opened \notin {{}, Slices} => clock < openedAt + Skew
  /\ clock' = clock + 1
  /\ UNCHANGED <<source, key, runs, tableVars, stateVars, pc, loadVars, runVars, versions>>

(* The versions a swap may have loaded: those of the time it was reading.  *)
Witness(r, s) ==
  versions' = IF Swaps /\ pc \in {"begin", "load"} THEN [versions EXCEPT ![r] = @ \cup {s}] ELSE versions

(* A transaction commits a version of a row, new or changed. *)
Commit(r) ==
  /\ ~job.inPlace
  /\ \E s \in Stamp \ {0} :
       /\ s <= clock /\ clock <= s + job.lag
       /\ s > source[r]
       /\ source' = [source EXCEPT ![r] = s]
       /\ Witness(r, s)
  /\ UNCHANGED <<clock, key, runs, tableVars, stateVars, pc, loadVars, runVars>>

Delete(r) ==
  /\ source[r] # 0
  /\ source' = [source EXCEPT ![r] = 0]
  /\ Witness(r, 0)
  /\ UNCHANGED <<clock, key, runs, tableVars, stateVars, pc, loadVars, runVars>>

RotateKey ==
  /\ pc = "idle"
  /\ key' \in Keys \ {key}
  /\ UNCHANGED <<clock, source, runs, tableVars, stateVars, pc, loadVars, runVars, versions>>

-------------------------------------------------------------------------------
(* A run of the job *)

KeyAllowsUnlessPrimary(refresh, readable) ==  \* mutant: a change need not be accepted
  \/ ~job.masked
  \/ job.strategy = "swap" \/ refresh
  \/ fingerprint \in {"none", key}
  \/ ~(job.masksKey /\ readable)

(* _requireUnchangedMaskingKeys: a run that would add to what another key  *)
(* masked is refused, unless the change is accepted and the policy is not  *)
(* seen to mask the target's primary key, which may be unreadable.         *)
KeyAllows(refresh, readable) ==
  \/ ~job.masked
  \/ job.strategy = "swap" \/ refresh
  \/ fingerprint \in {"none", key}
  \/ Accepts /\ ~(job.masksKey /\ readable)

StartRun ==
  /\ pc = "idle"
  /\ runs < MaxRuns
  /\ \E refresh \in IF job.incremental /\ job.staged THEN BOOLEAN ELSE {FALSE} :
       /\ \E readable \in BOOLEAN : KeyAllows(refresh, readable)
       /\ full' = refresh
  /\ runs' = runs + 1
  /\ attempt' = 1
  /\ outcome' = "none"
  /\ pc' = "query"
  /\ UNCHANGED <<clock, source, key, tableVars, stateVars, loadVars, job, versions>>

QueryFromWatermark ==  \* mutant: a full refresh reads from the stored watermark
  /\ pc = "query"
  /\ from' = IF ~job.incremental THEN 0 ELSE watermark
  /\ opened' = IF OneStream THEN Slices ELSE {}
  /\ openedAt' = clock
  /\ unread' = IF OneStream THEN Extract(Slices, from') ELSE {}
  /\ high' = 0
  /\ versions' = [r \in Rows |-> IF Swaps THEN {source[r]} ELSE {0}]
  /\ pc' = "begin"
  /\ UNCHANGED <<dbVars, tableVars, stateVars, runVars>>

(* The watermark is read again by every attempt.  A job read as one stream *)
(* runs its query before its target is prepared, a partitioned one after.  *)
Query ==
  /\ pc = "query"
  /\ from' = IF full \/ ~job.incremental THEN 0 ELSE watermark
  /\ opened' = IF OneStream THEN Slices ELSE {}
  /\ openedAt' = clock
  /\ unread' = IF OneStream THEN Extract(Slices, from') ELSE {}
  /\ high' = 0
  /\ versions' = [r \in Rows |-> IF Swaps THEN {source[r]} ELSE {0}]
  /\ pc' = "begin"
  /\ UNCHANGED <<dbVars, tableVars, stateVars, runVars>>

BeginWithoutTruncating ==  \* mutant: what an earlier attempt staged is kept
  /\ pc = "begin"
  /\ pc' = "load"
  /\ UNCHANGED <<dbVars, tableVars, stateVars, loadVars, runVars, versions>>

Begin ==
  /\ pc = "begin"
  /\ stage' = {}
  /\ pc' = "load"
  /\ UNCHANGED <<dbVars, target, stateVars, loadVars, runVars, versions>>

OpenSlice(s) ==
  /\ pc = "load"
  /\ s \notin opened
  /\ opened' = opened \cup {s}
  /\ openedAt' = IF opened = {} THEN clock ELSE openedAt
  /\ unread' = unread \cup Extract({s}, from)
  /\ UNCHANGED <<dbVars, tableVars, stateVars, pc, from, high, runVars, versions>>

(* The watermark is the row's own, and counts only once the row is written. *)
WriteRow(c) ==
  /\ pc = "load"
  /\ c \in unread
  /\ unread' = unread \ {c}
  /\ IF Direct
     THEN target' = Upserted(target, {Mask(c)}) /\ UNCHANGED stage
     ELSE stage' = stage \cup {Mask(c)} /\ UNCHANGED target
  /\ high' = IF job.incremental /\ c.stamp > high THEN c.stamp ELSE high
  /\ UNCHANGED <<dbVars, stateVars, pc, from, opened, openedAt, runVars, versions>>

LoadedOnce == opened # {} /\ unread = {}  \* mutant: the slices that have opened are all there are

Loaded == opened = Slices /\ unread = {}

Swap ==
  /\ pc = "load" /\ Loaded
  /\ Swaps
  /\ target' = stage
  /\ stage' = target
  /\ pc' = IF job.masked THEN "empty" ELSE "post"
  /\ UNCHANGED <<dbVars, stateVars, loadVars, runVars, versions>>

(* The stage now holds what the target did, unmasked if that was the source. *)
EmptyStage ==
  /\ pc = "empty"
  /\ stage' = {}
  /\ pc' = "post"
  /\ UNCHANGED <<dbVars, target, stateVars, loadVars, runVars, versions>>

FinishUpsert ==
  /\ pc = "load" /\ Loaded
  /\ ~Swaps
  /\ target' = IF Direct THEN target ELSE Upserted(target, stage)
  /\ pc' = "post"
  /\ UNCHANGED <<dbVars, stage, stateVars, loadVars, runVars, versions>>

PostQueries ==
  /\ pc = "post"
  /\ pc' = "recordWatermark"
  /\ UNCHANGED <<dbVars, tableVars, stateVars, loadVars, runVars, versions>>

(* What an attempt holds goes with it. *)
AttemptOver ==
  /\ from' = 0
  /\ opened' = {}
  /\ openedAt' = 0
  /\ unread' = {}
  /\ high' = 0
  /\ versions' = [r \in Rows |-> {0}]

RunOver(result) ==
  /\ AttemptOver
  /\ outcome' = result
  /\ full' = FALSE
  /\ attempt' = 1
  /\ pc' = "idle"

(* A failure to record is logged, and the run goes on. *)
RecordWatermark ==
  /\ pc = "recordWatermark"
  /\ watermark' \in IF job.incremental /\ high # 0 THEN {watermark, high} ELSE {watermark}
  /\ pc' = "recordKey"
  /\ UNCHANGED <<dbVars, tableVars, fingerprint, loadVars, runVars, versions>>

RecordKey ==
  /\ pc = "recordKey"
  /\ fingerprint' \in IF job.masked THEN {fingerprint, key} ELSE {fingerprint}
  /\ RunOver("completed")
  /\ UNCHANGED <<dbVars, tableVars, watermark, job>>

Attempting == pc \in {"query", "begin", "load", "empty", "post"}

(* Any step of an attempt may fail, the ones after a swap too. *)
Retry ==
  /\ Attempting
  /\ attempt <= Retries
  /\ AttemptOver
  /\ attempt' = attempt + 1
  /\ pc' = "query"
  /\ UNCHANGED <<dbVars, tableVars, stateVars, job, full, outcome>>

(* The last attempt, or an error no retry can fix. *)
Fail ==
  /\ Attempting
  /\ RunOver("failed")
  /\ UNCHANGED <<dbVars, tableVars, stateVars, job>>

(* The job's process is killed, wherever it is. *)
Killed ==
  /\ pc # "idle"
  /\ RunOver("failed")
  /\ UNCHANGED <<dbVars, tableVars, stateVars, job>>

JobStep ==
  \/ Query \/ Begin
  \/ \E s \in Slices : OpenSlice(s)
  \/ \E c \in unread : WriteRow(c)
  \/ Swap \/ EmptyStage \/ FinishUpsert \/ PostQueries
  \/ RecordWatermark \/ RecordKey
  \/ Retry \/ Fail

Next ==
  \/ Tick
  \/ \E r \in Rows : Commit(r) \/ Delete(r)
  \/ RotateKey
  \/ StartRun \/ JobStep \/ Killed

Spec == Init /\ [][Next]_vars

-------------------------------------------------------------------------------
(* Properties *)

(* The next incremental run reads every row from the recorded watermark    *)
(* on, less the lookback: each row before that is in the target already,   *)
(* in the version the source holds.  No failure, crash or retry lets the   *)
(* watermark run ahead of the load, which would skip rows for good.        *)
NoRowSkipped ==
  job.incremental =>
    \A r \in Rows :
      source[r] # 0 /\ source[r] + Lookback <= watermark =>
        \E c \in target : c.row = r /\ c.stamp = source[r]

(* A run that replaces the target leaves there every row of the source in  *)
(* a version it had while it was read, and no other row: nothing that an   *)
(* earlier attempt staged, nothing deleted before.                         *)
SwapLoadsTheSource ==
  pc \in {"empty", "post", "recordWatermark", "recordKey"} /\ Swaps /\ ~job.inPlace =>
    \A r \in Rows :
      \/ \E c \in target : c.row = r /\ c.stamp \in versions[r] \ {0}
                           /\ \A d \in target : d.row = r => d = c
      \/ 0 \in versions[r] /\ \A c \in target : c.row # r

(* Readers of a target that is only ever swapped see one whole load, all   *)
(* of it under one key, and never one half of it under another; a table    *)
(* masked in place has every row, whenever the job is killed.              *)
OneGeneration ==
  job.strategy = "swap" =>
    /\ \A c, d \in target : c.under = d.under
    /\ job.inPlace => {c.row : c \in target} = Rows

(* Retrying is safe, the documentation says: within one run, a table       *)
(* masked in place is masked once.  It is not so after the swap.           *)
MaskedOnce == runs <= 1 => \A c \in target : Len(c.under) <= 1

(* A changed key is caught before it mixes two keys' masks in one target:  *)
(* a run adds rows to what is there only under the key that was recorded   *)
(* last, whatever failed or was refreshed under another key since.         *)
RecordedKeyOnly ==
  [][~Accepts /\ job.masked /\ ~Swaps /\ target' # target => fingerprint \in {"none", key}]_vars
===============================================================================
