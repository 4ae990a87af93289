---------------------------- MODULE DataJobProofs ----------------------------
(***************************************************************************)
(* Theorems about DataJob, for any rows, slices, keys and configurations,  *)
(* any number of runs and retries, and any lookback and lags that meet its *)
(* assumptions.                                                            *)
(***************************************************************************)

EXTENDS DataJob, TLAPS

(* How long the job's slices take to open, the first to the last.          *)
Spread == IF job.partitioned THEN Skew ELSE 0

Attempts == {"begin", "load"}

(* What the queries returned, wherever it now is: to be written, or in the *)
(* stage, which Begin has emptied.                                         *)
Staged == IF pc = "load" /\ job.staged THEN stage ELSE {}

Read == unread \cup Staged

Opened(r) == SliceOf[r] \in opened

-------------------------------------------------------------------------------
(* The invariant, by parts *)

(* A refresh is of an incremental job with a stage, and of one run.        *)
JobInv ==
  /\ full => job.incremental /\ job.staged /\ pc # "idle"
  /\ pc \in Attempts /\ ~job.partitioned => opened = Slices
  /\ pc \in Attempts => from = IF full \/ ~job.incremental THEN 0 ELSE watermark

(* No stamp is ahead of the clock, and what an attempt of an incremental   *)
(* job has read is not ahead of the moment its last slice opened.          *)
ClockInv ==
  /\ \A r \in Rows : source[r] <= clock
  /\ openedAt <= clock
  /\ job.incremental =>
       /\ watermark <= clock /\ high <= clock
       /\ pc \in Attempts =>
            /\ watermark <= openedAt
            /\ opened \notin {{}, Slices} => clock <= openedAt + Skew
            /\ high <= openedAt + Spread
            /\ opened = {} => high = 0
            /\ \A c \in unread : c.stamp <= clock /\ c.stamp <= openedAt + Spread

(* What was read is of the open slices, a row once, and of a source of its *)
(* own unmasked until it is written.                                       *)
ReadInv ==
  pc \in Attempts =>
    /\ \A c \in Read : Opened(c.row)
    /\ \A c \in unread : IF job.inPlace THEN c \in target ELSE c.under = <<>>
    /\ ~job.inPlace => /\ \A c, d \in unread : c.row = d.row => c = d
                       /\ \A c, d \in Staged : c.row = d.row => c = d
                       /\ \A c \in unread, d \in Staged : c.row # d.row

(* A row whose version is older than the slices' opening, which no late    *)
(* transaction can have changed since.                                     *)
Settled(r) == source[r] # 0 /\ source[r] + Lookback <= openedAt + Spread

Holds(table, r) == \E c \in table : c.row = r /\ c.stamp = source[r]

Covered(bound, table) ==
  \A r \in Rows : source[r] # 0 /\ source[r] + Lookback <= bound => Holds(table, r)

(* A settled row is read, in its version, unless it is behind the bound of *)
(* the query; and nothing older was read of it.                            *)
SkipInv ==
  job.incremental =>
    /\ Covered(watermark, target)
    /\ pc \in Attempts =>
         /\ \A r \in Rows : Opened(r) /\ Settled(r) =>
              \/ Holds(Read \cup IF job.staged THEN {} ELSE target, r)
              \/ from # 0 /\ source[r] + Lookback <= from
         /\ \A c \in Read : Settled(c.row) => c.stamp = source[c.row]
    /\ pc \in {"empty", "post", "recordWatermark"} => Covered(high, target)

(* A swap's attempt has read each row of an open slice in a version of its *)
(* time, or the row was not there at some moment of it.                    *)
VersionInv ==
  Swaps /\ ~job.inPlace =>
    /\ pc \in Attempts =>
         /\ \A r \in Rows : source[r] \in versions[r]
         /\ \A c \in Read : c.stamp \in versions[c.row] \ {0}
         /\ \A r \in Rows : Opened(r) => 0 \in versions[r] \/ \E c \in Read : c.row = r
    /\ SwapLoadsTheSource

(* A swap's stage is of one mask, and of every row when it is in place.    *)
GenerationInv ==
  job.strategy = "swap" =>
    /\ OneGeneration
    /\ pc \in Attempts =>
         /\ \A c \in Staged : IF job.inPlace THEN \A d \in target : c.under = Mask(d).under
                              ELSE c.under = IF job.masked THEN Append(<<>>, key) ELSE <<>>
         /\ job.inPlace => \A r \in Rows : Opened(r) => \E c \in Read : c.row = r

(* A run that adds to a masked target is under the key recorded last.      *)
KeyInv ==
  pc # "idle" /\ job.masked /\ ~Swaps /\ ~Accepts => fingerprint \in {"none", key}

IInv == TypeOK /\ JobInv /\ ClockInv /\ ReadInv /\ SkipInv /\ VersionInv /\ GenerationInv /\ KeyInv

-------------------------------------------------------------------------------
(* Copies, masked and upserted *)

LEMMA Configs ==
  ASSUME job \in JobConfigs
  PROVE  /\ job.lag \in Nat
         /\ Spread \in Nat /\ Lookback \in Nat /\ Lookback > job.lag + Spread
         /\ job.strategy = "swap" => job.staged /\ ~job.incremental
         /\ job.inPlace => job.strategy = "swap"
<1>1. job \in JobConfig
  BY ConfigAssumption
<1>2. job.lag \in Nat /\ Lookback \in Nat /\ Skew \in Nat
  BY <1>1, LookbackAssumption DEF JobConfig
<1>3. Spread \in Nat /\ Lookback > job.lag + Spread
  BY <1>2, LookbackAssumption DEF Spread
<1>4. (job.strategy = "swap" => job.staged /\ ~job.incremental) /\ (job.inPlace => job.strategy = "swap")
  BY <1>1 DEF JobConfig
<1> QED
  BY <1>2, <1>3, <1>4

LEMMA Masks ==
  ASSUME key \in Keys, NEW c \in Copy
  PROVE  /\ Mask(c) \in Copy
         /\ Mask(c).row = c.row /\ Mask(c).stamp = c.stamp
         /\ Mask(c).under = IF job.masked THEN Append(c.under, key) ELSE c.under
<1>1. CASE job.masked
  <2>1. Append(c.under, key) \in Seq(Keys)
    BY DEF Copy
  <2>2. Mask(c) = [c EXCEPT !.under = Append(c.under, key)]
    BY <1>1 DEF Mask
  <2> QED
    BY <1>1, <2>1, <2>2 DEF Copy
<1>2. CASE ~job.masked
  BY <1>2 DEF Mask
<1> QED
  BY <1>1, <1>2

LEMMA Originals ==
  ASSUME NEW r \in Rows, NEW s \in Stamp
  PROVE  /\ Original(r, s) \in Copy
         /\ Original(r, s).row = r /\ Original(r, s).stamp = s /\ Original(r, s).under = <<>>
<1>1. <<>> \in Seq(Keys)
  OBVIOUS
<1> QED
  BY <1>1 DEF Original, Copy

(* A copy replaces those of its own row, at most.                          *)
LEMMA Upserts ==
  ASSUME NEW table, NEW copies, table \subseteq Copy, copies \subseteq Copy
  PROVE  /\ Upserted(table, copies) \subseteq Copy
         /\ copies \subseteq Upserted(table, copies)
         /\ \A c \in table : c \in Upserted(table, copies) \/ \E d \in copies : d.row = c.row
<1>1. \A c, d : PrimaryKey(c) = PrimaryKey(d) => c.row = d.row
  BY DEF PrimaryKey
<1> QED
  BY <1>1 DEF Upserted

(* What a query returns, of a source of its own and of the target. *)
LEMMA Extracts ==
  ASSUME TypeOK, NEW slices, NEW bound \in Stamp
  PROVE  /\ Extract(slices, bound) \subseteq Copy
         /\ \A c \in Extract(slices, bound) : SliceOf[c.row] \in slices
         /\ ~job.inPlace => \A c \in Extract(slices, bound) :
              c.under = <<>> /\ c.stamp = source[c.row] /\ source[c.row] # 0 /\ c = Original(c.row, source[c.row])
         /\ job.inPlace => Extract(slices, bound) \subseteq target
<1> USE DEF TypeOK
<1>1. \A r \in Rows : Original(r, source[r]) \in Copy
  BY Originals
<1>2. CASE job.inPlace
  <2>1. Source = target
    BY <1>2 DEF Source
  <2> QED
    BY <1>2, <2>1 DEF Extract
<1>3. CASE ~job.inPlace
  <2>1. \A c \in Source : \E r \in Rows : c = Original(r, source[r]) /\ source[r] # 0
    BY <1>3 DEF Source
  <2>2. \A c \in Source : c \in Copy /\ c.under = <<>> /\ c.stamp = source[c.row] /\ source[c.row] # 0 /\ c = Original(c.row, source[c.row])
    BY <2>1, Originals
  <2> QED
    BY <1>3, <2>2 DEF Extract
<1> QED
  BY <1>2, <1>3

(* And what it does not leave out. *)
LEMMA Extracted ==
  ASSUME TypeOK, NEW slices, NEW bound \in Stamp, NEW r \in Rows, SliceOf[r] \in slices
  PROVE  /\ ~job.inPlace /\ source[r] # 0 /\ (bound # 0 => source[r] + Lookback > bound)
              => Original(r, source[r]) \in Extract(slices, bound)
         /\ job.inPlace /\ bound = 0 => \A c \in target : c.row = r => c \in Extract(slices, bound)
<1>1. Original(r, source[r]).row = r /\ Original(r, source[r]).stamp = source[r]
  BY Originals DEF TypeOK
<1>2. CASE job.inPlace
  BY <1>2 DEF Extract, Source
<1>3. CASE ~job.inPlace
  <2>1. source[r] # 0 => Original(r, source[r]) \in Source
    BY <1>3 DEF Source
  <2> QED
    BY <1>1, <1>3, <2>1 DEF Extract
<1> QED
  BY <1>2, <1>3

-------------------------------------------------------------------------------
(* The variables' types *)

LEMMA InitType == Init => TypeOK
<1> SUFFICES ASSUME Init PROVE TypeOK
  OBVIOUS
<1> USE DEF Init
<1>1. 0 \in Stamp
  BY LookbackAssumption DEF Stamp
<1>2. target \subseteq Copy
  BY <1>1, Originals
<1>3. runs \in 0..MaxRuns /\ attempt \in 1..(Retries + 1)
  BY LookbackAssumption, ConfigAssumption
<1> QED
  BY <1>1, <1>2, <1>3 DEF TypeOK

(* The source's steps, and the operator's. *)
SourceStep == Tick \/ (\E r \in Rows : Commit(r) \/ Delete(r)) \/ RotateKey

(* An attempt or a run ends: what it held is gone. *)
End == RecordKey \/ Retry \/ Fail \/ Killed

LEMMA Ends ==
  ASSUME End
  PROVE  /\ AttemptOver /\ pc' \in {"query", "idle"}
         /\ UNCHANGED <<clock, source, key, runs, target, stage, watermark, job>>
         /\ full' => full /\ pc' # "idle"
  BY DEF End, RecordKey, Retry, Fail, Killed, RunOver, dbVars, tableVars, stateVars

LEMMA SourceTypes == ASSUME TypeOK, SourceStep PROVE TypeOK'
<1> USE DEF TypeOK, dbVars, tableVars, stateVars, loadVars, runVars
<1>1. CASE Tick
  <2>1. clock' \in Stamp
    BY <1>1, LookbackAssumption DEF Tick, Stamp
  <2> QED
    BY <1>1, <2>1 DEF Tick
<1>2. ASSUME NEW r \in Rows, Commit(r)
      PROVE  TypeOK'
  <2>1. PICK s \in Stamp \ {0} : source' = [source EXCEPT ![r] = s] /\ Witness(r, s)
    BY <1>2 DEF Commit
  <2>2. versions' \in [Rows -> SUBSET Stamp]
    BY <2>1 DEF Witness
  <2> QED
    BY <1>2, <2>1, <2>2 DEF Commit
<1>3. ASSUME NEW r \in Rows, Delete(r)
      PROVE  TypeOK'
  <2>1. 0 \in Stamp
    BY LookbackAssumption DEF Stamp
  <2>2. versions' \in [Rows -> SUBSET Stamp]
    BY <1>3, <2>1 DEF Delete, Witness
  <2> QED
    BY <1>3, <2>1, <2>2 DEF Delete
<1>4. CASE RotateKey
  BY <1>4 DEF RotateKey
<1> QED
  BY <1>1, <1>2, <1>3, <1>4 DEF SourceStep

LEMMA RunTypes ==
  ASSUME TypeOK, StartRun \/ End
  PROVE  TypeOK'
<1> USE DEF TypeOK, dbVars, tableVars, stateVars, loadVars, runVars
<1>1. 0 \in Stamp
  BY LookbackAssumption DEF Stamp
<1>2. AttemptOver => /\ from' \in Stamp /\ openedAt' \in Stamp /\ high' \in Stamp /\ opened' \subseteq Slices
                     /\ unread' \subseteq Copy /\ versions' \in [Rows -> SUBSET Stamp]
  BY <1>1 DEF AttemptOver
<1>3. 1 \in 1..(Retries + 1) /\ (attempt <= Retries => attempt + 1 \in 1..(Retries + 1))
  BY ConfigAssumption
<1>4. CASE StartRun
  <2>1. full' \in BOOLEAN
    BY <1>4 DEF StartRun
  <2>2. runs' \in 0..MaxRuns
    BY <1>4, LookbackAssumption DEF StartRun
  <2> QED
    BY <1>3, <1>4, <2>1, <2>2 DEF StartRun
<1>5. CASE RecordKey
  BY <1>2, <1>3, <1>5 DEF RecordKey, RunOver
<1>6. CASE Retry
  BY <1>2, <1>3, <1>6 DEF Retry
<1>7. CASE Fail
  BY <1>2, <1>3, <1>7 DEF Fail, RunOver
<1>8. CASE Killed
  BY <1>2, <1>3, <1>8 DEF Killed, RunOver
<1> QED
  BY <1>4, <1>5, <1>6, <1>7, <1>8 DEF End

LEMMA LoadTypes ==
  ASSUME TypeOK, JobStep, ~End
  PROVE  TypeOK'
<1> USE DEF TypeOK, dbVars, tableVars, stateVars, loadVars, runVars
<1>1. 0 \in Stamp
  BY LookbackAssumption DEF Stamp
<1>2. CASE Query
  <2>1. from' \in Stamp
    BY <1>1, <1>2 DEF Query
  <2>2. unread' \subseteq Copy
    BY <1>2, <2>1, Extracts DEF Query
  <2>3. versions' \in [Rows -> SUBSET Stamp] /\ opened' \subseteq Slices
    BY <1>1, <1>2 DEF Query
  <2> QED
    BY <1>1, <1>2, <2>1, <2>2, <2>3 DEF Query
<1>3. CASE Begin
  BY <1>3 DEF Begin
<1>4. ASSUME NEW s \in Slices, OpenSlice(s)
      PROVE  TypeOK'
  <2>1. unread' \subseteq Copy
    BY <1>4, Extracts DEF OpenSlice
  <2> QED
    BY <1>4, <2>1 DEF OpenSlice
<1>5. ASSUME NEW c \in unread, WriteRow(c)
      PROVE  TypeOK'
  <2>1. Mask(c) \in Copy
    BY Masks
  <2>2. target' \subseteq Copy /\ stage' \subseteq Copy
    BY <1>5, <2>1, Upserts DEF WriteRow
  <2>3. high' \in Stamp
    BY <1>5 DEF WriteRow, Copy
  <2> QED
    BY <1>5, <2>2, <2>3 DEF WriteRow
<1>6. CASE Swap
  BY <1>6 DEF Swap
<1>7. CASE EmptyStage
  BY <1>7 DEF EmptyStage
<1>8. CASE FinishUpsert
  <2>1. target' \subseteq Copy
    BY <1>8, Upserts DEF FinishUpsert
  <2> QED
    BY <1>8, <2>1 DEF FinishUpsert
<1>9. CASE PostQueries
  BY <1>9 DEF PostQueries
<1>10. CASE RecordWatermark
  <2>1. watermark' \in Stamp
    BY <1>10 DEF RecordWatermark
  <2> QED
    BY <1>10, <2>1 DEF RecordWatermark
<1> QED
  BY <1>2, <1>3, <1>4, <1>5, <1>6, <1>7, <1>8, <1>9, <1>10 DEF JobStep, End

-------------------------------------------------------------------------------
(* The configuration, the bound of the query, and the clock *)

LEMMA JobStays == Next => job' = job
  BY DEF Next, Tick, Commit, Delete, RotateKey, StartRun, JobStep, Query, Begin, OpenSlice, WriteRow, Swap, EmptyStage,
         FinishUpsert, PostQueries, RecordWatermark, RecordKey, Retry, Fail, Killed, runVars

LEMMA InitJobClock == Init => JobInv /\ ClockInv
<1> SUFFICES ASSUME Init PROVE JobInv /\ ClockInv
  OBVIOUS
<1> QED
  BY DEF Init, JobInv, ClockInv, Attempts

LEMMA JobStepsKeepJob ==
  ASSUME TypeOK, JobInv, Next
  PROVE  JobInv'
<1>0. job' = job
  BY JobStays
<1> USE <1>0 DEF JobInv, Attempts, dbVars, tableVars, stateVars, loadVars, runVars
<1>1. CASE SourceStep
  <2>1. UNCHANGED <<full, pc, opened, from, watermark>>
    BY <1>1 DEF SourceStep, Tick, Commit, Delete, RotateKey
  <2> QED
    BY <2>1
<1>2. CASE End
  <2>1. pc' \in {"query", "idle"} /\ (full' => full /\ pc' # "idle")
    BY <1>2, Ends
  <2> QED
    BY <2>1
<1>3. CASE StartRun
  BY <1>3 DEF StartRun
<1>4. CASE Query
  BY <1>4 DEF Query, OneStream
<1>5. CASE Begin \/ Swap \/ EmptyStage \/ FinishUpsert \/ PostQueries
  <2>1. UNCHANGED <<full, opened, from, watermark>> /\ (pc \in Attempts \/ pc' \notin Attempts) /\ pc # "idle" /\ pc' # "idle"
    BY <1>5 DEF Begin, Swap, EmptyStage, FinishUpsert, PostQueries
  <2> QED
    BY <2>1
<1>6. ASSUME NEW s \in Slices, OpenSlice(s)
      PROVE  JobInv'
  <2>1. opened # Slices /\ pc = "load"
    BY <1>6 DEF OpenSlice
  <2> QED
    BY <1>6, <2>1 DEF OpenSlice
<1>7. ASSUME NEW c \in unread, WriteRow(c)
      PROVE  JobInv'
  BY <1>7 DEF WriteRow
<1>8. CASE RecordWatermark
  BY <1>8 DEF RecordWatermark
<1> QED
  BY <1>1, <1>2, <1>3, <1>4, <1>5, <1>6, <1>7, <1>8 DEF Next, JobStep, SourceStep, End

LEMMA StepsKeepClock ==
  ASSUME TypeOK, TypeOK', JobInv, ReadInv, ClockInv, Next
  PROVE  ClockInv'
<1>0. job' = job /\ Spread' = Spread
  BY JobStays DEF Spread
<1>1. /\ {clock, clock', openedAt, openedAt', watermark, high, high', Skew, Spread} \subseteq Nat
      /\ \A r \in Rows : source[r] \in Nat
      /\ \A c \in unread : c.stamp \in Nat /\ c.row \in Rows
  <2>1. Spread \in Nat /\ Skew \in Nat
    BY Configs, LookbackAssumption DEF TypeOK
  <2>2. Stamp \subseteq Nat
    BY LookbackAssumption DEF Stamp
  <2>3. {clock, clock', openedAt, openedAt', watermark, high, high'} \subseteq Stamp /\ \A r \in Rows : source[r] \in Stamp
    BY DEF TypeOK
  <2>4. \A c \in unread : c.stamp \in Stamp /\ c.row \in Rows
    BY DEF TypeOK, Copy
  <2> QED
    BY <2>1, <2>2, <2>3, <2>4
<1>2. CASE Tick
  <2>1. /\ clock' = clock + 1 /\ (opened \notin {{}, Slices} => clock < openedAt + Skew)
        /\ UNCHANGED <<source, openedAt, watermark, high, pc, opened, unread>>
    BY <1>2 DEF Tick, tableVars, stateVars, loadVars
  <2> QED
    BY <1>0, <1>1, <2>1 DEF ClockInv
<1>3. ASSUME NEW r \in Rows, Commit(r) \/ Delete(r)
      PROVE  ClockInv'
  <2>1. UNCHANGED <<clock, openedAt, watermark, high, pc, opened, unread>>
    BY <1>3 DEF Commit, Delete, stateVars, loadVars
  <2>2. \A q \in Rows : source'[q] = source[q] \/ source'[q] <= clock
    BY <1>1, <1>3 DEF Commit, Delete, TypeOK
  <2> QED
    BY <1>0, <1>1, <2>1, <2>2 DEF ClockInv
<1>4. CASE RotateKey \/ StartRun
  <2>1. UNCHANGED <<clock, source, openedAt, watermark, high, opened, unread>> /\ pc' \notin Attempts
    BY <1>4 DEF RotateKey, StartRun, stateVars, loadVars, Attempts
  <2> QED
    BY <1>0, <2>1 DEF ClockInv
<1>5. CASE End
  <2>1. UNCHANGED <<clock, source, watermark>> /\ openedAt' = 0 /\ high' = 0 /\ pc' \notin Attempts
    BY <1>5, Ends DEF AttemptOver, Attempts
  <2> QED
    BY <1>0, <1>1, <2>1 DEF ClockInv
<1>6. CASE Query
  <2>1. UNCHANGED <<clock, source, watermark>> /\ openedAt' = clock /\ high' = 0 /\ opened' \in {{}, Slices}
    BY <1>6 DEF Query, dbVars, stateVars
  <2>2. job.incremental => \A c \in unread' : c.stamp <= clock
    <3> SUFFICES ASSUME job.incremental, NEW c \in unread' PROVE c.stamp <= clock
      OBVIOUS
    <3>1. ~job.inPlace
      BY Configs DEF TypeOK
    <3>2. from' \in Stamp /\ c \in Extract(Slices, from')
      BY <1>6 DEF Query, TypeOK
    <3>3. c \in Copy /\ c.stamp = source[c.row]
      BY <3>1, <3>2, Extracts
    <3> QED
      BY <3>3 DEF ClockInv, Copy
  <2>3. \A c \in unread' : c.stamp \in Nat
    <3>1. Stamp \subseteq Nat
      BY LookbackAssumption DEF Stamp
    <3>2. unread' \subseteq Copy
      BY DEF TypeOK
    <3> QED
      BY <3>1, <3>2 DEF Copy
  <2> QED
    BY <1>0, <1>1, <2>1, <2>2, <2>3 DEF ClockInv
<1>7. CASE Begin \/ Swap \/ EmptyStage \/ FinishUpsert \/ PostQueries
  <2>1. UNCHANGED <<clock, source, openedAt, watermark, high, opened, unread>> /\ (pc \in Attempts \/ pc' \notin Attempts)
    BY <1>7 DEF Begin, Swap, EmptyStage, FinishUpsert, PostQueries, dbVars, stateVars, loadVars, Attempts
  <2> QED
    BY <1>0, <2>1 DEF ClockInv
<1>8. ASSUME NEW s \in Slices, OpenSlice(s)
      PROVE  ClockInv'
  <2>1. /\ UNCHANGED <<clock, source, watermark, high, pc>> /\ pc = "load" /\ opened # Slices
        /\ opened' = opened \cup {s} /\ openedAt' = IF opened = {} THEN clock ELSE openedAt
        /\ unread' = unread \cup Extract({s}, from)
    BY <1>8 DEF OpenSlice, dbVars, stateVars
  <2>2. job.partitioned => Spread = Skew
    BY DEF Spread
  <2>3. job.partitioned
    BY <2>1 DEF JobInv, Attempts
  <2>4. opened = {} => unread = {}
    BY <2>1 DEF ReadInv, Read, Opened, Attempts
  <2>5. job.incremental => \A c \in Extract({s}, from) : c.stamp \in Nat /\ c.stamp <= clock
    <3> SUFFICES ASSUME job.incremental, NEW c \in Extract({s}, from) PROVE c.stamp \in Nat /\ c.stamp <= clock
      OBVIOUS
    <3>1. ~job.inPlace
      BY Configs DEF TypeOK
    <3>2. c \in Copy /\ c.stamp = source[c.row]
      BY <3>1, Extracts DEF TypeOK
    <3> QED
      BY <1>1, <3>2 DEF ClockInv, Copy
  <2>6. CASE job.incremental
    <3>1. /\ watermark <= openedAt /\ (opened # {} => clock <= openedAt + Skew) /\ high <= openedAt + Spread
          /\ openedAt <= clock /\ (opened = {} => high = 0)
          /\ \A c \in unread : c.stamp <= clock /\ c.stamp <= openedAt + Spread
          /\ \A r \in Rows : source[r] <= clock
          /\ watermark <= clock /\ high <= clock
      BY <2>1, <2>6 DEF ClockInv, Attempts
    <3>2. clock <= openedAt' + Spread /\ watermark <= openedAt' /\ openedAt' <= clock /\ high <= openedAt' + Spread
      BY <1>1, <2>1, <2>2, <2>3, <3>1
    <3>3. \A c \in unread' : c.stamp <= clock /\ c.stamp <= openedAt' + Spread
      <4> SUFFICES ASSUME NEW c \in unread' PROVE c.stamp <= clock /\ c.stamp <= openedAt' + Spread
        OBVIOUS
      <4>1. CASE c \in unread
        BY <2>1, <2>4, <3>1, <4>1
      <4>2. CASE c \in Extract({s}, from)
        <5>1. c.stamp \in Nat /\ c.stamp <= clock
          BY <2>5, <2>6, <4>2
        <5> QED
          BY <1>1, <3>2, <5>1
      <4> QED
        BY <2>1, <4>1, <4>2
    <3> QED
      BY <1>0, <2>1, <2>2, <2>3, <3>1, <3>2, <3>3 DEF ClockInv
  <2>7. CASE ~job.incremental
    <3>1. openedAt' <= clock
      BY <1>1, <2>1 DEF ClockInv
    <3> QED
      BY <1>0, <2>1, <2>7, <3>1 DEF ClockInv
  <2> QED
    BY <2>6, <2>7
<1>9. ASSUME NEW c \in unread, WriteRow(c)
      PROVE  ClockInv'
  <2>1. /\ UNCHANGED <<clock, source, watermark, pc, opened, openedAt>> /\ pc = "load"
        /\ unread' = unread \ {c} /\ high' \in {high, c.stamp}
    BY <1>9 DEF WriteRow, dbVars, stateVars
  <2>2. opened # {}
    BY <2>1 DEF ReadInv, Read, Opened, Attempts
  <2> QED
    BY <1>0, <2>1, <2>2 DEF ClockInv, Attempts
<1>10. CASE RecordWatermark
  <2>1. UNCHANGED <<clock, source, openedAt, high>> /\ watermark' \in {watermark, high} /\ pc' \notin Attempts
    BY <1>10 DEF RecordWatermark, dbVars, loadVars, Attempts
  <2> QED
    BY <1>0, <2>1 DEF ClockInv
<1> QED
  BY <1>2, <1>3, <1>4, <1>5, <1>6, <1>7, <1>8, <1>9, <1>10 DEF Next, JobStep, End

-------------------------------------------------------------------------------
(* What was read *)

LEMMA StepsKeepRead ==
  ASSUME TypeOK, TypeOK', ReadInv, Next
  PROVE  ReadInv'
<1>0. job' = job
  BY JobStays
<1>1. CASE SourceStep
  <2>1. UNCHANGED <<pc, unread, stage, target, opened>>
    BY <1>1 DEF SourceStep, Tick, Commit, Delete, RotateKey, tableVars, loadVars
  <2> QED
    BY <1>0, <2>1 DEF ReadInv, Read, Staged, Opened
<1>2. CASE End \/ StartRun \/ Swap \/ EmptyStage \/ FinishUpsert \/ PostQueries \/ RecordWatermark
  <2>1. pc' \notin Attempts
    BY <1>2, Ends DEF StartRun, Swap, EmptyStage, FinishUpsert, PostQueries, RecordWatermark, Attempts
  <2> QED
    BY <2>1 DEF ReadInv
<1>3. CASE Query
  <2>1. pc' = "begin" /\ from' \in Stamp /\ target' = target /\ source' = source
    BY <1>3 DEF Query, TypeOK, tableVars, dbVars
  <2>2. unread' = {} \/ (opened' = Slices /\ unread' = Extract(Slices, from'))
    BY <1>3 DEF Query
  <2>3. Staged' = {}
    BY <2>1 DEF Staged
  <2>4. CASE unread' = {}
    BY <2>3, <2>4 DEF ReadInv, Read
  <2>5. CASE opened' = Slices /\ unread' = Extract(Slices, from')
    <3>1. \A c \in unread' : SliceOf[c.row] \in opened'
      BY <2>1, <2>5, Extracts
    <3>2. \A c \in unread' : IF job.inPlace THEN c \in target ELSE c.under = <<>> /\ c = Original(c.row, source[c.row])
      BY <2>1, <2>5, Extracts
    <3> QED
      BY <1>0, <2>1, <2>3, <3>1, <3>2 DEF ReadInv, Read, Opened
  <2> QED
    BY <2>2, <2>4, <2>5
<1>4. CASE Begin
  <2>1. UNCHANGED <<unread, target, opened>> /\ pc = "begin" /\ stage' = {}
    BY <1>4 DEF Begin, loadVars
  <2>2. Staged = {} /\ Staged' = {}
    BY <2>1 DEF Staged
  <2> QED
    BY <1>0, <2>1, <2>2 DEF ReadInv, Read, Opened, Attempts
<1>5. ASSUME NEW s \in Slices, OpenSlice(s)
      PROVE  ReadInv'
  <2>1. /\ pc = "load" /\ s \notin opened /\ opened' = opened \cup {s} /\ UNCHANGED <<target, stage, pc>>
        /\ unread' = unread \cup Extract({s}, from)
    BY <1>5 DEF OpenSlice, tableVars
  <2>2. Staged' = Staged
    BY <1>0, <2>1 DEF Staged
  <2>3. \A c \in Extract({s}, from) :
          /\ SliceOf[c.row] = s
          /\ IF job.inPlace THEN c \in target ELSE c.under = <<>> /\ c = Original(c.row, source[c.row])
    BY Extracts DEF TypeOK
  <2>4. \A c \in Read : SliceOf[c.row] # s
    BY <2>1 DEF ReadInv, Opened, Attempts
  <2>5. \A c \in Read' : SliceOf[c.row] \in opened'
    BY <2>1, <2>2, <2>3 DEF ReadInv, Read, Opened, Attempts
  <2>6. \A c \in unread' : IF job.inPlace THEN c \in target ELSE c.under = <<>>
    BY <2>1, <2>3 DEF ReadInv, Attempts
  <2>7. ~job.inPlace => \A c, d \in unread' : c.row = d.row => c = d
    <3> SUFFICES ASSUME ~job.inPlace, NEW c \in unread', NEW d \in unread', c.row = d.row
                 PROVE  c = d
      OBVIOUS
    <3>1. CASE c \in unread /\ d \in unread
      BY <2>1, <3>1 DEF ReadInv, Attempts
    <3>2. CASE c \in Extract({s}, from) /\ d \in Extract({s}, from)
      BY <2>3, <3>2
    <3> QED
      BY <2>1, <2>3, <2>4, <3>1, <3>2 DEF Read
  <2>8. ~job.inPlace => \A c \in unread', d \in Staged : c.row # d.row
    BY <2>1, <2>3, <2>4 DEF ReadInv, Read, Attempts
  <2> QED
    BY <1>0, <2>1, <2>2, <2>5, <2>6, <2>7, <2>8 DEF ReadInv, Opened, Attempts
<1>6. ASSUME NEW c \in unread, WriteRow(c)
      PROVE  ReadInv'
  <2>1. /\ pc = "load" /\ unread' = unread \ {c} /\ UNCHANGED <<pc, opened>>
        /\ IF job.staged THEN target' = target /\ Staged' = Staged \cup {Mask(c)} ELSE Staged' = {}
    BY <1>0, <1>6 DEF WriteRow, Staged, Direct
  <2>2. Mask(c).row = c.row
    BY Masks DEF TypeOK
  <2>3. job.inPlace => job.staged
    BY Configs DEF TypeOK
  <2> QED
    BY <1>0, <2>1, <2>2, <2>3 DEF ReadInv, Read, Opened, Attempts
<1> QED
  BY <1>1, <1>2, <1>3, <1>4, <1>5, <1>6 DEF Next, JobStep, SourceStep, End

-------------------------------------------------------------------------------
(* No row is skipped *)

(* What a step of the source may do to a row: a version it commits is not  *)
(* behind any moment until now by as much as the lookback.                 *)
LEMMA Commits ==
  ASSUME TypeOK, SourceStep, NEW q \in Rows
  PROVE  source'[q] \in {source[q], 0} \/ source'[q] + Lookback > clock + Spread
<1>1. job.lag \in Nat /\ Spread \in Nat /\ Lookback \in Nat /\ Lookback > job.lag + Spread
  BY Configs DEF TypeOK
<1>2. CASE Tick \/ RotateKey
  BY <1>2 DEF Tick, RotateKey
<1>3. ASSUME NEW r \in Rows, Commit(r)
      PROVE  source'[q] \in {source[q], 0} \/ source'[q] + Lookback > clock + Spread
  <2>1. PICK s \in Stamp \ {0} : clock <= s + job.lag /\ source' = [source EXCEPT ![r] = s]
    BY <1>3 DEF Commit
  <2>2. s \in Nat /\ clock \in Nat
    BY LookbackAssumption DEF TypeOK, Stamp
  <2>3. s + Lookback > clock + Spread
    BY <1>1, <2>1, <2>2
  <2> QED
    BY <2>1, <2>3 DEF TypeOK
<1>4. ASSUME NEW r \in Rows, Delete(r)
      PROVE  source'[q] \in {source[q], 0} \/ source'[q] + Lookback > clock + Spread
  BY <1>4 DEF Delete, TypeOK
<1> QED
  BY <1>2, <1>3, <1>4 DEF SourceStep

LEMMA SourceSkips ==
  ASSUME TypeOK, TypeOK', ClockInv, SkipInv, SourceStep
  PROVE  SkipInv'
<1>0. job' = job /\ Spread' = Spread
  <2>1. Next
    BY DEF SourceStep, Next
  <2> QED
    BY <2>1, JobStays DEF Spread
<1>1. UNCHANGED <<pc, unread, stage, target, opened, openedAt, from, high, watermark>>
  BY DEF SourceStep, Tick, Commit, Delete, RotateKey, tableVars, stateVars, loadVars
<1>2. Read' = Read
  BY <1>0, <1>1 DEF Read, Staged
<1> SUFFICES ASSUME job.incremental PROVE SkipInv'
  BY <1>0 DEF SkipInv
<1>3. /\ {clock, openedAt, high, watermark, Spread, Lookback} \subseteq Nat
      /\ \A q \in Rows : source[q] \in Nat
  <2>1. Stamp \subseteq Nat
    BY LookbackAssumption DEF Stamp
  <2> QED
    BY <2>1, Configs DEF TypeOK
<1>4. openedAt <= clock /\ high <= clock /\ watermark <= clock
  BY DEF ClockInv
<1>5. ASSUME NEW q \in Rows, NEW b \in Nat, b <= clock + Spread, source'[q] # 0, source'[q] + Lookback <= b
      PROVE  source'[q] = source[q]
  <2>1. CASE source'[q] + Lookback > clock + Spread
    <3>1. source'[q] \in Nat
      BY LookbackAssumption DEF TypeOK, Stamp
    <3> QED
      BY <1>3, <1>5, <2>1, <3>1
  <2> QED
    BY <1>5, <2>1, Commits
<1>6. ASSUME NEW b \in Nat, b <= clock, Covered(b, target)
      PROVE  Covered(b, target)'
  BY <1>1, <1>3, <1>5, <1>6 DEF Covered, Holds
<1>7. \A q \in Rows : Settled(q)' => Settled(q) /\ source'[q] = source[q]
  <2> SUFFICES ASSUME NEW q \in Rows, Settled(q)' PROVE Settled(q) /\ source'[q] = source[q]
    OBVIOUS
  <2>1. source'[q] # 0 /\ source'[q] + Lookback <= openedAt + Spread
    BY <1>0, <1>1 DEF Settled
  <2>2. openedAt + Spread \in Nat /\ openedAt + Spread <= clock + Spread
    BY <1>3, <1>4
  <2>3. source'[q] = source[q]
    BY <1>5, <2>1, <2>2
  <2> QED
    BY <2>1, <2>3 DEF Settled
<1>8. pc \in Attempts => \A c \in Read : c.row \in Rows
  BY DEF Read, Staged, TypeOK, Copy
<1>9. Covered(watermark, target)'
  BY <1>1, <1>3, <1>4, <1>6 DEF SkipInv
<1>10. pc \in {"empty", "post", "recordWatermark"} => Covered(high, target)'
  BY <1>1, <1>3, <1>4, <1>6 DEF SkipInv
<1>11. pc \in Attempts =>
         /\ \A r \in Rows : Opened(r)' /\ Settled(r)' =>
              \/ Holds(Read \cup IF job.staged THEN {} ELSE target, r)'
              \/ from # 0 /\ source'[r] + Lookback <= from
         /\ \A c \in Read : Settled(c.row)' => c.stamp = source'[c.row]
  BY <1>0, <1>1, <1>2, <1>7, <1>8 DEF SkipInv, Opened, Holds
<1> QED
  BY <1>0, <1>1, <1>2, <1>9, <1>10, <1>11 DEF SkipInv

(* A settled row that was read is in the target once what was read of it   *)
(* is written there, since nothing older was.                              *)
LEMMA WritesHold ==
  ASSUME TypeOK, NEW copies, copies \subseteq Copy, NEW r \in Rows,
         \A d \in copies : d.row = r => d.stamp = source[r],
         Holds(target \cup copies, r)
  PROVE  Holds(Upserted(target, copies), r)
<1>1. PICK c \in target \cup copies : c.row = r /\ c.stamp = source[r]
  BY DEF Holds
<1>2. target \subseteq Copy
  BY DEF TypeOK
<1>3. CASE c \in Upserted(target, copies)
  BY <1>1, <1>3 DEF Holds
<1>4. CASE c \notin Upserted(target, copies)
  <2>1. PICK d \in copies : d.row = c.row
    BY <1>1, <1>2, <1>4, Upserts
  <2>2. d \in Upserted(target, copies)
    BY <1>2, Upserts
  <2> QED
    BY <1>1, <2>1, <2>2 DEF Holds
<1> QED
  BY <1>3, <1>4

LEMMA QuerySkips ==
  ASSUME TypeOK, TypeOK', SkipInv, Query, job.incremental
  PROVE  SkipInv'
<1>1. /\ job' = job /\ pc' = "begin" /\ UNCHANGED <<source, target, watermark>>
      /\ opened' = IF job.partitioned THEN {} ELSE Slices
      /\ unread' = IF job.partitioned THEN {} ELSE Extract(Slices, from')
  BY DEF Query, OneStream, dbVars, tableVars, stateVars, runVars
<1>2. ~job.inPlace /\ from' \in Stamp
  BY Configs DEF TypeOK
<1>3. Read' = unread'
  BY <1>1 DEF Read, Staged
<1>4. Covered(watermark, target)'
  BY <1>1 DEF SkipInv, Covered, Holds
<1>5. ASSUME NEW r \in Rows, Opened(r)'
      PROVE  \/ Holds(Read \cup IF job.staged THEN {} ELSE target, r)'
             \/ from' # 0 /\ source'[r] + Lookback <= from'
             \/ source'[r] = 0
  <2>1. ~job.partitioned /\ SliceOf[r] \in Slices
    BY <1>1, <1>5, RowsAssumption DEF Opened
  <2>2. CASE source[r] # 0 /\ (from' # 0 => source[r] + Lookback > from')
    <3>1. Original(r, source[r]) \in unread'
      BY <1>1, <1>2, <2>1, <2>2, Extracted
    <3>2. Original(r, source[r]).row = r /\ Original(r, source[r]).stamp = source[r]
      BY Originals DEF TypeOK
    <3> QED
      BY <1>1, <1>3, <3>1, <3>2 DEF Holds
  <2>3. CASE from' # 0 /\ ~(source[r] + Lookback > from')
    <3>1. source[r] \in Nat /\ Lookback \in Nat /\ from' \in Nat
      BY LookbackAssumption DEF TypeOK, Stamp
    <3> QED
      BY <1>1, <2>3, <3>1
  <2>4. CASE source[r] = 0
    BY <1>1, <2>4
  <2> QED
    BY <2>2, <2>3, <2>4
<1>6. \A c \in Read' : c.stamp = source'[c.row]
  BY <1>1, <1>2, <1>3, Extracts
<1>7. \A r \in Rows : Opened(r)' /\ Settled(r)' =>
         \/ Holds(Read \cup IF job.staged THEN {} ELSE target, r)'
         \/ from' # 0 /\ source'[r] + Lookback <= from'
  BY <1>5 DEF Settled
<1> QED
  BY <1>1, <1>4, <1>6, <1>7 DEF SkipInv

LEMMA OpeningSkips ==
  ASSUME TypeOK, TypeOK', ReadInv, SkipInv, NEW s \in Slices, OpenSlice(s), job.incremental
  PROVE  SkipInv'
<1>1. /\ job' = job /\ Spread' = Spread /\ pc = "load" /\ UNCHANGED <<source, target, stage, watermark, from, pc>>
      /\ s \notin opened /\ opened' = opened \cup {s} /\ unread' = unread \cup Extract({s}, from)
      /\ opened # {} => openedAt' = openedAt
  BY DEF OpenSlice, dbVars, tableVars, stateVars, runVars, Spread
<1>2. ~job.inPlace /\ from \in Stamp
  BY Configs DEF TypeOK
<1>3. Staged' = Staged /\ Read' = Read \cup Extract({s}, from)
  BY <1>1 DEF Read, Staged
<1>4. Covered(watermark, target)'
  BY <1>1 DEF SkipInv, Covered, Holds
<1>5. opened # {} => \A r \in Rows : Settled(r)' = Settled(r)
  BY <1>1 DEF Settled
<1>6. ASSUME NEW r \in Rows, Opened(r)', Settled(r)'
      PROVE  \/ Holds(Read \cup IF job.staged THEN {} ELSE target, r)'
             \/ from' # 0 /\ source'[r] + Lookback <= from'
  <2>1. CASE SliceOf[r] = s
    <3>1. source[r] # 0
      BY <1>1, <1>6 DEF Settled
    <3>2. CASE from # 0 => source[r] + Lookback > from
      <4>1. Original(r, source[r]) \in Extract({s}, from)
        BY <1>2, <2>1, <3>1, <3>2, Extracted
      <4>2. Original(r, source[r]).row = r /\ Original(r, source[r]).stamp = source[r]
        BY Originals DEF TypeOK
      <4> QED
        BY <1>1, <1>3, <4>1, <4>2 DEF Holds
    <3>3. CASE ~(from # 0 => source[r] + Lookback > from)
      <4>1. source[r] \in Nat /\ Lookback \in Nat /\ from \in Nat
        BY LookbackAssumption DEF TypeOK, Stamp
      <4> QED
        BY <1>1, <3>3, <4>1
    <3> QED
      BY <3>2, <3>3
  <2>2. CASE SliceOf[r] # s
    <3>1. Opened(r) /\ opened # {}
      BY <1>1, <1>6, <2>2 DEF Opened
    <3>2. \/ Holds(Read \cup IF job.staged THEN {} ELSE target, r)
          \/ from # 0 /\ source[r] + Lookback <= from
      BY <1>1, <1>5, <1>6, <3>1 DEF SkipInv, Attempts
    <3>3. Holds(Read \cup IF job.staged THEN {} ELSE target, r) => Holds(Read \cup IF job.staged THEN {} ELSE target, r)'
      BY <1>1, <1>3 DEF Holds
    <3> QED
      BY <1>1, <3>2, <3>3
  <2> QED
    BY <2>1, <2>2
<1>7. ASSUME NEW c \in Read', Settled(c.row)'
      PROVE  c.stamp = source'[c.row]
  <2>1. CASE c \in Read
    <3>1. opened # {} /\ c.row \in Rows
      BY <1>1, <2>1 DEF ReadInv, Opened, Attempts, Read, Staged, TypeOK, Copy
    <3> QED
      BY <1>1, <1>5, <1>7, <2>1, <3>1 DEF SkipInv, Attempts
  <2>2. CASE c \in Extract({s}, from)
    BY <1>1, <1>2, <2>2, Extracts
  <2> QED
    BY <1>3, <2>1, <2>2
<1> QED
  BY <1>1, <1>4, <1>6, <1>7 DEF SkipInv

LEMMA WritingSkips ==
  ASSUME TypeOK, ClockInv, SkipInv, NEW c \in unread, WriteRow(c), job.incremental
  PROVE  SkipInv'
<1>1. /\ job' = job /\ Spread' = Spread /\ pc = "load" /\ UNCHANGED <<source, watermark, from, opened, openedAt, pc>>
      /\ unread' = unread \ {c}
      /\ IF job.staged THEN target' = target /\ stage' = stage \cup {Mask(c)}
                       ELSE target' = Upserted(target, {Mask(c)}) /\ stage' = stage
  BY DEF WriteRow, Direct, dbVars, stateVars, runVars, Spread
<1>2. Mask(c) \in Copy /\ Mask(c).row = c.row /\ Mask(c).stamp = c.stamp /\ c.row \in Rows /\ c \in Read
  BY Masks DEF TypeOK, Copy, Read
<1>3. Settled(c.row) => c.stamp = source[c.row]
  BY <1>1, <1>2 DEF SkipInv, Attempts
<1>4. \A r \in Rows : Settled(r)' = Settled(r)
  BY <1>1 DEF Settled
<1>5. ASSUME NEW r \in Rows, Settled(r), Holds(target, r)
      PROVE  Holds(target, r)'
  <2>1. CASE job.staged
    BY <1>1, <1>5, <2>1 DEF Holds
  <2>2. CASE ~job.staged
    <3>1. Holds(Upserted(target, {Mask(c)}), r)
      <4>1. \A d \in {Mask(c)} : d.row = r => d.stamp = source[r]
        BY <1>2, <1>3, <1>5
      <4>2. Holds(target \cup {Mask(c)}, r)
        BY <1>5 DEF Holds
      <4> QED
        BY <1>2, <4>1, <4>2, WritesHold
    <3> QED
      BY <1>1, <2>2, <3>1 DEF Holds
  <2> QED
    BY <2>1, <2>2
<1>6. Covered(watermark, target)'
  <2> SUFFICES ASSUME NEW r \in Rows, source[r] # 0, source[r] + Lookback <= watermark
               PROVE  Holds(target, r)'
    BY <1>1 DEF Covered
  <2>1. Holds(target, r)
    BY DEF SkipInv, Covered
  <2>2. Settled(r)
    <3>1. {source[r], Lookback, watermark, openedAt, Spread} \subseteq Nat
      BY LookbackAssumption, Configs DEF TypeOK, Stamp
    <3>2. watermark <= openedAt
      BY <1>1 DEF ClockInv, Attempts
    <3> QED
      BY <3>1, <3>2 DEF Settled
  <2> QED
    BY <1>5, <2>1, <2>2
<1>7. ASSUME NEW r \in Rows, Opened(r)', Settled(r)'
      PROVE  \/ Holds(Read \cup IF job.staged THEN {} ELSE target, r)'
             \/ from' # 0 /\ source'[r] + Lookback <= from'
  <2>1. Settled(r) /\ Opened(r)
    BY <1>1, <1>4, <1>7 DEF Opened
  <2>2. CASE from # 0 /\ source[r] + Lookback <= from
    BY <1>1, <2>2
  <2>3. CASE Holds(Read \cup IF job.staged THEN {} ELSE target, r)
    <3>1. PICK d \in Read \cup IF job.staged THEN {} ELSE target : d.row = r /\ d.stamp = source[r]
      BY <2>3 DEF Holds
    <3>2. CASE d = c
      <4>1. job.staged => Mask(c) \in Read'
        BY <1>1 DEF Read, Staged
      <4>2. ~job.staged => Mask(c) \in target'
        BY <1>1, <1>2, Upserts DEF TypeOK
      <4> QED
        BY <1>1, <1>2, <3>1, <3>2, <4>1, <4>2 DEF Holds
    <3>3. CASE d \in Read /\ d # c
      BY <1>1, <3>1, <3>3 DEF Holds, Read, Staged
    <3>4. CASE ~job.staged /\ d \in target
      <4>1. Holds(target, r)'
        BY <1>5, <2>1, <3>1, <3>4 DEF Holds
      <4> QED
        BY <1>1, <3>4, <4>1 DEF Holds
    <3> QED
      BY <3>1, <3>2, <3>3, <3>4
  <2> QED
    BY <1>1, <2>1, <2>2, <2>3 DEF SkipInv, Attempts
<1>8. ASSUME NEW d \in Read', Settled(d.row)'
      PROVE  d.stamp = source'[d.row]
  <2>1. d \in Read \/ d = Mask(c)
    BY <1>1, <1>8 DEF Read, Staged
  <2>2. d.row \in Rows
    BY <1>2, <2>1 DEF Read, Staged, TypeOK, Copy
  <2> QED
    BY <1>1, <1>2, <1>3, <1>4, <1>8, <2>1, <2>2 DEF SkipInv, Attempts
<1> QED
  BY <1>1, <1>6, <1>7, <1>8 DEF SkipInv

LEMMA FinishSkips ==
  ASSUME TypeOK, JobInv, ClockInv, SkipInv, Swap \/ FinishUpsert, job.incremental
  PROVE  SkipInv'
<1>1. /\ job' = job /\ pc = "load" /\ opened = Slices /\ unread = {} /\ UNCHANGED <<source, watermark, high>>
      /\ pc' \in {"empty", "post"}
  BY DEF Swap, FinishUpsert, Loaded, dbVars, stateVars, loadVars, runVars
<1>2. Swap => full /\ job.staged /\ from = 0 /\ target' = stage
  <2>1. job.strategy # "swap"
    BY Configs DEF TypeOK
  <2> QED
    BY <1>1, <2>1 DEF Swap, Swaps, JobInv, Attempts
<1>3. FinishUpsert => ~full /\ from = watermark /\ target' = IF job.staged THEN Upserted(target, stage) ELSE target
  BY <1>1 DEF FinishUpsert, Swaps, Direct, JobInv, Attempts
<1>4. /\ {openedAt, Spread, watermark, high, Lookback} \subseteq Nat /\ \A r \in Rows : source[r] \in Nat
      /\ watermark <= openedAt /\ high <= openedAt + Spread
  <2>1. Stamp \subseteq Nat
    BY LookbackAssumption DEF Stamp
  <2>2. watermark <= openedAt /\ high <= openedAt + Spread
    BY <1>1 DEF ClockInv, Attempts
  <2> QED
    BY <2>1, <2>2, Configs DEF TypeOK
<1>5. Read = IF job.staged THEN stage ELSE {}
  BY <1>1 DEF Read, Staged
<1>6. ASSUME NEW r \in Rows, Settled(r)
      PROVE  Holds(target, r)'
  <2>1. \/ Holds(Read \cup IF job.staged THEN {} ELSE target, r)
        \/ from # 0 /\ source[r] + Lookback <= from
    BY <1>1, <1>6, RowsAssumption DEF SkipInv, Opened, Attempts
  <2>2. CASE Swap
    BY <1>1, <1>2, <1>5, <2>1, <2>2 DEF Holds
  <2>3. CASE FinishUpsert
    <3>1. Holds(target \cup IF job.staged THEN stage ELSE {}, r)
      <4>1. CASE Holds(Read \cup IF job.staged THEN {} ELSE target, r)
        BY <1>5, <4>1 DEF Holds
      <4>2. CASE from # 0 /\ source[r] + Lookback <= from
        <5>1. Holds(target, r)
          BY <1>3, <1>6, <2>3, <4>2 DEF SkipInv, Covered, Settled
        <5> QED
          BY <5>1 DEF Holds
      <4> QED
        BY <2>1, <4>1, <4>2
    <3>2. CASE job.staged
      <4>1. stage \subseteq Copy /\ \A d \in stage : d.row = r => d.stamp = source[r]
        BY <1>1, <1>5, <1>6, <3>2 DEF SkipInv, TypeOK, Attempts
      <4>2. Holds(Upserted(target, stage), r)
        BY <3>1, <3>2, <4>1, WritesHold
      <4> QED
        BY <1>1, <1>3, <2>3, <3>2, <4>2 DEF Holds
    <3>3. CASE ~job.staged
      BY <1>1, <1>3, <2>3, <3>1, <3>3 DEF Holds
    <3> QED
      BY <3>2, <3>3
  <2> QED
    BY <2>2, <2>3
<1>7. ASSUME NEW b \in Nat, b <= openedAt + Spread
      PROVE  \A r \in Rows : source'[r] # 0 /\ source'[r] + Lookback <= b => Holds(target, r)'
  <2> SUFFICES ASSUME NEW r \in Rows, source[r] # 0, source[r] + Lookback <= b
               PROVE  Holds(target, r)'
    BY <1>1
  <2>1. Settled(r)
    BY <1>4, <1>7 DEF Settled
  <2> QED
    BY <1>6, <2>1
<1>8. watermark <= openedAt + Spread
  BY <1>4
<1>9. Covered(watermark, target)' /\ Covered(high, target)'
  BY <1>1, <1>4, <1>7, <1>8 DEF Covered
<1> QED
  BY <1>1, <1>9 DEF SkipInv, Attempts

LEMMA StepsKeepSkip ==
  ASSUME TypeOK, TypeOK', JobInv, ClockInv, ReadInv, SkipInv, Next
  PROVE  SkipInv'
<1>0. job' = job
  BY JobStays
<1> SUFFICES ASSUME job.incremental PROVE SkipInv'
  BY <1>0 DEF SkipInv
<1>1. CASE SourceStep
  BY <1>1, SourceSkips
<1>2. CASE End \/ StartRun
  <2>1. UNCHANGED <<source, watermark, target>> /\ pc' \in {"query", "idle"}
    BY <1>2, Ends DEF StartRun, tableVars, stateVars
  <2> QED
    BY <1>0, <2>1 DEF SkipInv, Covered, Holds, Attempts
<1>3. CASE Query
  BY <1>3, QuerySkips
<1>4. CASE Begin
  <2>1. /\ UNCHANGED <<source, watermark, from, opened, openedAt, unread, target>> /\ stage' = {}
        /\ pc = "begin" /\ pc' = "load"
    BY <1>4 DEF Begin, dbVars, stateVars, loadVars
  <2>2. Read' = Read /\ Spread' = Spread
    BY <1>0, <2>1 DEF Read, Staged, Spread
  <2> QED
    BY <1>0, <2>1, <2>2 DEF SkipInv, Covered, Holds, Settled, Opened, Attempts
<1>5. ASSUME NEW s \in Slices, OpenSlice(s)
      PROVE  SkipInv'
  BY <1>5, OpeningSkips
<1>6. ASSUME NEW c \in unread, WriteRow(c)
      PROVE  SkipInv'
  BY <1>6, WritingSkips
<1>7. CASE Swap \/ FinishUpsert
  BY <1>7, FinishSkips
<1>8. CASE EmptyStage \/ PostQueries
  <2>1. /\ UNCHANGED <<source, watermark, high, target>> /\ pc \in {"empty", "post"} /\ pc' \in {"post", "recordWatermark"}
    BY <1>8 DEF EmptyStage, PostQueries, dbVars, tableVars, stateVars, loadVars
  <2> QED
    BY <1>0, <2>1 DEF SkipInv, Covered, Holds, Attempts
<1>9. CASE RecordWatermark
  <2>1. UNCHANGED <<source, target>> /\ watermark' \in {watermark, high} /\ pc = "recordWatermark" /\ pc' = "recordKey"
    BY <1>9 DEF RecordWatermark, dbVars, tableVars
  <2> QED
    BY <1>0, <2>1 DEF SkipInv, Covered, Holds, Attempts
<1> QED
  BY <1>1, <1>2, <1>3, <1>4, <1>5, <1>6, <1>7, <1>8, <1>9 DEF Next, JobStep, SourceStep, End

-------------------------------------------------------------------------------
(* A swap's attempt reads versions of its time *)

Replacing == Swaps /\ ~job.inPlace

LEMMA Replaces ==
  ASSUME TypeOK, JobInv, Replacing
  PROVE  /\ job.staged
         /\ pc \in Attempts => from = 0
         /\ pc = "load" => Staged = stage
         /\ pc = "begin" => Staged = {}
<1>1. job.staged /\ (full \/ ~job.incremental)
  BY Configs DEF TypeOK, JobInv, Replacing, Swaps
<1> QED
  BY <1>1 DEF JobInv, Staged

LEMMA SourceVersions ==
  ASSUME TypeOK, VersionInv, Replacing, SourceStep
  PROVE  VersionInv'
<1>1. UNCHANGED <<pc, unread, stage, target, opened, job, full>>
  BY DEF SourceStep, Tick, Commit, Delete, RotateKey, tableVars, loadVars, runVars
<1>2. UNCHANGED <<Read, Swaps>>
  BY <1>1 DEF Read, Staged, Swaps
<1>3. pc \notin Attempts => versions' = versions
  BY DEF SourceStep, Tick, Commit, Delete, RotateKey, Witness, Attempts
<1>4. pc \in Attempts => \A r \in Rows : versions[r] \subseteq versions'[r] /\ source'[r] \in versions'[r]
  <2> SUFFICES ASSUME pc \in Attempts, NEW r \in Rows
               PROVE  versions[r] \subseteq versions'[r] /\ source'[r] \in versions'[r]
    OBVIOUS
  <2>1. source[r] \in versions[r]
    BY DEF VersionInv, Replacing
  <2>2. CASE Tick \/ RotateKey
    BY <2>1, <2>2 DEF Tick, RotateKey
  <2>3. ASSUME NEW q \in Rows, Commit(q) \/ Delete(q)
        PROVE  versions[r] \subseteq versions'[r] /\ source'[r] \in versions'[r]
    <3>1. PICK s \in Stamp : source' = [source EXCEPT ![q] = s] /\ Witness(q, s)
      BY <2>3, LookbackAssumption DEF Commit, Delete, Stamp
    <3>2. versions' = [versions EXCEPT ![q] = @ \cup {s}]
      BY <3>1 DEF Witness, Replacing, Attempts
    <3> QED
      BY <2>1, <3>1, <3>2 DEF TypeOK
  <2> QED
    BY <2>2, <2>3 DEF SourceStep
<1>5. \A c \in Read : c.row \in Rows
  BY DEF Read, Staged, TypeOK, Copy
<1>6. SwapLoadsTheSource'
  BY <1>1, <1>2, <1>3 DEF VersionInv, SwapLoadsTheSource, Replacing, Attempts
<1>7. pc \in Attempts =>
        /\ \A r \in Rows : source'[r] \in versions'[r]
        /\ \A c \in Read : c.stamp \in versions'[c.row] \ {0}
        /\ \A r \in Rows : Opened(r) => 0 \in versions'[r] \/ \E c \in Read : c.row = r
  BY <1>4, <1>5 DEF VersionInv, Replacing
<1> QED
  BY <1>1, <1>2, <1>6, <1>7 DEF VersionInv, Opened

(* What a query adds: every row of its slices that is there. *)
LEMMA ReadsVersions ==
  ASSUME TypeOK, ~job.inPlace, NEW slices
  PROVE  /\ \A c \in Extract(slices, 0) : c.stamp = source[c.row] /\ c.stamp # 0
         /\ \A r \in Rows : SliceOf[r] \in slices => source[r] = 0 \/ \E c \in Extract(slices, 0) : c.row = r
<1>1. 0 \in Stamp
  BY LookbackAssumption DEF Stamp
<1>2. \A r \in Rows : Original(r, source[r]).row = r
  BY Originals DEF TypeOK
<1> QED
  BY <1>1, <1>2, Extracts, Extracted

LEMMA StepsKeepVersions ==
  ASSUME TypeOK, JobInv, ReadInv, VersionInv, Next
  PROVE  VersionInv'
<1>0. job' = job
  BY JobStays
<1>1. CASE End \/ StartRun
  <2>1. pc' \in {"query", "idle"}
    BY <1>1, Ends DEF StartRun
  <2> QED
    BY <2>1 DEF VersionInv, SwapLoadsTheSource, Attempts
<1>2. CASE ~(End \/ StartRun)
  <2>1. full' = full
    <3>1. CASE SourceStep
      BY <3>1 DEF SourceStep, Tick, Commit, Delete, RotateKey, runVars
    <3>2. CASE Query \/ Begin \/ Swap \/ EmptyStage \/ FinishUpsert \/ PostQueries \/ RecordWatermark
      BY <3>2 DEF Query, Begin, Swap, EmptyStage, FinishUpsert, PostQueries, RecordWatermark, runVars
    <3>3. CASE (\E s \in Slices : OpenSlice(s)) \/ (\E c \in unread : WriteRow(c))
      BY <3>3 DEF OpenSlice, WriteRow, runVars
    <3> QED
      BY <1>2, <3>1, <3>2, <3>3 DEF Next, JobStep, SourceStep, End
  <2>0. Swaps' = Swaps
    BY <1>0, <2>1 DEF Swaps
  <2> SUFFICES ASSUME Replacing PROVE VersionInv'
    BY <1>0, <2>0 DEF VersionInv, Replacing
  <2>2. CASE SourceStep
    BY <2>2, SourceVersions
  <2>3. CASE Query
    <3>1. /\ pc' = "begin" /\ UNCHANGED <<source, target>> /\ versions' = [r \in Rows |-> {source[r]}]
          /\ unread' = IF job.partitioned THEN {} ELSE Extract(Slices, 0)
          /\ opened' = IF job.partitioned THEN {} ELSE Slices
      <4>1. full \/ ~job.incremental
        BY Configs DEF TypeOK, Replacing, Swaps
      <4> QED
        BY <2>3, <4>1 DEF Query, Replacing, Swaps, OneStream, dbVars, tableVars
    <3>2. Read' = unread'
      BY <3>1 DEF Read, Staged
    <3>3. \A c \in Read' : c.stamp \in versions'[c.row] \ {0}
      <4>1. \A c \in Read' : c.row \in Rows
        BY <3>1, <3>2, Extracts, LookbackAssumption DEF Copy, Stamp
      <4> QED
        BY <3>1, <3>2, <4>1, ReadsVersions DEF Replacing
    <3>4. \A r \in Rows : Opened(r)' => 0 \in versions'[r] \/ \E c \in Read' : c.row = r
      BY <3>1, <3>2, ReadsVersions, RowsAssumption DEF Replacing, Opened
    <3> QED
      BY <3>1, <3>3, <3>4 DEF VersionInv, SwapLoadsTheSource, Attempts
  <2>4. CASE Begin
    <3>1. UNCHANGED <<source, versions, unread, opened>> /\ stage' = {} /\ pc = "begin" /\ pc' = "load"
      BY <2>4 DEF Begin, dbVars, loadVars
    <3>2. Read' = Read
      BY <3>1 DEF Read, Staged
    <3> QED
      BY <3>1, <3>2 DEF VersionInv, SwapLoadsTheSource, Replacing, Opened, Attempts
  <2>5. ASSUME NEW s \in Slices, OpenSlice(s)
        PROVE  VersionInv'
    <3>1. /\ pc = "load" /\ UNCHANGED <<source, versions, pc>> /\ opened' = opened \cup {s}
          /\ Read' = Read \cup Extract({s}, 0)
      BY <1>0, <2>5, Replaces DEF OpenSlice, Read, Staged, dbVars, tableVars, Attempts
    <3>2. \A c \in Extract({s}, 0) : c.row \in Rows
      BY Extracts, LookbackAssumption DEF Copy, Stamp
    <3>3. \A r \in Rows : source[r] \in versions[r]
      BY <3>1 DEF VersionInv, Replacing, Attempts
    <3>4. \A c \in Read' : c.stamp \in versions[c.row] \ {0}
      BY <3>1, <3>2, <3>3, ReadsVersions DEF VersionInv, Replacing, Attempts
    <3>5. \A r \in Rows : Opened(r)' => 0 \in versions[r] \/ \E c \in Read' : c.row = r
      <4> SUFFICES ASSUME NEW r \in Rows, SliceOf[r] \in opened', 0 \notin versions[r] PROVE \E c \in Read' : c.row = r
        BY DEF Opened
      <4>1. CASE SliceOf[r] = s
        BY <3>1, <3>3, <4>1, ReadsVersions DEF Replacing
      <4>2. CASE SliceOf[r] # s
        BY <3>1, <4>2 DEF VersionInv, Replacing, Opened, Attempts
      <4> QED
        BY <4>1, <4>2
    <3> QED
      BY <3>1, <3>3, <3>4, <3>5 DEF VersionInv, SwapLoadsTheSource
  <2>6. ASSUME NEW c \in unread, WriteRow(c)
        PROVE  VersionInv'
    <3>1. /\ pc = "load" /\ UNCHANGED <<source, versions, opened, pc>>
          /\ unread' = unread \ {c} /\ Staged' = Staged \cup {Mask(c)}
      BY <1>0, <2>6, Replaces DEF WriteRow, Direct, Staged, dbVars
    <3>2. Mask(c).row = c.row /\ Mask(c).stamp = c.stamp /\ c \in Read
      BY Masks DEF TypeOK, Read
    <3>3. Mask(c) \in Read' /\ Read' \subseteq Read \cup {Mask(c)} /\ Read \subseteq Read' \cup {c}
      BY <3>1 DEF Read
    <3>4. \A d \in Read' : d.stamp \in versions[d.row] \ {0}
      BY <3>1, <3>2, <3>3 DEF VersionInv, Replacing, Attempts
    <3>5. \A r \in Rows : Opened(r) => 0 \in versions[r] \/ \E d \in Read' : d.row = r
      BY <3>1, <3>2, <3>3 DEF VersionInv, Replacing, Attempts
    <3> QED
      BY <3>1, <3>4, <3>5 DEF VersionInv, SwapLoadsTheSource, Replacing, Opened, Attempts
  <2>7. CASE Swap
    <3>1. /\ pc = "load" /\ opened = Slices /\ unread = {} /\ target' = stage /\ versions' = versions
          /\ pc' \in {"empty", "post"}
      BY <2>7 DEF Swap, Loaded
    <3>2. Read = stage /\ Staged = stage
      BY <3>1, Replaces DEF Read
    <3>3. \A r \in Rows : Opened(r)
      BY <3>1, RowsAssumption DEF Opened
    <3>4. \A c, d \in stage : c.row = d.row => c = d
      BY <3>1, <3>2 DEF ReadInv, Replacing, Attempts
    <3>5. \A r \in Rows :
            \/ \E c \in stage : c.row = r /\ c.stamp \in versions[r] \ {0} /\ \A d \in stage : d.row = r => d = c
            \/ 0 \in versions[r] /\ \A c \in stage : c.row # r
      <4> SUFFICES ASSUME NEW r \in Rows, ~(0 \in versions[r] /\ \A c \in stage : c.row # r)
                   PROVE  \E c \in stage : c.row = r /\ c.stamp \in versions[r] \ {0} /\ \A d \in stage : d.row = r => d = c
        OBVIOUS
      <4>1. PICK c \in stage : c.row = r
        BY <3>1, <3>2, <3>3 DEF VersionInv, Replacing, Attempts
      <4>2. c.stamp \in versions[r] \ {0}
        BY <3>1, <3>2, <4>1 DEF VersionInv, Replacing, Attempts
      <4> QED
        BY <3>4, <4>1, <4>2
    <3> QED
      BY <3>1, <3>5 DEF VersionInv, SwapLoadsTheSource, Attempts
  <2>8. CASE FinishUpsert
    BY <2>8 DEF FinishUpsert, Replacing
  <2>9. CASE EmptyStage \/ PostQueries \/ RecordWatermark
    <3>1. /\ UNCHANGED <<target, versions>> /\ pc \in {"empty", "post", "recordWatermark"}
          /\ pc' \in {"post", "recordWatermark", "recordKey"}
      BY <2>9 DEF EmptyStage, PostQueries, RecordWatermark, tableVars
    <3> QED
      BY <3>1 DEF VersionInv, SwapLoadsTheSource, Replacing, Attempts
  <2> QED
    BY <1>2, <2>2, <2>3, <2>4, <2>5, <2>6, <2>7, <2>8, <2>9 DEF Next, JobStep, SourceStep, End
<1> QED
  BY <1>1, <1>2

-------------------------------------------------------------------------------
(* A swap's stage is of one generation *)

LEMMA StepsKeepGeneration ==
  ASSUME TypeOK, JobInv, ReadInv, GenerationInv, Next
  PROVE  GenerationInv'
<1>0. job' = job
  BY JobStays
<1> SUFFICES ASSUME job.strategy = "swap" PROVE GenerationInv'
  BY <1>0 DEF GenerationInv
<1>1. job.staged /\ Swaps
  BY Configs DEF TypeOK, Swaps
<1>2. pc = "load" => Staged = stage
  BY <1>1 DEF Staged
<1>3. CASE SourceStep
  <2>1. UNCHANGED <<pc, unread, stage, target, opened>> /\ (pc \in Attempts => key' = key)
    BY <1>3 DEF SourceStep, Tick, Commit, Delete, RotateKey, tableVars, loadVars, Attempts
  <2>2. UNCHANGED <<Read, Staged>>
    BY <1>0, <2>1 DEF Read, Staged
  <2> QED
    BY <1>0, <2>1, <2>2 DEF GenerationInv, OneGeneration, Opened, Mask
<1>4. CASE End \/ StartRun
  <2>1. UNCHANGED target /\ pc' \in {"query", "idle"}
    BY <1>4, Ends DEF StartRun, tableVars
  <2> QED
    BY <1>0, <2>1 DEF GenerationInv, OneGeneration, Attempts
<1>5. CASE Query
  <2>1. UNCHANGED <<target, key>> /\ pc' = "begin"
    BY <1>5 DEF Query, tableVars, dbVars
  <2>2. Staged' = {} /\ Read' = unread'
    BY <2>1 DEF Staged, Read
  <2>3. job.inPlace => \A r \in Rows : Opened(r)' => \E c \in Read' : c.row = r
    <3> SUFFICES ASSUME job.inPlace, NEW r \in Rows, SliceOf[r] \in opened' PROVE \E c \in Read' : c.row = r
      BY DEF Opened
    <3>1. ~job.incremental /\ 0 \in Stamp
      BY Configs, LookbackAssumption DEF TypeOK, Stamp
    <3>2. OneStream /\ unread' = Extract(Slices, 0) /\ SliceOf[r] \in Slices
      BY <1>5, <3>1, RowsAssumption DEF Query
    <3>3. PICK c \in target : c.row = r
      BY DEF GenerationInv, OneGeneration
    <3> QED
      BY <2>2, <3>1, <3>2, <3>3, Extracted
  <2> QED
    BY <1>0, <2>1, <2>2, <2>3 DEF GenerationInv, OneGeneration
<1>6. CASE Begin
  <2>1. UNCHANGED <<target, key, unread, opened>> /\ stage' = {} /\ pc = "begin" /\ pc' = "load"
    BY <1>6 DEF Begin, dbVars, loadVars
  <2>2. Staged' = {} /\ Read' = Read
    BY <2>1 DEF Staged, Read
  <2> QED
    BY <1>0, <2>1, <2>2 DEF GenerationInv, OneGeneration, Opened, Attempts
<1>7. ASSUME NEW s \in Slices, OpenSlice(s)
      PROVE  GenerationInv'
  <2>1. /\ UNCHANGED <<target, stage, key, pc>> /\ pc = "load" /\ opened' = opened \cup {s}
        /\ unread' = unread \cup Extract({s}, from)
    BY <1>7 DEF OpenSlice, dbVars, tableVars
  <2>2. Staged' = Staged /\ Read \subseteq Read' /\ unread' \subseteq Read'
    BY <1>0, <2>1 DEF Staged, Read
  <2>3. job.inPlace => \A r \in Rows : Opened(r)' => \E c \in Read' : c.row = r
    <3> SUFFICES ASSUME job.inPlace, NEW r \in Rows, SliceOf[r] \in opened' PROVE \E c \in Read' : c.row = r
      BY DEF Opened
    <3>1. CASE SliceOf[r] # s
      BY <2>1, <2>2, <3>1 DEF GenerationInv, Opened, Attempts
    <3>2. CASE SliceOf[r] = s
      <4>1. PICK c \in target : c.row = r
        BY DEF GenerationInv, OneGeneration
      <4>2. from = 0 /\ 0 \in Stamp
        BY <2>1, Configs, LookbackAssumption DEF TypeOK, Stamp, JobInv, Attempts
      <4>3. c \in Extract({s}, from)
        BY <3>2, <4>1, <4>2, Extracted
      <4> QED
        BY <2>1, <2>2, <4>1, <4>3
    <3> QED
      BY <3>1, <3>2
  <2> QED
    BY <1>0, <2>1, <2>2, <2>3 DEF GenerationInv, OneGeneration, Mask
<1>8. ASSUME NEW c \in unread, WriteRow(c)
      PROVE  GenerationInv'
  <2>1. /\ UNCHANGED <<target, key, opened, pc>> /\ pc = "load"
        /\ unread' = unread \ {c} /\ Staged' = Staged \cup {Mask(c)}
    BY <1>0, <1>1, <1>8 DEF WriteRow, Direct, Staged, dbVars
  <2>2. /\ Mask(c).row = c.row /\ c \in Copy
        /\ Mask(c).under = IF job.masked THEN Append(c.under, key) ELSE c.under
    BY Masks DEF TypeOK
  <2>3. \A d \in target : job.inPlace => Mask(c).under = Mask(d).under
    <3> SUFFICES ASSUME NEW d \in target, job.inPlace PROVE Mask(c).under = Mask(d).under
      OBVIOUS
    <3>1. c \in target
      BY <2>1 DEF ReadInv, Attempts
    <3>2. c.under = d.under
      BY <3>1 DEF GenerationInv, OneGeneration
    <3>3. Mask(d).under = IF job.masked THEN Append(d.under, key) ELSE d.under
      BY Masks DEF TypeOK
    <3> QED
      BY <2>2, <3>2, <3>3
  <2>4. ~job.inPlace => c.under = <<>>
    BY <2>1 DEF ReadInv, Attempts
  <2>5. \A r \in Rows : (\E d \in Read : d.row = r) => \E d \in Read' : d.row = r
    <3>1. Mask(c) \in Read' /\ Read \subseteq Read' \cup {c}
      BY <2>1 DEF Read
    <3> QED
      BY <2>2, <3>1
  <2>6. \A d \in Staged' : IF job.inPlace THEN \A e \in target : d.under = Mask(e).under
                           ELSE d.under = IF job.masked THEN Append(<<>>, key) ELSE <<>>
    BY <2>1, <2>2, <2>3, <2>4 DEF GenerationInv, Attempts
  <2>7. \A d : Mask(d)' = Mask(d)
    BY <1>0, <2>1 DEF Mask
  <2>8. job.inPlace => \A r \in Rows : Opened(r)' => \E d \in Read' : d.row = r
    BY <2>1, <2>5 DEF GenerationInv, Opened, Attempts
  <2>9. OneGeneration'
    BY <1>0, <2>1 DEF GenerationInv, OneGeneration
  <2> QED
    BY <1>0, <2>1, <2>6, <2>7, <2>8, <2>9 DEF GenerationInv
<1>9. CASE Swap
  <2>1. pc = "load" /\ opened = Slices /\ unread = {} /\ target' = stage /\ pc' \in {"empty", "post"}
    BY <1>9 DEF Swap, Loaded
  <2>2. Staged = stage /\ Read = stage /\ stage \subseteq Copy
    BY <1>2, <2>1 DEF Read, TypeOK
  <2>3. job.inPlace => {c.row : c \in stage} = Rows
    <3>1. job.inPlace => \A r \in Rows : \E c \in stage : c.row = r
      BY <2>1, <2>2, RowsAssumption DEF GenerationInv, Opened, Attempts
    <3>2. \A c \in stage : c.row \in Rows
      BY <2>2 DEF Copy
    <3> QED
      BY <3>1, <3>2
  <2>4. \A c, d \in stage : c.under = d.under
    <3> SUFFICES ASSUME NEW c \in stage, NEW d \in stage PROVE c.under = d.under
      OBVIOUS
    <3>1. CASE job.inPlace
      <4>1. c.row \in Rows
        BY <2>2 DEF Copy
      <4>2. PICK e \in target : e.row = c.row
        BY <3>1, <4>1 DEF GenerationInv, OneGeneration
      <4> QED
        BY <2>1, <2>2, <3>1, <4>2 DEF GenerationInv, Attempts
    <3>2. CASE ~job.inPlace
      BY <2>1, <2>2, <3>2 DEF GenerationInv, Attempts
    <3> QED
      BY <3>1, <3>2
  <2> QED
    BY <1>0, <2>1, <2>3, <2>4 DEF GenerationInv, OneGeneration, Attempts
<1>10. CASE FinishUpsert
  BY <1>1, <1>10 DEF FinishUpsert
<1>11. CASE EmptyStage \/ PostQueries \/ RecordWatermark
  <2>1. UNCHANGED target /\ pc' \in {"post", "recordWatermark", "recordKey"}
    BY <1>11 DEF EmptyStage, PostQueries, RecordWatermark, tableVars
  <2> QED
    BY <1>0, <2>1 DEF GenerationInv, OneGeneration, Attempts
<1> QED
  BY <1>3, <1>4, <1>5, <1>6, <1>7, <1>8, <1>9, <1>10, <1>11 DEF Next, JobStep, SourceStep, End

-------------------------------------------------------------------------------
(* The key a run loads under *)

LEMMA StepsKeepKey ==
  ASSUME KeyInv, Next
  PROVE  KeyInv'
<1>0. job' = job
  BY JobStays
<1>1. CASE SourceStep
  <2>1. UNCHANGED <<pc, full, fingerprint>> /\ (pc # "idle" => key' = key)
    BY <1>1 DEF SourceStep, Tick, Commit, Delete, RotateKey, stateVars, runVars
  <2> QED
    BY <1>0, <2>1 DEF KeyInv, Swaps
<1>2. CASE StartRun
  <2>1. UNCHANGED <<key, fingerprint>> /\ \E readable \in BOOLEAN : KeyAllows(full', readable)
    BY <1>2 DEF StartRun, stateVars
  <2> QED
    BY <1>0, <2>1 DEF KeyInv, Swaps, KeyAllows
<1>3. CASE RecordKey \/ Fail \/ Killed
  <2>1. pc' = "idle"
    BY <1>3 DEF RecordKey, Fail, Killed, RunOver
  <2> QED
    BY <2>1 DEF KeyInv
<1>4. CASE Query \/ Begin \/ Swap \/ EmptyStage \/ FinishUpsert \/ PostQueries \/ RecordWatermark \/ Retry
  <2>1. UNCHANGED <<full, key, fingerprint>> /\ pc # "idle"
    BY <1>4 DEF Query, Begin, Swap, EmptyStage, FinishUpsert, PostQueries, RecordWatermark, Retry, Attempting, dbVars,
                stateVars, runVars
  <2> QED
    BY <1>0, <2>1 DEF KeyInv, Swaps
<1>5. CASE (\E s \in Slices : OpenSlice(s)) \/ (\E c \in unread : WriteRow(c))
  <2>1. UNCHANGED <<full, key, fingerprint>> /\ pc # "idle"
    BY <1>5 DEF OpenSlice, WriteRow, dbVars, stateVars, runVars
  <2> QED
    BY <1>0, <2>1 DEF KeyInv, Swaps
<1> QED
  BY <1>1, <1>2, <1>3, <1>4, <1>5 DEF Next, JobStep, SourceStep

LEMMA OnlyRunsWrite ==
  ASSUME Next, target' # target
  PROVE  pc # "idle"
<1>1. CASE SourceStep \/ StartRun \/ End
  BY <1>1, Ends DEF SourceStep, Tick, Commit, Delete, RotateKey, StartRun, tableVars
<1>2. CASE Query \/ Begin \/ Swap \/ EmptyStage \/ FinishUpsert \/ PostQueries \/ RecordWatermark
  BY <1>2 DEF Query, Begin, Swap, EmptyStage, FinishUpsert, PostQueries, RecordWatermark
<1>3. CASE (\E s \in Slices : OpenSlice(s)) \/ (\E c \in unread : WriteRow(c))
  BY <1>3 DEF OpenSlice, WriteRow
<1> QED
  BY <1>1, <1>2, <1>3 DEF Next, JobStep, SourceStep, End

-------------------------------------------------------------------------------
(* The theorems *)

LEMMA InitInv == Init => IInv
<1> SUFFICES ASSUME Init PROVE IInv
  OBVIOUS
<1>1. TypeOK /\ JobInv /\ ClockInv
  BY InitType, InitJobClock
<1>2. pc = "idle" /\ pc \notin Attempts /\ full = FALSE /\ watermark = 0 /\ source = [r \in Rows |-> 0]
  BY DEF Init, Attempts
<1>3. ReadInv
  BY <1>2 DEF ReadInv
<1>4. SkipInv
  BY <1>2 DEF SkipInv, Covered
<1>5. VersionInv
  BY <1>2 DEF VersionInv, SwapLoadsTheSource
<1>6. OneGeneration
  <2>1. 0 \in Stamp
    BY LookbackAssumption DEF Stamp
  <2>2. \A r \in Rows : Original(r, 0).row = r /\ Original(r, 0).under = <<>>
    BY <2>1, Originals
  <2>3. target = IF job.inPlace THEN {Original(r, 0) : r \in Rows} ELSE {}
    BY DEF Init
  <2> QED
    BY <2>2, <2>3 DEF OneGeneration
<1> QED
  BY <1>1, <1>2, <1>3, <1>4, <1>5, <1>6 DEF IInv, GenerationInv, KeyInv

LEMMA StepKeepsInv ==
  ASSUME IInv, Next
  PROVE  IInv'
<1> USE DEF IInv
<1>1. TypeOK'
  <2>1. CASE SourceStep
    BY <2>1, SourceTypes
  <2>2. CASE StartRun \/ End
    BY <2>2, RunTypes
  <2>3. CASE JobStep /\ ~End
    BY <2>3, LoadTypes
  <2> QED
    BY <2>1, <2>2, <2>3 DEF Next, SourceStep, End
<1>2. JobInv'
  BY JobStepsKeepJob
<1>3. ClockInv'
  BY <1>1, StepsKeepClock
<1>4. ReadInv'
  BY <1>1, StepsKeepRead
<1>5. SkipInv'
  BY <1>1, StepsKeepSkip
<1>6. VersionInv'
  BY StepsKeepVersions
<1>7. GenerationInv'
  BY StepsKeepGeneration
<1>8. KeyInv'
  BY StepsKeepKey
<1> QED
  BY <1>1, <1>2, <1>3, <1>4, <1>5, <1>6, <1>7, <1>8

LEMMA StutterKeepsInv ==
  ASSUME IInv, UNCHANGED vars
  PROVE  IInv'
<1>1. UNCHANGED <<clock, source, key, runs, target, stage, watermark, fingerprint>>
  BY DEF vars, dbVars, tableVars, stateVars
<1>2. UNCHANGED <<pc, from, opened, openedAt, unread, high, job, full, attempt, outcome, versions>>
  BY DEF vars, loadVars, runVars
<1>3. TypeOK' /\ JobInv' /\ ClockInv'
  BY <1>1, <1>2 DEF IInv, TypeOK, JobInv, ClockInv, Spread
<1>4. ReadInv' /\ SkipInv'
  BY <1>1, <1>2 DEF IInv, ReadInv, SkipInv, Read, Staged, Opened, Covered, Holds, Settled, Spread
<1>5. VersionInv' /\ GenerationInv' /\ KeyInv'
  BY <1>1, <1>2 DEF IInv, VersionInv, GenerationInv, KeyInv, SwapLoadsTheSource, OneGeneration, Swaps, Read, Staged, Opened, Mask
<1> QED
  BY <1>3, <1>4, <1>5 DEF IInv

(* Every state of every job, however its runs are failed, retried and      *)
(* killed, is of the invariant.                                            *)
THEOREM Invariance == Spec => []IInv
<1>1. IInv /\ [Next]_vars => IInv'
  BY StepKeepsInv, StutterKeepsInv
<1> QED
  BY InitInv, <1>1, PTL DEF Spec

(* The watermark never runs ahead of what the target holds (jobs/memory.py *)
(* is given it only once the load is in): no incremental run skips a row,  *)
(* under any failure, retry, kill, late commit or skewed opening of slices *)
(* that the lookback covers.                                               *)
THEOREM NoRowIsSkipped == Spec => []NoRowSkipped
<1>1. IInv => NoRowSkipped
  BY DEF IInv, SkipInv, Covered, Holds, NoRowSkipped
<1> QED
  BY Invariance, <1>1, PTL

(* A run that replaces its target leaves there each row as it was at some  *)
(* moment of the reading, once, and nothing an earlier attempt staged.     *)
THEOREM SwapsLoadTheSource == Spec => []SwapLoadsTheSource
<1>1. IInv => SwapLoadsTheSource
  BY DEF IInv, VersionInv, SwapLoadsTheSource
<1> QED
  BY Invariance, <1>1, PTL

(* A target that is only ever swapped is of one load under one key, and a  *)
(* table masked in place is never short of a row.                          *)
THEOREM AlwaysOneGeneration == Spec => []OneGeneration
<1>1. IInv => OneGeneration
  BY DEF IInv, GenerationInv, OneGeneration
<1> QED
  BY Invariance, <1>1, PTL

(* A run adds to a masked target only under the key recorded last          *)
(* (jobs/keys.py refuses any other, unless the change is accepted).        *)
THEOREM RecordedKeyIsKept == Spec => RecordedKeyOnly
<1> DEFINE A == ~Accepts /\ job.masked /\ ~Swaps /\ target' # target => fingerprint \in {"none", key}
<1>1. IInv /\ [Next]_vars => [A]_vars
  BY OnlyRunsWrite DEF IInv, KeyInv
<1> QED
  BY Invariance, <1>1, PTL DEF Spec, RecordedKeyOnly
===============================================================================
