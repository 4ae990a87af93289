------------------------------- MODULE Reading -------------------------------
(***************************************************************************)
(* One attempt of a job that reads its rows in slices (jobs/pipeline.py,   *)
(* jobs/throttle.py): each slice a thread with a cursor of its own, its    *)
(* chunks paid for against the connection's one read limit, prepared ahead *)
(* of the one being written, and written.                                  *)
(*                                                                         *)
(* Time passes in ticks.  The limit's schedule and the readers' waits are  *)
(* kept as ticks from now, so that the clock needs no bound.               *)
(***************************************************************************)
EXTENDS Partitions, Sequences

CONSTANTS
  Rows,       \* numbered, as a cursor gives them
  Tables,     \* what the column may hold, [Rows -> values]
  Late,       \* the rows that may be added while the job runs
  Jobs,       \* the job's partitions, and what the run gave it
  ChunkSize,
  Depths,     \* how many chunks may be prepared ahead: PIPELINE_DEPTH, or 0
  RowTime,    \* ticks a row costs, 0 without a limit
  Burst       \* ticks: BURST_SECONDS

Values == {t[r] : t \in Tables, r \in Rows} \ {Null}

ASSUME ReadingAssumption ==
  /\ Rows \subseteq Nat /\ IsFiniteSet(Rows) /\ Late \subseteq Rows
  /\ Values \subseteq Int
  /\ \A values \in SUBSET Values : values # {} =>
       \E low, high \in values : \A v \in values : low <= v /\ v <= high  \* they are finite
  /\ {ChunkSize, RowTime, Burst} \cup Depths \subseteq Nat /\ ChunkSize > 0
  /\ \A j \in Jobs :
       /\ j.kind \in {"numbers", "others"} /\ j.automatic \in BOOLEAN
       /\ j.automatic \/ j.count \in Nat \ {0}
       /\ j.budget.share \in Nat \ {0} /\ j.budget.maskingThreads \in Nat \ {0}
       /\ j.budget.automaticThreads => j.budget.maskingThreads = j.budget.share
       /\ j.budget.places \in (Nat \ {0}) \cup {Null}
       /\ j.masksInPython \in BOOLEAN

VARIABLES
  job, depth,
  table,
  present,  \* the rows in the source
  pc,
  cuts, threads,
  stage,    \* [Slices -> what its thread is doing]
  left,     \* [Slices -> the rows its cursor has still to give]
  chunk,    \* [Slices -> the chunk it waits to have paid for, or {}]
  owed,     \* [Slices -> the ticks until it has]
  pending,  \* [Slices -> the chunks being prepared, or that have been]
  stopped,  \* the event the slices look at
  ahead,    \* the limit's schedule: when what was read is paid for
  (* history *)
  copies,   \* [Rows -> how often each was written]
  window    \* a stretch of time: its age, its rows, the slices whose chunk is of it

plan == <<job, depth, table, cuts, threads>>
slices == <<stage, left, chunk, owed, pending, copies>>
vars == <<plan, present, pc, slices, stopped, ahead, window>>

Slices == cuts \cup {Open}

LongestAhead == RowTime * Cardinality(Rows)  \* bound: what all the rows cost

TypeOK ==
  /\ job \in Jobs /\ depth \in Depths /\ table \in Tables
  /\ present \subseteq Rows
  /\ pc \in {"bounds", "loading", "loaded", "failed"}
  /\ cuts \subseteq Int /\ threads \in Nat
  /\ stage \in [Slices -> {"waiting", "reading", "done", "failed", "stopped"}]
  /\ left \in [Slices -> SUBSET Rows]
  /\ chunk \in [Slices -> SUBSET Rows]
  /\ owed \in [Slices -> 0..LongestAhead]
  /\ \A s \in Slices : pending[s] \in Seq(SUBSET Rows) /\ Len(pending[s]) <= depth + 1
  /\ stopped \in BOOLEAN
  /\ ahead \in -(Burst + 1)..LongestAhead
  /\ copies \in [Rows -> Nat]
  /\ window.age \in -1..LongestAhead /\ window.rows \subseteq Rows /\ window.slices \subseteq Slices

Init ==
  /\ job \in Jobs /\ depth \in Depths /\ table \in Tables
  /\ present = Rows \ Late
  /\ pc = "bounds"
  /\ cuts = {} /\ threads = job.budget.maskingThreads
  /\ stage = [s \in {Open} |-> "waiting"]
  /\ left = [s \in {Open} |-> {}]
  /\ chunk = [s \in {Open} |-> {}]
  /\ owed = [s \in {Open} |-> 0]
  /\ pending = [s \in {Open} |-> <<>>]
  /\ stopped = FALSE
  /\ ahead = -(Burst + 1)
  /\ copies = [r \in Rows |-> 0]
  /\ window = [age |-> -1, rows |-> {}, slices |-> {}]

-------------------------------------------------------------------------------
(* The slices *)

InSlice(s, r) ==
  IF job.kind = "numbers" THEN NumberSlice(cuts, s, table[r]) ELSE QuantileSlice(cuts, s, table[r])

Span(values) == IntegerBound(Max(values)) - IntegerBound(Min(values)) + 1

(* How many slices are asked for; a column without numbers has no span.    *)
CountFor(values) ==
  IF ~job.automatic THEN job.count
  ELSE AutomaticCount(IF job.kind = "numbers" THEN Span(values) ELSE MinimumRowsPerSlice * job.budget.share,
                      job.budget, job.masksInPython)

PlannedCuts(values) ==
  IF values = {} THEN {{}}
  ELSE IF job.kind = "numbers" THEN {NumberCuts(values, CountFor(values))}
  ELSE QuantileCuts(values, CountFor(values))

(* The bounds are read before the slices' cursors are opened. *)
ReadBounds ==
  /\ pc = "bounds"
  /\ pc' = "loading"
  /\ cuts' \in PlannedCuts({table[r] : r \in present} \ {Null})
  /\ LET new == cuts' \cup {Open}
         count == Cardinality(new)
     IN /\ threads' = IF count > 1 THEN MaskingThreadsWith(count, job.budget) ELSE threads
        /\ stage' = [s \in new |-> "waiting"]
        /\ left' = [s \in new |-> {}]
        /\ chunk' = [s \in new |-> {}]
        /\ owed' = [s \in new |-> 0]
        /\ pending' = [s \in new |-> <<>>]
  /\ UNCHANGED <<job, depth, table, present, copies, stopped, ahead, window>>

Goto(s, step) == stage' = [stage EXCEPT ![s] = step]

OpenSlice(s) ==
  /\ pc = "loading" /\ stage[s] = "waiting"
  /\ LET rows == {r \in present : InSlice(s, r)}
     IN /\ left' = [left EXCEPT ![s] = rows]
        /\ Goto(s, IF rows = {} THEN "done" ELSE "reading")
  /\ UNCHANGED <<plan, present, pc, chunk, owed, pending, copies, stopped, ahead, window>>

(* ReadLimit.take, under the limit's lock: the chunk is paid for when what *)
(* was read before it is, and a pause earns no more than a burst.          *)
ChargeAlone(s, count) ==  \* mutant: as if nothing had been read before it
  /\ ahead' = RowTime * count
  /\ owed' = [owed EXCEPT ![s] = ahead']
  /\ window' = [window EXCEPT !.slices = IF window.age >= 0 THEN @ \cup {s} ELSE @]

Charge(s, count) ==
  /\ ahead' = Max({ahead, -Burst}) + RowTime * count
  /\ owed' = [owed EXCEPT ![s] = Max({ahead', 0})]
  /\ window' = [window EXCEPT !.slices = IF window.age >= 0 THEN @ \cup {s} ELSE @]

NextChunk(s) ==
  {r \in left[s] : Cardinality({earlier \in left[s] : earlier < r}) < ChunkSize}

Room(s) == Len(pending[s]) <= depth

(* timedChunks: read, then charged, then waited for. *)
ReadChunk(s) ==
  /\ stage[s] = "reading" /\ chunk[s] = {} /\ left[s] # {}
  /\ Room(s)
  /\ chunk' = [chunk EXCEPT ![s] = NextChunk(s)]
  /\ left' = [left EXCEPT ![s] = @ \ NextChunk(s)]
  /\ Charge(s, Cardinality(NextChunk(s)))
  /\ UNCHANGED <<plan, present, pc, stage, pending, copies, stopped>>

(* Its wait over, it goes to the thread that prepares, behind the others.  *)
SubmitChunk(s) ==
  /\ chunk[s] # {} /\ owed[s] = 0
  /\ stage[s] = "reading"
  /\ pending' = [pending EXCEPT ![s] = Append(@, chunk[s])]
  /\ chunk' = [chunk EXCEPT ![s] = {}]
  /\ window' = [window EXCEPT !.slices = @ \ {s},
                              !.rows = IF s \in window.slices THEN @ \cup chunk[s] ELSE @]
  /\ UNCHANGED <<plan, present, pc, stage, left, owed, copies, stopped, ahead>>

(* The oldest chunk is written, once prepared, when there are more than    *)
(* depth or no more to come.                                               *)
AllRead(s) == left[s] = {} /\ chunk[s] = {}

HasToWriteButTheLast(s) ==  \* mutant: what is prepared at the end is left
  stage[s] = "reading" /\ Len(pending[s]) > depth

HasToWrite(s) ==
  /\ stage[s] = "reading" /\ pending[s] # <<>>
  /\ Len(pending[s]) > depth \/ AllRead(s)

WriteChunk(s) ==
  /\ HasToWrite(s) /\ ~stopped
  /\ copies' = [r \in Rows |-> copies[r] + IF r \in Head(pending[s]) THEN 1 ELSE 0]
  /\ pending' = [pending EXCEPT ![s] = Tail(@)]
  /\ Goto(s, IF AllRead(s) /\ Len(pending[s]) = 1 THEN "done" ELSE "reading")
  /\ UNCHANGED <<plan, present, pc, left, chunk, owed, stopped, ahead, window>>

End(s, step) ==
  /\ Goto(s, step)
  /\ chunk' = [chunk EXCEPT ![s] = {}]
  /\ left' = [left EXCEPT ![s] = {}]
  /\ pending' = [pending EXCEPT ![s] = <<>>]
  /\ window' = [window EXCEPT !.slices = @ \ {s}]
  /\ UNCHANGED <<plan, present, pc, owed, copies, stopped, ahead>>

(* Another slice has failed. *)
StopSlice(s) == HasToWrite(s) /\ stopped /\ End(s, "stopped")

(* Opening, reading, preparing or writing fails; what waits is dropped.    *)
SliceFails(s) ==
  /\ pc = "loading" /\ stage[s] \in {"waiting", "reading"} /\ chunk[s] = {}
  /\ End(s, "failed")

(* The thread that waits for the slices hears of the first to fail.        *)
StopOthers ==
  /\ pc = "loading" /\ ~stopped
  /\ \E s \in Slices : stage[s] = "failed"
  /\ stopped' = TRUE
  /\ UNCHANGED <<plan, present, pc, slices, ahead, window>>

LoadIsOver ==
  /\ pc = "loading"
  /\ \A s \in Slices : stage[s] \in {"done", "failed", "stopped"}
  /\ pc' = IF \E s \in Slices : stage[s] = "failed" THEN "failed" ELSE "loaded"
  /\ UNCHANGED <<plan, present, slices, stopped, ahead, window>>

-------------------------------------------------------------------------------
(* The source, and time *)

AddRow ==
  /\ pc \in {"bounds", "loading"}
  /\ \E r \in Late \ present : present' = present \cup {r}
  /\ UNCHANGED <<plan, pc, slices, stopped, ahead, window>>

(* A wait may last longer than it has to. *)
Tick ==
  /\ pc = "loading" /\ RowTime > 0
  /\ ahead' = Max({ahead - 1, -(Burst + 1)})
  /\ owed' = [s \in Slices |-> Max({owed[s] - 1, 0})]
  /\ window' = [window EXCEPT !.age = IF @ \in 0..(LongestAhead - 1) THEN @ + 1 ELSE @]
  /\ UNCHANGED <<plan, present, pc, stage, left, chunk, pending, copies, stopped>>

OpenWindow ==
  /\ pc = "loading" /\ RowTime > 0
  /\ window.age = -1
  /\ window' = [window EXCEPT !.age = 0]
  /\ UNCHANGED <<plan, present, pc, slices, stopped, ahead>>

SliceGoesOn(s) ==
  OpenSlice(s) \/ ReadChunk(s) \/ SubmitChunk(s) \/ WriteChunk(s) \/ StopSlice(s)

Next ==
  \/ ReadBounds \/ StopOthers \/ LoadIsOver \/ AddRow \/ Tick \/ OpenWindow
  \/ \E s \in Slices : SliceGoesOn(s) \/ SliceFails(s)

Spec == Init /\ [][Next]_vars

(* Every thread goes on.  A slice need not fail. *)
Fairness ==
  /\ WF_vars(ReadBounds) /\ WF_vars(StopOthers) /\ WF_vars(LoadIsOver) /\ WF_vars(Tick)
  /\ WF_vars(\E s \in Slices : SliceGoesOn(s))

FairSpec == Spec /\ Fairness

-------------------------------------------------------------------------------
(* Properties *)

(* Each row is written once, whichever slices it lies between and however  *)
(* the chunks of the slices come and wait: never twice, even a row added   *)
(* since the bounds were read; and once the job has loaded, every row that *)
(* was there when it began.                                                *)
EachRowOnce ==
  /\ \A r \in Rows : copies[r] <= 1
  /\ pc = "loaded" => \A r \in Rows \ Late : copies[r] = 1

(* An automatic count stays within the job's share of the cores and its    *)
(* connections' free places, and the share is masked with once, not once   *)
(* for the slices and again for the threads.                               *)
FitsBudget ==
  job.automatic =>
    /\ Cardinality(Slices) <= job.budget.share
    /\ job.budget.places # Null => Cardinality(Slices) <= job.budget.places
    /\ job.budget.automaticThreads => MaskersAtOnce(Cardinality(Slices), threads) <= job.budget.share

(* In any stretch of time, the rows that all the slices have charged and   *)
(* waited for in it are no more than the limit allows for it and a burst,  *)
(* though readers wait side by side and may wake late.  A chunk is fetched *)
(* before its wait: each slice may be ahead of this by the one it holds.   *)
WithinLimit == window.age >= 0 => RowTime * Cardinality(window.rows) <= window.age + Burst

(* The attempt ends: a slice that fails stops the others, and none waits   *)
(* for a chunk that nobody will write or a limit that was never paid.      *)
LoadEnds == <>(pc \in {"loaded", "failed"})
===============================================================================
