# Bauta, modelled and checked

TLA+ specifications of Bauta: how a run starts, watches and ends its jobs, what becomes of a job's process, what a data job leaves in
its target and its records when anything fails, how it reads and masks its rows, what it publishes as files, how runs share one state, and
what a subset copies. TLC checks each module on a small instance; TLAPS proves the safety properties and the refinements for every
value of the constants. Paths in the text are those of the repository.

| Module | Models | Run, proofs |
| --- | --- | --- |
| `Schedule` | what a run promises about the order of its jobs (abstract) | through `RunCycle` |
| `RunCycle`, `MCRunCycle` | the run loop and the dependency graph | `run_cycle` |
| `RunCycleProofs` | theorems about `RunCycle` | TLAPS |
| `JobSlot` | what the run loop may see of one job's process (abstract) | through `JobProcess` |
| `JobProcess` | one job's process and the `_JobProcess` that watches it | `job_process` |
| `JobProcessProofs` | theorems about `JobProcess` | TLAPS |
| `DataJob`, `MCDataJob` | a data job into a database table, over its runs | `data_job`, `masking_in_place` |
| `DataJobProofs` | theorems about `DataJob` | TLAPS |
| `Replacement` | what a swapped table shows its readers (abstract) | through `Swap` |
| `Swap`, `MCSwap` | the swap, rename by rename, and its recovery | `swap`, `swap_in_place` |
| `SwapProofs` | theorems about `Swap` | TLAPS |
| `Lake`, `MCLake` | jobs into one table of files or of Iceberg | `lake` |
| `LakeProofs` | theorems about `Lake` | TLAPS |
| `RunState` | the runs that share one run state: locks and records | through `Launcher` |
| `Launcher`, `MCRunState` | the runs Studio starts among them | `run_state` |
| `RunStateProofs` | theorems about `RunState` and `Launcher` | TLAPS |
| `Partitions` | slices, automatic counts and masking threads (functions) | through `Reading` |
| `Reading`, `MCReading` | one attempt's slices, chunks and read limit | `reading` |
| `Masking`, `MCMasking` | the one-to-one strategies, `key` and `fpe` | `masking`, `masking_normalized` |
| `RowProofs` | theorems about `Partitions`, `Reading` and `Masking` | TLAPS |
| `Subset`, `MCSubset` | `bauta subset`, its jobs, and `bauta clear` | `subset` |
| `SubsetProofs` | theorems about `Subset` | TLAPS |

`tlc -config Swap.cfg MCSwap` runs a configuration; `tlapm RunCycleProofs.tla` checks proofs.


## Inventory: the system

Bauta copies tables between databases, masking them on the way. `bauta run` reads the configuration, checks the masking key, takes a lock,
and runs *cycles*: in each, the due jobs run in the order of their `predecessors`, every job in a process of its own.

| Component | State it keeps | Operations | Interacts with |
| --- | --- | --- | --- |
| Run loop, `jobs/runner.py` | the running `_JobProcess`es, `termination` | `_runCycle`, `runDataJobs`, the signal handler, `_coreBudget` | graph, processes, state |
| Dependency graph, `jobs/dependencyGraph.py` | not started, running, reserved places, outcomes | `takeReady`, `finish`, `reserve`, `skipNotStarted` | the loop only |
| Worker processes, `jobs/workers.py` | pipe, deadline, the outcome read | `poll`, `stop`, `_drain`, `_exitWhenOrphaned` | a pipe each way between run and job |
| Data job, `jobs/pipeline.py`, `jobs/targets.py` | watermark bound and read, attempt, slices | `_runDataJob`, `_executeDataJob`, `_loadPartitions`, retries | source, target, state |
| Table swap, `database/maintenance.py`, dialects | the catalog's names | `swap`, `recoverInterruptedSwap`, `copyKeys`, `copyAccess` | the target's readers |
| Key check, `jobs/keys.py` | fingerprints, in the run state | `_requireUnchangedMaskingKeys` | state, before the loop |
| Run state, `jobs/memory.py` | last runs, watermarks, fingerprints; lock files | `recordRun`, `recordWatermark`, `exclusiveRun` | every job's process, other runs |
| Partitions, `jobs/partitions.py` | none (pure), and the core budget | `slicePredicates`, `quantileSlices`, `automaticCount` | data job |
| Read limit, `jobs/throttle.py` | the shared schedule `next` | `ReadLimit.take` | all slices of all jobs of a connection |
| File targets, `lake/` | parts, intent, snapshots, `_SUCCESS` | `finish`, `abort`, publish, prune | readers of the directory |
| Iceberg targets, `lake/iceberg.py` | commits, snapshots | `_commit`, `_upsert`, `_expireSnapshots` | the catalog |
| Masking, `masking/`, `mask-rs/` | none (a function of key and value) | `KeyedHash.permute`, `FF1.encrypt`, `maskColumn` | data job |
| Subset, clear, references, `generate/`, `review/` | a plan of queries; the rows of a copy | `planSubset`, `clearTables`, `orphanQuery` | the drafted jobs, source and target |
| Studio's launcher, `studio/launcher.py` | a table of runs, handles of processes | `start`, `refresh` | runs, their process ids |
| Transforms, configuration, dialects, log, the rest of the CLI, of review and of generate | files and text | | the user |

What is hard in it:

- **Concurrency.** Processes end, send, hang and are killed while the loop sleeps; signals come between any two of its statements; slices
  of a job read at different moments and pay one limit; several runs share one state; several jobs publish into one table.
- **Failure.** A job may die between its load and its records, between two renames of a swap, between two moves of a publication; a run may be
  killed and its jobs left behind; a retry meets what the attempt before it left; a store or a catalog may do what it reports as failed.
- **Ordering.** The load, the watermark, the fingerprint, the run's record and the outcome follow one another, and each may be the last;
  parents are loaded before children and cleared after them.
- **Limits and edges.** Workers, places in a connection with `partitions: auto` decided late, the messages read per poll, chunks ahead; the ends
  of a slice, a shape's smallest number, NULL.

What makes it correct, component by component:

- *Run loop:* a job runs only after its predecessors completed; every job is decided exactly once; limits hold; nothing waits without a
  reason; cycles end; a signal ends the run; no process outlives its cycle.
- *Processes:* an outcome sent is an outcome reported; a process reported is silent; hung, flooding and orphaned processes end.
- *Data job:* no row is skipped by a watermark; a swap loads the source and nothing else, whole and under one key; no two recorded keys mix.
- *Swap:* readers see complete loads, never an older after a newer; an interrupted swap is put right; keys, grants stay and an unmasked
  original does not.
- *State:* no update lost; never two runs of one job; Studio shows a run ended when it is. *Reading:* every row in one slice, written once, within
  the budget and the limit. *Files:* readers see whole loads; nothing complete is taken back; a retry publishes nothing twice.
- *Masking:* one-to-one. *Subset:* the queries return the subset, each row once; the copy never holds a row that points at nothing.

`PROJECT.json` lists the components not modelled with the reason for each, and the hazards, each at its line.


## The modules

### RunCycle, and Schedule

The run's process is sequential, and `pc` is its next statement in `_runCycle` and `runDataJobs`. `takeReady` is its passes over the jobs not
started (`TakeSkip`, `TakeStart`, `TakePass`, then `TakeAgain` or `TakeDone`), so that its order of looking is arbitrary and its repetition
is the code's. `StartJob` makes the process and the reservation of a `partitions: auto` job (`_coreBudget`); `Wake` and the `Poll...` actions
are one round of `poll`s; `Raise`, `StopProcess` and `Abort` are an exception and the `finally`; `Signal` may come anywhere. `proc[j]` is what
the loop can see of a job's process. `SkipNotStarted` and the check before it are one statement of the code, and a signal can fall between
that check and `takeReady`: jobs of that pass then start, as they do in the program.

`Schedule` is the promise: a job is started when its active predecessors completed, finished once, skipped only for a predecessor or because
the run was stopped. `KeepsSchedule` is the refinement.

Instance (`MCRunCycle`): four jobs; `a`, `b`, `c` form a chain, so that a failure cascades; `c` has more slices than its connection has places;
`d` has `partitions: auto` and competes with `a` for the two places of `src`; `duck` has one place; two workers. 32 initial states: any of the jobs
may be due, with or without `--forever`. Every kind of wait occurs: for a predecessor, for a slot, for a place. Nothing is capped: the state
is finite.

*Fairness.* The loop's own steps are weakly fair, since it waits at most `SIGNAL_POLL_SECONDS`; a deadline passes, since it is a clock. A
job without `timeoutSeconds` is assumed to end by itself: nothing in the code makes it, so `CyclesEnd` says no more than that.

### JobProcess, and JobSlot

The job's process and the parent's `_JobProcess`, statement by statement, with the pipe between them: `poll` reads at most
`MESSAGES_PER_POLL` messages (`PerPoll`), looks at the outcome, then at whether the process lives, then at the deadline. A process may log, load,
record, send, exit, die at any point or simply hang; in a swap it defers SIGTERM; `stop` sends SIGTERM and after the grace period SIGKILL.
When the run is killed, the job's own watch (`_exitWhenOrphaned`) ends it. `JobSlot` is the picture `RunCycle` has of this: `IsJobSlot` says the
picture is true, and so joins the two modules.

Instance: a pipe of two messages and two messages per poll: the pipe can be full, a poll can stop short of what is there, and the outcome
can be behind log records. *Fairness:* the parent's poll goes on, the deadline passes, the orphan watch wakes. The job's own steps are not
fair: it may hang.

### DataJob

`_runDataJob` from attempt to records. A row is its versions, each with the stamp of its watermark column; a copy carries the keys it was
masked under, in order, so that masked twice and masked by another key are visible. One chunk is one row, each committed on its own. `Query`,
`Begin`, `OpenSlice`, `WriteRow`, `Swap`, `EmptyStage`, `FinishUpsert`, `PostQueries`, `RecordWatermark` and `RecordKey` are the statements in
order; any of them may fail (`Retry`, `Fail`), and `Killed` may come anywhere. A job read as one stream runs its query before its target is
prepared and truncated, a partitioned one after. The source changes while it is read: `Commit` a stamp as old as its transaction, `Delete`.
`RotateKey` and `StartRun` with `KeyAllows` are the operator and the key check.

`LookbackAssumption` asks for a lookback longer than a transaction keeps its stamp to itself (`lag`) and, of a partitioned job, the slices take to open
(`Skew`). The documentation sizes the lookback by the longest transaction only; a partitioned job's watermark is the highest of slices whose queries ran at
different moments, so that time has to be covered too. TLC finds `NoRowSkipped` violated when it is not.

Instance: two rows, two keys, two runs, one retry, clock 0..3 (`MaxClock`): with a lookback of two, a watermark of three is the first that
leaves a row behind it. Five configurations: an incremental upsert of two slices with a stage, one read as a stream without a stage whose transactions commit a tick
late, one whose masked column is the primary key, a swap, and a swap masking in place. Lag and skew at once would need a longer clock; they
enter the argument only through their sum.

The run's record (`recordRun`) is in `JobProcess`; `preTargetAdhocQueries` and `postTargetAdhocQueries` may fail, and what else they do is
theirs. A row's NULL watermark, JSON columns and transforms are left out. That rows are in exactly one slice is an assumption here (`SliceOf`), and a theorem
in `RowProofs`.

### Swap, and Replacement

`DataJob` swaps in one step. `Swap` is what that step is: three renames in one transaction, or on Oracle three that each commit (`RenameStep`),
with `RenameFails`, `UndoStep` and `UndoFails` for `OracleDialect.swap`, the deferral of SIGTERM around them (`Terminate`, `Undone`, `Swapped`), and `Kill`
anywhere. `Recover` is `recoverInterruptedSwap`, and `GiveKeys` the keys, indexes and grants given to the stage before it is loaded, as one flag of a
table. The catalog maps names to the two tables, so a load that is nowhere, or under two names, would be seen.

`Replacement` says what a reader is owed: a complete load, and after it only later ones. While the target's name is missing the mapping
(`Shown`) says which load that is: as long as the process is still in the swap and may undo it, what the target held, now under the stage's name;
from the moment it is dead, or its undo of the second rename failed, what was loaded, under the temporary name, since the only way left is
forward. `Recover` has to agree, and does.

Instance: three runs of every kind of job with a retry, so that a swap can be cut short, recovered, and cut short again. The branch of
`recoverInterruptedSwap` that refuses three existing names is not reachable with the two tables a swap has, and is not in the model.


### Lake

`FileTarget` and `IcebergTarget`, over the attempts of two jobs into one table, side by side. A part holds one row, and an attempt's number is its
runId. The actions are the steps between which a process may be killed (`Kill`) or a call fail (`Fail`, `Abort`): an append's `_PUBLISHING` file, its moves one by one, its
end; an overwrite's moves, `_SUCCESS`, the listing of old snapshots and the deletion of each; Iceberg's commit, or the upsert's delete and appends, with the catalog
refusing a commit to a table that has changed (`CommitTo`); expiry, and the deletion of files no snapshot names. `TakeBackFile` is what the next
attempt of the same job does about an append it finds unfinished. The watermark is recorded after the target is finished, or is not.

Some things an attempt cannot know, and `faults` names them: a move that copied and did not delete (`copied`), a `_PUBLISHING` file that cannot be read
(`unread`), rows published and no watermark recorded (`unrecorded`: a kill, a record that fails, or a source or catalog whose close raises, `CloseFails`, after which there
is a retry without an abort), and a commit made, or a `_PUBLISHING` deleted, and not answered (`unanswered`). `AppendedOnce` is asserted but for these, by name.

No step that writes is all or nothing. A write of `_SUCCESS` that raises may leave the file or not (`MarkingFails`), the listing after it may fail (`ListingFails`), and a commit
may be made and raise: each time `abort` deletes the parts of the attempt's own snapshot, and `snapshots()` goes on counting it complete, because the file is there. That is what
the code does (`lake/target.py:203`, `:206`, `:216`, `:259`): until another run publishes, the newest complete snapshot may list parts that are gone, and a run beside it may have
pruned the last whole one as the older. `spoiled` are the attempts that ended so. `SnapshotsWhole` is about the others: the newest complete snapshot, if its attempt did not fail with it
published, has every part it lists, and the snapshots of Iceberg that are kept every part of such attempts, whatever the rest do, leave behind, take back, prune or expire.

Instance: two jobs, two rows each, three attempts among them, `keepSnapshots` 1, each of six plans. Three attempts are what a killed one, one taking it
back and another job beside them need. *Assumed:* runIds grow with the attempts (two within one second, or a clock set back, are not modelled), one
watermark column without late commits (those are `DataJob`'s), and no two runs of one job (that is `RunState`'s).

### RunState, and Launcher

`RunState` is `exclusiveRun` and the records. A run takes the run lock, exclusively if it runs every job, shared if it names its jobs, and then
each job's own, in the order of their names and without waiting (`TakeLock`, `Refuse`). Its jobs' processes record in the state: `OpenState`, `Record`
and `ReplaceState` are `FileMemory`'s read, change and replacement under the file's lock, during which the process may be killed; `UpsertState` is
`DatabaseMemory`'s statement. `KillRun` takes a run and its locks, and leaves its jobs' processes.

`Launcher` adds the runs Studio starts: `Popen`, the row committed, the handle kept, the page that refreshes it, a restart anywhere between, and process ids
that are used again. Every step of it that touches a run is a step of `RunState` (`StudioStartsRuns`).

Instance: two runs, two jobs, the selections *all*, *one* and *both by name*; both backends; one restart. Two runs are all that a lock between two can
show; the theorems are for any number. *Fairness:* a run and its jobs' processes go on and end (a hung job is `JobProcess`'s subject); Studio's pages are looked
at again and again.

### Partitions, and Reading

`Partitions` is the arithmetic of `jobs/partitions.py`: the automatic count, the masking threads left beside it, split points with integer division over
fractions and negative numbers, `NTILE`'s quantiles, and the slices' predicates with the NULLs and the open ends. `Reading` runs an attempt with them: it reads the
bounds, each slice opens a cursor, reads a chunk, has it charged to the connection's one `ReadLimit`, waits, hands it to the thread that prepares, and writes the
oldest; a slice may fail, and the others are stopped. The limit's schedule is kept as ticks from now, so the clock needs no bound; `window` is an observer's
stretch of time, opened at any moment.

Instance: four rows, the last of them added while the job reads, in four columns (NULLs, repeats, fractions, a negative number, one below the lowest and
one above the highest found); five jobs, of a set count and of automatic ones with too few cores, too few places or masking in Python; chunks
of one row, none or one prepared ahead. *Fairness:* every thread goes on; a slice need not fail, and a wait may last longer than it was asked to.

### Masking

The values of a column are masked side by side: one `Round` of the Feistel network for every number of every shape, then the cycle walks together, a `Pass` at a time,
until each has come to a number of its shape (`Landed`). A shape is a type, a sign and a length; `permute` numbers its values from zero within a block of
an even number of bits, FF1 encrypts their digits, of two unequal halves where the length is odd, and a value too short for FF1 is masked as `key` would. The
Python and the native implementation are the same network.

Instance: all integers and texts of up to three digits in base three, four rounds, ten keys; blocks larger than what they cover, so walks take several passes. The
pseudorandom function is an arbitrary one: nothing that is claimed depends on it. *Fairness:* the walk goes on.

### Subset

A foreign key refers by the primary key or by a UNIQUE column (`referencedColumn`), whose value the source may change between runs; the keys the copy declares, by which `clear`
orders, are a part of the request of their own (`declared`): all of the source's, none (`--no-foreign-keys`), or the ignored ones too.

`planSubset` as the code builds it: the tables reached, the refusal of cycles and of chains past `MAX_SELECTION_DEPTH`, the topological order, the selections with
their conditions, and the queries with the selections each needs. What a loop over a worklist collects (`_traverse`, `query`) is a least set, `Reach`; a topological order is any that
has parents first, of which the code takes one by name; and the selections are a set of definitions, each with its place (`at`), the order in which a query gives them. A query is modelled by the rows it returns, and how often: one `WHERE` with `OR`, or where selections
are materialized a `UNION ALL` whose branches leave out earlier ones, in SQL's three values. Then the drafted jobs: each reads once its parents
completed, upserts row by row, retries, fails, or is skipped; a run is killed anywhere; the source changes between runs; `clear` empties the copy, in one transaction
or, on DuckDB, in one for each table, and may be stopped between two.

`TheSubset` is the documentation's description, as least sets: the root's rows the filter is true of, all that reference them, and all that those reference.

`NothingDangles` is a property of steps. No row is loaded that points at nothing, and a row of the copy comes to point at nothing in two ways only, which the code leaves open: an upsert
gives the row it refers to another UNIQUE value (a child that still refers to it is loaded after it, one that has left the subset is not loaded again); or a clear that commits
each table, on DuckDB, of a copy that does not declare the key, is stopped before the child's table, since `clearOrder` knows only what is declared. A copy emptied before a refresh, as
`docs/guides/copy-a-subset.md:89` describes, meets neither, once its clear is finished.

Instance: three tables, seven schemas (two keys to one parent, a chain with a shortcut, a child of two parents of which the root references the other, cycles with and without an ignored
key, a key to a UNIQUE column), with `--no-children`, with branches and with `OR`, with the copy's keys declared or not; every source of up to three rows, with filters true, false and NULL; two runs. Three
rows are what a row, its parent and a sibling that must not come along need. *Assumed:* the source is not written to while a run reads it, as
`docs/guides/copy-a-subset.md:22` asks; the copy checks no keys itself; masks keep references; `clear` does not run beside a run,
and empties every table of the plan (`--job` narrows it to what the operator names).


## What the runs check

| Run | Shows |
| --- | --- |
| `run_cycle` | `JobsAllDecided` (the loop's assertion), `LimitsHold`, `EveryWaitHasAReason`, `NoProcessOutlivesCycle`, `KeepsSchedule`, `CyclesEnd`, `SignalEndsRun`, `TypeOK` |
| `job_process` | `NothingSentIsLost`, `CompletionFollowsRecord`, `SilentOnceReported`, `IsJobSlot`, `IsReported`, `OrphanEnds` |
| `data_job` | `NoRowSkipped`, `SwapLoadsTheSource`, `OneGeneration`, `RecordedKeyOnly` |
| `swap` | `IsReplacement`, `SwapRunPutsRight`, `OnlyACutLeavesTemp`, `KeysKept`, `OriginalGone` |
| `lake` | `NothingLost`, `AppendedOnce`, `SnapshotsWhole`, `NeverOlder` |
| `run_state` | `JobsApart`, `NoUpdateLost`, `SomeRunGoesAhead`, `ShownEndedIsEnded`, `EndIsShown` |
| `reading` | `EachRowOnce`, `FitsBudget`, `WithinLimit`, `LoadEnds` |
| `masking` | `OneToOne`, `WalkEnds` |
| `subset` | `QueriesAreTheSubset`, `NothingDangles` |

Each property stands in its module with what it says; each has a mutant (`mutants` in `PROJECT.json`), a plausible bug in a mapped definition
that TLC finds to break it.

Three runs end in a violation, on purpose: each states a sentence of the repository that the code does not keep.

- `masking_in_place`, `MaskedOnce`: an attempt that fails after its swap (emptying the stage, a `postTargetAdhocQuery`) is retried, and a job
  masking in place then masks its own masked rows. "Retrying a whole job is safe because both strategies converge on a re-run"
  (`docs/concepts/how-it-works.md:267`).
- `swap_in_place`, `NextRunPutsRight`: killed between Oracle's second and third rename, a job masking in place has no target to query, and its
  query comes before the recovery. "The next run of the job puts it right before loading" (`how-it-works.md:67`). A run that is not in place
  and swaps is put right (`SwapRunPutsRight`); an upsert run after the interrupted swap of a full refresh is not.
- `masking_normalized`, `OneToOneNormalized`: under `normalize: [integer]` text without a leading zero is permuted among the integers of its length and text with one among
  all texts of that length, so two texts of one column may get one mask. "A one-to-one mapping, safe for primary and foreign keys"
  (`docs/reference/strategies.md:16`).

Seen while modelling, in no run:

- "A failure leaves the table as it was" (`how-it-works.md:352`): not when it comes after `_SUCCESS` is there, since the write of it was reported as failed or the listing after it
  fails. The parts are deleted and `_SUCCESS` stays, so that `snapshots()` counts an empty snapshot as the newest complete one (`spoiled`, above).
- A run that loaded and then failed, was killed, or could not record leaves no fingerprint (`pipeline.py:800-804`), and `keys.py:120` skips a job without one: after a key change the
  next run is let through and adds rows under another key. The fingerprint "is how a changed key is caught before it mixes two keys' masks in one target"
  (`jobs/memory.py:155`). `RecordedKeyOnly` is what does hold.
- A job that completed and recorded its run, and then dies or is found past its deadline before its outcome is read (`workers.py:246`), is reported failed. "Nothing is recorded for a
  failed job" (`pipeline.py:770`).
- A state file from before watermarks, which `memory.py:208` says is still read, lacks the section of masking keys (`memory.py:227-228`), which a run reads first (`keys.py:111`): `KeyError`.
- A reader that takes the greatest snapshot directory, without looking for `_SUCCESS`, sees it while parts are moved in (`lake/target.py:137`; compare `how-it-works.md:352` and `:368`).
- A `clear` that fails part-way on DuckDB has emptied the tables it reached (`schema.py:739`), and says "nothing was cleared" (`cli/generate.py:442`).
- `copy-a-subset.md:22` advises a `--where` that leaves out recent rows, for a source that is written to. A new child of an old root row, with a new parent, is in the subset all the same, and may dangle.
- `fpe` of a `uuid.UUID` permutes its text over an alphabet that has both cases (`keys.py:122`), and `uuid.UUID` then folds them (`:224`), so two values may share a mask: one-to-one up to odds of some 128 bits,
  but not by construction. UUIDs are not in `Masking`.


## What is proved

### The run loop: `RunCycleProofs`

`RunCycleProofs` proves, for any jobs, predecessors, connections, limits, workers and cores that meet the assumptions of `RunCycle`:

| Theorem | Says |
| --- | --- |
| `TypeCorrect` | `Spec => []TypeOK` |
| `WaitsAreReasoned` | `Spec => []EveryWaitHasAReason` |
| `NothingRunsAllDecided` | `Spec => []JobsAllDecided` |
| `LimitsKept` | `Spec => []LimitsHold` |
| `NoneOutlivesCycle` | `Spec => []NoProcessOutlivesCycle` |
| `ImplementsSchedule` | `Spec => KeepsSchedule` |

*Assumptions.* The jobs are finite; the predecessors have no cycle (among any jobs one has no predecessor within them), which
`DependencyGraph` refuses otherwise; limits, counts, workers and cores are positive.

*Argument.* None of the properties is inductive: each speaks of one moment of the loop. The invariant `IInv` adds what the loop knows in between:
`GraphInv` (each active job is not started, running or decided, in one way), `LoopInv` (which jobs the loop holds at each `pc`), `ProcInv` and
`SlotsInv` (processes against the loop's lists and the workers), `ReservedInv` and `PlacesInv` (reservations, and the places in use of every
connection), and `TakeInv`: in the middle of `takeReady`, a job already looked at in this pass is blocked, or a job was skipped in the pass so there
will be another. The last is what makes the repetition of the pass matter. That nothing running means all decided then follows from
acyclicity: among the jobs not started one has no predecessor among them, so it waits for a worker or a connection, and an idle connection
admits any job. `PlacesInv` needs that a set of jobs holds as many places as the sum of its members', which the lemmas `HeldAdd`,
`HeldMonotone` and `HeldFinite` give from the library's theorems on cardinality.

The refinement theorem maps every step to a step of `Schedule` or a stutter, job by job, from the same invariant.

### The swap: `SwapProofs`

`SwapProofs` proves, for any kinds of jobs (`JobConfigs`) and any number of runs and retries:

| Theorem | Says |
| --- | --- |
| `TypeCorrect` | `Spec => []TypeOK` |
| `TempOnlyAfterACut` | `Spec => []OnlyACutLeavesTemp` |
| `KeysAfterEverySwap` | `Spec => []KeysKept` |
| `SwapRunsPutRight` | `Spec => SwapRunPutsRight` |
| `SwapReplaces` | `Spec => IsReplacement` |
| `OriginalIsGone` | `Spec => []OriginalGone` |

*Assumptions.* The configurations are of `JobConfig`; retries and runs are natural numbers.

*Argument.* A rename changes one name, and what it may do depends on the ones before, so the invariant says which names exist at every point.
`NamesInv`: the two tables are under two different names, in one of three ways (`Whole`, `StageAway`, `TargetAway`), the latter two only on Oracle.
`StepInv` ties them to `pc` and `step`; while undoing, a name may be where it should not only with `cut` set. `CutInv` says a temporary name between runs
comes of a cut. `KeysInv`: from the moment the stage has been given the target's keys until the swap is over, however often it is cut, both tables have
them. `LoadInv`: the table the readers had (`Old`) holds a complete load, and the one that would take its place (`New`) a later one. The refinement follows:
the steps that show a later load are the upsert, the atomic swap, the third rename, the failure of the second undo, and a death with the target renamed away; recovery
shows nothing new. `FaultInv` (an undo, or a deferred signal, comes of a fault of this run) gives `SwapRunPutsRight`, and `OriginalInv` follows the original
through the swap and the emptying. The invariant is not implied by the properties: none of them says where the tables are in the middle.

### Processes: `JobProcessProofs`

For any capacity of the pipe and any `MESSAGES_PER_POLL`, both positive.

| Theorem | Says |
| --- | --- |
| `SentIsReported` | `Spec => []NothingSentIsLost` |
| `CompletedWasRecorded` | `Spec => []CompletionFollowsRecord` |
| `ReportedIsSilent` | `Spec => SilentOnceReported` |
| `ImplementsJobSlot` | `Spec => IsJobSlot` |

*Argument.* `ChildInv` says what the job's process has done by each of its statements; `OutcomeInv`, that the outcome is the last message, is what the process came to, and is in the
pipe or in the parent's hands, never in both; and the rest, what `poll` and `stop` know by each of theirs: that a process seen dead has nothing more to send,
so that the last drain finds it.

### The data job: `DataJobProofs`

For any finite set of rows, slices, configurations, keys, retries, runs and length of the clock, with a lookback that meets `LookbackAssumption`.

| Theorem | Says |
| --- | --- |
| `Invariance` | `Spec => []IInv` |
| `NoRowIsSkipped` | `Spec => []NoRowSkipped` |
| `SwapsLoadTheSource` | `Spec => []SwapLoadsTheSource` |
| `AlwaysOneGeneration` | `Spec => []OneGeneration` |
| `RecordedKeyIsKept` | `Spec => RecordedKeyOnly` |

*Argument.* `NoRowSkipped` speaks of a recorded watermark; what makes it inductive is the attempt before it is recorded. `ClockInv` bounds what was read by the moment
the slices opened; a row is `Settled` once no transaction that is still open can change it before that moment less the lookback; and `SkipInv` says a settled row of an
open slice was read in its version, or is behind the bound of the query, and so in the target already. When the load is complete the highest stamp read takes the place of the
watermark (`Covered`). `VersionInv` follows a swap's rows through the versions seen since its attempt began, `GenerationInv` the masks of what is staged, `ReadInv` keeps a row from being
read twice, and `KeyInv` carries the check of the key to the writes.

### Files and Iceberg: `LakeProofs`

For any jobs, strategies, number of snapshots kept, rows and attempts.

| Theorem | Says |
| --- | --- |
| `Invariance` | `Spec => []IInv` |
| `NothingIsLost` | `Spec => []NothingLost` |
| `RowsAreAppendedOnce` | `Spec => []AppendedOnce` |
| `SnapshotsAreWhole` | `Spec => []SnapshotsWhole` |
| `NeverAnOlderOne` | `Spec => NeverOlder` |

*Assumptions.* The strategies are `insertStrategy`'s, and at least one snapshot is kept (`LakeAssumption`).

*Argument.* The properties speak of the table, and whether a step keeps them depends on what every attempt is about to do to it. Four parts of `IInv` say whose things are:
`PlanInv`, which strategy takes which steps; `AttemptInv`, that an attempt holds only parts of its own number, of rows past the watermark it began with; `KnownInv`, that the store and the
catalog hold only what some attempt has put there, and of a running attempt only what it can have by its step; `NewestInv`, that a snapshot is the newest. The others carry the properties:

- `CoverInv`, for `NothingLost`. A recorded row must be more than in the table: no `_PUBLISHING` may list its part, or the next attempt would take it back (`Safe`). While an attempt goes
  on, each row up to its high watermark is safe already or in a part it holds, so that all are when it reaches the record.
- `OnceInv`, for `AppendedOnce`. A part past its job's watermark, which the next attempt would load again, is listed by a `_PUBLISHING`, or is of an attempt about to record it; and an attempt that
  reads, or has read, its rows has no earlier `_PUBLISHING` of its job left. So a row about to be published has no other part. Each of the four faults of the
  property breaks one of these, and no other step does.
- `MarkInv` and `WholeInv`, for `SnapshotsWhole`. A snapshot of files lacks a part only if its own attempt failed after publishing it (`spoiled`), or once a newer one is complete (`StaleInv`: whatever is
  pruned is older than a complete one), and of Iceberg the parts about to be committed are there. The newest complete snapshot has none newer, since the attempts, and so the snapshots, are finitely many.

`NeverOlder` follows from `StaleInv` and `NewestInv`: of the complete snapshots, what is pruned has a newer one; a commit's id is the greatest; and expiring keeps at least the one with the greatest.
TLC checked every part of `IInv` on the whole instance of `lake` before it was proved.

### The run state and Studio: `RunStateProofs`

For any number of runs and jobs, and any selections.

| Theorem | Says |
| --- | --- |
| `JobsAlwaysApart` | `Spec => []JobsApart` |
| `NoUpdateEverLost` | `Spec => []NoUpdateLost` |
| `SomeRunAlwaysGoesAhead` | `Spec => []SomeRunGoesAhead` |
| `StudioStartsRuns` | a behaviour of `StudioSpec` is, of the runs, one of `RunState` |
| `ShownEndedAlwaysIsEnded` | `StudioSpec => []ShownEndedIsEnded` |

*Argument.* `SharedInv`: two runs have no lock at once but the run lock, and that only if each named its jobs. `HeldInv`: a running run has all of its locks. A job loaded by two would need its own lock twice.
`WriterInv`: what the writer of the file has loaded is what the file still holds, since only it may replace it.

That not all give up rests on the order in which every run takes its locks, the run lock first and then its jobs' in their order (`OrderInv`: those it has come before those it still wants). A run is refused
for a lock that another has, which is later than all of its own. "Another goes ahead" is not inductive, since the other may be refused in turn; `AheadInv` is: beside every refused
run is one that is not refused, with a lock at least as late as any of that one's. If it is refused too, the run in its way has a later lock still, and so takes its place
for both. When no run is at work any more, and none was over or killed, there is nobody left to take the place, so nobody was refused.

### Reading: `RowProofs`

For any finite set of rows, any columns of numbers or of other values with finitely many of them, any jobs, chunk sizes, depths, prices of a row and bursts.

| Theorem | Says |
| --- | --- |
| `NumbersAreDivided`, `QuantilesAreDivided` | every value, NULL included, is in exactly one slice of any finite set of cuts |
| `EachRowIsOnce` | `Spec => []EachRowOnce` |
| `BudgetIsKept` | `Spec => []FitsBudget` |
| `LimitIsKept` | `Spec => []WithinLimit` |

*Argument.* `IInv` says where each row is: with a cursor, in a chunk being paid for, among the prepared, or written, and in one of these only. `BudgetInv` needs that the cuts are fewer than
the count, which for split points follows from their being the image of `1..(count - 1)`. `LimitInv` is about the window: its rows, with the chunks of the slices that are to be paid for before a
given one, cost no more than that slice still owes, the window's age and a burst. The bound is kept because the schedule only grows by what is charged.

### Masking: `RowProofs`

`MasksAreOneToOne`: `Spec => []OneToOne`, for any radix, lengths, keys, number of rounds (even) and pseudorandom functions. *Argument.* A round is injective, since the half it mixes in is
kept, so no two numbers of a block come to the same halves (`NetworkInv`), and the network permutes the block. A walk's passes begin at numbers no other walk's do, and but for the
first outside the shape (`WalkInv`): two walks that meet have a step in which they first do, and there the permutation would send two numbers to one. `MaskingAssumption` states what is
needed of powers, blocks and exclusive-or; the prover knows no `^`, so these are assumptions to it, and TLC evaluates them on the instance.

### The subset: `SubsetProofs`

For any finite set of tables, any requests over finitely many foreign keys, any depth, any rows and any number of runs.

| Theorem | Says |
| --- | --- |
| `Invariance` | `Spec => []IInv` |
| `QueriesAreExact` | `Spec => []QueriesAreTheSubset` |
| `NothingEverDangles` | `Spec => NothingDangles`: of every step |
| `NoOrphansByPrimaryKey` | `Spec => []KeptKeysHold`: no orphan, ever, of a followed key to a primary key that the copy declares, or whose clear is one transaction |
| `AnOrderExists` | `Spec => []OrderedUnlessCyclic` |
| `DepthIsKept` | `Spec => []DepthIsLimited` |

*Assumptions.* `RequestsAssumption`: the root is a table, the tables and the keys asked about are finitely many, what is ignored is among the keys, and `MAX_SELECTION_DEPTH`
is a natural number.

*Argument.* A query returns the subset for three reasons, each a group of lemmas.

- What the conditions mean. A row is on the way down if it is one of the root's that the filter is true of, or refers to one on the way down; it is in the subset if it is on the way down, or one of the
  subset refers to it. Both are least sets, and unfold (`ReachUnfolds`). Without a cycle no row of the root refers to one on the way down (`RootRefersToNoneBelow`), which is why the root has its
  filter for its only condition. So if the selections a condition names hold what is meant by them, it is true of the right rows (`DownReasonsMean`, `KeptReasonsMean`).
- That a row is returned once. Of the conditions at most the filter is NULL of a row, and it is negated in no branch, being the last; so a row that some condition is true of is taken by exactly the first
  of them (`OneBranchTakes`). With the filter in any other place the lemma is false, and TLC finds the row (the mutant of the run).
- That the definitions come in order: each selection is defined once, after all it names (`DefinitionsAreAQuery`), and so it is in a query, which leaves some out but none that is needed
  (`WithIsAQuery`). What going through them computes is then meant (`ValuesAreMeant`): otherwise there is a first selection that is not, and what it names was.

`NothingDangles` is about each step, and a step keeps it for what was loaded before: a row may be written whose parent was left out. `IInv` has what each job owes: of a table that is running, what is still to be written is rows of
its query, and the parents it waited for are completed; of one that has completed, every row of the subset is in the copy as the source has it, UNIQUE values and all (`TableIsLoaded`). The source is closed under its own keys, and the subset with it, so what a row
that is about to be written refers to is in the subset, in a table that has completed (`LoadedAfterReferenced`). What a copy holds from earlier runs is only ever replaced by a row of the same
primary key, which is referred to as before unless its UNIQUE value is another (`ReplacedOnlyRewritten`). While clearing, all but the tables left are empty, and of these none comes after one
that refers to it by a declared key (`Clearing`, `ClearedAfterReferring`). From there `NoOrphansByPrimaryKey` is by induction over the steps.

`OrderedUnlessCyclic`: a subset is refused for a cycle if and only if no order of its tables has parents first, so that `_topologicalOrder` always ends, and a plan's tables can be cleared whenever the copy declares no key that was ignored (one that does may have a cycle, and `clear` refuses it). Of any tables not yet
placed, one with the fewest tables above it has none of its parents among them (`SomeTableIsReady`); if none could be placed, it would be above itself. TLC checked `IInv` before it was proved, on the
instance of the run with two rows.

`DepthIsLimited`: no query of a plan has a chain of selections, each naming the next, longer than `MAX_SELECTION_DEPTH`, and what is refused has a cycle or such a chain. `Deepest` is a recursive function, so
first there has to be one (`DepthIsThere`, by the places of the selections); its values are then bounded by the places, greater than those of what is named, and reached by some chain (`DeepestIsLongest`). The inductions
are over the naturals, by a least counterexample. The refused plan is not in the state, so `DepthInv` remembers of which order it was.

### What is only model-checked

- Liveness (`CyclesEnd`, `SignalEndsRun`, `IsReported`, `OrphanEnds`, `LoadEnds`, `EndIsShown`, `WalkEnds`): fairness and ENABLED are beyond the prover.
- The properties of the three runs that end in a violation, which do not hold.


## Not modelled

- *Configuration and validation, SQL text, dialects, the drivers' calls:* parsing and text. What they rule out is in the assumptions of the modules; what a statement does
  is in the actions that stand for it.
- *Transforms, and the masking strategies other than `key` and `fpe`:* functions of one value without a promise that relates two of them. The shuffling of a column within a chunk, the
  consistency of fake values and alphabets of several sizes in one text are left out with them.
- *Discovery, CREATE statements, synthesize, audit, coverage:* proposals, scripts and reports from samples of a catalog; no order of steps to get wrong but the parents first of
  `orderParentsFirst`, which is in `Subset`.
- *Reporting, history, status, log and scrubbing:* what `RunCycle` decides, written to files.
- *Studio but for its launcher:* a web interface that edits files.
- *The website, the example, the benchmarks.*
- *Of what is modelled:* the packing of rows into parts and chunks (`Lake`, `DataJob`), a run killed while a job holds the shared read limit's lock (`throttle.py:83`), Iceberg's schema evolution,
  three names at once in `recoverInterruptedSwap`, `DatabaseMemory`'s reconnection, references inferred where none are declared.
