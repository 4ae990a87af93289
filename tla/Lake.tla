--------------------------------- MODULE Lake ---------------------------------
(***************************************************************************)
(* Jobs into one table of files or one Iceberg table, over their attempts: *)
(* FileTarget (lake/target.py) and IcebergTarget (lake/iceberg.py), on a   *)
(* store whose calls may fail (lake/stores.py), with the watermark their   *)
(* pipeline records.                                                       *)
(*                                                                         *)
(* A part holds one row; an attempt, a retry's as well as a new run's, is  *)
(* a number, which is its runId.  Staging is out of every reader's sight   *)
(* and is not kept here, but for the _PUBLISHING file of an append.  The   *)
(* process may be killed between any two steps.                            *)
(***************************************************************************)
EXTENDS Naturals, FiniteSets, FiniteSetsExt

CONSTANTS
  Jobs,     \* jobs that load the table; no two runs of one overlap
  Plans,    \* the insertStrategy all of them have, see Plan
  Keep,     \* keepSnapshots
  MaxRows,  \* bound: the rows of a job's source
  MaxRuns   \* bound: the attempts of all jobs

Plan == {"append", "overwrite", "singleFile", "icebergAppend", "icebergOverwrite", "icebergUpsert"}

ASSUME LakeAssumption == Plans \subseteq Plan /\ Keep \in Nat \ {0} /\ {MaxRows, MaxRuns} \subseteq Nat

Row == 0..MaxRows  \* 0 for the part of a table without rows
Run == 1..MaxRuns
Part == [job : Jobs, run : Run, row : Row]
Listing == [job : Jobs, run : Run, parts : SUBSET Part]

VARIABLES
  plan,
  source,     \* [Jobs -> 0..MaxRows]: the rows each job's source has
  watermark,  \* [Jobs -> 0..MaxRows]: the last of them recorded as loaded
  runs,       \* the attempts begun
  (* the store *)
  files,      \* the parts in the table's directory, its snapshots' included
  intents,    \* the _PUBLISHING files, each with the parts it lists
  success,    \* the _SUCCESS files, each with the parts it lists
  (* the Iceberg catalog *)
  snapshots,  \* the table's, each an id and the parts it names
  (* each job's process *)
  pc,         \* its next step, or "idle"
  run,        \* its runId
  todo,       \* the parts not yet published
  moved,      \* _published
  stale,      \* the snapshots to prune
  base,       \* the snapshot the loaded Iceberg table had
  before,     \* the parts named before snapshots were expired
  high,       \* highWatermark: the last of the rows written
  (* history *)
  faults,     \* what befell an attempt that it cannot put right
  spoiled     \* the attempts that failed with their own snapshot published

tableVars == <<files, intents, success, snapshots>>
procVars == <<run, todo, moved, stale, base, before, high>>
vars == <<plan, source, watermark, runs, tableVars, pc, procVars, faults, spoiled>>

Iceberg == plan \in {"icebergAppend", "icebergOverwrite", "icebergUpsert"}
Appends == plan \in {"append", "icebergAppend"}
Incremental == Appends \/ plan = "icebergUpsert"

Snapshot == [id : Nat, parts : SUBSET Part]

TypeOK ==
  /\ plan \in Plans
  /\ source \in [Jobs -> Row] /\ watermark \in [Jobs -> Row]
  /\ runs \in 0..MaxRuns
  /\ files \subseteq Part
  /\ intents \subseteq Listing /\ success \subseteq Listing
  /\ snapshots \subseteq Snapshot
  /\ pc \in [Jobs -> {"idle", "prepare", "write", "intent", "move", "replace", "list", "prune",
                      "commit", "upsert", "expire", "delete", "record", "abort"}]
  /\ run \in [Jobs -> 0..MaxRuns]
  /\ todo \in [Jobs -> SUBSET Part] /\ moved \in [Jobs -> SUBSET Part]
  /\ stale \in [Jobs -> SUBSET Run]
  /\ base \in [Jobs -> Nat]
  /\ before \in [Jobs -> SUBSET Part]
  /\ high \in [Jobs -> Row]
  /\ faults \subseteq {"copied", "unread", "unrecorded", "unanswered"}
  /\ spoiled \subseteq Run

Init ==
  /\ plan \in Plans
  /\ source = [j \in Jobs |-> 0]
  /\ watermark = [j \in Jobs |-> 0]
  /\ runs = 0
  /\ files = {} /\ intents = {} /\ success = {}
  /\ snapshots = {[id |-> 0, parts |-> {}]}
  /\ pc = [j \in Jobs |-> "idle"]
  /\ run = [j \in Jobs |-> 0]
  /\ todo = [j \in Jobs |-> {}]
  /\ moved = [j \in Jobs |-> {}]
  /\ stale = [j \in Jobs |-> {}]
  /\ base = [j \in Jobs |-> 0]
  /\ before = [j \in Jobs |-> {}]
  /\ high = [j \in Jobs |-> 0]
  /\ faults = {} /\ spoiled = {}

-------------------------------------------------------------------------------
Goto(j, step) == pc' = [pc EXCEPT ![j] = step]

(* What an attempt holds goes with it. *)
Over(j) ==
  /\ Goto(j, "idle")
  /\ run' = [run EXCEPT ![j] = 0]
  /\ todo' = [todo EXCEPT ![j] = {}]
  /\ moved' = [moved EXCEPT ![j] = {}]
  /\ stale' = [stale EXCEPT ![j] = {}]
  /\ base' = [base EXCEPT ![j] = 0]
  /\ before' = [before EXCEPT ![j] = {}]
  /\ high' = [high EXCEPT ![j] = 0]

Arrive(j) ==
  /\ source[j] < MaxRows
  /\ source' = [source EXCEPT ![j] = @ + 1]
  /\ UNCHANGED <<plan, watermark, runs, tableVars, pc, procVars, faults, spoiled>>

(* A new target, of a new run or of a retry. *)
Start(j) ==
  /\ pc[j] = "idle"
  /\ runs < MaxRuns
  /\ runs' = runs + 1
  /\ run' = [run EXCEPT ![j] = runs']
  /\ Goto(j, "prepare")
  /\ UNCHANGED <<plan, source, watermark, tableVars, todo, moved, stale, base, before, high, faults, spoiled>>

-------------------------------------------------------------------------------
(* _prepare: an earlier append of this job that was killed is taken back,  *)
(* or an Iceberg table is loaded as it is now.                             *)

InterruptedOfAnyJob(j) == {i \in intents : i.run # run[j]}  \* mutant: another job's append is taken back too

Interrupted(j) == {i \in intents : i.job = j /\ i.run # run[j]}

TakeBackFile(j) ==
  /\ pc[j] = "prepare"
  /\ \E i \in Interrupted(j) : \E p \in i.parts \cap files : files' = files \ {p}
  /\ UNCHANGED <<plan, source, watermark, runs, intents, success, snapshots, pc, procVars, faults, spoiled>>

TakenBack(j) ==
  /\ pc[j] = "prepare"
  /\ \E i \in Interrupted(j) : i.parts \cap files = {} /\ intents' = intents \ {i}
  /\ UNCHANGED <<plan, source, watermark, runs, files, success, snapshots, pc, procVars, faults, spoiled>>

Current == Max({s.id : s \in snapshots})

(* A _PUBLISHING file that cannot be read is passed over. *)
Prepared(j) ==
  /\ pc[j] = "prepare"
  /\ faults' = IF Interrupted(j) = {} THEN faults ELSE faults \cup {"unread"}
  /\ base' = [base EXCEPT ![j] = Current]
  /\ Goto(j, "write")
  /\ UNCHANGED <<plan, source, watermark, runs, tableVars, run, todo, moved, stale, before, high, spoiled>>

(* The rows are read and written to parts: in staging, or for Iceberg in   *)
(* the table's directory, where no snapshot names them.  A table of files  *)
(* without rows has an empty part; an append of none publishes nothing.    *)
PartsOf(j) ==
  LET first == IF Incremental THEN watermark[j] + 1 ELSE 1
      rows == first..source[j]
  IN  [job : {j}, run : {run[j]},
       row : IF plan = "singleFile" \/ (plan = "overwrite" /\ rows = {}) THEN {0} ELSE rows]

Write(j) ==
  /\ pc[j] = "write"
  /\ todo' = [todo EXCEPT ![j] = PartsOf(j)]
  /\ Goto(j, CASE Appends /\ PartsOf(j) = {} -> "record"
               [] plan = "append" -> "intent"
               [] plan = "overwrite" -> "move"
               [] plan = "singleFile" -> "replace"
               [] plan = "icebergUpsert" -> "upsert"
               [] OTHER -> "commit")
  /\ files' = IF Iceberg /\ plan # "icebergUpsert" THEN files \cup PartsOf(j) ELSE files
  /\ high' = [high EXCEPT ![j] = Max({p.row : p \in PartsOf(j)} \cup {0})]
  /\ UNCHANGED <<plan, source, watermark, runs, intents, success, snapshots, run, moved, stale, base, before, faults, spoiled>>

-------------------------------------------------------------------------------
(* FileTarget.finish *)

WriteIntent(j) ==
  /\ pc[j] = "intent"
  /\ intents' = intents \cup {[job |-> j, run |-> run[j], parts |-> todo[j]]}
  /\ Goto(j, "move")
  /\ UNCHANGED <<plan, source, watermark, runs, files, success, snapshots, procVars, faults, spoiled>>

NextPart(j) == CHOOSE p \in todo[j] : \A q \in todo[j] : p.row <= q.row

Move(j) ==
  /\ pc[j] = "move" /\ todo[j] # {}
  /\ files' = files \cup {NextPart(j)}
  /\ moved' = [moved EXCEPT ![j] = @ \cup {NextPart(j)}]
  /\ todo' = [todo EXCEPT ![j] = @ \ {NextPart(j)}]
  /\ UNCHANGED <<plan, source, watermark, runs, intents, success, snapshots, pc, run, stale, base, before, high, faults, spoiled>>

(* An object store's move copies, and then fails to delete what it copied: *)
(* the part is in the table, and not among those abort takes back.         *)
MoveCopies(j) ==
  /\ pc[j] = "move" /\ todo[j] # {}
  /\ files' = files \cup {NextPart(j)}
  /\ faults' = faults \cup {"copied"}
  /\ Goto(j, "abort")
  /\ UNCHANGED <<plan, source, watermark, runs, intents, success, snapshots, procVars, spoiled>>

Appended(j) ==
  /\ pc[j] = "move" /\ todo[j] = {}
  /\ plan = "append"
  /\ intents' = {i \in intents : i.run # run[j]}
  /\ \/ Goto(j, "record") /\ UNCHANGED faults
     \/ Goto(j, "abort") /\ faults' = faults \cup {"unanswered"}  \* deleted, and raised
  /\ UNCHANGED <<plan, source, watermark, runs, files, success, snapshots, procVars, spoiled>>

Listed(j) == [job |-> j, run |-> run[j], parts |-> moved[j]]

MarkComplete(j) ==
  /\ pc[j] = "move" /\ todo[j] = {}
  /\ plan = "overwrite"
  /\ success' = success \cup {Listed(j)}
  /\ Goto(j, "list")
  /\ UNCHANGED <<plan, source, watermark, runs, files, intents, snapshots, procVars, faults, spoiled>>

(* The write of _SUCCESS raises and leaves the file, as an upload that is  *)
(* stopped is completed: the attempt fails, its snapshot complete.         *)
MarkingFails(j) ==
  /\ pc[j] = "move" /\ todo[j] = {}
  /\ plan = "overwrite"
  /\ success' = success \cup {Listed(j)}
  /\ spoiled' = spoiled \cup {run[j]}
  /\ Goto(j, "abort")
  /\ UNCHANGED <<plan, source, watermark, runs, files, intents, snapshots, procVars, faults>>

Replace(j) ==
  /\ pc[j] = "replace"
  /\ files' = todo[j]
  /\ Goto(j, "record")
  /\ UNCHANGED <<plan, source, watermark, runs, intents, success, snapshots, procVars, faults, spoiled>>

(* _pruneSnapshots *)
Complete == {s.run : s \in success}
Newest(n) == {r \in Complete : Cardinality({q \in Complete : q > r}) < n}

StaleNewest(j) == {r \in Complete : Cardinality({q \in Complete : q < r}) >= Keep}  \* mutant: complete[keepSnapshots:]

StaleAnyIncomplete(j) ==  \* mutant: the incomplete snapshots of newer runs too
  (Complete \ Newest(Keep)) \cup ({p.run : p \in files} \ Complete)

Stale(j) == (Complete \ Newest(Keep)) \cup {r \in {p.run : p \in files} \ Complete : r < run[j]}

ListSnapshots(j) ==
  /\ pc[j] = "list"
  /\ stale' = [stale EXCEPT ![j] = Stale(j)]
  /\ Goto(j, "prune")
  /\ UNCHANGED <<plan, source, watermark, runs, tableVars, run, todo, moved, base, before, high, faults, spoiled>>

(* The listing fails, and with it the attempt, whose snapshot is published. *)
ListingFails(j) ==
  /\ pc[j] = "list"
  /\ spoiled' = spoiled \cup {run[j]}
  /\ Goto(j, "abort")
  /\ UNCHANGED <<plan, source, watermark, runs, tableVars, procVars, faults>>

(* Its files go one by one, and a failure among them is only logged. *)
DeleteSnapshot(j) ==
  /\ pc[j] = "prune"
  /\ \E r \in stale[j] :
       /\ \E gone \in SUBSET {p \in files : p.run = r} : files' = files \ gone
       /\ success' \in {success, {s \in success : s.run # r}}
       /\ stale' = [stale EXCEPT ![j] = @ \ {r}]
  /\ UNCHANGED <<plan, source, watermark, runs, intents, snapshots, pc, run, todo, moved, base, before, high, faults, spoiled>>

Pruned(j) ==
  /\ pc[j] = "prune" /\ stale[j] = {}
  /\ Goto(j, "record")
  /\ UNCHANGED <<plan, source, watermark, runs, tableVars, procVars, faults, spoiled>>

-------------------------------------------------------------------------------
(* IcebergTarget.finish *)

Named(id) == (CHOOSE s \in snapshots : s.id = id).parts

(* The catalog refuses a commit to a table that has changed since. *)
CommitTo(j, parts) ==
  /\ base[j] = Current
  /\ snapshots' = snapshots \cup {[id |-> Current + 1, parts |-> parts]}
  /\ base' = [base EXCEPT ![j] = Current + 1]

Commit(j) ==
  /\ pc[j] = "commit"
  /\ CommitTo(j, IF Appends THEN Named(base[j]) \cup todo[j] ELSE todo[j])
  /\ \/ Goto(j, "expire") /\ UNCHANGED <<faults, spoiled>>
     \/ /\ faults' = faults \cup {"unanswered"}  \* committed, and raised
        /\ spoiled' = spoiled \cup {run[j]}
        /\ Goto(j, "abort")
  /\ UNCHANGED <<plan, source, watermark, runs, files, intents, success, run, todo, moved, stale, before, high>>

(* A row group is merged into the table by a commit of its own. *)
Upsert(j) ==
  /\ pc[j] = "upsert" /\ todo[j] # {}
  /\ CommitTo(j, {NextPart(j)} \cup {p \in Named(base[j]) : p.row # NextPart(j).row \/ p.job # j})
  /\ files' = files \cup {NextPart(j)}
  /\ todo' = [todo EXCEPT ![j] = @ \ {NextPart(j)}]
  /\ UNCHANGED <<plan, source, watermark, runs, intents, success, pc, run, moved, stale, before, high, faults, spoiled>>

Upserted(j) ==
  /\ pc[j] = "upsert" /\ todo[j] = {}
  /\ Goto(j, "expire")
  /\ UNCHANGED <<plan, source, watermark, runs, tableVars, procVars, faults, spoiled>>

Referenced == UNION {s.parts : s \in snapshots}

(* All but the newest are forgotten, and then the parts only they named.   *)
Expire(j) ==
  /\ pc[j] = "expire"
  /\ before' = [before EXCEPT ![j] = Referenced]
  /\ snapshots' = {s \in snapshots : Cardinality({t \in snapshots : t.id > s.id}) < Keep}
  /\ Goto(j, "delete")
  /\ UNCHANGED <<plan, source, watermark, runs, files, intents, success, run, todo, moved, stale, base, high, faults, spoiled>>

DeleteUnreferenced(j) ==
  /\ pc[j] = "delete"
  /\ \E kept \in SUBSET (before[j] \ Referenced) : files' = files \ ((before[j] \ Referenced) \ kept)
  /\ Goto(j, "record")
  /\ UNCHANGED <<plan, source, watermark, runs, intents, success, snapshots, procVars, faults, spoiled>>

(* What expiring raises is only logged. *)
ExpiryFails(j) ==
  /\ pc[j] \in {"expire", "delete"}
  /\ Goto(j, "record")
  /\ UNCHANGED <<plan, source, watermark, runs, tableVars, procVars, faults, spoiled>>

-------------------------------------------------------------------------------
(* The end of an attempt *)

(* Recording the watermark may fail, and only be logged. *)
Record(j) ==
  /\ pc[j] = "record"
  /\ IF Incremental /\ high[j] # 0
     THEN \/ /\ watermark' = [watermark EXCEPT ![j] = high[j]]
             /\ UNCHANGED faults
          \/ faults' = faults \cup {"unrecorded"} /\ UNCHANGED watermark
     ELSE UNCHANGED <<watermark, faults>>
  /\ Over(j)
  /\ UNCHANGED <<plan, source, runs, tableVars, spoiled>>

(* Any step before that may fail. *)
Fail(j) ==
  /\ pc[j] \in {"prepare", "write", "intent", "move", "replace", "commit", "upsert"}
  /\ Goto(j, "abort")
  /\ UNCHANGED <<plan, source, watermark, runs, tableVars, procVars, faults, spoiled>>

AbortAndForget(j) ==  \* mutant: the staging goes even if a part could not be taken back
  /\ pc[j] = "abort"
  /\ \E gone \in SUBSET moved[j] : files' = files \ gone
  /\ intents' = {i \in intents : i.run # run[j]}
  /\ Over(j)
  /\ UNCHANGED <<plan, source, watermark, runs, success, snapshots, faults, spoiled>>

(* What was published is taken back, and what cannot be stays listed in    *)
(* _PUBLISHING; of Iceberg, the parts written are deleted.  Each deletion  *)
(* may fail, and so may the staging's.                                     *)
Abort(j) ==
  /\ pc[j] = "abort"
  /\ \E gone \in SUBSET (IF Iceberg THEN todo[j] ELSE moved[j]) :
       /\ files' = files \ gone
       /\ intents' \in {intents} \cup
            (IF moved[j] \subseteq gone THEN {{i \in intents : i.run # run[j]}} ELSE {})
  /\ Over(j)
  /\ UNCHANGED <<plan, source, watermark, runs, success, snapshots, faults, spoiled>>

(* Rows that are in and whose watermark is not recorded are read again.    *)
Unrecorded == IF Appends THEN faults \cup {"unrecorded"} ELSE faults

(* Closing the source or the catalog may raise once all is published: the  *)
(* attempt is retried without an abort, and nothing is recorded.           *)
CloseFails(j) ==
  /\ pc[j] = "record"
  /\ faults' = Unrecorded
  /\ Over(j)
  /\ UNCHANGED <<plan, source, watermark, runs, tableVars, spoiled>>

(* The process is killed; what it published is not taken back. *)
Kill(j) ==
  /\ pc[j] # "idle"
  /\ faults' = IF pc[j] \in {"expire", "delete", "record"} THEN Unrecorded ELSE faults
  /\ Over(j)
  /\ UNCHANGED <<plan, source, watermark, runs, tableVars, spoiled>>

FilesStep(j) ==
  \/ TakeBackFile(j) \/ TakenBack(j)
  \/ WriteIntent(j) \/ Move(j) \/ MoveCopies(j) \/ Appended(j) \/ Replace(j)
  \/ MarkComplete(j) \/ MarkingFails(j) \/ ListSnapshots(j) \/ ListingFails(j) \/ DeleteSnapshot(j) \/ Pruned(j)

IcebergStep(j) ==
  \/ Commit(j) \/ Upsert(j) \/ Upserted(j)
  \/ Expire(j) \/ DeleteUnreferenced(j) \/ ExpiryFails(j)

Next ==
  \E j \in Jobs :
    \/ Arrive(j) \/ Start(j) \/ Prepared(j) \/ Write(j)
    \/ FilesStep(j) \/ IcebergStep(j)
    \/ Record(j) \/ CloseFails(j) \/ Fail(j) \/ Abort(j) \/ Kill(j)

Spec == Init /\ [][Next]_vars

-------------------------------------------------------------------------------
(* Properties *)

(* What a reader of the table as a whole reads. *)
Visible == IF Iceberg THEN Named(Current) ELSE files

(* The rows up to a recorded watermark are in the table for good: no       *)
(* attempt takes back, expires or prunes what another has completed, of    *)
(* its own job or of another appending to the same table.                  *)
NothingLost ==
  Incremental =>
    \A j \in Jobs : \A n \in 1..watermark[j] : \E p \in Visible \cap files : p.job = j /\ p.row = n

(* A row is appended once, whichever attempt fails or is killed at which   *)
(* step, but for what an attempt cannot know: that its rows are in when    *)
(* the watermark is not, or the store or the catalog did what it reported  *)
(* as failed, or that an unreadable file listed parts to take back.        *)
AppendedOnce ==
  Appends /\ faults \cap {"copied", "unread", "unrecorded", "unanswered"} = {} =>
    \A p, q \in Visible : p.job = q.job /\ p.row = q.row => p = q

(* A reader of the newest complete snapshot finds every part its _SUCCESS  *)
(* lists, and a reader of Iceberg the parts every snapshot kept names,     *)
(* while other runs publish, fail, prune and expire.  Only the parts of an *)
(* attempt that failed with its own snapshot out may be missing, as it     *)
(* deleted them: its _SUCCESS was left by a write that raised, its listing *)
(* of the snapshots failed, or its commit was made and reported as failed. *)
SnapshotsWhole ==
  /\ \A s \in success : s.run \in Newest(1) \ spoiled => s.parts \subseteq files
  /\ \A s \in snapshots : {p \in s.parts : p.run \notin spoiled} \subseteq files

(* A newer snapshot never gives way to an older one. *)
NeverOlder ==
  [][/\ \A s \in success : \E t \in success' : t.run >= s.run
     /\ Current' >= Current]_vars
===============================================================================
