------------------------------ MODULE LakeProofs ------------------------------
(***************************************************************************)
(* Theorems about Lake, for any jobs, number of rows and attempts, and     *)
(* number of snapshots kept.                                               *)
(***************************************************************************)
EXTENDS Lake, FiniteSetTheorems, WellFoundedInduction, TLAPS

(* Which strategy leads to which step, and leaves what behind. *)
PlanInv ==
  /\ \A j \in Jobs :
       /\ pc[j] = "intent" => plan = "append"
       /\ pc[j] = "move" => plan \in {"append", "overwrite"}
       /\ pc[j] = "replace" => plan = "singleFile"
       /\ pc[j] \in {"list", "prune"} => plan = "overwrite"
       /\ pc[j] = "commit" => plan \in {"icebergAppend", "icebergOverwrite"}
       /\ pc[j] = "upsert" => plan = "icebergUpsert"
       /\ pc[j] \in {"expire", "delete"} => Iceberg
       /\ moved[j] # {} => ~Iceberg
       /\ before[j] # {} => Iceberg
  /\ intents # {} => plan = "append"
  /\ success # {} => plan = "overwrite"
  /\ ~Iceberg => \A s \in snapshots : s.parts = {}

(* An attempt has a number of its own, and the parts it holds are its own, *)
(* of rows past the watermark its job had as it began.                     *)
AttemptInv ==
  \A j \in Jobs :
    /\ pc[j] = "idle" <=> run[j] = 0
    /\ run[j] <= runs
    /\ \A k \in Jobs : run[j] = run[k] /\ run[j] # 0 => j = k
    /\ \A p \in todo[j] \cup moved[j] : p.job = j /\ p.run = run[j]
    /\ pc[j] \in {"idle", "prepare", "write"} => todo[j] = {}
    /\ pc[j] \in {"idle", "prepare", "write", "intent"} => moved[j] = {}
    /\ Incremental =>
         /\ \A p \in todo[j] \cup moved[j] : watermark[j] < p.row /\ p.row <= high[j]
         /\ high[j] # 0 => watermark[j] < high[j]

(* What the store and the catalog keep is of attempts that have begun, and *)
(* of a running one only what that one has put there.                      *)
Committed == Referenced \cup UNION {before[k] : k \in Jobs}

KnownInv ==
  /\ \A p \in files : p.run <= runs
  /\ \A p \in Committed :
       /\ p.run <= runs
       /\ \A j \in Jobs :
            p.run = run[j] =>
              /\ p.job = j
              /\ pc[j] \notin {"prepare", "write"}
              /\ p \in todo[j] => /\ pc[j] \notin {"commit", "upsert"}
                                  /\ pc[j] = "abort" => run[j] \in spoiled
  /\ \A i \in intents :
       /\ i.run <= runs
       /\ \A p \in i.parts : p.job = i.job /\ p.run = i.run
       /\ \A j \in Jobs : i.run = run[j] => i.job = j /\ pc[j] \notin {"prepare", "write", "intent"}
  /\ \A s \in success :
       /\ s.run <= runs
       /\ \A p \in s.parts : p.run = s.run

(* The snapshots have different ids, and one of them is the newest. *)
NewestInv ==
  /\ \A s, t \in snapshots : s.id = t.id => s = t
  /\ \E s \in snapshots : \A t \in snapshots : t.id <= s.id

(* What is pruned is older than a snapshot that is complete. *)
StaleInv ==
  \A j \in Jobs :
    /\ pc[j] \in {"list", "prune"} => \E c \in Complete : run[j] <= c
    /\ \A r \in stale[j] : \E c \in Complete : r < c

(* A snapshot that is published in pieces lacks none when it is marked     *)
(* complete, unless a newer one is complete and has had it pruned; and the *)
(* only attempt that aborts with it complete is one that is then spoiled.  *)
MarkInv ==
  /\ \A j \in Jobs :
       /\ pc[j] = "move" /\ plan = "overwrite" => moved[j] \subseteq files \/ \E c \in Complete : run[j] < c
       /\ pc[j] \in {"prepare", "write", "move"} => run[j] \notin Complete
       /\ pc[j] = "abort" => run[j] \notin Complete \/ run[j] \in spoiled
  /\ \A s \in success : s.run \in spoiled \/ s.parts \subseteq files \/ \E c \in Complete : s.run < c

(* An Iceberg table's parts are there until no snapshot names them, those  *)
(* about to be committed included, but for those of a spoiled attempt.     *)
WholeInv ==
  /\ \A j \in Jobs : pc[j] = "commit" => todo[j] \subseteq files
  /\ \A s \in snapshots : {p \in s.parts : p.run \notin spoiled} \subseteq files

(* A row is in the table for good when a part has it that is neither taken *)
(* back nor pruned: of an append, one that no _PUBLISHING file lists.      *)
Safe(j, n) ==
  \E p \in Visible \cap files : /\ p.job = j /\ p.row = n
                                /\ \A i \in intents : p \notin i.parts

(* Every recorded row is, and at an attempt's end the rows it will record. *)
CoverInv ==
  Incremental =>
    \A j \in Jobs :
      /\ \A n \in 1..watermark[j] : Safe(j, n)
      /\ pc[j] \in {"intent", "move", "commit", "upsert"} =>
           \A n \in 1..high[j] : Safe(j, n) \/ \E p \in todo[j] \cup moved[j] : p.row = n
      /\ pc[j] = "move" => moved[j] \subseteq files
      /\ pc[j] \in {"expire", "delete", "record"} => \A n \in 1..high[j] : Safe(j, n)

(* A part past its job's watermark is listed to be taken back, or is that  *)
(* of an attempt about to record it; and none is listed any more when the  *)
(* next attempt of that job reads.                                         *)
OnceInv ==
  Appends /\ faults \cap {"copied", "unread", "unrecorded", "unanswered"} = {} =>
    /\ \A p, q \in Visible : p.job = q.job /\ p.row = q.row => p = q
    /\ \A p \in Visible :
         /\ watermark[p.job] < p.row =>
              \/ \E i \in intents : p \in i.parts
              \/ p.run = run[p.job] /\ pc[p.job] \in {"expire", "delete", "record"}
         /\ p.run = run[p.job] => p.row <= high[p.job]
    /\ \A j \in Jobs :
         /\ plan = "append" => \A p \in files : p.run = run[j] => p \in moved[j]
         /\ pc[j] \in {"write", "intent", "move", "record"} => Interrupted(j) = {}
         /\ pc[j] = "move" => \E i \in intents : i.run = run[j] /\ todo[j] \cup moved[j] \subseteq i.parts

IInv ==
  /\ TypeOK /\ PlanInv /\ AttemptInv /\ KnownInv /\ NewestInv
  /\ StaleInv /\ MarkInv /\ WholeInv /\ CoverInv /\ OnceInv

-------------------------------------------------------------------------------
(* Newest snapshots, rows and parts                                        *)

LEMMA LeastNatural ==
  ASSUME NEW S, S \subseteq Nat, S # {}
  PROVE  \E x \in S : \A y \in S : x <= y
<1>1. PICK x \in S : \A y \in S : ~(<<y, x>> \in OpToRel(<, Nat))
  BY NatLessThanWellFounded, WFMin
<1>2. \A y \in S : ~(y < x)
  BY <1>1 DEF OpToRel
<1> QED
  BY <1>2

LEMMA GreatestOf ==
  ASSUME NEW S \in SUBSET Nat, NEW n \in S, \A t \in S : t <= n
  PROVE  Max(S) = n
<1>1. \A t \in S : n >= t
  OBVIOUS
<1>2. Max(S) \in S /\ \A t \in S : Max(S) >= t
  BY <1>1 DEF Max
<1>3. Max(S) >= n /\ n >= Max(S) /\ n \in Nat /\ Max(S) \in Nat
  BY <1>1, <1>2
<1> QED
  BY <1>3

LEMMA NewestOf ==
  ASSUME NEW S \in SUBSET Snapshot, NEW n \in S,
         \A t \in S : t.id <= n.id,
         \A s, t \in S : s.id = t.id => s = t
  PROVE  /\ Max({s.id : s \in S}) = n.id
         /\ (CHOOSE s \in S : s.id = n.id).parts = n.parts
<1> DEFINE I == {s.id : s \in S}
<1>1. I \in SUBSET Nat /\ n.id \in I /\ \A t \in I : t <= n.id
  BY DEF Snapshot
<1>2. Max(I) = n.id
  <2> HIDE DEF I
  <2> QED
    BY <1>1, GreatestOf
<1>3. (CHOOSE s \in S : s.id = n.id) = n
  OBVIOUS
<1> QED
  BY <1>2, <1>3

LEMMA CurrentIs ==
  ASSUME TypeOK, NewestInv
  PROVE  /\ Current \in Nat
         /\ \A t \in snapshots : t.id <= Current
         /\ \E s \in snapshots : s.id = Current /\ Named(Current) = s.parts
<1>1. PICK n \in snapshots : \A t \in snapshots : t.id <= n.id
  BY DEF NewestInv
<1>2. Max({s.id : s \in snapshots}) = n.id /\ (CHOOSE s \in snapshots : s.id = n.id).parts = n.parts
  BY <1>1, NewestOf DEF NewestInv, TypeOK
<1>3. n.id \in Nat
  BY DEF TypeOK, Snapshot
<1> QED
  BY <1>1, <1>2, <1>3 DEF Current, Named

(* A commit's snapshot is the newest, and what it names is the table. *)
LEMMA CommitIsNewest ==
  ASSUME TypeOK, NewestInv, NEW j \in Jobs, NEW parts \in SUBSET Part, CommitTo(j, parts)
  PROVE  /\ snapshots' \subseteq Snapshot /\ NewestInv'
         /\ Current' = Current + 1 /\ Named(Current)' = parts
         /\ \A s \in snapshots' : s \in snapshots \/ s.parts = parts
<1> DEFINE n == [id |-> Current + 1, parts |-> parts]
<1>1. Current \in Nat /\ \A t \in snapshots : t.id <= Current
  BY CurrentIs
<1>2. snapshots' = snapshots \cup {n}
  BY DEF CommitTo
<1>3. n \in snapshots' /\ n \in Snapshot /\ n.id = Current + 1 /\ n.parts = parts
  BY <1>1, <1>2 DEF Snapshot
<1> HIDE DEF n
<1>4. snapshots' \subseteq Snapshot
  BY <1>2, <1>3 DEF TypeOK
<1>5. \A t \in snapshots : t.id \in Nat /\ t.id < n.id
  BY <1>1, <1>3 DEF TypeOK, Snapshot
<1>6. \A t \in snapshots' : t.id <= n.id
  <2>1. n.id \in Nat
    BY <1>1, <1>3
  <2> QED
    BY <1>2, <1>5, <2>1
<1>7. \A s, t \in snapshots' : s.id = t.id => s = t
  BY <1>2, <1>3, <1>5 DEF NewestInv
<1>8. Max({s.id : s \in snapshots'}) = n.id /\ (CHOOSE s \in snapshots' : s.id = n.id).parts = n.parts
  BY <1>3, <1>4, <1>6, <1>7, NewestOf
<1> QED
  BY <1>2, <1>3, <1>4, <1>6, <1>7, <1>8 DEF Current, Named, NewestInv

(* The newest snapshot does not expire. *)
LEMMA ExpireKeepsNewest ==
  ASSUME TypeOK, NewestInv, NEW j \in Jobs, Expire(j)
  PROVE  /\ snapshots' \subseteq snapshots /\ NewestInv'
         /\ Current' = Current /\ Named(Current)' = Named(Current)
<1>1. snapshots' = {s \in snapshots : Cardinality({t \in snapshots : t.id > s.id}) < Keep}
  BY DEF Expire
<1>2. PICK n \in snapshots : \A t \in snapshots : t.id <= n.id
  BY DEF NewestInv
<1>3. {t \in snapshots : t.id > n.id} = {}
  BY <1>2 DEF TypeOK, Snapshot
<1>4. Cardinality({t \in snapshots : t.id > n.id}) < Keep
  BY <1>3, FS_EmptySet, LakeAssumption
<1>5. n \in snapshots' /\ snapshots' \subseteq snapshots
  BY <1>1, <1>4
<1>6. NewestInv'
  BY <1>2, <1>5 DEF NewestInv
<1>7. /\ Max({s.id : s \in snapshots}) = n.id /\ (CHOOSE s \in snapshots : s.id = n.id).parts = n.parts
      /\ Max({s.id : s \in snapshots'}) = n.id /\ (CHOOSE s \in snapshots' : s.id = n.id).parts = n.parts
  <2>1. snapshots \in SUBSET Snapshot /\ snapshots' \in SUBSET Snapshot
    BY <1>5 DEF TypeOK
  <2>2. Max({s.id : s \in snapshots}) = n.id /\ (CHOOSE s \in snapshots : s.id = n.id).parts = n.parts
    BY <1>2, <2>1, NewestOf DEF NewestInv
  <2>3. Max({s.id : s \in snapshots'}) = n.id /\ (CHOOSE s \in snapshots' : s.id = n.id).parts = n.parts
    BY <1>2, <1>5, <2>1, NewestOf DEF NewestInv
  <2> QED
    BY <2>2, <2>3
<1> QED
  BY <1>5, <1>6, <1>7 DEF Current, Named

(* What is written: rows past the watermark when the load is incremental.  *)
LEMMA PartsWritten ==
  ASSUME TypeOK, AttemptInv, NEW j \in Jobs, pc[j] # "idle"
  PROVE  LET high_ == Max({p.row : p \in PartsOf(j)} \cup {0})
         IN  /\ PartsOf(j) \subseteq Part
             /\ \A p \in PartsOf(j) : p.job = j /\ p.run = run[j] /\ p.row <= high_
             /\ high_ \in Row
             /\ Incremental =>
                  /\ \A p \in PartsOf(j) : watermark[j] < p.row
                  /\ high_ # 0 => watermark[j] < high_
                  /\ \A n \in 1..high_ : n <= watermark[j] \/ \E p \in PartsOf(j) : p.row = n
<1> DEFINE first == IF Incremental THEN watermark[j] + 1 ELSE 1
           empty == plan = "singleFile" \/ (plan = "overwrite" /\ first..source[j] = {})
           rows == IF empty THEN {0} ELSE first..source[j]
           last == IF ~empty /\ first <= source[j] THEN source[j] ELSE 0
<1>1. PartsOf(j) = [job : {j}, run : {run[j]}, row : rows]
  BY DEF PartsOf
<1>2. watermark[j] \in 0..MaxRows /\ source[j] \in 0..MaxRows /\ first \in Nat \ {0} /\ MaxRows \in Nat
  BY LakeAssumption DEF TypeOK, Row
<1>3. rows \subseteq 0..MaxRows /\ last \in 0..MaxRows /\ last \in rows \cup {0} /\ \A n \in rows \cup {0} : n <= last
  BY <1>2
<1>4. run[j] \in Run
  BY LakeAssumption DEF TypeOK, AttemptInv, Run
<1>5. Incremental => ~empty /\ first = watermark[j] + 1
  BY DEF Incremental, Appends
<1>6. {p.row : p \in PartsOf(j)} = rows
  <2>1. \A n \in rows : [job |-> j, run |-> run[j], row |-> n] \in PartsOf(j)
    BY <1>1
  <2>2. \A n \in rows : \E p \in PartsOf(j) : p.row = n
    BY <2>1
  <2> QED
    BY <1>1, <2>2
<1>7. Max({p.row : p \in PartsOf(j)} \cup {0}) = last
  <2> HIDE DEF rows, last
  <2>1. rows \cup {0} \in SUBSET Nat
    BY <1>2, <1>3
  <2> QED
    BY <1>3, <1>6, <2>1, GreatestOf
<1>8. PartsOf(j) \subseteq Part
  <2> HIDE DEF rows
  <2>1. rows \subseteq Row
    BY <1>3 DEF Row
  <2> QED
    BY <1>1, <1>4, <2>1 DEF Part
<1>9. \A p \in PartsOf(j) : p.job = j /\ p.run = run[j] /\ p.row \in rows
  BY <1>1
<1>10. Incremental =>
         /\ \A n \in rows : watermark[j] < n
         /\ last # 0 => watermark[j] < last
         /\ \A n \in 1..last : n <= watermark[j] \/ n \in rows
  BY <1>2, <1>5
<1> HIDE DEF rows, last
<1>11. \A n \in rows : \E p \in PartsOf(j) : p.row = n
  BY <1>6
<1> QED
  BY <1>3, <1>7, <1>8, <1>9, <1>10, <1>11 DEF Row

LEMMA NextIsOfTodo ==
  ASSUME TypeOK, NEW j \in Jobs, todo[j] # {}
  PROVE  NextPart(j) \in todo[j] /\ NextPart(j) \in Part
<1> DEFINE rows == {p.row : p \in todo[j]}
<1>1. todo[j] \subseteq Part
  BY DEF TypeOK
<1>2. rows \subseteq Nat /\ rows # {}
  BY <1>1, LakeAssumption DEF Part, Row
<1>3. PICK n \in rows : \A m \in rows : n <= m
  <2> HIDE DEF rows
  <2> QED
    BY <1>2, LeastNatural
<1>4. \E p \in todo[j] : \A q \in todo[j] : p.row <= q.row
  BY <1>3
<1> QED
  BY <1>1, <1>4 DEF NextPart

-------------------------------------------------------------------------------
(* The invariant holds at first                                            *)

LEMMA InitInv == Init => IInv
<1> SUFFICES ASSUME Init PROVE IInv
  OBVIOUS
<1> USE DEF Init
<1>1. TypeOK
  <2>1. 0 \in Row /\ 0 \in 0..MaxRuns
    BY LakeAssumption DEF Row
  <2>2. snapshots \subseteq Snapshot
    BY DEF Snapshot
  <2> QED
    BY <2>1, <2>2 DEF TypeOK
<1>2. \A s \in snapshots : s.parts = {}
  OBVIOUS
<1>3. Complete = {} /\ Committed = {}
  BY <1>2 DEF Complete, Committed, Referenced
<1>4. PlanInv
  BY <1>2 DEF PlanInv
<1>5. AttemptInv /\ KnownInv
  BY <1>3 DEF AttemptInv, KnownInv
<1>6. NewestInv
  BY DEF NewestInv
<1>7. StaleInv /\ MarkInv
  BY <1>3 DEF StaleInv, MarkInv
<1>8. WholeInv
  BY <1>2 DEF WholeInv
<1>9. CoverInv
  BY DEF CoverInv
<1>10. Visible = {}
  BY <1>1, <1>2, <1>6, CurrentIs DEF Visible
<1>11. OnceInv
  BY <1>10 DEF OnceInv
<1> QED
  BY <1>1, <1>4, <1>5, <1>6, <1>7, <1>8, <1>9, <1>11 DEF IInv

-------------------------------------------------------------------------------
(* Every step keeps it, part by part                                       *)

Step(j) ==
  \/ Arrive(j) \/ Start(j) \/ Prepared(j) \/ Write(j)
  \/ FilesStep(j) \/ IcebergStep(j)
  \/ Record(j) \/ Fail(j) \/ Abort(j) \/ CloseFails(j) \/ Kill(j)

Marks(j) == MarkComplete(j) \/ MarkingFails(j)

LEMMA FilesTypes == ASSUME IInv, NEW j \in Jobs, FilesStep(j) PROVE TypeOK'
<1> USE DEF IInv, TypeOK, Goto
<1>1. CASE TakeBackFile(j) \/ TakenBack(j)
  BY <1>1 DEF TakeBackFile, TakenBack, procVars
<1>2. CASE WriteIntent(j)
  <2>1. [job |-> j, run |-> run[j], parts |-> todo[j]] \in Listing
    BY <1>2, LakeAssumption DEF WriteIntent, AttemptInv, Listing, Run
  <2> QED
    BY <1>2, <2>1 DEF WriteIntent, procVars
<1>3. CASE Move(j)
  <2>1. NextPart(j) \in Part
    BY <1>3, NextIsOfTodo DEF Move
  <2> QED
    BY <1>3, <2>1 DEF Move
<1>4. CASE MoveCopies(j)
  <2>1. NextPart(j) \in Part
    BY <1>4, NextIsOfTodo DEF MoveCopies
  <2> QED
    BY <1>4, <2>1 DEF MoveCopies, procVars
<1>5. CASE Appended(j) \/ Replace(j)
  BY <1>5 DEF Appended, Replace, procVars
<1>6. CASE Marks(j)
  <2>1. Listed(j) \in Listing /\ run[j] \in Run
    BY <1>6, LakeAssumption DEF Marks, MarkComplete, MarkingFails, AttemptInv, Listed, Listing, Run
  <2> QED
    BY <1>6, <2>1 DEF Marks, MarkComplete, MarkingFails, procVars
<1>7. CASE ListSnapshots(j)
  <2>1. Stale(j) \subseteq Run
    BY DEF Stale, Complete, Listing, Part
  <2> QED
    BY <1>7, <2>1 DEF ListSnapshots, tableVars
<1>8. CASE ListingFails(j) \/ Pruned(j)
  <2>1. ListingFails(j) => run[j] \in Run
    BY LakeAssumption DEF ListingFails, AttemptInv, Run
  <2> QED
    BY <1>8, <2>1 DEF ListingFails, Pruned, tableVars, procVars
<1>9. CASE DeleteSnapshot(j)
  BY <1>9 DEF DeleteSnapshot
<1> QED
  BY <1>1, <1>2, <1>3, <1>4, <1>5, <1>6, <1>7, <1>8, <1>9 DEF FilesStep, Marks

LEMMA CommitNames ==
  ASSUME IInv, NEW j \in Jobs
  PROVE  /\ Commit(j) => \E parts \in SUBSET Part : CommitTo(j, parts) /\ parts = IF Appends THEN Named(base[j]) \cup todo[j] ELSE todo[j]
         /\ Upsert(j) => \E parts \in SUBSET Part :
              /\ CommitTo(j, parts)
              /\ parts = {NextPart(j)} \cup {p \in Named(base[j]) : p.row # NextPart(j).row \/ p.job # j}
<1>1. base[j] = Current => Named(base[j]) \subseteq Part
  BY CurrentIs DEF IInv, TypeOK, Snapshot
<1>2. Commit(j) => base[j] = Current /\ todo[j] \subseteq Part
  BY DEF Commit, CommitTo, IInv, TypeOK
<1>3. Upsert(j) => base[j] = Current /\ NextPart(j) \in Part
  BY NextIsOfTodo DEF Upsert, CommitTo, IInv
<1> QED
  BY <1>1, <1>2, <1>3 DEF Commit, Upsert

LEMMA IcebergTypes == ASSUME IInv, NEW j \in Jobs, IcebergStep(j) PROVE TypeOK'
<1> USE DEF IInv, TypeOK, Goto
<1>1. CASE Commit(j)
  <2> PICK parts \in SUBSET Part : CommitTo(j, parts)
    BY <1>1, CommitNames
  <2>1. snapshots' \subseteq Snapshot /\ Current + 1 \in Nat /\ base' = [base EXCEPT ![j] = Current + 1]
    <3> HIDE DEF TypeOK
    <3>1. snapshots' \subseteq Snapshot
      BY CommitIsNewest
    <3>2. Current + 1 \in Nat
      BY CurrentIs
    <3> QED
      BY <3>1, <3>2 DEF CommitTo
  <2>2. run[j] \in Run
    BY <1>1, LakeAssumption DEF Commit, AttemptInv, Run
  <2> QED
    BY <1>1, <2>1, <2>2 DEF Commit
<1>2. CASE Upsert(j)
  <2> PICK parts \in SUBSET Part : CommitTo(j, parts)
    BY <1>2, CommitNames
  <2>1. snapshots' \subseteq Snapshot /\ Current + 1 \in Nat /\ base' = [base EXCEPT ![j] = Current + 1]
    <3> HIDE DEF TypeOK
    <3>1. snapshots' \subseteq Snapshot
      BY CommitIsNewest
    <3>2. Current + 1 \in Nat
      BY CurrentIs
    <3> QED
      BY <3>1, <3>2 DEF CommitTo
  <2>2. NextPart(j) \in Part
    BY <1>2, NextIsOfTodo DEF Upsert
  <2> QED
    BY <1>2, <2>1, <2>2 DEF Upsert
<1>3. CASE Expire(j)
  <2>1. Referenced \subseteq Part
    BY DEF Referenced, Snapshot
  <2> QED
    BY <1>3, <2>1 DEF Expire
<1>4. CASE DeleteUnreferenced(j)
  BY <1>4 DEF DeleteUnreferenced, procVars
<1>5. CASE Upserted(j) \/ ExpiryFails(j)
  BY <1>5 DEF Upserted, ExpiryFails, tableVars, procVars
<1> QED
  BY <1>1, <1>2, <1>3, <1>4, <1>5 DEF IcebergStep

LEMMA TypeStep == ASSUME IInv, NEW j \in Jobs, Step(j) PROVE TypeOK'
<1> USE DEF IInv, TypeOK, Goto
<1>0. 0 \in Row /\ 0 \in 0..MaxRuns
  BY LakeAssumption DEF Row
<1>1. CASE Arrive(j)
  <2>1. source[j] + 1 \in Row
    BY <1>1, LakeAssumption DEF Arrive, Row
  <2> QED
    BY <1>1, <2>1 DEF Arrive, tableVars, procVars
<1>2. CASE Start(j)
  <2>1. runs' \in 0..MaxRuns
    BY <1>2, LakeAssumption DEF Start
  <2> QED
    BY <1>2, <2>1 DEF Start, tableVars
<1>3. CASE Prepared(j)
  BY <1>3, CurrentIs DEF Prepared, tableVars
<1>4. CASE Write(j)
  <2>1. PartsOf(j) \subseteq Part /\ Max({p.row : p \in PartsOf(j)} \cup {0}) \in Row
    BY <1>4, PartsWritten DEF Write
  <2> QED
    BY <1>4, <2>1 DEF Write
<1>5. CASE Record(j)
  BY <1>0, <1>5 DEF Record, Over, tableVars
<1>6. CASE Fail(j)
  BY <1>6 DEF Fail, tableVars, procVars
<1>7. CASE Abort(j)
  BY <1>0, <1>7 DEF Abort, Over
<1>8. CASE CloseFails(j) \/ Kill(j)
  <2>1. faults' \subseteq {"copied", "unread", "unrecorded", "unanswered"} /\ UNCHANGED spoiled
    BY <1>8 DEF CloseFails, Kill, Unrecorded
  <2> QED
    BY <1>0, <1>8, <2>1 DEF CloseFails, Kill, Over, tableVars
<1> QED
  BY <1>1, <1>2, <1>3, <1>4, <1>5, <1>6, <1>7, <1>8, FilesTypes, IcebergTypes DEF Step

LEMMA PlanStep == ASSUME IInv, NEW j \in Jobs, Step(j) PROVE PlanInv'
<1> USE DEF IInv, TypeOK, PlanInv, Goto, Iceberg, Appends
<1>0. plan \in Plan
  BY LakeAssumption
<1>1. CASE Arrive(j) \/ Start(j) \/ Prepared(j) \/ Fail(j)
  BY <1>1 DEF Arrive, Start, Prepared, Fail, tableVars, procVars
<1>2. CASE Write(j)
  BY <1>0, <1>2 DEF Write, Plan
<1>3. CASE TakeBackFile(j) \/ TakenBack(j) \/ WriteIntent(j) \/ Appended(j) \/ Replace(j)
  BY <1>3 DEF TakeBackFile, TakenBack, WriteIntent, Appended, Replace, procVars
<1>4. CASE Move(j) \/ MoveCopies(j)
  BY <1>4 DEF Move, MoveCopies, procVars
<1>5. CASE MarkComplete(j) \/ MarkingFails(j) \/ ListSnapshots(j) \/ ListingFails(j) \/ DeleteSnapshot(j) \/ Pruned(j)
  BY <1>5 DEF MarkComplete, ListSnapshots, ListingFails, MarkingFails, DeleteSnapshot, Pruned, tableVars, procVars
<1>6. CASE IcebergStep(j)
  <2>1. Iceberg /\ plan' = plan /\ UNCHANGED <<intents, success, moved>>
    BY <1>6 DEF IcebergStep, Commit, Upsert, Upserted, Expire, DeleteUnreferenced, ExpiryFails, tableVars, procVars
  <2>2. pc' = pc \/ pc' = [pc EXCEPT ![j] = "expire"] \/ pc' = [pc EXCEPT ![j] = "delete"]
          \/ pc' = [pc EXCEPT ![j] = "record"] \/ pc' = [pc EXCEPT ![j] = "abort"]
    BY <1>6 DEF IcebergStep, Commit, Upsert, Upserted, Expire, DeleteUnreferenced, ExpiryFails
  <2> QED
    BY <2>1, <2>2
<1>7. CASE Record(j) \/ CloseFails(j) \/ Kill(j)
  BY <1>7 DEF Record, CloseFails, Kill, Over, tableVars
<1>8. CASE Abort(j)
  <2>1. UNCHANGED <<plan, success, snapshots>> /\ intents' \subseteq intents
    BY <1>8 DEF Abort
  <2>2. Over(j)
    BY <1>8 DEF Abort
  <2> QED
    BY <2>1, <2>2 DEF Over
<1> QED
  BY <1>1, <1>2, <1>3, <1>4, <1>5, <1>6, <1>7, <1>8 DEF Step, FilesStep

LEMMA AttemptStep == ASSUME IInv, TypeOK', NEW j \in Jobs, Step(j) PROVE AttemptInv'
<1> USE DEF IInv, TypeOK, AttemptInv, Goto, Incremental, Appends
<1>1. CASE Arrive(j)
  BY <1>1 DEF Arrive, procVars
<1>2. CASE Start(j)
  <2>1. \A k \in Jobs : run[k] \in Nat /\ run[k] < runs' /\ runs <= runs' /\ runs' # 0
    BY <1>2, LakeAssumption DEF Start
  <2> QED
    BY <1>2, <2>1 DEF Start
<1>3. CASE Prepared(j) \/ Fail(j)
  BY <1>3 DEF Prepared, Fail, procVars
<1>4. CASE Write(j)
  <2> DEFINE last == Max({p.row : p \in PartsOf(j)} \cup {0})
  <2>1. /\ \A p \in PartsOf(j) : p.job = j /\ p.run = run[j] /\ p.row <= last
        /\ Incremental => /\ \A p \in PartsOf(j) : watermark[j] < p.row
                          /\ last # 0 => watermark[j] < last
    BY <1>4, PartsWritten DEF Write
  <2>2. pc'[j] \notin {"idle", "prepare", "write"} /\ moved[j] = {}
    BY <1>4 DEF Write
  <2>3. /\ todo' = [todo EXCEPT ![j] = PartsOf(j)] /\ high' = [high EXCEPT ![j] = last]
        /\ UNCHANGED <<plan, watermark, runs, run, moved>>
        /\ \A k \in Jobs : k # j => pc'[k] = pc[k]
    BY <1>4 DEF Write
  <2>4. pc[j] = "write"
    BY <1>4 DEF Write
  <2> HIDE DEF last
  <2> QED
    BY <2>1, <2>2, <2>3, <2>4
<1>5. CASE TakeBackFile(j) \/ TakenBack(j)
  BY <1>5 DEF TakeBackFile, TakenBack, procVars
<1>6. CASE WriteIntent(j) \/ MoveCopies(j) \/ Appended(j) \/ Replace(j)
  BY <1>6 DEF WriteIntent, MoveCopies, Appended, Replace, procVars
<1>7. CASE Move(j)
  <2>1. NextPart(j) \in todo[j]
    BY <1>7, NextIsOfTodo DEF Move
  <2> QED
    BY <1>7, <2>1 DEF Move
<1>8. CASE MarkComplete(j) \/ MarkingFails(j) \/ ListSnapshots(j) \/ ListingFails(j) \/ DeleteSnapshot(j) \/ Pruned(j)
  BY <1>8 DEF MarkComplete, ListSnapshots, ListingFails, MarkingFails, DeleteSnapshot, Pruned, procVars
<1>9. CASE IcebergStep(j)
  <2>1. UNCHANGED <<plan, watermark, runs, run, moved, high>>
    BY <1>9 DEF IcebergStep, Commit, Upsert, Upserted, Expire, DeleteUnreferenced, ExpiryFails, procVars
  <2>2. \A k \in Jobs : todo'[k] \subseteq todo[k]
    BY <1>9 DEF IcebergStep, Commit, Upsert, Upserted, Expire, DeleteUnreferenced, ExpiryFails, procVars
  <2>3. pc[j] \notin {"idle", "prepare", "write", "intent"}
    BY <1>9 DEF IcebergStep, Commit, Upsert, Upserted, Expire, DeleteUnreferenced, ExpiryFails
  <2>4. pc' = pc \/ pc' = [pc EXCEPT ![j] = "expire"] \/ pc' = [pc EXCEPT ![j] = "delete"]
          \/ pc' = [pc EXCEPT ![j] = "record"] \/ pc' = [pc EXCEPT ![j] = "abort"]
    BY <1>9 DEF IcebergStep, Commit, Upsert, Upserted, Expire, DeleteUnreferenced, ExpiryFails
  <2> QED
    BY <2>1, <2>2, <2>3, <2>4
<1>10. CASE Record(j) \/ Abort(j) \/ CloseFails(j) \/ Kill(j)
  <2>1. Over(j) /\ UNCHANGED <<plan, runs>>
    BY <1>10 DEF Record, Abort, CloseFails, Kill
  <2>2. \A k \in Jobs : k # j => watermark'[k] = watermark[k]
    BY <1>10 DEF Record, Abort, CloseFails, Kill
  <2> QED
    BY <2>1, <2>2, LakeAssumption DEF Over
<1> QED
  BY <1>1, <1>2, <1>3, <1>4, <1>5, <1>6, <1>7, <1>8, <1>9, <1>10 DEF Step, FilesStep

LEMMA NewestStep == ASSUME IInv, NEW j \in Jobs, Step(j) PROVE NewestInv'
<1>1. CASE Commit(j)
  BY <1>1, CommitNames, CommitIsNewest DEF IInv
<1>2. CASE Upsert(j)
  BY <1>2, CommitNames, CommitIsNewest DEF IInv
<1>3. CASE Expire(j)
  BY <1>3, ExpireKeepsNewest DEF IInv
<1>4. CASE UNCHANGED snapshots
  BY <1>4 DEF IInv, NewestInv
<1>5. FilesStep(j) => UNCHANGED snapshots
  BY DEF FilesStep, TakeBackFile, TakenBack, WriteIntent, Move, MoveCopies, Appended, Replace,
         MarkComplete, ListSnapshots, ListingFails, MarkingFails, DeleteSnapshot, Pruned, tableVars
<1>6. Upserted(j) \/ DeleteUnreferenced(j) \/ ExpiryFails(j) => UNCHANGED snapshots
  BY DEF Upserted, DeleteUnreferenced, ExpiryFails, tableVars
<1>7. Arrive(j) \/ Start(j) \/ Prepared(j) \/ Write(j) \/ Record(j) \/ Fail(j) \/ Abort(j) \/ CloseFails(j) \/ Kill(j)
        => UNCHANGED snapshots
  BY DEF Arrive, Start, Prepared, Write, Record, Fail, Abort, CloseFails, Kill, tableVars
<1> QED
  BY <1>1, <1>2, <1>3, <1>4, <1>5, <1>6, <1>7 DEF Step, IcebergStep

(* Only a commit names parts that none named before, and they are its own. *)
LEMMA CommittedGrows ==
  ASSUME IInv, NEW j \in Jobs, Step(j)
  PROVE  /\ Commit(j) => Committed' \subseteq Committed \cup todo[j]
         /\ Upsert(j) => Committed' \subseteq Committed \cup {NextPart(j)}
         /\ ~Commit(j) /\ ~Upsert(j) => Committed' \subseteq Committed
<1> USE DEF IInv, TypeOK
<1>0. \A s \in snapshots : s.parts \subseteq Referenced
  BY DEF Referenced
<1>1. base[j] = Current => Named(base[j]) \subseteq Referenced
  BY <1>0, CurrentIs
<1>2. CASE Commit(j)
  <2> PICK parts \in SUBSET Part : CommitTo(j, parts) /\ parts = IF Appends THEN Named(base[j]) \cup todo[j] ELSE todo[j]
    BY <1>2, CommitNames
  <2>1. parts \subseteq Referenced \cup todo[j]
    BY <1>1 DEF CommitTo
  <2>2. \A s \in snapshots' : s \in snapshots \/ s.parts = parts
    BY CommitIsNewest
  <2>3. Referenced' \subseteq Referenced \cup todo[j] /\ before' = before
    BY <1>0, <1>2, <2>1, <2>2 DEF Referenced, Commit
  <2>4. ~Upsert(j)
    BY <1>2 DEF Commit, Upsert
  <2> QED
    BY <1>2, <2>3, <2>4 DEF Committed
<1>3. CASE Upsert(j)
  <2> PICK parts \in SUBSET Part :
        /\ CommitTo(j, parts)
        /\ parts = {NextPart(j)} \cup {p \in Named(base[j]) : p.row # NextPart(j).row \/ p.job # j}
    BY <1>3, CommitNames
  <2>1. parts \subseteq Referenced \cup {NextPart(j)}
    BY <1>1 DEF CommitTo
  <2>2. \A s \in snapshots' : s \in snapshots \/ s.parts = parts
    BY CommitIsNewest
  <2>3. Referenced' \subseteq Referenced \cup {NextPart(j)} /\ before' = before
    BY <1>0, <1>3, <2>1, <2>2 DEF Referenced, Upsert
  <2>4. ~Commit(j)
    BY <1>3 DEF Commit, Upsert
  <2> QED
    BY <1>3, <2>3, <2>4 DEF Committed
<1>4. CASE Expire(j)
  <2>1. snapshots' \subseteq snapshots
    BY <1>4, ExpireKeepsNewest
  <2>2. before' = [before EXCEPT ![j] = Referenced]
    BY <1>4 DEF Expire
  <2>3. Referenced' \subseteq Referenced
    BY <2>1 DEF Referenced
  <2>4. \A k \in Jobs : before'[k] \subseteq Committed
    BY <2>2 DEF Committed
  <2>5. Committed' \subseteq Committed
    BY <2>3, <2>4 DEF Committed
  <2>6. ~Commit(j) /\ ~Upsert(j)
    BY <1>4 DEF Expire, Commit, Upsert
  <2> QED
    BY <2>5, <2>6
<1>5. CASE UNCHANGED snapshots /\ \A k \in Jobs : before'[k] \subseteq before[k]
  <2>1. Committed' \subseteq Committed
    BY <1>5 DEF Committed, Referenced
  <2> QED
    BY <1>2, <1>3, <2>1
<1>6. FilesStep(j) => UNCHANGED <<snapshots, before>>
  BY DEF FilesStep, TakeBackFile, TakenBack, WriteIntent, Move, MoveCopies, Appended, Replace,
         MarkComplete, ListSnapshots, ListingFails, MarkingFails, DeleteSnapshot, Pruned, tableVars, procVars
<1>7. Upserted(j) \/ DeleteUnreferenced(j) \/ ExpiryFails(j) => UNCHANGED <<snapshots, before>>
  BY DEF Upserted, DeleteUnreferenced, ExpiryFails, tableVars, procVars
<1>8. Arrive(j) \/ Start(j) \/ Prepared(j) \/ Write(j) \/ Fail(j) => UNCHANGED <<snapshots, before>>
  BY DEF Arrive, Start, Prepared, Write, Fail, tableVars, procVars
<1>9. Record(j) \/ Abort(j) \/ CloseFails(j) \/ Kill(j) => UNCHANGED snapshots /\ \A k \in Jobs : before'[k] \subseteq before[k]
  BY DEF Record, Abort, CloseFails, Kill, Over, tableVars
<1> QED
  BY <1>2, <1>3, <1>4, <1>5, <1>6, <1>7, <1>8, <1>9 DEF Step, IcebergStep

(* What a step makes of the number and the step of each attempt, as far as *)
(* what is kept of them is concerned.                                      *)
LEMMA RunsKept ==
  ASSUME IInv, NEW j \in Jobs, Step(j)
  PROVE  /\ runs <= runs'
         /\ \A k \in Jobs : k # j => UNCHANGED <<run[k], pc[k], todo[k], moved[k], high[k], watermark[k]>>
         /\ \/ run'[j] = run[j]
            \/ Start(j) /\ run'[j] = runs + 1
            \/ pc'[j] = "idle" /\ run'[j] = 0 /\ todo'[j] = {} /\ moved'[j] = {}
<1> USE DEF IInv, TypeOK, Goto
<1>1. FilesStep(j) => /\ UNCHANGED <<runs, run, high, watermark>>
                      /\ \A k \in Jobs : k # j => UNCHANGED <<pc[k], todo[k], moved[k]>>
  BY DEF FilesStep, TakeBackFile, TakenBack, WriteIntent, Move, MoveCopies, Appended, Replace,
         MarkComplete, ListSnapshots, ListingFails, MarkingFails, DeleteSnapshot, Pruned, tableVars, procVars
<1>2. IcebergStep(j) => /\ UNCHANGED <<runs, run, high, watermark, moved>>
                        /\ \A k \in Jobs : k # j => UNCHANGED <<pc[k], todo[k]>>
  BY DEF IcebergStep, Commit, Upsert, Upserted, Expire, DeleteUnreferenced, ExpiryFails, tableVars, procVars
<1>3. Arrive(j) \/ Prepared(j) \/ Fail(j) => /\ UNCHANGED <<runs, run, high, watermark, moved, todo>>
                                             /\ \A k \in Jobs : k # j => UNCHANGED pc[k]
  BY DEF Arrive, Prepared, Fail, tableVars, procVars
<1>4. Write(j) => /\ UNCHANGED <<runs, run, watermark, moved>>
                  /\ \A k \in Jobs : k # j => UNCHANGED <<pc[k], todo[k], high[k]>>
  BY DEF Write
<1>5. Start(j) => /\ UNCHANGED <<high, watermark, moved, todo>> /\ runs' = runs + 1 /\ run'[j] = runs + 1
                  /\ \A k \in Jobs : k # j => UNCHANGED <<pc[k], run[k]>>
  BY DEF Start
<1>6. Record(j) \/ Abort(j) \/ CloseFails(j) \/ Kill(j) =>
        /\ runs' = runs /\ pc'[j] = "idle" /\ run'[j] = 0 /\ todo'[j] = {} /\ moved'[j] = {}
        /\ \A k \in Jobs : k # j => UNCHANGED <<run[k], pc[k], todo[k], moved[k], high[k], watermark[k]>>
  BY DEF Record, Abort, CloseFails, Kill, Over
<1> QED
  BY <1>1, <1>2, <1>3, <1>4, <1>5, <1>6 DEF Step

LEMMA OfIceberg == PlanInv /\ ~Iceberg => Committed = {}
<1> SUFFICES ASSUME PlanInv, ~Iceberg PROVE Committed = {}
  OBVIOUS
<1>1. \A s \in snapshots : s.parts = {}
  BY DEF PlanInv
<1>2. \A k \in Jobs : before[k] = {}
  BY DEF PlanInv
<1> QED
  BY <1>1, <1>2 DEF Committed, Referenced

LEMMA KnownFiles == ASSUME IInv, NEW j \in Jobs, Step(j) PROVE \A p \in files' : p.run <= runs'
<1> USE DEF IInv, TypeOK
<1>1. \A p \in todo[j] \cup PartsOf(j) : pc[j] # "idle" => p.run = run[j]
  BY PartsWritten DEF AttemptInv
<1>2. files' \subseteq files \cup (IF pc[j] # "idle" THEN todo[j] \cup PartsOf(j) ELSE {})
  <2>1. CASE FilesStep(j)
    <3>1. CASE Move(j) \/ MoveCopies(j)
      BY <3>1, NextIsOfTodo DEF Move, MoveCopies
    <3>2. CASE Replace(j)
      BY <3>2 DEF Replace
    <3> QED
      BY <2>1, <3>1, <3>2 DEF FilesStep, TakeBackFile, TakenBack, WriteIntent, Appended,
         MarkComplete, ListSnapshots, ListingFails, MarkingFails, DeleteSnapshot, Pruned, tableVars
  <2>2. CASE IcebergStep(j)
    <3>1. CASE Upsert(j)
      BY <3>1, NextIsOfTodo DEF Upsert
    <3> QED
      BY <2>2, <3>1 DEF IcebergStep, Commit, Upserted, Expire, DeleteUnreferenced, ExpiryFails, tableVars
  <2>3. CASE Write(j)
    BY <2>3 DEF Write
  <2> QED
    BY <2>1, <2>2, <2>3 DEF Step, Arrive, Start, Prepared, Record, Fail, Abort, CloseFails, Kill, tableVars
<1>3. runs <= runs' /\ run[j] <= runs /\ \A p \in files : p.run <= runs
  BY RunsKept DEF KnownInv, AttemptInv
<1>4. runs \in Nat /\ runs' \in Nat
  BY TypeStep
<1>5. \A p \in files : p.run \in Nat
  BY DEF Part, Run
<1> QED
  BY <1>1, <1>2, <1>3, <1>4, <1>5

LEMMA KnownIntents ==
  ASSUME IInv, NEW j \in Jobs, Step(j)
  PROVE  \A i \in intents' :
           /\ i.run <= runs'
           /\ \A p \in i.parts : p.job = i.job /\ p.run = i.run
           /\ \A k \in Jobs : i.run = run'[k] => i.job = k /\ pc'[k] \notin {"prepare", "write", "intent"}
<1> USE DEF IInv, TypeOK
<1>1. runs \in Nat /\ runs' \in Nat /\ runs <= runs'
  BY TypeStep, RunsKept
<1>2. \A i \in intents : i.run \in Nat /\ i.run # 0 /\ i.run <= runs
  BY DEF Listing, Run, KnownInv
<1>3. CASE WriteIntent(j)
  <2> DEFINE new == [job |-> j, run |-> run[j], parts |-> todo[j]]
  <2>1. intents' = intents \cup {new} /\ run' = run /\ runs' = runs
        /\ pc[j] = "intent" /\ pc' = [pc EXCEPT ![j] = "move"]
    BY <1>3 DEF WriteIntent, Goto, procVars
  <2>2. /\ new.run <= runs
        /\ \A p \in new.parts : p.job = new.job /\ p.run = new.run
        /\ \A k \in Jobs : new.run = run[k] => new.job = k
    BY <2>1 DEF AttemptInv
  <2>3. new.run = run[j] /\ new.job = j
    OBVIOUS
  <2> HIDE DEF new
  <2> QED
    BY <2>1, <2>2, <2>3, <1>2 DEF KnownInv
<1>4. ASSUME intents' \subseteq intents, ~WriteIntent(j), NEW i \in intents', NEW k \in Jobs, i.run = run'[k]
      PROVE  i.job = k /\ pc'[k] \notin {"prepare", "write", "intent"}
  <2>1. run'[k] = run[k]
    BY <1>1, <1>2, <1>4, RunsKept
  <2>2. i.job = k /\ pc[k] \notin {"prepare", "write", "intent"}
    BY <1>4, <2>1 DEF KnownInv
  <2>3. pc[k] # "idle"
    BY <1>2, <1>4, <2>1 DEF AttemptInv
  <2>4. k # j => pc'[k] = pc[k]
    BY RunsKept
  <2>5. k = j => pc'[j] \notin {"prepare", "write", "intent"}
    <3> USE DEF Goto
    <3>1. CASE FilesStep(j)
      BY <3>1, <2>2, <1>4 DEF FilesStep, TakeBackFile, TakenBack, Move, MoveCopies, Appended, Replace,
         MarkComplete, ListSnapshots, ListingFails, MarkingFails, DeleteSnapshot, Pruned, tableVars, procVars
    <3>2. CASE IcebergStep(j)
      BY <3>2, <2>2, <1>4 DEF IcebergStep, Commit, Upsert, Upserted, Expire, DeleteUnreferenced, ExpiryFails, tableVars, procVars
    <3>3. CASE Arrive(j) \/ Start(j) \/ Prepared(j) \/ Write(j) \/ Fail(j)
      BY <3>3, <2>2, <2>3, <1>4 DEF Arrive, Start, Prepared, Write, Fail, tableVars, procVars
    <3>4. CASE Record(j) \/ Abort(j) \/ CloseFails(j) \/ Kill(j)
      BY <3>4, <1>4 DEF Record, Abort, CloseFails, Kill, Over
    <3> QED
      BY <3>1, <3>2, <3>3, <3>4 DEF Step
  <2> QED
    BY <2>2, <2>4, <2>5
<1>5. ~WriteIntent(j) => intents' \subseteq intents
  <2>1. FilesStep(j) /\ ~WriteIntent(j) => intents' \subseteq intents
    BY DEF FilesStep, TakeBackFile, TakenBack, Move, MoveCopies, Appended, Replace,
           MarkComplete, ListSnapshots, ListingFails, MarkingFails, DeleteSnapshot, Pruned, tableVars
  <2>2. IcebergStep(j) => intents' = intents
    BY DEF IcebergStep, Commit, Upsert, Upserted, Expire, DeleteUnreferenced, ExpiryFails, tableVars
  <2>3. Abort(j) => intents' \subseteq intents
    BY DEF Abort
  <2> QED
    BY <2>1, <2>2, <2>3 DEF Step, Arrive, Start, Prepared, Write, Record, Fail, CloseFails, Kill, tableVars
<1>6. ASSUME ~WriteIntent(j), NEW i \in intents'
      PROVE  i.run <= runs' /\ \A p \in i.parts : p.job = i.job /\ p.run = i.run
  BY <1>1, <1>2, <1>5, <1>6 DEF KnownInv
<1> QED
  BY <1>3, <1>4, <1>5, <1>6

LEMMA KnownSuccess ==
  ASSUME IInv, NEW j \in Jobs, Step(j)
  PROVE  \A s \in success' : s.run <= runs' /\ \A p \in s.parts : p.run = s.run
<1> USE DEF IInv, TypeOK
<1>1. runs \in Nat /\ runs' \in Nat /\ runs <= runs' /\ \A s \in success : s.run \in Nat
  BY TypeStep, RunsKept DEF Listing, Run
<1>2. CASE Marks(j)
  BY <1>2 DEF Marks, MarkComplete, MarkingFails, Listed, AttemptInv, KnownInv
<1>3. ~Marks(j) => success' \subseteq success
  <2>1. FilesStep(j) /\ ~Marks(j) => success' \subseteq success
    BY DEF Marks, FilesStep, TakeBackFile, TakenBack, WriteIntent, Move, MoveCopies, Appended, Replace,
           ListSnapshots, ListingFails, DeleteSnapshot, Pruned, tableVars
  <2>2. IcebergStep(j) => success' = success
    BY DEF IcebergStep, Commit, Upsert, Upserted, Expire, DeleteUnreferenced, ExpiryFails, tableVars
  <2> QED
    BY <2>1, <2>2 DEF Step, Arrive, Start, Prepared, Write, Record, Fail, Abort, CloseFails, Kill, tableVars
<1>4. CASE success' \subseteq success
  BY <1>1, <1>4 DEF KnownInv
<1> QED
  BY <1>2, <1>3, <1>4

LEMMA KnownCommitted ==
  ASSUME IInv, NEW j \in Jobs, Step(j)
  PROVE  \A p \in Committed' :
           /\ p.run <= runs'
           /\ \A k \in Jobs :
                p.run = run'[k] =>
                  /\ p.job = k
                  /\ pc'[k] \notin {"prepare", "write"}
                  /\ p \in todo'[k] => /\ pc'[k] \notin {"commit", "upsert"}
                                       /\ pc'[k] = "abort" => run'[k] \in spoiled'
<1> USE DEF IInv, TypeOK
<1>1. runs \in Nat /\ runs' \in Nat /\ runs <= runs' /\ TypeOK'
  BY TypeStep, RunsKept
<1>2. \A p \in Committed : p.run \in Nat /\ p.run # 0 /\ p.run <= runs
  BY DEF Committed, Referenced, Snapshot, Part, Run, KnownInv
<1>3. spoiled \subseteq spoiled'
  <2>1. FilesStep(j) => spoiled \subseteq spoiled'
    BY DEF FilesStep, TakeBackFile, TakenBack, WriteIntent, Move, MoveCopies, Appended, Replace,
           MarkComplete, ListSnapshots, ListingFails, MarkingFails, DeleteSnapshot, Pruned, tableVars
  <2>2. IcebergStep(j) => spoiled \subseteq spoiled'
    BY DEF IcebergStep, Commit, Upsert, Upserted, Expire, DeleteUnreferenced, ExpiryFails, tableVars
  <2>3. Record(j) => spoiled \subseteq spoiled'
    BY DEF Record
  <2> QED
    BY <2>1, <2>2, <2>3 DEF Step, Arrive, Start, Prepared, Write, Fail, Abort, CloseFails, Kill, tableVars
<1>4. ASSUME NEW p \in Committed, NEW k \in Jobs \ {j}, p.run = run'[k]
      PROVE  /\ p.job = k /\ pc'[k] \notin {"prepare", "write"}
             /\ p \in todo'[k] => /\ pc'[k] \notin {"commit", "upsert"}
                                  /\ pc'[k] = "abort" => run'[k] \in spoiled'
  <2>1. UNCHANGED <<run[k], pc[k], todo[k]>>
    BY RunsKept
  <2> QED
    BY <1>3, <1>4, <2>1 DEF KnownInv
<1>5. ASSUME NEW p \in Committed, p.run = run'[j]
      PROVE  /\ p.job = j /\ pc'[j] \notin {"prepare", "write"}
             /\ p \in todo'[j] => /\ pc'[j] \notin {"commit", "upsert"}
                                  /\ pc'[j] = "abort" => run'[j] \in spoiled'
  <2>1. run'[j] = run[j]
    BY <1>1, <1>2, <1>5, RunsKept
  <2>2. /\ p.job = j /\ pc[j] \notin {"prepare", "write"}
        /\ p \in todo[j] => /\ pc[j] \notin {"commit", "upsert"}
                            /\ pc[j] = "abort" => run[j] \in spoiled
    BY <1>5, <2>1 DEF KnownInv
  <2>3. pc[j] # "idle" /\ run'[j] # 0
    BY <1>2, <1>5, <2>1 DEF AttemptInv
  <2> USE DEF Goto
  <2>4. CASE FilesStep(j)
    <3>1. todo'[j] \subseteq todo[j]
      BY <2>4 DEF FilesStep, TakeBackFile, TakenBack, WriteIntent, Move, MoveCopies, Appended, Replace,
         MarkComplete, ListSnapshots, ListingFails, MarkingFails, DeleteSnapshot, Pruned, tableVars, procVars
    <3>2. pc'[j] = pc[j] \/ pc'[j] \in {"move", "record", "list", "prune"} \/ ~Iceberg
      BY <2>4 DEF FilesStep, TakeBackFile, TakenBack, WriteIntent, Move, MoveCopies, Appended, Replace,
         MarkComplete, ListSnapshots, ListingFails, MarkingFails, DeleteSnapshot, Pruned, procVars, PlanInv, Iceberg
    <3> QED
      BY <1>5, <3>1, <3>2, <2>1, <2>2, <1>3, OfIceberg
  <2>5. CASE IcebergStep(j)
    <3>1. todo'[j] \subseteq todo[j]
      BY <2>5 DEF IcebergStep, Commit, Upsert, Upserted, Expire, DeleteUnreferenced, ExpiryFails, procVars
    <3>2. pc'[j] \in {"upsert", "expire", "delete", "record"} \/ (pc'[j] = "abort" /\ run[j] \in spoiled')
      BY <2>5 DEF IcebergStep, Commit, Upsert, Upserted, Expire, DeleteUnreferenced, ExpiryFails
    <3>3. pc'[j] = "upsert" => pc[j] = "upsert"
      BY <2>5 DEF IcebergStep, Commit, Upsert, Upserted, Expire, DeleteUnreferenced, ExpiryFails
    <3> QED
      BY <3>1, <3>2, <3>3, <2>1, <2>2
  <2>6. CASE Arrive(j)
    BY <2>6, <2>2 DEF Arrive, procVars
  <2>9. CASE Fail(j)
    <3>1. pc[j] \in {"intent", "move", "replace"} => ~Iceberg
      BY DEF PlanInv, Iceberg
    <3>2. pc[j] \in {"commit", "upsert"}
      BY <1>5, <2>2, <2>9, <3>1, OfIceberg DEF Fail
    <3> QED
      BY <2>2, <2>9, <3>2 DEF Fail, procVars
  <2>7. CASE Start(j) \/ Prepared(j) \/ Write(j)
    BY <2>7, <2>2, <2>3 DEF Start, Prepared, Write
  <2>8. CASE Record(j) \/ Abort(j) \/ CloseFails(j) \/ Kill(j)
    BY <2>8, <2>3 DEF Record, Abort, CloseFails, Kill, Over
  <2> QED
    BY <2>4, <2>5, <2>6, <2>7, <2>8, <2>9 DEF Step
<1>6. CASE ~Commit(j) /\ ~Upsert(j)
  BY <1>1, <1>2, <1>4, <1>5, <1>6, CommittedGrows
<1>7. ASSUME NEW p \in todo[j], Commit(j)
      PROVE  /\ p.run <= runs'
             /\ \A k \in Jobs :
                  p.run = run'[k] =>
                    /\ p.job = k
                    /\ pc'[k] \notin {"prepare", "write"}
                    /\ p \in todo'[k] => /\ pc'[k] \notin {"commit", "upsert"}
                                         /\ pc'[k] = "abort" => run'[k] \in spoiled'
  <2>1. run' = run /\ runs' = runs /\ pc[j] = "commit"
    BY <1>7 DEF Commit
  <2>2. pc' = [pc EXCEPT ![j] = "expire"] \/ (pc' = [pc EXCEPT ![j] = "abort"] /\ run[j] \in spoiled')
    BY <1>7 DEF Commit, Goto
  <2>3. p.job = j /\ p.run = run[j] /\ run[j] # 0 /\ run[j] <= runs
    BY <2>1 DEF AttemptInv
  <2>4. \A k \in Jobs : p.run = run[k] => j = k
    BY <2>3 DEF AttemptInv
  <2> QED
    BY <2>1, <2>2, <2>3, <2>4
<1>8. ASSUME Upsert(j)
      PROVE  LET p == NextPart(j)
             IN  /\ p.run <= runs'
                 /\ \A k \in Jobs :
                      p.run = run'[k] =>
                        /\ p.job = k
                        /\ pc'[k] \notin {"prepare", "write"}
                        /\ p \notin todo'[k]
  <2> DEFINE p == NextPart(j)
  <2>1. run' = run /\ runs' = runs /\ pc' = pc /\ pc[j] = "upsert" /\ p \in todo[j]
        /\ todo' = [todo EXCEPT ![j] = @ \ {p}]
    BY <1>8, NextIsOfTodo DEF Upsert
  <2>2. p.job = j /\ p.run = run[j] /\ run[j] # 0 /\ run[j] <= runs
    BY <2>1 DEF AttemptInv
  <2> HIDE DEF p
  <2>3. \A k \in Jobs : run[j] = run[k] => j = k
    BY <2>2 DEF AttemptInv
  <2> QED
    BY <2>1, <2>2, <2>3 DEF p
<1>9. CASE Commit(j)
  BY <1>1, <1>2, <1>4, <1>5, <1>7, <1>9, CommittedGrows
<1>10. CASE Upsert(j)
  BY <1>1, <1>2, <1>4, <1>5, <1>8, <1>10, CommittedGrows
<1> QED
  BY <1>6, <1>9, <1>10


LEMMA KnownStep == ASSUME IInv, NEW j \in Jobs, Step(j) PROVE KnownInv'
  BY KnownFiles, KnownIntents, KnownSuccess, KnownCommitted DEF KnownInv

(* The newest complete snapshot gives way to none but a newer one. *)
LEMMA CompleteKeeps ==
  ASSUME IInv, NEW j \in Jobs, Step(j)
  PROVE  \A c \in Complete : \E d \in Complete' : c <= d
<1> USE DEF IInv, TypeOK
<1>1. Complete \subseteq Nat
  BY DEF Complete, Listing, Run
<1>2. CASE DeleteSnapshot(j)
  <2>1. PICK r \in stale[j] : success' \in {success, {s \in success : s.run # r}}
    BY <1>2 DEF DeleteSnapshot
  <2>2. PICK d \in Complete : r < d
    BY <2>1 DEF StaleInv
  <2>3. \A c \in Complete : c # r => c \in Complete'
    BY <2>1 DEF Complete
  <2>4. r \in Nat
    BY <2>1 DEF Run
  <2>5. d \in Complete' /\ d \in Nat
    BY <1>1, <2>2, <2>3, <2>4
  <2> QED
    BY <1>1, <2>2, <2>3, <2>4, <2>5
<1>3. ~DeleteSnapshot(j) => success \subseteq success'
  <2>1. FilesStep(j) /\ ~DeleteSnapshot(j) => success \subseteq success'
    BY DEF FilesStep, TakeBackFile, TakenBack, WriteIntent, Move, MoveCopies, Appended, Replace,
           MarkComplete, ListSnapshots, ListingFails, MarkingFails, Pruned, tableVars
  <2>2. IcebergStep(j) => success' = success
    BY DEF IcebergStep, Commit, Upsert, Upserted, Expire, DeleteUnreferenced, ExpiryFails, tableVars
  <2>3. Arrive(j) \/ Start(j) \/ Prepared(j) \/ Write(j) \/ Record(j) \/ Fail(j) \/ Abort(j) \/ CloseFails(j) \/ Kill(j)
          => success' = success
    BY DEF Arrive, Start, Prepared, Write, Record, Fail, Abort, CloseFails, Kill, tableVars
  <2> HIDE DEF IInv, TypeOK
  <2> QED
    BY <2>1, <2>2, <2>3 DEF Step
<1>4. CASE success \subseteq success'
  <2>1. Complete \subseteq Complete'
    BY <1>4 DEF Complete
  <2>2. \A c \in Complete : c \in Nat /\ c <= c
    BY <1>1
  <2> HIDE DEF IInv, TypeOK
  <2> QED
    BY <2>1, <2>2
<1> QED
  BY <1>2, <1>3, <1>4

LEMMA StillNewer ==
  ASSUME IInv, NEW j \in Jobs, Step(j), NEW n \in Nat
  PROVE  /\ (\E c \in Complete : n <= c) => \E c \in Complete' : n <= c
         /\ (\E c \in Complete : n < c) => \E c \in Complete' : n < c
<1>1. TypeOK /\ TypeOK'
  BY TypeStep DEF IInv
<1>2. Complete \subseteq Nat /\ Complete' \subseteq Nat
  BY <1>1 DEF TypeOK, Complete, Listing, Run
<1>3. \A c \in Complete : \E d \in Complete' : c <= d
  BY CompleteKeeps
<1> QED
  BY <1>2, <1>3

(* A snapshot to prune is older than one that is complete: of the complete *)
(* ones the newest is never listed, and of the others only those that are  *)
(* older than the one just completed.                                      *)
LEMMA ListedAreOlder ==
  ASSUME IInv, NEW j \in Jobs, pc[j] = "list", NEW r \in Stale(j)
  PROVE  r \in Nat /\ \E c \in Complete : r < c
<1> USE DEF IInv, TypeOK
<1>1. Complete \subseteq Nat
  BY DEF Complete, Listing, Run
<1>2. CASE r \in Complete \ Newest(Keep)
  <2>1. {q \in Complete : q > r} # {}
    <3>1. Cardinality({}) < Keep
      BY FS_EmptySet, LakeAssumption
    <3>2. ~(Cardinality({q \in Complete : q > r}) < Keep)
      BY <1>2 DEF Newest
    <3> QED
      BY <3>1, <3>2
  <2> QED
    BY <1>1, <1>2, <2>1
<1>3. CASE r \in {p.run : p \in files} \ Complete /\ r < run[j]
  <2>1. r \in Nat /\ run[j] \in Nat
    BY <1>3 DEF Part, Run
  <2>2. PICK c \in Complete : run[j] <= c
    BY DEF StaleInv
  <2> QED
    BY <1>1, <1>3, <2>1, <2>2
<1> QED
  BY <1>2, <1>3 DEF Stale

LEMMA StaleStep == ASSUME IInv, NEW j \in Jobs, Step(j) PROVE StaleInv'
<1> USE DEF IInv, TypeOK, Goto
<1>0. Complete \subseteq Nat /\ run'[j] \in Nat /\ \A k \in Jobs : run[k] \in Nat /\ stale[k] \subseteq Nat
  BY TypeStep DEF Complete, Listing, Run
<1>1. ASSUME NEW k \in Jobs, pc'[k] \in {"list", "prune"} PROVE \E c \in Complete' : run'[k] <= c
  <2>1. CASE run'[k] = run[k] /\ pc[k] \in {"list", "prune"}
    BY <1>0, <2>1, StillNewer DEF StaleInv
  <2>2. CASE Marks(j) /\ k = j
    <3>1. Listed(j) \in success' /\ run' = run
      BY <2>2 DEF Marks, MarkComplete, MarkingFails, procVars
    <3>2. run[j] \in Complete'
      BY <3>1 DEF Complete, Listed
    <3> QED
      BY <1>0, <2>2, <3>1, <3>2
  <2>3. k # j => run'[k] = run[k] /\ pc[k] \in {"list", "prune"}
    BY <1>1, RunsKept
  <2>4. k = j /\ ~Marks(j) => run'[k] = run[k] /\ pc[k] \in {"list", "prune"}
    <3>1. FilesStep(j) /\ k = j /\ ~Marks(j) => run'[k] = run[k] /\ pc[k] \in {"list", "prune"}
      BY <1>1 DEF Marks, FilesStep, TakeBackFile, TakenBack, WriteIntent, Move, MoveCopies, Appended, Replace,
           ListSnapshots, ListingFails, MarkingFails, DeleteSnapshot, Pruned, procVars
    <3>2. ~(IcebergStep(j) /\ k = j)
      BY <1>1 DEF IcebergStep, Commit, Upsert, Upserted, Expire, DeleteUnreferenced, ExpiryFails
    <3>3. Arrive(j) => run' = run /\ pc' = pc
      BY DEF Arrive, procVars
    <3>4. k = j => ~(Start(j) \/ Prepared(j) \/ Fail(j) \/ Record(j) \/ Abort(j) \/ CloseFails(j) \/ Kill(j))
      BY <1>1 DEF Start, Prepared, Fail, Record, Abort, CloseFails, Kill, Over
    <3>5. k = j => ~Write(j)
      BY <1>1 DEF Write
    <3> QED
      BY <1>1, <3>1, <3>2, <3>3, <3>4, <3>5 DEF Step
  <2> QED
    BY <2>1, <2>2, <2>3, <2>4
<1>2. ASSUME NEW k \in Jobs, NEW r \in stale'[k] PROVE \E c \in Complete' : r < c
  <2>1. CASE ListSnapshots(j)
    <3>1. pc[j] = "list" /\ success' = success /\ stale' = [stale EXCEPT ![j] = Stale(j)]
      BY <2>1 DEF ListSnapshots, tableVars
    <3>2. Complete' = Complete
      BY <3>1 DEF Complete
    <3>3. CASE k = j
      BY <1>2, <3>1, <3>2, <3>3, ListedAreOlder
    <3>4. CASE k # j
      BY <1>2, <3>1, <3>2, <3>4 DEF StaleInv
    <3> QED
      BY <3>3, <3>4
  <2>2. CASE r \in stale[k]
    BY <1>0, <2>2, StillNewer DEF StaleInv
  <2>3. ~ListSnapshots(j) => r \in stale[k]
    <3>1. FilesStep(j) /\ ~ListSnapshots(j) => r \in stale[k]
      BY <1>2 DEF FilesStep, TakeBackFile, TakenBack, WriteIntent, Move, MoveCopies, Appended, Replace,
           MarkComplete, ListingFails, MarkingFails, DeleteSnapshot, Pruned, procVars
    <3>2. IcebergStep(j) => r \in stale[k]
      BY <1>2 DEF IcebergStep, Commit, Upsert, Upserted, Expire, DeleteUnreferenced, ExpiryFails, procVars
    <3>3. Record(j) \/ Abort(j) \/ CloseFails(j) \/ Kill(j) => r \in stale[k]
      BY <1>2 DEF Record, Abort, CloseFails, Kill, Over
    <3> QED
      BY <1>2, <3>1, <3>2, <3>3 DEF Step, Arrive, Start, Prepared, Write, Fail, procVars
  <2> QED
    BY <2>1, <2>2, <2>3
<1> QED
  BY <1>1, <1>2 DEF StaleInv

(* How a part may go from the table. *)
LEMMA LostParts ==
  ASSUME IInv, NEW j \in Jobs, Step(j), NEW p \in files \ files'
  PROVE  \/ TakeBackFile(j) /\ plan = "append" /\ \E i \in Interrupted(j) : p \in i.parts
         \/ Replace(j) /\ plan = "singleFile"
         \/ DeleteSnapshot(j) /\ plan = "overwrite" /\ p.run \in stale[j]
         \/ DeleteUnreferenced(j) /\ Iceberg /\ p \in before[j] \ Referenced
         \/ Abort(j) /\ pc[j] = "abort" /\ p \in (IF Iceberg THEN todo[j] ELSE moved[j])
<1> USE DEF IInv, PlanInv
<1>1. CASE TakeBackFile(j)
  BY <1>1 DEF TakeBackFile, Interrupted
<1>2. CASE Replace(j)
  BY <1>2 DEF Replace
<1>3. CASE DeleteSnapshot(j)
  BY <1>3 DEF DeleteSnapshot
<1>4. CASE DeleteUnreferenced(j)
  BY <1>4 DEF DeleteUnreferenced
<1>5. CASE Abort(j)
  BY <1>5 DEF Abort
<1>6. FilesStep(j) => TakeBackFile(j) \/ Replace(j) \/ DeleteSnapshot(j)
  BY DEF FilesStep, TakenBack, WriteIntent, Move, MoveCopies, Appended,
         MarkComplete, ListSnapshots, ListingFails, MarkingFails, Pruned, tableVars
<1>7. IcebergStep(j) => DeleteUnreferenced(j)
  BY DEF IcebergStep, Commit, Upsert, Upserted, Expire, ExpiryFails, tableVars
<1>8. Step(j) => FilesStep(j) \/ IcebergStep(j) \/ Abort(j)
  BY DEF Step, Arrive, Start, Prepared, Write, Record, Fail, CloseFails, Kill, tableVars
<1> QED
  BY <1>1, <1>2, <1>3, <1>4, <1>5, <1>6, <1>7, <1>8

LEMMA FaultsStay == ASSUME NEW j \in Jobs, Step(j) PROVE faults \subseteq faults' /\ spoiled \subseteq spoiled' /\ plan' = plan
<1>1. FilesStep(j) => faults \subseteq faults' /\ spoiled \subseteq spoiled' /\ plan' = plan
  BY DEF FilesStep, TakeBackFile, TakenBack, WriteIntent, Move, MoveCopies, Appended, Replace,
         MarkComplete, ListSnapshots, ListingFails, MarkingFails, DeleteSnapshot, Pruned, tableVars
<1>2. IcebergStep(j) => faults \subseteq faults' /\ spoiled \subseteq spoiled' /\ plan' = plan
  BY DEF IcebergStep, Commit, Upsert, Upserted, Expire, DeleteUnreferenced, ExpiryFails, tableVars
<1>3. Record(j) => faults \subseteq faults' /\ spoiled \subseteq spoiled' /\ plan' = plan
  BY DEF Record
<1> QED
  BY <1>1, <1>2, <1>3 DEF Step, Arrive, Start, Prepared, Write, Fail, Abort, CloseFails, Kill, Unrecorded, tableVars

LEMMA CompleteGrows ==
  ASSUME IInv, NEW j \in Jobs, Step(j)
  PROVE  Complete' \subseteq Complete \cup (IF Marks(j) THEN {run[j]} ELSE {})
<1>1. FilesStep(j) /\ ~Marks(j) => success' \subseteq success
  BY DEF Marks, FilesStep, TakeBackFile, TakenBack, WriteIntent, Move, MoveCopies, Appended, Replace,
         ListSnapshots, ListingFails, MarkingFails, DeleteSnapshot, Pruned, tableVars
<1>2. IcebergStep(j) => success' = success
  BY DEF IcebergStep, Commit, Upsert, Upserted, Expire, DeleteUnreferenced, ExpiryFails, tableVars
<1>3. ~Marks(j) => success' \subseteq success
  BY <1>1, <1>2 DEF Step, Arrive, Start, Prepared, Write, Record, Fail, Abort, CloseFails, Kill, tableVars
<1>4. Marks(j) => success' = success \cup {Listed(j)}
  BY DEF Marks, MarkComplete, MarkingFails
<1> QED
  BY <1>3, <1>4 DEF Complete, Listed

LEMMA MarkedAreMoved ==
  ASSUME IInv, NEW j \in Jobs, Step(j), NEW k \in Jobs, pc'[k] = "move", plan = "overwrite"
  PROVE  moved'[k] \subseteq files' \/ \E c \in Complete' : run'[k] < c
<1> USE DEF IInv, TypeOK, Goto
<1>1. CASE pc[k] = "move" /\ run'[k] = run[k] /\ moved'[k] = moved[k]
  <2>1. CASE \E c \in Complete : run[k] < c
    BY <1>1, <2>1, StillNewer
  <2>2. CASE moved[k] \subseteq files
    <3>1. ASSUME NEW p \in moved[k], p \notin files' PROVE \E c \in Complete : run[k] < c
      <4>1. p \in files \ files' /\ p.job = k /\ p.run = run[k]
        BY <2>2, <3>1 DEF AttemptInv
      <4>2. \/ p.run \in stale[j]
            \/ pc[j] = "abort" /\ p \in moved[j] /\ p.job = j
        BY <4>1, LostParts DEF Iceberg, AttemptInv
      <4>3. p.run \in stale[j]
        BY <1>1, <4>1, <4>2
      <4> QED
        BY <4>1, <4>3 DEF StaleInv
    <3>2. (\E c \in Complete : run[k] < c) => \E c \in Complete' : run[k] < c
      BY StillNewer
    <3> QED
      BY <1>1, <3>1, <3>2
  <2> QED
    BY <1>1, <2>1, <2>2 DEF MarkInv
<1>2. CASE k # j
  BY <1>1, <1>2, RunsKept
<1>3. CASE k = j /\ Move(j)
  <2>1. /\ files' = files \cup {NextPart(j)} /\ moved'[j] = moved[j] \cup {NextPart(j)}
        /\ pc[j] = "move" /\ UNCHANGED <<run, success>>
    BY <1>3 DEF Move
  <2> QED
    BY <1>3, <2>1 DEF MarkInv, Complete
<1>4. CASE k = j /\ Write(j)
  BY <1>4 DEF Write, AttemptInv
<1>5. CASE k = j /\ ~Move(j) /\ ~Write(j)
  <2>1. FilesStep(j) => pc[j] = "move" /\ UNCHANGED <<run, moved>>
    BY <1>5 DEF FilesStep, TakeBackFile, TakenBack, WriteIntent, MoveCopies, Appended, Replace,
         MarkComplete, ListSnapshots, ListingFails, MarkingFails, DeleteSnapshot, Pruned, procVars, PlanInv
  <2>2. ~IcebergStep(j)
    BY <1>5 DEF IcebergStep, Commit, Upsert, Upserted, Expire, DeleteUnreferenced, ExpiryFails
  <2>3. Arrive(j) => pc[j] = "move" /\ UNCHANGED <<run, moved>>
    BY <1>5 DEF Arrive, procVars
  <2>4. ~(Start(j) \/ Prepared(j) \/ Fail(j) \/ Record(j) \/ Abort(j) \/ CloseFails(j) \/ Kill(j))
    BY <1>5 DEF Start, Prepared, Fail, Record, Abort, CloseFails, Kill, Over
  <2> QED
    BY <1>1, <1>5, <2>1, <2>2, <2>3, <2>4 DEF Step
<1> QED
  BY <1>2, <1>3, <1>4, <1>5

LEMMA MarkedOnce ==
  ASSUME IInv, NEW j \in Jobs, Step(j), NEW k \in Jobs,
         pc'[k] \in {"prepare", "write", "move"} \/ (pc'[k] = "abort" /\ run'[k] \notin spoiled')
  PROVE  run'[k] \notin Complete'
<1> USE DEF IInv, TypeOK, Goto
<1>1. Complete' \subseteq Complete \cup (IF Marks(j) THEN {run[j]} ELSE {})
  BY CompleteGrows
<1>2. plan # "overwrite" => Complete = {} /\ ~Marks(j)
  BY DEF PlanInv, Complete, Marks, MarkComplete, MarkingFails
<1>3. CASE k # j
  <2>1. run'[k] = run[k] /\ pc'[k] = pc[k]
    BY <1>3, RunsKept
  <2>2. run[k] \notin Complete /\ pc[k] # "idle"
    BY <2>1, FaultsStay DEF MarkInv
  <2>3. run[k] # run[j]
    BY <1>3, <2>2 DEF AttemptInv
  <2> QED
    BY <1>1, <2>1, <2>2, <2>3
<1>4. CASE k = j /\ Start(j)
  <2>1. run'[j] = runs + 1 /\ ~Marks(j)
    BY <1>4 DEF Start, Marks, MarkComplete, MarkingFails
  <2>2. \A c \in Complete : c \in Nat /\ c <= runs
    BY DEF Complete, KnownInv, Listing, Run
  <2> QED
    BY <1>1, <1>4, <2>1, <2>2
<1>5. CASE k = j /\ ~Start(j)
  <2>1. ~Marks(j)
    BY <1>5 DEF Marks, MarkComplete, MarkingFails, procVars
  <2>2. run'[j] = run[j] /\ (plan = "overwrite" => run[j] \notin Complete)
    <3>1. CASE FilesStep(j)
      BY <1>5, <3>1 DEF FilesStep, TakeBackFile, TakenBack, WriteIntent, Move, MoveCopies, Appended, Replace,
         MarkComplete, ListSnapshots, ListingFails, MarkingFails, DeleteSnapshot, Pruned, procVars, PlanInv, MarkInv
    <3>2. CASE IcebergStep(j)
      BY <1>5, <3>2 DEF IcebergStep, Commit, Upsert, Upserted, Expire, DeleteUnreferenced, ExpiryFails, procVars, PlanInv, Iceberg
    <3>3. CASE Arrive(j) \/ Prepared(j) \/ Fail(j)
      BY <1>5, <3>3 DEF Arrive, Prepared, Fail, procVars, PlanInv, MarkInv
    <3>4. CASE Write(j)
      BY <3>4 DEF Write, MarkInv
    <3>5. ~(Record(j) \/ Abort(j) \/ CloseFails(j) \/ Kill(j))
      BY <1>5 DEF Record, Abort, CloseFails, Kill, Over
    <3> QED
      BY <1>5, <3>1, <3>2, <3>3, <3>4, <3>5 DEF Step
  <2> QED
    BY <1>1, <1>2, <1>5, <2>1, <2>2
<1> QED
  BY <1>3, <1>4, <1>5

LEMMA MarkStep == ASSUME IInv, NEW j \in Jobs, Step(j) PROVE MarkInv'
<1> USE DEF IInv, TypeOK
<1>1. ASSUME NEW s \in success', s.run \notin spoiled'
      PROVE  s.parts \subseteq files' \/ \E c \in Complete' : s.run < c
  <2>1. plan = "overwrite" /\ s.run \notin spoiled
    <3>1. plan' = plan /\ s.run \notin spoiled /\ PlanInv'
      BY <1>1, FaultsStay, PlanStep, TypeStep
    <3> QED
      BY <1>1, <3>1 DEF PlanInv
  <2>2. CASE s \in success
    <3>0. s.run \in Nat /\ s.run \in Complete
      BY <2>2 DEF Listing, Run, Complete
    <3>1. (\E c \in Complete : s.run < c) => \E c \in Complete' : s.run < c
      BY <3>0, StillNewer
    <3>2. ASSUME s.parts \subseteq files, NEW p \in s.parts, p \notin files'
          PROVE  \E c \in Complete : s.run < c
      <4>1. p \in files \ files' /\ p.run = s.run
        BY <2>2, <3>2 DEF KnownInv
      <4>2. \/ p.run \in stale[j]
            \/ pc[j] = "abort" /\ p \in moved[j] /\ p.run = run[j]
        BY <2>1, <4>1, LostParts DEF Iceberg, AttemptInv
      <4>3. p.run \in stale[j]
        BY <2>1, <3>0, <4>1, <4>2 DEF MarkInv
      <4> QED
        BY <4>1, <4>3 DEF StaleInv
    <3> QED
      BY <2>1, <2>2, <3>1, <3>2 DEF MarkInv
  <2>3. CASE s \notin success
    <3>1. Marks(j)
      <4>1. FilesStep(j) => Marks(j)
        BY <1>1, <2>3 DEF Marks, FilesStep, TakeBackFile, TakenBack, WriteIntent, Move, MoveCopies, Appended, Replace,
               ListSnapshots, ListingFails, MarkingFails, DeleteSnapshot, Pruned, tableVars
      <4>2. ~IcebergStep(j)
        BY <1>1, <2>3 DEF IcebergStep, Commit, Upsert, Upserted, Expire, DeleteUnreferenced, ExpiryFails, tableVars
      <4> QED
        BY <1>1, <2>3, <4>1, <4>2 DEF Step, Arrive, Start, Prepared, Write, Record, Fail, Abort, CloseFails, Kill, tableVars
    <3>2. s.parts = moved[j] /\ s.run = run[j] /\ files' = files /\ pc[j] = "move"
      BY <1>1, <2>3, <3>1 DEF Marks, MarkComplete, MarkingFails, Listed
    <3>3. (\E c \in Complete : run[j] < c) => \E c \in Complete' : run[j] < c
      BY StillNewer
    <3> QED
      BY <2>1, <3>2, <3>3 DEF MarkInv
  <2> QED
    BY <2>2, <2>3
<1>2. plan' = plan
  BY FaultsStay
<1> QED
  BY <1>1, <1>2, MarkedAreMoved, MarkedOnce DEF MarkInv

(* What a reader sees, before and after a step. *)
LEMMA VisibleStep ==
  ASSUME IInv, NEW j \in Jobs, Step(j)
  PROVE  /\ Visible \subseteq Part
         /\ ~Iceberg => Visible = files /\ Visible' = files'
         /\ Iceberg => /\ \E s \in snapshots : Visible = s.parts
                       /\ Commit(j) => Visible' = IF Appends THEN Visible \cup todo[j] ELSE todo[j]
                       /\ Upsert(j) => Visible' = {NextPart(j)} \cup
                                                    {p \in Visible : p.row # NextPart(j).row \/ p.job # j}
                       /\ ~Commit(j) /\ ~Upsert(j) => Visible' = Visible
<1> USE DEF IInv
<1>0. plan' = plan
  BY FaultsStay
<1>1. ~Iceberg => Visible = files /\ Visible' = files'
  BY <1>0 DEF Visible, Iceberg
<1>2. Iceberg => Visible = Named(Current) /\ Visible' = Named(Current)'
  BY <1>0 DEF Visible, Iceberg
<1>3. \E s \in snapshots : Named(Current) = s.parts
  BY CurrentIs
<1>4. Visible \subseteq Part
  BY <1>1, <1>2, <1>3 DEF TypeOK, Snapshot
<1>5. Commit(j) => Named(Current)' = IF Appends THEN Named(Current) \cup todo[j] ELSE todo[j]
  <2> SUFFICES ASSUME Commit(j) PROVE Named(Current)' = IF Appends THEN Named(Current) \cup todo[j] ELSE todo[j]
    OBVIOUS
  <2> PICK parts \in SUBSET Part : CommitTo(j, parts) /\ parts = IF Appends THEN Named(base[j]) \cup todo[j] ELSE todo[j]
    BY CommitNames
  <2>1. Named(Current)' = parts
    BY CommitIsNewest
  <2>2. base[j] = Current
    BY DEF CommitTo
  <2> QED
    BY <2>1, <2>2
<1>6. Upsert(j) => Named(Current)' = {NextPart(j)} \cup
                                       {p \in Named(Current) : p.row # NextPart(j).row \/ p.job # j}
  <2> SUFFICES ASSUME Upsert(j)
               PROVE  Named(Current)' = {NextPart(j)} \cup
                                          {p \in Named(Current) : p.row # NextPart(j).row \/ p.job # j}
    OBVIOUS
  <2> PICK parts \in SUBSET Part :
        /\ CommitTo(j, parts)
        /\ parts = {NextPart(j)} \cup {p \in Named(base[j]) : p.row # NextPart(j).row \/ p.job # j}
    BY CommitNames
  <2>1. Named(Current)' = parts
    BY CommitIsNewest
  <2>2. base[j] = Current
    BY DEF CommitTo
  <2> QED
    BY <2>1, <2>2
<1>7. ~Commit(j) /\ ~Upsert(j) => Named(Current)' = Named(Current)
  <2>1. Expire(j) => Named(Current)' = Named(Current)
    BY ExpireKeepsNewest
  <2>2. ~Commit(j) /\ ~Upsert(j) /\ ~Expire(j) => snapshots' = snapshots
    BY DEF Step, FilesStep, TakeBackFile, TakenBack, WriteIntent, Move, MoveCopies, Appended, Replace,
           MarkComplete, ListSnapshots, ListingFails, MarkingFails, DeleteSnapshot, Pruned,
           IcebergStep, Upserted, DeleteUnreferenced, ExpiryFails,
           Arrive, Start, Prepared, Write, Record, Fail, Abort, CloseFails, Kill, tableVars
  <2>3. snapshots' = snapshots => Named(Current)' = Named(Current)
    BY DEF Named, Current
  <2> QED
    BY <2>1, <2>2, <2>3
<1> QED
  BY <1>1, <1>2, <1>3, <1>4, <1>5, <1>6, <1>7

LEMMA SnapshotsStep ==
  ASSUME IInv, NEW j \in Jobs, Step(j)
  PROVE  /\ \A s \in snapshots' : s \in snapshots \/ ((Commit(j) \/ Upsert(j)) /\ s.parts = Visible')
         /\ Commit(j) \/ Upsert(j) => Iceberg
<1> USE DEF IInv
<1>1. Commit(j) \/ Upsert(j) => Iceberg
  BY DEF Commit, Upsert, PlanInv, Iceberg
<1>2. CASE Commit(j) \/ Upsert(j)
  <2> PICK parts \in SUBSET Part : CommitTo(j, parts)
    BY <1>2, CommitNames
  <2>1. Named(Current)' = parts /\ \A s \in snapshots' : s \in snapshots \/ s.parts = parts
    BY CommitIsNewest
  <2>2. Visible' = Named(Current)'
    BY <1>1, <1>2, FaultsStay DEF Visible, Iceberg
  <2> QED
    BY <1>1, <1>2, <2>1, <2>2
<1>3. ~Commit(j) /\ ~Upsert(j) => snapshots' \subseteq snapshots
  <2>1. Expire(j) => snapshots' \subseteq snapshots
    BY ExpireKeepsNewest
  <2> QED
    BY <2>1
    DEF Step, FilesStep, TakeBackFile, TakenBack, WriteIntent, Move, MoveCopies, Appended, Replace,
           MarkComplete, ListSnapshots, ListingFails, MarkingFails, DeleteSnapshot, Pruned,
           IcebergStep, Upserted, DeleteUnreferenced, ExpiryFails,
           Arrive, Start, Prepared, Write, Record, Fail, Abort, CloseFails, Kill, tableVars
<1> QED
  BY <1>1, <1>2, <1>3

LEMMA AboutToCommit ==
  ASSUME IInv, NEW j \in Jobs, Step(j), NEW k \in Jobs, pc'[k] = "commit"
  PROVE  todo'[k] \subseteq files'
<1> USE DEF IInv, TypeOK, Goto
<1>1. CASE pc[k] = "commit" /\ todo'[k] = todo[k]
  <2> SUFFICES ASSUME NEW p \in todo[k], p \notin files' PROVE FALSE
    BY <1>1
  <2>1. p \in files \ files' /\ p.job = k /\ p.run = run[k] /\ Iceberg /\ plan \notin {"append", "overwrite", "singleFile"}
    BY <1>1 DEF WholeInv, AttemptInv, PlanInv, Iceberg
  <2>2. p \in before[j] \/ (pc[j] = "abort" /\ p \in todo[j])
    BY <2>1, LostParts
  <2>3. p \notin Committed
    BY <1>1, <2>1 DEF KnownInv
  <2>4. p \notin before[j]
    BY <2>3 DEF Committed
  <2>5. p \in todo[j] => k = j
    BY <2>1 DEF AttemptInv
  <2> QED
    BY <1>1, <2>2, <2>4, <2>5
<1>2. CASE k # j
  BY <1>1, <1>2, RunsKept
<1>3. CASE k = j /\ Write(j)
  BY <1>3, LakeAssumption DEF Write, Iceberg, Plan, Appends
<1>4. CASE k = j /\ ~Write(j)
  <2>1. ~FilesStep(j)
    BY <1>4 DEF FilesStep, TakeBackFile, TakenBack, WriteIntent, Move, MoveCopies, Appended, Replace,
         MarkComplete, ListSnapshots, ListingFails, MarkingFails, DeleteSnapshot, Pruned, procVars, PlanInv
  <2>2. ~IcebergStep(j)
    BY <1>4 DEF IcebergStep, Commit, Upsert, Upserted, Expire, DeleteUnreferenced, ExpiryFails
  <2>3. Arrive(j) => pc[j] = "commit" /\ todo' = todo
    BY <1>4 DEF Arrive, procVars
  <2>4. ~(Start(j) \/ Prepared(j) \/ Fail(j) \/ Record(j) \/ Abort(j) \/ CloseFails(j) \/ Kill(j))
    BY <1>4 DEF Start, Prepared, Fail, Record, Abort, CloseFails, Kill, Over
  <2> QED
    BY <1>1, <1>4, <2>1, <2>2, <2>3, <2>4 DEF Step
<1> QED
  BY <1>2, <1>3, <1>4

LEMMA WholeStep == ASSUME IInv, NEW j \in Jobs, Step(j) PROVE WholeInv'
<1> USE DEF IInv, TypeOK
<1>1. ASSUME NEW s \in snapshots', NEW p \in s.parts, p.run \notin spoiled' PROVE p \in files'
  <2>0. p.run \notin spoiled /\ \A t \in snapshots : p \in t.parts => p \in files
    BY <1>1, FaultsStay DEF WholeInv
  <2>1. CASE s \in snapshots
    <3> SUFFICES ASSUME p \notin files' PROVE FALSE
      OBVIOUS
    <3>1. p \in files \ files' /\ p \in Referenced /\ Iceberg
      BY <1>1, <2>0, <2>1 DEF Referenced, PlanInv
    <3>2. pc[j] = "abort" /\ p \in todo[j]
      BY <3>1, LostParts DEF Iceberg
    <3>3. p.run = run[j] /\ p \in Committed
      BY <3>1, <3>2 DEF AttemptInv, Committed
    <3>4. run[j] \in spoiled
      BY <3>2, <3>3 DEF KnownInv
    <3> QED
      BY <2>0, <3>3, <3>4
  <2>2. CASE s \notin snapshots
    <3>1. (Commit(j) \/ Upsert(j)) /\ s.parts = Visible' /\ Iceberg
      BY <2>2, SnapshotsStep
    <3>2. p \in Visible => p \in files
      BY <2>0, <3>1, VisibleStep
    <3>3. CASE Commit(j)
      <4>1. files' = files /\ todo[j] \subseteq files
        BY <3>3 DEF Commit, WholeInv
      <4> QED
        BY <1>1, <3>1, <3>2, <3>3, <4>1, VisibleStep
    <3>4. CASE Upsert(j)
      <4>1. files' = files \cup {NextPart(j)}
        BY <3>4 DEF Upsert
      <4> QED
        BY <1>1, <3>1, <3>2, <3>4, <4>1, VisibleStep
    <3> QED
      BY <3>1, <3>3, <3>4
  <2> QED
    BY <2>1, <2>2
<1> QED
  BY <1>1, AboutToCommit DEF WholeInv

(* A part that has a row for good gives it up only to another part with    *)
(* the same row.                                                           *)
LEMMA SafeStays ==
  ASSUME IInv, NEW j \in Jobs, Step(j), Incremental,
         NEW p \in Visible \cap files, \A i \in intents : p \notin i.parts,
         p \notin todo[j] \cup moved[j] \/ pc[j] \notin {"abort", "intent"}
  PROVE  Safe(p.job, p.row)'
<1> USE DEF IInv, TypeOK
<1>0. plan \in {"append", "icebergAppend", "icebergUpsert"} /\ plan' = plan
  BY FaultsStay DEF Incremental, Appends
<1>1. p \in files'
  <2> SUFFICES ASSUME p \notin files' PROVE FALSE
    OBVIOUS
  <2>1. CASE Iceberg
    <3>1. p \in Referenced
      BY <2>1, VisibleStep DEF Referenced
    <3>2. \A i \in intents : FALSE
      BY <2>1 DEF PlanInv, Iceberg
    <3>3. pc[j] = "abort" /\ p \in todo[j]
      BY <1>0, <2>1, <3>1, LostParts DEF Iceberg
    <3> QED
      BY <3>3
  <2>2. CASE ~Iceberg
    <3>1. \/ \E i \in Interrupted(j) : p \in i.parts
          \/ pc[j] = "abort" /\ p \in moved[j]
      BY <1>0, <2>2, LostParts DEF Iceberg
    <3> QED
      BY <3>1 DEF Interrupted
  <2> QED
    BY <2>1, <2>2
<1>2. \A i \in intents' : p \notin i.parts
  <2>1. CASE WriteIntent(j)
    <3>1. intents' = intents \cup {[job |-> j, run |-> run[j], parts |-> todo[j]]} /\ pc[j] = "intent"
      BY <2>1 DEF WriteIntent
    <3> QED
      BY <3>1
  <2>2. FilesStep(j) /\ ~WriteIntent(j) => intents' \subseteq intents
    BY DEF FilesStep, TakeBackFile, TakenBack, Move, MoveCopies, Appended, Replace,
           MarkComplete, ListSnapshots, ListingFails, MarkingFails, DeleteSnapshot, Pruned, tableVars
  <2>3. IcebergStep(j) => intents' = intents
    BY DEF IcebergStep, Commit, Upsert, Upserted, Expire, DeleteUnreferenced, ExpiryFails, tableVars
  <2>4. Abort(j) => intents' \subseteq intents
    BY DEF Abort
  <2>5. ~WriteIntent(j) => intents' \subseteq intents
    BY <2>2, <2>3, <2>4 DEF Step, Arrive, Start, Prepared, Write, Record, Fail, CloseFails, Kill, tableVars
  <2> QED
    BY <2>1, <2>5
<1>3. CASE ~Upsert(j)
  <2>1. Commit(j) => Appends
    BY <1>0 DEF Commit, PlanInv, Appends
  <2>2. p \in Visible'
    BY <1>1, <1>3, <2>1, VisibleStep
  <2> QED
    BY <1>1, <1>2, <2>2 DEF Safe
<1>4. CASE Upsert(j)
  <2> DEFINE q == NextPart(j)
  <2>1. /\ files' = files \cup {q} /\ q \in todo[j] /\ intents' = intents
        /\ pc[j] = "upsert"
    BY <1>4, NextIsOfTodo DEF Upsert
  <2>2. Iceberg /\ q.job = j /\ intents' = {}
    BY <2>1 DEF AttemptInv, PlanInv, Iceberg
  <2>3. Visible' = {q} \cup {o \in Visible : o.row # q.row \/ o.job # j}
    BY <1>4, <2>2, VisibleStep
  <2> HIDE DEF q
  <2>4. CASE p.row # q.row \/ p.job # j
    BY <1>1, <1>2, <2>3, <2>4 DEF Safe
  <2>5. CASE p.row = q.row /\ p.job = j
    BY <2>1, <2>2, <2>3, <2>5 DEF Safe
  <2> QED
    BY <2>4, <2>5
<1> QED
  BY <1>3, <1>4

(* The rows a job has recorded stay safe whatever any job does; and so do  *)
(* those its attempt has, but for the steps of its own by which it fails.  *)
LEMMA SafeRows ==
  ASSUME IInv, NEW j \in Jobs, Step(j), Incremental, NEW k \in Jobs, NEW n \in Nat, Safe(k, n)
  PROVE  /\ n <= watermark[k] => Safe(k, n)'
         /\ k # j => Safe(k, n)'
         /\ pc[j] \notin {"abort", "intent"} => Safe(k, n)'
         /\ Safe(k, n)' \/ \E p \in todo[j] \cup moved[j] : p.row = n
<1>1. PICK p \in Visible \cap files : p.job = k /\ p.row = n /\ \A i \in intents : p \notin i.parts
  BY DEF Safe
<1>2. (p \notin todo[j] \cup moved[j] \/ pc[j] \notin {"abort", "intent"}) => Safe(k, n)'
  <2>1. (p \notin todo[j] \cup moved[j] \/ pc[j] \notin {"abort", "intent"}) => Safe(p.job, p.row)'
    BY <1>1, SafeStays
  <2>2. Safe(p.job, p.row)' => Safe(k, n)'
    BY <1>1 DEF Safe
  <2> QED
    BY <2>1, <2>2
<1>3. p \in todo[j] \cup moved[j] => k = j /\ watermark[j] < n
  BY <1>1 DEF IInv, AttemptInv
<1>4. watermark[j] \in Nat
  BY LakeAssumption DEF IInv, TypeOK, Row
<1> QED
  BY <1>1, <1>2, <1>3, <1>4

LEMMA RecordedAreSafe ==
  ASSUME IInv, NEW j \in Jobs, Step(j), Incremental, NEW k \in Jobs, NEW n \in 1..watermark'[k]
  PROVE  Safe(k, n)'
<1> USE DEF IInv, TypeOK
<1>0. n \in Nat /\ n <= watermark'[k] /\ 1 <= n
  <2>1. watermark'[k] \in Nat
    BY TypeStep, LakeAssumption DEF Row
  <2> QED
    BY <2>1
<1>1. CASE watermark'[k] = watermark[k]
  <2>1. Safe(k, n)
    BY <1>1 DEF CoverInv
  <2> QED
    BY <1>0, <1>1, <2>1, SafeRows
<1>2. CASE watermark'[k] # watermark[k]
  <2>1. k = j
    BY <1>2, RunsKept
  <2>2. Record(j)
    <3>1. FilesStep(j) => watermark' = watermark
      BY DEF FilesStep, TakeBackFile, TakenBack, WriteIntent, Move, MoveCopies, Appended, Replace,
             MarkComplete, ListSnapshots, ListingFails, MarkingFails, DeleteSnapshot, Pruned
    <3>2. IcebergStep(j) => watermark' = watermark
      BY DEF IcebergStep, Commit, Upsert, Upserted, Expire, DeleteUnreferenced, ExpiryFails
    <3> QED
      BY <1>2, <3>1, <3>2 DEF Step, Arrive, Start, Prepared, Write, Fail, Abort, CloseFails, Kill
  <2>3. pc[j] = "record" /\ watermark'[j] = high[j]
    BY <1>2, <2>1, <2>2 DEF Record
  <2>4. Safe(k, n)
    BY <2>1, <2>3 DEF CoverInv
  <2> QED
    BY <1>0, <2>3, <2>4, SafeRows
<1> QED
  BY <1>1, <1>2

LEMMA WrittenAreTodo ==
  ASSUME IInv, NEW j \in Jobs, Write(j), Incremental, NEW n \in 1..high'[j]
  PROVE  /\ n \in Nat
         /\ Safe(j, n)' \/ \E p \in todo'[j] : p.row = n
         /\ PartsOf(j) = {} => Safe(j, n)'
<1> USE DEF IInv, TypeOK
<1>1. /\ todo'[j] = PartsOf(j) /\ high'[j] = Max({p.row : p \in PartsOf(j)} \cup {0})
      /\ pc[j] = "write"
  BY DEF Write
<1>2. high'[j] \in Nat
  BY TypeStep, LakeAssumption DEF Row, Step
<1>3. n \in Nat /\ n >= 1
  BY <1>2
<1>4. n <= watermark[j] \/ \E p \in PartsOf(j) : p.row = n
  BY <1>1, PartsWritten
<1>5. watermark[j] \in Nat
  BY LakeAssumption DEF Row
<1>6. n <= watermark[j] => Safe(j, n)'
  <2>1. n <= watermark[j] => Safe(j, n)
    BY <1>3, <1>5 DEF CoverInv
  <2> QED
    BY <1>3, <2>1, SafeRows DEF Step
<1> QED
  BY <1>1, <1>3, <1>4, <1>6

LEMMA PendingAreHeld ==
  ASSUME IInv, NEW j \in Jobs, Step(j), Incremental, NEW k \in Jobs,
         pc'[k] \in {"intent", "move", "commit", "upsert"}, NEW n \in 1..high'[k]
  PROVE  Safe(k, n)' \/ \E p \in todo'[k] \cup moved'[k] : p.row = n
<1> USE DEF IInv, TypeOK, Goto
<1>0. n \in Nat
  BY TypeStep, LakeAssumption DEF Row
<1>1. CASE k # j
  <2>1. UNCHANGED <<pc[k], todo[k], moved[k], high[k]>>
    BY <1>1, RunsKept
  <2>2. Safe(k, n) \/ \E p \in todo[k] \cup moved[k] : p.row = n
    BY <2>1 DEF CoverInv
  <2>3. Safe(k, n) => Safe(k, n)'
    BY <1>0, <1>1, SafeRows
  <2> QED
    BY <2>1, <2>2, <2>3
<1>2. CASE k = j /\ Write(j)
  BY <1>2, WrittenAreTodo
<1>3. CASE k = j /\ Upsert(j)
  <2> DEFINE q == NextPart(j)
  <2>1. /\ todo' = [todo EXCEPT ![j] = @ \ {q}] /\ files' = files \cup {q} /\ q \in todo[j]
        /\ pc[j] = "upsert" /\ UNCHANGED <<moved, high, intents>>
    BY <1>3, NextIsOfTodo DEF Upsert
  <2>2. q.job = j /\ intents = {} /\ Iceberg
    BY <2>1 DEF AttemptInv, PlanInv, Iceberg
  <2>3. q \in Visible'
    BY <1>3, <2>2, VisibleStep
  <2> HIDE DEF q
  <2>4. n = q.row => Safe(j, n)'
    BY <2>1, <2>2, <2>3 DEF Safe
  <2>5. Safe(j, n) => Safe(j, n)'
    BY <1>0, <2>1, SafeRows
  <2>6. Safe(j, n) \/ \E p \in todo[j] \cup moved[j] : p.row = n
    BY <1>3, <2>1 DEF CoverInv
  <2> QED
    BY <1>3, <2>1, <2>4, <2>5, <2>6
<1>4. CASE k = j /\ ~Write(j) /\ ~Upsert(j)
  <2>1. FilesStep(j) => /\ pc[j] \in {"intent", "move"} /\ high' = high
                        /\ todo[j] \cup moved[j] \subseteq todo'[j] \cup moved'[j]
    <3>1. CASE Move(j)
      <4>1. /\ todo' = [todo EXCEPT ![j] = @ \ {NextPart(j)}] /\ moved' = [moved EXCEPT ![j] = @ \cup {NextPart(j)}]
            /\ pc[j] = "move" /\ high' = high
        BY <3>1 DEF Move
      <4> QED
        BY <4>1
    <3> QED
      BY <1>4, <3>1 DEF FilesStep, TakeBackFile, TakenBack, WriteIntent, MoveCopies, Appended, Replace,
         MarkComplete, ListSnapshots, ListingFails, MarkingFails, DeleteSnapshot, Pruned, procVars, PlanInv
  <2>2. ~IcebergStep(j)
    BY <1>4 DEF IcebergStep, Commit, Upserted, Expire, DeleteUnreferenced, ExpiryFails
  <2>3. Arrive(j) => pc' = pc /\ UNCHANGED <<todo, moved, high>>
    BY DEF Arrive, procVars
  <2>4. ~(Start(j) \/ Prepared(j) \/ Fail(j) \/ Record(j) \/ Abort(j) \/ CloseFails(j) \/ Kill(j))
    BY <1>4 DEF Start, Prepared, Fail, Record, Abort, CloseFails, Kill, Over
  <2>5. /\ pc[j] \in {"intent", "move", "commit", "upsert"} /\ high' = high
        /\ todo[j] \cup moved[j] \subseteq todo'[j] \cup moved'[j]
    BY <1>4, <2>1, <2>2, <2>3, <2>4 DEF Step
  <2>6. Safe(j, n) \/ \E p \in todo[j] \cup moved[j] : p.row = n
    BY <1>4, <2>5 DEF CoverInv
  <2>7. Safe(j, n) => Safe(j, n)' \/ \E p \in todo[j] \cup moved[j] : p.row = n
    BY <1>0, SafeRows
  <2> QED
    BY <1>4, <2>5, <2>6, <2>7
<1> QED
  BY <1>1, <1>2, <1>3, <1>4

LEMMA MovedAreThere ==
  ASSUME IInv, NEW j \in Jobs, Step(j), Incremental, NEW k \in Jobs, pc'[k] = "move"
  PROVE  moved'[k] \subseteq files'
<1> USE DEF IInv, TypeOK, Goto
<1>1. CASE pc[k] = "move" /\ moved'[k] = moved[k] /\ run'[k] = run[k]
  <2> SUFFICES ASSUME NEW p \in moved[k], p \notin files' PROVE FALSE
    BY <1>1
  <2>1. p \in files \ files' /\ p.job = k /\ p.run = run[k] /\ plan = "append"
    BY <1>1 DEF CoverInv, AttemptInv, PlanInv, Incremental, Appends
  <2>2. \/ TakeBackFile(j) /\ \E i \in Interrupted(j) : p \in i.parts
        \/ pc[j] = "abort" /\ p \in moved[j]
    BY <2>1, LostParts DEF Iceberg
  <2>3. CASE TakeBackFile(j) /\ \E i \in Interrupted(j) : p \in i.parts
    BY <2>1, <2>3 DEF Interrupted, KnownInv
  <2>4. CASE pc[j] = "abort" /\ p \in moved[j]
    BY <1>1, <2>1, <2>4 DEF AttemptInv
  <2> QED
    BY <2>2, <2>3, <2>4
<1>2. CASE k # j
  BY <1>1, <1>2, RunsKept
<1>3. CASE k = j /\ Move(j)
  <2>1. /\ files' = files \cup {NextPart(j)} /\ moved'[j] = moved[j] \cup {NextPart(j)} /\ pc[j] = "move"
    BY <1>3 DEF Move
  <2> QED
    BY <1>3, <2>1 DEF CoverInv
<1>4. CASE k = j /\ (Write(j) \/ WriteIntent(j))
  BY <1>4 DEF Write, WriteIntent, procVars, AttemptInv
<1>5. CASE k = j /\ ~Move(j) /\ ~Write(j) /\ ~WriteIntent(j)
  <2>1. FilesStep(j) => pc[j] = "move" /\ UNCHANGED <<run, moved>>
    BY <1>5 DEF FilesStep, TakeBackFile, TakenBack, MoveCopies, Appended, Replace,
         MarkComplete, ListSnapshots, ListingFails, MarkingFails, DeleteSnapshot, Pruned, procVars
  <2>2. ~IcebergStep(j)
    BY <1>5 DEF IcebergStep, Commit, Upsert, Upserted, Expire, DeleteUnreferenced, ExpiryFails
  <2>3. Arrive(j) => pc[j] = "move" /\ UNCHANGED <<run, moved>>
    BY <1>5 DEF Arrive, procVars
  <2>4. ~(Start(j) \/ Prepared(j) \/ Fail(j) \/ Record(j) \/ Abort(j) \/ CloseFails(j) \/ Kill(j))
    BY <1>5 DEF Start, Prepared, Fail, Record, Abort, CloseFails, Kill, Over
  <2> QED
    BY <1>1, <1>5, <2>1, <2>2, <2>3, <2>4 DEF Step
<1> QED
  BY <1>2, <1>3, <1>4, <1>5

LEMMA PublishedAreSafe ==
  ASSUME IInv, NEW j \in Jobs, Step(j), Incremental, NEW k \in Jobs,
         pc'[k] \in {"expire", "delete", "record"}, NEW n \in 1..high'[k]
  PROVE  Safe(k, n)'
<1> USE DEF IInv, TypeOK, Goto
<1>0. n \in Nat
  BY TypeStep, LakeAssumption DEF Row
<1>1. CASE pc[k] \in {"expire", "delete", "record"} /\ high'[k] = high[k]
  <2>1. Safe(k, n)
    BY <1>1 DEF CoverInv
  <2> QED
    BY <1>0, <1>1, <2>1, SafeRows
<1>2. CASE k # j
  BY <1>1, <1>2, RunsKept
<1>3. CASE k = j /\ Write(j)
  <2>1. PartsOf(j) = {}
    BY <1>3, LakeAssumption DEF Write, Plan, Incremental, Appends
  <2> QED
    BY <1>3, <2>1, WrittenAreTodo
<1>4. CASE k = j /\ Appended(j)
  <2>1. /\ pc[j] = "move" /\ todo[j] = {} /\ files' = files /\ high' = high /\ plan = "append"
        /\ intents' = {i \in intents : i.run # run[j]}
    BY <1>4 DEF Appended, procVars
  <2>2. moved[j] \subseteq files /\ (Safe(j, n) \/ \E p \in moved[j] : p.row = n)
    BY <1>4, <2>1 DEF CoverInv
  <2>3. \A p \in moved[j] : p.job = j /\ \A i \in intents' : p \notin i.parts
    BY <2>1 DEF AttemptInv, KnownInv
  <2>4. Visible' = files'
    BY <2>1, VisibleStep DEF Iceberg
  <2>5. Safe(j, n) => Safe(j, n)'
    BY <1>0, <2>1, SafeRows
  <2> QED
    BY <1>4, <2>1, <2>2, <2>3, <2>4, <2>5 DEF Safe
<1>5. CASE k = j /\ Commit(j)
  <2>1. pc[j] = "commit" /\ UNCHANGED <<files, intents, high>>
    BY <1>5 DEF Commit
  <2>2. Iceberg /\ Appends /\ intents = {} /\ moved[j] = {}
    BY <2>1 DEF PlanInv, Iceberg, Incremental, Appends
  <2>3. todo[j] \subseteq files' /\ todo[j] \subseteq Visible'
    BY <1>5, <2>1, <2>2, VisibleStep DEF WholeInv
  <2>4. Safe(j, n) \/ \E p \in todo[j] : p.row = n
    BY <1>5, <2>1, <2>2 DEF CoverInv
  <2>5. Safe(j, n) => Safe(j, n)'
    BY <1>0, <2>1, SafeRows
  <2>6. \A p \in todo[j] : p.job = j
    BY DEF AttemptInv
  <2> QED
    BY <1>5, <2>1, <2>2, <2>3, <2>4, <2>5, <2>6 DEF Safe
<1>6. CASE k = j /\ Upserted(j)
  <2>1. pc[j] = "upsert" /\ todo[j] = {} /\ high' = high
    BY <1>6 DEF Upserted, procVars
  <2>2. moved[j] = {}
    BY <2>1 DEF PlanInv, Iceberg
  <2>3. Safe(j, n)
    BY <1>6, <2>1, <2>2 DEF CoverInv
  <2> QED
    BY <1>0, <1>6, <2>1, <2>3, SafeRows
<1>7. CASE k = j /\ ~Write(j) /\ ~Appended(j) /\ ~Commit(j) /\ ~Upserted(j)
  <2>1. ~FilesStep(j)
    BY <1>7 DEF FilesStep, TakeBackFile, TakenBack, WriteIntent, Move, MoveCopies, Replace,
         MarkComplete, ListSnapshots, ListingFails, MarkingFails, DeleteSnapshot, Pruned, procVars, PlanInv, Incremental, Appends
  <2>2. IcebergStep(j) => pc[j] \in {"expire", "delete"} /\ high' = high
    BY <1>7 DEF IcebergStep, Upsert, Expire, DeleteUnreferenced, ExpiryFails, procVars
  <2>3. Arrive(j) => pc' = pc /\ high' = high
    BY DEF Arrive, procVars
  <2>4. ~(Start(j) \/ Prepared(j) \/ Fail(j) \/ Record(j) \/ Abort(j) \/ CloseFails(j) \/ Kill(j))
    BY <1>7 DEF Start, Prepared, Fail, Record, Abort, CloseFails, Kill, Over
  <2> QED
    BY <1>1, <1>7, <2>1, <2>2, <2>3, <2>4 DEF Step
<1> QED
  BY <1>2, <1>3, <1>4, <1>5, <1>6, <1>7

LEMMA CoverStep == ASSUME IInv, NEW j \in Jobs, Step(j) PROVE CoverInv'
<1>1. Incremental' = Incremental
  BY FaultsStay DEF Incremental, Appends
<1> QED
  BY <1>1, RecordedAreSafe, PendingAreHeld, MovedAreThere, PublishedAreSafe DEF CoverInv

-------------------------------------------------------------------------------
(* Appended once                                                           *)

Putright == faults \cap {"copied", "unread", "unrecorded", "unanswered"} = {}

LEMMA PutrightBefore == ASSUME NEW j \in Jobs, Step(j), Putright' PROVE Putright
  BY FaultsStay DEF Putright

(* What comes into sight is what the attempt itself publishes. *)
LEMMA NewlyVisible ==
  ASSUME IInv, NEW j \in Jobs, Step(j), Appends, Putright', NEW p \in Visible' \ Visible
  PROVE  /\ p \in todo[j]
         /\ \/ Move(j) /\ p = NextPart(j) /\ plan = "append"
            \/ Commit(j) /\ Iceberg /\ pc'[j] = "expire"
<1> USE DEF IInv, TypeOK
<1>1. CASE Iceberg
  <2>1. Commit(j)
    <3>1. ~Upsert(j)
      BY DEF Upsert, PlanInv, Appends
    <3> QED
      BY <1>1, <3>1, VisibleStep
  <2>2. p \in todo[j]
    BY <1>1, <2>1, VisibleStep
  <2>3. pc'[j] = "expire"
    BY <2>1 DEF Commit, Goto, Putright
  <2> QED
    BY <1>1, <2>1, <2>2, <2>3
<1>2. CASE ~Iceberg
  <2>1. p \in files' \ files /\ plan = "append"
    BY <1>2, VisibleStep DEF Appends, Iceberg
  <2>2. Move(j)
    <3>1. FilesStep(j) => Move(j)
      BY <2>1 DEF FilesStep, TakeBackFile, TakenBack, WriteIntent, MoveCopies, Appended, Replace, PlanInv,
         MarkComplete, ListSnapshots, ListingFails, MarkingFails, DeleteSnapshot, Pruned, tableVars, Putright
    <3>2. ~IcebergStep(j)
      BY <1>2 DEF IcebergStep, Commit, Upsert, Upserted, Expire, DeleteUnreferenced, ExpiryFails, PlanInv, Iceberg, tableVars
    <3>3. ~Write(j)
      BY <1>2, <2>1 DEF Write
    <3> QED
      BY <2>1, <3>1, <3>2, <3>3 DEF Step, Arrive, Start, Prepared, Record, Fail, Abort, CloseFails, Kill, tableVars
  <2>3. p = NextPart(j) /\ p \in todo[j]
    BY <2>1, <2>2, NextIsOfTodo DEF Move
  <2> QED
    BY <2>1, <2>2, <2>3
<1> QED
  BY <1>1, <1>2

LEMMA SamePart ==
  ASSUME NEW p \in Part, NEW q \in Part, p.job = q.job, p.run = q.run, p.row = q.row
  PROVE  p = q
  BY DEF Part

(* A part in sight that has the row of one about to be published is it. *)
LEMMA NoneBefore ==
  ASSUME IInv, NEW j \in Jobs, pc[j] \in {"move", "commit"}, Appends, Putright,
         NEW p \in todo[j], NEW q \in Visible, p.job = q.job, p.row = q.row
  PROVE  p = q
<1> USE DEF IInv, TypeOK
<1>1. p \in Part /\ q \in Part
  <2>1. q \in Part
    BY CurrentIs DEF Visible, Snapshot
  <2> QED
    BY <2>1
<1>2. p.job = j /\ p.run = run[j] /\ watermark[j] < p.row
  BY DEF AttemptInv, Incremental
<1>3. PICK i \in intents : q \in i.parts
  BY <1>2 DEF OnceInv, Putright
<1>4. i.job = j /\ pc[j] = "move" /\ q.run = i.run
  <2>1. i.job = q.job /\ q.run = i.run
    BY <1>3 DEF KnownInv
  <2>2. plan = "append"
    BY <1>3 DEF PlanInv
  <2>3. pc[j] # "commit"
    BY <2>2 DEF PlanInv
  <2> QED
    BY <1>2, <2>1, <2>3
<1>5. i.run = run[j]
  BY <1>4 DEF OnceInv, Interrupted, Putright
<1> QED
  BY <1>1, <1>2, <1>4, <1>5, SamePart

LEMMA StillOnce ==
  ASSUME IInv, NEW j \in Jobs, Step(j), Appends, Putright',
         NEW p \in Visible', NEW q \in Visible', p.job = q.job, p.row = q.row
  PROVE  p = q
<1>1. Putright
  BY PutrightBefore
<1>2. Move(j) \/ Commit(j) => pc[j] \in {"move", "commit"}
  BY DEF Move, Commit
<1>3. CASE p \in Visible /\ q \in Visible
  BY <1>1, <1>3 DEF IInv, OnceInv, Putright
<1>4. CASE p \in Visible /\ q \notin Visible
  BY <1>1, <1>2, <1>4, NewlyVisible, NoneBefore
<1>5. CASE p \notin Visible /\ q \in Visible
  BY <1>1, <1>2, <1>5, NewlyVisible, NoneBefore
<1>6. CASE p \notin Visible /\ q \notin Visible
  <2>1. p \in todo[j] /\ q \in todo[j]
    BY <1>6, NewlyVisible
  <2>2. p \in Part /\ q \in Part /\ p.run = q.run
    BY <2>1 DEF IInv, TypeOK, AttemptInv
  <2> QED
    BY <2>2, SamePart
<1> QED
  BY <1>3, <1>4, <1>5, <1>6

LEMMA SeenHaveRuns == ASSUME IInv, NEW p \in Visible PROVE p \in Part /\ p.run \in Nat /\ p.run # 0 /\ p.run <= runs
<1> USE DEF IInv, TypeOK
<1>1. CASE Iceberg
  <2>1. PICK s \in snapshots : Named(Current) = s.parts
    BY CurrentIs
  <2>2. p \in Committed /\ p \in Part
    BY <1>1, <2>1 DEF Visible, Committed, Referenced, Snapshot
  <2> QED
    BY <2>2 DEF KnownInv, Part, Run
<1>2. CASE ~Iceberg
  BY <1>2 DEF Visible, KnownInv, Part, Run
<1> QED
  BY <1>1, <1>2

LEMMA WhileRunning ==
  ASSUME IInv, NEW j \in Jobs, Step(j), run'[j] # 0
  PROVE  /\ moved[j] \subseteq moved'[j]
         /\ Write(j) \/ high'[j] = high[j]
         /\ (Start(j) /\ run'[j] = runs + 1) \/ run'[j] = run[j]
<1> USE DEF IInv, TypeOK
<1>1. FilesStep(j) => moved[j] \subseteq moved'[j] /\ UNCHANGED <<high, run>>
  BY DEF FilesStep, TakeBackFile, TakenBack, WriteIntent, Move, MoveCopies, Appended, Replace,
         MarkComplete, ListSnapshots, ListingFails, MarkingFails, DeleteSnapshot, Pruned, procVars
<1>2. IcebergStep(j) => UNCHANGED <<moved, high, run>>
  BY DEF IcebergStep, Commit, Upsert, Upserted, Expire, DeleteUnreferenced, ExpiryFails, procVars
<1>3. Arrive(j) \/ Prepared(j) \/ Fail(j) => UNCHANGED <<moved, high, run>>
  BY DEF Arrive, Prepared, Fail, procVars
<1>4. Start(j) => UNCHANGED <<moved, high>> /\ run'[j] = runs + 1
  BY DEF Start
<1>5. Write(j) => UNCHANGED <<moved, run>>
  BY DEF Write
<1>6. ~(Record(j) \/ Abort(j) \/ CloseFails(j) \/ Kill(j))
  BY DEF Record, Abort, CloseFails, Kill, Over
<1> QED
  BY <1>1, <1>2, <1>3, <1>4, <1>5, <1>6 DEF Step

LEMMA WatermarkGrows ==
  ASSUME IInv, NEW j \in Jobs, Step(j), Incremental, NEW k \in Jobs
  PROVE  watermark[k] <= watermark'[k] /\ watermark[k] \in Nat /\ watermark'[k] \in Nat
<1> USE DEF IInv, TypeOK
<1>1. watermark[k] \in Nat /\ high[k] \in Nat /\ watermark'[k] \in Nat
  BY TypeStep, LakeAssumption DEF Row
<1>2. k # j => watermark'[k] = watermark[k]
  BY RunsKept
<1>3. CASE Record(j) /\ k = j
  <2>1. watermark' = watermark \/ (high[j] # 0 /\ watermark' = [watermark EXCEPT ![j] = high[j]])
    BY <1>3 DEF Record
  <2> QED
    BY <1>1, <1>3, <2>1 DEF AttemptInv
<1>4. CASE ~Record(j)
  <2>1. FilesStep(j) => UNCHANGED watermark
    BY DEF FilesStep, TakeBackFile, TakenBack, WriteIntent, Move, MoveCopies, Appended, Replace,
         MarkComplete, ListSnapshots, ListingFails, MarkingFails, DeleteSnapshot, Pruned
  <2>2. IcebergStep(j) => UNCHANGED watermark
    BY DEF IcebergStep, Commit, Upsert, Upserted, Expire, DeleteUnreferenced, ExpiryFails
  <2>3. UNCHANGED watermark
    BY <1>4, <2>1, <2>2 DEF Step, Arrive, Start, Prepared, Write, Fail, Abort, CloseFails, Kill
  <2> QED
    BY <1>1, <2>3
<1> QED
  BY <1>1, <1>2, <1>3, <1>4

(* A _PUBLISHING file goes when its parts have, or when its append is made. *)
LEMMA IntentsLeft ==
  ASSUME IInv, NEW j \in Jobs, Step(j), NEW i \in intents, i \notin intents'
  PROVE  \/ TakenBack(j) /\ i \in Interrupted(j) /\ i.parts \cap files = {}
         \/ Appended(j) /\ i.run = run[j]
         \/ Abort(j) /\ i.run = run[j] /\ files' \cap moved[j] = {}
<1>1. FilesStep(j) => TakenBack(j) \/ Appended(j)
  BY DEF FilesStep, TakeBackFile, WriteIntent, Move, MoveCopies, Replace,
         MarkComplete, ListSnapshots, ListingFails, MarkingFails, DeleteSnapshot, Pruned, tableVars
<1>2. ~IcebergStep(j)
  BY DEF IcebergStep, Commit, Upsert, Upserted, Expire, DeleteUnreferenced, ExpiryFails, tableVars
<1>3. TakenBack(j) \/ Appended(j) \/ Abort(j)
  BY <1>1, <1>2 DEF Step, Arrive, Start, Prepared, Write, Record, Fail, CloseFails, Kill, tableVars
<1>4. TakenBack(j) => i \in Interrupted(j) /\ i.parts \cap files = {}
  BY DEF TakenBack
<1>5. Appended(j) => i.run = run[j]
  BY DEF Appended
<1>6. Abort(j) => i.run = run[j] /\ files' \cap moved[j] = {}
  <2> SUFFICES ASSUME Abort(j) PROVE i.run = run[j] /\ files' \cap moved[j] = {}
    OBVIOUS
  <2>1. PICK gone : files' = files \ gone /\ moved[j] \subseteq gone /\ intents' = {l \in intents : l.run # run[j]}
    BY DEF Abort
  <2> QED
    BY <2>1
<1> QED
  BY <1>3, <1>4, <1>5, <1>6

LEMMA IntentsNew ==
  ASSUME IInv, NEW j \in Jobs, Step(j), NEW i \in intents', i \notin intents
  PROVE  WriteIntent(j) /\ i.job = j /\ i.run = run[j]
<1>1. FilesStep(j) => WriteIntent(j)
  BY DEF FilesStep, TakeBackFile, TakenBack, Move, MoveCopies, Appended, Replace,
         MarkComplete, ListSnapshots, ListingFails, MarkingFails, DeleteSnapshot, Pruned, tableVars
<1>2. ~IcebergStep(j)
  BY DEF IcebergStep, Commit, Upsert, Upserted, Expire, DeleteUnreferenced, ExpiryFails, tableVars
<1>3. ~Abort(j)
  BY DEF Abort
<1> QED
  BY <1>1, <1>2, <1>3 DEF Step, Arrive, Start, Prepared, Write, Record, Fail, CloseFails, Kill, WriteIntent, tableVars

LEMMA StillMoved ==
  ASSUME IInv, NEW j \in Jobs, Step(j), Putright', plan = "append",
         NEW k \in Jobs, NEW p \in files', p.run = run'[k]
  PROVE  p \in moved'[k]
<1> USE DEF IInv, TypeOK
<1>0. Appends /\ ~Iceberg /\ p \in Visible' /\ Putright
  BY PutrightBefore, VisibleStep DEF Appends, Iceberg
<1>1. CASE p \in files
  <2>1. p.run # 0 /\ p.run \in Nat /\ p.run <= runs /\ p \in Visible
    BY <1>0, <1>1, SeenHaveRuns, VisibleStep
  <2>2. run'[k] = run[k]
    <3>1. k = j => ~Start(j) \/ run'[j] # runs + 1
      BY <2>1, <1>1
    <3> QED
      BY <2>1, <3>1, RunsKept, WhileRunning
  <2>3. p \in moved[k]
    BY <1>0, <1>1, <2>2 DEF OnceInv, Putright
  <2> QED
    BY <2>1, <2>3, RunsKept, WhileRunning
<1>2. CASE p \notin files
  <2>1. Move(j) /\ p = NextPart(j) /\ p \in todo[j]
    BY <1>0, <1>2, NewlyVisible, VisibleStep
  <2>2. p.run = run[j] /\ run' = run /\ p \in moved'[j] /\ run[j] # 0
    BY <2>1 DEF Move, AttemptInv
  <2>3. run[k] = run[j]
    BY <2>2
  <2>4. k = j
    BY <2>2, <2>3 DEF AttemptInv
  <2> QED
    BY <2>2, <2>4
<1> QED
  BY <1>1, <1>2

LEMMA StillWithin ==
  ASSUME IInv, NEW j \in Jobs, Step(j), Appends, Putright', NEW p \in Visible', p.run = run'[p.job]
  PROVE  p.row <= high'[p.job]
<1> USE DEF IInv, TypeOK
<1>1. CASE p \in Visible
  <2>1. p \in Part /\ p.run # 0 /\ p.run \in Nat /\ p.run <= runs /\ p.job \in Jobs
    BY <1>1, SeenHaveRuns DEF Part
  <2>2. run'[p.job] = run[p.job]
    <3>1. p.job = j => run'[j] # runs + 1
      BY <2>1
    <3> QED
      BY <2>1, <3>1, RunsKept, WhileRunning
  <2>3. p.row <= high[p.job]
    BY <1>1, <2>2, PutrightBefore DEF OnceInv, Putright
  <2>4. ~(p.job = j /\ Write(j))
    <3> SUFFICES ASSUME p.job = j, Write(j) PROVE FALSE
      OBVIOUS
    <3>1. pc[j] = "write" /\ p.run = run[j]
      BY <2>2 DEF Write
    <3>2. CASE Iceberg
      <4>1. p \in Committed
        BY <1>1, <3>2, VisibleStep DEF Committed, Referenced
      <4> QED
        BY <3>1, <4>1 DEF KnownInv
    <3>3. CASE ~Iceberg
      <4>1. plan = "append" /\ p \in files
        BY <1>1, <3>3, VisibleStep DEF Appends, Iceberg
      <4>2. p \in moved[j]
        BY <3>1, <4>1, PutrightBefore DEF OnceInv, Putright
      <4> QED
        BY <3>1, <4>2 DEF AttemptInv
    <3> QED
      BY <3>2, <3>3
  <2>5. high'[p.job] = high[p.job]
    BY <2>1, <2>4, RunsKept, WhileRunning
  <2> QED
    BY <2>3, <2>5
<1>2. CASE p \notin Visible
  <2>1. p \in todo[j] /\ (Move(j) \/ Commit(j))
    BY <1>2, NewlyVisible
  <2>2. high' = high /\ p.job = j /\ p.row <= high[j]
    BY <2>1 DEF Move, Commit, AttemptInv, Incremental
  <2> QED
    BY <2>2
<1> QED
  BY <1>1, <1>2

LEMMA StillListed ==
  ASSUME IInv, NEW j \in Jobs, Step(j), Appends, Putright', NEW p \in Visible', watermark'[p.job] < p.row
  PROVE  \/ \E i \in intents' : p \in i.parts
         \/ p.run = run'[p.job] /\ pc'[p.job] \in {"expire", "delete", "record"}
<1> USE DEF IInv, TypeOK, Goto
<1>0. Putright
  BY PutrightBefore
<1>1. CASE p \notin Visible
  <2>1. p \in todo[j]
    BY <1>1, NewlyVisible
  <2>2. p.job = j /\ p.run = run[j]
    BY <2>1 DEF AttemptInv
  <2>3. CASE Move(j)
    <3>1. pc[j] = "move" /\ intents' = intents
      BY <2>3 DEF Move
    <3> QED
      BY <1>0, <2>1, <3>1 DEF OnceInv, Putright
  <2>4. CASE Commit(j) /\ pc'[j] = "expire"
    BY <2>2, <2>4 DEF Commit
  <2> QED
    BY <1>1, <2>3, <2>4, NewlyVisible
<1>2. CASE p \in Visible
  <2>1. p \in Part /\ p.job \in Jobs /\ p.row \in Nat /\ p.run # 0
    BY <1>2, SeenHaveRuns, LakeAssumption DEF Part, Row
  <2>2. watermark[p.job] < p.row
    <3>1. watermark[p.job] <= watermark'[p.job] /\ watermark[p.job] \in Nat /\ watermark'[p.job] \in Nat
      BY <2>1, WatermarkGrows DEF Incremental
    <3> QED
      BY <2>1, <3>1
  <2>3. CASE \E i \in intents : p \in i.parts
    <3>1. PICK i \in intents : p \in i.parts
      BY <2>3
    <3>2. p.job = i.job /\ p.run = i.run /\ plan = "append"
      BY <3>1 DEF KnownInv, PlanInv
    <3>3. p \in files /\ p \in files'
      BY <1>2, <3>2, VisibleStep DEF Iceberg
    <3>4. i \notin intents' => Appended(j) /\ p.run = run[j]
      <4>1. ~(i.parts \cap files = {})
        BY <3>1, <3>3
      <4>2. i.run = run[j] => p \in moved[j]
        BY <1>0, <3>2, <3>3, PutrightBefore DEF OnceInv, Putright, Appends
      <4> QED
        BY <3>1, <3>2, <3>3, <4>1, <4>2, IntentsLeft
    <3>5. Appended(j) /\ p.run = run[j] => p.job = j /\ p.run = run'[j] /\ pc'[j] = "record"
      <4>1. i.run = run[j] => i.job = j
        BY <3>1 DEF KnownInv
      <4>2. Appended(j) => faults' = faults \/ "unanswered" \in faults'
        BY DEF Appended
      <4> QED
        BY <3>2, <4>1, <4>2 DEF Appended, procVars, Putright
    <3> QED
      BY <3>1, <3>4, <3>5
  <2>4. CASE p.run = run[p.job] /\ pc[p.job] \in {"expire", "delete", "record"}
    <3>1. CASE p.job # j
      BY <2>1, <2>4, <3>1, RunsKept
    <3>2. CASE p.job = j
      <4>1. FilesStep(j) => FALSE
        BY <2>4, <3>2 DEF FilesStep, TakeBackFile, TakenBack, WriteIntent, Move, MoveCopies, Appended, Replace,
         MarkComplete, ListSnapshots, ListingFails, MarkingFails, DeleteSnapshot, Pruned
      <4>2. IcebergStep(j) => run' = run /\ pc'[j] \in {"expire", "delete", "record"}
        BY <2>4, <3>2 DEF IcebergStep, Commit, Upsert, Upserted, Expire, DeleteUnreferenced, ExpiryFails, procVars
      <4>3. Arrive(j) => run' = run /\ pc' = pc
        BY DEF Arrive, procVars
      <4>4. ~Record(j)
        <5> SUFFICES ASSUME Record(j) PROVE FALSE
          OBVIOUS
        <5>1. p.row <= high[j]
          BY <1>0, <1>2, <2>4, <3>2 DEF OnceInv, Putright
        <5>2. high[j] # 0
          BY <2>1, <2>2, <3>2, <5>1, LakeAssumption DEF Row
        <5>3. watermark' = [watermark EXCEPT ![j] = high[j]]
          BY <5>2 DEF Record, Incremental, Putright
        <5>4. watermark'[j] = high[j] /\ high[j] \in Nat
          BY <5>3, LakeAssumption DEF Row
        <5> QED
          BY <2>1, <3>2, <5>1, <5>4
      <4>5. ~(CloseFails(j) \/ Kill(j))
        BY <2>4, <3>2 DEF CloseFails, Kill, Unrecorded, Putright
      <4>6. ~(Start(j) \/ Prepared(j) \/ Write(j) \/ Fail(j) \/ Abort(j))
        BY <2>4, <3>2 DEF Start, Prepared, Write, Fail, Abort
      <4> QED
        BY <2>4, <3>2, <4>1, <4>2, <4>3, <4>4, <4>5, <4>6 DEF Step
    <3> QED
      BY <3>1, <3>2
  <2> QED
    BY <1>0, <1>2, <2>2, <2>3, <2>4 DEF OnceInv, Putright
<1> QED
  BY <1>1, <1>2

LEMMA NoneInterrupted ==
  ASSUME IInv, NEW j \in Jobs, Step(j), Appends, Putright',
         NEW k \in Jobs, pc'[k] \in {"write", "intent", "move", "record"}
  PROVE  Interrupted(k)' = {}
<1> USE DEF IInv, TypeOK, Goto
<1>0. plan' = plan /\ Putright
  BY FaultsStay, PutrightBefore
<1>1. CASE plan # "append"
  <2>1. intents' = {}
    BY <1>0, <1>1, PlanStep DEF PlanInv
  <2> QED
    BY <2>1 DEF Interrupted
<1>2. CASE plan = "append" /\ Interrupted(k) = {} /\ run'[k] = run[k]
  <2> SUFFICES ASSUME NEW i \in intents', i.job = k, i.run # run'[k] PROVE FALSE
    BY DEF Interrupted
  <2>1. i \notin intents
    BY <1>2 DEF Interrupted
  <2>2. i.job = j /\ i.run = run[j]
    BY <2>1, IntentsNew
  <2> QED
    BY <1>2, <2>2
<1>3. CASE plan = "append" /\ pc[k] \in {"write", "intent", "move", "record"} /\ run'[k] = run[k]
  BY <1>0, <1>2, <1>3 DEF OnceInv, Putright
<1>4. CASE plan = "append" /\ k # j
  BY <1>3, <1>4, RunsKept
<1>5. CASE plan = "append" /\ k = j /\ Prepared(j)
  BY <1>2, <1>5 DEF Prepared, Putright
<1>6. CASE plan = "append" /\ k = j /\ ~Prepared(j)
  <2>1. FilesStep(j) => run' = run /\ pc[j] \in {"intent", "move"}
    BY <1>6 DEF FilesStep, TakeBackFile, TakenBack, WriteIntent, Move, MoveCopies, Appended, Replace, PlanInv,
         MarkComplete, ListSnapshots, ListingFails, MarkingFails, DeleteSnapshot, Pruned, procVars
  <2>2. ~IcebergStep(j)
    BY <1>6 DEF IcebergStep, Commit, Upsert, Upserted, Expire, DeleteUnreferenced, ExpiryFails, PlanInv, Iceberg
  <2>3. Arrive(j) => run' = run /\ pc' = pc
    BY DEF Arrive, procVars
  <2>4. Write(j) => run' = run /\ pc[j] = "write"
    BY DEF Write
  <2>5. ~(Start(j) \/ Fail(j) \/ Record(j) \/ Abort(j) \/ CloseFails(j) \/ Kill(j))
    BY <1>6 DEF Start, Fail, Record, Abort, CloseFails, Kill, Over
  <2> QED
    BY <1>3, <1>6, <2>1, <2>2, <2>3, <2>4, <2>5 DEF Step
<1> QED
  BY <1>1, <1>4, <1>5, <1>6

LEMMA StillIntended ==
  ASSUME IInv, NEW j \in Jobs, Step(j), Appends, Putright', NEW k \in Jobs, pc'[k] = "move"
  PROVE  \E i \in intents' : i.run = run'[k] /\ todo'[k] \cup moved'[k] \subseteq i.parts
<1> USE DEF IInv, TypeOK, Goto
<1>0. plan = "append" /\ Putright
  BY FaultsStay, PutrightBefore, PlanStep DEF PlanInv, Appends
<1>1. CASE pc[k] = "move"
  <2>1. PICK i \in intents : i.run = run[k] /\ todo[k] \cup moved[k] \subseteq i.parts
    BY <1>0, <1>1 DEF OnceInv, Putright, Appends
  <2>2. i.job = k /\ i.run # 0
    BY <2>1 DEF KnownInv, Listing, Run
  <2>3. i.run = run[j] => j = k
    <3>1. run[k] = run[j] /\ run[k] # 0 => k = j
      BY DEF AttemptInv
    <3> QED
      BY <2>1, <2>2, <3>1
  <2>4. i \in intents'
    <3>1. ~(TakenBack(j) /\ i \in Interrupted(j))
      BY <2>1, <2>2 DEF Interrupted
    <3>2. ~((Appended(j) \/ Abort(j)) /\ j = k)
      BY <1>1 DEF Appended, Abort, Over
    <3> QED
      BY <2>1, <2>3, <3>1, <3>2, IntentsLeft
  <2>5. run'[k] = run[k] /\ todo'[k] \cup moved'[k] \subseteq todo[k] \cup moved[k]
    <3>1. CASE k # j
      BY <3>1, RunsKept
    <3>2. CASE k = j /\ Move(j)
      <4>1. NextPart(j) \in todo[j]
        BY <3>2, NextIsOfTodo DEF Move
      <4> QED
        BY <3>2, <4>1 DEF Move
    <3>3. CASE k = j /\ ~Move(j)
      <4>1. FilesStep(j) => FALSE
        BY <1>1, <3>3 DEF FilesStep, TakeBackFile, TakenBack, WriteIntent, MoveCopies, Appended, Replace,
         MarkComplete, ListSnapshots, ListingFails, MarkingFails, DeleteSnapshot, Pruned
      <4>2. ~IcebergStep(j)
        BY <1>1, <3>3 DEF IcebergStep, Commit, Upsert, Upserted, Expire, DeleteUnreferenced, ExpiryFails
      <4>3. ~(Start(j) \/ Prepared(j) \/ Write(j) \/ Fail(j) \/ Record(j) \/ Abort(j) \/ CloseFails(j) \/ Kill(j))
        BY <1>1, <3>3 DEF Start, Prepared, Write, Fail, Record, Abort, CloseFails, Kill, Over
      <4> QED
        BY <3>3, <4>1, <4>2, <4>3 DEF Step, Arrive, procVars
    <3> QED
      BY <3>1, <3>2, <3>3
  <2> QED
    BY <2>1, <2>4, <2>5
<1>2. CASE pc[k] # "move"
  <2>1. k = j
    BY <1>2, RunsKept
  <2>2. WriteIntent(j)
    <3>1. FilesStep(j) => WriteIntent(j)
      BY <1>2, <2>1 DEF FilesStep, TakeBackFile, TakenBack, Move, MoveCopies, Appended, Replace,
         MarkComplete, ListSnapshots, ListingFails, MarkingFails, DeleteSnapshot, Pruned
    <3>2. ~IcebergStep(j)
      BY <1>2, <2>1 DEF IcebergStep, Commit, Upsert, Upserted, Expire, DeleteUnreferenced, ExpiryFails
    <3>3. ~Write(j)
      BY <1>0, <1>2, <2>1 DEF Write, Appends
    <3> QED
      BY <1>2, <2>1, <3>1, <3>2, <3>3 DEF Step, Arrive, Start, Prepared, Fail, Record, Abort, CloseFails, Kill, Over
  <2>3. moved[j] = {}
    BY <2>2 DEF WriteIntent, AttemptInv
  <2>4. run' = run /\ todo' = todo /\ moved' = moved
    BY <2>2 DEF WriteIntent, procVars
  <2>5. [job |-> j, run |-> run[j], parts |-> todo[j]] \in intents'
    BY <2>2 DEF WriteIntent
  <2> QED
    BY <2>1, <2>3, <2>4, <2>5
<1> QED
  BY <1>1, <1>2

LEMMA OnceStep == ASSUME IInv, NEW j \in Jobs, Step(j) PROVE OnceInv'
<1>1. Appends' = Appends /\ plan' = plan
  BY FaultsStay DEF Appends
<1> SUFFICES ASSUME Appends, Putright'
             PROVE  /\ (\A p, q \in Visible : p.job = q.job /\ p.row = q.row => p = q)'
                    /\ (\A p \in Visible :
                         /\ watermark[p.job] < p.row =>
                              \/ \E i \in intents : p \in i.parts
                              \/ p.run = run[p.job] /\ pc[p.job] \in {"expire", "delete", "record"}
                         /\ p.run = run[p.job] => p.row <= high[p.job])'
                    /\ (\A k \in Jobs :
                         /\ plan = "append" => \A p \in files : p.run = run[k] => p \in moved[k]
                         /\ pc[k] \in {"write", "intent", "move", "record"} => Interrupted(k) = {}
                         /\ pc[k] = "move" => \E i \in intents : i.run = run[k] /\ todo[k] \cup moved[k] \subseteq i.parts)'
  BY <1>1 DEF OnceInv, Putright
<1>2. \A p, q \in Visible' : p.job = q.job /\ p.row = q.row => p = q
  BY StillOnce
<1>3. \A p \in Visible' : watermark'[p.job] < p.row =>
        \/ \E i \in intents' : p \in i.parts
        \/ p.run = run'[p.job] /\ pc'[p.job] \in {"expire", "delete", "record"}
  BY StillListed
<1>4. \A p \in Visible' : p.run = run'[p.job] => p.row <= high'[p.job]
  BY StillWithin
<1>5. \A k \in Jobs : plan' = "append" => \A p \in files' : p.run = run'[k] => p \in moved'[k]
  BY <1>1, StillMoved
<1>6. \A k \in Jobs : pc'[k] \in {"write", "intent", "move", "record"} => Interrupted(k)' = {}
  BY NoneInterrupted
<1>7. \A k \in Jobs : pc'[k] = "move" =>
        \E i \in intents' : i.run = run'[k] /\ todo'[k] \cup moved'[k] \subseteq i.parts
  BY StillIntended
<1> QED
  BY <1>2, <1>3, <1>4, <1>5, <1>6, <1>7

-------------------------------------------------------------------------------
(* Theorems                                                                *)

LEMMA StepInv == IInv /\ [Next]_vars => IInv'
<1> SUFFICES ASSUME IInv, [Next]_vars PROVE IInv'
  OBVIOUS
<1>1. ASSUME NEW j \in Jobs, Step(j) PROVE IInv'
  BY <1>1, TypeStep, PlanStep, AttemptStep, KnownStep, NewestStep, StaleStep, MarkStep, WholeStep, CoverStep, OnceStep
     DEF IInv
<1>2. CASE UNCHANGED vars
  <2>1. /\ Visible' = Visible /\ Complete' = Complete /\ Committed' = Committed /\ Iceberg' = Iceberg
        /\ Appends' = Appends /\ Incremental' = Incremental
        /\ \A k \in Jobs : Interrupted(k)' = Interrupted(k) /\ \A n : Safe(k, n)' = Safe(k, n)
    BY <1>2 DEF vars, tableVars, procVars, Visible, Complete, Committed, Referenced, Iceberg, Appends,
                Incremental, Interrupted, Safe, Named, Current
  <2>2. TypeOK' /\ PlanInv' /\ AttemptInv' /\ KnownInv' /\ NewestInv'
    BY <1>2, <2>1 DEF IInv, TypeOK, PlanInv, AttemptInv, KnownInv, NewestInv, vars, tableVars, procVars
  <2>3. StaleInv' /\ MarkInv' /\ WholeInv'
    BY <1>2, <2>1 DEF IInv, StaleInv, MarkInv, WholeInv, vars, tableVars, procVars
  <2>4. CoverInv'
    BY <1>2, <2>1 DEF IInv, CoverInv, vars, tableVars, procVars
  <2>5. OnceInv'
    BY <1>2, <2>1 DEF IInv, OnceInv, vars, tableVars, procVars
  <2> QED
    BY <2>2, <2>3, <2>4, <2>5 DEF IInv
<1> QED
  BY <1>1, <1>2 DEF Next, Step

(* What the store, the catalog and the jobs' processes hold of each        *)
(* attempt, at every step of all of them: the inductive invariant.         *)
THEOREM Invariance == Spec => []IInv
  BY InitInv, StepInv, PTL DEF Spec

(* A table of files or of Iceberg keeps every row up to the watermark each *)
(* job recorded, for any number of jobs and attempts: a failure, a kill or *)
(* an expiry of another attempt never takes back what one completed.       *)
THEOREM NothingIsLost == Spec => []NothingLost
<1>1. IInv => NothingLost
  BY DEF IInv, CoverInv, NothingLost, Safe
<1> QED
  BY <1>1, Invariance, PTL

(* A row is in the table once, wherever each of the attempts to append it  *)
(* failed or was killed, but for the faults that no attempt can see.       *)
THEOREM RowsAreAppendedOnce == Spec => []AppendedOnce
<1>1. IInv => AppendedOnce
  BY DEF IInv, OnceInv, AppendedOnce
<1> QED
  BY <1>1, Invariance, PTL

LEMMA NewestIsLast == ASSUME TypeOK, NEW r \in Newest(1) PROVE ~\E c \in Complete : r < c
<1> DEFINE Newer == {q \in Complete : q > r}
<1>1. r \in Complete /\ Cardinality(Newer) < 1
  BY DEF Newest
<1>2. Complete \subseteq 1..MaxRuns /\ MaxRuns \in Nat
  BY LakeAssumption DEF TypeOK, Complete, Listing, Run
<1>3. IsFiniteSet(1..MaxRuns)
  BY <1>2, FS_Interval
<1>4. IsFiniteSet(Newer)
  BY <1>2, <1>3, FS_Subset
<1>5. Newer = {}
  <2> HIDE DEF Newer
  <2>1. Cardinality(Newer) \in Nat
    BY <1>4, FS_CardinalityType
  <2>2. Cardinality(Newer) = 0
    BY <1>1, <2>1
  <2> QED
    BY <1>4, <2>2, FS_EmptySet
<1> QED
  BY <1>1, <1>2, <1>5

(* A reader finds every part of the newest complete snapshot, and of each  *)
(* Iceberg snapshot kept, whatever other attempts publish, prune, expire   *)
(* or leave half done, those included whose _SUCCESS was left by a write   *)
(* that raised or whose commit was made and raised: only the parts of such *)
(* an attempt itself may be missing, which took them back.                 *)
THEOREM SnapshotsAreWhole == Spec => []SnapshotsWhole
<1>1. IInv => SnapshotsWhole
  BY NewestIsLast DEF IInv, MarkInv, WholeInv, SnapshotsWhole
<1> QED
  BY <1>1, Invariance, PTL

LEMMA CurrentGrows == ASSUME IInv, NEW j \in Jobs, Step(j) PROVE Current' >= Current
<1>0. Current \in Nat
  BY CurrentIs DEF IInv
<1>1. CASE Commit(j)
  BY <1>0, <1>1, CommitNames, CommitIsNewest DEF IInv
<1>2. CASE Upsert(j)
  BY <1>0, <1>2, CommitNames, CommitIsNewest DEF IInv
<1>3. CASE Expire(j)
  BY <1>0, <1>3, ExpireKeepsNewest DEF IInv
<1>4. CASE ~Commit(j) /\ ~Upsert(j) /\ ~Expire(j)
  <2>1. FilesStep(j) => UNCHANGED snapshots
    BY DEF FilesStep, TakeBackFile, TakenBack, WriteIntent, Move, MoveCopies, Appended, Replace,
         MarkComplete, ListSnapshots, ListingFails, MarkingFails, DeleteSnapshot, Pruned, tableVars
  <2>2. Upserted(j) \/ DeleteUnreferenced(j) \/ ExpiryFails(j) => UNCHANGED snapshots
    BY DEF Upserted, DeleteUnreferenced, ExpiryFails, tableVars
  <2>3. UNCHANGED snapshots
    BY <1>4, <2>1, <2>2 DEF Step, IcebergStep, Arrive, Start, Prepared, Write, Record, Fail, Abort, CloseFails, Kill, tableVars
  <2> QED
    BY <1>0, <2>3 DEF Current
<1> QED
  BY <1>1, <1>2, <1>3, <1>4

(* No step of any attempt lets a reader fall back on an older snapshot:    *)
(* what is pruned has a newer one that is complete, and what expires is    *)
(* never the newest.                                                       *)
THEOREM NeverAnOlderOne == Spec => NeverOlder
<1> DEFINE A == /\ \A s \in success : \E t \in success' : t.run >= s.run
                /\ Current' >= Current
<1>1. IInv /\ [Next]_vars => [A]_vars
  <2> SUFFICES ASSUME IInv, NEW j \in Jobs, Step(j) PROVE A
    BY DEF Next, Step
  <2>1. \A s \in success : \E t \in success' : t.run >= s.run
    <3> TAKE s \in success
    <3>1. TypeOK /\ TypeOK'
      BY TypeStep DEF IInv
    <3>2. PICK d \in Complete' : s.run <= d
      BY CompleteKeeps DEF Complete
    <3>3. PICK t \in success' : t.run = d
      BY <3>2 DEF Complete
    <3> QED
      BY <3>1, <3>2, <3>3 DEF TypeOK, Listing, Run
  <2> QED
    BY <2>1, CurrentGrows
<1> QED
  BY <1>1, Invariance, PTL DEF Spec, NeverOlder

===============================================================================
