---------------------------- MODULE RunStateProofs ----------------------------
(***************************************************************************)
(* Theorems about RunState and Launcher, for any number of runs and jobs.  *)
(***************************************************************************)
EXTENDS Launcher, TLAPS

(* A run has its own locks only, all of them while its jobs run, and none  *)
(* before it starts.                                                       *)
HeldInv ==
  \A r \in Runs :
    /\ held[r] \subseteq Locks(r)
    /\ pc[r] = "none" => held[r] = {}
    /\ pc[r] = "running" => held[r] = Locks(r)

(* Two runs have no lock at once but the run lock, and that only if each   *)
(* named its jobs.                                                         *)
SharedInv ==
  \A r, q \in Runs : \A lock \in held[r] \cap held[q] :
    r # q => lock = RunLock /\ ~RunsEveryJob(r) /\ ~RunsEveryJob(q)

(* A job's process is one of its run's jobs, and outlives it only killed.  *)
AliveInv ==
  \A r \in Runs, j \in Jobs :
    Alive(r, j) => pc[r] \in {"running", "killed"} /\ j \in JobsOf(r)

(* What the writer of the file has loaded is what the file still holds.    *)
WriterInv ==
  /\ writing # {} => backend = "file"
  /\ \A r \in Runs, j \in Jobs : <<r, j>> \in writing => copy[r][j] = document

IInv == TypeOK /\ HeldInv /\ SharedInv /\ AliveInv /\ WriterInv /\ NoUpdateLost

-------------------------------------------------------------------------------
(* The invariant holds at first, and implies the properties                *)

LEMMA InitInv == Init => IInv
<1> SUFFICES ASSUME Init PROVE IInv
  OBVIOUS
<1> USE DEF Init
<1>1. TypeOK
  <2>1. Nothing \in Document
    BY RunStateAssumption DEF Nothing, Document, Runs
  <2>2. backend \in Backends
    BY RunStateAssumption
  <2> QED
    BY <2>1, <2>2 DEF TypeOK
<1>2. HeldInv /\ SharedInv /\ AliveInv
  BY DEF HeldInv, SharedInv, AliveInv, Alive
<1>3. WriterInv /\ NoUpdateLost
  BY DEF WriterInv, NoUpdateLost
<1> QED
  BY <1>1, <1>2, <1>3 DEF IInv

LEMMA InvImpliesJobsApart == IInv => JobsApart
<1> SUFFICES ASSUME IInv,
                    NEW r \in Runs, NEW q \in Runs, NEW j \in Jobs,
                    r # q, Alive(r, j), Alive(q, j),
                    pc[r] # "killed", pc[q] # "killed"
             PROVE FALSE
  BY DEF JobsApart
<1>1. pc[r] = "running" /\ pc[q] = "running" /\ j \in JobsOf(r) /\ j \in JobsOf(q)
  BY DEF IInv, AliveInv
<1>2. held[r] = Locks(r) /\ held[q] = Locks(q)
  BY <1>1 DEF IInv, HeldInv
<1>3. RunLock \in held[r] \cap held[q]
  BY <1>2 DEF Locks
<1>4. ~RunsEveryJob(r) /\ ~RunsEveryJob(q)
  BY <1>3 DEF IInv, SharedInv
<1>5. j \in held[r] \cap held[q]
  BY <1>1, <1>2, <1>4 DEF JobsOf, Locks
<1>6. j = RunLock
  BY <1>5 DEF IInv, SharedInv
<1> QED
  BY <1>6, RunStateAssumption DEF RunLock, Jobs

-------------------------------------------------------------------------------
(* Every step keeps it, part by part                                       *)

LEMMA RunTypes ==
  ASSUME TypeOK, NEW r \in Runs,
         Start(r) \/ RunStep(r) \/ KillRun(r)
  PROVE  TypeOK'
<1> USE DEF TypeOK, Goto, stateVars
<1>1. CASE Start(r)
  BY <1>1, RunStateAssumption DEF Start
<1>2. CASE TakeLock(r)
  <2> PICK lock \in NextLock(r) : held' = [held EXCEPT ![r] = @ \cup {lock}]
    BY <1>2 DEF TakeLock
  <2>1. lock \in Jobs \cup {RunLock}
    BY DEF NextLock, LocksLeft, Locks
  <2> QED
    BY <1>2, <2>1 DEF TakeLock
<1>3. CASE Refuse(r)
  BY <1>3 DEF Refuse
<1>4. CASE GiveUp(r)
  BY <1>4 DEF GiveUp
<1>5. CASE ReadState(r)
  BY <1>5 DEF ReadState
<1>6. CASE RunEnds(r)
  BY <1>6 DEF RunEnds
<1>7. CASE KillRun(r)
  BY <1>7 DEF KillRun
<1> QED
  BY <1>1, <1>2, <1>3, <1>4, <1>5, <1>6, <1>7 DEF RunStep

LEMMA JobTypes ==
  ASSUME TypeOK, NEW r \in Runs, NEW j \in Jobs,
         StartJob(r, j) \/ JobStep(r, j)
  PROVE  TypeOK'
<1> USE DEF TypeOK, stateVars
<1>1. Nothing \in Document /\ \A d \in Document : [d EXCEPT ![j] = r] \in Document
  BY RunStateAssumption DEF Nothing, Document, Runs
<1>2. CASE StartJob(r, j)
  BY <1>2 DEF StartJob
<1>3. CASE OpenState(r, j)
  BY <1>3 DEF OpenState
<1>4. CASE ReplaceState(r, j)
  BY <1>1, <1>4 DEF ReplaceState, Record, CloseState, Done
<1>5. CASE WriteFails(r, j)
  BY <1>1, <1>5 DEF WriteFails, CloseState, Done
<1>6. CASE UpsertState(r, j)
  BY <1>1, <1>6 DEF UpsertState, Record, Done
<1>7. CASE JobEnds(r, j)
  BY <1>1, <1>7 DEF JobEnds, CloseState, Done
<1> QED
  BY <1>2, <1>3, <1>4, <1>5, <1>6, <1>7 DEF JobStep

(* The locks, and the jobs' processes that are under them. *)
LEMMA RunLocks ==
  ASSUME IInv, TypeOK', NEW r \in Runs,
         Start(r) \/ RunStep(r) \/ KillRun(r)
  PROVE  HeldInv' /\ SharedInv' /\ AliveInv'
<1> USE DEF IInv, TypeOK, Goto, stateVars, HeldInv, SharedInv, AliveInv, Alive, JobsOf, Locks, RunsEveryJob
<1>1. CASE Start(r)
  BY <1>1 DEF Start
<1>2. CASE TakeLock(r)
  <2> PICK lock \in NextLock(r) : Free(lock, r) /\ held' = [held EXCEPT ![r] = @ \cup {lock}]
    BY <1>2 DEF TakeLock
  <2>1. lock \in Locks(r)
    BY DEF NextLock, LocksLeft
  <2>2. HeldInv' /\ AliveInv'
    BY <1>2, <2>1 DEF TakeLock
  <2>3. SharedInv'
    BY <1>2 DEF TakeLock, Free
  <2> QED
    BY <2>2, <2>3
<1>3. CASE Refuse(r)
  BY <1>3 DEF Refuse
<1>4. CASE GiveUp(r)
  BY <1>4 DEF GiveUp
<1>5. CASE ReadState(r)
  BY <1>5 DEF ReadState
<1>6. CASE RunEnds(r)
  BY <1>6 DEF RunEnds
<1>7. CASE KillRun(r)
  BY <1>7 DEF KillRun
<1> QED
  BY <1>1, <1>2, <1>3, <1>4, <1>5, <1>6, <1>7 DEF RunStep

LEMMA JobLocks ==
  ASSUME IInv, TypeOK', NEW r \in Runs, NEW j \in Jobs,
         StartJob(r, j) \/ JobStep(r, j)
  PROVE  HeldInv' /\ SharedInv' /\ AliveInv'
<1>1. UNCHANGED <<held, pc, selects>>
  BY DEF StartJob, JobStep, OpenState, ReplaceState, WriteFails, UpsertState, JobEnds
<1>2. HeldInv' /\ SharedInv'
  BY <1>1 DEF IInv, HeldInv, SharedInv, Locks, RunsEveryJob
<1>3. AliveInv'
  <2> USE DEF IInv, TypeOK, AliveInv, Alive, JobsOf, RunsEveryJob
  <2>1. CASE StartJob(r, j)
    BY <1>1, <2>1 DEF StartJob
  <2>2. CASE OpenState(r, j)
    BY <1>1, <2>2 DEF OpenState
  <2>3. CASE ReplaceState(r, j) \/ WriteFails(r, j) \/ UpsertState(r, j) \/ JobEnds(r, j)
    <3>1. Done(r, j)
      BY <2>3 DEF ReplaceState, WriteFails, UpsertState, JobEnds
    <3> HIDE <2>3
    <3>2. \A q \in Runs, k \in Jobs : process'[q][k] = "working" => process[q][k] = "working"
      BY <3>1 DEF Done
    <3> QED
      BY <1>1, <3>2
  <2> QED
    BY <2>1, <2>2, <2>3 DEF JobStep
<1> QED
  BY <1>2, <1>3

(* The state, under the file's lock. *)
LEMMA JobWrites ==
  ASSUME IInv, NEW r \in Runs, NEW j \in Jobs,
         StartJob(r, j) \/ JobStep(r, j)
  PROVE  WriterInv' /\ NoUpdateLost'
<1> USE DEF IInv, TypeOK, WriterInv, NoUpdateLost, stateVars
<1>1. CASE StartJob(r, j)
  BY <1>1 DEF StartJob
<1>2. CASE OpenState(r, j)
  BY <1>2 DEF OpenState
<1>3. CASE ReplaceState(r, j)
  <2>1. writing' = {}
    BY <1>3 DEF ReplaceState, CloseState
  <2>2. copy[r][j] = recorded
    BY <1>3 DEF ReplaceState
  <2> QED
    BY <1>3, <2>1, <2>2 DEF ReplaceState, Record
<1>4. CASE WriteFails(r, j) \/ JobEnds(r, j)
  BY <1>4 DEF WriteFails, JobEnds, CloseState
<1>5. CASE UpsertState(r, j)
  BY <1>5 DEF UpsertState, Record
<1> QED
  BY <1>1, <1>2, <1>3, <1>4, <1>5 DEF JobStep

LEMMA RunWrites ==
  ASSUME IInv, NEW r \in Runs,
         Start(r) \/ RunStep(r) \/ KillRun(r)
  PROVE  WriterInv' /\ NoUpdateLost'
<1>1. UNCHANGED <<stateVars, writing, copy>>
  BY DEF Start, RunStep, TakeLock, Refuse, GiveUp, ReadState, RunEnds, KillRun
<1> QED
  BY <1>1 DEF IInv, WriterInv, NoUpdateLost, stateVars

LEMMA StepInv == IInv /\ [Next]_vars => IInv'
<1> SUFFICES ASSUME IInv, [Next]_vars PROVE IInv'
  OBVIOUS
<1>1. CASE UNCHANGED vars
  BY <1>1 DEF vars, stateVars, IInv, TypeOK, HeldInv, SharedInv, AliveInv, WriterInv, NoUpdateLost,
              Alive, JobsOf, Locks, RunsEveryJob
<1>2. ASSUME NEW r \in Runs, Start(r) \/ RunStep(r) \/ KillRun(r)
      PROVE  IInv'
  BY <1>2, RunTypes, RunLocks, RunWrites DEF IInv
<1>3. ASSUME NEW r \in Runs, NEW j \in Jobs, StartJob(r, j) \/ JobStep(r, j)
      PROVE  IInv'
  BY <1>3, JobTypes, JobLocks, JobWrites DEF IInv
<1> QED
  BY <1>1, <1>2, <1>3 DEF Next, Progress

-------------------------------------------------------------------------------
(* Theorems                                                                *)

THEOREM Invariance == Spec => []IInv
  BY InitInv, StepInv, PTL DEF Spec

(* However many runs share the state, of whichever jobs, and wherever each *)
(* is killed: no job is loaded by two of them at once, an orphan's aside.  *)
THEOREM JobsAlwaysApart == Spec => []JobsApart
  BY Invariance, InvImpliesJobsApart, PTL

(* However many processes record at once, and wherever each is killed: the *)
(* state holds what was recorded last for every job.                       *)
THEOREM NoUpdateEverLost == Spec => []NoUpdateLost
<1>1. IInv => NoUpdateLost
  BY DEF IInv
<1> QED
  BY <1>1, Invariance, PTL

-------------------------------------------------------------------------------
(* Not all give up                                                         *)

(* The locks a run has come before those it still has to take, and a run   *)
(* that has ended has none.                                                *)
OrderInv ==
  \A r \in Runs :
    /\ \A lock \in held[r], left \in LocksLeft(r) : lock < left
    /\ pc[r] \in {"refused", "over", "killed"} => held[r] = {}

(* Until a run is over or killed: beside every run that was refused there  *)
(* is one that was not, with a lock at least as late as any the refused    *)
(* one has.  The run that stood in its way was in turn refused only by one *)
(* with a later lock, so that following them leads to a run still going.   *)
AheadInv ==
  \/ \E r \in Runs : pc[r] \in {"over", "killed"}
  \/ \A r \in Runs :
       pc[r] \in {"refusing", "refused"} =>
         \E p \in Runs : /\ pc[p] \in {"locking", "running"}
                         /\ \E last \in held[p] : \A lock \in held[r] : lock <= last

LEMMA LocksAreNumbers == TypeOK => \A r \in Runs : held[r] \subseteq Nat /\ LocksLeft(r) \subseteq Nat
<1> SUFFICES ASSUME TypeOK, NEW r \in Runs PROVE held[r] \subseteq Nat /\ LocksLeft(r) \subseteq Nat
  OBVIOUS
<1>1. Jobs \cup {RunLock} \subseteq Nat
  BY RunStateAssumption DEF Jobs, RunLock
<1>2. held[r] \subseteq Jobs \cup {RunLock} /\ selects[r] \subseteq Jobs
  BY DEF TypeOK
<1> QED
  BY <1>1, <1>2 DEF LocksLeft, Locks

LEMMA OrderStep == IInv /\ OrderInv /\ [Next]_vars => OrderInv'
<1> SUFFICES ASSUME IInv, OrderInv, [Next]_vars PROVE OrderInv'
  OBVIOUS
<1> USE DEF IInv, TypeOK, HeldInv, OrderInv, LocksLeft, Locks, Goto
<1>1. CASE UNCHANGED <<held, pc, selects>>
  BY <1>1
<1>2. ASSUME NEW r \in Runs, Start(r) PROVE OrderInv'
  BY <1>2 DEF Start
<1>3. ASSUME NEW r \in Runs, TakeLock(r) PROVE OrderInv'
  <2> PICK lock \in NextLock(r) : held' = [held EXCEPT ![r] = @ \cup {lock}]
    BY <1>3 DEF TakeLock
  <2>1. lock \in LocksLeft(r) /\ \A left \in LocksLeft(r) : lock <= left
    BY DEF NextLock
  <2>2. \A left \in LocksLeft(r)' : left \in LocksLeft(r) /\ left # lock
    BY <1>3 DEF TakeLock
  <2>3. lock \in Nat /\ \A left \in LocksLeft(r) : left \in Nat
    BY <2>1, LocksAreNumbers
  <2>4. \A left \in LocksLeft(r)' : lock < left
    <3> HIDE DEF IInv, TypeOK, HeldInv, OrderInv, LocksLeft, Locks, Goto
    <3>1. \A left \in LocksLeft(r)' : left \in Nat /\ lock <= left /\ left # lock
      BY <2>1, <2>2, <2>3
    <3>2. \A left \in Nat : lock <= left /\ left # lock => lock < left
      BY <2>3
    <3> QED
      BY <3>1, <3>2
  <2> QED
    BY <1>3, <2>2, <2>4 DEF TakeLock
<1>4. ASSUME NEW r \in Runs, Refuse(r) \/ ReadState(r) PROVE OrderInv'
  BY <1>4 DEF Refuse, ReadState
<1>5. ASSUME NEW r \in Runs, GiveUp(r) \/ RunEnds(r) \/ KillRun(r) PROVE OrderInv'
  <2>1. held' = [held EXCEPT ![r] = {}] /\ selects' = selects
    BY <1>5 DEF GiveUp, RunEnds, KillRun
  <2>2. \A q \in Runs \ {r} : pc'[q] = pc[q]
    BY <1>5 DEF GiveUp, RunEnds, KillRun
  <2> QED
    BY <2>1, <2>2
<1>6. ASSUME NEW r \in Runs, NEW j \in Jobs, StartJob(r, j) \/ JobStep(r, j)
      PROVE  UNCHANGED <<held, pc, selects>>
  BY <1>6 DEF StartJob, JobStep, OpenState, ReplaceState, WriteFails, UpsertState, JobEnds
<1>7. CASE UNCHANGED vars
  BY <1>1, <1>7 DEF vars
<1> HIDE DEF IInv, TypeOK, HeldInv, OrderInv, LocksLeft, Locks, Goto
<1> QED
  BY <1>1, <1>2, <1>3, <1>4, <1>5, <1>6, <1>7 DEF Next, Progress, RunStep

(* Who is in the way of a run's next lock has a later one than it has.     *)
LEMMA InTheWay ==
  ASSUME IInv, OrderInv, AheadInv, NEW r \in Runs, Refuse(r),
         ~ \E p \in Runs : pc[p] \in {"over", "killed"}
  PROVE  \E p \in Runs \ {r} : /\ pc[p] \in {"locking", "running"}
                               /\ \E last \in held[p] : \A lock \in held[r] : lock < last
<1> PICK next \in NextLock(r) : ~Free(next, r)
  BY DEF Refuse
<1>1. PICK q \in Runs \ {r} : next \in held[q]
  BY DEF Free
<1>2. \A lock \in held[r] : lock < next
  BY DEF OrderInv, NextLock
<1>3. CASE pc[q] \in {"locking", "running"}
  BY <1>1, <1>2, <1>3
<1>4. CASE pc[q] = "refusing"
  <2>1. PICK p \in Runs : /\ pc[p] \in {"locking", "running"}
                          /\ \E last \in held[p] : \A lock \in held[q] : lock <= last
    BY <1>4 DEF AheadInv
  <2>2. PICK last \in held[p] : \A lock \in held[q] : lock <= last
    BY <2>1
  <2>3. \A lock \in held[r] : lock < last
    BY <1>1, <1>2, <2>1, <2>2, LocksAreNumbers DEF IInv
  <2>4. p # r
    BY <2>2, <2>3, LocksAreNumbers DEF IInv
  <2> QED
    BY <2>1, <2>3, <2>4
<1>5. pc[q] \in {"locking", "running", "refusing"}
  BY <1>1 DEF IInv, TypeOK, HeldInv, OrderInv
<1> QED
  BY <1>3, <1>4, <1>5

LEMMA AheadStep == IInv /\ OrderInv /\ AheadInv /\ [Next]_vars => AheadInv'
<1> SUFFICES ASSUME IInv, OrderInv, AheadInv, [Next]_vars,
                    ~ \E p \in Runs : pc'[p] \in {"over", "killed"}
             PROVE  AheadInv'
  BY DEF AheadInv
<1> USE DEF IInv, TypeOK, Goto
<1>1. CASE UNCHANGED <<held, pc>>
  BY <1>1 DEF AheadInv
<1>2. ASSUME NEW r \in Runs, Start(r) \/ ReadState(r) PROVE AheadInv'
  BY <1>2 DEF Start, ReadState, AheadInv
<1>3. ASSUME NEW r \in Runs, TakeLock(r) PROVE AheadInv'
  <2> PICK lock \in NextLock(r) : held' = [held EXCEPT ![r] = @ \cup {lock}]
    BY <1>3 DEF TakeLock
  <2>1. pc[r] = "locking" /\ pc' = pc
    BY <1>3 DEF TakeLock
  <2>2. \A q \in Runs : held[q] \subseteq held'[q] /\ (q # r => held'[q] = held[q])
    OBVIOUS
  <2> QED
    BY <2>1, <2>2 DEF AheadInv
<1>4. ASSUME NEW r \in Runs, Refuse(r) PROVE AheadInv'
  <2>1. pc[r] = "locking" /\ pc' = [pc EXCEPT ![r] = "refusing"] /\ held' = held
    BY <1>4 DEF Refuse
  <2>2. ~ \E p \in Runs : pc[p] \in {"over", "killed"}
    BY <2>1
  <2>3. PICK p \in Runs \ {r} : /\ pc[p] \in {"locking", "running"}
                                /\ \E last \in held[p] : \A lock \in held[r] : lock < last
    BY <1>4, <2>2, InTheWay
  <2>4. PICK last \in held[p] : \A lock \in held[r] : lock < last
    BY <2>3
  <2> SUFFICES ASSUME NEW q \in Runs, pc'[q] \in {"refusing", "refused"}
               PROVE  \E s \in Runs : /\ pc'[s] \in {"locking", "running"}
                                      /\ \E l \in held[s] : \A lock \in held[q] : lock <= l
    BY <2>1 DEF AheadInv
  <2>5. CASE q = r
    BY <2>1, <2>3, <2>4, <2>5, LocksAreNumbers
  <2>6. CASE q # r
    <3>1. PICK s \in Runs : /\ pc[s] \in {"locking", "running"}
                            /\ \E l \in held[s] : \A lock \in held[q] : lock <= l
      BY <2>1, <2>2, <2>6 DEF AheadInv
    <3>2. CASE s # r
      BY <2>1, <3>1, <3>2
    <3>3. CASE s = r
      <4>1. \A lock \in held[q] : lock <= last
        BY <2>3, <2>4, <3>1, <3>3, LocksAreNumbers
      <4> QED
        BY <2>1, <2>3, <4>1
    <3> QED
      BY <3>2, <3>3
  <2> QED
    BY <2>5, <2>6
<1>5. ASSUME NEW r \in Runs, GiveUp(r) PROVE AheadInv'
  <2>1. pc[r] = "refusing" /\ pc' = [pc EXCEPT ![r] = "refused"] /\ held' = [held EXCEPT ![r] = {}]
    BY <1>5 DEF GiveUp
  <2> QED
    BY <2>1 DEF AheadInv
<1>6. ASSUME NEW r \in Runs, RunEnds(r) \/ KillRun(r) PROVE FALSE
  BY <1>6 DEF RunEnds, KillRun
<1>7. ASSUME NEW r \in Runs, NEW j \in Jobs, StartJob(r, j) \/ JobStep(r, j)
      PROVE  UNCHANGED <<held, pc>>
  BY <1>7 DEF StartJob, JobStep, OpenState, ReplaceState, WriteFails, UpsertState, JobEnds
<1> QED
  BY <1>1, <1>2, <1>3, <1>4, <1>5, <1>6, <1>7 DEF Next, Progress, RunStep, vars

(* However many runs get in one another's way, over whichever jobs: they   *)
(* do not all give up.                                                     *)
THEOREM SomeRunAlwaysGoesAhead == Spec => []SomeRunGoesAhead
<1>1. Init => OrderInv /\ AheadInv
  BY DEF Init, OrderInv, AheadInv
<1>2. IInv /\ AheadInv => SomeRunGoesAhead
  BY DEF IInv, TypeOK, AheadInv, SomeRunGoesAhead
<1> QED
  BY <1>1, <1>2, OrderStep, AheadStep, Invariance, PTL DEF Spec

-------------------------------------------------------------------------------
(* With Studio's records of the runs it starts                             *)

LEMMA StudioStep == [StudioNext]_allVars => [Next]_vars
  BY DEF StudioNext, allVars, Launch, Next, CommitRow, KeepHandle, Refresh, Restart, ReusePid

(* What Studio adds to the runs changes nothing of how they behave: its    *)
(* steps are a run's start or leave the runs as they are.                  *)
THEOREM StudioStartsRuns == StudioSpec => Init /\ [][Next]_vars
<1>1. StudioInit => Init
  BY DEF StudioInit
<1> QED
  BY <1>1, StudioStep, PTL DEF StudioSpec

(* A run that has ended stays so. *)
LEMMA EndedIsLast ==
  ASSUME [Next]_vars, NEW r \in Runs, TypeOK, Ended(r)
  PROVE  Ended(r)'
<1> USE DEF Ended, Goto, TypeOK
<1>1. CASE UNCHANGED vars
  BY <1>1 DEF vars
<1>2. ASSUME NEW q \in Runs, Start(q) \/ RunStep(q) \/ KillRun(q) PROVE Ended(r)'
  BY <1>2 DEF Start, RunStep, TakeLock, Refuse, GiveUp, ReadState, RunEnds, KillRun
<1>3. ASSUME NEW q \in Runs, NEW j \in Jobs, StartJob(q, j) \/ JobStep(q, j) PROVE Ended(r)'
  BY <1>3 DEF StartJob, JobStep, OpenState, ReplaceState, WriteFails, UpsertState, JobEnds
<1> QED
  BY <1>1, <1>2, <1>3 DEF Next, Progress

ShownInv == TypeOK /\ row \in [Runs -> {"none", "started", "ended", "endedUnseen"}] /\ ShownEndedIsEnded

LEMMA ShownStep ==
  ASSUME ShownInv, TypeOK', [StudioNext]_allVars
  PROVE  ShownInv'
<1> USE DEF ShownInv, ShownEndedIsEnded
<1>1. \A r \in Runs : Ended(r) => Ended(r)'
  BY StudioStep, EndedIsLast
<1>2. CASE UNCHANGED row
  BY <1>1, <1>2
<1>3. ASSUME NEW r \in Runs, CommitRow(r) PROVE ShownInv'
  BY <1>1, <1>3 DEF CommitRow
<1>4. ASSUME NEW r \in Runs, Refresh(r) PROVE ShownInv'
  <2>1. Ended(r)
    BY <1>4 DEF Refresh, PidAlive
  <2> QED
    BY <1>1, <1>4, <2>1 DEF Refresh
<1> QED
  BY <1>2, <1>3, <1>4 DEF StudioNext, allVars, studioVars, Launch, KeepHandle, Restart, ReusePid

(* A run is shown ended only once it is, whenever Studio restarts and      *)
(* whosever its process id is by then.                                     *)
THEOREM ShownEndedAlwaysIsEnded == StudioSpec => []ShownEndedIsEnded
<1>1. StudioInit => ShownInv
  <2>1. StudioInit => TypeOK
    BY InitInv DEF StudioInit, IInv
  <2> QED
    BY <2>1 DEF StudioInit, ShownInv, ShownEndedIsEnded
<1>2. IInv /\ [StudioNext]_allVars => IInv'
  BY StudioStep, StepInv
<1>3. ShownInv /\ TypeOK' /\ [StudioNext]_allVars => ShownInv'
  BY ShownStep
<1>4. IInv => TypeOK
  BY DEF IInv
<1>5. ShownInv => ShownEndedIsEnded
  BY DEF ShownInv
<1>6. StudioInit => IInv
  BY InitInv DEF StudioInit
<1> QED
  BY <1>1, <1>2, <1>3, <1>4, <1>5, <1>6, PTL DEF StudioSpec

===============================================================================
