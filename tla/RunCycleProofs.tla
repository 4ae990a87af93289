---------------------------- MODULE RunCycleProofs ----------------------------
(***************************************************************************)
(* That RunCycle keeps its safety properties and implements Schedule, for  *)
(* any jobs, predecessors, connections, limits, cores and workers.         *)
(*                                                                         *)
(* The properties are consequences of IInv, which is inductive.  Its parts *)
(* say how the graph, the loop's own sets and the jobs' processes agree at *)
(* each statement of the loop, and what takeReady has established about    *)
(* the jobs it has looked at.                                              *)
(***************************************************************************)
EXTENDS RunCycle, FiniteSetTheorems, WellFoundedInduction, TLAPS

DecidedJobs == DecidedAs(Statuses)

(* Every active job is not started, running or decided, and one of these.  *)
GraphInv ==
  /\ notStarted \cap running = {}
  /\ (notStarted \cup running) \cap DecidedJobs = {}
  /\ active = notStarted \cup running \cup DecidedJobs
  /\ \A j \in Jobs : \A s, t \in Statuses :
       Decision(j, s) \in outcomes /\ Decision(j, t) \in outcomes => s = t

(* The loop's processes are those of the graph's running jobs, but for the *)
(* jobs takeReady has chosen and the loop has yet to start.                *)
LoopInv ==
  /\ procs \subseteq running
  /\ pc \in {"check", "wait", "poll", "done", "sleep", "exited"} => running \subseteq procs
  /\ pc \in {"take", "start"} => running = procs \cup starting /\ procs \cap starting = {}
  /\ pc \in {"done", "sleep", "exited"} => notStarted = {} /\ running = {}
  /\ pc = "take" => scan \subseteq notStarted
  /\ pc = "poll" => toPoll \subseteq procs
  /\ pc = "aborted" => procs = {}

ProcInv == \A j \in Jobs : proc[j] \in {"none", "gone"} <=> j \notin procs

(* Takes never choose more jobs than there are slots.                      *)
SlotsInv ==
  /\ Cardinality(procs) <= Workers
  /\ pc \in {"take", "start"} => Cardinality(procs \cup starting) <= Workers

(* Nothing is reserved for a job that has no process yet.                  *)
ReservedInv ==
  /\ \A j \in notStarted : reserved[j] = 1
  /\ pc \in {"take", "start"} => \A j \in starting : reserved[j] = 1

PlacesInv ==
  \A alias \in Aliases :
    InUse(alias) <= Limit[alias] \/ \A j, k \in Users(alias) : j = k

(* Why a job takeReady passed over cannot start, S having the slots.       *)
Blocked(j, S) ==
  \/ Cardinality(S) >= Workers
  \/ ~(ActivePreds(j) \subseteq Completed)
  \/ ~ConnectionsFree(j)

(* What takeReady knows of the jobs it has looked at, and what of every job *)
(* not started once it is done.                                            *)
TakeInv ==
  /\ pc = "take" =>
       \A j \in notStarted \ scan :
         /\ Blocked(j, procs \cup starting)
         /\ ~changed => ActivePreds(j) \cap Unsuccessful = {}
  /\ pc \in {"start", "wait"} =>
       \A j \in notStarted :
         /\ Blocked(j, IF pc = "start" THEN procs \cup starting ELSE procs)
         /\ ActivePreds(j) \cap Unsuccessful = {}

IInv ==
  /\ TypeOK /\ GraphInv /\ LoopInv /\ ProcInv
  /\ SlotsInv /\ ReservedInv /\ PlacesInv /\ TakeInv

-------------------------------------------------------------------------------
(* Counting places.  Held is HeldBy for given places, so that a state and  *)
(* its successor can be compared.                                          *)

PlaceCounts == [Jobs -> Nat \ {0}]

Held(places, S, alias) ==
  UNION {{j} \X (1..places[j]) : j \in {k \in S : alias \in Uses[k]}}

PlacesOf == [j \in Jobs |-> Places(j)]

(* The places of the jobs in one state, as counts.                         *)
LEMMA PlacesType ==
  ASSUME reserved \in [Jobs -> Nat \ {0}]
  PROVE  /\ PlacesOf \in PlaceCounts
         /\ \A S \in SUBSET Jobs : \A alias : HeldBy(S, alias) = Held(PlacesOf, S, alias)
<1>1. PlacesOf \in PlaceCounts
  BY ConnectionsAssumption DEF PlacesOf, PlaceCounts, Places
<1>2. ASSUME NEW S \in SUBSET Jobs, NEW alias
      PROVE  HeldBy(S, alias) = Held(PlacesOf, S, alias)
  BY DEF HeldBy, Held, PlacesOf
<1> QED
  BY <1>1, <1>2

(* A place is a pair of a job of S that uses the alias and one of its      *)
(* numbers.                                                                *)
LEMMA HeldElement ==
  ASSUME NEW p \in PlaceCounts, NEW S \in SUBSET Jobs, NEW alias, NEW x
  PROVE  x \in Held(p, S, alias) <=>
           \E j \in S : alias \in Uses[j] /\ x \in {j} \X (1..p[j])
  BY DEF Held

(* A set of jobs holds finitely many places.                               *)
LEMMA HeldFinite ==
  ASSUME NEW p \in PlaceCounts, NEW S \in SUBSET Jobs, NEW alias
  PROVE  /\ IsFiniteSet(Held(p, S, alias))
         /\ Cardinality(Held(p, S, alias)) \in Nat
<1> DEFINE U == {k \in S : alias \in Uses[k]}
           T == {{j} \X (1..p[j]) : j \in U}
           f == [j \in U |-> {j} \X (1..p[j])]
<1>1. IsFiniteSet(U)
  BY FS_Subset, JobsAssumption
<1>2. f \in Surjection(U, T)
  BY DEF Surjection
<1>3. IsFiniteSet(T)
  BY <1>1, <1>2, FS_Surjection
<1>4. ASSUME NEW j \in U PROVE IsFiniteSet({j} \X (1..p[j]))
  <2>1. p[j] \in Int /\ 1 \in Int
    BY DEF PlaceCounts
  <2>2. IsFiniteSet(1..p[j])
    BY <2>1, FS_Interval
  <2>3. IsFiniteSet({j})
    BY FS_Singleton
  <2> QED
    BY <2>2, <2>3, FS_Product
<1>5. \A t \in T : IsFiniteSet(t)
  BY <1>4
<1>6. IsFiniteSet(UNION T)
  BY <1>3, <1>5, FS_UNION
<1>7. IsFiniteSet(Held(p, S, alias))
  BY <1>6 DEF Held
<1> QED
  BY <1>7, FS_CardinalityType

(* More jobs with no fewer places each hold no fewer places.               *)
LEMMA HeldMonotone ==
  ASSUME NEW p \in PlaceCounts, NEW q \in PlaceCounts, NEW alias,
         NEW T \in SUBSET Jobs, NEW S \in SUBSET T, \A j \in S : p[j] <= q[j]
  PROVE  Cardinality(Held(p, S, alias)) <= Cardinality(Held(q, T, alias))
<1>1. ASSUME NEW j \in S PROVE {j} \X (1..p[j]) \subseteq {j} \X (1..q[j])
  BY DEF PlaceCounts
<1>2. Held(p, S, alias) \subseteq Held(q, T, alias)
  BY <1>1, HeldElement
<1>3. IsFiniteSet(Held(q, T, alias))
  BY HeldFinite
<1> QED
  BY <1>2, <1>3, FS_Subset

(* Only jobs that do not use an alias hold none of it.                     *)
LEMMA HeldNone ==
  ASSUME NEW p \in PlaceCounts, NEW S \in SUBSET Jobs, NEW alias,
         Cardinality(Held(p, S, alias)) = 0
  PROVE  \A j \in S : alias \notin Uses[j]
<1>1. Held(p, S, alias) = {}
  BY HeldFinite, FS_EmptySet
<1>2. ASSUME NEW j \in S, alias \in Uses[j] PROVE FALSE
  <2>1. <<j, 1>> \in {j} \X (1..p[j])
    BY DEF PlaceCounts
  <2> QED
    BY <2>1, <1>1, <1>2, HeldElement
<1> QED
  BY <1>2

(* One more job adds its places, if it uses the alias.                     *)
LEMMA HeldAdd ==
  ASSUME NEW p \in PlaceCounts, NEW S \in SUBSET Jobs, NEW alias, NEW j \in Jobs \ S
  PROVE  Cardinality(Held(p, S \cup {j}, alias)) =
           IF alias \in Uses[j] THEN Cardinality(Held(p, S, alias)) + p[j]
                                ELSE Cardinality(Held(p, S, alias))
<1> DEFINE Own == {j} \X (1..p[j])
<1>1. CASE alias \notin Uses[j]
  <2>1. Held(p, S \cup {j}, alias) = Held(p, S, alias)
    BY <1>1 DEF Held
  <2> QED
    BY <2>1, <1>1
<1>2. CASE alias \in Uses[j]
  <2>1. Held(p, S \cup {j}, alias) = Held(p, S, alias) \cup Own
    <3>1. ASSUME NEW x
          PROVE  x \in Held(p, S \cup {j}, alias) <=> x \in Held(p, S, alias) \cup Own
      <4>1. x \in Held(p, S \cup {j}, alias) <=>
              \E k \in S \cup {j} : alias \in Uses[k] /\ x \in {k} \X (1..p[k])
        BY HeldElement, S \cup {j} \in SUBSET Jobs
      <4>2. x \in Held(p, S, alias) <=>
              \E k \in S : alias \in Uses[k] /\ x \in {k} \X (1..p[k])
        BY HeldElement
      <4> HIDE DEF Own
      <4>3. Own = {j} \X (1..p[j])
        BY DEF Own
      <4> QED
        BY <4>1, <4>2, <4>3, <1>2, Zenon
    <3> QED
      BY <3>1
  <2>2. Held(p, S, alias) \cap Own = {}
    BY HeldElement
  <2>3. IsFiniteSet(Own) /\ Cardinality(Own) = p[j]
    <3>1. p[j] \in Nat \ {0}
      BY DEF PlaceCounts
    <3>2. IsFiniteSet(1..p[j]) /\ Cardinality(1..p[j]) = p[j]
      BY <3>1, FS_Interval, SMTT(30)
    <3>3. IsFiniteSet({j}) /\ Cardinality({j}) = 1
      BY FS_Singleton
    <3>4. IsFiniteSet(Own) /\ Cardinality(Own) = Cardinality({j}) * Cardinality(1..p[j])
      BY <3>2, <3>3, FS_Product
    <3> QED
      BY <3>1, <3>2, <3>3, <3>4
  <2>4. Cardinality(Held(p, S, alias) \cup Own) =
          Cardinality(Held(p, S, alias)) + Cardinality(Own) - Cardinality(Held(p, S, alias) \cap Own)
    BY <2>3, HeldFinite, FS_Union
  <2>5. Cardinality(Held(p, S, alias) \cap Own) = 0
    BY <2>2, FS_EmptySet
  <2>6. p[j] \in Nat
    BY DEF PlaceCounts
  <2>7. Cardinality(Held(p, S, alias)) \in Nat
    BY HeldFinite
  <2> HIDE DEF Own
  <2>8. Cardinality(Held(p, S, alias) \cup Own) = Cardinality(Held(p, S, alias)) + p[j]
    BY <2>3, <2>4, <2>5, <2>6, <2>7
  <2> QED
    BY <2>1, <2>8, <1>2
<1> QED
  BY <1>1, <1>2

-------------------------------------------------------------------------------
(* A reservation                                                           *)

(* A set of naturals with a bound has a maximum.                           *)
LEMMA MaximumExists ==
  ASSUME NEW b \in Nat, NEW F \in SUBSET (0..b), F # {}
  PROVE  \E n \in F : \A m \in F : m <= n
<1> DEFINE I == 0..b
           T == {n..b : n \in F}
<1>1. T \subseteq FiniteSubsetsOf(I) /\ T # {}
  <2>1. ASSUME NEW n \in F PROVE n..b \in SUBSET I /\ IsFiniteSet(n..b)
    BY FS_Interval
  <2> QED
    BY <2>1 DEF FiniteSubsetsOf
<1>2. PICK x \in T : \A y \in T : <<y, x>> \notin StrictSubsetOrdering(I)
  <2> HIDE DEF I, T
  <2> QED
    BY <1>1, FS_StrictSubsetOrderingWellFounded, WFMin
<1>3. PICK n \in F : x = n..b
  OBVIOUS
<1>4. ASSUME NEW m \in F, ~(m <= n) PROVE FALSE
  <2>1. m..b \in T
    OBVIOUS
  <2>2. m..b \subseteq n..b /\ n \in n..b /\ n \notin m..b
    BY <1>4
  <2>3. <<m..b, n..b>> \in StrictSubsetOrdering(I)
    <3>1. m..b \in SUBSET I /\ n..b \in SUBSET I
      OBVIOUS
    <3> QED
      BY <2>2, <3>1 DEF StrictSubsetOrdering
  <2> QED
    BY <1>2, <1>3, <2>1, <2>3
<1> QED
  BY <1>4

(* A job that is starting has a share of at least one core.                *)
LEMMA ShareIsPositive ==
  ASSUME NEW n \in Nat \ {0}
  PROVE  CoreShare(n) \in Nat \ {0}
<1>1. (Cores \div 2) \in Nat
  BY WorkersAssumption
<1>2. (Cores \div 2) \div n \in Int
  BY <1>1
<1> QED
  BY <1>2 DEF CoreShare

(* What a job reserves is well defined, and fits.                          *)
LEMMA ReservationFits ==
  ASSUME TypeOK, NEW j \in starting
  PROVE  Reservation(j) \in Nat \ {0} /\ FitsPlaces(j, Reservation(j))
<1> DEFINE share == CoreShare(Cardinality(procs \cup starting))
           F == {n \in 1..share : FitsPlaces(j, n)}
<1>1. Cardinality(procs \cup starting) \in Nat \ {0}
  <2>1. IsFiniteSet(procs \cup starting)
    BY JobsAssumption, FS_Subset, FS_Union DEF TypeOK
  <2> QED
    BY <2>1, FS_CardinalityType, FS_EmptySet
<1>2. share \in Nat \ {0}
  BY <1>1, ShareIsPositive
<1> HIDE DEF share
<1>3. F \in SUBSET (0..share) /\ 1 \in F
  BY <1>2 DEF FitsPlaces
<1>4. \E n \in F : \A m \in F : m <= n
  BY <1>2, <1>3, MaximumExists
<1>5. \E n \in 1..share : FitsPlaces(j, n) /\ \A m \in 1..share : FitsPlaces(j, m) => m <= n
  BY <1>4
<1>6. Reservation(j) = CHOOSE n \in 1..share :
        FitsPlaces(j, n) /\ \A m \in 1..share : FitsPlaces(j, m) => m <= n
  BY DEF Reservation, share
<1>7. Reservation(j) \in 1..share /\ FitsPlaces(j, Reservation(j))
  BY <1>5, <1>6
<1> QED
  BY <1>2, <1>7

-------------------------------------------------------------------------------
(* Type correctness *)

LEMMA InitType == Init => TypeOK
<1> SUFFICES ASSUME Init PROVE TypeOK
  OBVIOUS
<1>1. reserved \in [Jobs -> Nat \ {0}]
  BY DEF Init
<1>2. proc \in [Jobs -> ProcState]
  BY DEF Init, ProcState
<1>3. terminating \in BOOLEAN /\ changed \in BOOLEAN /\ forever \in BOOLEAN
  BY Zenon DEF Init
<1> QED
  BY <1>1, <1>2, <1>3 DEF Init, TypeOK, PcState

LEMMA FinishType ==
  ASSUME TypeOK, NEW j \in Jobs, NEW s \in {"completed", "failed"}, FinishJob(j, s)
  PROVE  TypeOK'
<1>1. Decision(j, s) \in [job : Jobs, status : Statuses]
  BY DEF Decision, Statuses
<1>2. proc' \in [Jobs -> ProcState]
  BY DEF TypeOK, FinishJob, ProcState
<1>3. terminating' = terminating /\ changed' = changed /\ forever' = forever
  BY DEF FinishJob, takeVars
<1> QED
  BY <1>1, <1>2, <1>3 DEF TypeOK, FinishJob, takeVars

LEMMA TypeStep == TypeOK /\ [Next]_vars => TypeOK'
<1> SUFFICES ASSUME TypeOK, [Next]_vars PROVE TypeOK'
  OBVIOUS
<1> USE DEF graphVars, takeVars, loopVars, envVars
<1>1. CASE CycleEnds
  BY <1>1 DEF TypeOK, PcState, CycleEnds
<1>2. CASE SkipNotStarted
  BY <1>2 DEF TypeOK, PcState, SkipNotStarted, Decision, Statuses
<1>3. CASE BeginTake
  BY <1>3 DEF TypeOK, PcState, BeginTake
<1>4. CASE TakeAgain
  BY <1>4 DEF TypeOK, PcState, TakeAgain
<1>5. CASE TakeDone
  BY <1>5 DEF TypeOK, PcState, TakeDone
<1>6. CASE StartDone
  BY <1>6 DEF TypeOK, PcState, StartDone
<1>7. CASE NothingRuns
  BY <1>7 DEF TypeOK, PcState, NothingRuns
<1>8. CASE Wake
  BY <1>8 DEF TypeOK, PcState, Wake
<1>9. CASE PollsDone
  BY <1>9 DEF TypeOK, PcState, PollsDone
<1>10. CASE RunEnds
  BY <1>10 DEF TypeOK, PcState, RunEnds
<1>11. CASE Pause
  BY <1>11 DEF TypeOK, PcState, Pause
<1>12. CASE NewCycle
  BY <1>12 DEF TypeOK, PcState, NewCycle, ProcState
<1>13. CASE Abort
  BY <1>13 DEF TypeOK, PcState, Abort
<1>14. CASE Raise
  BY <1>14 DEF TypeOK, PcState, Raise
<1>15. CASE Signal
  BY <1>15 DEF TypeOK, PcState, Signal
<1>16. ASSUME NEW j \in Jobs, TakeSkip(j) PROVE TypeOK'
  BY <1>16 DEF TypeOK, TakeSkip, Decision, Statuses
<1>17. ASSUME NEW j \in Jobs, TakeStart(j) PROVE TypeOK'
  BY <1>17 DEF TypeOK, TakeStart
<1>18. ASSUME NEW j \in Jobs, TakePass(j) PROVE TypeOK'
  BY <1>18 DEF TypeOK, TakePass
<1>19. ASSUME NEW j \in Jobs, StartJob(j) PROVE TypeOK'
  BY <1>19, ReservationFits DEF TypeOK, StartJob, ProcState
<1>20. ASSUME NEW j \in Jobs, PollOutcome(j) PROVE TypeOK'
  BY <1>20, FinishType DEF PollOutcome
<1>21. ASSUME NEW j \in Jobs, PollDied(j) PROVE TypeOK'
  BY <1>21, FinishType DEF PollDied
<1>22. ASSUME NEW j \in Jobs, PollLate(j) PROVE TypeOK'
  BY <1>22, FinishType DEF PollLate
<1>23. ASSUME NEW j \in Jobs, PollRunning(j) PROVE TypeOK'
  BY <1>23 DEF TypeOK, PollRunning
<1>24. ASSUME NEW j \in Jobs, StopProcess(j) PROVE TypeOK'
  BY <1>24 DEF TypeOK, StopProcess, ProcState
<1>25. ASSUME NEW j \in Jobs, JobEnds(j) PROVE TypeOK'
  BY <1>25 DEF TypeOK, JobEnds, ProcState, Sent
<1>26. ASSUME NEW j \in Jobs, DeadlinePasses(j) PROVE TypeOK'
  BY <1>26 DEF TypeOK, DeadlinePasses
<1>27. CASE UNCHANGED vars
  BY <1>27 DEF TypeOK, vars
<1> QED
  BY <1>1, <1>2, <1>3, <1>4, <1>5, <1>6, <1>7, <1>8, <1>9, <1>10, <1>11, <1>12, <1>13, <1>14, <1>15, <1>16, <1>17, <1>18, <1>19, <1>20, <1>21, <1>22, <1>23, <1>24, <1>25, <1>26, <1>27 DEF Next, LoopStep

(* The variables keep their types: a process is in a state the loop knows, *)
(* every decision is one of the three statuses of a configured job, and a  *)
(* job reserves at least one place.                                        *)
THEOREM TypeCorrect == Spec => []TypeOK
<1>1. Init => TypeOK
  BY InitType
<1>2. TypeOK /\ [Next]_vars => TypeOK'
  BY TypeStep
<1> QED
  BY <1>1, <1>2, PTL DEF Spec

-------------------------------------------------------------------------------
(* The graph                                                               *)

LEMMA DecisionsDiffer ==
  ASSUME NEW j, NEW k, NEW s, NEW t, Decision(j, s) = Decision(k, t)
  PROVE  j = k /\ s = t
  BY DEF Decision

LEMMA DecideOne ==
  ASSUME NEW j \in Jobs, NEW s, outcomes' = outcomes \cup {Decision(j, s)}
  PROVE  \A S : DecidedAs(S)' = IF s \in S THEN DecidedAs(S) \cup {j} ELSE DecidedAs(S)
  BY DecisionsDiffer DEF DecidedAs

LEMMA SkipMany ==
  ASSUME notStarted \subseteq Jobs,
         outcomes' = outcomes \cup {Decision(j, "skipped") : j \in notStarted}
  PROVE  \A S : DecidedAs(S)' =
           IF "skipped" \in S THEN DecidedAs(S) \cup notStarted ELSE DecidedAs(S)
  BY DecisionsDiffer DEF DecidedAs

(* A job of the graph has one more decision.                               *)
LEMMA GraphAfterDecision ==
  ASSUME TypeOK, GraphInv, NEW j \in notStarted \cup running, NEW s \in Statuses,
         outcomes' = outcomes \cup {Decision(j, s)},
         notStarted' = notStarted \ {j}, running' = running \ {j}, active' = active
  PROVE  GraphInv'
<1>1. j \in Jobs /\ j \notin DecidedJobs
  BY DEF TypeOK, GraphInv
<1>2. DecidedJobs' = DecidedJobs \cup {j}
  BY <1>1, DecideOne DEF DecidedJobs
<1>3. ASSUME NEW k \in Jobs, NEW t \in Statuses, NEW u \in Statuses,
             Decision(k, t) \in outcomes', Decision(k, u) \in outcomes'
      PROVE  t = u
  <2>1. CASE k = j
    <3>1. \A v \in Statuses : Decision(j, v) \notin outcomes
      BY <1>1 DEF DecidedJobs, DecidedAs
    <3> QED
      BY <1>3, <2>1, <3>1, DecisionsDiffer
  <2>2. CASE k # j
    <3>1. Decision(k, t) \in outcomes /\ Decision(k, u) \in outcomes
      BY <1>3, <2>2, DecisionsDiffer
    <3> QED
      BY <3>1 DEF GraphInv
  <2> QED
    BY <2>1, <2>2
<1>4. notStarted' \cap running' = {} /\ active' = notStarted' \cup running' \cup DecidedJobs'
  BY <1>2 DEF GraphInv
<1>5. (notStarted' \cup running') \cap DecidedJobs' = {}
  BY <1>2 DEF GraphInv
<1> QED
  BY <1>3, <1>4, <1>5 DEF GraphInv

LEMMA GraphInit == Init => GraphInv
  BY DEF Init, GraphInv, DecidedJobs, DecidedAs

LEMMA GraphInvStep == TypeOK /\ GraphInv /\ LoopInv /\ [Next]_vars => GraphInv'
<1> SUFFICES ASSUME TypeOK, GraphInv, LoopInv, [Next]_vars PROVE GraphInv'
  OBVIOUS
<1> USE DEF graphVars
<1>1. CASE UNCHANGED <<active, notStarted, running, outcomes>>
  BY <1>1 DEF GraphInv, DecidedJobs, DecidedAs
<1>2. CASE SkipNotStarted
  <2>1. outcomes' = outcomes \cup {Decision(j, "skipped") : j \in notStarted}
        /\ notStarted' = {} /\ running' = running /\ active' = active
    BY <1>2 DEF SkipNotStarted
  <2>2. DecidedJobs' = DecidedJobs \cup notStarted
    BY <2>1, SkipMany DEF DecidedJobs, Statuses, TypeOK
  <2>3. ASSUME NEW k \in Jobs, NEW t \in Statuses, NEW u \in Statuses,
               Decision(k, t) \in outcomes', Decision(k, u) \in outcomes'
        PROVE  t = u
    <3>1. CASE k \in notStarted
      <4>1. \A v \in Statuses : Decision(k, v) \notin outcomes
        BY <3>1 DEF GraphInv, DecidedJobs, DecidedAs
      <4> QED
        BY <2>1, <2>3, <4>1, DecisionsDiffer
    <3>2. CASE k \notin notStarted
      <4>1. Decision(k, t) \in outcomes /\ Decision(k, u) \in outcomes
        BY <2>1, <2>3, <3>2, DecisionsDiffer
      <4> QED
        BY <4>1 DEF GraphInv
    <3> QED
      BY <3>1, <3>2
  <2> QED
    BY <2>1, <2>2, <2>3 DEF GraphInv
<1>3. ASSUME NEW j \in Jobs, TakeSkip(j) PROVE GraphInv'
  <2>1. j \in notStarted
    BY <1>3 DEF TakeSkip, LoopInv
  <2>2. running' = running \ {j}
    BY <1>3, <2>1 DEF TakeSkip, GraphInv
  <2> QED
    BY <1>3, <2>1, <2>2, GraphAfterDecision DEF TakeSkip, Statuses
<1>4. ASSUME NEW j \in Jobs, TakeStart(j) PROVE GraphInv'
  <2>1. j \in notStarted
    BY <1>4 DEF TakeStart, LoopInv
  <2>2. DecidedJobs' = DecidedJobs
    BY <1>4 DEF TakeStart, DecidedJobs, DecidedAs
  <2> QED
    BY <1>4, <2>1, <2>2 DEF TakeStart, GraphInv
<1>5. ASSUME NEW j \in Jobs, NEW s \in {"completed", "failed"}, pc = "poll", j \in toPoll,
             FinishJob(j, s)
      PROVE  GraphInv'
  <2>1. j \in running
    BY <1>5 DEF LoopInv
  <2>2. notStarted' = notStarted \ {j}
    BY <1>5, <2>1 DEF FinishJob, GraphInv
  <2> QED
    BY <1>5, <2>1, <2>2, GraphAfterDecision DEF FinishJob, Statuses
<1>6. CASE NewCycle
  BY <1>6 DEF NewCycle, GraphInv, DecidedJobs, DecidedAs
<1>7. ASSUME NEW j \in Jobs, PollOutcome(j) \/ PollDied(j) \/ PollLate(j) PROVE GraphInv'
  BY <1>5, <1>7 DEF PollOutcome, PollDied, PollLate
<1> QED
  BY <1>1, <1>2, <1>3, <1>4, <1>6, <1>7
     DEF Next, LoopStep, vars, CycleEnds, BeginTake, TakePass, TakeAgain, TakeDone, StartJob,
         StartDone, NothingRuns, Wake, PollRunning, PollsDone, RunEnds, Pause, StopProcess,
         Abort, Raise, Signal, JobEnds, DeadlinePasses

-------------------------------------------------------------------------------
(* The loop's own sets, the processes and the slots                        *)

LEMMA LoopInit == Init => LoopInv /\ ProcInv /\ ReservedInv
  BY DEF Init, LoopInv, ProcInv, ReservedInv

LEMMA LoopInvStep == TypeOK /\ GraphInv /\ LoopInv /\ [Next]_vars => LoopInv'
<1> SUFFICES ASSUME TypeOK, GraphInv, LoopInv, [Next]_vars PROVE LoopInv'
  OBVIOUS
<1> USE DEF graphVars, takeVars, loopVars, envVars
<1>1. CASE CycleEnds \/ SkipNotStarted \/ BeginTake
  BY <1>1 DEF CycleEnds, SkipNotStarted, BeginTake, LoopInv, Finished
<1>2. ASSUME NEW j \in Jobs, TakeSkip(j) \/ TakeStart(j) \/ TakePass(j) PROVE LoopInv'
  BY <1>2 DEF TakeSkip, TakeStart, TakePass, LoopInv, GraphInv
<1>3. CASE TakeAgain \/ TakeDone
  BY <1>3 DEF TakeAgain, TakeDone, LoopInv
<1>4. ASSUME NEW j \in Jobs, StartJob(j) PROVE LoopInv'
  BY <1>4 DEF StartJob, LoopInv
<1>5. CASE StartDone \/ NothingRuns \/ Wake
  BY <1>5 DEF StartDone, NothingRuns, Wake, LoopInv
<1>6. ASSUME NEW j \in Jobs, PollOutcome(j) \/ PollDied(j) \/ PollLate(j) \/ PollRunning(j)
      PROVE  LoopInv'
  BY <1>6 DEF PollOutcome, PollDied, PollLate, PollRunning, FinishJob, LoopInv
<1>7. CASE PollsDone \/ RunEnds \/ Pause
  BY <1>7 DEF PollsDone, RunEnds, Pause, LoopInv
<1>8. CASE NewCycle
  BY <1>8 DEF NewCycle, LoopInv
<1>9. ASSUME NEW j \in Jobs, StopProcess(j) PROVE LoopInv'
  BY <1>9 DEF StopProcess, LoopInv
<1>10. CASE Abort \/ Raise \/ Signal
  BY <1>10 DEF Abort, Raise, Signal, LoopInv
<1>11. ASSUME NEW j \in Jobs, JobEnds(j) \/ DeadlinePasses(j) PROVE LoopInv'
  BY <1>11 DEF JobEnds, DeadlinePasses, LoopInv
<1>12. CASE UNCHANGED vars
  BY <1>12 DEF vars, LoopInv
<1> QED
  BY <1>1, <1>2, <1>3, <1>4, <1>5, <1>6, <1>7, <1>8, <1>9, <1>10, <1>11, <1>12
     DEF Next, LoopStep

LEMMA ProcInvStep == TypeOK /\ LoopInv /\ ProcInv /\ [Next]_vars => ProcInv'
<1> SUFFICES ASSUME TypeOK, LoopInv, ProcInv, [Next]_vars PROVE ProcInv'
  OBVIOUS
<1> USE DEF graphVars, takeVars, loopVars, envVars
<1>1. CASE UNCHANGED <<procs, proc>>
  BY <1>1 DEF ProcInv
<1>2. ASSUME NEW j \in Jobs, StartJob(j) PROVE ProcInv'
  BY <1>2 DEF StartJob, ProcInv, TypeOK
<1>3. ASSUME NEW j \in Jobs, PollOutcome(j) \/ PollDied(j) \/ PollLate(j) \/ StopProcess(j)
      PROVE  ProcInv'
  BY <1>3 DEF PollOutcome, PollDied, PollLate, StopProcess, FinishJob, ProcInv, TypeOK
<1>4. CASE NewCycle
  BY <1>4 DEF NewCycle, ProcInv, LoopInv
<1>5. ASSUME NEW j \in Jobs, JobEnds(j) PROVE ProcInv'
  BY <1>5 DEF JobEnds, ProcInv, TypeOK, Sent
<1> QED
  BY <1>1, <1>2, <1>3, <1>4, <1>5
     DEF Next, LoopStep, vars, CycleEnds, SkipNotStarted, BeginTake, TakeSkip, TakeStart,
         TakePass, TakeAgain, TakeDone, StartDone, NothingRuns, Wake, PollRunning, PollsDone,
         RunEnds, Pause, Abort, Raise, Signal, DeadlinePasses

LEMMA ReservedInvStep == TypeOK /\ GraphInv /\ LoopInv /\ ReservedInv /\ [Next]_vars => ReservedInv'
<1> SUFFICES ASSUME TypeOK, GraphInv, LoopInv, ReservedInv, [Next]_vars PROVE ReservedInv'
  OBVIOUS
<1> USE DEF graphVars, takeVars, loopVars, envVars
<1>1. CASE UNCHANGED <<pc, reserved, starting, notStarted>>
  BY <1>1 DEF ReservedInv
<1>2. CASE BeginTake \/ SkipNotStarted
  BY <1>2 DEF BeginTake, SkipNotStarted, ReservedInv
<1>3. ASSUME NEW j \in Jobs, TakeSkip(j) \/ TakeStart(j) PROVE ReservedInv'
  BY <1>3 DEF TakeSkip, TakeStart, ReservedInv, LoopInv
<1>4. ASSUME NEW j \in Jobs, StartJob(j) PROVE ReservedInv'
  <2>1. j \notin notStarted
    BY <1>4 DEF StartJob, LoopInv, GraphInv
  <2>2. \A k \in Jobs \ {j} : reserved'[k] = reserved[k]
    BY <1>4 DEF StartJob, TypeOK
  <2> QED
    BY <1>4, <2>1, <2>2 DEF StartJob, ReservedInv, TypeOK
<1>5. CASE NewCycle
  BY <1>5 DEF NewCycle, ReservedInv, TypeOK
<1>6. CASE pc' \notin {"take", "start"} /\ UNCHANGED <<reserved, notStarted>>
  BY <1>6 DEF ReservedInv
<1>7. CASE TakeDone
  BY <1>7 DEF TakeDone, ReservedInv
<1> QED
  BY <1>1, <1>2, <1>3, <1>4, <1>5, <1>6, <1>7
     DEF Next, LoopStep, vars, CycleEnds, TakePass, TakeAgain, StartDone, NothingRuns, Wake,
         PollOutcome, PollDied, PollLate, PollRunning, FinishJob, PollsDone, RunEnds, Pause,
         StopProcess, Abort, Raise, Signal, JobEnds, DeadlinePasses

(* Sets of jobs are finite.                                                *)
LEMMA JobSets ==
  ASSUME NEW S \in SUBSET Jobs
  PROVE  IsFiniteSet(S) /\ Cardinality(S) \in Nat
  BY JobsAssumption, FS_Subset, FS_CardinalityType

LEMMA SlotsInit == Init => SlotsInv
  BY FS_EmptySet, WorkersAssumption DEF Init, SlotsInv

LEMMA SlotsInvStep == TypeOK /\ LoopInv /\ SlotsInv /\ [Next]_vars => SlotsInv'
<1> SUFFICES ASSUME TypeOK, LoopInv, SlotsInv, [Next]_vars PROVE SlotsInv'
  OBVIOUS
<1> USE DEF graphVars, takeVars, loopVars, envVars
<1>1. CASE UNCHANGED <<pc, procs, starting>>
  BY <1>1 DEF SlotsInv
<1>2. CASE pc' \notin {"take", "start"} /\ UNCHANGED procs
  BY <1>2 DEF SlotsInv
<1>3. CASE BeginTake
  <2>1. procs' = procs /\ procs \cup starting' = procs
    BY <1>3 DEF BeginTake
  <2> QED
    BY <2>1 DEF SlotsInv
<1>4. ASSUME NEW j \in Jobs, TakeStart(j) PROVE SlotsInv'
  <2>1. procs \cap starting = {} /\ procs \in SUBSET Jobs /\ starting \in SUBSET Jobs
    BY <1>4 DEF TakeStart, LoopInv, TypeOK
  <2>2. Cardinality(procs \cup starting) = Cardinality(procs) + Cardinality(starting)
    <3>1. Cardinality(procs \cup starting) =
            Cardinality(procs) + Cardinality(starting) - Cardinality(procs \cap starting)
      BY <2>1, JobSets, FS_Union
    <3>2. Cardinality(procs \cap starting) = 0
      BY <2>1, FS_EmptySet
    <3> QED
      BY <2>1, <3>1, <3>2, JobSets
  <2>3. Cardinality(starting) < Workers - Cardinality(procs)
    BY <1>4 DEF TakeStart, MayStart
  <2>4. IsFiniteSet(procs \cup starting)
    BY <2>1, JobSets, procs \cup starting \in SUBSET Jobs
  <2>5. procs' = procs /\ procs' \cup starting' = (procs \cup starting) \cup {j}
    BY <1>4 DEF TakeStart
  <2>6. Cardinality((procs \cup starting) \cup {j}) <= Cardinality(procs \cup starting) + 1
    <3> DEFINE T == procs \cup starting
    <3>1. Cardinality(T \cup {j}) = IF j \in T THEN Cardinality(T) ELSE Cardinality(T) + 1
      BY <2>4, FS_AddElement
    <3>2. Cardinality(T) \in Nat
      BY <2>1, JobSets, T \in SUBSET Jobs
    <3> HIDE DEF T
    <3>3. Cardinality(T \cup {j}) <= Cardinality(T) + 1
      BY <3>1, <3>2
    <3> QED
      BY <3>3 DEF T
  <2>7. Cardinality(procs) \in Nat /\ Cardinality(starting) \in Nat
        /\ Cardinality((procs \cup starting) \cup {j}) \in Nat
    BY <2>1, JobSets, (procs \cup starting) \cup {j} \in SUBSET Jobs
  <2>8. Cardinality((procs \cup starting) \cup {j}) <= Workers
    BY <2>2, <2>3, <2>6, <2>7, WorkersAssumption
  <2> QED
    BY <2>5, <2>8 DEF SlotsInv
<1>5. ASSUME NEW j \in Jobs, StartJob(j) PROVE SlotsInv'
  <2>1. procs' \cup starting' = procs \cup starting /\ pc = "start" /\ pc' = pc
    BY <1>5 DEF StartJob
  <2>2. procs' \in SUBSET (procs \cup starting) /\ procs \cup starting \in SUBSET Jobs
    BY <1>5 DEF StartJob, TypeOK
  <2>3. Cardinality(procs') <= Cardinality(procs \cup starting)
    BY <2>2, JobSets, FS_Subset
  <2>4. Cardinality(procs') \in Nat /\ Cardinality(procs \cup starting) \in Nat
    BY <2>2, JobSets
  <2> QED
    BY <2>1, <2>3, <2>4, WorkersAssumption DEF SlotsInv
<1>6. ASSUME procs' \in SUBSET procs, pc' \notin {"take", "start"} PROVE SlotsInv'
  <2>1. Cardinality(procs') <= Cardinality(procs) /\ procs \in SUBSET Jobs
    BY <1>6, JobSets, FS_Subset DEF TypeOK
  <2>2. Cardinality(procs') \in Nat /\ Cardinality(procs) \in Nat
    BY <1>6, <2>1, JobSets
  <2> QED
    BY <1>6, <2>1, <2>2, WorkersAssumption DEF SlotsInv
<1>7. ASSUME NEW j \in Jobs, PollOutcome(j) \/ PollDied(j) \/ PollLate(j) \/ StopProcess(j)
      PROVE  SlotsInv'
  BY <1>6, <1>7 DEF PollOutcome, PollDied, PollLate, FinishJob, StopProcess
<1>8. CASE TakeDone
  BY <1>8 DEF TakeDone, SlotsInv
<1> QED
  BY <1>1, <1>2, <1>3, <1>4, <1>5, <1>7, <1>8
     DEF Next, LoopStep, vars, CycleEnds, SkipNotStarted, TakeSkip, TakePass, TakeAgain,
         StartDone, NothingRuns, Wake, PollRunning, PollsDone, RunEnds, Pause, NewCycle, Abort,
         Raise, Signal, JobEnds, DeadlinePasses

-------------------------------------------------------------------------------
(* Places in use, before and after a step                                  *)

LEMMA PlacesNext ==
  ASSUME reserved' \in [Jobs -> Nat \ {0}]
  PROVE  /\ PlacesOf' \in PlaceCounts
         /\ \A S \in SUBSET Jobs : \A alias : HeldBy(S, alias)' = Held(PlacesOf', S, alias)
<1>1. PlacesOf' \in PlaceCounts
  BY ConnectionsAssumption DEF PlacesOf, PlaceCounts, Places
<1>2. ASSUME NEW S \in SUBSET Jobs, NEW alias
      PROVE  HeldBy(S, alias)' = Held(PlacesOf', S, alias)
  BY DEF HeldBy, Held, PlacesOf
<1> QED
  BY <1>1, <1>2

(* The places in use, in a state and its successor, as Held.               *)
LEMMA InUseAsHeld ==
  ASSUME TypeOK, TypeOK', NEW alias
  PROVE  /\ PlacesOf \in PlaceCounts /\ PlacesOf' \in PlaceCounts
         /\ running \in SUBSET Jobs /\ running' \in SUBSET Jobs
         /\ InUse(alias) = Cardinality(Held(PlacesOf, running, alias))
         /\ InUse(alias)' = Cardinality(Held(PlacesOf', running', alias))
         /\ InUse(alias) \in Nat /\ InUse(alias)' \in Nat
         /\ \A j \in Jobs : PlacesOf[j] = Places(j) /\ PlacesOf'[j] = Places(j)'
<1>1. running \in SUBSET Jobs /\ running' \in SUBSET Jobs
      /\ reserved \in [Jobs -> Nat \ {0}] /\ reserved' \in [Jobs -> Nat \ {0}]
  BY DEF TypeOK
<1>2. InUse(alias) = Cardinality(Held(PlacesOf, running, alias))
  BY <1>1, PlacesType DEF InUse
<1>3. InUse(alias)' = Cardinality(Held(PlacesOf', running', alias))
  <2>1. HeldBy(running, alias)' = Held(PlacesOf', running', alias)
    BY <1>1 DEF HeldBy, Held, PlacesOf
  <2> QED
    BY <2>1 DEF InUse
<1>4. \A j \in Jobs : PlacesOf[j] = Places(j) /\ PlacesOf'[j] = Places(j)'
  BY DEF PlacesOf
<1>5. PlacesOf \in PlaceCounts /\ PlacesOf' \in PlaceCounts
  BY <1>1, PlacesType, PlacesNext
<1>6. Cardinality(Held(PlacesOf, running, alias)) \in Nat
      /\ Cardinality(Held(PlacesOf', running', alias)) \in Nat
  BY <1>1, <1>5, HeldFinite
<1> QED
  BY <1>1, <1>2, <1>3, <1>4, <1>5, <1>6

(* More jobs with no fewer places leave no more of a connection.           *)
LEMMA InUseGrows ==
  ASSUME TypeOK, TypeOK', NEW alias, running \subseteq running',
         \A k \in running : Places(k) <= Places(k)'
  PROVE  InUse(alias) <= InUse(alias)'
<1>1. \A j \in running : PlacesOf[j] <= PlacesOf'[j]
  BY InUseAsHeld
<1>2. Cardinality(Held(PlacesOf, running, alias)) <= Cardinality(Held(PlacesOf', running', alias))
  BY <1>1, InUseAsHeld, HeldMonotone
<1> QED
  BY <1>2, InUseAsHeld

(* A connection that was not free for a job is then still not free.        *)
LEMMA ConnectionsStayTaken ==
  ASSUME TypeOK, TypeOK', running \subseteq running',
         \A k \in running : Places(k) <= Places(k)',
         NEW j \in Jobs, Places(j)' = Places(j), ~ConnectionsFree(j)
  PROVE  ~ConnectionsFree(j)'
<1>1. PICK alias \in Uses[j] : ~ConnectionFree(j, alias)
  BY DEF ConnectionsFree
<1>2. InUse(alias) <= InUse(alias)' /\ InUse(alias) \in Nat /\ InUse(alias)' \in Nat
  BY InUseGrows, InUseAsHeld
<1>3. Places(j) \in Nat /\ Limit[alias] \in Nat
  BY ConnectionsAssumption DEF Places, TypeOK
<1>4. ~ConnectionFree(j, alias)'
  BY <1>1, <1>2, <1>3 DEF ConnectionFree
<1> QED
  BY <1>4 DEF ConnectionsFree

(* Fewer running jobs with the same places keep within the limits.         *)
LEMMA PlacesShrink ==
  ASSUME TypeOK, TypeOK', PlacesInv, running' \subseteq running,
         \A k \in running' : reserved'[k] = reserved[k]
  PROVE  PlacesInv'
<1> SUFFICES ASSUME NEW alias \in Aliases
             PROVE  InUse(alias)' <= Limit[alias]
                    \/ \A j, k \in Users(alias)' : j = k
  BY DEF PlacesInv
<1>1. Users(alias)' \subseteq Users(alias)
  BY DEF Users
<1>2. \A j \in running' : PlacesOf'[j] = PlacesOf[j] /\ PlacesOf[j] \in Nat
  BY InUseAsHeld DEF Places, PlaceCounts, TypeOK
<1>3. \A j \in running' : PlacesOf'[j] <= PlacesOf[j]
  BY <1>2
<1>4. InUse(alias)' <= InUse(alias)
  BY <1>3, HeldMonotone, InUseAsHeld
<1>5. InUse(alias)' \in Nat /\ InUse(alias) \in Nat /\ Limit[alias] \in Nat
  BY InUseAsHeld, ConnectionsAssumption
<1> QED
  BY <1>1, <1>4, <1>5 DEF PlacesInv

(* A job starts only on connections that are free for it.                  *)
LEMMA PlacesTakeStart ==
  ASSUME TypeOK, TypeOK', GraphInv, LoopInv, PlacesInv, NEW j \in Jobs, TakeStart(j)
  PROVE  PlacesInv'
<1> SUFFICES ASSUME NEW alias \in Aliases
             PROVE  InUse(alias)' <= Limit[alias]
                    \/ \A k, l \in Users(alias)' : k = l
  BY DEF PlacesInv
<1>1. j \notin running /\ running' = running \cup {j} /\ PlacesOf' = PlacesOf
  BY DEF TakeStart, LoopInv, GraphInv, PlacesOf, Places
<1>2. InUse(alias)' = IF alias \in Uses[j] THEN InUse(alias) + Places(j) ELSE InUse(alias)
  <2>1. PlacesOf \in PlaceCounts /\ running \in SUBSET Jobs /\ j \in Jobs \ running
    BY <1>1, InUseAsHeld
  <2>2. Cardinality(Held(PlacesOf, running \cup {j}, alias)) =
          IF alias \in Uses[j] THEN Cardinality(Held(PlacesOf, running, alias)) + PlacesOf[j]
                               ELSE Cardinality(Held(PlacesOf, running, alias))
    BY <2>1, HeldAdd
  <2> QED
    BY <1>1, <2>2, InUseAsHeld
<1>3. InUse(alias) \in Nat /\ Limit[alias] \in Nat /\ Places(j) \in Nat
  BY InUseAsHeld, ConnectionsAssumption DEF Places, TypeOK
<1>4. CASE alias \notin Uses[j]
  <2>1. Users(alias)' = Users(alias)
    BY <1>1, <1>4 DEF Users
  <2> QED
    BY <2>1, <1>2, <1>4 DEF PlacesInv
<1>5. CASE alias \in Uses[j] /\ InUse(alias) = 0
  <2>1. \A k \in running : alias \notin Uses[k]
    BY <1>5, InUseAsHeld, HeldNone
  <2>2. Users(alias)' \subseteq {j}
    BY <1>1, <2>1 DEF Users
  <2> QED
    BY <2>2
<1>6. CASE alias \in Uses[j] /\ InUse(alias) + Places(j) <= Limit[alias]
  BY <1>2, <1>6
<1>7. alias \in Uses[j] => ConnectionFree(j, alias)
  BY DEF TakeStart, MayStart, ConnectionsFree
<1> QED
  BY <1>4, <1>5, <1>6, <1>7 DEF ConnectionFree

(* A job reserves no more than the places beside the other jobs.           *)
LEMMA PlacesStartJob ==
  ASSUME TypeOK, TypeOK', LoopInv, ReservedInv, PlacesInv, NEW j \in Jobs, StartJob(j)
  PROVE  PlacesInv'
<1>1. j \in starting /\ j \in running /\ running' = running /\ reserved[j] = 1
  BY DEF StartJob, LoopInv, ReservedInv
<1>2. CASE j \notin Automatic \/ Reservation(j) = 1
  <2>1. reserved' = reserved
    BY <1>1, <1>2 DEF StartJob, TypeOK
  <2> QED
    BY <1>1, <2>1, PlacesShrink
<1>3. CASE j \in Automatic /\ Reservation(j) # 1
  <2> DEFINE n == Reservation(j)
             others == running \ {j}
  <2>1. reserved' = [reserved EXCEPT ![j] = n]
    BY <1>3 DEF StartJob
  <2>2. n \in Nat \ {0} /\ FitsPlaces(j, n)
    BY <1>1, ReservationFits
  <2> HIDE DEF n
  <2>3. others \in SUBSET Jobs /\ j \notin others /\ running = others \cup {j}
    BY <1>1 DEF TypeOK
  <2>4. PlacesOf'[j] = n /\ \A k \in others : PlacesOf'[k] = PlacesOf[k]
    BY <2>1, <2>3, <1>3 DEF PlacesOf, Places, TypeOK
  <2>5. SUFFICES ASSUME NEW alias \in Aliases
                 PROVE  InUse(alias)' <= Limit[alias]
                        \/ \A k, l \in Users(alias)' : k = l
    BY DEF PlacesInv
  <2>6. Held(PlacesOf', others, alias) = Held(PlacesOf, others, alias)
    BY <2>4 DEF Held
  <2>7. InUse(alias)' = IF alias \in Uses[j]
                        THEN Cardinality(Held(PlacesOf, others, alias)) + n
                        ELSE Cardinality(Held(PlacesOf, others, alias))
    <3>1. PlacesOf' \in PlaceCounts /\ j \in Jobs \ others
      BY <2>3, InUseAsHeld
    <3> HIDE DEF others
    <3>2. ASSUME NEW p \in PlaceCounts
          PROVE  Cardinality(Held(p, others \cup {j}, alias)) =
                   IF alias \in Uses[j] THEN Cardinality(Held(p, others, alias)) + p[j]
                                        ELSE Cardinality(Held(p, others, alias))
      <4>1. others \in SUBSET Jobs /\ j \in Jobs \ others
        BY <2>3, <3>1
      <4> QED
        BY <4>1, HeldAdd
    <3> QED
      BY <1>1, <2>3, <2>4, <2>6, <3>1, <3>2, InUseAsHeld
  <2>8. CASE alias \in Uses[j]
    <3>1. Cardinality(HeldBy(others, alias)) + n <= Limit[alias]
      BY <1>3, <2>2, <2>8 DEF FitsPlaces, n
    <3>2. HeldBy(others, alias) = Held(PlacesOf, others, alias)
      BY <2>3, PlacesType DEF TypeOK
    <3> QED
      BY <2>7, <2>8, <3>1, <3>2
  <2>9. CASE alias \notin Uses[j]
    <3>1. InUse(alias) = Cardinality(Held(PlacesOf, others, alias))
      <4>1. PlacesOf \in PlaceCounts /\ j \in Jobs \ others
        BY <2>3, InUseAsHeld
      <4> HIDE DEF others
      <4>2. Cardinality(Held(PlacesOf, others \cup {j}, alias)) =
              Cardinality(Held(PlacesOf, others, alias))
        BY <2>3, <2>9, <4>1, HeldAdd
      <4> QED
        BY <2>3, <4>2, InUseAsHeld
    <3>2. InUse(alias)' = InUse(alias) /\ Users(alias)' = Users(alias)
      BY <1>1, <2>7, <2>9, <3>1 DEF Users
    <3> QED
      BY <3>2 DEF PlacesInv
  <2> QED
    BY <2>8, <2>9
<1> QED
  BY <1>2, <1>3

LEMMA PlacesInit == Init => PlacesInv
  BY DEF Init, PlacesInv, Users

LEMMA PlacesInvStep ==
  TypeOK /\ GraphInv /\ LoopInv /\ ReservedInv /\ PlacesInv /\ [Next]_vars => PlacesInv'
<1> SUFFICES ASSUME TypeOK, GraphInv, LoopInv, ReservedInv, PlacesInv, [Next]_vars
             PROVE  PlacesInv'
  OBVIOUS
<1> USE DEF graphVars, takeVars, loopVars, envVars
<1>1. TypeOK'
  BY TypeStep
<1>2. CASE UNCHANGED <<running, reserved>>
  BY <1>1, <1>2, PlacesShrink
<1>3. ASSUME NEW j \in Jobs, TakeStart(j) PROVE PlacesInv'
  BY <1>1, <1>3, PlacesTakeStart
<1>4. ASSUME NEW j \in Jobs, StartJob(j) PROVE PlacesInv'
  BY <1>1, <1>4, PlacesStartJob
<1>5. ASSUME NEW j \in Jobs, PollOutcome(j) \/ PollDied(j) \/ PollLate(j) PROVE PlacesInv'
  <2>1. running' \subseteq running /\ reserved' = reserved
    BY <1>5 DEF PollOutcome, PollDied, PollLate, FinishJob
  <2> QED
    BY <1>1, <2>1, PlacesShrink
<1>6. CASE NewCycle
  BY <1>6 DEF NewCycle, PlacesInv, Users
<1> QED
  BY <1>2, <1>3, <1>4, <1>5, <1>6
     DEF Next, LoopStep, vars, CycleEnds, SkipNotStarted, BeginTake, TakeSkip, TakePass,
         TakeAgain, TakeDone, StartDone, NothingRuns, Wake, PollRunning, PollsDone, RunEnds,
         Pause, StopProcess, Abort, Raise, Signal, JobEnds, DeadlinePasses

-------------------------------------------------------------------------------
(* What takeReady establishes                                              *)

(* A job takeReady passed over is blocked.                                 *)
LEMMA PassedOverIsBlocked ==
  ASSUME TypeOK, LoopInv, pc = "take", NEW j \in Jobs, ~MayStart(j)
  PROVE  Blocked(j, procs \cup starting)
<1>1. procs \in SUBSET Jobs /\ starting \in SUBSET Jobs /\ procs \cap starting = {}
  BY DEF TypeOK, LoopInv
<1>2. Cardinality(procs \cup starting) =
        Cardinality(procs) + Cardinality(starting) - Cardinality(procs \cap starting)
  BY <1>1, JobSets, FS_Union
<1>3. Cardinality(procs \cap starting) = 0
  BY <1>1, FS_EmptySet
<1>4. Cardinality(procs \cup starting) = Cardinality(procs) + Cardinality(starting)
  BY <1>1, <1>2, <1>3, JobSets
<1>5. Cardinality(procs) \in Nat /\ Cardinality(starting) \in Nat
  BY <1>1, JobSets
<1>6. ~(Cardinality(starting) < Workers - Cardinality(procs))
      => Cardinality(procs \cup starting) >= Workers
  BY <1>4, <1>5, WorkersAssumption
<1> QED
  BY <1>6 DEF MayStart, Blocked

(* A blocked job stays blocked while no decision is reached that completes *)
(* a job, no slot becomes free and no connection is given back.            *)
LEMMA BlockedStays ==
  ASSUME TypeOK, TypeOK', NEW j \in Jobs, NEW S \in SUBSET Jobs, NEW T \in SUBSET Jobs,
         Blocked(j, S), S \subseteq T, active' = active, Completed' = Completed,
         running \subseteq running', \A k \in running : Places(k) <= Places(k)',
         Places(j)' = Places(j)
  PROVE  Cardinality(T) >= Workers \/ ~(ActivePreds(j)' \subseteq Completed') \/ ~ConnectionsFree(j)'
<1>1. CASE Cardinality(S) >= Workers
  <2>1. Cardinality(S) <= Cardinality(T)
    BY JobSets, FS_Subset
  <2>2. Cardinality(S) \in Nat /\ Cardinality(T) \in Nat
    BY JobSets
  <2> QED
    BY <1>1, <2>1, <2>2, WorkersAssumption
<1>2. CASE ~(ActivePreds(j) \subseteq Completed)
  BY <1>2 DEF ActivePreds
<1>3. CASE ~ConnectionsFree(j)
  BY <1>3, ConnectionsStayTaken
<1> QED
  BY <1>1, <1>2, <1>3 DEF Blocked

LEMMA TakeInit == Init => TakeInv
  BY DEF Init, TakeInv

(* A step of takeReady on one job, which may start or skip it or pass it   *)
(* over, keeps what is known of the jobs looked at before.                 *)
LEMMA TakeKeeps ==
  ASSUME TypeOK, TypeOK', LoopInv, TakeInv, pc = "take",
         NEW j \in Jobs, TakeSkip(j) \/ TakeStart(j) \/ TakePass(j),
         NEW k \in notStarted \ scan, k # j
  PROVE  /\ Blocked(k, procs \cup starting)'
         /\ ~changed' => ActivePreds(k)' \cap Unsuccessful' = {}
<1> USE DEF graphVars, takeVars, loopVars, envVars
<1>1. k \in Jobs /\ Blocked(k, procs \cup starting)
      /\ (~changed => ActivePreds(k) \cap Unsuccessful = {})
  BY DEF TakeInv, TypeOK
<1>2. active' = active /\ reserved' = reserved /\ running \subseteq running' /\ procs' = procs
      /\ starting \subseteq starting'
  BY DEF TakeSkip, TakeStart, TakePass
<1>3. Completed' = Completed
  <2>1. CASE TakeSkip(j)
    BY <2>1, DecideOne DEF TakeSkip, Completed
  <2>2. CASE TakeStart(j) \/ TakePass(j)
    BY <2>2 DEF TakeStart, TakePass, Completed, DecidedAs
  <2> QED
    BY <2>1, <2>2
<1>4. \A i \in Jobs : Places(i)' = Places(i) /\ Places(i) \in Nat
  BY <1>2, ConnectionsAssumption DEF Places, TypeOK
<1>5. \A i \in running : Places(i) <= Places(i)'
  BY <1>4 DEF TypeOK
<1>6. procs \cup starting \in SUBSET Jobs /\ procs' \cup starting' \in SUBSET Jobs
  BY DEF TypeOK
<1>7. Blocked(k, procs \cup starting)'
  BY <1>1, <1>2, <1>3, <1>4, <1>5, <1>6, BlockedStays DEF Blocked
<1>8. ~changed' => ~changed /\ outcomes' = outcomes
  BY DEF TakeSkip, TakeStart, TakePass
<1>9. ~changed' => ActivePreds(k)' \cap Unsuccessful' = {}
  BY <1>1, <1>2, <1>8 DEF ActivePreds, Unsuccessful, DecidedAs
<1> QED
  BY <1>7, <1>9

(* Starting one process of the chosen keeps every other job blocked.       *)
LEMMA StartKeeps ==
  ASSUME TypeOK, TypeOK', GraphInv, LoopInv, ReservedInv, TakeInv,
         NEW j \in Jobs, StartJob(j), NEW k \in notStarted
  PROVE  /\ Blocked(k, procs \cup starting)'
         /\ ActivePreds(k)' \cap Unsuccessful' = {}
<1> USE DEF graphVars, takeVars, loopVars, envVars
<1>1. k \in Jobs /\ Blocked(k, procs \cup starting) /\ ActivePreds(k) \cap Unsuccessful = {}
  BY DEF TakeInv, TypeOK, StartJob
<1>2. active' = active /\ running' = running /\ outcomes' = outcomes
      /\ procs' \cup starting' = procs \cup starting
  BY DEF StartJob
<1>3. Completed' = Completed /\ Unsuccessful' = Unsuccessful
  BY <1>2 DEF Completed, Unsuccessful, DecidedAs
<1>4. j \in running /\ j \notin notStarted /\ reserved[j] = 1
  BY DEF StartJob, LoopInv, GraphInv, ReservedInv
<1>5. \A i \in Jobs : reserved[i] <= reserved'[i] /\ (i # j => reserved'[i] = reserved[i])
  BY <1>4 DEF StartJob, TypeOK
<1>6. \A i \in running : Places(i) <= Places(i)'
  BY <1>5, ConnectionsAssumption DEF Places, TypeOK
<1>7. Places(k)' = Places(k)
  BY <1>1, <1>4, <1>5 DEF Places
<1>8. procs \cup starting \in SUBSET Jobs /\ procs' \cup starting' \in SUBSET Jobs
  BY DEF TypeOK
<1>9. Blocked(k, procs \cup starting)'
  BY <1>1, <1>2, <1>3, <1>6, <1>7, <1>8, BlockedStays DEF Blocked
<1> QED
  BY <1>1, <1>2, <1>3, <1>9 DEF ActivePreds

LEMMA TakeInvStep ==
  TypeOK /\ GraphInv /\ LoopInv /\ ReservedInv /\ TakeInv /\ [Next]_vars => TakeInv'
<1> SUFFICES ASSUME TypeOK, GraphInv, LoopInv, ReservedInv, TakeInv, [Next]_vars
             PROVE  TakeInv'
  OBVIOUS
<1> USE DEF graphVars, takeVars, loopVars, envVars
<1>1. TypeOK'
  BY TypeStep
<1>2. CASE pc' \notin {"take", "start", "wait"}
  BY <1>2 DEF TakeInv
<1>3. CASE SkipNotStarted
  BY <1>3 DEF SkipNotStarted, TakeInv
<1>4. CASE BeginTake \/ TakeAgain
  BY <1>4 DEF BeginTake, TakeAgain, TakeInv
<1>5. ASSUME NEW j \in Jobs, TakeSkip(j) \/ TakeStart(j) PROVE TakeInv'
  <2>1. pc = "take" /\ pc' = "take" /\ notStarted' \ scan' = (notStarted \ scan) \ {j}
    BY <1>5 DEF TakeSkip, TakeStart
  <2>2. \A k \in notStarted' \ scan' : k \in notStarted \ scan /\ k # j
    BY <2>1
  <2>3. \A k \in notStarted' \ scan' :
          /\ Blocked(k, procs \cup starting)'
          /\ ~changed' => ActivePreds(k)' \cap Unsuccessful' = {}
    BY <1>1, <1>5, <2>1, <2>2, TakeKeeps
  <2> QED
    BY <2>1, <2>3 DEF TakeInv
<1>6. ASSUME NEW j \in Jobs, TakePass(j) PROVE TakeInv'
  <2>1. pc = "take" /\ pc' = "take" /\ notStarted' \ scan' \subseteq (notStarted \ scan) \cup {j}
    BY <1>6 DEF TakePass
  <2>2. ASSUME NEW k \in notStarted \ scan, k # j
        PROVE  /\ Blocked(k, procs \cup starting)'
               /\ ~changed' => ActivePreds(k)' \cap Unsuccessful' = {}
    BY <1>1, <1>6, <2>1, <2>2, TakeKeeps
  <2>3. Blocked(j, procs \cup starting) /\ ActivePreds(j) \cap Unsuccessful = {}
    BY <1>6, <2>1, PassedOverIsBlocked DEF TakePass
  <2>4. UNCHANGED <<active, running, reserved, outcomes, procs, starting>>
    BY <1>6 DEF TakePass
  <2>5. Blocked(j, procs \cup starting)' /\ ActivePreds(j)' \cap Unsuccessful' = {}
    BY <2>3, <2>4 DEF Blocked, ActivePreds, Completed, Unsuccessful, DecidedAs,
                      ConnectionsFree, ConnectionFree, InUse, HeldBy, Places
  <2> QED
    BY <2>1, <2>2, <2>5 DEF TakeInv
<1>7. CASE TakeDone
  <2>1. UNCHANGED <<active, notStarted, running, reserved, outcomes, procs, starting>>
    BY <1>7 DEF TakeDone
  <2>2. \A k \in notStarted : Blocked(k, procs \cup starting)
                              /\ ActivePreds(k) \cap Unsuccessful = {}
    BY <1>7 DEF TakeDone, TakeInv
  <2>3. \A k \in notStarted : Blocked(k, procs \cup starting)'
                              /\ ActivePreds(k)' \cap Unsuccessful' = {}
    BY <2>1, <2>2, ZenonT(30) DEF Blocked, ActivePreds, Completed, Unsuccessful, DecidedAs,
                      ConnectionsFree, ConnectionFree, InUse, HeldBy, Places
  <2>4. pc' = "start" /\ notStarted' = notStarted
    BY <1>7 DEF TakeDone
  <2> QED
    BY <2>3, <2>4 DEF TakeInv
<1>8. ASSUME NEW j \in Jobs, StartJob(j) PROVE TakeInv'
  <2>1. pc' = "start" /\ notStarted' = notStarted
    BY <1>8 DEF StartJob
  <2>2. \A k \in notStarted : Blocked(k, procs \cup starting)'
                              /\ ActivePreds(k)' \cap Unsuccessful' = {}
    BY <1>1, <1>8, StartKeeps
  <2> QED
    BY <2>1, <2>2 DEF TakeInv
<1>9. CASE StartDone
  <2>1. UNCHANGED <<active, notStarted, running, reserved, outcomes, procs, starting>>
        /\ pc = "start" /\ pc' = "wait" /\ procs \cup starting = procs
    BY <1>9 DEF StartDone
  <2>2. \A k \in notStarted : Blocked(k, procs) /\ ActivePreds(k) \cap Unsuccessful = {}
    BY <2>1 DEF TakeInv
  <2>3. \A k \in notStarted : Blocked(k, procs)' /\ ActivePreds(k)' \cap Unsuccessful' = {}
    BY <2>1, <2>2 DEF Blocked, ActivePreds, Completed, Unsuccessful, DecidedAs,
                      ConnectionsFree, ConnectionFree, InUse, HeldBy, Places
  <2> QED
    BY <2>1, <2>3 DEF TakeInv
<1>10. CASE UNCHANGED <<graphVars, pc, scan, changed, starting, procs>>
  <2>1. \A k \in Jobs :
          /\ Blocked(k, procs \cup starting)' <=> Blocked(k, procs \cup starting)
          /\ Blocked(k, procs)' <=> Blocked(k, procs)
          /\ ActivePreds(k)' \cap Unsuccessful' = ActivePreds(k) \cap Unsuccessful
    BY <1>10 DEF Blocked, ActivePreds, Completed, Unsuccessful, DecidedAs,
                 ConnectionsFree, ConnectionFree, InUse, HeldBy, Places
  <2>2. UNCHANGED <<pc, notStarted, scan, changed>> /\ notStarted \subseteq Jobs
    BY <1>10 DEF TypeOK
  <2>3. CASE pc = "take"
    BY <2>1, <2>2, <2>3 DEF TakeInv
  <2>4. CASE pc = "start"
    BY <2>1, <2>2, <2>4 DEF TakeInv
  <2>5. CASE pc = "wait"
    BY <2>1, <2>2, <2>5 DEF TakeInv
  <2>6. CASE pc \notin {"take", "start", "wait"}
    BY <2>2, <2>6 DEF TakeInv
  <2> QED
    BY <2>3, <2>4, <2>5, <2>6
<1> QED
  BY <1>2, <1>3, <1>4, <1>5, <1>6, <1>7, <1>8, <1>9, <1>10
     DEF Next, LoopStep, vars, CycleEnds, NothingRuns, Wake, PollOutcome, PollDied, PollLate,
         PollRunning, FinishJob, PollsDone, RunEnds, Pause, NewCycle, StopProcess, Abort, Raise,
         Signal, JobEnds, DeadlinePasses

-------------------------------------------------------------------------------
(* The safety properties                                                   *)

LEMMA Inductive == Spec => []IInv
<1>1. Init => IInv
  BY InitType, GraphInit, LoopInit, SlotsInit, PlacesInit, TakeInit DEF IInv
<1>2. IInv /\ [Next]_vars => IInv'
  BY TypeStep, GraphInvStep, LoopInvStep, ProcInvStep, SlotsInvStep, ReservedInvStep,
     PlacesInvStep, TakeInvStep DEF IInv
<1> QED
  BY <1>1, <1>2, PTL DEF Spec

(* A job that waits waits for a predecessor to be decided, a slot or a     *)
(* connection: takeReady never leaves one waiting that could start, and    *)
(* the skips it makes are followed up to the last successor.               *)
LEMMA WaitHasAReason == IInv => EveryWaitHasAReason
<1> SUFFICES ASSUME IInv, pc = "wait", NEW j \in notStarted,
                    Cardinality(procs) # Workers, ConnectionsFree(j)
             PROVE  ActivePreds(j) \cap (notStarted \cup running) # {}
  BY DEF EveryWaitHasAReason
<1>1. Blocked(j, procs) /\ ActivePreds(j) \cap Unsuccessful = {}
  BY DEF IInv, TakeInv
<1>2. Cardinality(procs) \in Nat /\ Cardinality(procs) <= Workers
  BY JobSets DEF IInv, TypeOK, SlotsInv
<1>3. PICK p \in ActivePreds(j) : p \notin Completed
  BY <1>1, <1>2, WorkersAssumption DEF Blocked
<1>4. p \in active /\ p \notin Unsuccessful
  BY <1>1, <1>3 DEF ActivePreds
<1>5. p \in Jobs /\ p \notin DecidedJobs
  BY <1>3, <1>4 DEF IInv, TypeOK, DecidedJobs, DecidedAs, Statuses, Completed, Unsuccessful
<1>6. p \in notStarted \cup running
  BY <1>4, <1>5 DEF IInv, GraphInv
<1> QED
  BY <1>3, <1>6

THEOREM WaitsAreReasoned == Spec => []EveryWaitHasAReason
  BY Inductive, WaitHasAReason, PTL

(* Once no process runs, every job of the cycle is decided, so the run     *)
(* cannot spin over jobs that nothing will start.  Were some not started,  *)
(* one of them would have no predecessor among them, and nothing it could  *)
(* wait for: every slot and every connection is free.                      *)
LEMMA AllDecidedWhenNothingRuns == IInv => JobsAllDecided
<1> SUFFICES ASSUME IInv, pc = "wait", procs = {} PROVE notStarted = {} /\ running = {}
  BY DEF JobsAllDecided, Finished
<1>1. running = {}
  BY DEF IInv, LoopInv
<1>2. ASSUME notStarted # {} PROVE FALSE
  <2>1. notStarted \in SUBSET Jobs
    BY DEF IInv, TypeOK
  <2>2. PICK j \in notStarted : Preds[j] \cap notStarted = {}
    BY <1>2, <2>1, AcyclicAssumption
  <2>3. ActivePreds(j) \cap (notStarted \cup running) = {}
    BY <1>1, <2>2 DEF ActivePreds
  <2>4. Cardinality(procs) # Workers
    BY FS_EmptySet, WorkersAssumption
  <2>5. ConnectionsFree(j)
    <3>1. \A alias : HeldBy(running, alias) = {}
      BY <1>1 DEF HeldBy
    <3>2. \A alias : InUse(alias) = 0
      BY <3>1, FS_EmptySet DEF InUse
    <3> QED
      BY <3>2 DEF ConnectionsFree, ConnectionFree
  <2> QED
    BY <2>3, <2>4, <2>5, WaitHasAReason DEF EveryWaitHasAReason
<1> QED
  BY <1>1, <1>2

THEOREM NothingRunsAllDecided == Spec => []JobsAllDecided
  BY Inductive, AllDecidedWhenNothingRuns, PTL

(* Workers and maxConcurrentJobs are never exceeded, whatever the jobs     *)
(* with `partitions: auto` reserve as they start.                          *)
THEOREM LimitsKept == Spec => []LimitsHold
<1>1. IInv => LimitsHold
  BY DEF IInv, SlotsInv, PlacesInv, LimitsHold
<1> QED
  BY <1>1, Inductive, PTL

(* No job's process outlives its cycle or a run that raised.               *)
THEOREM NoneOutlivesCycle == Spec => []NoProcessOutlivesCycle
<1>1. IInv => NoProcessOutlivesCycle
  BY DEF IInv, LoopInv, ProcInv, NoProcessOutlivesCycle, TypeOK
<1> QED
  BY <1>1, Inductive, PTL

-------------------------------------------------------------------------------
(* RunCycle implements Schedule                                            *)

Phases == [j \in Jobs |-> PhaseOf(j)]

(* What phase each set of the graph means.                                 *)
PhaseFacts ==
  \A j \in Jobs :
    /\ j \notin active => Phases[j] = "left out"
    /\ j \in notStarted => Phases[j] = "waiting"
    /\ j \in running => Phases[j] = "running"
    /\ \A s \in Statuses : Decision(j, s) \in outcomes => Phases[j] = s
    /\ j \in active \ (notStarted \cup running) =>
         Phases[j] \in Statuses /\ Decision(j, Phases[j]) \in outcomes

LEMMA PhaseIs == TypeOK /\ GraphInv => PhaseFacts
<1> SUFFICES ASSUME TypeOK, GraphInv, NEW j \in Jobs
             PROVE  /\ j \notin active => PhaseOf(j) = "left out"
                    /\ j \in notStarted => PhaseOf(j) = "waiting"
                    /\ j \in running => PhaseOf(j) = "running"
                    /\ \A s \in Statuses : Decision(j, s) \in outcomes => PhaseOf(j) = s
                    /\ j \in active \ (notStarted \cup running) =>
                         PhaseOf(j) \in Statuses /\ Decision(j, PhaseOf(j)) \in outcomes
  BY DEF PhaseFacts, Phases
<1>1. j \notin active => PhaseOf(j) = "left out"
  BY DEF PhaseOf
<1>2. j \in notStarted => PhaseOf(j) = "waiting"
  BY DEF PhaseOf, GraphInv
<1>3. j \in running => PhaseOf(j) = "running"
  BY DEF PhaseOf, GraphInv
<1>4. ASSUME NEW s \in Statuses, Decision(j, s) \in outcomes
      PROVE  PhaseOf(j) = s /\ j \in active \ (notStarted \cup running)
  <2>1. j \in DecidedJobs
    BY <1>4 DEF DecidedJobs, DecidedAs
  <2>2. j \in active \ (notStarted \cup running)
    BY <2>1 DEF GraphInv
  <2>3. \A t \in Statuses : Decision(j, t) \in outcomes => t = s
    BY <1>4 DEF GraphInv
  <2> QED
    BY <1>4, <2>2, <2>3 DEF PhaseOf
<1>5. ASSUME j \in active \ (notStarted \cup running)
      PROVE  PhaseOf(j) \in Statuses /\ Decision(j, PhaseOf(j)) \in outcomes
  <2>1. PICK s \in Statuses : Decision(j, s) \in outcomes
    BY <1>5 DEF GraphInv, DecidedJobs, DecidedAs
  <2> QED
    BY <1>4, <2>1
<1> QED
  BY <1>1, <1>2, <1>3, <1>4, <1>5

LEMMA MappedInit == Init => Promise!Init
<1> SUFFICES ASSUME Init PROVE Promise!Init
  OBVIOUS
<1>1. \A j \in Jobs : PhaseOf(j) \in {"left out", "waiting"}
  BY DEF Init, PhaseOf
<1> QED
  BY <1>1 DEF Init, Promise!Init, Promise!CyclePhases

LEMMA MappedActive ==
  ASSUME PhaseFacts, TypeOK
  PROVE  Promise!Active = active
<1>1. \A j \in Jobs : Phases[j] # "left out" <=> j \in active
  BY DEF PhaseFacts, Statuses, TypeOK
<1> QED
  BY <1>1 DEF Promise!Active, TypeOK, Phases

(* A step that decides or starts job j alone changes j's phase alone.      *)
LEMMA OnePhaseChanges ==
  ASSUME TypeOK, TypeOK', GraphInv, GraphInv', NEW j \in Jobs, active' = active,
         notStarted' \ {j} = notStarted \ {j}, running' \ {j} = running \ {j},
         \A k \in Jobs \ {j}, s \in Statuses : Decision(k, s) \in outcomes' <=> Decision(k, s) \in outcomes
  PROVE  Phases' = [Phases EXCEPT ![j] = Phases'[j]]
<1>1. PhaseFacts /\ PhaseFacts'
  <2>1. TypeOK' /\ GraphInv' => PhaseFacts'
    BY PhaseIs, PTL
  <2> QED
    BY <2>1, PhaseIs
<1>2. ASSUME NEW k \in Jobs, k # j PROVE Phases'[k] = Phases[k]
  <2>1. CASE k \in active \ (notStarted \cup running)
    <3>1. Phases[k] \in Statuses /\ Decision(k, Phases[k]) \in outcomes
      BY <1>1, <2>1 DEF PhaseFacts
    <3>2. Decision(k, Phases[k]) \in outcomes'
      BY <1>2, <3>1
    <3>3. \A s \in Statuses : Decision(k, s) \in outcomes' => Phases'[k] = s
      BY <1>1 DEF PhaseFacts
    <3> QED
      BY <3>1, <3>2, <3>3
  <2>2. CASE k \notin active
    <3>1. k \notin active'
      BY <2>2
    <3>2. Phases'[k] = "left out"
      BY <1>1, <3>1 DEF PhaseFacts
    <3>3. Phases[k] = "left out"
      BY <1>1, <2>2 DEF PhaseFacts
    <3> QED
      BY <3>2, <3>3
  <2>3. CASE k \in notStarted
    <3>1. k \in notStarted'
      BY <1>2, <2>3
    <3>2. Phases'[k] = "waiting"
      BY <1>1, <3>1 DEF PhaseFacts
    <3>3. Phases[k] = "waiting"
      BY <1>1, <2>3 DEF PhaseFacts
    <3> QED
      BY <3>2, <3>3
  <2>4. CASE k \in running
    <3>1. k \in running'
      BY <1>2, <2>4
    <3>2. Phases'[k] = "running"
      BY <1>1, <3>1 DEF PhaseFacts
    <3>3. Phases[k] = "running"
      BY <1>1, <2>4 DEF PhaseFacts
    <3> QED
      BY <3>2, <3>3
  <2> QED
    BY <2>1, <2>2, <2>3, <2>4
<1> QED
  BY <1>2 DEF Phases

LEMMA MappedStep ==
  IInv /\ IInv' /\ [Next]_vars => [Promise!Next]_(Promise!vars)
<1> SUFFICES ASSUME IInv, IInv', [Next]_vars
             PROVE  Promise!Next \/ UNCHANGED <<Phases, terminating>>
  BY DEF Promise!vars, Phases
<1> USE DEF graphVars, takeVars, loopVars, envVars
<1>1. TypeOK /\ TypeOK' /\ GraphInv /\ GraphInv' /\ LoopInv
  BY DEF IInv
<1>2. PhaseFacts /\ PhaseFacts'
  <2>1. TypeOK' /\ GraphInv' => PhaseFacts'
    BY PhaseIs, PTL
  <2> QED
    BY <1>1, <2>1, PhaseIs
<1>3. Promise!Active = active
  BY <1>1, <1>2, MappedActive
<1>4. \A j \in Jobs : Promise!ActivePreds(j) = ActivePreds(j) /\ ActivePreds(j) \subseteq Jobs
  BY <1>3, <1>1 DEF Promise!ActivePreds, ActivePreds, TypeOK
<1>5. ASSUME NEW j \in Jobs, TakeSkip(j) PROVE Promise!Skip(j)
  <2>1. j \in notStarted /\ Phases[j] = "waiting"
    BY <1>1, <1>2, <1>5 DEF TakeSkip, LoopInv, PhaseFacts
  <2>2. PICK p \in ActivePreds(j) : p \in Unsuccessful
    BY <1>5 DEF TakeSkip
  <2>3. PICK s \in {"failed", "skipped"} : p \in Jobs /\ Decision(p, s) \in outcomes
    BY <2>2 DEF Unsuccessful, DecidedAs
  <2>4. Phases[p] \in {"failed", "skipped"}
    BY <1>2, <2>3 DEF PhaseFacts, Statuses
  <2>5. Decision(j, "skipped") \in outcomes' /\ "skipped" \in Statuses
    BY <1>5 DEF TakeSkip, Statuses
  <2>6. Phases'[j] = "skipped"
    BY <1>2, <2>5 DEF PhaseFacts
  <2>7. Phases' = [Phases EXCEPT ![j] = Phases'[j]]
    <3>1. \A k \in Jobs \ {j}, t \in Statuses :
            Decision(k, t) \in outcomes' <=> Decision(k, t) \in outcomes
      BY <1>5, DecisionsDiffer DEF TakeSkip
    <3>2. active' = active /\ notStarted' \ {j} = notStarted \ {j} /\ running' \ {j} = running \ {j}
      BY <1>5 DEF TakeSkip
    <3> QED
      BY <1>1, <3>1, <3>2, OnePhaseChanges
  <2>8. Phases' = [Phases EXCEPT ![j] = "skipped"] /\ terminating' = terminating
    BY <1>5, <2>6, <2>7 DEF TakeSkip
  <2>9. \E q \in Promise!ActivePreds(j) : Phases[q] \in {"failed", "skipped"}
    BY <1>4, <2>2, <2>4
  <2> QED
    BY <2>1, <2>8, <2>9 DEF Promise!Skip, Phases
<1>6. ASSUME NEW j \in Jobs, TakeStart(j) PROVE Promise!Start(j)
  <2>1. j \in notStarted /\ Phases[j] = "waiting"
    BY <1>1, <1>2, <1>6 DEF TakeStart, LoopInv, PhaseFacts
  <2>2. \A p \in ActivePreds(j) : p \in Jobs /\ Decision(p, "completed") \in outcomes
    BY <1>6 DEF TakeStart, MayStart, Completed, DecidedAs
  <2>3. \A p \in ActivePreds(j) : Phases[p] = "completed"
    BY <1>2, <2>2 DEF PhaseFacts, Statuses
  <2>4. j \in running'
    BY <1>6 DEF TakeStart
  <2>5. Phases'[j] = "running"
    BY <1>2, <2>4 DEF PhaseFacts
  <2>6. Phases' = [Phases EXCEPT ![j] = Phases'[j]]
    <3>1. outcomes' = outcomes /\ active' = active
          /\ notStarted' \ {j} = notStarted \ {j} /\ running' \ {j} = running \ {j}
      BY <1>6 DEF TakeStart
    <3>2. \A k \in Jobs \ {j}, t \in Statuses :
            Decision(k, t) \in outcomes' <=> Decision(k, t) \in outcomes
      BY <3>1
    <3> QED
      BY <1>1, <3>1, <3>2, OnePhaseChanges
  <2>7. Phases' = [Phases EXCEPT ![j] = "running"] /\ terminating' = terminating
    BY <1>6, <2>5, <2>6 DEF TakeStart
  <2>8. \A p \in Promise!ActivePreds(j) : Phases[p] = "completed"
    BY <1>4, <2>3
  <2> QED
    BY <2>1, <2>7, <2>8, <1>4 DEF Promise!Start, Phases
<1>7. ASSUME NEW j \in Jobs, NEW s \in {"completed", "failed"}, pc = "poll", j \in toPoll,
             FinishJob(j, s)
      PROVE  Promise!Finish(j)
  <2>1. j \in running /\ s \in Statuses
    BY <1>1, <1>7 DEF LoopInv, Statuses
  <2>2. Phases[j] = "running"
    BY <1>2, <2>1 DEF PhaseFacts
  <2>3. Decision(j, s) \in outcomes'
    BY <1>7 DEF FinishJob
  <2>4. Phases'[j] = s
    BY <1>2, <2>1, <2>3 DEF PhaseFacts
  <2>5. Phases' = [Phases EXCEPT ![j] = Phases'[j]]
    <3>1. active' = active /\ notStarted' \ {j} = notStarted \ {j} /\ running' \ {j} = running \ {j}
      BY <1>7 DEF FinishJob
    <3>2. \A k \in Jobs \ {j}, t \in Statuses :
            Decision(k, t) \in outcomes' <=> Decision(k, t) \in outcomes
      BY <1>7, DecisionsDiffer DEF FinishJob
    <3> QED
      BY <1>1, <3>1, <3>2, OnePhaseChanges
  <2>6. Phases' = [Phases EXCEPT ![j] = s] /\ terminating' = terminating
    BY <1>7, <2>4, <2>5 DEF FinishJob
  <2> QED
    BY <2>2, <2>6 DEF Promise!Finish, Phases
<1>8. ASSUME NEW j \in Jobs, PollOutcome(j) \/ PollDied(j) \/ PollLate(j)
      PROVE  Promise!Finish(j)
  BY <1>7, <1>8 DEF PollOutcome, PollDied, PollLate
<1>9. CASE SkipNotStarted
  <2>1. /\ terminating /\ terminating' = terminating
        /\ notStarted' = {} /\ active' = active /\ running' = running
        /\ outcomes' = outcomes \cup {Decision(j, "skipped") : j \in notStarted}
    BY <1>9 DEF SkipNotStarted
  <2>2. ASSUME NEW k \in Jobs
        PROVE  Phases'[k] = IF Phases[k] = "waiting" THEN "skipped" ELSE Phases[k]
    <3>1. CASE k \in notStarted
      <4>1. Decision(k, "skipped") \in outcomes' /\ "skipped" \in Statuses
        BY <2>1, <3>1 DEF Statuses
      <4>2. Phases'[k] = "skipped"
        BY <1>2, <4>1 DEF PhaseFacts
      <4>3. Phases[k] = "waiting"
        BY <1>2, <3>1 DEF PhaseFacts
      <4> QED
        BY <4>2, <4>3
    <3>2. CASE k \notin active
      <4>1. k \notin active'
        BY <2>1, <3>2
      <4>2. Phases'[k] = "left out"
        BY <1>2, <4>1 DEF PhaseFacts
      <4>3. Phases[k] = "left out"
        BY <1>2, <3>2 DEF PhaseFacts
      <4> QED
        BY <4>2, <4>3
    <3>3. CASE k \in running
      <4>1. k \in running'
        BY <2>1, <3>3
      <4>2. Phases'[k] = "running"
        BY <1>2, <4>1 DEF PhaseFacts
      <4>3. Phases[k] = "running"
        BY <1>2, <3>3 DEF PhaseFacts
      <4> QED
        BY <4>2, <4>3
    <3>4. CASE k \in active \ (notStarted \cup running)
      <4>1. Phases[k] \in Statuses /\ Decision(k, Phases[k]) \in outcomes
        BY <1>2, <3>4 DEF PhaseFacts
      <4>2. Decision(k, Phases[k]) \in outcomes'
        BY <2>1, <4>1
      <4>3. \A s \in Statuses : Decision(k, s) \in outcomes' => Phases'[k] = s
        BY <1>2 DEF PhaseFacts
      <4>4. Phases'[k] = Phases[k] /\ Phases[k] # "waiting"
        BY <4>1, <4>2, <4>3 DEF Statuses
      <4> QED
        BY <4>4
    <3> QED
      BY <3>1, <3>2, <3>3, <3>4
  <2>3. Phases' = [j \in Jobs |-> IF Phases[j] = "waiting" THEN "skipped" ELSE Phases[j]]
    BY <2>2 DEF Phases
  <2>4. Promise!SkipRest
    BY <2>1, <2>3 DEF Promise!SkipRest, Phases
  <2> QED
    BY <2>4 DEF Promise!Next
<1>10. CASE NewCycle
  <2>1. notStarted = {} /\ running = {} /\ terminating' = terminating
        /\ notStarted' = active'
    BY <1>1, <1>10 DEF NewCycle, LoopInv
  <2>2. \A j \in active : Phases[j] \in {"completed", "failed", "skipped"}
    BY <1>1, <1>2, <2>1 DEF PhaseFacts, Statuses, TypeOK
  <2>3. \A j \in Jobs : Phases'[j] \in {"left out", "waiting"}
    <3>1. ASSUME NEW j \in Jobs, j \in active' PROVE Phases'[j] = "waiting"
      <4>1. j \in notStarted'
        BY <2>1, <3>1
      <4> QED
        BY <1>2, <4>1 DEF PhaseFacts
    <3>2. ASSUME NEW j \in Jobs, j \notin active' PROVE Phases'[j] = "left out"
      BY <1>2, <3>2 DEF PhaseFacts
    <3> QED
      BY <3>1, <3>2
  <2>4. Promise!AllDecided
    BY <1>3, <2>2 DEF Promise!AllDecided, Promise!Decided, Phases
  <2>5. Promise!NewCycle
    BY <2>1, <2>3, <2>4 DEF Promise!NewCycle, Promise!CyclePhases, Phases
  <2> QED
    BY <2>5 DEF Promise!Next
<1>11. ASSUME UNCHANGED <<active, notStarted, running, outcomes>> PROVE Phases' = Phases
  BY <1>11 DEF Phases, PhaseOf
<1>12. CASE Signal
  <2>1. Promise!Stop
    BY <1>11, <1>12 DEF Signal, Promise!Stop, Phases
  <2> QED
    BY <2>1 DEF Promise!Next
<1>13. CASE UNCHANGED <<active, notStarted, running, outcomes, terminating>>
  BY <1>11, <1>13
<1>14. ASSUME NEW j \in Jobs, TakeSkip(j) \/ TakeStart(j) \/ PollOutcome(j) \/ PollDied(j) \/ PollLate(j)
       PROVE  Promise!Next
  BY <1>5, <1>6, <1>8, <1>14 DEF Promise!Next
<1> QED
  BY <1>9, <1>10, <1>12, <1>13, <1>14
     DEF Next, LoopStep, vars, CycleEnds, BeginTake, TakePass, TakeAgain, TakeDone, StartJob,
         StartDone, NothingRuns, Wake, PollRunning, PollsDone, RunEnds, Pause, StopProcess,
         Abort, Raise, JobEnds, DeadlinePasses

(* The run starts a job only when its active predecessors have completed,  *)
(* decides each job of a cycle once, skips one only after a predecessor    *)
(* that failed or was skipped or because a signal came, and begins the     *)
(* next cycle only when every job is decided.                              *)
THEOREM ImplementsSchedule == Spec => KeepsSchedule
<1>1. Init => Promise!Init
  BY MappedInit
<1>2. IInv /\ IInv' /\ [Next]_vars => [Promise!Next]_(Promise!vars)
  BY MappedStep
<1> QED
  BY <1>1, <1>2, Inductive, PTL DEF Spec, KeepsSchedule, Promise!Spec
===============================================================================
