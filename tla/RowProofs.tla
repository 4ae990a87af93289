------------------------------ MODULE RowProofs ------------------------------
(***************************************************************************)
(* Theorems about what a job does with its rows: how they are divided and  *)
(* read, in Partitions and Reading, for any rows, values, counts, budgets, *)
(* chunk sizes and depths; and how they are masked, in Masking, for any    *)
(* radix, lengths, keys, pseudorandom function and even number of rounds.  *)
(* The two have no variable in common.                                     *)
(***************************************************************************)
EXTENDS Reading, Masking, FiniteSetTheorems, WellFoundedInduction, TLAPS

-------------------------------------------------------------------------------
(* Slices and values                                                       *)

LEMMA LeastNatural ==
  ASSUME NEW S, S \subseteq Nat, S # {}
  PROVE  \E x \in S : \A y \in S : x <= y
<1>1. PICK x \in S : \A y \in S : ~(<<y, x>> \in OpToRel(<, Nat))
  BY NatLessThanWellFounded, WFMin
<1>2. \A y \in S : ~(y < x)
  BY <1>1 DEF OpToRel
<1> QED
  BY <1>2

(* The cut a value comes next to, on either side. *)
LEMMA LastCutBefore ==
  ASSUME NEW C \in SUBSET Int, NEW v \in Int, \E c \in C : c <= v
  PROVE  \E c \in C : c <= v /\ \A d \in C : c < d => v < d
<1> DEFINE Behind == {n \in Nat : \E c \in C : c <= v /\ n = v - c}
<1>1. Behind \subseteq Nat /\ Behind # {}
  <2>1. PICK c \in C : c <= v
    OBVIOUS
  <2>2. v - c \in Nat
    BY <2>1
  <2> QED
    BY <2>1, <2>2
<1>2. PICK x \in Behind : \A y \in Behind : x <= y
  BY <1>1, LeastNatural
<1>3. PICK c \in C : c <= v /\ x = v - c
  BY <1>2
<1>4. ASSUME NEW d \in C, c < d, ~(v < d) PROVE FALSE
  <2>1. v - d \in Nat /\ d <= v
    BY <1>4
  <2>2. v - d \in Behind
    BY <2>1
  <2> QED
    BY <1>2, <1>3, <1>4, <2>2
<1> QED
  BY <1>3, <1>4

LEMMA FirstCutFrom ==
  ASSUME NEW C \in SUBSET Int, NEW v \in Int, \E c \in C : v <= c
  PROVE  \E c \in C : v <= c /\ \A d \in C : d < c => d < v
<1> DEFINE Beyond == {n \in Nat : \E c \in C : v <= c /\ n = c - v}
<1>1. Beyond \subseteq Nat /\ Beyond # {}
  <2>1. PICK c \in C : v <= c
    OBVIOUS
  <2>2. c - v \in Nat
    BY <2>1
  <2> QED
    BY <2>1, <2>2
<1>2. PICK x \in Beyond : \A y \in Beyond : x <= y
  BY <1>1, LeastNatural
<1>3. PICK c \in C : v <= c /\ x = c - v
  BY <1>2
<1>4. ASSUME NEW d \in C, d < c, ~(d < v) PROVE FALSE
  <2>1. d - v \in Nat /\ v <= d
    BY <1>4
  <2>2. d - v \in Beyond
    BY <2>1
  <2> QED
    BY <1>2, <1>3, <1>4, <2>2
<1> QED
  BY <1>3, <1>4

(* Every value of a numeric column, NULL and fractions included, is in     *)
(* exactly one slice, wherever the cuts are.                               *)
THEOREM NumbersAreDivided ==
  ASSUME NEW C \in SUBSET Int, NEW v \in Int \cup {Null}
  PROVE  /\ \E s \in C \cup {Open} : NumberSlice(C, s, v)
         /\ \A s, t \in C \cup {Open} : NumberSlice(C, s, v) /\ NumberSlice(C, t, v) => s = t
<1> USE PartitionsAssumption
<1>1. \E s \in C \cup {Open} : NumberSlice(C, s, v)
  <2>1. CASE v = Null
    BY <2>1 DEF NumberSlice
  <2>2. CASE v \in Int /\ \A c \in C : v < c
    BY <2>2 DEF NumberSlice
  <2>3. CASE v \in Int /\ \E c \in C : c <= v
    <3>1. PICK c \in C : c <= v /\ \A d \in C : c < d => v < d
      BY <2>3, LastCutBefore
    <3> QED
      BY <2>3, <3>1 DEF NumberSlice
  <2> QED
    BY <2>1, <2>2, <2>3
<1>2. ASSUME NEW s \in C \cup {Open}, NEW t \in C \cup {Open},
             NumberSlice(C, s, v), NumberSlice(C, t, v), s # t
      PROVE  FALSE
  <2>1. CASE s = Open \/ t = Open
    BY <1>2, <2>1 DEF NumberSlice
  <2>2. CASE s \in Int /\ t \in Int
    BY <1>2, <2>2 DEF NumberSlice
  <2> QED
    BY <2>1, <2>2
<1> QED
  BY <1>1, <1>2

(* And of any other column, divided at values of its own.                  *)
THEOREM QuantilesAreDivided ==
  ASSUME NEW C \in SUBSET Int, NEW v \in Int \cup {Null},
         C # {} => \E low \in C : \A c \in C : low <= c
  PROVE  /\ \E s \in C \cup {Open} : QuantileSlice(C, s, v)
         /\ \A s, t \in C \cup {Open} : QuantileSlice(C, s, v) /\ QuantileSlice(C, t, v) => s = t
<1> USE PartitionsAssumption
<1>1. \E s \in C \cup {Open} : QuantileSlice(C, s, v)
  <2>1. CASE v = Null /\ C = {}
    BY <2>1 DEF QuantileSlice
  <2>2. CASE v = Null /\ C # {}
    <3>1. PICK low \in C : \A c \in C : low <= c
      BY <2>2
    <3> QED
      BY <2>2, <3>1 DEF QuantileSlice
  <2>3. CASE v \in Int /\ \A c \in C : c < v
    BY <2>3 DEF QuantileSlice
  <2>4. CASE v \in Int /\ \E c \in C : v <= c
    <3>1. PICK c \in C : v <= c /\ \A d \in C : d < c => d < v
      BY <2>4, FirstCutFrom
    <3> QED
      BY <2>4, <3>1 DEF QuantileSlice
  <2> QED
    BY <2>1, <2>2, <2>3, <2>4
<1>2. ASSUME NEW s \in C \cup {Open}, NEW t \in C \cup {Open},
             QuantileSlice(C, s, v), QuantileSlice(C, t, v), s # t
      PROVE  FALSE
  <2>1. CASE s = Open \/ t = Open
    BY <1>2, <2>1 DEF QuantileSlice
  <2>2. CASE s \in Int /\ t \in Int
    BY <1>2, <2>2 DEF QuantileSlice
  <2> QED
    BY <2>1, <2>2
<1> QED
  BY <1>1, <1>2
-------------------------------------------------------------------------------
(* Each row is written once: the invariant                                 *)

TypeInv ==
  /\ job \in Jobs /\ table \in Tables
  /\ Rows \ Late \subseteq present /\ present \subseteq Rows
  /\ pc \in {"bounds", "loading", "loaded", "failed"}
  /\ cuts \in SUBSET Int /\ (job.kind = "others" => cuts \subseteq Values)
  /\ stage \in [Slices -> {"waiting", "reading", "done", "failed", "stopped"}]
  /\ left \in [Slices -> SUBSET Rows]
  /\ chunk \in [Slices -> SUBSET Rows]
  /\ pending \in [Slices -> Seq(SUBSET Rows)]
  /\ stopped \in BOOLEAN
  /\ copies \in [Rows -> Nat]

Queued(s) == 1..Len(pending[s])

(* The rows a slice has still to write, each in one place only. *)
Has(s, r) == r \in left[s] \/ r \in chunk[s] \/ \E i \in Queued(s) : r \in pending[s][i]

ApartInv ==
  \A s \in Slices :
    /\ left[s] \cap chunk[s] = {}
    /\ \A i \in Queued(s) : pending[s][i] \cap (left[s] \cup chunk[s]) = {}
    /\ \A i, j \in Queued(s) : i # j => pending[s][i] \cap pending[s][j] = {}

EmptyUnlessReadingInv ==
  \A s \in Slices : stage[s] # "reading" => left[s] = {} /\ chunk[s] = {} /\ pending[s] = <<>>

(* What a slice has, or will have, is its own and not written yet. *)
FreshInv ==
  \A s \in Slices, r \in Rows :
    /\ Has(s, r) => InSlice(s, r)
    /\ Has(s, r) \/ (stage[s] = "waiting" /\ InSlice(s, r)) => copies[r] = 0

OnceInv == \A r \in Rows : copies[r] <= 1

(* And of the rows that were there from the start, none has been left out. *)
AllInv ==
  \A s \in Slices, r \in Rows \ Late :
    stage[s] \in {"reading", "done"} /\ InSlice(s, r) => Has(s, r) \/ copies[r] = 1

StopInv ==
  /\ \A s \in Slices : stage[s] = "stopped" => stopped
  /\ stopped => \E s \in Slices : stage[s] = "failed"
  /\ pc = "bounds" => \A r \in Rows : copies[r] = 0
  /\ pc = "bounds" => ~stopped /\ \A s \in Slices : stage[s] = "waiting"
  /\ pc = "loaded" => \A s \in Slices : stage[s] = "done"

IInv ==
  /\ TypeInv /\ ApartInv /\ EmptyUnlessReadingInv /\ FreshInv
  /\ OnceInv /\ AllInv /\ StopInv

(* A row's value is one, and its slice the one slice that has it. *)
LEMMA OneSliceOfARow ==
  ASSUME TypeInv, NEW r \in Rows
  PROVE  /\ \E s \in Slices : InSlice(s, r)
         /\ \A s, t \in Slices : InSlice(s, r) /\ InSlice(t, r) => s = t
<1>1. table[r] \in Int \cup {Null}
  BY ReadingAssumption DEF TypeInv, Values
<1>2. CASE job.kind = "numbers"
  BY <1>1, <1>2, NumbersAreDivided DEF TypeInv, InSlice, Slices
<1>3. CASE job.kind # "numbers"
  <2>1. job.kind = "others"
    BY <1>3, ReadingAssumption DEF TypeInv
  <2>2. cuts # {} => \E low \in cuts : \A c \in cuts : low <= c
    BY <2>1, ReadingAssumption DEF TypeInv
  <2> QED
    BY <1>1, <1>3, <2>2, QuantilesAreDivided DEF TypeInv, InSlice, Slices
<1> QED
  BY <1>2, <1>3

LEMMA InvImpliesEachRowOnce == IInv => EachRowOnce
<1> SUFFICES ASSUME IInv PROVE EachRowOnce
  OBVIOUS
<1>1. \A r \in Rows : copies[r] <= 1
  BY DEF IInv, OnceInv
<1>2. ASSUME pc = "loaded", NEW r \in Rows \ Late PROVE copies[r] = 1
  <2>1. PICK s \in Slices : InSlice(s, r)
    BY OneSliceOfARow DEF IInv
  <2>2. stage[s] = "done"
    BY <1>2 DEF IInv, StopInv
  <2>3. ~Has(s, r)
    BY <2>2 DEF IInv, EmptyUnlessReadingInv, Has, Queued
  <2> QED
    BY <2>1, <2>2, <2>3 DEF IInv, AllInv
<1> QED
  BY <1>1, <1>2 DEF EachRowOnce

-------------------------------------------------------------------------------
(* It holds at first, and every step keeps it                              *)

LEMMA InitInv == Init => IInv
<1> SUFFICES ASSUME Init PROVE IInv
  OBVIOUS
<1> USE DEF Init, Slices
<1>1. TypeInv
  <2>1. pending \in [Slices -> Seq(SUBSET Rows)]
    OBVIOUS
  <2>2. job \in Jobs /\ table \in Tables /\ present \subseteq Rows /\ Rows \ Late \subseteq present
    OBVIOUS
  <2>3. /\ stage \in [Slices -> {"waiting", "reading", "done", "failed", "stopped"}]
        /\ left \in [Slices -> SUBSET Rows] /\ chunk \in [Slices -> SUBSET Rows]
        /\ copies \in [Rows -> Nat]
    OBVIOUS
  <2> QED
    BY <2>1, <2>2, <2>3 DEF TypeInv
<1>2. \A s \in Slices, r \in Rows : ~Has(s, r)
  BY DEF Has, Queued
<1>3. ApartInv /\ EmptyUnlessReadingInv /\ FreshInv /\ OnceInv /\ AllInv /\ StopInv
  BY <1>2 DEF ApartInv, EmptyUnlessReadingInv, FreshInv, OnceInv, AllInv, StopInv, Queued
<1> QED
  BY <1>1, <1>3 DEF IInv

LEMMA MinMax ==
  ASSUME NEW S \in SUBSET Values, S # {}
  PROVE  Min(S) \in S /\ Max(S) \in S /\ \A v \in S : Min(S) <= v /\ v <= Max(S)
<1>1. PICK low \in S, high \in S : \A v \in S : low <= v /\ v <= high
  BY ReadingAssumption
<1>2. S \subseteq Int
  BY ReadingAssumption
<1> QED
  BY <1>1, <1>2 DEF Min, Max

(* An automatic count is the least of what limits it. *)
LEMMA LeastOf ==
  ASSUME NEW S, NEW m \in S, m \in Int, \A x \in S : x \in Int /\ m <= x
  PROVE  Min(S) \in S /\ \A x \in S : Min(S) <= x
  BY DEF Min

LEMMA LimitOfSize ==
  ASSUME NEW span \in Int
  PROVE  Max({1, span \div MinimumRowsPerSlice}) \in Nat \ {0}
<1>1. span \div MinimumRowsPerSlice \in Int
  BY PartitionsAssumption
<1>2. \A x \in Int : Max({1, x}) \in Nat \ {0}
  <2> TAKE x \in Int
  <2>1. CASE x <= 1
    <3>1. \E m \in {1, x} : \A y \in {1, x} : m >= y
      BY <2>1
    <3> QED
      BY <2>1, <3>1 DEF Max
  <2>2. CASE x > 1
    <3>1. \E m \in {1, x} : \A y \in {1, x} : m >= y
      BY <2>2
    <3> QED
      BY <2>2, <3>1 DEF Max
  <2> QED
    BY <2>1, <2>2
<1> QED
  BY <1>1, <1>2

LEMMA AutomaticCountFits ==
  ASSUME NEW j \in Jobs, NEW span \in Int
  PROVE  LET count == AutomaticCount(span, j.budget, j.masksInPython)
         IN /\ count \in Nat \ {0}
            /\ count <= j.budget.share
            /\ j.budget.places # Null => count <= j.budget.places
<1> DEFINE size == Max({1, span \div MinimumRowsPerSlice})
           limits == {j.budget.share, size} \cup (IF j.budget.places = Null THEN {} ELSE {j.budget.places})
<1> HIDE DEF size
<1>1. size \in Nat \ {0}
  BY LimitOfSize DEF size
<1>2. j.budget.share \in Nat \ {0} /\ j.budget.places \in (Nat \ {0}) \cup {Null}
  BY ReadingAssumption
<1>3. \E m \in limits : \A x \in limits : m <= x
  <2>1. CASE j.budget.places = Null
    BY <1>1, <1>2, <2>1
  <2>2. CASE j.budget.places # Null
    BY <1>1, <1>2, <2>2
  <2> QED
    BY <2>1, <2>2
<1>4. \A x \in limits : x \in Nat \ {0}
  BY <1>1, <1>2
<1>5. Min(limits) \in limits /\ \A x \in limits : Min(limits) <= x
  BY <1>3, <1>4, LeastOf
<1>6. CASE j.masksInPython
  BY <1>2, <1>6 DEF AutomaticCount
<1>7. CASE ~j.masksInPython
  <2>1. AutomaticCount(span, j.budget, j.masksInPython) = Min(limits)
    BY <1>7 DEF AutomaticCount, size
  <2>2. j.budget.places # Null => j.budget.places \in limits
    OBVIOUS
  <2> QED
    BY <1>4, <1>5, <2>1, <2>2
<1> QED
  BY <1>6, <1>7

LEMMA CountType ==
  ASSUME job \in Jobs, NEW V \in SUBSET Values, V # {}
  PROVE  /\ CountFor(V) \in Nat \ {0}
         /\ job.automatic => /\ CountFor(V) <= job.budget.share
                             /\ job.budget.places # Null => CountFor(V) <= job.budget.places
<1>1. CASE ~job.automatic
  BY <1>1, ReadingAssumption DEF CountFor
<1>2. CASE job.automatic
  <2> DEFINE span == IF job.kind = "numbers" THEN Span(V) ELSE MinimumRowsPerSlice * job.budget.share
  <2>1. Span(V) \in Int
    <3>1. Min(V) \in Int /\ Max(V) \in Int
      BY MinMax, ReadingAssumption
    <3>2. \A x \in Int : x \div Unit \in Int
      BY PartitionsAssumption
    <3> QED
      BY <3>1, <3>2 DEF Span, IntegerBound
  <2>2. span \in Int
    BY <2>1, ReadingAssumption, PartitionsAssumption
  <2>3. CountFor(V) = AutomaticCount(span, job.budget, job.masksInPython)
    BY <1>2 DEF CountFor
  <2> HIDE DEF span
  <2> QED
    BY <2>2, <2>3, AutomaticCountFits
<1> QED
  BY <1>1, <1>2

(* The cuts are where a slice may begin or end. *)
LEMMA CutsType ==
  ASSUME job \in Jobs, NEW V \in SUBSET Values, NEW C \in PlannedCuts(V)
  PROVE  C \subseteq Int /\ (job.kind = "others" => C \subseteq Values)
<1>1. CASE V = {}
  BY <1>1 DEF PlannedCuts
<1>2. CASE V # {} /\ job.kind = "numbers"
  <2>1. C = NumberCuts(V, CountFor(V))
    BY <1>2 DEF PlannedCuts
  <2>2. Min(V) \in Int /\ Max(V) \in Int
    BY <1>2, MinMax, ReadingAssumption
  <2>3. SplitPoints(IntegerBound(Min(V)), IntegerBound(Max(V)), CountFor(V)) \subseteq Int
    <3> DEFINE low == IntegerBound(Min(V)) high == IntegerBound(Max(V))
    <3>1. low \in Int /\ high \in Int
      BY <2>2, PartitionsAssumption DEF IntegerBound
    <3>2. CountFor(V) \in Nat \ {0}
      BY <1>2, CountType
    <3> HIDE DEF low, high
    <3>3. \A index \in Int : low + ((high - low + 1) * index) \div CountFor(V) \in Int
      BY <3>1, <3>2
    <3> QED
      BY <3>2, <3>3 DEF SplitPoints, low, high
  <2> QED
    BY <1>2, <2>1, <2>3, PartitionsAssumption DEF NumberCuts
<1>3. CASE V # {} /\ job.kind # "numbers"
  BY <1>3, ReadingAssumption DEF PlannedCuts, QuantileCuts
<1> QED
  BY <1>1, <1>2, <1>3

LEMMA ReadBoundsStep == IInv /\ ReadBounds => IInv'
<1> SUFFICES ASSUME IInv, ReadBounds PROVE IInv'
  OBVIOUS
<1> DEFINE V == {table[r] : r \in present} \ {Null}
<1>1. V \subseteq Values
  BY DEF IInv, TypeInv, Values
<1>2. cuts' \in SUBSET Int /\ (job.kind = "others" => cuts' \subseteq Values)
  BY <1>1, CutsType DEF IInv, TypeInv, ReadBounds
<1>3. Slices' = cuts' \cup {Open}
  BY DEF Slices
<1>4. TypeInv'
  BY <1>2, <1>3 DEF IInv, TypeInv, ReadBounds
<1>5. \A s \in Slices' : left'[s] = {} /\ chunk'[s] = {} /\ pending'[s] = <<>> /\ stage'[s] = "waiting"
  BY <1>3 DEF ReadBounds
<1>6. \A s \in Slices' : Queued(s)' = {} /\ \A r \in Rows : ~Has(s, r)'
  BY <1>5 DEF Queued, Has
<1>7. \A r \in Rows : copies'[r] = 0
  BY DEF IInv, StopInv, ReadBounds
<1>8. ApartInv' /\ EmptyUnlessReadingInv' /\ FreshInv' /\ OnceInv' /\ AllInv'
  BY <1>5, <1>6, <1>7 DEF ApartInv, EmptyUnlessReadingInv, FreshInv, OnceInv, AllInv
<1>9. StopInv'
  BY <1>5, <1>7 DEF IInv, StopInv, ReadBounds
<1> QED
  BY <1>4, <1>8, <1>9 DEF IInv

LEMMA OutsideStep ==
  IInv /\ (StopOthers \/ LoadIsOver \/ AddRow \/ Tick \/ OpenWindow) => IInv'
<1> SUFFICES ASSUME IInv, StopOthers \/ LoadIsOver \/ AddRow \/ Tick \/ OpenWindow PROVE IInv'
  OBVIOUS
<1>1. UNCHANGED <<plan, stage, left, chunk, pending, copies>>
  BY DEF StopOthers, LoadIsOver, AddRow, Tick, OpenWindow, slices
<1>2. TypeInv'
  BY <1>1, ReadingAssumption DEF IInv, TypeInv, Slices, plan, StopOthers, LoadIsOver, AddRow, Tick, OpenWindow
<1>3. ApartInv' /\ EmptyUnlessReadingInv' /\ FreshInv' /\ OnceInv' /\ AllInv'
  BY <1>1 DEF IInv, ApartInv, EmptyUnlessReadingInv, FreshInv, OnceInv, AllInv, Slices, plan, Has, Queued, InSlice
<1>4. StopInv'
  <2>1. CASE StopOthers
    BY <1>1, <2>1 DEF IInv, StopInv, Slices, plan, StopOthers
  <2>2. CASE LoadIsOver
    BY <1>1, <2>2 DEF IInv, StopInv, TypeInv, Slices, plan, LoadIsOver
  <2>3. CASE AddRow \/ Tick \/ OpenWindow
    BY <1>1, <2>3 DEF IInv, StopInv, Slices, plan, AddRow, Tick, OpenWindow
  <2> QED
    BY <2>1, <2>2, <2>3
<1> QED
  BY <1>2, <1>3, <1>4 DEF IInv

-------------------------------------------------------------------------------
(* The steps of a slice                                                    *)

LEMMA OpenStep ==
  ASSUME IInv, NEW s \in Slices, OpenSlice(s)
  PROVE  IInv'
<1> DEFINE rows == {r \in present : InSlice(s, r)}
<1>1. /\ UNCHANGED <<plan, present, pc, chunk, pending, copies, stopped>>
      /\ left' = [left EXCEPT ![s] = rows]
      /\ stage' = [stage EXCEPT ![s] = IF rows = {} THEN "done" ELSE "reading"]
      /\ stage[s] = "waiting" /\ pc = "loading"
  BY DEF OpenSlice, Goto
<1> HIDE DEF rows
<1>2. rows \subseteq Rows /\ \A r \in Rows : r \in rows <=> r \in present /\ InSlice(s, r)
  BY DEF rows, IInv, TypeInv
<1>3. TypeInv'
  BY <1>1, <1>2 DEF IInv, TypeInv, plan, Slices
<1>4. left[s] = {} /\ chunk[s] = {} /\ pending[s] = <<>>
  BY <1>1 DEF IInv, EmptyUnlessReadingInv
<1>5. /\ \A t \in Slices, r \in Rows : Has(t, r)' <=> IF t = s THEN r \in rows ELSE Has(t, r)
      /\ \A t \in Slices, r \in Rows : InSlice(t, r)' <=> InSlice(t, r)
      /\ Slices' = Slices
  BY <1>1, <1>4 DEF Has, Queued, InSlice, plan, Slices, IInv, TypeInv
<1>6. ApartInv' /\ EmptyUnlessReadingInv'
  BY <1>1, <1>4, <1>5 DEF IInv, TypeInv, ApartInv, EmptyUnlessReadingInv, Queued
<1>7. FreshInv'
  BY <1>1, <1>2, <1>5 DEF IInv, TypeInv, FreshInv
<1>8. AllInv' /\ OnceInv'
  BY <1>1, <1>2, <1>5 DEF IInv, TypeInv, AllInv, OnceInv
<1>9. StopInv'
  BY <1>1, <1>5 DEF IInv, TypeInv, StopInv
<1> QED
  BY <1>3, <1>6, <1>7, <1>8, <1>9 DEF IInv

LEMMA ReadStep ==
  ASSUME IInv, NEW s \in Slices, ReadChunk(s)
  PROVE  IInv'
<1> DEFINE rows == NextChunk(s)
<1>1. /\ UNCHANGED <<plan, present, pc, stage, pending, copies, stopped>>
      /\ left' = [left EXCEPT ![s] = @ \ rows]
      /\ chunk' = [chunk EXCEPT ![s] = rows]
      /\ stage[s] = "reading" /\ chunk[s] = {}
  BY DEF ReadChunk
<1>2. rows \subseteq left[s]
  BY DEF NextChunk
<1> HIDE DEF rows
<1>3. TypeInv'
  BY <1>1, <1>2 DEF IInv, TypeInv, plan, Slices
<1>4. /\ \A t \in Slices, r \in Rows : Has(t, r)' <=> Has(t, r)
      /\ \A t \in Slices, r \in Rows : InSlice(t, r)' <=> InSlice(t, r)
      /\ Slices' = Slices
  BY <1>1, <1>2 DEF Has, Queued, InSlice, plan, Slices, IInv, TypeInv
<1>5. ApartInv' /\ EmptyUnlessReadingInv'
  BY <1>1, <1>2, <1>4 DEF IInv, TypeInv, ApartInv, EmptyUnlessReadingInv, Queued
<1>6. FreshInv' /\ AllInv' /\ OnceInv' /\ StopInv'
  BY <1>1, <1>4 DEF IInv, FreshInv, AllInv, OnceInv, StopInv
<1> QED
  BY <1>3, <1>5, <1>6 DEF IInv

LEMMA SubmitStep ==
  ASSUME IInv, NEW s \in Slices, SubmitChunk(s)
  PROVE  IInv'
<1>1. /\ UNCHANGED <<plan, present, pc, stage, left, copies, stopped>>
      /\ pending' = [pending EXCEPT ![s] = Append(@, chunk[s])]
      /\ chunk' = [chunk EXCEPT ![s] = {}]
      /\ stage[s] = "reading"
  BY DEF SubmitChunk
<1>2. pending[s] \in Seq(SUBSET Rows) /\ chunk[s] \in SUBSET Rows
  BY DEF IInv, TypeInv
<1>3. /\ pending'[s] \in Seq(SUBSET Rows)
      /\ Len(pending'[s]) = Len(pending[s]) + 1
      /\ \A i \in Queued(s) : pending'[s][i] = pending[s][i]
      /\ pending'[s][Len(pending[s]) + 1] = chunk[s]
  BY <1>1, <1>2 DEF Queued, IInv, TypeInv
<1>4. TypeInv'
  BY <1>1, <1>3 DEF IInv, TypeInv, plan, Slices
<1>5. Queued(s)' = Queued(s) \cup {Len(pending[s]) + 1} /\ \A t \in Slices \ {s} : Queued(t)' = Queued(t)
  BY <1>1, <1>2, <1>3 DEF Queued, IInv, TypeInv
<1>6. /\ \A t \in Slices, r \in Rows : Has(t, r)' <=> Has(t, r)
      /\ \A t \in Slices, r \in Rows : InSlice(t, r)' <=> InSlice(t, r)
      /\ Slices' = Slices
  <2>1. \A r \in Rows : Has(s, r)' <=> Has(s, r)
    BY <1>1, <1>3, <1>5 DEF Has, IInv, TypeInv
  <2>2. \A t \in Slices \ {s}, r \in Rows : Has(t, r)' <=> Has(t, r)
    BY <1>1, <1>5 DEF Has, IInv, TypeInv
  <2> QED
    BY <1>1, <2>1, <2>2 DEF InSlice, plan, Slices
<1>7. ApartInv' /\ EmptyUnlessReadingInv'
  <2>1. ASSUME NEW t \in Slices \ {s}
        PROVE  /\ (left[t] \cap chunk[t] = {})'
               /\ (\A i \in Queued(t) : pending[t][i] \cap (left[t] \cup chunk[t]) = {})'
               /\ (\A i, j \in Queued(t) : i # j => pending[t][i] \cap pending[t][j] = {})'
    BY <1>1, <1>5 DEF IInv, TypeInv, ApartInv
  <2>2. /\ (left[s] \cap chunk[s] = {})'
        /\ (\A i \in Queued(s) : pending[s][i] \cap (left[s] \cup chunk[s]) = {})'
    BY <1>1, <1>3, <1>5 DEF IInv, TypeInv, ApartInv
  <2>3. (\A i, j \in Queued(s) : i # j => pending[s][i] \cap pending[s][j] = {})'
    <3> DEFINE last == Len(pending[s]) + 1
    <3>1. \A i, j \in Queued(s) : i # j => pending'[s][i] \cap pending'[s][j] = {}
      BY <1>3 DEF IInv, ApartInv
    <3>2. \A i \in Queued(s) : pending'[s][i] \cap pending'[s][last] = {}
      BY <1>3 DEF IInv, ApartInv
    <3>3. \A i \in Queued(s)' : i \in Queued(s) \/ i = last
      BY <1>5
    <3> QED
      BY <3>1, <3>2, <3>3
  <2> QED
    BY <1>1, <1>6, <2>1, <2>2, <2>3, ZenonT(30) DEF IInv, TypeInv, ApartInv, EmptyUnlessReadingInv
<1>8. FreshInv' /\ AllInv' /\ OnceInv' /\ StopInv'
  BY <1>1, <1>6 DEF IInv, FreshInv, AllInv, OnceInv, StopInv
<1> QED
  BY <1>4, <1>7, <1>8 DEF IInv

LEMMA WriteStep ==
  ASSUME IInv, NEW s \in Slices, WriteChunk(s)
  PROVE  IInv'
<1> DEFINE rows == Head(pending[s])
<1>1. /\ UNCHANGED <<plan, present, pc, left, chunk, stopped>>
      /\ copies' = [r \in Rows |-> copies[r] + IF r \in rows THEN 1 ELSE 0]
      /\ pending' = [pending EXCEPT ![s] = Tail(@)]
      /\ stage' = [stage EXCEPT ![s] = IF AllRead(s) /\ Len(pending[s]) = 1 THEN "done" ELSE "reading"]
      /\ stage[s] = "reading" /\ pending[s] # <<>>
  BY DEF WriteChunk, HasToWrite, Goto
<1>2. pending[s] \in Seq(SUBSET Rows)
  BY DEF IInv, TypeInv
<1>3. /\ rows = pending[s][1] /\ rows \subseteq Rows /\ 1 \in Queued(s)
      /\ pending'[s] \in Seq(SUBSET Rows)
      /\ Len(pending'[s]) = Len(pending[s]) - 1
      /\ \A i \in 1..(Len(pending[s]) - 1) : pending'[s][i] = pending[s][i + 1]
  BY <1>1, <1>2 DEF Queued, IInv, TypeInv
<1> HIDE DEF rows
<1>4. TypeInv'
  BY <1>1, <1>3 DEF IInv, TypeInv, plan, Slices
<1>5. Queued(s)' = 1..(Len(pending[s]) - 1) /\ \A t \in Slices \ {s} : Queued(t)' = Queued(t)
  BY <1>1, <1>3 DEF Queued, IInv, TypeInv
<1>6. \A i \in Queued(s)' : i + 1 \in Queued(s) /\ i + 1 # 1
  BY <1>2, <1>5 DEF Queued
<1>7. /\ \A r \in Rows : Has(s, r)' <=> Has(s, r) /\ r \notin rows
      /\ \A t \in Slices \ {s}, r \in Rows : Has(t, r)' <=> Has(t, r)
      /\ \A t \in Slices, r \in Rows : InSlice(t, r)' <=> InSlice(t, r)
      /\ Slices' = Slices
  <2>1. \A i \in Queued(s) : i = 1 \/ (i - 1 \in Queued(s)' /\ pending'[s][i - 1] = pending[s][i])
    BY <1>2, <1>3, <1>5 DEF Queued
  <2>2. ASSUME NEW r \in Rows, Has(s, r), r \notin rows PROVE Has(s, r)'
    BY <1>1, <1>3, <2>1, <2>2 DEF Has, IInv, TypeInv
  <2>3. ASSUME NEW r \in Rows, Has(s, r)' PROVE Has(s, r) /\ r \notin rows
    <3>1. CASE r \in left[s] \/ r \in chunk[s]
      BY <1>3, <3>1 DEF Has, IInv, ApartInv
    <3>2. CASE \E i \in Queued(s)' : r \in pending'[s][i]
      <4>1. PICK i \in Queued(s)' : r \in pending'[s][i]
        BY <3>2
      <4>2. i + 1 \in Queued(s) /\ i + 1 # 1 /\ r \in pending[s][i + 1]
        BY <1>3, <1>5, <1>6, <4>1
      <4>3. pending[s][i + 1] \cap pending[s][1] = {}
        BY <1>3, <4>2 DEF IInv, ApartInv
      <4> QED
        BY <1>3, <4>2, <4>3 DEF Has
    <3> QED
      BY <1>1, <2>3, <3>1, <3>2 DEF Has
  <2>4. \A t \in Slices \ {s}, r \in Rows : Has(t, r)' <=> Has(t, r)
    BY <1>1, <1>5 DEF Has, IInv, TypeInv
  <2> QED
    BY <1>1, <2>2, <2>3, <2>4 DEF InSlice, plan, Slices
<1>8. \A r \in rows : Has(s, r) /\ InSlice(s, r) /\ copies[r] = 0
  BY <1>3 DEF Has, IInv, FreshInv
<1>9. /\ \A r \in rows : copies'[r] = 1
      /\ \A r \in Rows \ rows : copies'[r] = copies[r]
  BY <1>1, <1>3, <1>8 DEF IInv, TypeInv
<1>10. ApartInv'
  <2>1. ASSUME NEW t \in Slices \ {s}
        PROVE  /\ (left[t] \cap chunk[t] = {})'
               /\ (\A i \in Queued(t) : pending[t][i] \cap (left[t] \cup chunk[t]) = {})'
               /\ (\A i, j \in Queued(t) : i # j => pending[t][i] \cap pending[t][j] = {})'
    BY <1>1, <1>5 DEF IInv, TypeInv, ApartInv
  <2>2. /\ (left[s] \cap chunk[s] = {})'
        /\ (\A i \in Queued(s) : pending[s][i] \cap (left[s] \cup chunk[s]) = {})'
    BY <1>1, <1>3, <1>5, <1>6 DEF IInv, TypeInv, ApartInv
  <2>3. (\A i, j \in Queued(s) : i # j => pending[s][i] \cap pending[s][j] = {})'
    <3> SUFFICES ASSUME NEW i \in Queued(s)', NEW j \in Queued(s)', i # j
                 PROVE  pending'[s][i] \cap pending'[s][j] = {}
      OBVIOUS
    <3>1. i \in Nat /\ j \in Nat
      BY <1>2, <1>5
    <3>2. i + 1 # j + 1
      BY <3>1
    <3>3. pending'[s][i] = pending[s][i + 1] /\ pending'[s][j] = pending[s][j + 1]
      BY <1>3, <1>5
    <3>4. i + 1 \in Queued(s) /\ j + 1 \in Queued(s)
      BY <1>6
    <3>5. pending[s][i + 1] \cap pending[s][j + 1] = {}
      BY <3>2, <3>4 DEF IInv, ApartInv
    <3> QED
      BY <3>3, <3>5
  <2> QED
    BY <1>7, <2>1, <2>2, <2>3 DEF ApartInv
<1>11. EmptyUnlessReadingInv'
  <2>1. ASSUME stage'[s] # "reading" PROVE left'[s] = {} /\ chunk'[s] = {} /\ pending'[s] = <<>>
    <3>1. left[s] = {} /\ chunk[s] = {} /\ Len(pending[s]) = 1
      BY <1>1, <2>1 DEF AllRead, IInv, TypeInv
    <3>2. pending'[s] = <<>>
      BY <1>3, <3>1
    <3> QED
      BY <1>1, <3>1, <3>2
  <2> QED
    BY <1>1, <1>7, <2>1 DEF IInv, TypeInv, EmptyUnlessReadingInv
<1>12. FreshInv'
  <2> SUFFICES ASSUME NEW t \in Slices, NEW r \in Rows
               PROVE  /\ Has(t, r)' => InSlice(t, r)'
                      /\ Has(t, r)' \/ (stage'[t] = "waiting" /\ InSlice(t, r)') => copies'[r] = 0
    BY <1>7 DEF FreshInv
  <2>1. Has(t, r)' => Has(t, r)
    BY <1>7
  <2>2. stage'[t] = "waiting" => t # s /\ stage[t] = "waiting"
    BY <1>1 DEF IInv, TypeInv
  <2>3. r \in rows /\ InSlice(t, r) => t = s
    BY <1>8, OneSliceOfARow DEF IInv
  <2> QED
    BY <1>7, <1>9, <2>1, <2>2, <2>3 DEF IInv, FreshInv
<1>13. OnceInv'
  BY <1>9 DEF IInv, OnceInv
<1>14. AllInv'
  <2> SUFFICES ASSUME NEW t \in Slices, NEW r \in Rows \ Late, stage'[t] \in {"reading", "done"}, InSlice(t, r)
               PROVE  Has(t, r)' \/ copies'[r] = 1
    BY <1>7 DEF AllInv
  <2>1. stage[t] \in {"reading", "done"}
    BY <1>1 DEF IInv, TypeInv
  <2>2. Has(t, r) \/ copies[r] = 1
    BY <2>1 DEF IInv, AllInv
  <2> QED
    BY <1>7, <1>9, <2>2
<1>15. StopInv'
  <2>1. pc \notin {"bounds", "loaded"}
    BY <1>1 DEF IInv, StopInv
  <2>2. \A t \in Slices : stage'[t] = "stopped" => stage[t] = "stopped"
    BY <1>1 DEF IInv, TypeInv
  <2>3. \A t \in Slices : stage[t] = "failed" => stage'[t] = "failed"
    BY <1>1 DEF IInv, TypeInv
  <2> QED
    BY <1>1, <1>7, <2>1, <2>2, <2>3 DEF IInv, StopInv
<1> QED
  BY <1>4, <1>10, <1>11, <1>12, <1>13, <1>14, <1>15 DEF IInv

LEMMA EndStep ==
  ASSUME IInv, NEW s \in Slices, StopSlice(s) \/ SliceFails(s)
  PROVE  IInv'
<1>1. PICK step \in {"stopped", "failed"} :
        /\ UNCHANGED <<plan, present, pc, copies, stopped>>
        /\ stage' = [stage EXCEPT ![s] = step]
        /\ chunk' = [chunk EXCEPT ![s] = {}]
        /\ left' = [left EXCEPT ![s] = {}]
        /\ pending' = [pending EXCEPT ![s] = <<>>]
        /\ step = "stopped" => stopped /\ stage[s] = "reading"
        /\ step = "failed" => pc = "loading"
  BY DEF StopSlice, SliceFails, End, Goto, HasToWrite
<1>2. TypeInv'
  BY <1>1 DEF IInv, TypeInv, plan, Slices
<1>3. /\ Slices' = Slices
      /\ \A t \in Slices, r \in Rows : InSlice(t, r)' <=> InSlice(t, r)
      /\ \A t \in Slices \ {s} : Queued(t)' = Queued(t)
      /\ Queued(s)' = {}
  BY <1>1 DEF Slices, plan, InSlice, Queued, IInv, TypeInv
<1>4. /\ \A r \in Rows : ~Has(s, r)'
      /\ \A t \in Slices \ {s}, r \in Rows : Has(t, r)' <=> Has(t, r)
  BY <1>1, <1>3 DEF Has, IInv, TypeInv
<1>5. ApartInv'
  BY <1>1, <1>3 DEF IInv, TypeInv, ApartInv
<1>6. EmptyUnlessReadingInv'
  BY <1>1, <1>3 DEF IInv, TypeInv, EmptyUnlessReadingInv
<1>7. FreshInv' /\ OnceInv' /\ AllInv'
  BY <1>1, <1>3, <1>4 DEF IInv, TypeInv, FreshInv, OnceInv, AllInv
<1>8. StopInv'
  <2>1. pc \notin {"bounds", "loaded"}
    BY <1>1 DEF IInv, StopInv
  <2>2. \A t \in Slices \ {s} : stage'[t] = stage[t]
    BY <1>1 DEF IInv, TypeInv
  <2>3. stage'[s] = step
    BY <1>1 DEF IInv, TypeInv
  <2>4. (\E t \in Slices : stage[t] = "failed") => \E t \in Slices : stage'[t] = "failed"
    BY <1>1, <2>2, <2>3
  <2> QED
    BY <1>1, <1>3, <2>1, <2>2, <2>3, <2>4 DEF IInv, StopInv
<1> QED
  BY <1>2, <1>5, <1>6, <1>7, <1>8 DEF IInv

LEMMA StepInv == IInv /\ [Next]_vars => IInv'
<1> SUFFICES ASSUME IInv, [Next]_vars PROVE IInv'
  OBVIOUS
<1>1. CASE ReadBounds
  BY <1>1, ReadBoundsStep
<1>2. CASE StopOthers \/ LoadIsOver \/ AddRow \/ Tick \/ OpenWindow
  BY <1>2, OutsideStep
<1>3. ASSUME NEW s \in Slices, SliceGoesOn(s) \/ SliceFails(s) PROVE IInv'
  BY <1>3, OpenStep, ReadStep, SubmitStep, WriteStep, EndStep DEF SliceGoesOn
<1>4. CASE UNCHANGED vars
  BY <1>4 DEF vars, plan, slices, IInv, TypeInv, ApartInv, EmptyUnlessReadingInv, FreshInv, OnceInv,
              AllInv, StopInv, Has, Queued, Slices, InSlice
<1> QED
  BY <1>1, <1>2, <1>3, <1>4 DEF Next

THEOREM Invariance == Spec => []IInv
  BY InitInv, StepInv, PTL DEF Spec

(* Whatever the rows, the slices and the order they are read, prepared and *)
(* written in, every row is written once (_loadPartitions, _loadChunks).   *)
THEOREM EachRowIsOnce == Spec => []EachRowOnce
  BY Invariance, InvImpliesEachRowOnce, PTL
-------------------------------------------------------------------------------
(* The budget                                                              *)

LEMMA NumberCutsAreFew ==
  ASSUME NEW V, NEW n \in Nat \ {0}
  PROVE  IsFiniteSet(NumberCuts(V, n)) /\ Cardinality(NumberCuts(V, n)) < n
<1> DEFINE low == IntegerBound(Min(V))
           high == IntegerBound(Max(V))
           point(index) == low + ((high - low + 1) * index) \div n
           Kept == {index \in 1..(n - 1) : low < point(index) /\ point(index) <= high}
           C == NumberCuts(V, n)
           f == [index \in Kept |-> Unit * point(index)]
<1>1. C = {Unit * point(index) : index \in Kept}
  BY DEF NumberCuts, SplitPoints
<1> HIDE DEF C
<1>2. f \in Surjection(Kept, C)
  <2>1. f \in [Kept -> C]
    BY <1>1
  <2>2. \A c \in C : \E index \in Kept : f[index] = c
    BY <1>1
  <2> QED
    BY <2>1, <2>2 DEF Surjection
<1>3. IsFiniteSet(Kept) /\ Cardinality(Kept) <= n - 1 /\ Cardinality(Kept) \in Nat
  <2> HIDE DEF point
  <2>1. IsFiniteSet(1..(n - 1)) /\ Cardinality(1..(n - 1)) = n - 1
    BY FS_Interval
  <2>2. Kept \in SUBSET (1..(n - 1))
    OBVIOUS
  <2> HIDE DEF Kept
  <2> QED
    BY <2>1, <2>2, FS_Subset, FS_CardinalityType
<1> HIDE DEF f, Kept
<1>4. IsFiniteSet(C) /\ Cardinality(C) <= Cardinality(Kept)
  BY <1>2, <1>3, FS_Surjection
<1>5. Cardinality(C) \in Nat
  BY <1>4, FS_CardinalityType
<1> QED
  BY <1>3, <1>4, <1>5 DEF C

LEMMA PresentValuesAreFinite ==
  ASSUME TypeInv
  PROVE  IsFiniteSet({table[r] : r \in present} \ {Null})
<1> DEFINE V == {table[r] : r \in present}
           f == [r \in present |-> table[r]]
<1>1. IsFiniteSet(present)
  BY ReadingAssumption, FS_Subset DEF TypeInv
<1>2. f \in Surjection(present, V)
  BY DEF Surjection
<1> HIDE DEF f, V
<1>3. IsFiniteSet(V)
  BY <1>1, <1>2, FS_Surjection
<1> QED
  BY <1>3, FS_Difference DEF V

(* Fewer cuts than the slices that were asked for. *)
LEMMA CutsAreFew ==
  ASSUME job \in Jobs, NEW V \in SUBSET Values, V # {}, IsFiniteSet(V), NEW C \in PlannedCuts(V)
  PROVE  IsFiniteSet(C) /\ Cardinality(C) < CountFor(V)
<1>1. CountFor(V) \in Nat \ {0}
  BY CountType
<1>2. CASE job.kind = "numbers"
  BY <1>1, <1>2, NumberCutsAreFew DEF PlannedCuts
<1>3. CASE job.kind # "numbers"
  <2>1. C \in SUBSET V /\ Cardinality(C) < CountFor(V)
    BY <1>3 DEF PlannedCuts, QuantileCuts
  <2> QED
    BY <2>1, FS_Subset
<1> QED
  BY <1>2, <1>3

BudgetInv ==
  LET count == Cardinality(Slices)
  IN /\ count \in Nat \ {0}
     /\ pc = "bounds" => threads = job.budget.maskingThreads
     /\ threads = IF count > 1 THEN MaskingThreadsWith(count, job.budget) ELSE job.budget.maskingThreads
     /\ job.automatic =>
          count <= job.budget.share /\ (job.budget.places # Null => count <= job.budget.places)

LEMMA BudgetAtFirst == Init => BudgetInv
<1> SUFFICES ASSUME Init PROVE BudgetInv
  OBVIOUS
<1>1. Slices = {Open} /\ Cardinality(Slices) = 1
  BY FS_Singleton DEF Init, Slices
<1>2. job \in Jobs
  BY DEF Init
<1>3. /\ job.budget.share \in Nat \ {0}
      /\ job.budget.places # Null => job.budget.places \in Nat \ {0}
  BY <1>2, ReadingAssumption
<1>4. threads = job.budget.maskingThreads
  BY DEF Init
<1> HIDE DEF Init
<1> QED
  BY <1>1, <1>3, <1>4 DEF BudgetInv

LEMMA BudgetAsBoundsAreRead == IInv /\ BudgetInv /\ ReadBounds => BudgetInv'
<1> SUFFICES ASSUME IInv, BudgetInv, ReadBounds PROVE BudgetInv'
  OBVIOUS
<1> DEFINE V == {table[r] : r \in present} \ {Null}
           count == Cardinality(Slices')
<1>1. /\ V \in SUBSET Values /\ IsFiniteSet(V) /\ job \in Jobs /\ cuts' \in PlannedCuts(V)
      /\ job' = job
  BY PresentValuesAreFinite DEF IInv, TypeInv, Values, ReadBounds
<1> HIDE DEF V
<1>2. /\ job.budget.share \in Nat \ {0}
      /\ job.budget.places # Null => job.budget.places \in Nat \ {0}
  BY <1>1, ReadingAssumption
<1>3. IsFiniteSet(cuts') /\ (V = {} => Cardinality(cuts') = 0) /\ (V # {} => Cardinality(cuts') < CountFor(V))
  BY <1>1, CutsAreFew, FS_EmptySet DEF PlannedCuts
<1>4. Cardinality(cuts') \in Nat
  BY <1>3, FS_CardinalityType
<1>5. count = Cardinality(cuts') + 1
  <2>1. Open \notin cuts'
    BY <1>1, CutsType, PartitionsAssumption
  <2> QED
    BY <1>3, <2>1, FS_AddElement DEF Slices
<1>6. job.automatic => count <= job.budget.share /\ (job.budget.places # Null => count <= job.budget.places)
  <2>1. CASE V = {}
    BY <1>2, <1>3, <1>5, <2>1
  <2>2. CASE V # {}
    <3>1. CountFor(V) \in Nat \ {0} /\ count <= CountFor(V)
      BY <1>1, <1>3, <1>4, <1>5, <2>2, CountType
    <3>2. job.automatic => /\ CountFor(V) <= job.budget.share
                           /\ job.budget.places # Null => CountFor(V) <= job.budget.places
      BY <1>1, <2>2, CountType
    <3> QED
      BY <1>2, <1>4, <1>5, <3>1, <3>2
  <2> QED
    BY <2>1, <2>2
<1>7. count > 1 \/ threads' = job.budget.maskingThreads
  <2>1. threads' = IF count > 1 THEN MaskingThreadsWith(count, job.budget) ELSE threads
    BY DEF ReadBounds, Slices
  <2>2. threads = job.budget.maskingThreads
    BY DEF BudgetInv, ReadBounds
  <2> QED
    BY <2>1, <2>2
<1> QED
  BY <1>1, <1>4, <1>5, <1>6, <1>7 DEF BudgetInv, ReadBounds, Slices

LEMMA BudgetInvStep == IInv /\ BudgetInv /\ [Next]_vars => BudgetInv'
<1> SUFFICES ASSUME IInv, BudgetInv, [Next]_vars PROVE BudgetInv'
  OBVIOUS
<1>1. CASE ReadBounds
  BY <1>1, BudgetAsBoundsAreRead
<1>2. ASSUME UNCHANGED plan, pc' = "bounds" => pc = "bounds" PROVE BudgetInv'
  BY <1>2 DEF BudgetInv, Slices, plan
<1>3. CASE StopOthers \/ LoadIsOver \/ AddRow \/ Tick \/ OpenWindow
  BY <1>2, <1>3 DEF StopOthers, LoadIsOver, AddRow, Tick, OpenWindow
<1>4. ASSUME NEW s \in Slices, SliceGoesOn(s) \/ SliceFails(s) PROVE BudgetInv'
  BY <1>2, <1>4 DEF SliceGoesOn, OpenSlice, ReadChunk, SubmitChunk, WriteChunk, StopSlice, SliceFails, End
<1>5. CASE UNCHANGED vars
  BY <1>2, <1>5 DEF vars
<1> QED
  BY <1>1, <1>3, <1>4, <1>5 DEF Next

(* The threads are what the slices leave, or one on each slice's own. *)
LEMMA BudgetInvImpliesFitsBudget == IInv /\ BudgetInv => FitsBudget
<1> SUFFICES ASSUME IInv, BudgetInv, job.automatic PROVE FitsBudget
  BY DEF FitsBudget
<1> DEFINE count == Cardinality(Slices)
<1>1. /\ job.budget.share \in Nat \ {0} /\ job.budget.maskingThreads \in Nat \ {0}
      /\ job.budget.automaticThreads => job.budget.maskingThreads = job.budget.share
  BY ReadingAssumption DEF IInv, TypeInv
<1>2. /\ count \in Nat \ {0} /\ count <= job.budget.share
      /\ job.budget.places # Null => count <= job.budget.places
      /\ threads = IF count > 1 THEN MaskingThreadsWith(count, job.budget) ELSE job.budget.maskingThreads
  BY DEF BudgetInv
<1> HIDE DEF count
<1>3. job.budget.automaticThreads => MaskersAtOnce(count, threads) <= job.budget.share
  BY <1>1, <1>2 DEF MaskersAtOnce, MaskingThreadsWith
<1> QED
  BY <1>2, <1>3 DEF FitsBudget, count

(* Whatever the column holds, an automatic count of slices fits the job's  *)
(* share of the cores and the connections' free places, and so do the      *)
(* threads that mask (automaticCount, maskingThreadsWith).                 *)
THEOREM BudgetIsKept == Spec => []FitsBudget
  BY BudgetAtFirst, BudgetInvStep, BudgetInvImpliesFitsBudget, Invariance, PTL DEF Spec
-------------------------------------------------------------------------------
(* The limit                                                               *)

LEMMA MaxOfTwo ==
  ASSUME NEW a \in Int, NEW b \in Int
  PROVE  Max({a, b}) = IF a >= b THEN a ELSE b
<1>1. CASE a >= b
  <2>1. \E m \in {a, b} : \A y \in {a, b} : m >= y
    BY <1>1
  <2> QED
    BY <1>1, <2>1 DEF Max
<1>2. CASE a < b
  <2>1. \E m \in {a, b} : \A y \in {a, b} : m >= y
    BY <1>2
  <2> QED
    BY <1>2, <2>1 DEF Max
<1> QED
  BY <1>1, <1>2

(* Rows cost no less than some of them. *)
LEMMA CostOfSome ==
  ASSUME NEW Y \in SUBSET Rows, NEW X \in SUBSET Y
  PROVE  /\ RowTime * Cardinality(X) \in Nat /\ RowTime * Cardinality(Y) \in Nat
         /\ RowTime * Cardinality(X) <= RowTime * Cardinality(Y)
         /\ RowTime * Cardinality(Y) <= LongestAhead
<1>1. IsFiniteSet(Rows) /\ IsFiniteSet(Y) /\ IsFiniteSet(X) /\ RowTime \in Nat
  BY ReadingAssumption, FS_Subset
<1>2. /\ Cardinality(X) <= Cardinality(Y) /\ Cardinality(Y) <= Cardinality(Rows)
      /\ Cardinality(X) \in Nat /\ Cardinality(Y) \in Nat /\ Cardinality(Rows) \in Nat
  BY <1>1, FS_Subset, FS_CardinalityType
<1>3. \A n, m \in Nat : n <= m => RowTime * n \in Nat /\ RowTime * m \in Nat /\ RowTime * n <= RowTime * m
  BY <1>1
<1> QED
  BY <1>2, <1>3 DEF LongestAhead

LEMMA CostOfMore ==
  ASSUME NEW X \in SUBSET Rows, NEW Y \in SUBSET Rows
  PROVE  /\ RowTime * Cardinality(Y) \in Nat
         /\ RowTime * Cardinality(X \cup Y) <= RowTime * Cardinality(X) + RowTime * Cardinality(Y)
<1>1. IsFiniteSet(X) /\ IsFiniteSet(Y) /\ RowTime \in Nat
  BY ReadingAssumption, FS_Subset
<1>2. /\ Cardinality(X \cup Y) = Cardinality(X) + Cardinality(Y) - Cardinality(X \cap Y)
      /\ IsFiniteSet(X \cup Y) /\ IsFiniteSet(X \cap Y)
  BY <1>1, FS_Union, FS_Intersection
<1>3. /\ Cardinality(X) \in Nat /\ Cardinality(Y) \in Nat
      /\ Cardinality(X \cup Y) \in Nat /\ Cardinality(X \cap Y) \in Nat
  BY <1>1, <1>2, FS_CardinalityType
<1>4. Cardinality(X \cup Y) <= Cardinality(X) + Cardinality(Y)
  BY <1>2, <1>3
<1>5. \A n, m, k \in Nat : k <= n + m => RowTime * m \in Nat /\ RowTime * k <= RowTime * n + RowTime * m
  BY <1>1
<1> QED
  BY <1>3, <1>4, <1>5

(* The slices of the window whose chunks are paid for by the time s's is.  *)
PaidBefore(s) == {t \in window.slices : owed[t] <= owed[s]}

Chunks(S) == UNION {chunk[t] : t \in S}

Due == IF ahead >= -Burst THEN ahead ELSE -Burst

LimitType ==
  /\ owed \in [Slices -> Nat] /\ ahead \in Int
  /\ window \in [age : Int, rows : SUBSET Rows, slices : SUBSET Slices]
  /\ window.age >= -1

(* What is paid for by the time a chunk is was allowed for by then; and no *)
(* more was charged than the schedule says.                                *)
Allowed ==
  /\ RowTime * Cardinality(window.rows) <= window.age + Burst
  /\ \A s \in window.slices :
       RowTime * Cardinality(window.rows \cup Chunks(PaidBefore(s))) <= owed[s] + window.age + Burst
  /\ RowTime * Cardinality(window.rows \cup Chunks(window.slices)) <= Due + window.age + Burst

LimitInv ==
  /\ LimitType
  /\ \A s \in Slices : owed[s] = 0 \/ owed[s] <= ahead
  /\ pc = "bounds" => window.age = -1
  /\ window.age = -1 => window.slices = {} /\ window.rows = {}
  /\ window.age >= 0 => Allowed

LEMMA LimitAtFirst == Init => LimitInv
<1> SUFFICES ASSUME Init PROVE LimitInv
  OBVIOUS
<1> QED
  BY ReadingAssumption DEF Init, LimitInv, LimitType, Slices

LEMMA SomeChunks ==
  ASSUME TypeInv, LimitType, NEW S \in SUBSET Slices
  PROVE  Chunks(S) \subseteq Rows /\ window.rows \cup Chunks(S) \subseteq Rows
BY DEF TypeInv, LimitType, Chunks

LEMMA LimitAsAChunkIsRead ==
  ASSUME IInv, LimitInv, NEW s \in Slices, ReadChunk(s)
  PROVE  LimitInv'
<1> DEFINE rows == NextChunk(s)
           cost == RowTime * Cardinality(rows)
<1>1. /\ UNCHANGED <<cuts, pc>> /\ chunk[s] = {}
      /\ chunk' = [chunk EXCEPT ![s] = rows]
      /\ ahead' = Max({ahead, -Burst}) + cost
      /\ owed' = [owed EXCEPT ![s] = Max({ahead', 0})]
      /\ window' = [window EXCEPT !.slices = IF window.age >= 0 THEN window.slices \cup {s} ELSE window.slices]
  BY DEF ReadChunk, Charge, plan
<1>2. rows \in SUBSET Rows /\ LimitType /\ Burst \in Nat /\ TypeInv
  BY ReadingAssumption DEF NextChunk, IInv, TypeInv, LimitInv
<1> HIDE DEF rows
<1>3. cost \in Nat
  BY <1>2, CostOfMore
<1> HIDE DEF cost
<1>4. ahead' = Due + cost /\ ahead' \in Int /\ ahead' >= ahead /\ Due \in Int
  BY <1>1, <1>2, <1>3, MaxOfTwo DEF LimitType, Due
<1>5. /\ owed'[s] = IF ahead' >= 0 THEN ahead' ELSE 0
      /\ \A t \in Slices \ {s} : owed'[t] = owed[t]
      /\ owed' \in [Slices -> Nat] /\ Slices' = Slices
  <2>1. Max({ahead', 0}) = IF ahead' >= 0 THEN ahead' ELSE 0
    BY <1>4, MaxOfTwo
  <2> QED
    BY <1>1, <1>2, <1>4, <2>1 DEF LimitType, Slices
<1>6. LimitType'
  BY <1>1, <1>2, <1>4, <1>5 DEF LimitType
<1>7. \A t \in Slices : owed'[t] = 0 \/ owed'[t] <= ahead'
  BY <1>2, <1>4, <1>5 DEF LimitInv, LimitType
<1>8. window'.age = window.age /\ window'.rows = window.rows
  BY <1>1, <1>2 DEF LimitType
<1>9. ASSUME window.age >= 0 PROVE Allowed'
  <2> DEFINE all == window.rows \cup Chunks(window.slices)
  <2>1. window'.slices = window.slices \cup {s}
    BY <1>1, <1>2, <1>9 DEF LimitType
  <2>2. all \in SUBSET Rows /\ RowTime * Cardinality(all) <= Due + window.age + Burst
    BY <1>2, <1>9, SomeChunks DEF LimitInv, Allowed, LimitType
  <2>3. window.rows \cup Chunks(window.slices)' = all \cup rows
    <3>1. window.slices \subseteq Slices
      BY <1>2 DEF LimitType
    <3>2. \A t \in Slices : chunk'[t] = IF t = s THEN rows ELSE chunk[t]
      BY <1>1, <1>2 DEF TypeInv
    <3>3. Chunks(window.slices)' = {r \in Rows : \E t \in window.slices \cup {s} : r \in chunk'[t]}
      BY <1>2, <2>1, <3>1, <3>2 DEF Chunks, TypeInv
    <3>4. Chunks(window.slices) = {r \in Rows : \E t \in window.slices : r \in chunk[t]}
      BY <1>2, <3>1 DEF Chunks, TypeInv
    <3> QED
      BY <1>1, <1>2, <3>1, <3>2, <3>3, <3>4
  <2>4. RowTime * Cardinality(all \cup rows) <= RowTime * Cardinality(all) + cost
    BY <1>2, <2>2, CostOfMore DEF cost
  <2>5. RowTime * Cardinality(all \cup rows) <= ahead' + window.age + Burst
    <3>1. RowTime * Cardinality(all) \in Nat /\ RowTime * Cardinality(all \cup rows) \in Nat
      BY <1>2, <2>2, CostOfMore
    <3>2. window.age \in Int
      BY <1>2 DEF LimitType
    <3> HIDE DEF all
    <3> QED
      BY <1>2, <1>3, <1>4, <2>2, <2>4, <3>1, <3>2
  <2>6. Due' = ahead'
    BY <1>2, <1>3, <1>4 DEF Due, LimitType
  <2>7. ASSUME NEW t \in window'.slices
        PROVE  RowTime * Cardinality(window.rows \cup Chunks(PaidBefore(t))') <= owed'[t] + window.age + Burst
    <3> DEFINE mine == window.rows \cup Chunks(PaidBefore(t))'
    <3>1. t \in Slices /\ window.age \in Int
      BY <1>2, <2>1, <2>7 DEF LimitType
    <3>2. CASE owed'[s] <= owed'[t]
      <4>1. mine \subseteq all \cup rows
        <5>1. PaidBefore(t)' \subseteq window'.slices
          BY DEF PaidBefore
        <5>2. Chunks(PaidBefore(t))' \subseteq Chunks(window.slices)'
          BY <5>1 DEF Chunks
        <5> QED
          BY <2>3, <5>2
      <4>2. RowTime * Cardinality(mine) <= RowTime * Cardinality(all \cup rows) /\ RowTime * Cardinality(mine) \in Nat
            /\ RowTime * Cardinality(all \cup rows) \in Nat
        BY <1>2, <2>2, <4>1, CostOfSome
      <4>3. owed'[t] >= ahead' /\ owed'[t] \in Nat
        BY <1>4, <1>5, <3>1, <3>2
      <4> HIDE DEF mine, all
      <4> QED
        BY <1>2, <1>4, <2>5, <3>1, <4>2, <4>3 DEF mine
    <3>3. CASE ~(owed'[s] <= owed'[t])
      <4>1. t # s /\ t \in window.slices /\ owed'[t] = owed[t]
        BY <1>5, <2>1, <2>7, <3>1, <3>3
      <4>2. window.slices \subseteq Slices /\ \A u \in Slices \ {s} : chunk'[u] = chunk[u]
        BY <1>1, <1>2 DEF LimitType, TypeInv
      <4>3. ASSUME NEW u \in PaidBefore(t)' PROVE u \in PaidBefore(t) /\ chunk'[u] = chunk[u]
        <5>1. u \in window'.slices /\ owed'[u] <= owed'[t]
          BY DEF PaidBefore
        <5>2. u # s /\ u \in window.slices
          BY <2>1, <3>3, <5>1
        <5>3. owed[u] <= owed[t]
          BY <1>5, <4>1, <4>2, <5>1, <5>2
        <5> QED
          BY <4>2, <5>2, <5>3 DEF PaidBefore
      <4>4. mine \subseteq window.rows \cup Chunks(PaidBefore(t))
        BY <4>3 DEF Chunks
      <4>5. window.rows \cup Chunks(PaidBefore(t)) \subseteq Rows
        BY <1>2, <4>2, SomeChunks DEF PaidBefore
      <4>6. RowTime * Cardinality(window.rows \cup Chunks(PaidBefore(t))) <= owed[t] + window.age + Burst
        BY <1>9, <4>1 DEF LimitInv, Allowed
      <4>7. /\ RowTime * Cardinality(mine) <= RowTime * Cardinality(window.rows \cup Chunks(PaidBefore(t)))
            /\ RowTime * Cardinality(mine) \in Nat
            /\ RowTime * Cardinality(window.rows \cup Chunks(PaidBefore(t))) \in Nat
        BY <4>4, <4>5, CostOfSome
      <4>8. owed[t] + window.age + Burst \in Int
        BY <1>2, <3>1 DEF LimitType
      <4> HIDE DEF mine
      <4> QED
        BY <4>1, <4>6, <4>7, <4>8 DEF mine
    <3> QED
      BY <3>2, <3>3
  <2>8. RowTime * Cardinality(window.rows) <= window.age + Burst
    BY <1>9 DEF LimitInv, Allowed
  <2> QED
    BY <1>8, <2>3, <2>5, <2>6, <2>7, <2>8 DEF Allowed
<1> QED
  <2>1. \A t \in Slices' : owed'[t] = 0 \/ owed'[t] <= ahead'
    BY <1>5, <1>7
  <2>2. window'.age = -1 => window'.slices = window.slices /\ window'.rows = window.rows
    BY <1>1, <1>2, <1>8 DEF LimitType
  <2>3. window'.age >= 0 => Allowed'
    BY <1>8, <1>9
  <2> QED
    BY <1>1, <1>6, <1>8, <2>1, <2>2, <2>3 DEF LimitInv

(* A slice's chunk leaves the slices of the window: into its rows when it  *)
(* has been paid for, or nowhere when the slice has failed.                *)
LEMMA LimitAsAChunkLeaves ==
  ASSUME TypeInv, LimitInv, NEW s \in Slices,
         UNCHANGED <<cuts, pc, owed, ahead>>,
         chunk' = [chunk EXCEPT ![s] = {}],
         window'.age = window.age, window'.slices = window.slices \ {s},
         window' \in [age : Int, rows : SUBSET Rows, slices : SUBSET Slices],
         \/ window'.rows = window.rows
         \/ owed[s] = 0 /\ s \in window.slices /\ window'.rows = window.rows \cup chunk[s]
  PROVE  LimitInv'
<1>1. LimitType /\ Slices' = Slices /\ window.slices \subseteq Slices /\ window.age \in Int /\ Burst \in Nat
  BY ReadingAssumption DEF LimitInv, LimitType, Slices
<1>2. LimitType'
  BY <1>1 DEF LimitType
<1>3. \A u \in Slices : chunk'[u] \subseteq chunk[u]
  BY DEF TypeInv
<1>4. ASSUME window.age >= 0 PROVE Allowed'
  <2>1. Allowed
    BY <1>4 DEF LimitInv
  <2>2. ASSUME NEW S \in SUBSET Slices, NEW T \in SUBSET S, NEW bound \in Int, owed[s] = 0 /\ s \in window.slices => s \in S,
               RowTime * Cardinality(window.rows \cup Chunks(S)) <= bound
        PROVE  RowTime * Cardinality(window'.rows \cup Chunks(T)') <= bound
    <3> DEFINE before == window.rows \cup Chunks(S)
               after == window'.rows \cup Chunks(T)'
    <3>1. Chunks(T)' \subseteq Chunks(S)
      BY <1>3, <2>2 DEF Chunks
    <3>2. window'.rows \subseteq before
      BY <2>2 DEF Chunks
    <3>3. before \subseteq Rows /\ after \subseteq before
      BY <1>1, <3>1, <3>2, SomeChunks
    <3> HIDE DEF before, after
    <3>4. /\ RowTime * Cardinality(after) <= RowTime * Cardinality(before)
          /\ RowTime * Cardinality(after) \in Nat /\ RowTime * Cardinality(before) \in Nat
      BY <3>3, CostOfSome
    <3> QED
      BY <2>2, <3>4 DEF before, after
  <2>3. ASSUME NEW t \in window'.slices
        PROVE  RowTime * Cardinality(window'.rows \cup Chunks(PaidBefore(t))') <= owed'[t] + window'.age + Burst
    <3>1. t \in window.slices /\ t \in Slices /\ owed'[t] = owed[t] /\ owed[t] \in Nat
      BY <1>1 DEF LimitType
    <3>2. RowTime * Cardinality(window.rows \cup Chunks(PaidBefore(t))) <= owed[t] + window.age + Burst
      BY <2>1, <3>1 DEF Allowed
    <3>3. PaidBefore(t)' \subseteq PaidBefore(t) /\ PaidBefore(t) \subseteq Slices
      BY <1>1 DEF PaidBefore
    <3>4. owed[s] = 0 /\ s \in window.slices => s \in PaidBefore(t)
      BY <3>1 DEF PaidBefore
    <3>5. owed[t] + window.age + Burst \in Int
      BY <1>1, <3>1
    <3>6. \A T : PaidBefore(t)' = T => Chunks(PaidBefore(t))' = UNION {chunk'[u] : u \in T}
      BY DEF Chunks
    <3> DEFINE T == {u \in window.slices \ {s} : owed[u] <= owed[t]}
    <3>7. T \subseteq PaidBefore(t) /\ PaidBefore(t)' = T
      BY DEF PaidBefore
    <3> HIDE DEF T
    <3>8. RowTime * Cardinality(window'.rows \cup UNION {chunk'[u] : u \in T}) <= owed[t] + window.age + Burst
      BY <2>2, <3>2, <3>3, <3>4, <3>5, <3>7 DEF Chunks
    <3> QED
      BY <3>1, <3>6, <3>7, <3>8
  <2>4. RowTime * Cardinality(window'.rows \cup Chunks(window.slices)') <= Due + window.age + Burst
    <3>1. Due + window.age + Burst \in Int
      BY <1>1 DEF LimitType, Due
    <3>2. RowTime * Cardinality(window.rows \cup Chunks(window.slices)) <= Due + window.age + Burst
      BY <2>1 DEF Allowed
    <3> DEFINE S == window.slices
               T == S \ {s}
               total == Due + window.age + Burst
    <3>3. S \in SUBSET Slices /\ T \in SUBSET S /\ (owed[s] = 0 /\ s \in window.slices => s \in S)
      BY <1>1
    <3>4. total \in Int /\ RowTime * Cardinality(window.rows \cup Chunks(S)) <= total
      BY <3>1, <3>2
    <3>5. \A U : window'.slices = U => Chunks(window.slices)' = UNION {chunk'[u] : u \in U}
      BY DEF Chunks
    <3>6. window'.slices = T
      OBVIOUS
    <3> HIDE DEF S, T, total
    <3>7. RowTime * Cardinality(window'.rows \cup UNION {chunk'[u] : u \in T}) <= total
      BY <2>2, <3>3, <3>4 DEF Chunks
    <3> QED
      BY <3>5, <3>6, <3>7 DEF total
  <2>5. RowTime * Cardinality(window'.rows) <= window.age + Burst
    <3>1. CASE window'.rows = window.rows
      BY <2>1, <3>1 DEF Allowed
    <3>2. CASE owed[s] = 0 /\ s \in window.slices /\ window'.rows = window.rows \cup chunk[s]
      <4> DEFINE before == window.rows \cup Chunks(PaidBefore(s))
      <4>1. RowTime * Cardinality(before) <= window.age + Burst
        <5>1. RowTime * Cardinality(before) <= owed[s] + window.age + Burst
          BY <2>1, <3>2 DEF Allowed
        <5> HIDE DEF before
        <5>2. owed[s] + window.age + Burst = window.age + Burst
          BY <1>1, <3>2
        <5> QED
          BY <5>1, <5>2
      <4>2. s \in PaidBefore(s) /\ PaidBefore(s) \subseteq Slices
        BY <1>1, <3>2 DEF PaidBefore
      <4>3. before \subseteq Rows /\ window'.rows \subseteq before
        BY <1>1, <3>2, <4>2, SomeChunks DEF Chunks
      <4> HIDE DEF before
      <4>4. RowTime * Cardinality(window'.rows) <= RowTime * Cardinality(before)
            /\ RowTime * Cardinality(window'.rows) \in Nat /\ RowTime * Cardinality(before) \in Nat
        BY <4>3, CostOfSome
      <4> QED
        BY <1>1, <4>1, <4>4
    <3> QED
      BY <3>1, <3>2
  <2>6. Due' = Due
    BY DEF Due
  <2> QED
    BY <2>3, <2>4, <2>5, <2>6 DEF Allowed
<1> QED
  BY <1>1, <1>2, <1>4 DEF LimitInv

(* As time passes, what is owed becomes less and what is allowed more.     *)
LEMMA LimitAsTimePasses ==
  ASSUME TypeInv, LimitInv, Tick
  PROVE  LimitInv'
<1>1. /\ UNCHANGED <<cuts, pc, chunk>> /\ pc = "loading"
      /\ ahead' = Max({ahead - 1, -(Burst + 1)})
      /\ owed' = [s \in Slices |-> Max({owed[s] - 1, 0})]
      /\ window' = [window EXCEPT !.age = IF window.age \in 0..(LongestAhead - 1) THEN window.age + 1 ELSE window.age]
  BY DEF Tick, plan
<1>2. LimitType /\ Slices' = Slices /\ Burst \in Nat /\ LongestAhead \in Nat
  <2>1. {} \in SUBSET Rows
    OBVIOUS
  <2>2. RowTime * Cardinality(Rows) \in Nat
    BY CostOfMore
  <2> QED
    BY <1>1, <2>2, ReadingAssumption DEF LimitInv, Slices, LongestAhead
<1>3. /\ owed' \in [Slices -> Nat]
      /\ \A s \in Slices : owed'[s] = IF owed[s] > 0 THEN owed[s] - 1 ELSE 0
  <2>1. \A s \in Slices : Max({owed[s] - 1, 0}) = IF owed[s] > 0 THEN owed[s] - 1 ELSE 0
    BY <1>2, MaxOfTwo DEF LimitType
  <2> QED
    BY <1>1, <1>2, <2>1 DEF LimitType
<1>4. ahead' \in Int /\ ahead' >= ahead - 1 /\ ahead \in Int
  <2>1. Max({ahead - 1, -(Burst + 1)}) = IF ahead - 1 >= -(Burst + 1) THEN ahead - 1 ELSE -(Burst + 1)
    BY <1>2, MaxOfTwo DEF LimitType
  <2> QED
    BY <1>1, <1>2, <2>1 DEF LimitType
<1>5. /\ window'.age = IF window.age \in 0..(LongestAhead - 1) THEN window.age + 1 ELSE window.age
      /\ window'.rows = window.rows /\ window'.slices = window.slices /\ window.age \in Int /\ window.age >= -1
  BY <1>1, <1>2 DEF LimitType
<1>6. LimitType'
  BY <1>1, <1>2, <1>3, <1>4, <1>5 DEF LimitType
<1>7. \A s \in Slices : owed'[s] = 0 \/ owed'[s] <= ahead'
  BY <1>2, <1>3, <1>4 DEF LimitInv, LimitType
<1>8. ASSUME window'.age >= 0 PROVE Allowed'
  <2>1. window.age >= 0 /\ Allowed
    BY <1>2, <1>5, <1>8 DEF LimitInv
  <2>2. Due' \in Int /\ Due' + window'.age + Burst >= window'.age /\ Due' >= Due - 1 /\ Due \in Int
    BY <1>2, <1>4, <1>5 DEF Due
  <2>3. Chunks(window.slices)' = Chunks(window.slices) /\ window.slices \subseteq Slices
    BY <1>1, <1>2, <1>5 DEF Chunks, LimitType
  <2>4. CASE window'.age = window.age + 1
    <3>1. ASSUME NEW s \in window.slices
          PROVE  RowTime * Cardinality(window.rows \cup Chunks(PaidBefore(s))') <= owed'[s] + window'.age + Burst
      <4>1. PICK t \in window.slices : PaidBefore(s)' = PaidBefore(t) /\ owed[t] <= owed'[s] + 1
        <5>0. s \in Slices /\ owed[s] \in Nat /\ \A u \in window.slices : u \in Slices /\ owed[u] \in Nat
          BY <1>2, <2>3 DEF LimitType
        <5>1. CASE owed[s] > 0
          <6>1. \A u \in window.slices : owed'[u] <= owed'[s] <=> owed[u] <= owed[s]
            BY <1>3, <5>0, <5>1
          <6> QED
            BY <1>3, <1>5, <5>0, <5>1, <6>1 DEF PaidBefore
        <5>2. CASE owed[s] = 0 /\ \E u \in window.slices : owed[u] = 1
          <6>1. PICK t \in window.slices : owed[t] = 1
            BY <5>2
          <6>2. \A u \in window.slices : owed'[u] <= owed'[s] <=> owed[u] <= owed[t]
            BY <1>3, <5>0, <5>2, <6>1
          <6> QED
            BY <1>3, <1>5, <5>0, <5>2, <6>1, <6>2 DEF PaidBefore
        <5>3. CASE owed[s] = 0 /\ ~\E u \in window.slices : owed[u] = 1
          <6>1. \A u \in window.slices : owed'[u] <= owed'[s] <=> owed[u] <= owed[s]
            BY <1>3, <5>0, <5>3
          <6> QED
            BY <1>3, <1>5, <5>0, <5>3, <6>1 DEF PaidBefore
        <5> QED
          BY <5>0, <5>1, <5>2, <5>3
      <4>2. Chunks(PaidBefore(s))' = Chunks(PaidBefore(t))
        BY <1>1, <4>1 DEF Chunks
      <4>3. RowTime * Cardinality(window.rows \cup Chunks(PaidBefore(t))) <= owed[t] + window.age + Burst
        BY <2>1 DEF Allowed
      <4>4. window.rows \cup Chunks(PaidBefore(t)) \subseteq Rows
        BY <1>2, <2>3, SomeChunks DEF PaidBefore
      <4>5. RowTime * Cardinality(window.rows \cup Chunks(PaidBefore(t))) \in Nat
        BY <4>4, CostOfSome
      <4>6. owed[t] \in Nat /\ owed'[s] \in Nat
        BY <1>2, <1>3, <2>3 DEF LimitType
      <4> QED
        BY <1>2, <1>5, <2>4, <4>1, <4>2, <4>3, <4>5, <4>6
    <3>2. /\ RowTime * Cardinality(window.rows \cup Chunks(window.slices)) <= Due' + window'.age + Burst
          /\ RowTime * Cardinality(window.rows) <= window'.age + Burst
      <4>1. /\ RowTime * Cardinality(window.rows \cup Chunks(window.slices)) \in Nat
            /\ RowTime * Cardinality(window.rows) \in Nat
        BY <1>2, <2>3, SomeChunks, CostOfSome
      <4>2. /\ RowTime * Cardinality(window.rows \cup Chunks(window.slices)) <= Due + window.age + Burst
            /\ RowTime * Cardinality(window.rows) <= window.age + Burst
        BY <2>1 DEF Allowed
      <4> QED
        BY <1>2, <1>5, <2>2, <2>4, <4>1, <4>2
    <3> QED
      BY <1>5, <2>3, <3>1, <3>2 DEF Allowed
  <2>5. CASE window'.age # window.age + 1
    <3>1. window'.age >= LongestAhead
      BY <1>2, <1>5, <2>1, <2>5
    <3>2. ASSUME NEW X \in SUBSET Rows, NEW bound \in Int, bound >= window'.age
          PROVE  RowTime * Cardinality(X) <= bound
      <4>1. RowTime * Cardinality(X) \in Nat /\ RowTime * Cardinality(X) <= LongestAhead
        BY CostOfSome
      <4> QED
        BY <1>2, <1>5, <3>1, <3>2, <4>1
    <3>3. window.rows \subseteq Rows /\ \A S \in SUBSET Slices : window.rows \cup Chunks(S) \subseteq Rows
      BY <1>2, SomeChunks
    <3>4. ASSUME NEW s \in window.slices
          PROVE  RowTime * Cardinality(window.rows \cup Chunks(PaidBefore(s))') <= owed'[s] + window'.age + Burst
      <4>1. owed'[s] \in Nat /\ window'.age \in Int
        BY <1>2, <1>3, <1>5, <2>3 DEF LimitType
      <4>2. window.rows \cup Chunks(PaidBefore(s))' \subseteq Rows
        <5>1. \A S : PaidBefore(s)' = S => Chunks(PaidBefore(s))' = Chunks(S)
          BY <1>1 DEF Chunks
        <5>2. PaidBefore(s)' \subseteq Slices
          BY <1>5, <2>3 DEF PaidBefore
        <5> QED
          BY <3>3, <5>1, <5>2
      <4>3. owed'[s] + window'.age + Burst \in Int /\ owed'[s] + window'.age + Burst >= window'.age
        BY <1>2, <4>1
      <4> QED
        BY <3>2, <4>2, <4>3
    <3>5. /\ window'.age + Burst \in Int /\ window'.age + Burst >= window'.age
          /\ Due' + window'.age + Burst \in Int
      BY <1>2, <1>5, <2>2
    <3> QED
      BY <1>5, <2>2, <2>3, <3>2, <3>3, <3>4, <3>5 DEF Allowed
  <2> QED
    BY <2>4, <2>5
<1> QED
  <2>1. window'.age = -1 => window.age = -1
    BY <1>5
  <2>2. window'.age = -1 => window'.slices = {} /\ window'.rows = {}
    BY <1>5, <2>1 DEF LimitInv
  <2>3. pc' # "bounds"
    BY <1>1
  <2> QED
    BY <1>2, <1>6, <1>7, <1>8, <2>2, <2>3 DEF LimitInv

LEMMA LimitStep == IInv /\ LimitInv /\ [Next]_vars => LimitInv'
<1> SUFFICES ASSUME IInv, LimitInv, [Next]_vars PROVE LimitInv'
  OBVIOUS
<1>1. TypeInv /\ LimitType /\ Burst \in Nat
  BY ReadingAssumption DEF IInv, LimitInv
<1>2. CASE ReadBounds
  <2>1. /\ window' = window /\ window.age = -1 /\ window.slices = {} /\ ahead' = ahead
        /\ owed' = [s \in Slices' |-> 0] /\ pc' = "loading"
    BY <1>2 DEF ReadBounds, LimitInv, Slices
  <2> QED
    BY <1>1, <2>1 DEF LimitInv, LimitType
<1>3. ASSUME UNCHANGED <<cuts, chunk, owed, ahead, window>>, pc' = "bounds" => pc = "bounds" PROVE LimitInv'
  BY <1>3 DEF LimitInv, LimitType, Allowed, Due, Chunks, PaidBefore, Slices
<1>4. CASE StopOthers \/ LoadIsOver \/ AddRow
  BY <1>3, <1>4 DEF StopOthers, LoadIsOver, AddRow, plan, slices
<1>5. CASE Tick
  BY <1>1, <1>5, LimitAsTimePasses
<1>6. CASE OpenWindow
  <2>1. /\ UNCHANGED <<cuts, chunk, owed, ahead, pc>> /\ pc = "loading"
        /\ window.slices = {} /\ window.rows = {}
        /\ window' = [window EXCEPT !.age = 0]
    BY <1>6 DEF OpenWindow, plan, slices, LimitInv
  <2>2. LimitType' /\ Slices' = Slices /\ window'.age = 0 /\ window'.slices = {} /\ window'.rows = {}
    BY <1>1, <2>1 DEF LimitType, Slices
  <2>3. RowTime * Cardinality({}) = 0
    BY FS_EmptySet, ReadingAssumption
  <2>4. Chunks(window.slices)' = {} /\ Due' \in Int /\ Due' >= -Burst
    BY <1>1, <2>1, <2>2 DEF Chunks, Due, LimitType
  <2>5. Allowed'
    <3>1. window'.rows \cup Chunks(window.slices)' = {}
      BY <2>2, <2>4
    <3>2. /\ RowTime * Cardinality(window'.rows) <= window'.age + Burst
          /\ RowTime * Cardinality(window'.rows \cup Chunks(window.slices)') <= Due' + window'.age + Burst
      <4>1. /\ RowTime * Cardinality(window'.rows) = 0
            /\ RowTime * Cardinality(window'.rows \cup Chunks(window.slices)') = 0
        BY <2>2, <2>3, <3>1
      <4>2. Burst \in Nat
        BY <1>1
      <4>3. \A due \in Int, burst \in Nat : due >= -burst => due + 0 + burst >= 0 /\ 0 + burst >= 0
        OBVIOUS
      <4>4. Due' + 0 + Burst >= 0 /\ 0 + Burst >= 0
        BY <2>4, <4>2, <4>3
      <4> QED
        BY <2>2, <4>1, <4>4
    <3> QED
      BY <2>2, <3>2 DEF Allowed
  <2> QED
    BY <2>1, <2>2, <2>5 DEF LimitInv
<1>7. ASSUME NEW s \in Slices, ReadChunk(s) PROVE LimitInv'
  BY <1>7, LimitAsAChunkIsRead
<1>8. ASSUME NEW s \in Slices, SubmitChunk(s) PROVE LimitInv'
  <2>1. /\ UNCHANGED <<cuts, pc, owed, ahead>> /\ owed[s] = 0
        /\ chunk' = [chunk EXCEPT ![s] = {}]
        /\ window' = [window EXCEPT !.slices = window.slices \ {s},
                                    !.rows = IF s \in window.slices THEN window.rows \cup chunk[s] ELSE window.rows]
    BY <1>8 DEF SubmitChunk, plan
  <2>2. chunk[s] \subseteq Rows
    BY <1>1 DEF TypeInv
  <2> QED
    BY <1>1, <2>1, <2>2, LimitAsAChunkLeaves DEF LimitType
<1>9. ASSUME NEW s \in Slices, StopSlice(s) \/ SliceFails(s) PROVE LimitInv'
  <2>1. /\ UNCHANGED <<cuts, pc, owed, ahead>>
        /\ chunk' = [chunk EXCEPT ![s] = {}]
        /\ window' = [window EXCEPT !.slices = window.slices \ {s}]
    BY <1>9 DEF StopSlice, SliceFails, End, plan
  <2> QED
    BY <1>1, <2>1, LimitAsAChunkLeaves DEF LimitType
<1>10. ASSUME NEW s \in Slices, OpenSlice(s) \/ WriteChunk(s) PROVE LimitInv'
  BY <1>3, <1>10 DEF OpenSlice, WriteChunk, plan
<1>11. CASE UNCHANGED vars
  BY <1>3, <1>11 DEF vars, plan, slices
<1> QED
  BY <1>2, <1>4, <1>5, <1>6, <1>7, <1>8, <1>9, <1>10, <1>11 DEF Next, SliceGoesOn

(* However many slices read, wait side by side and wake late, the rows of  *)
(* any stretch of time are within the limit's rate and a burst             *)
(* (ReadLimit.take, timedChunks).                                          *)
THEOREM LimitIsKept == Spec => []WithinLimit
<1>1. LimitInv => WithinLimit
  BY DEF LimitInv, Allowed, WithinLimit
<1> QED
  BY <1>1, LimitAtFirst, LimitStep, Invariance, PTL DEF Spec

-------------------------------------------------------------------------------
(* Arithmetic *)

LEMMA NoMultipleBetween ==
  ASSUME NEW M \in Nat \ {0}, NEW d \in Int, -M < M * d, M * d < M
  PROVE  d = 0
<1>1. d >= 1 => M * d >= M
  <2> SUFFICES ASSUME d >= 1 PROVE M * d >= M
    OBVIOUS
  <2>1. M * (d - 1) >= 0
    OBVIOUS
  <2>2. M * (d - 1) = M * d - M
    OBVIOUS
  <2> QED
    BY <2>1, <2>2
<1>2. d <= -1 => M * d <= -M
  <2> SUFFICES ASSUME d <= -1 PROVE M * d <= -M
    OBVIOUS
  <2>1. M * (-1 - d) >= 0
    OBVIOUS
  <2>2. M * (-1 - d) = -M - M * d
    OBVIOUS
  <2> QED
    BY <2>1, <2>2
<1> QED
  BY <1>1, <1>2

(* A number is its two halves. *)
LEMMA JoinInjective ==
  ASSUME NEW R \in Nat \ {0},
         NEW a \in Int, NEW c \in Int, NEW b \in 0..(R - 1), NEW d \in 0..(R - 1),
         a * R + b = c * R + d
  PROVE  a = c /\ b = d
<1>1. R * (a - c) = d - b
  OBVIOUS
<1>2. a - c = 0
  <2>1. -R < d - b /\ d - b < R
    OBVIOUS
  <2> QED
    BY <1>1, <2>1, NoMultipleBetween
<1> QED
  BY <1>2

LEMMA SplitInjective ==
  ASSUME NEW R \in Nat \ {0}, NEW m \in Nat, NEW n \in Nat,
         m \div R = n \div R, m % R = n % R
  PROVE  m = n
<1>1. m = R * (m \div R) + (m % R) /\ n = R * (n \div R) + (n % R)
  OBVIOUS
<1> QED
  BY <1>1

LEMMA HalvesInRange ==
  ASSUME NEW L \in Nat \ {0}, NEW R \in Nat \ {0}, NEW n \in 0..(L * R - 1)
  PROVE  n \div R \in 0..(L - 1) /\ n % R \in 0..(R - 1)
<1> DEFINE q == n \div R
<1>1. n = R * q + (n % R) /\ n % R \in 0..(R - 1) /\ q \in Nat
  <2>1. n \in Nat
    OBVIOUS
  <2> QED
    BY <2>1
<1>2. q < L
  <2>1. R * q < R * L
    <3>1. L * R \in Int /\ R * q \in Int /\ L * R = R * L
      BY <1>1
    <3> QED
      BY <1>1, <3>1
  <2> HIDE DEF q
  <2>2. ASSUME q >= L PROVE FALSE
    <3>1. R * (q - L) >= 0
      BY <1>1, <2>2
    <3>2. R * (q - L) = R * q - R * L
      BY <1>1
    <3> QED
      BY <1>1, <2>1, <3>1, <3>2
  <2> QED
    BY <1>1, <2>2
<1> QED
  BY <1>1, <1>2

LEMMA JoinInRange ==
  ASSUME NEW L \in Nat \ {0}, NEW R \in Nat \ {0}, NEW a \in 0..(L - 1), NEW b \in 0..(R - 1)
  PROVE  a * R + b \in 0..(L * R - 1)
<1>1. (L - 1 - a) * R >= 0 /\ a * R >= 0
  OBVIOUS
<1>2. (L - 1 - a) * R = L * R - R - a * R /\ L * R \in Int /\ a * R \in Int
  OBVIOUS
<1> QED
  BY <1>1, <1>2

LEMMA AddInjective ==
  ASSUME NEW M \in Nat \ {0}, NEW y \in Nat, NEW a \in 0..(M - 1), NEW c \in 0..(M - 1),
         (a + y) % M = (c + y) % M
  PROVE  a = c
<1> DEFINE p == (a + y) \div M
           q == (c + y) \div M
<1>1. a + y = M * p + ((a + y) % M) /\ c + y = M * q + ((c + y) % M) /\ p \in Int /\ q \in Int
  <2>1. a + y \in Nat /\ c + y \in Nat
    OBVIOUS
  <2> QED
    BY <2>1
<1> HIDE DEF p, q
<1>2. M * (p - q) = a - c
  <2>1. M * (p - q) = M * p - M * q
    BY <1>1
  <2>2. (a + y) % M \in Int /\ M * p \in Int /\ M * q \in Int
    BY <1>1
  <2> QED
    BY <1>1, <2>1, <2>2
<1>3. p - q = 0
  BY <1>1, <1>2, NoMultipleBetween
<1> QED
  BY <1>2, <1>3

-------------------------------------------------------------------------------
(* Shapes *)

LEMMA ShapeSizes ==
  ASSUME NEW s \in Shape
  PROVE  Left(s) \in Nat \ {0} /\ Right(s) \in Nat \ {0} /\ Low(s) \in Nat /\ High(s) \in Nat /\ Offset(s) \in Nat
<1> USE MaskingAssumption DEF Shape
<1>1. Low(s) \in Nat /\ High(s) \in Nat /\ Offset(s) \in Nat
  <2>1. s.length \in 0..MaxLength /\ (s.length > 1 => s.length - 1 \in 0..MaxLength)
    OBVIOUS
  <2>2. s.length = 1 => s.length - 1 \in 0..MaxLength
    OBVIOUS
  <2>3. Low(s) \in Nat
    BY <2>1, <2>2 DEF Low
  <2>4. High(s) \in Nat
    BY <2>1 DEF High
  <2> QED
    BY <2>3, <2>4 DEF Offset
<1>2. CASE s.cipher = "FF1"
  <2>1. s.length \div 2 \in 0..MaxLength /\ s.length - s.length \div 2 \in 0..MaxLength
    OBVIOUS
  <2> QED
    BY <1>1, <1>2, <2>1 DEF Left, Right
<1>3. CASE s.cipher = "permute"
  <2>1. Left(s) \in Nat \ {0}
    BY <1>3
  <2> QED
    BY <1>1, <1>3, <2>1 DEF Right
<1> QED
  BY <1>2, <1>3

LEMMA HalvesOfPermute ==
  ASSUME NEW s \in Shape, s.cipher # "FF1"
  PROVE  Left(s) \in Halves /\ Right(s) = Left(s)
<1>1. s.cipher = "permute"
  BY DEF Shape
<1> QED
  BY <1>1, MaskingAssumption DEF Right

LEMMA ModulusSize ==
  ASSUME NEW s \in Shape, NEW i \in Nat
  PROVE  Modulus(s, i) \in Nat \ {0} /\ (s.cipher # "FF1" => Modulus(s, i) = Left(s))
  BY ShapeSizes, HalvesOfPermute DEF Modulus

-------------------------------------------------------------------------------
(* A round loses nothing *)

(* The halves before a round. *)
Pairs(s, i) == (0..(Modulus(s, i) - 1)) \X (0..(Modulus(s, i + 1) - 1))

LEMMA RoundKeys ==
  ASSUME key \in Keys, NEW s \in Shape, NEW i \in 0..(Rounds - 1), NEW b \in 0..(Modulus(s, i + 1) - 1)
  PROVE  Pseudorandom(key, s, i, b) \in Nat
<1>1. i \in Nat /\ i + 1 \in Nat
  BY MaskingAssumption
<1>2. b \in Block(s)
  <2>1. Left(s) \in Nat \ {0} /\ Right(s) \in Nat \ {0} /\ (b < Left(s) \/ b < Right(s)) /\ b \in Nat
    BY <1>1, ShapeSizes, ModulusSize DEF Modulus
  <2>2. 0 * Right(s) + 0 = 0
    BY <2>1
  <2>3. ASSUME b < Left(s) PROVE b \in 0..(Left(s) * Right(s) - 1)
    <3>1. (Left(s) - 1) * (Right(s) - 1) >= 0
      BY <2>1
    <3>2. (Left(s) - 1) * (Right(s) - 1) = Left(s) * Right(s) - Left(s) - Right(s) + 1 /\ Left(s) * Right(s) \in Int
      BY <2>1
    <3> QED
      BY <2>1, <2>3, <3>1, <3>2
  <2>4. ASSUME b < Right(s) PROVE b \in 0..(Left(s) * Right(s) - 1)
    <3>1. (Left(s) - 1) * (Right(s) - 1) >= 0
      BY <2>1
    <3>2. (Left(s) - 1) * (Right(s) - 1) = Left(s) * Right(s) - Left(s) - Right(s) + 1 /\ Left(s) * Right(s) \in Int
      BY <2>1
    <3> QED
      BY <2>1, <2>4, <3>1, <3>2
  <2> QED
    BY <2>1, <2>3, <2>4 DEF Block
<1> QED
  BY <1>2, MaskingAssumption

LEMMA MixedInRange ==
  ASSUME key \in Keys, NEW s \in Shape, NEW i \in 0..(Rounds - 1), NEW p \in Pairs(s, i)
  PROVE  Mixed(s, i, p[1], p[2]) \in 0..(Modulus(s, i) - 1)
<1> DEFINE y == Pseudorandom(key, s, i, p[2])
<1>1. i \in Nat /\ Modulus(s, i) \in Nat \ {0}
  BY MaskingAssumption, ModulusSize
<1>2. p[1] \in 0..(Modulus(s, i) - 1) /\ p[2] \in 0..(Modulus(s, i + 1) - 1)
  BY DEF Pairs
<1>3. y \in Nat
  BY <1>2, RoundKeys
<1> HIDE DEF y
<1>4. CASE s.cipher = "FF1"
  <2>1. (p[1] + y) % Modulus(s, i) \in 0..(Modulus(s, i) - 1)
    BY <1>1, <1>2, <1>3
  <2> QED
    BY <1>4, <2>1 DEF Mixed, y
<1>5. CASE s.cipher # "FF1"
  <2>1. Modulus(s, i) = Left(s) /\ Left(s) \in Halves /\ Left(s) \in Nat \ {0}
    BY <1>1, <1>5, ModulusSize, HalvesOfPermute, ShapeSizes
  <2>2. y % Left(s) \in 0..(Left(s) - 1)
    BY <1>3, <2>1
  <2>3. ExclusiveOr(p[1], y % Left(s)) \in 0..(Left(s) - 1)
    BY <1>2, <2>1, <2>2, MaskingAssumption
  <2> QED
    BY <1>5, <2>1, <2>3 DEF Mixed, y
<1> QED
  BY <1>4, <1>5

LEMMA MixedInjective ==
  ASSUME key \in Keys, NEW s \in Shape, NEW i \in 0..(Rounds - 1),
         NEW p \in Pairs(s, i), NEW q \in Pairs(s, i),
         p[2] = q[2], Mixed(s, i, p[1], p[2]) = Mixed(s, i, q[1], q[2])
  PROVE  p[1] = q[1]
<1> DEFINE y == Pseudorandom(key, s, i, p[2])
<1>1. i \in Nat /\ Modulus(s, i) \in Nat \ {0}
  BY MaskingAssumption, ModulusSize
<1>2. {p[1], q[1]} \subseteq 0..(Modulus(s, i) - 1) /\ p[2] \in 0..(Modulus(s, i + 1) - 1)
  BY DEF Pairs
<1>3. y \in Nat
  BY <1>2, RoundKeys
<1> HIDE DEF y
<1>4. CASE s.cipher = "FF1"
  <2>1. (p[1] + y) % Modulus(s, i) = (q[1] + y) % Modulus(s, i)
    BY <1>4 DEF Mixed, y
  <2> QED
    BY <1>1, <1>2, <1>3, <2>1, AddInjective
<1>5. CASE s.cipher # "FF1"
  <2>1. Modulus(s, i) = Left(s) /\ Left(s) \in Halves /\ Left(s) \in Nat \ {0}
    BY <1>1, <1>5, ModulusSize, HalvesOfPermute, ShapeSizes
  <2>2. y % Left(s) \in 0..(Left(s) - 1)
    BY <1>3, <2>1
  <2>3. ExclusiveOr(p[1], y % Left(s)) = ExclusiveOr(q[1], y % Left(s))
    BY <1>5 DEF Mixed, y
  <2>4. \A a \in 0..(Left(s) - 1) : ExclusiveOr(ExclusiveOr(a, y % Left(s)), y % Left(s)) = a
    BY <2>1, <2>2, MaskingAssumption
  <2> QED
    BY <1>2, <2>1, <2>3, <2>4
<1> QED
  BY <1>4, <1>5

LEMMA RoundInjective ==
  ASSUME key \in Keys, NEW s \in Shape, NEW i \in 0..(Rounds - 1)
  PROVE  /\ \A p \in Pairs(s, i) : OneRound(s, i, p) \in Pairs(s, i + 1)
         /\ \A p, q \in Pairs(s, i) : OneRound(s, i, p) = OneRound(s, i, q) => p = q
<1>1. i \in Nat /\ i + 1 + 1 = i + 2 /\ Modulus(s, i + 2) = Modulus(s, i)
  <2>1. i \in Nat
    BY MaskingAssumption
  <2>2. (i + 2) % 2 = i % 2
    BY <2>1
  <2> QED
    BY <2>1, <2>2 DEF Modulus
<1>2. ASSUME NEW p \in Pairs(s, i) PROVE OneRound(s, i, p) \in Pairs(s, i + 1)
  BY <1>1, MixedInRange DEF OneRound, Pairs
<1>3. ASSUME NEW p \in Pairs(s, i), NEW q \in Pairs(s, i), OneRound(s, i, p) = OneRound(s, i, q) PROVE p = q
  <2>1. p[2] = q[2] /\ Mixed(s, i, p[1], p[2]) = Mixed(s, i, q[1], q[2])
    BY <1>3 DEF OneRound
  <2>2. p[1] = q[1]
    BY <2>1, MixedInjective
  <2> QED
    BY <2>1, <2>2 DEF Pairs
<1> QED
  BY <1>2, <1>3

-------------------------------------------------------------------------------
(* The inductive invariant *)

(* No two numbers of a block have come to the same halves.                 *)
NetworkInv ==
  /\ round \in 0..Rounds
  /\ \A s \in Shapes :
       /\ \A n \in Block(s) : network[s][n] \in Pairs(s, round)
       /\ \A m, n \in Block(s) : network[s][m] = network[s][n] => m = n

(* A walk is where the permutation takes it from one of the numbers its    *)
(* passes began at; these are its own, and but for the first outside the   *)
(* shape's numbers.  All the walks set out together.                       *)
WalkInv ==
  /\ \A c \in Cells :
       /\ begun[c] = {} => walk[c] = c.number
       /\ begun[c] # {} => round = Rounds /\ \E q \in begun[c] : walk[c] = Permuted(c.shape, q)
       /\ \A p \in begun[c] :
            /\ p \in Block(c.shape)
            /\ p # c.number => p \notin Numbers(c.shape) /\ \E q \in begun[c] : p = Permuted(c.shape, q)
  /\ \A c, d \in Cells : begun[c] = {} => begun[d] = {}
  /\ \A c, d \in Cells : c # d /\ c.shape = d.shape => begun[c] \cap begun[d] = {}

MaskingIInv == key \in Keys /\ NetworkInv /\ WalkInv

LEMMA ShapesAreShapes == \A s \in Shapes : s \in Shape
  BY DEF Shapes

LEMMA CellNumber ==
  ASSUME NEW c \in Cells
  PROVE  \E s \in Shapes : \E n \in Numbers(s) : c = [shape |-> s, number |-> n]
<1>1. PICK X \in {{[shape |-> s, number |-> n] : n \in Numbers(s)} : s \in Shapes} : c \in X
  BY DEF Cells
<1>2. PICK s \in Shapes : X = {[shape |-> s, number |-> n] : n \in Numbers(s)}
  OBVIOUS
<1> QED
  BY <1>1, <1>2

LEMMA CellFacts ==
  ASSUME NEW c \in Cells
  PROVE  /\ c.shape \in Shapes /\ c.shape \in Shape
         /\ c.number \in Numbers(c.shape) /\ c.number \in Block(c.shape)
         /\ \A d \in Cells : c.shape = d.shape /\ c.number = d.number => c = d
<1>0. PICK s \in Shapes : \E n \in Numbers(s) : c = [shape |-> s, number |-> n]
  BY CellNumber
<1>1. PICK n \in Numbers(s) : c = [shape |-> s, number |-> n]
  BY <1>0
<1>2. s \in Shape
  BY ShapesAreShapes
<1>3. n \in Block(s)
  BY <1>2, MaskingAssumption
<1>4. ASSUME NEW d \in Cells, c.shape = d.shape, c.number = d.number PROVE c = d
  <2>1. PICK t \in Shapes : \E m \in Numbers(t) : d = [shape |-> t, number |-> m]
    BY CellNumber
  <2> QED
    BY <1>1, <1>4, <2>1
<1> QED
  BY <1>1, <1>2, <1>3, <1>4

LEMMA CellOfNumber ==
  ASSUME NEW s \in Shapes, NEW n \in Numbers(s)
  PROVE  [shape |-> s, number |-> n] \in Cells
  BY DEF Cells

(* After the last round the network permutes each block. *)
LEMMA PermutedInjective ==
  ASSUME NetworkInv, round = Rounds, NEW s \in Shapes
  PROVE  /\ \A n \in Block(s) : Permuted(s, n) \in Block(s)
         /\ \A m, n \in Block(s) : Permuted(s, m) = Permuted(s, n) => m = n
<1>1. s \in Shape
  BY ShapesAreShapes
<1>2. Left(s) \in Nat \ {0} /\ Right(s) \in Nat \ {0}
  BY <1>1, ShapeSizes
<1>3. Modulus(s, Rounds) = Left(s) /\ Modulus(s, Rounds + 1) = Right(s)
  <2>1. Rounds \in Nat /\ Rounds % 2 = 0
    BY MaskingAssumption
  <2>2. (Rounds + 1) % 2 = 1
    BY <2>1
  <2> QED
    BY <2>1, <2>2 DEF Modulus
<1>4. \A n \in Block(s) : /\ network[s][n] = <<network[s][n][1], network[s][n][2]>>
                         /\ network[s][n][1] \in 0..(Left(s) - 1) /\ network[s][n][2] \in 0..(Right(s) - 1)
  BY <1>3 DEF NetworkInv, Pairs
<1>5. ASSUME NEW n \in Block(s) PROVE Permuted(s, n) \in Block(s)
  BY <1>2, <1>4, JoinInRange DEF Permuted, Block
<1>6. ASSUME NEW m \in Block(s), NEW n \in Block(s), Permuted(s, m) = Permuted(s, n) PROVE m = n
  <2>1. network[s][m][1] \in Int /\ network[s][n][1] \in Int
    BY <1>2, <1>4
  <2>2. network[s][m][1] = network[s][n][1] /\ network[s][m][2] = network[s][n][2]
    BY <1>2, <1>4, <1>6, <2>1, JoinInjective DEF Permuted
  <2>3. network[s][m] = network[s][n]
    BY <1>4, <2>2
  <2> QED
    BY <2>3 DEF NetworkInv
<1> QED
  BY <1>5, <1>6

-------------------------------------------------------------------------------
(* It holds at first, and every step keeps it *)

LEMMA MaskingInitInv == MaskingInit => MaskingIInv
<1> SUFFICES ASSUME MaskingInit PROVE MaskingIInv
  OBVIOUS
<1> USE DEF MaskingInit
<1>1. NetworkInv
  <2>1. round \in 0..Rounds
    BY MaskingAssumption
  <2>2. ASSUME NEW s \in Shapes PROVE
          /\ \A n \in Block(s) : network[s][n] \in Pairs(s, round)
          /\ \A m, n \in Block(s) : network[s][m] = network[s][n] => m = n
    <3>1. Left(s) \in Nat \ {0} /\ Right(s) \in Nat \ {0}
      BY ShapesAreShapes, ShapeSizes
    <3>2. Pairs(s, round) = (0..(Left(s) - 1)) \X (0..(Right(s) - 1))
      BY DEF Pairs, Modulus
    <3>3. \A n \in Block(s) : network[s][n] = <<n \div Right(s), n % Right(s)>>
      OBVIOUS
    <3>4. \A n \in Block(s) : n \in Nat
      BY DEF Block
    <3>5. ASSUME NEW n \in Block(s) PROVE network[s][n] \in Pairs(s, round)
      BY <3>1, <3>2, <3>3, HalvesInRange DEF Block
    <3>6. ASSUME NEW m \in Block(s), NEW n \in Block(s), network[s][m] = network[s][n] PROVE m = n
      <4>1. m \div Right(s) = n \div Right(s) /\ m % Right(s) = n % Right(s)
        BY <3>3, <3>6
      <4> QED
        BY <3>1, <3>4, <4>1, SplitInjective
    <3> QED
      BY <3>5, <3>6
  <2> QED
    BY <2>1, <2>2 DEF NetworkInv
<1>2. WalkInv
  BY DEF WalkInv
<1> QED
  BY <1>1, <1>2 DEF MaskingIInv

LEMMA RoundInv == MaskingIInv /\ Round => MaskingIInv'
<1> SUFFICES ASSUME MaskingIInv, Round PROVE MaskingIInv'
  OBVIOUS
<1>1. round \in 0..(Rounds - 1) /\ round \in Nat /\ round' = round + 1 /\ round' \in 0..Rounds
  BY MaskingAssumption DEF MaskingIInv, NetworkInv, Round
<1>2. Shapes' = Shapes /\ Cells' = Cells
  BY DEF Round, Shapes, Cells, Cipher
<1>3. NetworkInv'
  <2>1. ASSUME NEW s \in Shapes PROVE
          /\ \A n \in Block(s) : network'[s][n] \in Pairs(s, round')
          /\ \A m, n \in Block(s) : network'[s][m] = network'[s][n] => m = n
    <3>1. \A n \in Block(s) : network'[s][n] = OneRound(s, round, network[s][n])
      BY DEF Round
    <3>2. s \in Shape /\ key \in Keys
      BY ShapesAreShapes DEF MaskingIInv
    <3>3. /\ \A n \in Block(s) : network[s][n] \in Pairs(s, round)
          /\ \A m, n \in Block(s) : network[s][m] = network[s][n] => m = n
      BY DEF MaskingIInv, NetworkInv
    <3>4. /\ \A p \in Pairs(s, round) : OneRound(s, round, p) \in Pairs(s, round + 1)
          /\ \A p, q \in Pairs(s, round) : OneRound(s, round, p) = OneRound(s, round, q) => p = q
      BY <1>1, <3>2, RoundInjective
    <3> QED
      BY <1>1, <3>1, <3>3, <3>4
  <2> QED
    BY <1>1, <1>2, <2>1 DEF NetworkInv
<1>4. WalkInv'
  <2>1. \A c \in Cells : begun[c] = {}
    BY <1>1 DEF MaskingIInv, WalkInv
  <2> QED
    BY <1>2, <2>1 DEF MaskingIInv, WalkInv, Round
<1> QED
  BY <1>3, <1>4 DEF MaskingIInv, Round

LEMMA PassInv == MaskingIInv /\ Pass => MaskingIInv'
<1> SUFFICES ASSUME MaskingIInv, Pass PROVE MaskingIInv'
  OBVIOUS
<1>1. round = Rounds /\ UNCHANGED <<key, round, network, strategy>>
  BY DEF Pass
<1>2. Shapes' = Shapes /\ Cells' = Cells
  BY <1>1 DEF Shapes, Cells, Cipher
<1>3. NetworkInv'
  BY <1>1, <1>2 DEF MaskingIInv, NetworkInv
<1>4. \A s, n : Permuted(s, n)' = Permuted(s, n)
  BY <1>1 DEF Permuted
<1>5. \A c \in Cells :
        /\ Landed(c) => walk'[c] = walk[c] /\ begun'[c] = begun[c]
        /\ ~Landed(c) => walk'[c] = Permuted(c.shape, walk[c]) /\ begun'[c] = begun[c] \cup {walk[c]}
  BY DEF Pass
(* Where a pass begins. *)
<1>6. ASSUME NEW c \in Cells, ~Landed(c)
      PROVE  /\ walk[c] \in Block(c.shape)
             /\ walk[c] # c.number => walk[c] \notin Numbers(c.shape) /\ \E q \in begun[c] : walk[c] = Permuted(c.shape, q)
             /\ begun[c] = {} => walk[c] = c.number
  <2>1. CASE begun[c] = {}
    BY <2>1, CellFacts DEF MaskingIInv, WalkInv
  <2>2. CASE begun[c] # {}
    <3>1. PICK q \in begun[c] : walk[c] = Permuted(c.shape, q)
      BY <2>2 DEF MaskingIInv, WalkInv
    <3>2. q \in Block(c.shape) /\ c.shape \in Shapes
      BY CellFacts DEF MaskingIInv, WalkInv
    <3>3. walk[c] \in Block(c.shape)
      BY <1>1, <3>1, <3>2, PermutedInjective DEF MaskingIInv
    <3>4. walk[c] \notin Numbers(c.shape)
      BY <1>6, <2>2 DEF Landed
    <3> QED
      BY <2>2, <3>1, <3>3, <3>4
  <2> QED
    BY <2>1, <2>2
<1>7. ASSUME NEW c \in Cells
      PROVE  /\ begun'[c] # {}
             /\ \E q \in begun'[c] : walk'[c] = Permuted(c.shape, q)
             /\ \A p \in begun'[c] :
                  /\ p \in Block(c.shape)
                  /\ p # c.number => p \notin Numbers(c.shape) /\ \E q \in begun'[c] : p = Permuted(c.shape, q)
  <2>1. CASE Landed(c)
    BY <1>5, <2>1 DEF MaskingIInv, WalkInv, Landed
  <2>2. CASE ~Landed(c)
    <3>1. \A p \in begun[c] :
            /\ p \in Block(c.shape)
            /\ p # c.number => p \notin Numbers(c.shape) /\ \E q \in begun[c] : p = Permuted(c.shape, q)
      BY DEF MaskingIInv, WalkInv
    <3> QED
      BY <1>5, <1>6, <2>2, <3>1
  <2> QED
    BY <2>1, <2>2
(* No two walks begin a pass at one number. *)
<1>8. ASSUME NEW c \in Cells, NEW d \in Cells, c # d, c.shape = d.shape, ~Landed(c)
      PROVE  walk[c] \notin begun[d] /\ (~Landed(d) => walk[c] # walk[d])
  <2>1. CASE begun[c] = {}
    <3>1. begun[d] = {} /\ walk[c] = c.number /\ walk[d] = d.number
      BY <2>1 DEF MaskingIInv, WalkInv
    <3> QED
      BY <1>8, <3>1, CellFacts
  <2>2. CASE begun[c] # {}
    <3>1. walk[c] \notin Numbers(c.shape) /\ begun[d] # {}
      BY <1>8, <2>2 DEF Landed, MaskingIInv, WalkInv
    <3>2. PICK q \in begun[c] : walk[c] = Permuted(c.shape, q)
      BY <2>2 DEF MaskingIInv, WalkInv
    <3>3. d.number \in Numbers(c.shape)
      BY <1>8, CellFacts
    <3>4. ASSUME NEW r \in begun[d], Permuted(c.shape, r) = walk[c] PROVE FALSE
      <4>1. q \in Block(c.shape) /\ r \in Block(c.shape) /\ c.shape \in Shapes
        BY <1>8, CellFacts DEF MaskingIInv, WalkInv
      <4>2. q = r
        BY <1>1, <3>2, <3>4, <4>1, PermutedInjective DEF MaskingIInv
      <4> QED
        BY <1>8, <4>2 DEF MaskingIInv, WalkInv
    <3>5. walk[c] \notin begun[d]
      BY <1>8, <3>1, <3>3, <3>4 DEF MaskingIInv, WalkInv
    <3>6. walk[c] # walk[d]
      BY <1>8, <3>1, <3>4 DEF MaskingIInv, WalkInv
    <3> QED
      BY <3>5, <3>6
  <2> QED
    BY <2>1, <2>2
<1>9. ASSUME NEW c \in Cells, NEW d \in Cells, c # d, c.shape = d.shape
      PROVE  begun'[c] \cap begun'[d] = {}
  <2>1. begun[c] \cap begun[d] = {}
    BY <1>9 DEF MaskingIInv, WalkInv
  <2>2. begun'[c] \subseteq begun[c] \cup {walk[c]} /\ (Landed(c) => begun'[c] = begun[c])
    BY <1>5
  <2>3. begun'[d] \subseteq begun[d] \cup {walk[d]} /\ (Landed(d) => begun'[d] = begun[d])
    BY <1>5
  <2>4. ~Landed(c) => walk[c] \notin begun[d] /\ (~Landed(d) => walk[c] # walk[d])
    BY <1>8, <1>9
  <2>5. ~Landed(d) => walk[d] \notin begun[c]
    BY <1>8, <1>9
  <2> QED
    BY <2>1, <2>2, <2>3, <2>4, <2>5
<1>10. WalkInv'
  BY <1>1, <1>2, <1>4, <1>7, <1>9 DEF WalkInv
<1> QED
  BY <1>1, <1>3, <1>10 DEF MaskingIInv

LEMMA MaskingStepInv == MaskingIInv /\ [MaskingNext]_maskingVars => MaskingIInv'
<1> SUFFICES ASSUME MaskingIInv, UNCHANGED maskingVars PROVE MaskingIInv'
  BY RoundInv, PassInv DEF MaskingNext
<1>1. Shapes' = Shapes /\ Cells' = Cells /\ \A s, n : Permuted(s, n)' = Permuted(s, n)
  BY DEF maskingVars, Shapes, Cells, Cipher, Permuted
<1> QED
  BY <1>1 DEF MaskingIInv, NetworkInv, WalkInv, maskingVars

-------------------------------------------------------------------------------
(* Masks *)

LEMMA WalksApart ==
  ASSUME MaskingIInv, NEW c \in Cells, NEW d \in Cells,
         Landed(c), Landed(d), c.shape = d.shape, walk[c] = walk[d]
  PROVE  c = d
<1> SUFFICES ASSUME c # d PROVE FALSE
  OBVIOUS
<1>1. PICK q \in begun[c] : walk[c] = Permuted(c.shape, q)
  BY DEF Landed, MaskingIInv, WalkInv
<1>2. PICK r \in begun[d] : walk[d] = Permuted(c.shape, r)
  BY DEF Landed, MaskingIInv, WalkInv
<1>3. q \in Block(c.shape) /\ r \in Block(c.shape) /\ c.shape \in Shapes /\ round = Rounds
  BY CellFacts DEF MaskingIInv, WalkInv, Landed
<1>4. q = r
  BY <1>1, <1>2, <1>3, PermutedInjective DEF MaskingIInv
<1> QED
  BY <1>4 DEF MaskingIInv, WalkInv

LEMMA CellOfValue ==
  ASSUME ~normalize, NEW v \in Value, IsValue(v)
  PROVE  /\ ShapeOf(v) = ShapeAs(v.type, v) /\ ShapeOf(v) \in Shapes
         /\ CellOf(v) \in Cells
<1> DEFINE s == ShapeAs(v.type, v)
<1>1. ShapeOf(v) = s
  BY DEF ShapeOf
<1>2. s \in Shape /\ s \in Shapes /\ s.type = v.type /\ s.sign = v.sign /\ s.length = v.length
  BY DEF ShapeAs, Shape, Shapes, Cipher, Value
<1>3. v.magnitude \in Nat /\ v.length \in 1..MaxLength
  BY DEF Value
<1>4. Low(s) \in Nat /\ High(s) \in Nat /\ Offset(s) \in Nat
  BY <1>2, ShapeSizes
<1>5. Low(s) <= v.magnitude
  <2>1. CASE v.type = "integer" /\ v.length > 1
    BY <1>2, <2>1 DEF IsValue, Low
  <2>2. CASE v.type = "integer" /\ v.length = 1 /\ v.sign = "-"
    <3>1. v.magnitude # 0
      BY <2>2 DEF IsValue
    <3>2. Low(s) = 1
      BY <1>2, <2>2, MaskingAssumption DEF Low
    <3> QED
      BY <1>3, <3>1, <3>2
  <2>3. CASE ~(v.type = "integer" /\ (v.length > 1 \/ v.sign = "-"))
    BY <1>2, <1>3, <2>3 DEF Low
  <2> QED
    BY <1>3, <2>1, <2>2, <2>3
<1>6. v.magnitude <= High(s)
  <2>1. Radix ^ v.length \in Nat
    BY <1>3, MaskingAssumption
  <2> QED
    BY <1>2, <1>3, <2>1 DEF IsValue, High
<1> HIDE DEF s
<1>7. v.magnitude - Offset(s) \in Numbers(s)
  BY <1>3, <1>4, <1>5, <1>6 DEF Numbers
<1> QED
  BY <1>1, <1>2, <1>7, CellOfNumber DEF CellOf, s

LEMMA MaskIsValue ==
  ASSUME MaskingIInv, ~normalize, NEW v \in Value, IsValue(v), Masked(v)
  PROVE  IsValue(Mask(v)) /\ Mask(v).type = v.type /\ Mask(v).sign = v.sign /\ Mask(v).length = v.length
<1> DEFINE s == ShapeOf(v)
           n == walk[CellOf(v)] + Offset(s)
<1>1. s = ShapeAs(v.type, v) /\ s \in Shapes /\ s \in Shape /\ s.type = v.type /\ s.sign = v.sign /\ s.length = v.length
  BY CellOfValue, ShapesAreShapes DEF ShapeAs
<1>2. Mask(v) = [v EXCEPT !.magnitude = n]
  BY DEF Mask
<1>3. Mask(v).magnitude = n /\ Mask(v).type = v.type /\ Mask(v).sign = v.sign /\ Mask(v).length = v.length
  BY <1>2 DEF Value
<1>4. walk[CellOf(v)] \in Numbers(s)
  BY DEF Masked, Landed, CellOf
<1>5. Low(s) \in Nat /\ High(s) \in Nat /\ Offset(s) \in Nat
  BY <1>1, ShapeSizes
<1> HIDE DEF s
<1>6. n \in Nat /\ Low(s) <= n /\ n <= High(s)
  BY <1>4, <1>5 DEF Numbers
<1>7. v.length \in 1..MaxLength /\ Radix ^ v.length \in Nat
  BY MaskingAssumption DEF Value
<1> HIDE DEF n
<1>8. n < Radix ^ v.length
  BY <1>1, <1>6, <1>7 DEF High
<1>9. ASSUME v.type = "integer", v.length > 1 PROVE n >= Radix ^ (v.length - 1)
  BY <1>1, <1>6, <1>9 DEF Low
<1>10. ASSUME v.type = "integer", v.sign = "-" PROVE n # 0
  <2>1. v.length - 1 \in 0..MaxLength
    BY <1>7, MaskingAssumption
  <2>2. Radix ^ (v.length - 1) \in Nat \ {0}
    BY <2>1, MaskingAssumption
  <2>3. Low(s) = Radix ^ (v.length - 1)
    BY <1>1, <1>10 DEF Low
  <2> QED
    BY <1>6, <2>2, <2>3
<1> QED
  BY <1>3, <1>8, <1>9, <1>10 DEF IsValue

LEMMA InvImpliesOneToOne == MaskingIInv => OneToOne
<1> SUFFICES ASSUME MaskingIInv, ~normalize,
                    NEW v \in Value, IsValue(v), Masked(v),
                    NEW w \in Value, IsValue(w), Masked(w), Mask(v) = Mask(w)
             PROVE  v = w
  BY MaskIsValue DEF OneToOne, Permutes
<1>1. v.type = w.type /\ v.sign = w.sign /\ v.length = w.length
  BY MaskIsValue
<1>2. ShapeOf(v) = ShapeOf(w) /\ ShapeOf(v) \in Shape
  BY <1>1, CellOfValue, ShapesAreShapes DEF ShapeAs
<1>3. walk[CellOf(v)] + Offset(ShapeOf(v)) = walk[CellOf(w)] + Offset(ShapeOf(v))
  BY <1>2 DEF Mask, Value
<1>4. walk[CellOf(v)] \in Int /\ walk[CellOf(w)] \in Int /\ Offset(ShapeOf(v)) \in Int
  <2>1. Low(ShapeOf(v)) \in Nat /\ High(ShapeOf(v)) \in Nat /\ Offset(ShapeOf(v)) \in Nat
    BY <1>2, ShapeSizes
  <2> QED
    BY <1>2, <2>1 DEF Masked, Landed, CellOf, Numbers
<1>5. CellOf(v) = CellOf(w)
  <2>1. CellOf(v) \in Cells /\ CellOf(w) \in Cells /\ Landed(CellOf(v)) /\ Landed(CellOf(w))
    BY CellOfValue DEF Masked
  <2>2. CellOf(v).shape = CellOf(w).shape
    BY <1>2 DEF CellOf
  <2>3. walk[CellOf(v)] = walk[CellOf(w)]
    BY <1>3, <1>4
  <2> QED
    BY <2>1, <2>2, <2>3, WalksApart
<1>6. v.magnitude = w.magnitude
  BY <1>2, <1>4, <1>5 DEF CellOf, Value
<1> QED
  BY <1>1, <1>6 DEF Value

LEMMA MaskingInvariance == MaskingSpec => []MaskingIInv
  BY MaskingInitInv, MaskingStepInv, PTL DEF MaskingSpec

(* key and fpe give each value of a column a mask of its own, of its type, *)
(* sign and length, for every key and pseudorandom function.               *)
THEOREM MasksAreOneToOne == MaskingSpec => []OneToOne
  BY MaskingInvariance, InvImpliesOneToOne, PTL
===============================================================================
