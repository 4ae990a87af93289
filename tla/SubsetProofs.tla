----------------------------- MODULE SubsetProofs -----------------------------
(***************************************************************************)
(* Theorems about Subset: for any schema, any request of it, any source    *)
(* and any number of runs and clears.                                      *)
(*                                                                         *)
(* What a query returns is found by going through its definitions in their *)
(* order: each is of the selections before it, as the sets of the rows on  *)
(* the way down and of those kept are of themselves.  What the copy holds  *)
(* then follows from the order of the jobs and of the clearing.            *)
(***************************************************************************)
EXTENDS Subset, FiniteSetTheorems, WellFoundedInduction, TLAPS

LEMMA LeastOfNaturals ==
  ASSUME NEW S, S \subseteq Nat, S # {}
  PROVE  \E x \in S : \A y \in S : x <= y
<1>1. PICK x \in S : \A y \in S : ~(<<y, x>> \in OpToRel(<, Nat))
  BY NatLessThanWellFounded, WFMin
<1>2. \A y \in S : ~(y < x)
  BY <1>1 DEF OpToRel
<1> QED
  BY <1>2

-------------------------------------------------------------------------------
(* What is reached *)

LEMMA ReachIsClosed ==
  ASSUME NEW edges, NEW S, S \subseteq DOMAIN edges, \A x \in DOMAIN edges : edges[x] \subseteq DOMAIN edges
  PROVE  /\ S \subseteq Reach(edges, S)
         /\ Reach(edges, S) \subseteq DOMAIN edges
         /\ \A x \in Reach(edges, S) : edges[x] \subseteq Reach(edges, S)
  BY DEF Reach

LEMMA ReachIsLeast ==
  ASSUME NEW edges, NEW S, NEW T, T \subseteq DOMAIN edges, S \subseteq T, \A x \in T : edges[x] \subseteq T
  PROVE  Reach(edges, S) \subseteq T
  BY DEF Reach

(* What is reached is there at first, or comes next to what is reached.    *)
LEMMA ReachUnfolds ==
  ASSUME NEW edges, NEW S, S \subseteq DOMAIN edges, \A x \in DOMAIN edges : edges[x] \subseteq DOMAIN edges
  PROVE  Reach(edges, S) = S \cup UNION {edges[y] : y \in Reach(edges, S)}
<1> DEFINE R == Reach(edges, S)
           T == S \cup UNION {edges[y] : y \in R}
<1>1. S \subseteq R /\ R \subseteq DOMAIN edges /\ \A x \in R : edges[x] \subseteq R
  BY ReachIsClosed
<1> HIDE DEF R
<1>2. T \subseteq R
  BY <1>1
<1>3. R \subseteq T
  <2>1. T \subseteq DOMAIN edges /\ S \subseteq T /\ \A x \in T : edges[x] \subseteq T
    BY <1>1, <1>2
  <2> HIDE DEF T
  <2> QED
    BY <2>1, ReachIsLeast DEF R
<1> QED
  BY <1>2, <1>3 DEF R

-------------------------------------------------------------------------------
(* Sequences of a set *)

LEMMA SetToSeqsOnto ==
  ASSUME NEW S, IsFiniteSet(S), NEW f \in SetToSeqs(S)
  PROVE  /\ f \in Seq(S) /\ Len(f) = Cardinality(S) /\ Len(f) \in Nat /\ DOMAIN f = 1..Len(f)
         /\ \A i, j \in DOMAIN f : f[i] = f[j] => i = j
         /\ \A x \in S : \E i \in DOMAIN f : f[i] = x
<1> DEFINE n == Cardinality(S)
<1>1. n \in Nat
  BY FS_CardinalityType
<1>2. f \in [1..n -> S] /\ \A i, j \in 1..n : i # j => f[i] # f[j]
  BY DEF SetToSeqs
<1>3. f \in Seq(S) /\ Len(f) = n /\ DOMAIN f = 1..n
  BY <1>1, <1>2
<1>4. f \in Injection(1..n, S)
  BY <1>2 DEF Injection, IsInjective
<1>5. Cardinality(1..n) = n
  BY <1>1, FS_Interval
<1>6. f \in Surjection(1..n, S)
  BY <1>4, <1>5, FS_Injection
<1> QED
  BY <1>1, <1>2, <1>3, <1>6 DEF Surjection

LEMMA SetToSeqOnto ==
  ASSUME NEW S, IsFiniteSet(S)
  PROVE  /\ SetToSeq(S) \in Seq(S) /\ DOMAIN SetToSeq(S) = 1..Len(SetToSeq(S))
         /\ \A x \in S : \E i \in DOMAIN SetToSeq(S) : SetToSeq(S)[i] = x
<1> DEFINE n == Cardinality(S)
           f == SetToSeq(S)
<1>1. n \in Nat /\ ExistsBijection(1..n, S)
  BY FS_CardinalityType
<1>2. \E g \in [1..n -> S] : IsInjective(g)
  BY <1>1 DEF ExistsBijection, Bijection, Injection
<1>3. f \in [1..n -> S] /\ IsInjective(f)
  BY <1>2 DEF SetToSeq
<1>4. f \in SetToSeqs(S)
  BY <1>3 DEF SetToSeqs, IsInjective
<1> HIDE DEF f
<1>5. QED
  BY <1>4, SetToSeqsOnto DEF f

-------------------------------------------------------------------------------
(* The keys and the conditions *)

LEMMA Keys ==
  ASSUME asked \in Requests
  PROVE  /\ IsFiniteSet(Followed) /\ Followed \subseteq asked.foreignKeys
         /\ \A k \in asked.foreignKeys : k.table \in Tables /\ k.referencedTable \in Tables
         /\ Parents \in [Tables -> SUBSET Tables] /\ Children \in [Tables -> SUBSET Tables]
         /\ Root \in Tables /\ IsFiniteSet(Tables)
         /\ \A t \in Tables : IsFiniteSet(ParentKeys(t)) /\ IsFiniteSet(ChildKeys(t))
<1>1. IsFiniteSet(asked.foreignKeys) /\ asked.foreignKeys \subseteq ForeignKey /\ Root \in Tables /\ IsFiniteSet(Tables)
  BY RequestsAssumption DEF Request
<1>2. Followed \subseteq asked.foreignKeys
  BY DEF Followed
<1>3. IsFiniteSet(Followed)
  BY <1>1, <1>2, FS_Subset
<1>4. \A k \in asked.foreignKeys : k.table \in Tables /\ k.referencedTable \in Tables
  BY <1>1 DEF ForeignKey
<1>5. Parents \in [Tables -> SUBSET Tables] /\ Children \in [Tables -> SUBSET Tables]
  BY <1>2, <1>4 DEF Parents, Children, ParentKeys, ChildKeys
<1>6. \A t \in Tables : ParentKeys(t) \subseteq Followed /\ ChildKeys(t) \subseteq Followed
  BY DEF ParentKeys, ChildKeys
<1>7. \A t \in Tables : IsFiniteSet(ParentKeys(t)) /\ IsFiniteSet(ChildKeys(t))
  BY <1>3, <1>6, FS_Subset
<1> QED
  BY <1>1, <1>2, <1>3, <1>4, <1>5, <1>7

DownKeys(t) == {k \in ParentKeys(t) : k.referencedTable \in Down}
KeptKeys(t) == {k \in ChildKeys(t) : k.table \in Included}

(* Why a table's rows are in the subset, in no order. *)
DownReasons(t) == IF t = Root THEN {Where} ELSE {RefersTo(k) : k \in DownKeys(t)}
KeptReasons(t) == (IF t \in Down THEN DownReasons(t) ELSE {}) \cup {ReferredToBy(k) : k \in KeptKeys(t)}

(* A user's filter is at one place at most. *)
AreConditions(conditions) ==
  /\ Len(conditions) \in Nat /\ DOMAIN conditions = 1..Len(conditions)
  /\ \A i \in DOMAIN conditions : ~IsExists(conditions[i]) => i = 1
  /\ \A i \in DOMAIN conditions : conditions[i].why \in {"where", "refersTo", "referredToBy"}

LEMMA SetOfFinite ==
  ASSUME NEW K, IsFiniteSet(K)
  PROVE  IsFiniteSet({RefersTo(k) : k \in K}) /\ IsFiniteSet({ReferredToBy(k) : k \in K})
<1>1. ASSUME NEW f \in {[k \in K |-> RefersTo(k)], [k \in K |-> ReferredToBy(k)]}
      PROVE  IsFiniteSet({f[k] : k \in K})
  <2>1. f \in Surjection(K, {f[k] : k \in K})
    BY DEF Surjection
  <2> QED
    BY <2>1, FS_Surjection
<1>2. {RefersTo(k) : k \in K} = {[k \in K |-> RefersTo(k)][j] : j \in K}
  OBVIOUS
<1>3. {ReferredToBy(k) : k \in K} = {[k \in K |-> ReferredToBy(k)][j] : j \in K}
  OBVIOUS
<1> QED
  BY <1>1, <1>2, <1>3

LEMMA DownConditionsMean ==
  ASSUME asked \in Requests, NEW t \in Tables
  PROVE  /\ ToSet(DownConditions(t)) = DownReasons(t) /\ AreConditions(DownConditions(t))
         /\ t = Root => Len(DownConditions(t)) = 1
         /\ DownConditions(t) \in Seq(DownReasons(t))
<1>1. CASE t = Root
  BY <1>1 DEF DownConditions, DownReasons, ToSet, AreConditions, IsExists, Where
<1>2. CASE t # Root
  <2> DEFINE S == {RefersTo(k) : k \in DownKeys(t)}
  <2>1. IsFiniteSet(DownKeys(t))
    <3>1. IsFiniteSet(ParentKeys(t)) /\ DownKeys(t) \subseteq ParentKeys(t)
      BY Keys DEF DownKeys
    <3> QED
      BY <3>1, FS_Subset
  <2>2. IsFiniteSet(S)
    BY <2>1, SetOfFinite
  <2>3. DownConditions(t) = SetToSeq(S) /\ DownReasons(t) = S
    BY <1>2 DEF DownConditions, DownReasons, DownKeys
  <2>4. \A c \in S : c.why = "refersTo"
    BY DEF RefersTo
  <2> HIDE DEF S
  <2>5. /\ SetToSeq(S) \in Seq(S) /\ DOMAIN SetToSeq(S) = 1..Len(SetToSeq(S))
        /\ \A x \in S : \E i \in DOMAIN SetToSeq(S) : SetToSeq(S)[i] = x
    BY <2>2, SetToSeqOnto
  <2>6. Len(SetToSeq(S)) \in Nat /\ \A i \in DOMAIN SetToSeq(S) : SetToSeq(S)[i] \in S
    BY <2>5
  <2>7. ToSet(SetToSeq(S)) = S
    BY <2>5, <2>6 DEF ToSet
  <2>8. AreConditions(SetToSeq(S))
    BY <2>4, <2>5, <2>6 DEF AreConditions, IsExists
  <2> QED
    BY <1>2, <2>3, <2>5, <2>7, <2>8
<1> QED
  BY <1>1, <1>2

LEMMA KeptConditionsMean ==
  ASSUME asked \in Requests, NEW t \in Tables
  PROVE  ToSet(KeptConditions(t)) = KeptReasons(t) /\ AreConditions(KeptConditions(t))
<1> DEFINE S == {ReferredToBy(k) : k \in KeptKeys(t)}
           d == IF t \in Down THEN DownConditions(t) ELSE <<>>
           e == SetToSeq(S)
<1>1. IsFiniteSet(KeptKeys(t))
  <2>1. IsFiniteSet(ChildKeys(t)) /\ KeptKeys(t) \subseteq ChildKeys(t)
    BY Keys DEF KeptKeys
  <2> QED
    BY <2>1, FS_Subset
<1>2. IsFiniteSet(S)
  BY <1>1, SetOfFinite
<1>3. KeptConditions(t) = d \o e
  BY DEF KeptConditions, KeptKeys
<1>4. \A c \in S : c.why = "referredToBy"
  BY DEF ReferredToBy
<1>5. KeptReasons(t) = ToSet(d) \cup S /\ AreConditions(d) /\ \E D : d \in Seq(D)
  <2>1. ToSet(<<>>) = {} /\ AreConditions(<<>>) /\ <<>> \in Seq({})
    BY DEF ToSet, AreConditions
  <2> QED
    BY <2>1, DownConditionsMean DEF KeptReasons
<1> HIDE DEF S
<1>6. /\ e \in Seq(S) /\ DOMAIN e = 1..Len(e)
      /\ \A x \in S : \E i \in DOMAIN e : e[i] = x
  BY <1>2, SetToSeqOnto
<1> HIDE DEF d, e
<1>7. Len(e) \in Nat /\ \A i \in DOMAIN e : e[i] \in S
  BY <1>6
<1>8. PICK D : d \in Seq(D)
  BY <1>5
<1>9. Len(d) \in Nat /\ DOMAIN d = 1..Len(d)
  BY <1>5 DEF AreConditions
<1>10. /\ Len(d \o e) = Len(d) + Len(e) /\ DOMAIN (d \o e) = 1..(Len(d) + Len(e))
       /\ \A i \in 1..(Len(d) + Len(e)) : (d \o e)[i] = IF i <= Len(d) THEN d[i] ELSE e[i - Len(d)]
  BY <1>6, <1>7, <1>8, <1>9
<1>11. ToSet(d \o e) = ToSet(d) \cup S
  <2>1. ASSUME NEW i \in DOMAIN (d \o e) PROVE (d \o e)[i] \in ToSet(d) \cup S
    <3>1. CASE i <= Len(d)
      BY <1>9, <1>10, <3>1 DEF ToSet
    <3>2. CASE ~(i <= Len(d))
      <4>1. i - Len(d) \in DOMAIN e
        BY <1>6, <1>7, <1>9, <1>10, <3>2
      <4> QED
        BY <1>7, <1>10, <3>2, <4>1
    <3> QED
      BY <3>1, <3>2
  <2>2. ASSUME NEW i \in DOMAIN d PROVE d[i] \in ToSet(d \o e)
    BY <1>7, <1>9, <1>10 DEF ToSet
  <2>3. ASSUME NEW i \in DOMAIN e PROVE e[i] \in ToSet(d \o e)
    <3>1. i + Len(d) \in DOMAIN (d \o e) /\ ~(i + Len(d) <= Len(d)) /\ (i + Len(d)) - Len(d) = i
      BY <1>6, <1>7, <1>9, <1>10
    <3>2. (d \o e)[i + Len(d)] = e[i]
      BY <1>10, <3>1
    <3> QED
      BY <3>1, <3>2 DEF ToSet
  <2> QED
    BY <1>6, <2>1, <2>2, <2>3 DEF ToSet
<1>12. AreConditions(d \o e)
  <2>1. ASSUME NEW i \in DOMAIN (d \o e)
        PROVE  (~IsExists((d \o e)[i]) => i = 1) /\ (d \o e)[i].why \in {"where", "refersTo", "referredToBy"}
    <3>1. CASE i <= Len(d)
      BY <1>5, <1>9, <1>10, <3>1 DEF AreConditions
    <3>2. CASE ~(i <= Len(d))
      <4>1. i - Len(d) \in DOMAIN e
        BY <1>6, <1>7, <1>9, <1>10, <3>2
      <4>2. (d \o e)[i] \in S
        BY <1>7, <1>10, <3>2, <4>1
      <4> QED
        BY <1>4, <4>2 DEF IsExists
    <3> QED
      BY <3>1, <3>2
  <2> QED
    BY <1>7, <1>9, <1>10, <2>1 DEF AreConditions
<1> QED
  BY <1>3, <1>5, <1>11, <1>12

-------------------------------------------------------------------------------
(* How often a selection returns a row *)

LEMMA ExistsIsNeverNull ==
  ASSUME NEW conditions, AreConditions(conditions), NEW i \in DOMAIN conditions, IsExists(conditions[i]), NEW r, NEW values
  PROVE  Holds(conditions[i], r, values) \in {"true", "false"}
<1>1. conditions[i].why \in {"refersTo", "referredToBy"}
  BY DEF AreConditions, IsExists
<1>2. CASE conditions[i].why = "refersTo"
  BY <1>2 DEF Holds
<1>3. CASE conditions[i].why = "referredToBy"
  BY <1>3 DEF Holds
<1> QED
  BY <1>1, <1>2, <1>3

(* Of the branches whose condition a row meets, it is taken by one.        *)
LEMMA OneBranchTakes ==
  ASSUME NEW conditions, AreConditions(conditions), NEW r, NEW values,
         NEW m \in DOMAIN conditions, Holds(conditions[m], r, values) = "true"
  PROVE  \E i \in DOMAIN conditions : {j \in DOMAIN conditions : IsBranchTaken(conditions, j, r, values)} = {i}
<1> DEFINE H(i) == Holds(conditions[i], r, values)
           E(i) == IsExists(conditions[i])
           D == DOMAIN conditions
<1>1. D \subseteq Nat /\ \A i \in D : (~E(i) => i = 1) /\ E(i) \in BOOLEAN
  BY DEF AreConditions, IsExists
<1>2. \A i \in D : E(i) => H(i) \in {"true", "false"}
  BY ExistsIsNeverNull
<1>3. \A i \in D : IsBranchTaken(conditions, i, r, values)
                     <=> H(i) = "true" /\ \A j \in D : E(j) /\ (j < i \/ ~E(i)) => H(j) = "false"
  BY DEF IsBranchTaken, Earlier
<1>4. \E i \in D : H(i) = "true" /\ \A j \in D : E(j) /\ (j < i \/ ~E(i)) => H(j) = "false"
  <2>1. CASE \E i \in D : E(i) /\ H(i) = "true"
    <3> DEFINE X == {i \in D : E(i) /\ H(i) = "true"}
    <3> HIDE DEF H, E, D
    <3>1. X \subseteq Nat /\ X # {}
      BY <1>1, <2>1
    <3>2. PICK i \in X : \A j \in X : i <= j
      BY <3>1, LeastOfNaturals
    <3>3. \A j \in D : E(j) /\ j < i => H(j) = "false"
      BY <1>1, <1>2, <3>2
    <3> QED
      BY <3>2, <3>3
  <2>2. CASE ~\E i \in D : E(i) /\ H(i) = "true"
    <3>1. \A j \in D : E(j) => H(j) = "false"
      BY <1>2, <2>2
    <3> QED
      BY <3>1
  <2> QED
    BY <2>1, <2>2
<1> HIDE DEF H, E, D
<1>5. PICK i \in D : H(i) = "true" /\ \A j \in D : E(j) /\ (j < i \/ ~E(i)) => H(j) = "false"
  BY <1>4
<1>6. ASSUME NEW j \in D, j # i, H(j) = "true", \A l \in D : E(l) /\ (l < j \/ ~E(j)) => H(l) = "false"
      PROVE  FALSE
  <2>1. ~(E(i) /\ (i < j \/ ~E(j))) /\ ~(E(j) /\ (j < i \/ ~E(i)))
    BY <1>5, <1>6
  <2> QED
    BY <1>1, <1>5, <1>6, <2>1
<1>7. {j \in D : IsBranchTaken(conditions, j, r, values)} = {i}
  BY <1>3, <1>5, <1>6
<1> QED
  BY <1>7 DEF D

(* A row is returned once if it meets a condition, through branches or in  *)
(* one WHERE, and not otherwise.                                           *)
LEMMA ReturnedOnce ==
  ASSUME NEW conditions, AreConditions(conditions), NEW r, NEW values
  PROVE  Times(conditions, r, values) = IF \E c \in ToSet(conditions) : Holds(c, r, values) = "true" THEN 1 ELSE 0
<1>1. (\E c \in ToSet(conditions) : Holds(c, r, values) = "true")
        <=> \E i \in DOMAIN conditions : Holds(conditions[i], r, values) = "true"
  BY DEF ToSet
<1>2. CASE Len(conditions) = 1 \/ ~asked.materialize
  BY <1>1, <1>2 DEF Times
<1>3. CASE ~(Len(conditions) = 1 \/ ~asked.materialize)
  <2> DEFINE S == {i \in DOMAIN conditions : IsBranchTaken(conditions, i, r, values)}
  <2>1. Times(conditions, r, values) = Cardinality(S)
    BY <1>3 DEF Times
  <2>2. CASE \E i \in DOMAIN conditions : Holds(conditions[i], r, values) = "true"
    <3>1. PICK i \in DOMAIN conditions : S = {i}
      BY <2>2, OneBranchTakes
    <3>2. Cardinality({i}) = 1
      BY FS_Singleton
    <3> QED
      BY <1>1, <2>1, <2>2, <3>1, <3>2
  <2>3. CASE ~\E i \in DOMAIN conditions : Holds(conditions[i], r, values) = "true"
    <3>1. S = {}
      BY <2>3 DEF IsBranchTaken
    <3> QED
      BY <1>1, <2>1, <2>3, <3>1, FS_EmptySet
  <2> QED
    BY <2>2, <2>3
<1> QED
  BY <1>2, <1>3

-------------------------------------------------------------------------------
(* The tables *)

LEMMA Traversed ==
  ASSUME asked \in Requests
  PROVE  /\ Root \in Down /\ Down \subseteq Included /\ Included \subseteq Tables /\ IsFiniteSet(Included)
         /\ \A t \in Included : Parents[t] \subseteq Included
         /\ asked.followChildren => \A t \in Down : Children[t] \subseteq Down
         /\ ~asked.followChildren => Down = {Root}
<1>1. Root \in Tables /\ Parents \in [Tables -> SUBSET Tables] /\ Children \in [Tables -> SUBSET Tables]
  BY Keys
<1>2. /\ Root \in Down /\ Down \subseteq Tables
      /\ asked.followChildren => \A t \in Down : Children[t] \subseteq Down
      /\ ~asked.followChildren => Down = {Root}
  <2>1. DOMAIN Children = Tables /\ {Root} \subseteq DOMAIN Children
    BY <1>1
  <2>2. \A x \in DOMAIN Children : Children[x] \subseteq DOMAIN Children
    BY <1>1
  <2> QED
    BY <1>1, <2>1, <2>2, ReachIsClosed DEF Down
<1>3. Down \subseteq Included /\ Included \subseteq Tables /\ \A t \in Included : Parents[t] \subseteq Included
  <2>1. DOMAIN Parents = Tables /\ \A x \in DOMAIN Parents : Parents[x] \subseteq DOMAIN Parents
    BY <1>1
  <2> QED
    BY <1>2, <2>1, ReachIsClosed DEF Included
<1>4. IsFiniteSet(Included)
  BY <1>3, Keys, FS_Subset
<1> QED
  BY <1>2, <1>3, <1>4

(* An order of the tables, in which a table has one place. *)
IsOrder(order) == order \in SetToSeqs(Included) /\ IsTopologicalOrder(order, Parents)

LEMMA Places ==
  ASSUME asked \in Requests, NEW order, IsOrder(order)
  PROVE  /\ Len(order) \in Nat /\ DOMAIN order = 1..Len(order)
         /\ \A i \in DOMAIN order : order[i] \in Included
         /\ \A i, j \in DOMAIN order : order[i] = order[j] => i = j
         /\ \A x \in Included : \E i \in DOMAIN order : order[i] = x
         /\ \A i, j \in DOMAIN order : order[j] \in Parents[order[i]] => j < i
<1>1. IsFiniteSet(Included)
  BY Traversed
<1>2. order \in Seq(Included) /\ Len(order) \in Nat /\ DOMAIN order = 1..Len(order)
      /\ (\A i, j \in DOMAIN order : order[i] = order[j] => i = j) /\ \A x \in Included : \E i \in DOMAIN order : order[i] = x
  BY <1>1, SetToSeqsOnto DEF IsOrder
<1>3. \A i \in DOMAIN order : order[i] \in Included
  BY <1>2
<1> QED
  BY <1>2, <1>3 DEF IsOrder, IsTopologicalOrder

(* No table of the subset refers to itself, by a key that is followed.     *)
LEMMA NoKeyToItself ==
  ASSUME asked \in Requests, NEW order, IsOrder(order), NEW t \in Included, NEW k \in ParentKeys(t)
  PROVE  k.referencedTable # t
<1>1. PICK i \in DOMAIN order : order[i] = t
  BY Places
<1>2. k.referencedTable \in Parents[t]
  BY Traversed DEF Parents
<1>3. i \in Nat
  BY Places
<1> QED
  BY <1>1, <1>2, <1>3, Places

(* The root comes before all that references it, so refers to none of it.  *)
LEMMA RootRefersToNoneBelow ==
  ASSUME asked \in Requests, NEW order, IsOrder(order), NEW k \in ParentKeys(Root)
  PROVE  k.referencedTable \notin Down
<1>1. Root \in Included /\ Root \in Tables /\ Down \subseteq Included /\ Included \subseteq Tables
  BY Traversed, Keys
<1>2. CASE ~asked.followChildren
  BY <1>1, <1>2, Traversed, NoKeyToItself
<1>3. CASE asked.followChildren
  <2>1. PICK r \in DOMAIN order : order[r] = Root
    BY <1>1, Places
  <2> DEFINE T == {t \in Down : \A i \in DOMAIN order : order[i] = t => i >= r}
  <2>2. DOMAIN order \subseteq Nat
    BY Places
  <2>3. Root \in T
    BY <2>1, <2>2, Places, Traversed
  <2>4. ASSUME NEW t \in T, NEW c \in Children[t] PROVE c \in T
    <3>1. c \in Down
      BY <1>3, Traversed
    <3>2. t \in Parents[c]
      BY <1>1, <3>1 DEF Children, Parents, ChildKeys, ParentKeys
    <3>3. PICK j \in DOMAIN order : order[j] = t
      BY <1>1, Places
    <3>4. \A i \in DOMAIN order : order[i] = c => j < i
      BY <3>2, <3>3, Places
    <3>5. j >= r
      BY <3>3
    <3> QED
      BY <2>1, <2>2, <3>1, <3>3, <3>4, <3>5
  <2>5. Down \subseteq T
    <3>1. Down = Reach(Children, {Root}) /\ DOMAIN Children = Tables
      BY <1>3 DEF Down, Children
    <3>2. T \subseteq DOMAIN Children /\ {Root} \subseteq T /\ \A x \in T : Children[x] \subseteq T
      BY <1>1, <2>3, <2>4, <3>1
    <3> HIDE DEF T
    <3> QED
      BY <3>1, <3>2, ReachIsLeast
  <2>6. ASSUME k.referencedTable \in Down PROVE FALSE
    <3>1. k.referencedTable \in Parents[Root]
      BY <1>1 DEF Parents
    <3>2. PICK j \in DOMAIN order : order[j] = k.referencedTable
      BY <1>1, <2>6, Places
    <3>3. j < r
      BY <2>1, <3>1, <3>2, Places
    <3>4. j >= r
      BY <2>5, <2>6, <3>2
    <3> QED
      BY <2>1, <2>2, <3>3, <3>4
  <2> QED
    BY <2>6
<1> QED
  BY <1>2, <1>3

-------------------------------------------------------------------------------
(* The subset, as the rows next to its rows *)

LEMMA NextRows ==
  /\ ReferringTo \in [source -> SUBSET source] /\ ReferredTo \in [source -> SUBSET source]
  /\ \A p, r \in source : r \in ReferringTo[p] <=> \E k \in ParentKeys(r.table) : Refers(r, k, p)
  /\ \A p, r \in source : p \in ReferredTo[r] <=> \E k \in ParentKeys(r.table) : Refers(r, k, p)
  BY DEF ReferringTo, ReferredTo

LEMMA ChosenRows == Chosen \subseteq source /\ \A r \in Chosen : r.table = Root
  BY DEF Chosen, In

LEMMA RowsOnTheWayDown ==
  ASSUME asked \in Requests
  PROVE  OnTheWayDown \subseteq source /\ \A r \in OnTheWayDown : r.table \in Down
<1>1. CASE ~asked.followChildren
  BY <1>1, ChosenRows, Traversed DEF OnTheWayDown
<1>2. CASE asked.followChildren
  <2> DEFINE T == {r \in source : r.table \in Down}
  <2>1. Chosen \subseteq T
    BY ChosenRows, Traversed
  <2>2. ASSUME NEW p \in T, NEW r \in ReferringTo[p] PROVE r \in T
    <3>1. r \in source
      BY NextRows
    <3>2. PICK k \in ParentKeys(r.table) : Refers(r, k, p)
      BY <3>1, NextRows
    <3>3. k.referencedTable \in Down /\ k \in ChildKeys(k.referencedTable) /\ k.table = r.table
      BY <3>2 DEF Refers, ParentKeys, ChildKeys
    <3>4. k.table \in Children[k.referencedTable] /\ k.referencedTable \in Tables
      BY <3>3, Traversed DEF Children
    <3> QED
      BY <1>2, <3>1, <3>3, <3>4, Traversed
  <2>3. DOMAIN ReferringTo = source
    BY NextRows
  <2> HIDE DEF T
  <2>4. T \subseteq DOMAIN ReferringTo
    BY <2>3 DEF T
  <2>5. Reach(ReferringTo, Chosen) \subseteq T
    BY <2>1, <2>2, <2>4, ReachIsLeast
  <2> QED
    BY <1>2, <2>5 DEF T, OnTheWayDown
<1> QED
  BY <1>1, <1>2

LEMMA RowsOfTheSubset ==
  ASSUME asked \in Requests
  PROVE  /\ TheSubset \subseteq source /\ OnTheWayDown \subseteq TheSubset
         /\ \A r \in TheSubset : r.table \in Included
         /\ \A r \in TheSubset : \A p \in source : \A k \in ParentKeys(r.table) : Refers(r, k, p) => p \in TheSubset
<1>1. DOMAIN ReferredTo = source /\ \A x \in DOMAIN ReferredTo : ReferredTo[x] \subseteq DOMAIN ReferredTo
  BY NextRows
<1>2. OnTheWayDown \subseteq DOMAIN ReferredTo
  BY <1>1, RowsOnTheWayDown
<1>3. /\ OnTheWayDown \subseteq TheSubset /\ TheSubset \subseteq source
      /\ \A x \in TheSubset : ReferredTo[x] \subseteq TheSubset
  BY <1>1, <1>2, ReachIsClosed DEF TheSubset
<1> DEFINE T == {r \in source : r.table \in Included}
<1>4. OnTheWayDown \subseteq T
  BY RowsOnTheWayDown, Traversed
<1>5. ASSUME NEW r \in T, NEW p \in ReferredTo[r] PROVE p \in T
  <2>1. p \in source
    BY NextRows
  <2>2. PICK k \in ParentKeys(r.table) : Refers(r, k, p)
    BY <2>1, NextRows
  <2>3. k.referencedTable \in Parents[r.table]
    BY Traversed DEF Parents
  <2> QED
    BY <2>1, <2>2, <2>3, Traversed DEF Refers
<1> HIDE DEF T
<1>6. T \subseteq DOMAIN ReferredTo
  BY <1>1 DEF T
<1>7. TheSubset \subseteq T
  BY <1>4, <1>5, <1>6, ReachIsLeast DEF TheSubset
<1> QED
  BY <1>3, <1>7, NextRows DEF T

(* What each selection is to return. *)
Meant(s) == In(IF s.way = "down" THEN OnTheWayDown ELSE TheSubset, s.table)

LEMMA DownReasonsMean ==
  ASSUME asked \in Requests, NEW order, IsOrder(order), NEW t \in Down, NEW r \in In(source, t), NEW values,
         \A c \in DownReasons(t) : c.why # "where" => values[c.of] = Meant(c.of)
  PROVE  (\E c \in DownReasons(t) : Holds(c, r, values) = "true") <=> r \in OnTheWayDown
<1>1. r \in source /\ r.table = t
  BY DEF In
<1>2. CASE t = Root
  <2>1. (\E c \in DownReasons(t) : Holds(c, r, values) = "true") <=> r \in Chosen
    BY <1>1, <1>2 DEF DownReasons, Holds, Where, Chosen, In
  <2>2. ASSUME r \in OnTheWayDown, asked.followChildren PROVE r \in Chosen
    <3>1. Chosen \subseteq DOMAIN ReferringTo /\ \A x \in DOMAIN ReferringTo : ReferringTo[x] \subseteq DOMAIN ReferringTo
      BY ChosenRows, NextRows
    <3>2. r \in Chosen \/ \E p \in OnTheWayDown : r \in ReferringTo[p]
      BY <2>2, <3>1, ReachUnfolds DEF OnTheWayDown
    <3>3. ASSUME NEW p \in OnTheWayDown, r \in ReferringTo[p] PROVE FALSE
      <4>1. p \in source /\ p.table \in Down
        BY RowsOnTheWayDown
      <4>2. PICK k \in ParentKeys(r.table) : Refers(r, k, p)
        BY <1>1, <3>3, <4>1, NextRows
      <4> QED
        BY <1>1, <1>2, <4>1, <4>2, RootRefersToNoneBelow DEF Refers
    <3> QED
      BY <3>2, <3>3
  <2>3. Chosen \subseteq OnTheWayDown
    <3>1. Chosen \subseteq DOMAIN ReferringTo /\ \A x \in DOMAIN ReferringTo : ReferringTo[x] \subseteq DOMAIN ReferringTo
      BY ChosenRows, NextRows
    <3> QED
      BY <3>1, ReachIsClosed DEF OnTheWayDown
  <2> QED
    BY <2>1, <2>2, <2>3 DEF OnTheWayDown
<1>3. CASE t # Root
  <2>1. asked.followChildren
    BY <1>3, Traversed
  <2>2. Chosen \subseteq DOMAIN ReferringTo /\ \A x \in DOMAIN ReferringTo : ReferringTo[x] \subseteq DOMAIN ReferringTo
    BY ChosenRows, NextRows
  <2>3. r \in OnTheWayDown <=> \E p \in OnTheWayDown : r \in ReferringTo[p]
    <3>1. r \notin Chosen
      BY <1>1, <1>3, ChosenRows
    <3>2. OnTheWayDown = Chosen \cup UNION {ReferringTo[y] : y \in OnTheWayDown}
      BY <2>1, <2>2, ReachUnfolds DEF OnTheWayDown
    <3> QED
      BY <3>1, <3>2
  <2>4. r \in OnTheWayDown <=> \E p \in OnTheWayDown : \E k \in ParentKeys(t) : Refers(r, k, p)
    BY <1>1, <2>3, RowsOnTheWayDown, NextRows
  <2>5. \A k \in DownKeys(t) : values[Selection("down", k.referencedTable)] = In(OnTheWayDown, k.referencedTable)
    <3> SUFFICES ASSUME NEW k \in DownKeys(t) PROVE values[Selection("down", k.referencedTable)] = In(OnTheWayDown, k.referencedTable)
      OBVIOUS
    <3>1. RefersTo(k) \in DownReasons(t)
      BY <1>3 DEF DownReasons
    <3>2. RefersTo(k).why = "refersTo" /\ RefersTo(k).of = Selection("down", k.referencedTable)
      BY DEF RefersTo
    <3>3. Meant(Selection("down", k.referencedTable)) = In(OnTheWayDown, k.referencedTable)
      BY DEF Meant, Selection
    <3> QED
      BY <3>1, <3>2, <3>3
  <2>6. \A k \in DownKeys(t) : Holds(RefersTo(k), r, values) = "true" <=> \E p \in values[Selection("down", k.referencedTable)] : Refers(r, k, p)
    BY DEF Holds, RefersTo
  <2>7. (\E c \in DownReasons(t) : Holds(c, r, values) = "true") <=> \E k \in DownKeys(t) : \E p \in In(OnTheWayDown, k.referencedTable) : Refers(r, k, p)
    BY <1>3, <2>5, <2>6 DEF DownReasons
  <2>8. \A k \in ParentKeys(t), p \in OnTheWayDown : Refers(r, k, p) => k \in DownKeys(t) /\ p \in In(OnTheWayDown, k.referencedTable)
    BY RowsOnTheWayDown DEF Refers, In, DownKeys
  <2> QED
    BY <2>4, <2>7, <2>8 DEF In, DownKeys
<1> QED
  BY <1>2, <1>3

LEMMA KeptReasonsMean ==
  ASSUME asked \in Requests, NEW order, IsOrder(order), NEW t \in Included, NEW r \in In(source, t), NEW values,
         \A c \in KeptReasons(t) : c.why # "where" => values[c.of] = Meant(c.of)
  PROVE  (\E c \in KeptReasons(t) : Holds(c, r, values) = "true") <=> r \in TheSubset
<1>1. r \in source /\ r.table = t
  BY DEF In
<1>2. r \in TheSubset <=> r \in OnTheWayDown \/ \E c \in TheSubset : \E k \in ParentKeys(c.table) : Refers(c, k, r)
  <2>1. DOMAIN ReferredTo = source /\ \A x \in DOMAIN ReferredTo : ReferredTo[x] \subseteq DOMAIN ReferredTo
    BY NextRows
  <2>2. OnTheWayDown \subseteq DOMAIN ReferredTo
    BY <2>1, RowsOnTheWayDown
  <2>3. TheSubset = OnTheWayDown \cup UNION {ReferredTo[y] : y \in TheSubset}
    BY <2>1, <2>2, ReachUnfolds DEF TheSubset
  <2>4. r \in TheSubset <=> r \in OnTheWayDown \/ \E c \in TheSubset : r \in ReferredTo[c]
    BY <2>3
  <2> QED
    BY <1>1, <2>4, RowsOfTheSubset, NextRows
<1>3. ASSUME t \in Down
      PROVE  (\E c \in DownReasons(t) : Holds(c, r, values) = "true") <=> r \in OnTheWayDown
  <2>1. \A c \in DownReasons(t) : c.why # "where" => values[c.of] = Meant(c.of)
    BY <1>3 DEF KeptReasons
  <2> QED
    BY <1>3, <2>1, DownReasonsMean
<1>4. t \notin Down => r \notin OnTheWayDown
  BY <1>1, RowsOnTheWayDown
<1>5. ASSUME NEW k \in KeptKeys(t)
      PROVE  Holds(ReferredToBy(k), r, values) = "true" <=> \E c \in In(TheSubset, k.table) : Refers(c, k, r)
  <2>1. ReferredToBy(k) \in KeptReasons(t)
    BY DEF KeptReasons
  <2>2. ReferredToBy(k).why = "referredToBy" /\ ReferredToBy(k).of = Selection("kept", k.table) /\ ReferredToBy(k).key = k
    BY DEF ReferredToBy
  <2>3. Meant(Selection("kept", k.table)) = In(TheSubset, k.table)
    BY DEF Meant, Selection
  <2>4. values[Selection("kept", k.table)] = In(TheSubset, k.table)
    BY <2>1, <2>2, <2>3
  <2> QED
    BY <2>2, <2>4 DEF Holds
<1>6. (\E c \in KeptReasons(t) : Holds(c, r, values) = "true")
        <=> \/ t \in Down /\ r \in OnTheWayDown
            \/ \E k \in KeptKeys(t) : \E c \in In(TheSubset, k.table) : Refers(c, k, r)
  BY <1>3, <1>5 DEF KeptReasons
<1>7. (\E c \in TheSubset : \E k \in ParentKeys(c.table) : Refers(c, k, r))
        <=> \E k \in KeptKeys(t) : \E c \in In(TheSubset, k.table) : Refers(c, k, r)
  <2>1. ASSUME NEW c \in TheSubset, NEW k \in ParentKeys(c.table), Refers(c, k, r)
        PROVE  k \in KeptKeys(t) /\ c \in In(TheSubset, k.table)
    BY <1>1, <2>1, RowsOfTheSubset DEF Refers, In, KeptKeys, ParentKeys, ChildKeys
  <2>2. ASSUME NEW k \in KeptKeys(t), NEW c \in In(TheSubset, k.table)
        PROVE  c \in TheSubset /\ k \in ParentKeys(c.table)
    BY DEF In, KeptKeys, ParentKeys, ChildKeys
  <2> QED
    BY <2>1, <2>2
<1> QED
  BY <1>2, <1>4, <1>6, <1>7

-------------------------------------------------------------------------------
(* Going through a query's definitions *)

Selections == {Selection(way, t) : way \in {"down", "kept"}, t \in Tables}

(* What a query's definitions are given when they are gone through.        *)
Gone(query, before, i) ==
  IF i = 0 THEN NoValues
  ELSE IF \E d \in query : d.at = i THEN Value(before, CHOOSE d \in query : d.at = i)
  ELSE before

LEMMA GoneThrough ==
  ASSUME NEW query, NEW n \in Nat
  PROVE  \E v : v = [i \in 0..n |-> Gone(query, v[i - 1], i)]
<1> DEFINE S == {m \in Nat : ~\E v : v = [i \in 0..m |-> Gone(query, v[i - 1], i)]}
<1> SUFFICES ASSUME S # {} PROVE FALSE
  OBVIOUS
<1>1. PICK m \in S : \A y \in S : m <= y
  <2>1. S \subseteq Nat
    OBVIOUS
  <2> HIDE DEF S
  <2> QED
    BY <2>1, LeastOfNaturals
<1>2. CASE m = 0
  <2> DEFINE v == [i \in 0..0 |-> NoValues]
  <2>1. v = [i \in 0..0 |-> Gone(query, v[i - 1], i)]
    BY DEF Gone
  <2> HIDE DEF v
  <2> QED
    BY <1>2, <2>1
<1>3. CASE m # 0
  <2>1. m - 1 \in Nat /\ m - 1 \notin S
    <3>1. m - 1 \in Nat /\ ~(m <= m - 1)
      BY <1>3
    <3> HIDE DEF S
    <3> QED
      BY <1>1, <3>1
  <2>2. PICK u : u = [i \in 0..(m - 1) |-> Gone(query, u[i - 1], i)]
    BY <2>1
  <2> DEFINE v == [i \in 0..m |-> IF i = m THEN Gone(query, u[m - 1], m) ELSE u[i]]
  <2>3. ASSUME NEW i \in 0..m PROVE v[i] = Gone(query, v[i - 1], i)
    <3>1. CASE i = 0
      <4>1. v[i] = u[0] /\ u[0] = Gone(query, u[0 - 1], 0)
        BY <1>3, <2>1, <2>2, <3>1
      <4> QED
        BY <3>1, <4>1 DEF Gone
    <3>2. CASE i # 0 /\ i # m
      <4>1. v[i] = u[i] /\ i - 1 \in 0..m /\ i - 1 # m /\ i \in 0..(m - 1)
        BY <1>1, <3>2
      <4>2. v[i - 1] = u[i - 1]
        BY <4>1
      <4>3. u[i] = Gone(query, u[i - 1], i)
        BY <2>2, <4>1
      <4> QED
        BY <4>1, <4>2, <4>3
    <3>3. CASE i = m
      <4>1. m - 1 \in 0..m /\ m - 1 # m
        BY <1>1, <1>3
      <4>2. v[m - 1] = u[m - 1]
        BY <4>1
      <4> QED
        BY <3>3, <4>2
    <3> QED
      BY <3>1, <3>2, <3>3
  <2>4. v = [i \in 0..m |-> v[i]]
    OBVIOUS
  <2> HIDE DEF v
  <2>5. v = [i \in 0..m |-> Gone(query, v[i - 1], i)]
    BY <2>3, <2>4
  <2> QED
    BY <1>1, <2>5
<1> QED
  BY <1>2, <1>3

LEMMA ValuesAreGoneThrough ==
  ASSUME NEW query, Len(plan.tables) \in Nat
  PROVE  \E v : /\ v[0] = NoValues /\ Values(query) = v[2 * Len(plan.tables)]
                /\ \A i \in 1..(2 * Len(plan.tables)) : v[i] = Gone(query, v[i - 1], i)
<1> DEFINE last == 2 * Len(plan.tables)
           v == CHOOSE w : w = [i \in 0..last |-> Gone(query, w[i - 1], i)]
<1>1. Values(query) = v[last]
  BY DEF Values, Gone
<1>2. last \in Nat
  OBVIOUS
<1>3. v = [i \in 0..last |-> Gone(query, v[i - 1], i)]
  <2>1. \E w : w = [i \in 0..last |-> Gone(query, w[i - 1], i)]
    BY <1>2, GoneThrough
  <2> HIDE DEF last
  <2> QED
    BY <2>1
<1> HIDE DEF v, last
<1>4. v[0] = NoValues /\ \A i \in 1..last : v[i] = Gone(query, v[i - 1], i)
  <2>1. 0 \in 0..last /\ 1..last \subseteq 0..last
    BY <1>2
  <2>2. v[0] = Gone(query, v[0 - 1], 0)
    BY <1>3, <2>1
  <2> QED
    BY <1>3, <2>1, <2>2 DEF Gone
<1> QED
  BY <1>1, <1>4 DEF last

(* A query's definitions are of different selections, one after another,   *)
(* each of none but selections before it.                                  *)
IsQuery(query, last) ==
  /\ \A d \in query : d.at \in 1..last /\ d.selection \in Selections
  /\ \A d, e \in query : d.at = e.at \/ d.selection = e.selection => d = e
  /\ \A d \in query : \A c \in ToSet(d.conditions) : c.why # "where" => \E e \in query : e.selection = c.of /\ e.at < d.at

(* Each definition returns what is meant of what is meant.                 *)
DefinesWhatIsMeant(d) ==
  \A values : (\A c \in ToSet(d.conditions) : c.why # "where" => values[c.of] = Meant(c.of)) =>
    \A r \in In(source, d.selection.table) : Times(d.conditions, r, values) = IF r \in Meant(d.selection) THEN 1 ELSE 0

LEMMA ValuesAreMeant ==
  ASSUME asked \in Requests, Len(plan.tables) \in Nat, NEW query, IsQuery(query, 2 * Len(plan.tables)),
         \A d \in query : DefinesWhatIsMeant(d)
  PROVE  \A d \in query : Values(query)[d.selection] = Meant(d.selection)
<1> DEFINE last == 2 * Len(plan.tables)
<1>1. last \in Nat
  OBVIOUS
<1>2. PICK v : /\ v[0] = NoValues /\ Values(query) = v[last]
               /\ \A i \in 1..last : v[i] = Gone(query, v[i - 1], i)
  BY ValuesAreGoneThrough
<1>3. IsQuery(query, last)
  OBVIOUS
<1> HIDE DEF last
<1> DEFINE P(n) == DOMAIN v[n] = Selections /\ \A d \in query : d.at <= n => v[n][d.selection] = Meant(d.selection)
           S == {n \in 0..last : ~P(n)}
<1>4. ASSUME S # {} PROVE FALSE
  <2>1. PICK n \in S : \A m \in S : n <= m
    <3>1. S \subseteq Nat
      BY <1>1
    <3> HIDE DEF S
    <3> QED
      BY <1>4, <3>1, LeastOfNaturals
  <2>2. n \in 0..last /\ ~P(n)
    BY <2>1
  <2>3. CASE n = 0
    <3>1. DOMAIN v[0] = Selections
      BY <1>2 DEF NoValues, Selections
    <3>2. \A d \in query : ~(d.at <= 0)
      BY <1>1, <1>3 DEF IsQuery
    <3> QED
      BY <2>2, <2>3, <3>1, <3>2
  <2>4. CASE n # 0
    <3>1. n \in 1..last /\ n - 1 \in 0..last /\ n \in Nat
      BY <1>1, <2>2, <2>4
    <3>2. P(n - 1)
      <4>1. n - 1 \notin S
        <5>1. ~(n <= n - 1)
          BY <3>1
        <5> HIDE DEF S
        <5> QED
          BY <2>1, <5>1
      <4> QED
        BY <3>1, <4>1
    <3>3. v[n] = Gone(query, v[n - 1], n)
      BY <1>2, <3>1
    <3>4. CASE ~\E d \in query : d.at = n
      <4>1. v[n] = v[n - 1]
        BY <3>1, <3>3, <3>4 DEF Gone
      <4>2. \A d \in query : d.at <= n => d.at <= n - 1
        BY <1>1, <1>3, <3>1, <3>4 DEF IsQuery
      <4> QED
        BY <2>2, <3>2, <4>1, <4>2
    <3>5. CASE \E d \in query : d.at = n
      <4> DEFINE d == CHOOSE e \in query : e.at = n
      <4>1. d \in query /\ d.at = n
        BY <3>5
      <4>2. v[n] = Value(v[n - 1], d)
        BY <3>1, <3>3, <3>5 DEF Gone
      <4> HIDE DEF d
      <4> DEFINE found == {r \in In(source, d.selection.table) : Times(d.conditions, r, v[n - 1]) > 0}
      <4>3. v[n] = [v[n - 1] EXCEPT ![d.selection] = found]
        BY <4>2 DEF Value
      <4>4. \A c \in ToSet(d.conditions) : c.why # "where" => v[n - 1][c.of] = Meant(c.of)
        <5> SUFFICES ASSUME NEW c \in ToSet(d.conditions), c.why # "where" PROVE v[n - 1][c.of] = Meant(c.of)
          OBVIOUS
        <5>1. PICK e \in query : e.selection = c.of /\ e.at < d.at
          BY <1>3, <4>1 DEF IsQuery
        <5>2. e.at <= n - 1
          BY <1>1, <1>3, <3>1, <4>1, <5>1 DEF IsQuery
        <5> QED
          BY <3>2, <5>1, <5>2
      <4>5. \A r \in In(source, d.selection.table) : Times(d.conditions, r, v[n - 1]) = IF r \in Meant(d.selection) THEN 1 ELSE 0
        BY <4>1, <4>4 DEF DefinesWhatIsMeant
      <4>6. found = Meant(d.selection)
        <5>1. Meant(d.selection) \subseteq In(source, d.selection.table)
          BY RowsOnTheWayDown, RowsOfTheSubset DEF Meant, In
        <5> QED
          BY <4>5, <5>1
      <4> HIDE DEF found
      <4>7. ASSUME NEW e \in query, e.at <= n PROVE v[n][e.selection] = Meant(e.selection)
        <5>1. e.selection \in DOMAIN v[n - 1]
          BY <1>3, <3>2 DEF IsQuery
        <5>2. CASE e = d
          BY <4>3, <4>6, <5>1, <5>2
        <5>3. CASE e # d
          <6>1. e.selection # d.selection /\ e.at # d.at
            BY <1>3, <4>1, <5>3 DEF IsQuery
          <6>2. e.at <= n - 1
            BY <1>1, <1>3, <3>1, <4>1, <4>7, <6>1 DEF IsQuery
          <6> QED
            BY <3>2, <4>3, <5>1, <6>1, <6>2
        <5> QED
          BY <5>2, <5>3
      <4>8. DOMAIN v[n] = Selections
        BY <3>2, <4>3
      <4> QED
        BY <2>2, <4>7, <4>8
    <3> QED
      BY <3>4, <3>5
  <2> QED
    BY <2>3, <2>4
<1>5. P(last)
  BY <1>1, <1>4
<1>6. \A d \in query : d.at <= last
  BY <1>1, <1>3 DEF IsQuery
<1> QED
  BY <1>2, <1>5, <1>6

-------------------------------------------------------------------------------
(* The definitions of a plan *)

DownAt(order, i) == Define(i, "down", order[i], DownConditions(order[i]))
KeptAt(order, i) == Define(2 * Len(order) + 1 - i, "kept", order[i], KeptConditions(order[i]))

LEMMA DefinitionsAreOf ==
  ASSUME asked \in Requests, NEW order, IsOrder(order)
  PROVE  /\ \A d : d \in Definitions(order) <=>
                \/ \E i \in DOMAIN order : order[i] \in Down /\ d = DownAt(order, i)
                \/ \E i \in DOMAIN order : d = KeptAt(order, i)
         /\ \A i \in DOMAIN order :
              /\ DownAt(order, i).at = i /\ DownAt(order, i).selection = Selection("down", order[i])
              /\ DownAt(order, i).conditions = DownConditions(order[i])
              /\ KeptAt(order, i).at = 2 * Len(order) + 1 - i /\ KeptAt(order, i).selection = Selection("kept", order[i])
              /\ KeptAt(order, i).conditions = KeptConditions(order[i])
  BY DEF Definitions, DownAt, KeptAt, Define

LEMMA SelectionsDiffer ==
  ASSUME NEW v, NEW w, NEW t, NEW u, Selection(v, t) = Selection(w, u)
  PROVE  v = w /\ t = u
<1>1. Selection(v, t).way = v /\ Selection(w, u).way = w /\ Selection(v, t).table = t /\ Selection(w, u).table = u
  BY DEF Selection
<1> QED
  BY <1>1

LEMMA DefinitionsAreAQuery ==
  ASSUME asked \in Requests, NEW order, IsOrder(order)
  PROVE  IsQuery(Definitions(order), 2 * Len(order))
<1> DEFINE defs == Definitions(order)
           n == Len(order)
<1>1. /\ n \in Nat /\ DOMAIN order = 1..n
      /\ \A i \in DOMAIN order : order[i] \in Included /\ order[i] \in Tables
      /\ \A i, j \in DOMAIN order : order[i] = order[j] => i = j
      /\ \A x \in Included : \E i \in DOMAIN order : order[i] = x
      /\ \A i, j \in DOMAIN order : order[j] \in Parents[order[i]] => j < i
  BY Places, Traversed
<1>2. ASSUME NEW d \in defs PROVE d.at \in 1..(2 * n) /\ d.selection \in Selections
  BY <1>1, <1>2, DefinitionsAreOf DEF Selections
<1>3. ASSUME NEW d \in defs, NEW e \in defs, d.at = e.at \/ d.selection = e.selection PROVE d = e
  <2>1. ASSUME NEW i \in DOMAIN order, NEW j \in DOMAIN order, d = DownAt(order, i), e = DownAt(order, j) PROVE i = j
    <3>1. i = j \/ order[i] = order[j]
      BY <1>3, <2>1, DefinitionsAreOf, SelectionsDiffer
    <3> QED
      BY <1>1, <3>1
  <2>2. ASSUME NEW i \in DOMAIN order, NEW j \in DOMAIN order, d = KeptAt(order, i), e = KeptAt(order, j) PROVE i = j
    <3>1. 2 * n + 1 - i = 2 * n + 1 - j \/ order[i] = order[j]
      BY <1>3, <2>2, DefinitionsAreOf, SelectionsDiffer
    <3> QED
      BY <1>1, <3>1
  <2>3. ASSUME NEW i \in DOMAIN order, NEW j \in DOMAIN order,
               (d = DownAt(order, i) /\ e = KeptAt(order, j)) \/ (d = KeptAt(order, j) /\ e = DownAt(order, i))
        PROVE  FALSE
    <3>1. "down" # "kept"
      OBVIOUS
    <3>2. i # 2 * n + 1 - j
      BY <1>1
    <3>3. Selection("down", order[i]) # Selection("kept", order[j])
      BY <3>1, SelectionsDiffer
    <3> QED
      BY <1>3, <2>3, <3>2, <3>3, DefinitionsAreOf
  <2> QED
    BY <2>1, <2>2, <2>3, DefinitionsAreOf
<1>4. ASSUME NEW i \in DOMAIN order, NEW c \in DownReasons(order[i]), c.why # "where", order[i] \in Down
      PROVE  \E e \in defs : e.selection = c.of /\ e.at < i /\ e.at <= n
  <2>1. c # Where
    BY <1>4 DEF Where
  <2>2. PICK k \in DownKeys(order[i]) : c = RefersTo(k)
    BY <1>4, <2>1 DEF DownReasons
  <2>3. k.referencedTable \in Down /\ k.referencedTable \in Included /\ k.referencedTable \in Parents[order[i]]
    BY <1>1, <2>2, Traversed DEF DownKeys, Parents
  <2>4. PICK j \in DOMAIN order : order[j] = k.referencedTable
    BY <1>1, <2>3
  <2>5. j < i /\ j <= n
    BY <1>1, <2>3, <2>4
  <2>6. DownAt(order, j) \in defs /\ DownAt(order, j).at = j /\ DownAt(order, j).selection = Selection("down", k.referencedTable)
    BY <2>3, <2>4, DefinitionsAreOf
  <2>7. c.of = Selection("down", k.referencedTable)
    BY <2>2 DEF RefersTo
  <2> QED
    BY <2>5, <2>6, <2>7
<1>5. ASSUME NEW i \in DOMAIN order, NEW k \in KeptKeys(order[i])
      PROVE  \E e \in defs : e.selection = ReferredToBy(k).of /\ e.at < 2 * n + 1 - i
  <2>1. k.table \in Included /\ order[i] \in Parents[k.table]
    BY <1>1, Traversed DEF KeptKeys, ChildKeys, ParentKeys, Parents
  <2>2. PICK j \in DOMAIN order : order[j] = k.table
    BY <1>1, <2>1
  <2>3. i < j
    BY <1>1, <2>1, <2>2
  <2>4. KeptAt(order, j) \in defs /\ KeptAt(order, j).at = 2 * n + 1 - j /\ KeptAt(order, j).selection = Selection("kept", k.table)
    BY <2>2, DefinitionsAreOf
  <2>5. 2 * n + 1 - j < 2 * n + 1 - i
    BY <1>1, <2>3
  <2>6. ReferredToBy(k).of = Selection("kept", k.table)
    BY DEF ReferredToBy
  <2> QED
    BY <2>4, <2>5, <2>6
<1>6. ASSUME NEW d \in defs, NEW c \in ToSet(d.conditions), c.why # "where"
      PROVE  \E e \in defs : e.selection = c.of /\ e.at < d.at
  <2>1. CASE \E i \in DOMAIN order : order[i] \in Down /\ d = DownAt(order, i)
    <3>1. PICK i \in DOMAIN order : order[i] \in Down /\ d = DownAt(order, i)
      BY <2>1
    <3>2. c \in DownReasons(order[i]) /\ d.at = i
      BY <1>1, <1>6, <3>1, DefinitionsAreOf, DownConditionsMean
    <3> QED
      BY <1>4, <1>6, <3>1, <3>2
  <2>2. CASE \E i \in DOMAIN order : d = KeptAt(order, i)
    <3>1. PICK i \in DOMAIN order : d = KeptAt(order, i)
      BY <2>2
    <3>2. c \in KeptReasons(order[i]) /\ d.at = 2 * n + 1 - i
      BY <1>1, <1>6, <3>1, DefinitionsAreOf, KeptConditionsMean
    <3>3. CASE \E k \in KeptKeys(order[i]) : c = ReferredToBy(k)
      BY <1>5, <3>2, <3>3
    <3>4. CASE order[i] \in Down /\ c \in DownReasons(order[i])
      <4>1. PICK e \in defs : e.selection = c.of /\ e.at <= n
        BY <1>4, <1>6, <3>4
      <4>2. e.at < 2 * n + 1 - i
        BY <1>1, <1>2, <4>1
      <4> QED
        BY <3>2, <4>1, <4>2
    <3> QED
      BY <3>2, <3>3, <3>4 DEF KeptReasons
  <2> QED
    BY <2>1, <2>2, DefinitionsAreOf
<1> QED
  BY <1>2, <1>3, <1>6 DEF IsQuery

LEMMA DefinitionsDefineWhatIsMeant ==
  ASSUME asked \in Requests, NEW order, IsOrder(order), NEW d \in Definitions(order)
  PROVE  DefinesWhatIsMeant(d)
<1> SUFFICES ASSUME NEW values, \A c \in ToSet(d.conditions) : c.why # "where" => values[c.of] = Meant(c.of),
                    NEW r \in In(source, d.selection.table)
             PROVE  Times(d.conditions, r, values) = IF r \in Meant(d.selection) THEN 1 ELSE 0
  BY DEF DefinesWhatIsMeant
<1>1. ASSUME NEW i \in DOMAIN order, order[i] \in Down, d = DownAt(order, i)
      PROVE  Times(d.conditions, r, values) = IF r \in Meant(d.selection) THEN 1 ELSE 0
  <2>1. order[i] \in Tables /\ d.conditions = DownConditions(order[i]) /\ d.selection = Selection("down", order[i])
    BY <1>1, Places, Traversed, DefinitionsAreOf
  <2>2. ToSet(d.conditions) = DownReasons(order[i]) /\ AreConditions(d.conditions)
    BY <2>1, DownConditionsMean
  <2>3. r \in In(source, order[i]) /\ (r \in Meant(d.selection) <=> r \in OnTheWayDown)
    BY <2>1 DEF Selection, Meant, In
  <2>4. (\E c \in DownReasons(order[i]) : Holds(c, r, values) = "true") <=> r \in OnTheWayDown
    BY <1>1, <2>2, <2>3, DownReasonsMean
  <2> QED
    BY <2>2, <2>3, <2>4, ReturnedOnce
<1>2. ASSUME NEW i \in DOMAIN order, d = KeptAt(order, i)
      PROVE  Times(d.conditions, r, values) = IF r \in Meant(d.selection) THEN 1 ELSE 0
  <2>1. order[i] \in Tables /\ order[i] \in Included /\ d.conditions = KeptConditions(order[i]) /\ d.selection = Selection("kept", order[i])
    BY <1>2, Places, Traversed, DefinitionsAreOf
  <2>2. ToSet(d.conditions) = KeptReasons(order[i]) /\ AreConditions(d.conditions)
    BY <2>1, KeptConditionsMean
  <2>3. r \in In(source, order[i]) /\ (r \in Meant(d.selection) <=> r \in TheSubset)
    BY <2>1 DEF Selection, Meant, In
  <2>4. (\E c \in KeptReasons(order[i]) : Holds(c, r, values) = "true") <=> r \in TheSubset
    BY <2>1, <2>2, <2>3, KeptReasonsMean
  <2> QED
    BY <2>2, <2>3, <2>4, ReturnedOnce
<1> QED
  BY <1>1, <1>2, DefinitionsAreOf

-------------------------------------------------------------------------------
(* The queries of a plan *)

(* What PlanSubset plans.                                                  *)
PlanOf(order) ==
  [tables |-> order,
   queries |-> [t \in Included |-> With(Definitions(order), Selection("kept", t))],
   parents |-> [t \in Included |-> Parents[t] \cap Included]]

IsPlan == \E order : IsOrder(order) /\ plan = PlanOf(order)

LEMMA PlanIs ==
  ASSUME asked \in Requests, IsPlan
  PROVE  /\ IsOrder(plan.tables)
         /\ plan.queries = [t \in Included |-> With(Definitions(plan.tables), Selection("kept", t))]
         /\ plan.parents = [t \in Included |-> Parents[t] \cap Included]
         /\ PlanTables = Included /\ Included \subseteq Tables
<1>1. /\ IsOrder(plan.tables)
      /\ plan.queries = [t \in Included |-> With(Definitions(plan.tables), Selection("kept", t))]
      /\ plan.parents = [t \in Included |-> Parents[t] \cap Included]
  BY DEF IsPlan, PlanOf
<1>2. PlanTables = Included /\ Included \subseteq Tables
  BY <1>1, Places, Traversed DEF PlanTables, ToSet
<1> QED
  BY <1>1, <1>2

LEMMA WithIsAQuery ==
  ASSUME asked \in Requests, NEW order, IsOrder(order), NEW d \in Definitions(order)
  PROVE  /\ d \in With(Definitions(order), d.selection)
         /\ With(Definitions(order), d.selection) \subseteq Definitions(order)
         /\ IsQuery(With(Definitions(order), d.selection), 2 * Len(order))
<1> DEFINE defs == Definitions(order)
           edges == Dependencies(defs)
           query == With(defs, d.selection)
           last == 2 * Len(order)
<1>1. IsQuery(defs, last)
  BY DefinitionsAreAQuery
<1> HIDE DEF last
<1>2. DOMAIN edges = {e.selection : e \in defs}
  BY DEF Dependencies
<1>3. ASSUME NEW e \in defs, NEW c \in ToSet(e.conditions), c.why # "where" PROVE c.of \in edges[e.selection]
  <2>1. c.of \in Named(e)
    BY <1>3 DEF Named
  <2> QED
    BY <2>1 DEF Dependencies
<1>4. ASSUME NEW s \in DOMAIN edges PROVE edges[s] \subseteq DOMAIN edges
  <2> SUFFICES ASSUME NEW x \in edges[s] PROVE x \in DOMAIN edges
    OBVIOUS
  <2>1. PICK e \in defs : x \in Named(e)
    BY <1>2 DEF Dependencies
  <2>2. PICK c \in ToSet(e.conditions) : c.why # "where" /\ x = c.of
    BY <2>1 DEF Named
  <2> QED
    BY <1>1, <1>2, <2>2 DEF IsQuery
<1> HIDE DEF edges
<1>5. /\ d.selection \in Reach(edges, {d.selection})
      /\ \A x \in Reach(edges, {d.selection}) : edges[x] \subseteq Reach(edges, {d.selection})
  <2>1. {d.selection} \subseteq DOMAIN edges
    BY <1>2
  <2> QED
    BY <1>4, <2>1, ReachIsClosed
<1>6. query = {e \in defs : e.selection \in Reach(edges, {d.selection})}
  BY DEF With, edges
<1> HIDE DEF query, defs
<1>7. query \subseteq defs /\ d \in query
  BY <1>5, <1>6 DEF defs
<1>8. ASSUME NEW e \in query, NEW c \in ToSet(e.conditions), c.why # "where"
      PROVE  \E f \in query : f.selection = c.of /\ f.at < e.at
  <2>1. PICK f \in defs : f.selection = c.of /\ f.at < e.at
    BY <1>1, <1>7, <1>8 DEF IsQuery
  <2>2. c.of \in Reach(edges, {d.selection})
    BY <1>3, <1>5, <1>6, <1>7, <1>8
  <2> QED
    BY <1>6, <2>1, <2>2
<1>9. IsQuery(query, last)
  BY <1>1, <1>7, <1>8 DEF IsQuery
<1> QED
  BY <1>7, <1>9 DEF query, defs, last

LEMMA QueriesReturnTheSubset ==
  ASSUME asked \in Requests, IsPlan, NEW t \in Included
  PROVE  /\ Query(t) = In(TheSubset, t)
         /\ \A r \in In(source, t) :
              Times(KeptDefinition(t).conditions, r, Values(plan.queries[t])) = IF r \in TheSubset THEN 1 ELSE 0
<1> DEFINE order == plan.tables
           query == plan.queries[t]
           kept == Selection("kept", t)
<1>1. IsOrder(order) /\ Len(order) \in Nat
  BY PlanIs, Places
<1>2. PICK i \in DOMAIN order : order[i] = t
  BY <1>1, Places
<1>3. KeptAt(order, i) \in Definitions(order) /\ KeptAt(order, i).selection = kept
  BY <1>1, <1>2, DefinitionsAreOf
<1>4. query = With(Definitions(order), kept)
  BY PlanIs
<1>5. /\ KeptAt(order, i) \in query /\ query \subseteq Definitions(order) /\ IsQuery(query, 2 * Len(order))
  BY <1>1, <1>3, <1>4, WithIsAQuery
<1>6. \A d \in query : DefinesWhatIsMeant(d)
  BY <1>1, <1>5, DefinitionsDefineWhatIsMeant
<1> HIDE DEF query, kept
<1>7. \A d \in query : Values(query)[d.selection] = Meant(d.selection)
  BY <1>1, <1>5, <1>6, ValuesAreMeant
<1>8. KeptDefinition(t) \in query /\ KeptDefinition(t).selection = kept
  BY <1>3, <1>5 DEF KeptDefinition, query, kept
<1>9. Meant(kept) = In(TheSubset, t) /\ kept.table = t
  BY DEF Meant, Selection, kept
<1>10. Query(t) = In(TheSubset, t)
  BY <1>7, <1>8, <1>9 DEF Query, query, kept
<1>11. \A c \in ToSet(KeptDefinition(t).conditions) : c.why # "where" => Values(query)[c.of] = Meant(c.of)
  BY <1>5, <1>7, <1>8 DEF IsQuery
<1>12. \A r \in In(source, t) : Times(KeptDefinition(t).conditions, r, Values(query)) = IF r \in Meant(kept) THEN 1 ELSE 0
  BY <1>6, <1>8, <1>9, <1>11 DEF DefinesWhatIsMeant
<1> QED
  BY <1>9, <1>10, <1>12 DEF query, In

-------------------------------------------------------------------------------
(* What stays as it is *)

(* All but the rows is of the request, which is not changed.               *)
LEMMA SameRequest ==
  ASSUME asked' = asked
  PROVE  /\ Followed' = Followed /\ Included' = Included /\ Parents' = Parents /\ DeclaredParents' = DeclaredParents
         /\ \A t : KeysOf(t)' = KeysOf(t) /\ ParentKeys(t)' = ParentKeys(t) /\ UniqueColumns(t)' = UniqueColumns(t)
         /\ \A order : IsOrder(order)' = IsOrder(order) /\ PlanOf(order)' = PlanOf(order) /\ Definitions(order)' = Definitions(order)
<1>1. Followed' = Followed /\ \A t : KeysOf(t)' = KeysOf(t)
  BY DEF Followed, KeysOf
<1>2. \A t : ParentKeys(t)' = ParentKeys(t) /\ ChildKeys(t)' = ChildKeys(t)
  BY <1>1 DEF ParentKeys, ChildKeys
<1>3. Parents' = Parents /\ Children' = Children
  BY <1>2 DEF Parents, Children
<1>4. Down' = Down
  BY <1>3 DEF Down, Reach
<1>5. Included' = Included
  BY <1>3, <1>4 DEF Included, Reach
<1>6. \A order : IsOrder(order)' = IsOrder(order)
  BY <1>3, <1>5 DEF IsOrder, IsTopologicalOrder
<1>7. \A t : DownConditions(t)' = DownConditions(t)
  BY <1>2, <1>4 DEF DownConditions
<1>8. \A t : KeptConditions(t)' = KeptConditions(t)
  BY <1>2, <1>4, <1>5, <1>7 DEF KeptConditions
<1>9. \A order : Definitions(order)' = Definitions(order)
  BY <1>4, <1>7, <1>8 DEF Definitions
<1>10. \A order : PlanOf(order)' = PlanOf(order)
  BY <1>3, <1>5, <1>9 DEF PlanOf
<1>11. DeclaredParents' = DeclaredParents /\ \A t : UniqueColumns(t)' = UniqueColumns(t)
  BY DEF DeclaredParents, UniqueColumns
<1> QED
  BY <1>1, <1>2, <1>3, <1>5, <1>6, <1>9, <1>10, <1>11

LEMMA SameConsistency ==
  ASSUME asked' = asked, source' = source
  PROVE  Consistent(source)' = Consistent(source)
  BY SameRequest DEF Consistent, Refers, Referenced

LEMMA SameSubset ==
  ASSUME asked' = asked, source' = source
  PROVE  TheSubset' = TheSubset
<1>1. \A t : ParentKeys(t)' = ParentKeys(t)
  BY SameRequest
<1>2. ReferredTo' = ReferredTo /\ ReferringTo' = ReferringTo
  BY <1>1 DEF ReferredTo, ReferringTo
<1>3. Chosen' = Chosen
  BY DEF Chosen
<1>4. OnTheWayDown' = OnTheWayDown
  BY <1>2, <1>3 DEF OnTheWayDown, Reach
<1> QED
  BY <1>2, <1>4 DEF TheSubset, Reach

LEMMA SamePlan ==
  ASSUME asked' = asked, plan' = plan
  PROVE  IsPlan' = IsPlan
  BY SameRequest DEF IsPlan

-------------------------------------------------------------------------------
(* The inductive invariant *)

Planned == step \in {"idle", "run", "clear"}

Copied(r) == r \in target

(* Every row of the subset of a table whose job is over is in the copy, as *)
(* is every one that a running job has no more to write; and the jobs of   *)
(* the tables it references are over.                                      *)
TableIsLoaded(t) ==
  /\ phase[t] \in {"running", "completed"} => \A p \in plan.parents[t] : phase[p] = "completed"
  /\ unwritten[t] \subseteq In(TheSubset, t)
  /\ phase[t] # "running" => unwritten[t] = {}
  /\ phase[t] = "running" => \A r \in In(TheSubset, t) : r \in unwritten[t] \/ Copied(r)
  /\ phase[t] = "completed" => \A r \in In(TheSubset, t) : Copied(r)

(* What is to be cleared is in the order of the declared keys, and all but *)
(* it is empty; a clear in one transaction is over at once.                *)
IsChildrenFirst(order) ==
  \A i, j \in DOMAIN order : order[j] \in DeclaredParents[order[i]] \ {order[i]} => i < j

Clearing ==
  /\ asked.commitEach
  /\ clearing \in Seq(Included) /\ IsChildrenFirst(clearing)
  /\ \A p \in Included \ ToSet(clearing) : In(target, p) = {}

IInv ==
  /\ asked \in Requests /\ step \in {"plan", "refused", "idle", "run", "clear"}
  /\ DOMAIN phase = Tables /\ DOMAIN unwritten = Tables
  /\ Consistent(source)
  /\ Planned => IsPlan
  /\ ~Planned => target = {}
  /\ step # "run" => \A t \in Tables : phase[t] = "waiting" /\ unwritten[t] = {}
  /\ step = "run" => \A t \in Included : TableIsLoaded(t)
  /\ step = "clear" => Clearing
  /\ \A r \in target : r.table \in Included

LEMMA InitInv == Init => IInv
<1> SUFFICES ASSUME Init PROVE IInv
  OBVIOUS
<1> USE DEF Init
<1>1. Consistent(source)
  BY DEF Consistent
<1>2. ~Planned /\ step # "run" /\ step # "clear"
  BY DEF Planned
<1> QED
  BY <1>1, <1>2 DEF IInv

LEMMA PlanSubsetInv == IInv /\ PlanSubset => IInv'
<1> SUFFICES ASSUME IInv, PlanSubset PROVE IInv'
  OBVIOUS
<1> USE DEF PlanSubset
<1>1. asked \in Requests /\ target = {} /\ step = "plan" /\ Consistent(source)
  BY DEF IInv, Planned
<1>2. asked' = asked /\ target' = target /\ source' = source /\ phase' = phase /\ unwritten' = unwritten
  OBVIOUS
<1>3. step' = "refused" \/ (step' = "idle" /\ IsPlan')
  <2>1. CASE HasCycle
    BY <2>1
  <2>2. CASE ~HasCycle
    <3>1. PICK order \in SetToSeqs(Included) :
            /\ IsTopologicalOrder(order, Parents)
            /\ step' = "refused" \/ (step' = "idle" /\ plan' = PlanOf(order))
      BY <2>2 DEF PlanOf
    <3>2. IsOrder(order)
      BY <3>1 DEF IsOrder
    <3> QED
      BY <1>2, <3>1, <3>2, SameRequest DEF IsPlan
  <2> QED
    BY <2>1, <2>2
<1>4. Consistent(source)'
  BY <1>1, <1>2, SameConsistency
<1> QED
  BY <1>1, <1>2, <1>3, <1>4 DEF IInv, Planned

LEMMA SourceInv ==
  ASSUME IInv, Idle, Consistent(source)', UNCHANGED <<asked, step, plan, target, phase, unwritten>>
  PROVE  IInv'
<1>1. step = "idle" /\ Planned /\ Planned'
  BY DEF Idle, Planned
<1>2. IsPlan'
  BY <1>1, SamePlan DEF IInv
<1>3. \A r \in target' : r.table \in Included'
  BY SameRequest DEF IInv
<1> QED
  BY <1>1, <1>2, <1>3 DEF IInv

-------------------------------------------------------------------------------
(* The jobs of a run *)

LEMMA RunFacts ==
  ASSUME IInv, Planned
  PROVE  /\ asked \in Requests /\ IsPlan /\ PlanTables = Included /\ Included \subseteq Tables
         /\ \A t \in Included : plan.parents[t] = Parents[t] /\ Parents[t] \subseteq Included
         /\ \A t \in Included : Query(t) = In(TheSubset, t)
<1>1. asked \in Requests /\ IsPlan
  BY DEF IInv
<1>2. \A t \in Included : plan.parents[t] = Parents[t] \cap Included /\ Parents[t] \subseteq Included
  BY <1>1, PlanIs, Traversed
<1> QED
  BY <1>1, <1>2, PlanIs, QueriesReturnTheSubset

(* What jobs leave alone, and what remains to be shown of them.            *)
LEMMA JobInv ==
  ASSUME IInv, step = "run", UNCHANGED <<asked, step, plan, source>>, DOMAIN phase' = Tables, DOMAIN unwritten' = Tables,
         \A t \in Included : TableIsLoaded(t)', \A r \in target' : r.table \in Included
  PROVE  IInv'
<1>1. Consistent(source)'
  BY SameConsistency DEF IInv
<1>2. IsPlan' /\ Planned'
  BY SamePlan DEF IInv, Planned
<1>3. Included' = Included
  BY SameRequest
<1> QED
  BY <1>1, <1>2, <1>3 DEF IInv

(* A job changes its own table's phase only, and what is left to write.    *)
OnlyOf(t) ==
  /\ DOMAIN phase' = Tables /\ DOMAIN unwritten' = Tables
  /\ \A u \in Tables \ {t} : phase'[u] = phase[u] /\ unwritten'[u] = unwritten[u]

LEMMA OtherTables ==
  ASSUME IInv, step = "run", UNCHANGED <<asked, step, plan, source>>, NEW t \in Included, phase[t] # "completed", OnlyOf(t),
         \A r : r.table # t /\ Copied(r) => Copied(r)', NEW u \in Included, u # t
  PROVE  TableIsLoaded(u)'
<1>1. TableIsLoaded(u) /\ Included \subseteq Tables /\ DOMAIN phase = Tables /\ DOMAIN unwritten = Tables /\ plan.parents[u] \subseteq Included
  BY RunFacts DEF IInv, Planned
<1>2. phase'[u] = phase[u] /\ unwritten'[u] = unwritten[u]
  BY <1>1 DEF OnlyOf
<1>3. TheSubset' = TheSubset
  BY SameSubset
<1>4. \A p \in plan.parents[u] : phase[p] = "completed" => phase'[p] = "completed"
  BY <1>1 DEF OnlyOf
<1>5. In(TheSubset, u)' = In(TheSubset, u) /\ \A r \in In(TheSubset, u) : Copied(r) => Copied(r)'
  BY <1>3 DEF In
<1> QED
  BY <1>1, <1>2, <1>4, <1>5 DEF TableIsLoaded

(* A job that writes nothing now. *)
LEMMA ChangesPhase ==
  ASSUME IInv, step = "run", UNCHANGED <<asked, step, plan, source, target>>, NEW t \in Included, phase[t] # "completed",
         OnlyOf(t), TableIsLoaded(t)'
  PROVE  IInv'
<1>1. \A r : Copied(r)' = Copied(r)
  BY DEF Copied
<1>2. \A u \in Included : TableIsLoaded(u)'
  <2> SUFFICES ASSUME NEW u \in Included, u # t PROVE TableIsLoaded(u)'
    OBVIOUS
  <2> QED
    BY <1>1, OtherTables
<1>3. \A r \in target' : r.table \in Included
  BY DEF IInv
<1>4. DOMAIN phase' = Tables /\ DOMAIN unwritten' = Tables
  BY DEF OnlyOf
<1> QED
  BY <1>2, <1>3, <1>4, JobInv

LEMMA JobSteps ==
  ASSUME IInv, step = "run", NEW t \in PlanTables, Start(t) \/ Skip(t) \/ Complete(t) \/ Retry(t) \/ Fail(t)
  PROVE  IInv'
<1>1. Planned
  BY DEF Planned
<1>2. t \in Included /\ t \in Tables /\ DOMAIN phase = Tables /\ DOMAIN unwritten = Tables /\ TableIsLoaded(t) /\ Query(t) = In(TheSubset, t)
  BY <1>1, RunFacts DEF IInv
<1>3. UNCHANGED <<asked, step, plan, source, target>>
  BY DEF Start, Skip, Complete, Retry, Fail
<1>4. TheSubset' = TheSubset /\ In(TheSubset, t)' = In(TheSubset, t) /\ \A r : Copied(r)' = Copied(r)
  <2>1. TheSubset' = TheSubset
    BY <1>3, SameSubset
  <2> QED
    BY <1>3, <2>1 DEF In, Copied
<1>5. t \notin plan.parents[t]
  <2>1. plan.parents[t] = Parents[t]
    BY <1>1, <1>2, RunFacts
  <2>2. PICK order : IsOrder(order)
    BY <1>1, RunFacts DEF IsPlan
  <2> QED
    BY <1>1, <1>2, <2>1, <2>2, RunFacts, NoKeyToItself DEF Parents
<1>6. CASE Start(t)
  <2>1. /\ phase[t] = "waiting" /\ phase' = [phase EXCEPT ![t] = "running"]
        /\ unwritten' = [unwritten EXCEPT ![t] = In(TheSubset, t)]
        /\ \A p \in plan.parents[t] : phase[p] = "completed"
    BY <1>2, <1>6 DEF Start, MayStart
  <2>2. TableIsLoaded(t)'
    BY <1>2, <1>3, <1>4, <1>5, <2>1 DEF TableIsLoaded
  <2> QED
    BY <1>2, <1>3, <2>1, <2>2, ChangesPhase DEF OnlyOf
<1>7. CASE Skip(t)
  <2>1. phase[t] = "waiting" /\ phase' = [phase EXCEPT ![t] = "skipped"] /\ unwritten' = unwritten
    BY <1>2, <1>7 DEF Skip
  <2>2. TableIsLoaded(t)'
    BY <1>2, <1>3, <1>4, <2>1 DEF TableIsLoaded
  <2> QED
    BY <1>2, <1>3, <2>1, <2>2, ChangesPhase DEF OnlyOf
<1>8. CASE Complete(t)
  <2>1. phase[t] = "running" /\ unwritten[t] = {} /\ phase' = [phase EXCEPT ![t] = "completed"] /\ unwritten' = unwritten
    BY <1>2, <1>8 DEF Complete
  <2>2. TableIsLoaded(t)'
    BY <1>2, <1>3, <1>4, <1>5, <2>1 DEF TableIsLoaded
  <2> QED
    BY <1>2, <1>3, <2>1, <2>2, ChangesPhase DEF OnlyOf
<1>9. CASE Retry(t)
  <2>1. /\ phase[t] = "running" /\ phase' = phase /\ unwritten' = [unwritten EXCEPT ![t] = In(TheSubset, t)]
    BY <1>2, <1>9 DEF Retry
  <2>2. TableIsLoaded(t)'
    BY <1>2, <1>3, <1>4, <1>5, <2>1 DEF TableIsLoaded
  <2> QED
    BY <1>2, <1>3, <2>1, <2>2, ChangesPhase DEF OnlyOf
<1>10. CASE Fail(t)
  <2>1. phase[t] = "running" /\ phase' = [phase EXCEPT ![t] = "failed"] /\ unwritten' = [unwritten EXCEPT ![t] = {}]
    BY <1>2, <1>10 DEF Fail
  <2>2. TableIsLoaded(t)'
    BY <1>2, <1>3, <1>4, <2>1 DEF TableIsLoaded
  <2> QED
    BY <1>2, <1>3, <2>1, <2>2, ChangesPhase DEF OnlyOf
<1> QED
  BY <1>6, <1>7, <1>8, <1>9, <1>10

LEMMA UpsertInv ==
  ASSUME IInv, NEW t \in PlanTables, NEW r \in unwritten[t], Upsert(r)
  PROVE  IInv'
<1>1. Planned /\ step = "run" /\ UNCHANGED <<asked, step, plan, source, phase>>
  BY DEF Upsert, Planned
<1>2. /\ t \in Included /\ t \in Tables /\ DOMAIN phase = Tables /\ DOMAIN unwritten = Tables /\ TableIsLoaded(t)
      /\ Included \subseteq Tables
  BY <1>1, RunFacts DEF IInv
<1>3. r \in TheSubset /\ r \in source /\ r.table = t /\ phase[t] = "running"
  BY <1>1, <1>2, RunFacts, RowsOfTheSubset DEF TableIsLoaded, In
<1>4. target' = {q \in target : ~(q.table = t /\ q.id = r.id)} \cup {r} /\ unwritten' = [unwritten EXCEPT ![t] = unwritten[t] \ {r}]
  BY <1>3 DEF Upsert
<1>5. Copied(r)' /\ \A q : q.table # t /\ Copied(q) => Copied(q)'
  BY <1>4 DEF Copied
<1>6. OnlyOf(t)
  BY <1>1, <1>2, <1>4 DEF OnlyOf
<1>7. In(TheSubset, t)' = In(TheSubset, t)
  BY <1>1, SameSubset DEF In
<1>8. TableIsLoaded(t)'
  <2>1. \A q \in In(TheSubset, t) : q \in source /\ q.table = t
    BY <1>1, RunFacts, RowsOfTheSubset DEF In
  <2>2. \A q \in In(TheSubset, t) : q # r => q.id # r.id
    BY <1>3, <2>1 DEF IInv, Consistent
  <2>3. \A q \in In(TheSubset, t) : Copied(q) => Copied(q)'
    BY <1>4, <1>5, <2>2 DEF Copied
  <2> QED
    BY <1>1, <1>2, <1>3, <1>4, <1>5, <1>7, <2>3 DEF TableIsLoaded
<1>9. \A u \in Included : TableIsLoaded(u)'
  <2> SUFFICES ASSUME NEW u \in Included, u # t PROVE TableIsLoaded(u)'
    BY <1>8
  <2> QED
    BY <1>1, <1>2, <1>3, <1>5, <1>6, OtherTables
<1>10. \A q \in target' : q.table \in Included
  BY <1>2, <1>3, <1>4 DEF IInv
<1>11. DOMAIN phase' = Tables /\ DOMAIN unwritten' = Tables
  BY <1>6 DEF OnlyOf
<1> QED
  BY <1>1, <1>9, <1>10, <1>11, JobInv

-------------------------------------------------------------------------------
(* Runs and clears begin and end *)

(* Between them, the copy is all there is to look at.                      *)
LEMMA IdleInv ==
  ASSUME IInv, Planned, UNCHANGED <<asked, plan, source>>, step' = "idle",
         DOMAIN phase' = Tables, DOMAIN unwritten' = Tables, \A t \in Tables : phase'[t] = "waiting" /\ unwritten'[t] = {},
         target' \subseteq target
  PROVE  IInv'
<1>1. Consistent(source)' /\ IsPlan' /\ Planned' /\ Included' = Included
  BY SamePlan, SameRequest, SameConsistency DEF IInv, Planned
<1>2. \A r \in target' : r.table \in Included
  BY DEF IInv
<1> QED
  BY <1>1, <1>2 DEF IInv

LEMMA StartRunInv == IInv /\ StartRun => IInv'
<1> SUFFICES ASSUME IInv, StartRun PROVE IInv'
  OBVIOUS
<1>1. Planned /\ Planned' /\ step = "idle" /\ step' = "run" /\ UNCHANGED <<asked, plan, source, target, phase, unwritten, clearing>>
  BY DEF StartRun, Idle, Planned
<1>2. Consistent(source)' /\ IsPlan' /\ Included' = Included
  BY <1>1, SamePlan, SameRequest, SameConsistency DEF IInv
<1>3. Included \subseteq Tables
  BY <1>1, RunFacts
<1>4. \A t \in Included : TableIsLoaded(t)'
  BY <1>1, <1>3 DEF IInv, TableIsLoaded
<1>5. \A r \in target' : r.table \in Included
  BY <1>1 DEF IInv
<1> QED
  BY <1>1, <1>2, <1>4, <1>5 DEF IInv

LEMMA EndInv == IInv /\ (EndRun \/ EndClear) => IInv'
<1> SUFFICES ASSUME IInv, EndRun \/ EndClear PROVE IInv'
  OBVIOUS
<1>1. Planned /\ UNCHANGED <<asked, plan, source, target>> /\ step' = "idle"
  BY DEF EndRun, EndClear, Planned
<1>2. DOMAIN phase' = Tables /\ DOMAIN unwritten' = Tables /\ \A t \in Tables : phase'[t] = "waiting" /\ unwritten'[t] = {}
  BY DEF EndRun, EndClear, IInv
<1> QED
  BY <1>1, <1>2, IdleInv

(* An order to clear in has what refers to a table before it.              *)
LEMMA ClearOrderIs ==
  ASSUME asked \in Requests, NEW order \in SetToSeqs(Included), IsClearOrder(order)
  PROVE  order \in Seq(Included) /\ ToSet(order) = Included /\ IsChildrenFirst(order)
<1>1. IsFiniteSet(Included) /\ Included \subseteq Tables
  BY Traversed
<1>2. /\ order \in Seq(Included) /\ Len(order) \in Nat /\ DOMAIN order = 1..Len(order)
      /\ \A x \in Included : \E i \in DOMAIN order : order[i] = x
  BY <1>1, SetToSeqsOnto
<1>3. \A i \in DOMAIN order : order[i] \in Included
  BY <1>2
<1>4. ASSUME NEW i \in DOMAIN order, NEW j \in DOMAIN order, order[j] \in DeclaredParents[order[i]] \ {order[i]} PROVE i < j
  <2> DEFINE a == Len(order) - i + 1
             b == Len(order) - j + 1
  <2>1. a \in 1..Len(order) /\ b \in 1..Len(order) /\ Len(order) - a + 1 = i /\ Len(order) - b + 1 = j
    <3>1. Len(order) \in Nat /\ i \in 1..Len(order) /\ j \in 1..Len(order)
      BY <1>2
    <3> QED
      BY <3>1
  <2> HIDE DEF a, b
  <2>2. DOMAIN Reverse(order) = 1..Len(order) /\ Reverse(order)[a] = order[i] /\ Reverse(order)[b] = order[j]
    BY <2>1 DEF Reverse
  <2>3. order[i] \in Tables
    BY <1>1, <1>3
  <2>4. Reverse(order)[b] \in [t \in Tables |-> DeclaredParents[t] \ {t}][Reverse(order)[a]]
    BY <1>4, <2>2, <2>3
  <2>5. b < a
    BY <2>1, <2>2, <2>4 DEF IsClearOrder, IsTopologicalOrder
  <2> QED
    BY <1>2, <2>5 DEF a, b
<1> QED
  BY <1>2, <1>3, <1>4 DEF ToSet, IsChildrenFirst

(* What a clear leaves alone. *)
LEMMA ClearInv ==
  ASSUME IInv, Planned, step # "run", step' = "clear", UNCHANGED <<asked, plan, source, phase, unwritten>>,
         target' \subseteq target, Clearing'
  PROVE  IInv'
<1>1. Consistent(source)' /\ IsPlan' /\ Planned' /\ Included' = Included
  BY SamePlan, SameRequest, SameConsistency DEF IInv, Planned
<1>2. \A r \in target' : r.table \in Included
  BY DEF IInv
<1> QED
  BY <1>1, <1>2 DEF IInv

LEMMA StartClearInv == IInv /\ StartClear => IInv'
<1> SUFFICES ASSUME IInv, StartClear PROVE IInv'
  OBVIOUS
<1>1. Planned /\ step = "idle" /\ UNCHANGED <<asked, plan, source, phase, unwritten>>
  BY DEF StartClear, Idle, Planned
<1>2. /\ asked \in Requests /\ PlanTables = Included
      /\ Included' = Included /\ DeclaredParents' = DeclaredParents
  BY <1>1, RunFacts, SameRequest
<1>3. CASE asked.commitEach
  <2>1. PICK order \in SetToSeqs(Included) : IsClearOrder(order) /\ clearing' = order
    BY <1>2, <1>3 DEF StartClear
  <2>2. step' = "clear" /\ target' = target
    BY <1>3 DEF StartClear
  <2>3. clearing' \in Seq(Included) /\ ToSet(clearing') = Included /\ IsChildrenFirst(clearing')
    BY <1>2, <2>1, ClearOrderIs
  <2>4. Clearing'
    BY <1>1, <1>2, <1>3, <2>3 DEF Clearing, IsChildrenFirst, ToSet
  <2> QED
    BY <1>1, <2>2, <2>4, ClearInv
<1>4. CASE ~asked.commitEach
  <2>1. step' = "idle" /\ target' = {}
    BY <1>1, <1>2, <1>4 DEF StartClear, IInv
  <2>2. DOMAIN phase' = Tables /\ DOMAIN unwritten' = Tables /\ \A t \in Tables : phase'[t] = "waiting" /\ unwritten'[t] = {}
    BY <1>1 DEF IInv
  <2> QED
    BY <1>1, <2>1, <2>2, IdleInv
<1> QED
  BY <1>3, <1>4

(* What is cleared next, and what is left then. *)
LEMMA NextToClear ==
  ASSUME IInv, ClearTable
  PROVE  /\ Planned /\ step = "clear" /\ step' = "clear" /\ UNCHANGED <<asked, plan, source, phase, unwritten>>
         /\ Clearing /\ target' = {r \in target : r.table # Head(clearing)}
         /\ Len(clearing) \in Nat /\ DOMAIN clearing = 1..Len(clearing) /\ 1 \in DOMAIN clearing
         /\ Head(clearing) = clearing[1]
         /\ clearing' \in Seq(Included) /\ DOMAIN clearing' = 1..(Len(clearing) - 1)
         /\ \A i \in DOMAIN clearing' : clearing'[i] = clearing[i + 1] /\ i + 1 \in DOMAIN clearing
<1>1. Planned /\ step = "clear" /\ step' = "clear" /\ UNCHANGED <<asked, plan, source, phase, unwritten>>
  BY DEF ClearTable, Planned
<1>2. clearing # <<>> /\ clearing' = Tail(clearing) /\ target' = {r \in target : r.table # Head(clearing)}
  BY DEF ClearTable
<1>3. Clearing /\ clearing \in Seq(Included)
  BY <1>1 DEF IInv, Clearing
<1> QED
  BY <1>1, <1>2, <1>3

LEMMA ClearTableInv == IInv /\ ClearTable => IInv'
<1> SUFFICES ASSUME IInv, ClearTable PROVE IInv'
  OBVIOUS
<1> DEFINE h == Head(clearing)
<1>1. Planned /\ step = "clear" /\ step' = "clear" /\ UNCHANGED <<asked, plan, source, phase, unwritten>>
  BY NextToClear
<1>2. Included' = Included /\ DeclaredParents' = DeclaredParents
  BY <1>1, SameRequest
<1>3. Clearing /\ target' = {r \in target : r.table # h}
  BY NextToClear
<1>4. /\ Len(clearing) \in Nat /\ DOMAIN clearing = 1..Len(clearing) /\ 1 \in DOMAIN clearing /\ h = clearing[1]
      /\ clearing' \in Seq(Included) /\ DOMAIN clearing' = 1..(Len(clearing) - 1)
      /\ \A i \in DOMAIN clearing' : clearing'[i] = clearing[i + 1] /\ i + 1 \in DOMAIN clearing
  BY NextToClear
<1> HIDE DEF h
<1>5. ToSet(clearing) \subseteq {h} \cup ToSet(clearing')
  <2> SUFFICES ASSUME NEW i \in DOMAIN clearing, i # 1 PROVE clearing[i] \in ToSet(clearing')
    BY <1>4 DEF ToSet
  <2>1. i - 1 \in DOMAIN clearing' /\ (i - 1) + 1 = i
    BY <1>4
  <2>2. clearing'[i - 1] = clearing[i]
    BY <1>4, <2>1
  <2> QED
    BY <2>1, <2>2 DEF ToSet
<1>6. IsChildrenFirst(clearing')
  <2> SUFFICES ASSUME NEW i \in DOMAIN clearing', NEW j \in DOMAIN clearing',
                      clearing'[j] \in DeclaredParents[clearing'[i]] \ {clearing'[i]}
               PROVE  i < j
    BY DEF IsChildrenFirst
  <2>1. i + 1 < j + 1
    BY <1>3, <1>4 DEF Clearing, IsChildrenFirst
  <2> QED
    BY <1>4, <2>1
<1>7. \A p \in Included \ ToSet(clearing') : \A r \in target' : r.table # p
  BY <1>3, <1>5 DEF Clearing, In
<1>8. Clearing'
  BY <1>1, <1>2, <1>3, <1>4, <1>6, <1>7 DEF Clearing, IsChildrenFirst, In, ToSet
<1> QED
  BY <1>1, <1>3, <1>8, ClearInv

-------------------------------------------------------------------------------
(* Every step *)

LEMMA StutterInv == IInv /\ UNCHANGED vars => IInv'
<1> SUFFICES ASSUME IInv, UNCHANGED vars PROVE IInv'
  OBVIOUS
<1> USE DEF vars
<1>1. /\ IsPlan' = IsPlan /\ TheSubset' = TheSubset /\ Included' = Included /\ DeclaredParents' = DeclaredParents
      /\ Consistent(source)' = Consistent(source)
  BY SamePlan, SameSubset, SameRequest, SameConsistency
<1>2. Clearing' = Clearing
  BY <1>1 DEF Clearing, IsChildrenFirst, In, ToSet
<1>3. \A t : TableIsLoaded(t)' = TableIsLoaded(t)
  BY <1>1 DEF TableIsLoaded, In, Copied
<1> QED
  BY <1>1, <1>2, <1>3 DEF IInv, Planned

LEMMA StepInv == IInv /\ [Next]_vars => IInv'
<1> SUFFICES ASSUME IInv, [Next]_vars PROVE IInv'
  OBVIOUS
<1>1. ASSUME NEW t \in Related, Write(t) PROVE IInv'
  <2>1. Consistent(source)'
    BY <1>1, SameRequest DEF Write, Consistent, Refers, Referenced
  <2> QED
    BY <1>1, <2>1, SourceInv DEF Write
<1>2. ASSUME NEW r \in source, Delete(r) PROVE IInv'
  <2>1. Consistent(source)'
    BY <1>2, SameRequest DEF Delete, Consistent, Refers, Referenced
  <2> QED
    BY <1>2, <2>1, SourceInv DEF Delete
<1>3. ASSUME NEW t \in PlanTables, Start(t) \/ Skip(t) \/ Complete(t) \/ Retry(t) \/ Fail(t) PROVE IInv'
  <2>1. step = "run"
    BY <1>3 DEF Start, Skip, Complete, Retry, Fail
  <2> QED
    BY <1>3, <2>1, JobSteps
<1>4. ASSUME NEW t \in PlanTables, NEW r \in unwritten[t], Upsert(r) PROVE IInv'
  BY <1>4, UpsertInv
<1>5. CASE UNCHANGED vars
  BY <1>5, StutterInv
<1> QED
  BY <1>1, <1>2, <1>3, <1>4, <1>5, PlanSubsetInv, StartRunInv, EndInv, StartClearInv, ClearTableInv DEF Next

-------------------------------------------------------------------------------
(* The theorems *)

(* For any request, source, runs and clears: what is planned is a plan, and*)
(* the copy has, of each table, what the jobs that are over loaded.        *)
THEOREM Invariance == Spec => []IInv
<1>1. Init => IInv
  BY InitInv
<1>2. IInv /\ [Next]_vars => IInv'
  BY StepInv
<1> QED
  BY <1>1, <1>2, PTL DEF Spec

(* The planned queries return the root's rows that the filter is true of,  *)
(* with all that reference them and all that those reference, each row     *)
(* once: of every schema whose followed keys have no cycle, through keys   *)
(* repeated and tables reached both ways, with branches and without.       *)
THEOREM QueriesAreExact == Spec => []QueriesAreTheSubset
<1>1. IInv => QueriesAreTheSubset
  <2> SUFFICES ASSUME IInv, step = "idle" PROVE QueriesAreTheSubset
    BY DEF QueriesAreTheSubset
  <2>1. asked \in Requests /\ IsPlan /\ PlanTables = Included
    BY RunFacts DEF Planned
  <2>2. \A r \in TheSubset : r.table \in PlanTables
    BY <2>1, RowsOfTheSubset
  <2>3. \A t \in PlanTables : \A r \in In(source, t) :
          Times(KeptDefinition(t).conditions, r, Values(plan.queries[t])) = IF r \in TheSubset THEN 1 ELSE 0
    BY <2>1, QueriesReturnTheSubset
  <2> QED
    BY <2>2, <2>3 DEF QueriesAreTheSubset
<1> QED
  BY <1>1, Invariance, PTL

-------------------------------------------------------------------------------
(* What a row of the copy refers to *)

(* A row is loaded after those it refers to: the jobs of their tables are  *)
(* over, and what it refers to in the source is in the subset with it.     *)
LEMMA LoadedAfterReferenced ==
  ASSUME IInv, NEW r, r.table \in Included, Upsert(r), NEW k \in ParentKeys(r.table), r.refs[k] # None
  PROVE  \E p \in target' : Refers(r, k, p)
<1>1. Planned /\ step = "run" /\ r \in unwritten[r.table]
  BY DEF Upsert, Planned
<1>2. r.table \in Tables /\ TableIsLoaded(r.table)
  BY <1>1, RunFacts DEF IInv
<1>3. r \in TheSubset /\ r \in source /\ phase[r.table] = "running"
  BY <1>1, <1>2, RunFacts, RowsOfTheSubset DEF TableIsLoaded, In
<1>4. k \in KeysOf(r.table) /\ k.referencedTable \in Parents[r.table] /\ k.table = r.table
  BY <1>2 DEF ParentKeys, KeysOf, Followed, Parents
<1>5. PICK p \in source : Refers(r, k, p)
  BY <1>3, <1>4 DEF IInv, Consistent
<1>6. p \in In(TheSubset, k.referencedTable)
  <2>1. p \in TheSubset
    BY <1>1, <1>3, <1>5, RunFacts, RowsOfTheSubset
  <2> QED
    BY <1>5, <2>1 DEF Refers, In
<1>7. k.referencedTable \in Included /\ phase[k.referencedTable] = "completed"
  BY <1>1, <1>2, <1>3, <1>4, RunFacts DEF TableIsLoaded
<1>8. p \in target
  BY <1>1, <1>6, <1>7 DEF IInv, TableIsLoaded, Copied
<1>9. p.table # r.table
  BY <1>3, <1>5, <1>7 DEF Refers
<1> QED
  BY <1>5, <1>8, <1>9 DEF Upsert

(* A row that a row of the copy refers to is replaced by one it does not   *)
(* refer to only when that has another UNIQUE value.                       *)
LEMMA ReplacedOnlyRewritten ==
  ASSUME NEW r, Upsert(r), NEW k, NEW q, NEW p \in target, Refers(q, k, p), ~\E o \in target' : Refers(q, k, o)
  PROVE  Rewrites(k, p)
<1>1. r \in target' /\ p \notin target' /\ ~Refers(q, k, r)
  BY DEF Upsert
<1>2. r.table = p.table /\ r.id = p.id
  BY <1>1 DEF Upsert
<1>3. Referenced(k, r) # Referenced(k, p)
  BY <1>1, <1>2 DEF Refers
<1>4. k.referencedColumn # PrimaryKey
  BY <1>2, <1>3 DEF Referenced
<1> QED
  BY <1>1, <1>2, <1>3, <1>4 DEF Rewrites

(* A row that the copy's own keys have refer to one that is cleared was    *)
(* cleared before it.                                                      *)
LEMMA ClearedAfterReferring ==
  ASSUME IInv, ClearTable, NEW k \in Followed, NEW q \in target', q.table = k.table,
         NEW p \in target, Refers(q, k, p), p \notin target'
  PROVE  k \notin asked.declared
<1> SUFFICES ASSUME k \in asked.declared PROVE FALSE
  OBVIOUS
<1> DEFINE h == Head(clearing)
<1>1. /\ Planned /\ Clearing /\ target' = {r \in target : r.table # h}
      /\ Len(clearing) \in Nat /\ DOMAIN clearing = 1..Len(clearing) /\ 1 \in DOMAIN clearing /\ h = clearing[1]
  BY NextToClear
<1> HIDE DEF h
<1>2. p.table = h /\ q \in target /\ q.table # h
  BY <1>1
<1>3. q.table \in Included /\ q.table \in Tables
  BY <1>1, <1>2, RunFacts DEF IInv
<1>4. h \in DeclaredParents[q.table]
  BY <1>2, <1>3 DEF DeclaredParents, Refers
<1>5. PICK i \in DOMAIN clearing : clearing[i] = q.table
  BY <1>1, <1>2, <1>3 DEF Clearing, In, ToSet
<1>6. i < 1
  BY <1>1, <1>2, <1>4, <1>5 DEF Clearing, IsChildrenFirst
<1> QED
  BY <1>1, <1>5, <1>6

(* What a step makes of a row that points at nothing after it.             *)
MayDangle(k, r) ==
  /\ ~Upsert(r)
  /\ \/ r \in Orphans(k)
     \/ \E p \in target : Refers(r, k, p) /\ (Rewrites(k, p) \/ (ClearTable /\ k \notin asked.declared))

LEMMA StepDangles ==
  ASSUME IInv, IInv', Next, NEW k \in Followed, NEW r \in Orphans(k)'
  PROVE  MayDangle(k, r)
<1>1. asked' = asked
  BY DEF Next, PlanSubset, Write, Delete, StartRun, Start, Skip, Complete, Retry, Fail, Upsert, EndRun, StartClear, ClearTable, EndClear
<1>2. /\ r \in target' /\ r.table = k.table /\ r.refs[k] # None
      /\ ~\E p \in target' : Refers(r, k, p)
  BY DEF Orphans, In, Refers, Referenced
<1>3. r.table \in Included /\ k \in ParentKeys(r.table)
  BY <1>1, <1>2, SameRequest DEF IInv, ParentKeys
<1>4. ~Upsert(r)
  BY <1>2, <1>3, LoadedAfterReferenced
<1>5. ASSUME r \in target, NEW p \in target, Refers(r, k, p), ~Rewrites(k, p) PROVE ClearTable /\ k \notin asked.declared
  <2>1. p \notin target'
    BY <1>2, <1>5
  <2>2. CASE \E u : Upsert(u)
    BY <1>2, <1>5, <2>2, ReplacedOnlyRewritten
  <2>3. CASE StartClear
    <3>1. target' = target \/ target' = {q \in target : q.table \notin PlanTables}
      BY <2>3 DEF StartClear
    <3>2. PlanTables = Included
      BY <2>3, RunFacts DEF StartClear, Idle, Planned
    <3> QED
      BY <1>2, <1>3, <2>1, <3>1, <3>2
  <2>4. CASE ClearTable
    BY <1>2, <1>5, <2>1, <2>4, ClearedAfterReferring
  <2>5. CASE target' = target
    BY <2>1, <2>5
  <2> QED
    BY <2>2, <2>3, <2>4, <2>5
       DEF Next, PlanSubset, Write, Delete, StartRun, Start, Skip, Complete, Retry, Fail, EndRun, EndClear
<1>6. r \in target
  <2>1. CASE \E u : Upsert(u)
    BY <1>2, <1>4, <2>1 DEF Upsert
  <2>2. CASE ~\E u : Upsert(u)
    BY <1>2, <2>2
       DEF Next, PlanSubset, Write, Delete, StartRun, Start, Skip, Complete, Retry, Fail, EndRun, StartClear, ClearTable, EndClear
  <2> QED
    BY <2>1, <2>2
<1>7. r \in Orphans(k) \/ \E p \in target : Refers(r, k, p)
  BY <1>2, <1>6 DEF Orphans, In
<1> QED
  BY <1>4, <1>5, <1>6, <1>7 DEF MayDangle

(* No row is loaded that points at nothing, and none of the copy comes to  *)
(* point at nothing: while the jobs of several tables load beside each     *)
(* other, after some fail and others are skipped, when a run or a clear is *)
(* cut short, and over whatever earlier runs left; but where a UNIQUE value*)
(* is rewritten under it, or a clear that commits each table knows nothing *)
(* of its key.                                                             *)
THEOREM NothingEverDangles == Spec => NothingDangles
<1> DEFINE A == \A k \in Followed : \A r \in Orphans(k)' : MayDangle(k, r)
<1>1. IInv /\ IInv' /\ [Next]_vars => [A]_vars
  BY StepDangles
<1>2. IInv /\ [Next]_vars => IInv'
  BY StepInv
<1> QED
  BY <1>1, <1>2, Invariance, PTL DEF Spec, NothingDangles, MayDangle

(* What is always referred to: by the primary key, and under a key of the  *)
(* copy's own or where a clear is one transaction.                         *)
KeptKeysHold ==
  \A k \in Followed :
    k.referencedColumn = PrimaryKey /\ (k \in asked.declared \/ ~asked.commitEach) => Orphans(k) = {}

(* At no moment does a row of the copy point at nothing by a followed key  *)
(* to a primary key, when the copy declares it or is cleared in one        *)
(* transaction: whatever the source becomes between runs, and wherever a   *)
(* run or a clear was cut short.                                           *)
THEOREM NoOrphansByPrimaryKey == Spec => []KeptKeysHold
<1> DEFINE A == \A k \in Followed : \A r \in Orphans(k)' : MayDangle(k, r)
<1>1. IInv /\ IInv' /\ [Next]_vars => [A]_vars
  BY StepDangles
<1>2. Init => KeptKeysHold
  BY DEF Init, KeptKeysHold, Orphans, In
<1>3. IInv /\ KeptKeysHold /\ [Next]_vars /\ [A]_vars => KeptKeysHold'
  <2> SUFFICES ASSUME IInv, KeptKeysHold, [Next]_vars, [A]_vars PROVE KeptKeysHold'
    OBVIOUS
  <2>1. CASE UNCHANGED vars
    <3>1. Followed' = Followed /\ \A k : Orphans(k)' = Orphans(k)
      BY <2>1 DEF vars, Followed, Orphans, In, Refers, Referenced
    <3> QED
      BY <2>1, <3>1 DEF KeptKeysHold, vars
  <2>2. CASE Next /\ A
    <3>1. asked' = asked
      BY <2>2 DEF Next, PlanSubset, Write, Delete, StartRun, Start, Skip, Complete, Retry, Fail, Upsert, EndRun, StartClear, ClearTable, EndClear
    <3> SUFFICES ASSUME NEW k \in Followed, k.referencedColumn = PrimaryKey, k \in asked.declared \/ ~asked.commitEach,
                        NEW r \in Orphans(k)'
                 PROVE  FALSE
      BY <3>1, SameRequest DEF KeptKeysHold
    <3>2. MayDangle(k, r) /\ Orphans(k) = {}
      BY <2>2 DEF KeptKeysHold
    <3>3. ClearTable /\ ~asked.commitEach
      BY <3>2 DEF MayDangle, Rewrites
    <3> QED
      BY <3>3 DEF ClearTable, IInv, Clearing
  <2> QED
    BY <2>1, <2>2
<1> QED
  BY <1>1, <1>2, <1>3, Invariance, PTL DEF Spec

-------------------------------------------------------------------------------
(* There is an order unless there is a cycle *)

(* Of any of the tables one refers to none of them: else, going from each  *)
(* to one it refers to, ever fewer could be reached.                       *)
LEMMA SomeTableIsReady ==
  ASSUME asked \in Requests, ~HasCycle, NEW R, R \subseteq Included, R # {}
  PROVE  \E t \in R : Parents[t] \cap R = {}
<1> DEFINE Above(t) == Reach(Parents, Parents[t])
<1>1. /\ Included \subseteq Tables /\ IsFiniteSet(Tables) /\ DOMAIN Parents = Tables
      /\ \A x \in DOMAIN Parents : Parents[x] \subseteq DOMAIN Parents
  BY Traversed, Keys
<1>2. ASSUME NEW t \in Tables
      PROVE  /\ Parents[t] \subseteq Above(t) /\ Above(t) \subseteq Tables /\ \A x \in Above(t) : Parents[x] \subseteq Above(t)
             /\ IsFiniteSet(Above(t)) /\ Cardinality(Above(t)) \in Nat
  <2>1. /\ Parents[t] \subseteq Above(t) /\ Above(t) \subseteq Tables /\ \A x \in Above(t) : Parents[x] \subseteq Above(t)
    BY <1>1, ReachIsClosed
  <2>2. IsFiniteSet(Above(t))
    BY <1>1, <2>1, FS_Subset
  <2> QED
    BY <2>1, <2>2, FS_CardinalityType
<1>3. \A t \in Included : t \notin Above(t)
  BY DEF HasCycle
<1> SUFFICES ASSUME \A t \in R : Parents[t] \cap R # {} PROVE FALSE
  OBVIOUS
<1> DEFINE Sizes == {Cardinality(Above(t)) : t \in R}
<1>4. Sizes \subseteq Nat /\ Sizes # {}
  BY <1>1, <1>2
<1>5. PICK t \in R : \A u \in R : Cardinality(Above(t)) <= Cardinality(Above(u))
  <2> HIDE DEF Sizes
  <2>1. PICK n \in Sizes : \A m \in Sizes : n <= m
    BY <1>4, LeastOfNaturals
  <2> QED
    BY <2>1 DEF Sizes
<1>6. PICK p \in R : p \in Parents[t]
  OBVIOUS
<1>7. p \in Above(t) /\ p \notin Above(p)
  BY <1>1, <1>2, <1>3, <1>6
<1>8. Above(p) \subseteq Above(t)
  <2>1. Parents[p] \subseteq Above(t) /\ Above(t) \subseteq DOMAIN Parents /\ \A x \in Above(t) : Parents[x] \subseteq Above(t)
    BY <1>1, <1>2, <1>7
  <2> QED
    BY <2>1, ReachIsLeast
<1>9. IsFiniteSet(Above(t)) /\ Cardinality(Above(t)) \in Nat /\ Cardinality(Above(p)) \in Nat /\ Cardinality(Above(t)) <= Cardinality(Above(p))
  BY <1>1, <1>2, <1>5
<1> HIDE DEF Above
<1>10. Cardinality(Above(p)) <= Cardinality(Above(t)) /\ (Cardinality(Above(t)) = Cardinality(Above(p)) => Above(t) = Above(p))
  BY <1>8, <1>9, FS_Subset
<1> QED
  BY <1>7, <1>9, <1>10

(* The first n tables of an order. *)
Begins(f, n) ==
  /\ f \in [1..n -> Included] /\ \A i, j \in 1..n : f[i] = f[j] => i = j
  /\ \A i \in 1..n : \A p \in Parents[f[i]] : \E j \in 1..(i - 1) : f[j] = p

LEMMA OrderBegins ==
  ASSUME asked \in Requests, ~HasCycle, NEW n \in Nat, n <= Cardinality(Included)
  PROVE  \E f : Begins(f, n)
<1> DEFINE N == Cardinality(Included)
           S == {m \in 0..N : ~\E f : Begins(f, m)}
<1>1. N \in Nat /\ IsFiniteSet(Included)
  BY Traversed, FS_CardinalityType
<1> HIDE DEF N
<1>2. ASSUME S # {} PROVE FALSE
  <2>1. PICK m \in S : \A k \in S : m <= k
    <3>1. S \subseteq Nat
      BY <1>1
    <3> HIDE DEF S
    <3> QED
      BY <1>2, <3>1, LeastOfNaturals
  <2>2. m \in 0..N /\ m \in Nat /\ ~\E f : Begins(f, m)
    BY <1>1, <2>1
  <2>3. CASE m = 0
    <3>1. Begins([i \in 1..0 |-> Root], 0)
      BY DEF Begins
    <3> QED
      BY <2>2, <2>3, <3>1
  <2>4. CASE m # 0
    <3>1. m - 1 \in 0..N /\ m - 1 \in Nat /\ ~(m <= m - 1) /\ m <= N
      BY <1>1, <2>2, <2>4
    <3>2. PICK f : Begins(f, m - 1)
      <4>1. m - 1 \notin S
        <5> HIDE DEF S
        <5> QED
          BY <2>1, <3>1
      <4> QED
        BY <3>1, <4>1
    <3> DEFINE R == Included \ {f[i] : i \in 1..(m - 1)}
    <3>3. R # {}
      <4> SUFFICES ASSUME R = {} PROVE FALSE
        OBVIOUS
      <4>1. f \in Surjection(1..(m - 1), Included)
        BY <3>2 DEF Surjection, Begins
      <4>2. N <= m - 1
        BY <3>1, <4>1, FS_SurjCardinalityBound DEF ExistsSurjection, N
      <4> QED
        BY <1>1, <2>2, <3>1, <4>2
    <3>4. PICK t \in R : Parents[t] \cap R = {}
      BY <3>3, SomeTableIsReady
    <3>5. /\ t \in Included /\ \A i \in 1..(m - 1) : f[i] # t
          /\ \A p \in Parents[t] : \E j \in 1..(m - 1) : f[j] = p
      BY <3>4, Traversed
    <3> HIDE DEF R
    <3> DEFINE g == [i \in 1..m |-> IF i = m THEN t ELSE f[i]]
    <3>6. m \in 1..m /\ 1..(m - 1) \subseteq 1..m /\ \A i \in 1..m : i # m => i \in 1..(m - 1) /\ i - 1 < m
      BY <2>2, <2>4
    <3>7. g \in [1..m -> Included] /\ g[m] = t /\ \A i \in 1..(m - 1) : g[i] = f[i]
      <4>1. f \in [1..(m - 1) -> Included] /\ \A i \in 1..(m - 1) : i # m
        BY <3>1, <3>2 DEF Begins
      <4> QED
        BY <3>5, <3>6, <4>1
    <3> HIDE DEF g
    <3>8. \A i, j \in 1..m : g[i] = g[j] => i = j
      BY <3>2, <3>5, <3>6, <3>7 DEF Begins
    <3>9. \A i \in 1..m : \A p \in Parents[g[i]] : \E j \in 1..(i - 1) : g[j] = p
      <4> SUFFICES ASSUME NEW i \in 1..m, NEW p \in Parents[g[i]] PROVE \E j \in 1..(i - 1) : g[j] = p
        OBVIOUS
      <4>1. CASE i = m
        BY <3>5, <3>7, <4>1
      <4>2. CASE i # m
        <5>1. i \in 1..(m - 1) /\ g[i] = f[i]
          BY <3>6, <3>7, <4>2
        <5>2. PICK j \in 1..(i - 1) : f[j] = p
          BY <3>2, <5>1 DEF Begins
        <5>3. j \in 1..(m - 1)
          BY <2>2, <5>1, <5>2
        <5> QED
          BY <3>7, <5>2, <5>3
      <4> QED
        BY <4>1, <4>2
    <3> QED
      BY <2>2, <3>7, <3>8, <3>9 DEF Begins
  <2> QED
    BY <2>3, <2>4
<1>3. n \in 0..N
  BY <1>1 DEF N
<1> QED
  BY <1>2, <1>3

LEMMA OrderUnlessCycle ==
  ASSUME asked \in Requests
  PROVE  HasCycle <=> ~\E order : IsOrder(order)
<1>1. ASSUME ~HasCycle PROVE \E order : IsOrder(order)
  <2> DEFINE N == Cardinality(Included)
  <2>1. N \in Nat
    BY Traversed, FS_CardinalityType
  <2>2. PICK f : Begins(f, N)
    BY <1>1, <2>1, OrderBegins
  <2>3. f \in SetToSeqs(Included) /\ DOMAIN f = 1..N
    BY <2>2 DEF SetToSeqs, Begins
  <2> HIDE DEF N
  <2>4. ASSUME NEW i \in 1..N, NEW j \in 1..N, f[j] \in Parents[f[i]] PROVE j < i
    <3>1. PICK k \in 1..(i - 1) : f[k] = f[j]
      BY <2>2, <2>4 DEF Begins
    <3>2. k \in 1..N /\ k < i
      BY <2>1, <3>1
    <3>3. k = j
      BY <2>2, <3>1, <3>2 DEF Begins
    <3> QED
      BY <3>2, <3>3
  <2> QED
    BY <2>3, <2>4 DEF IsOrder, IsTopologicalOrder
<1>2. ASSUME NEW order, IsOrder(order), NEW t \in Included, t \in Reach(Parents, Parents[t]) PROVE FALSE
  <2>1. PICK i \in DOMAIN order : order[i] = t
    BY <1>2, Places
  <2> DEFINE T == {x \in Included : \E j \in DOMAIN order : order[j] = x /\ j < i}
  <2>2. DOMAIN order \subseteq Nat
    BY <1>2, Places
  <2>3. ASSUME NEW x \in T \cup {t}, NEW p \in Parents[x] PROVE p \in T
    <3>1. PICK j \in DOMAIN order : order[j] = x /\ j <= i
      BY <2>1, <2>2
    <3>2. p \in Included
      BY <2>3, Traversed
    <3>3. PICK k \in DOMAIN order : order[k] = p
      BY <1>2, <3>2, Places
    <3>4. k < j
      BY <1>2, <3>1, <3>3, Places
    <3>5. k < i
      BY <2>2, <3>1, <3>4
    <3> QED
      BY <3>2, <3>3, <3>5
  <2>4. t \notin T
    BY <1>2, <2>1, <2>2, Places
  <2>5. T \subseteq DOMAIN Parents
    BY Traversed DEF Parents
  <2> HIDE DEF T
  <2>6. Reach(Parents, Parents[t]) \subseteq T
    BY <2>3, <2>5, ReachIsLeast
  <2> QED
    BY <1>2, <2>4, <2>6
<1> QED
  BY <1>1, <1>2 DEF HasCycle

(* A plan's order, reversed, is one to clear in when the copy declares no  *)
(* key but what is followed.                                               *)
LEMMA ClearOrderExists ==
  ASSUME asked \in Requests, IsPlan, asked.declared \subseteq Followed
  PROVE  \E order \in SetToSeqs(PlanTables) : IsClearOrder(order)
<1> DEFINE tables == plan.tables
           order == Reverse(tables)
<1>1. /\ IsOrder(tables) /\ PlanTables = Included
      /\ Len(tables) \in Nat /\ DOMAIN tables = 1..Len(tables)
      /\ \A i \in DOMAIN tables : tables[i] \in Included /\ tables[i] \in Tables
      /\ \A i, j \in DOMAIN tables : tables[i] = tables[j] => i = j
      /\ \A i, j \in DOMAIN tables : tables[j] \in Parents[tables[i]] => j < i
  BY PlanIs, Places
<1>2. Len(tables) = Cardinality(Included) /\ tables \in Seq(Included)
  BY <1>1, Traversed, SetToSeqsOnto DEF IsOrder
<1> HIDE DEF tables
<1> DEFINE n == Len(tables)
<1>3. \A i \in 1..n : n - i + 1 \in 1..n /\ n - (n - i + 1) + 1 = i
  BY <1>1
<1>4. DOMAIN order = 1..n /\ \A i \in 1..n : order[i] = tables[n - i + 1]
  BY DEF Reverse
<1>5. order \in [1..n -> Included] /\ Len(order) = n
  <2>1. order = [i \in 1..n |-> tables[n - i + 1]]
    BY DEF Reverse
  <2> HIDE DEF order
  <2>2. order \in [1..n -> Included]
    BY <1>1, <1>3, <2>1
  <2> QED
    BY <1>1, <2>2
<1> HIDE DEF order
<1>6. \A i, j \in 1..n : i # j => order[i] # order[j]
  <2> SUFFICES ASSUME NEW i \in 1..n, NEW j \in 1..n, order[i] = order[j] PROVE i = j
    OBVIOUS
  <2>1. n - i + 1 = n - j + 1
    BY <1>1, <1>3, <1>4
  <2> QED
    BY <1>1, <2>1
<1>7. order \in SetToSeqs(Included)
  BY <1>2, <1>5, <1>6 DEF SetToSeqs
<1>8. Reverse(order) = [i \in 1..n |-> tables[i]]
  <2>1. Reverse(order) = [i \in 1..n |-> order[n - i + 1]]
    BY <1>5 DEF Reverse
  <2> QED
    BY <1>3, <1>4, <2>1
<1>9. IsClearOrder(order)
  <2> SUFFICES ASSUME NEW i \in 1..n, NEW j \in 1..n, tables[j] \in DeclaredParents[tables[i]] \ {tables[i]} PROVE j < i
    BY <1>1, <1>8 DEF IsClearOrder, IsTopologicalOrder
  <2>1. DeclaredParents[tables[i]] \subseteq Parents[tables[i]]
    BY <1>1 DEF DeclaredParents, Parents, ParentKeys
  <2> QED
    BY <1>1, <2>1
<1> QED
  BY <1>1, <1>7, <1>9

(* A subset is refused for a cycle if and only if no order of its tables   *)
(* puts each after those it references, so that whatever is not refused is *)
(* put in an order; and a plan's tables can be cleared, orderParentsFirst  *)
(* does not raise for them, when the copy declares no key that was ignored.*)
OrderedUnlessCyclic ==
  /\ HasCycle <=> ~\E order \in SetToSeqs(Included) : IsTopologicalOrder(order, Parents)
  /\ Planned /\ asked.declared \subseteq Followed => \E order \in SetToSeqs(PlanTables) : IsClearOrder(order)

THEOREM AnOrderExists == Spec => []OrderedUnlessCyclic
<1>1. IInv => OrderedUnlessCyclic
  <2> SUFFICES ASSUME IInv PROVE OrderedUnlessCyclic
    OBVIOUS
  <2>1. asked \in Requests /\ (Planned => IsPlan)
    BY DEF IInv
  <2> QED
    BY <2>1, OrderUnlessCycle, ClearOrderExists DEF OrderedUnlessCyclic, IsOrder
<1> QED
  BY <1>1, Invariance, PTL

-------------------------------------------------------------------------------
(* How deep a plan is *)

(* Each selection names only selections of the query that come before it.  *)
Descends(edges, place, last) ==
  /\ last \in Nat
  /\ \A s \in DOMAIN edges : place[s] \in 1..last /\ \A d \in edges[s] : d \in DOMAIN edges /\ place[d] < place[s]

DepthOf(edges, f, s) == 1 + Max({0} \cup {f[d] : d \in edges[s]})

LEMMA GreatestOfBounded ==
  ASSUME NEW S, S \subseteq Nat, S # {}, NEW b \in Nat, \A x \in S : x <= b
  PROVE  Max(S) \in S /\ \A y \in S : y <= Max(S)
<1> DEFINE T == {b - x : x \in S}
<1>1. T \subseteq Nat /\ T # {}
  <2>1. \A x \in S : b - x \in Nat
    <3> SUFFICES ASSUME NEW x \in S PROVE b - x \in Nat
      OBVIOUS
    <3>1. x \in Nat /\ x <= b
      OBVIOUS
    <3> QED
      BY <3>1
  <2>2. T \subseteq Nat
    BY <2>1
  <2>3. PICK x \in S : TRUE
    OBVIOUS
  <2>4. b - x \in T
    OBVIOUS
  <2> QED
    BY <2>2, <2>4
<1>2. PICK z \in T : \A y \in T : z <= y
  <2> HIDE DEF T
  <2> QED
    BY <1>1, LeastOfNaturals
<1>3. PICK x \in S : z = b - x
  BY <1>2
<1>4. \A y \in S : x >= y
  <2> SUFFICES ASSUME NEW y \in S PROVE x >= y
    OBVIOUS
  <2>1. b - y \in T
    OBVIOUS
  <2>2. b - x <= b - y
    BY <1>2, <1>3, <2>1
  <2> QED
    BY <2>2
<1>5. Max(S) \in S /\ \A y \in S : Max(S) >= y
  BY <1>4 DEF Max
<1> QED
  BY <1>5

(* A depth is one more than the greatest of those named, if any is.        *)
LEMMA DepthIsOneMore ==
  ASSUME NEW edges, NEW f, NEW s, NEW b \in Nat, \A d \in edges[s] : f[d] \in 1..b
  PROVE  /\ DepthOf(edges, f, s) \in 1..(b + 1)
         /\ \A d \in edges[s] : f[d] + 1 <= DepthOf(edges, f, s)
         /\ DepthOf(edges, f, s) = 1 \/ \E d \in edges[s] : DepthOf(edges, f, s) = f[d] + 1
<1> DEFINE S == {0} \cup {f[d] : d \in edges[s]}
<1>1. S \subseteq Nat /\ S # {} /\ \A x \in S : x <= b
  OBVIOUS
<1>2. \A d \in edges[s] : f[d] \in S
  OBVIOUS
<1>3. \A x \in S : x = 0 \/ \E d \in edges[s] : x = f[d]
  OBVIOUS
<1>4. DepthOf(edges, f, s) = 1 + Max(S)
  BY DEF DepthOf
<1> HIDE DEF S
<1>5. Max(S) \in S /\ \A y \in S : y <= Max(S)
  BY <1>1, GreatestOfBounded
<1> DEFINE greatest == Max(S)
<1>6. greatest \in S /\ (\A y \in S : y <= greatest) /\ DepthOf(edges, f, s) = 1 + greatest
  BY <1>4, <1>5
<1> HIDE DEF greatest
<1>7. greatest \in Nat /\ greatest <= b
  BY <1>1, <1>6
<1>8. DepthOf(edges, f, s) \in 1..(b + 1)
  BY <1>6, <1>7
<1>9. ASSUME NEW d \in edges[s] PROVE f[d] + 1 <= DepthOf(edges, f, s)
  <2>1. f[d] <= greatest /\ f[d] \in Nat
    BY <1>2, <1>6
  <2> QED
    BY <1>6, <1>7, <2>1
<1>10. DepthOf(edges, f, s) = 1 \/ \E d \in edges[s] : DepthOf(edges, f, s) = f[d] + 1
  <2>1. CASE greatest = 0
    BY <1>6, <2>1
  <2>2. CASE greatest # 0
    <3>1. PICK d \in edges[s] : greatest = f[d]
      BY <1>3, <1>6, <2>2
    <3>2. 1 + greatest = f[d] + 1
      BY <1>7, <3>1
    <3> QED
      BY <1>6, <3>2
  <2> QED
    BY <2>1, <2>2
<1> QED
  BY <1>8, <1>9, <1>10

LEMMA SomeDepth ==
  ASSUME NEW edges, NEW place, NEW last, Descends(edges, place, last), NEW n \in Nat
  PROVE  \E f : /\ DOMAIN f = DOMAIN edges
                /\ \A s \in DOMAIN edges : place[s] <= n => f[s] = DepthOf(edges, f, s) /\ f[s] \in 1..place[s]
<1> DEFINE Upto(m) == \E f : /\ DOMAIN f = DOMAIN edges
                             /\ \A s \in DOMAIN edges : place[s] <= m => f[s] = DepthOf(edges, f, s) /\ f[s] \in 1..place[s]
           S == {m \in Nat : ~Upto(m)}
<1> SUFFICES ASSUME S # {} PROVE FALSE
  OBVIOUS
<1>1. PICK m \in S : \A y \in S : m <= y
  <2>1. S \subseteq Nat
    OBVIOUS
  <2> HIDE DEF S
  <2> QED
    BY <2>1, LeastOfNaturals
<1>2. m \in Nat /\ ~Upto(m)
  BY <1>1
<1>3. m # 0
  <2> SUFFICES ASSUME m = 0 PROVE FALSE
    OBVIOUS
  <2> DEFINE f == [s \in DOMAIN edges |-> 0]
  <2>1. DOMAIN f = DOMAIN edges /\ \A s \in DOMAIN edges : ~(place[s] <= 0)
    BY DEF Descends
  <2> HIDE DEF f
  <2> QED
    BY <1>2, <2>1
<1>4. Upto(m - 1)
  <2>1. m - 1 \in Nat /\ ~(m <= m - 1)
    BY <1>2, <1>3
  <2>2. m - 1 \notin S
    <3> HIDE DEF S
    <3> QED
      BY <1>1, <2>1
  <2> HIDE DEF Upto
  <2> QED
    BY <2>1, <2>2
<1>5. PICK g : /\ DOMAIN g = DOMAIN edges
               /\ \A s \in DOMAIN edges : place[s] <= m - 1 => g[s] = DepthOf(edges, g, s) /\ g[s] \in 1..place[s]
  BY <1>4
<1> HIDE DEF Upto, S
<1> DEFINE f == [s \in DOMAIN edges |-> IF place[s] = m THEN DepthOf(edges, g, s) ELSE g[s]]
<1>6. DOMAIN f = DOMAIN edges
  OBVIOUS
<1>7. ASSUME NEW s \in DOMAIN edges, place[s] <= m PROVE f[s] = DepthOf(edges, f, s) /\ f[s] \in 1..place[s]
  <2>1. place[s] \in Nat /\ \A d \in edges[s] : d \in DOMAIN edges /\ place[d] \in Nat /\ place[d] <= m - 1 /\ place[d] < place[s]
    BY <1>2, <1>7 DEF Descends
  <2>2. \A d \in edges[s] : f[d] = g[d]
    BY <1>2, <2>1
  <2>3. DepthOf(edges, f, s) = DepthOf(edges, g, s)
    <3>1. {f[d] : d \in edges[s]} = {g[d] : d \in edges[s]}
      BY <2>2
    <3> HIDE DEF f
    <3> QED
      BY <3>1 DEF DepthOf
  <2>4. CASE place[s] = m
    <3>1. f[s] = DepthOf(edges, g, s)
      BY <2>4
    <3>2. \A d \in edges[s] : g[d] \in 1..(m - 1)
      BY <1>2, <1>5, <2>1
    <3>3. DepthOf(edges, g, s) \in 1..((m - 1) + 1)
      BY <1>2, <1>3, <3>2, DepthIsOneMore
    <3> QED
      BY <1>2, <2>3, <2>4, <3>1, <3>3
  <2>5. CASE place[s] # m
    <3>1. f[s] = g[s] /\ place[s] <= m - 1
      BY <1>2, <1>7, <2>1, <2>5
    <3> QED
      BY <1>5, <2>3, <3>1
  <2> QED
    BY <2>4, <2>5
<1> HIDE DEF f
<1> QED
  BY <1>2, <1>6, <1>7 DEF Upto

IsDepth(f, edges) == f = [s \in DOMAIN edges |-> DepthOf(edges, f, s)]

LEMMA DepthIsThere ==
  ASSUME NEW edges, NEW place, NEW last, Descends(edges, place, last)
  PROVE  \E f : f = [s \in DOMAIN edges |-> DepthOf(edges, f, s)]
<1>1. last \in Nat /\ \A s \in DOMAIN edges : place[s] <= last
  BY DEF Descends
<1>2. PICK f : /\ DOMAIN f = DOMAIN edges
               /\ \A s \in DOMAIN edges : place[s] <= last => f[s] = DepthOf(edges, f, s) /\ f[s] \in 1..place[s]
  BY <1>1, SomeDepth
<1> DEFINE g == [s \in DOMAIN edges |-> f[s]]
<1>3. \A s \in DOMAIN edges : g[s] = f[s] /\ f[s] = DepthOf(edges, f, s)
  BY <1>1, <1>2
<1>4. ASSUME NEW s \in DOMAIN edges PROVE DepthOf(edges, f, s) = DepthOf(edges, g, s)
  <2>1. \A d \in edges[s] : g[d] = f[d]
    BY <1>3 DEF Descends
  <2>2. {f[d] : d \in edges[s]} = {g[d] : d \in edges[s]}
    BY <2>1
  <2> HIDE DEF g
  <2> QED
    BY <2>2 DEF DepthOf
<1>5. \A s \in DOMAIN edges : f[s] = DepthOf(edges, g, s)
  BY <1>3, <1>4
<1>6. g = [s \in DOMAIN edges |-> DepthOf(edges, g, s)]
  <2>1. \A s \in DOMAIN edges : g[s] = DepthOf(edges, g, s)
    BY <1>3, <1>5
  <2>2. g = [s \in DOMAIN edges |-> g[s]]
    OBVIOUS
  <2> HIDE DEF g
  <2> QED
    BY <2>1, <2>2
<1> QED
  BY <1>6

(* A depth is no more than the place in the query.                         *)
LEMMA DepthsOf ==
  ASSUME NEW edges, NEW place, NEW last, Descends(edges, place, last), NEW f, IsDepth(f, edges)
  PROVE  \A s \in DOMAIN edges :
           /\ f[s] \in 1..last
           /\ \A d \in edges[s] : d \in DOMAIN edges /\ f[d] + 1 <= f[s]
           /\ f[s] = 1 \/ \E d \in edges[s] : f[s] = f[d] + 1
<1>1. \A s \in DOMAIN edges : f[s] = DepthOf(edges, f, s)
  BY DEF IsDepth
<1>2. \A s \in DOMAIN edges : place[s] \in 1..last /\ \A d \in edges[s] : d \in DOMAIN edges /\ place[d] < place[s]
  BY DEF Descends
<1>3. last \in Nat
  BY DEF Descends
<1> DEFINE S == {place[s] : s \in {t \in DOMAIN edges : f[t] \notin 1..place[t]}}
<1>4. S = {}
  <2> SUFFICES ASSUME S # {} PROVE FALSE
    OBVIOUS
  <2>1. S \subseteq Nat
    BY <1>2
  <2>2. PICK m \in S : \A y \in S : m <= y
    <3> HIDE DEF S
    <3> QED
      BY <2>1, LeastOfNaturals
  <2>3. PICK s \in DOMAIN edges : m = place[s] /\ f[s] \notin 1..place[s]
    BY <2>2
  <2>4. ASSUME NEW d \in edges[s] PROVE f[d] \in 1..(m - 1)
    <3>1. d \in DOMAIN edges /\ place[d] \in Nat /\ m \in Nat /\ place[d] <= m - 1
      BY <1>2, <2>3
    <3>2. place[d] \notin S
      <4> HIDE DEF S
      <4> QED
        BY <2>2, <3>1
    <3>3. f[d] \in 1..place[d]
      BY <3>1, <3>2
    <3> QED
      BY <3>1, <3>3
  <2>5. m \in Nat /\ m - 1 \in Nat /\ (m - 1) + 1 = m
    <3>1. m \in 1..last
      BY <1>2, <2>3
    <3> QED
      BY <1>3, <3>1
  <2>6. DepthOf(edges, f, s) \in 1..((m - 1) + 1)
    BY <2>4, <2>5, DepthIsOneMore
  <2>7. f[s] = DepthOf(edges, f, s) /\ (m - 1) + 1 = place[s]
    <3>1. (m - 1) + 1 = place[s]
      BY <2>3, <2>5
    <3> QED
      BY <1>1, <3>1
  <2> QED
    BY <2>3, <2>6, <2>7
<1>5. \A s \in DOMAIN edges : f[s] \in 1..last
  <2> SUFFICES ASSUME NEW s \in DOMAIN edges PROVE f[s] \in 1..last
    OBVIOUS
  <2>1. f[s] \in 1..place[s]
    BY <1>4
  <2> QED
    BY <1>2, <1>3, <2>1
<1> SUFFICES ASSUME NEW s \in DOMAIN edges
             PROVE  /\ \A d \in edges[s] : d \in DOMAIN edges /\ f[d] + 1 <= f[s]
                    /\ f[s] = 1 \/ \E d \in edges[s] : f[s] = f[d] + 1
  BY <1>5
<1>6. \A d \in edges[s] : d \in DOMAIN edges /\ f[d] \in 1..last
  BY <1>2, <1>5
<1> QED
  BY <1>1, <1>3, <1>6, DepthIsOneMore

(* Selections of which each names the next.                                *)
IsChain(chain, definitions) ==
  /\ chain \in Seq({d.selection : d \in definitions})
  /\ \A i \in 1..(Len(chain) - 1) : chain[i + 1] \in Dependencies(definitions)[chain[i]]

LEMMA DependenciesDescend ==
  ASSUME NEW query, NEW last \in Nat, IsQuery(query, last)
  PROVE  /\ DOMAIN Dependencies(query) = {d.selection : d \in query}
         /\ \E place : Descends(Dependencies(query), place, last)
<1> DEFINE edges == Dependencies(query)
           place == [s \in DOMAIN edges |-> (CHOOSE d \in query : d.selection = s).at]
<1>1. DOMAIN edges = {d.selection : d \in query}
  BY DEF Dependencies
<1>2. ASSUME NEW d \in query
      PROVE  /\ place[d.selection] = d.at
             /\ \A x \in edges[d.selection] : \E c \in ToSet(d.conditions) : c.why # "where" /\ x = c.of
  <2>1. \A e \in query : e.selection = d.selection => e = d
    BY DEF IsQuery
  <2>2. (CHOOSE e \in query : e.selection = d.selection) = d
    BY <2>1
  <2>3. edges[d.selection] = UNION {Named(e) : e \in {f \in query : f.selection = d.selection}}
    BY DEF Dependencies
  <2>4. edges[d.selection] = Named(d)
    <3>1. {f \in query : f.selection = d.selection} = {d}
      BY <2>1
    <3> QED
      BY <2>3, <3>1
  <2>5. \A x \in Named(d) : \E c \in ToSet(d.conditions) : c.why # "where" /\ x = c.of
    BY DEF Named
  <2>6. place[d.selection] = d.at
    BY <1>1, <2>2
  <2> QED
    BY <2>4, <2>5, <2>6
<1> HIDE DEF edges, place
<1>3. ASSUME NEW s \in DOMAIN edges
      PROVE  place[s] \in 1..last /\ \A x \in edges[s] : x \in DOMAIN edges /\ place[x] < place[s]
  <2>1. PICK d \in query : s = d.selection
    BY <1>1
  <2>2. place[s] = d.at /\ d.at \in 1..last
    BY <1>2, <2>1 DEF IsQuery
  <2>3. ASSUME NEW x \in edges[s] PROVE x \in DOMAIN edges /\ place[x] < place[s]
    <3>1. PICK c \in ToSet(d.conditions) : c.why # "where" /\ x = c.of
      BY <1>2, <2>1
    <3>2. PICK e \in query : e.selection = x /\ e.at < d.at
      BY <3>1 DEF IsQuery
    <3>3. place[x] = e.at
      BY <1>2, <3>2
    <3> QED
      BY <1>1, <2>2, <3>2, <3>3
  <2> QED
    BY <2>2, <2>3
<1>4. Descends(edges, place, last)
  BY <1>3 DEF Descends
<1> QED
  BY <1>1, <1>4 DEF edges

(* A chain is no longer than its first selection is deep.                  *)
LEMMA ChainsAreNoLonger ==
  ASSUME NEW edges, NEW f, NEW last \in Nat,
         \A s \in DOMAIN edges : f[s] \in 1..last /\ \A d \in edges[s] : d \in DOMAIN edges /\ f[d] + 1 <= f[s],
         NEW chain \in Seq(DOMAIN edges), chain # <<>>,
         \A i \in 1..(Len(chain) - 1) : chain[i + 1] \in edges[chain[i]]
  PROVE  Len(chain) <= f[chain[1]]
<1> DEFINE n == Len(chain)
           S == {m \in Nat : m < n /\ ~(m + 1 <= f[chain[n - m]])}
<1>1. n \in Nat /\ n >= 1 /\ \A i \in 1..n : chain[i] \in DOMAIN edges
  OBVIOUS
<1> HIDE DEF n
<1>2. \A i \in 1..(n - 1) : chain[i + 1] \in edges[chain[i]]
  BY DEF n
<1>3. S = {}
  <2> SUFFICES ASSUME S # {} PROVE FALSE
    OBVIOUS
  <2>1. S \subseteq Nat
    OBVIOUS
  <2>2. PICK m \in S : \A y \in S : m <= y
    <3> HIDE DEF S
    <3> QED
      BY <2>1, LeastOfNaturals
  <2>3. m \in Nat /\ m < n /\ ~(m + 1 <= f[chain[n - m]])
    BY <2>2
  <2>4. n - m \in 1..n /\ f[chain[n - m]] \in 1..last
    <3>1. n - m \in 1..n
      BY <1>1, <2>3
    <3> QED
      BY <1>1, <3>1
  <2>5. m # 0
    BY <2>3, <2>4
  <2>6. m - 1 \in Nat /\ m - 1 < n /\ ~(m <= m - 1) /\ n - (m - 1) = (n - m) + 1 /\ n - m \in 1..(n - 1)
    BY <1>1, <2>3, <2>4, <2>5
  <2>7. m - 1 \notin S
    <3> HIDE DEF S
    <3> QED
      BY <2>2, <2>6
  <2> DEFINE here == f[chain[n - m]]
             after == f[chain[(n - m) + 1]]
  <2>8. (m - 1) + 1 <= after
    BY <2>6, <2>7
  <2>9. after + 1 <= here /\ after \in Nat
    <3>1. chain[n - m] \in DOMAIN edges
      BY <1>1, <2>4
    <3>2. chain[(n - m) + 1] \in edges[chain[n - m]]
      BY <1>2, <2>6
    <3>3. chain[(n - m) + 1] \in DOMAIN edges /\ after + 1 <= here
      BY <3>1, <3>2
    <3>4. after \in 1..last
      BY <3>3
    <3> HIDE DEF after
    <3> QED
      BY <3>3, <3>4
  <2>10. here \in Nat /\ ~(m + 1 <= here)
    BY <2>3, <2>4
  <2> HIDE DEF here, after
  <2> QED
    BY <2>3, <2>8, <2>9, <2>10
<1>4. n - 1 \in Nat /\ n - 1 < n /\ n - (n - 1) = 1 /\ (n - 1) + 1 = n
  BY <1>1
<1>5. (n - 1) + 1 <= f[chain[n - (n - 1)]]
  BY <1>3, <1>4
<1> QED
  BY <1>4, <1>5 DEF n

(* Nor is there none as long.                                              *)
LEMMA SomeChainIsAsLong ==
  ASSUME NEW edges, NEW f, NEW last \in Nat,
         \A s \in DOMAIN edges :
           /\ f[s] \in 1..last
           /\ \A d \in edges[s] : d \in DOMAIN edges /\ f[d] + 1 <= f[s]
           /\ f[s] = 1 \/ \E d \in edges[s] : f[s] = f[d] + 1,
         NEW s \in DOMAIN edges
  PROVE  \E chain \in Seq(DOMAIN edges) :
           /\ Len(chain) = f[s] /\ chain[1] = s
           /\ \A i \in 1..(Len(chain) - 1) : chain[i + 1] \in edges[chain[i]]
<1> DEFINE From(chain, t) ==
             /\ Len(chain) = f[t] /\ chain[1] = t
             /\ \A i \in 1..(Len(chain) - 1) : chain[i + 1] \in edges[chain[i]]
           S == {f[t] : t \in {u \in DOMAIN edges : ~\E chain \in Seq(DOMAIN edges) : From(chain, u)}}
<1> SUFFICES ASSUME S # {} PROVE FALSE
  OBVIOUS
<1>1. S \subseteq Nat
  OBVIOUS
<1>2. PICK m \in S : \A y \in S : m <= y
  <2> HIDE DEF S
  <2> QED
    BY <1>1, LeastOfNaturals
<1>3. PICK t \in DOMAIN edges : m = f[t] /\ ~\E chain \in Seq(DOMAIN edges) : From(chain, t)
  BY <1>2
<1>4. CASE f[t] = 1
  <2> DEFINE chain == <<t>>
  <2>1. chain \in Seq(DOMAIN edges) /\ Len(chain) = 1 /\ chain[1] = t
    OBVIOUS
  <2> HIDE DEF chain
  <2> QED
    BY <1>3, <1>4, <2>1
<1>5. CASE f[t] # 1
  <2>1. PICK d \in edges[t] : f[t] = f[d] + 1
    BY <1>5
  <2>2. d \in DOMAIN edges /\ f[d] \in 1..last /\ f[d] < m /\ m \in Nat /\ ~(m <= f[d])
    BY <1>3, <2>1
  <2>3. f[d] \notin S
    <3> HIDE DEF S
    <3> QED
      BY <1>2, <2>2
  <2>4. PICK rest \in Seq(DOMAIN edges) : From(rest, d)
    BY <2>2, <2>3
  <2> DEFINE chain == <<t>> \o rest
  <2>5. /\ chain \in Seq(DOMAIN edges) /\ Len(chain) = 1 + Len(rest) /\ chain[1] = t
        /\ \A i \in 1..Len(rest) : chain[i + 1] = rest[i]
    OBVIOUS
  <2>6. Len(rest) \in Nat /\ Len(rest) = f[d] /\ rest[1] = d
    BY <2>4
  <2> HIDE DEF chain
  <2>7. ASSUME NEW i \in 1..(Len(chain) - 1) PROVE chain[i + 1] \in edges[chain[i]]
    <3>1. i \in 1..Len(rest) /\ chain[i + 1] = rest[i]
      BY <2>5, <2>6, <2>7
    <3>2. CASE i = 1
      BY <2>1, <2>5, <2>6, <3>1, <3>2
    <3>3. CASE i # 1
      <4>1. i - 1 \in 1..(Len(rest) - 1) /\ i - 1 \in 1..Len(rest) /\ (i - 1) + 1 = i
        BY <2>6, <3>1, <3>3
      <4>2. chain[i] = rest[i - 1]
        BY <2>5, <4>1
      <4>3. rest[i] \in edges[rest[i - 1]]
        BY <2>4, <4>1
      <4> QED
        BY <3>1, <4>2, <4>3
    <3> QED
      BY <3>2, <3>3
  <2>8. Len(chain) = f[t]
    BY <2>1, <2>2, <2>5, <2>6
  <2>9. From(chain, t)
    BY <2>5, <2>7, <2>8
  <2> QED
    BY <1>3, <2>5, <2>9
<1> QED
  BY <1>4, <1>5

(* depth() is the length of the longest chain of selections.               *)
LEMMA DeepestIsLongest ==
  ASSUME NEW query, NEW last \in Nat, IsQuery(query, last)
  PROVE  /\ Deepest(query) \in Nat
         /\ \E chain : IsChain(chain, query) /\ Len(chain) = Deepest(query)
         /\ \A chain : IsChain(chain, query) => Len(chain) <= Deepest(query)
<1> DEFINE edges == Dependencies(query)
           f == CHOOSE g : g = [s \in DOMAIN edges |-> DepthOf(edges, g, s)]
           S == {0} \cup {f[s] : s \in DOMAIN edges}
<1>1. Deepest(query) = Max(S)
  BY DEF Deepest, DepthOf
<1>2. DOMAIN edges = {d.selection : d \in query}
  BY DependenciesDescend
<1>3. PICK place : Descends(edges, place, last)
  BY DependenciesDescend
<1>4. \A chain : IsChain(chain, query) <=>
        chain \in Seq(DOMAIN edges) /\ \A i \in 1..(Len(chain) - 1) : chain[i + 1] \in edges[chain[i]]
  BY <1>2 DEF IsChain
<1> HIDE DEF edges
<1>5. IsDepth(f, edges)
  <2>1. \E g : g = [s \in DOMAIN edges |-> DepthOf(edges, g, s)]
    BY <1>3, DepthIsThere
  <2> QED
    BY <2>1 DEF IsDepth
<1> HIDE DEF f
<1>6. \A s \in DOMAIN edges :
        /\ f[s] \in 1..last
        /\ \A d \in edges[s] : d \in DOMAIN edges /\ f[d] + 1 <= f[s]
        /\ f[s] = 1 \/ \E d \in edges[s] : f[s] = f[d] + 1
  BY <1>3, <1>5, DepthsOf
<1>7. S \subseteq Nat /\ S # {} /\ \A x \in S : x <= last
  BY <1>6
<1>8. Max(S) \in S /\ \A y \in S : y <= Max(S)
  <2> HIDE DEF S
  <2> QED
    BY <1>7, GreatestOfBounded
<1> DEFINE greatest == Max(S)
<1>9. greatest \in Nat /\ Deepest(query) = greatest
  BY <1>1, <1>7, <1>8
<1>10. 0 <= greatest /\ \A s \in DOMAIN edges : f[s] <= greatest
  BY <1>8
<1>11. greatest = 0 \/ \E s \in DOMAIN edges : greatest = f[s]
  BY <1>8
<1> HIDE DEF S, greatest
<1>12. ASSUME NEW chain, IsChain(chain, query) PROVE Len(chain) <= greatest
  <2>1. CASE chain = <<>>
    BY <1>10, <2>1
  <2>2. CASE chain # <<>>
    <3>1. chain \in Seq(DOMAIN edges) /\ chain[1] \in DOMAIN edges /\ Len(chain) \in Nat
      BY <1>4, <1>12, <2>2
    <3>2. Len(chain) <= f[chain[1]]
      BY <1>4, <1>6, <1>12, <2>2, ChainsAreNoLonger
    <3>3. f[chain[1]] <= greatest /\ f[chain[1]] \in Nat
      BY <1>6, <1>10, <3>1
    <3> QED
      BY <1>9, <3>1, <3>2, <3>3
  <2> QED
    BY <2>1, <2>2
<1>13. \E chain : IsChain(chain, query) /\ Len(chain) = greatest
  <2>1. CASE greatest = 0
    <3> DEFINE none == <<>>
    <3>1. none \in Seq(DOMAIN edges) /\ Len(none) = 0
      OBVIOUS
    <3> HIDE DEF none
    <3>2. \A i \in 1..(Len(none) - 1) : none[i + 1] \in edges[none[i]]
      BY <3>1
    <3>3. IsChain(none, query)
      BY <1>4, <3>1, <3>2
    <3> QED
      BY <2>1, <3>1, <3>3
  <2>2. ASSUME NEW s \in DOMAIN edges, greatest = f[s]
        PROVE  \E chain : IsChain(chain, query) /\ Len(chain) = greatest
    <3>1. PICK chain \in Seq(DOMAIN edges) :
            /\ Len(chain) = f[s] /\ chain[1] = s
            /\ \A i \in 1..(Len(chain) - 1) : chain[i + 1] \in edges[chain[i]]
      BY <1>6, SomeChainIsAsLong
    <3> QED
      BY <1>4, <2>2, <3>1
  <2> QED
    BY <1>11, <2>1, <2>2
<1> QED
  BY <1>9, <1>12, <1>13

(* What planSubset found of the depth of what it planned or refused.       *)
DepthInv ==
  /\ Planned => \E order : IsOrder(order) /\ plan = PlanOf(order) /\ ~(Deepest(Definitions(order)) > MaxDepth)
  /\ step = "refused" => HasCycle \/ \E order : IsOrder(order) /\ Deepest(Definitions(order)) > MaxDepth

LEMMA SameDepths ==
  ASSUME asked' = asked
  PROVE  HasCycle' = HasCycle /\ \A order : Deepest(Definitions(order))' = Deepest(Definitions(order))
<1>1. Included' = Included /\ Parents' = Parents /\ \A order : Definitions(order)' = Definitions(order)
  BY SameRequest
<1>2. HasCycle' = HasCycle
  BY <1>1 DEF HasCycle, Reach
<1>3. \A order : Deepest(Definitions(order))' = Deepest(Definitions(order))
  <2> SUFFICES ASSUME NEW order PROVE Deepest(Definitions(order))' = Deepest(Definitions(order))
    OBVIOUS
  <2>1. Definitions(order)' = Definitions(order)
    BY <1>1
  <2> QED
    BY <2>1
<1> QED
  BY <1>2, <1>3

LEMMA DepthStep == DepthInv /\ [Next]_vars => DepthInv'
<1> SUFFICES ASSUME DepthInv, [Next]_vars PROVE DepthInv'
  OBVIOUS
<1>1. CASE PlanSubset
  <2>1. asked' = asked
    BY <1>1 DEF PlanSubset
  <2>2. CASE HasCycle
    <3>1. step' = "refused"
      BY <1>1, <2>2 DEF PlanSubset
    <3> QED
      BY <2>1, <2>2, <3>1, SameDepths DEF DepthInv, Planned
  <2>3. CASE ~HasCycle
    <3>1. PICK order \in SetToSeqs(Included) :
            /\ IsTopologicalOrder(order, Parents)
            /\ IF Deepest(Definitions(order)) > MaxDepth THEN step' = "refused" ELSE step' = "idle" /\ plan' = PlanOf(order)
      BY <1>1, <2>3 DEF PlanSubset, PlanOf
    <3>2. IsOrder(order)' /\ PlanOf(order)' = PlanOf(order) /\ Deepest(Definitions(order))' = Deepest(Definitions(order))
      BY <2>1, <3>1, SameRequest, SameDepths DEF IsOrder
    <3>3. CASE Deepest(Definitions(order)) > MaxDepth
      <4>1. step' = "refused" /\ ~Planned' /\ (Deepest(Definitions(order)) > MaxDepth)'
        BY <3>1, <3>2, <3>3 DEF Planned
      <4> QED
        BY <3>2, <4>1 DEF DepthInv
    <3>4. CASE ~(Deepest(Definitions(order)) > MaxDepth)
      <4>1. step' = "idle" /\ plan' = PlanOf(order)' /\ (~(Deepest(Definitions(order)) > MaxDepth))'
        BY <3>1, <3>2, <3>4
      <4> QED
        BY <3>2, <4>1 DEF DepthInv
    <3> QED
      BY <3>3, <3>4
  <2> QED
    BY <2>2, <2>3
<1>2. CASE ~PlanSubset
  <2>1. asked' = asked /\ plan' = plan /\ (Planned' => Planned) /\ (step' = "refused" => step = "refused")
    <3>1. CASE UNCHANGED vars
      BY <3>1 DEF vars, Planned
    <3>2. ASSUME NEW t, Write(t) \/ Start(t) \/ Skip(t) \/ Complete(t) \/ Retry(t) \/ Fail(t) \/ Delete(t) \/ Upsert(t)
          PROVE  asked' = asked /\ plan' = plan /\ step' = step
      BY <3>2 DEF Write, Start, Skip, Complete, Retry, Fail, Delete, Upsert
    <3>3. CASE StartRun \/ EndRun \/ StartClear \/ ClearTable \/ EndClear
      BY <3>3 DEF StartRun, EndRun, StartClear, ClearTable, EndClear, Idle, Planned
    <3> QED
      BY <1>2, <3>1, <3>2, <3>3 DEF Next, Planned
  <2>2. HasCycle' = HasCycle
    BY <2>1, SameDepths
  <2>3. \A order : /\ IsOrder(order)' = IsOrder(order) /\ PlanOf(order)' = PlanOf(order)
                   /\ Deepest(Definitions(order))' = Deepest(Definitions(order))
    BY <2>1, SameRequest, SameDepths
  <2>4. ASSUME Planned' PROVE (\E order : IsOrder(order) /\ plan = PlanOf(order) /\ ~(Deepest(Definitions(order)) > MaxDepth))'
    <3>1. PICK order : IsOrder(order) /\ plan = PlanOf(order) /\ ~(Deepest(Definitions(order)) > MaxDepth)
      BY <2>1, <2>4 DEF DepthInv
    <3> QED
      BY <2>1, <2>3, <3>1
  <2>5. ASSUME step' = "refused" PROVE (HasCycle \/ \E order : IsOrder(order) /\ Deepest(Definitions(order)) > MaxDepth)'
    <3>1. HasCycle \/ \E order : IsOrder(order) /\ Deepest(Definitions(order)) > MaxDepth
      BY <2>1, <2>5 DEF DepthInv
    <3> QED
      BY <2>2, <2>3, <3>1
  <2> QED
    BY <2>4, <2>5 DEF DepthInv
<1> QED
  BY <1>1, <1>2

LEMMA ChainOfAll ==
  ASSUME NEW query, NEW definitions, query \subseteq definitions, NEW chain, IsChain(chain, query)
  PROVE  IsChain(chain, definitions)
<1>1. {d.selection : d \in query} \subseteq {d.selection : d \in definitions}
  OBVIOUS
<1>2. \A s \in {d.selection : d \in query} : Dependencies(query)[s] \subseteq Dependencies(definitions)[s]
  BY DEF Dependencies
<1>3. chain \in Seq({d.selection : d \in query}) /\ \A i \in 1..(Len(chain) - 1) : chain[i + 1] \in Dependencies(query)[chain[i]]
  BY DEF IsChain
<1> DEFINE some == {d.selection : d \in query}
           all == {d.selection : d \in definitions}
<1> HIDE DEF some, all
<1>4. chain \in Seq(all) /\ \A i \in 1..(Len(chain) - 1) : chain[i] \in some
  BY <1>1, <1>3 DEF some, all
<1> QED
  BY <1>2, <1>3, <1>4 DEF IsChain, some, all

LEMMA DeepestOfAnOrder ==
  ASSUME asked \in Requests, NEW order, IsOrder(order)
  PROVE  /\ Deepest(Definitions(order)) \in Nat
         /\ \E chain : IsChain(chain, Definitions(order)) /\ Len(chain) = Deepest(Definitions(order))
         /\ \A chain : IsChain(chain, Definitions(order)) => Len(chain) <= Deepest(Definitions(order))
<1>1. Len(order) \in Nat
  BY Places
<1>2. 2 * Len(order) \in Nat
  BY <1>1
<1> QED
  BY <1>2, DefinitionsAreAQuery, DeepestIsLongest

(* No query of a plan chains more selections than MAX_SELECTION_DEPTH, and *)
(* no subset is refused but for a cycle or for a chain that is longer.     *)
DepthIsLimited ==
  /\ Planned => \A t \in PlanTables : \A chain : IsChain(chain, plan.queries[t]) => Len(chain) <= MaxDepth
  /\ step = "refused" =>
       HasCycle \/ \E order, chain : IsOrder(order) /\ IsChain(chain, Definitions(order)) /\ Len(chain) > MaxDepth

THEOREM DepthIsKept == Spec => []DepthIsLimited
<1>1. Init => DepthInv
  BY DEF Init, DepthInv, Planned
<1>2. Spec => []DepthInv
  BY <1>1, DepthStep, PTL DEF Spec
<1>3. IInv /\ DepthInv => DepthIsLimited
  <2> SUFFICES ASSUME IInv, DepthInv PROVE DepthIsLimited
    OBVIOUS
  <2>1. asked \in Requests /\ MaxDepth \in Nat
    BY RequestsAssumption DEF IInv
  <2>2. ASSUME Planned, NEW t \in PlanTables, NEW chain, IsChain(chain, plan.queries[t]) PROVE Len(chain) <= MaxDepth
    <3>1. PICK order : IsOrder(order) /\ plan = PlanOf(order) /\ ~(Deepest(Definitions(order)) > MaxDepth)
      BY <2>2 DEF DepthInv
    <3>2. t \in Included
      BY <2>2, RunFacts
    <3>3. plan.queries[t] = With(Definitions(order), Selection("kept", t))
      BY <3>1, <3>2 DEF PlanOf
    <3>4. plan.queries[t] \subseteq Definitions(order)
      BY <3>3 DEF With
    <3>5. IsChain(chain, Definitions(order))
      BY <2>2, <3>4, ChainOfAll
    <3>6. Deepest(Definitions(order)) \in Nat /\ Len(chain) <= Deepest(Definitions(order))
      BY <2>1, <3>1, <3>5, DeepestOfAnOrder
    <3>7. Len(chain) \in Nat
      BY <3>5 DEF IsChain
    <3> QED
      BY <2>1, <3>1, <3>6, <3>7
  <2>3. ASSUME step = "refused"
        PROVE  HasCycle \/ \E order, chain : IsOrder(order) /\ IsChain(chain, Definitions(order)) /\ Len(chain) > MaxDepth
    <3>1. CASE HasCycle
      BY <3>1
    <3>2. ASSUME NEW order, IsOrder(order), Deepest(Definitions(order)) > MaxDepth
          PROVE  \E chain : IsChain(chain, Definitions(order)) /\ Len(chain) > MaxDepth
      BY <2>1, <3>2, DeepestOfAnOrder
    <3> QED
      BY <2>3, <3>1, <3>2 DEF DepthInv
  <2> QED
    BY <2>2, <2>3 DEF DepthIsLimited
<1> QED
  BY <1>2, <1>3, Invariance, PTL
===============================================================================
