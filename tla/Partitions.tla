------------------------------ MODULE Partitions ------------------------------
(***************************************************************************)
(* How a job's rows are divided into slices that are read at once          *)
(* (jobs/partitions.py): how many, where one ends and the next begins, and *)
(* the masking threads left to each.                                       *)
(*                                                                         *)
(* A value of the partition column is an integer here: a number as so many *)
(* of 1/Unit, so that fractions are among them, and anything else as its   *)
(* place in the database's order.                                          *)
(***************************************************************************)
EXTENDS Integers, FiniteSets, FiniteSetsExt

CONSTANTS
  Unit,                  \* of the numbers' fractions
  MinimumRowsPerSlice,
  Null,
  Open                   \* the slice without a cut of its own: see below

ASSUME PartitionsAssumption ==
  /\ Unit \in Nat \ {0} /\ MinimumRowsPerSlice \in Nat \ {0}
  /\ Null \notin Int /\ Open \notin Int

-------------------------------------------------------------------------------
(* How many *)

AutomaticCountAnywhere(span, budget, masksInPython) ==  \* mutant: whatever the connections have room for
  IF masksInPython THEN 1 ELSE Min({budget.share, Max({1, span \div MinimumRowsPerSlice})})

AutomaticCount(span, budget, masksInPython) ==
  IF masksInPython
    THEN 1
    ELSE Min({budget.share, Max({1, span \div MinimumRowsPerSlice})}
             \cup (IF budget.places = Null THEN {} ELSE {budget.places}))

MaskingThreadsWith(count, budget) ==
  IF budget.automaticThreads /\ count > 1 /\ count >= budget.maskingThreads
    THEN 1
    ELSE budget.maskingThreads

(* One thread masks on each slice's own; more are a pool the slices share. *)
MaskersAtOnce(count, threads) == IF threads = 1 THEN count ELSE threads

-------------------------------------------------------------------------------
(* Of a column of numbers: the open slice is the first, with the NULLs, and *)
(* each other slice begins at its cut.                                      *)

IntegerBound(value) == value \div Unit

SplitPoints(lowest, highest, count) ==
  LET span == highest - lowest + 1
      points == {lowest + (span * index) \div count : index \in 1..(count - 1)}
  IN {point \in points : lowest < point /\ point <= highest}

NumberCuts(values, count) ==
  {Unit * point : point \in SplitPoints(IntegerBound(Min(values)), IntegerBound(Max(values)), count)}

NumberSliceToTheEnd(cuts, slice, value) ==  \* mutant: a slice ends with the next one's first value
  IF slice = Open
    THEN value = Null \/ \A cut \in cuts : value <= cut
    ELSE value # Null /\ slice <= value /\ \A cut \in cuts : slice < cut => value <= cut

NumberSlice(cuts, slice, value) ==
  IF slice = Open
    THEN value = Null \/ \A cut \in cuts : value < cut
    ELSE value # Null /\ slice <= value /\ \A cut \in cuts : slice < cut => value < cut

(* Of any other column: the open slice is the last, and each other slice   *)
(* ends with its cut, the first of them taking the NULLs.                  *)

(* The last values of all shares but one, of NTILE's, which are left open. *)
QuantileCuts(values, count) == {cuts \in SUBSET values : Cardinality(cuts) < count}

QuantileSlice(cuts, slice, value) ==
  IF slice = Open
    THEN IF value = Null THEN cuts = {} ELSE \A cut \in cuts : cut < value
    ELSE IF value = Null
      THEN \A cut \in cuts : slice <= cut
      ELSE value <= slice /\ \A cut \in cuts : cut < slice => cut < value
===============================================================================
