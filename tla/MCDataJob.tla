------------------------------- MODULE MCDataJob -------------------------------
(***************************************************************************)
(* DataJob on two rows, each in a slice of its own or both in one stream,  *)
(* then of a source that may commit a row late.                            *)
(***************************************************************************)
EXTENDS DataJob, TLC

CONSTANTS r1, r2, s1, s2

MCRows == {r1, r2}
MCSlices == {s1, s2}
MCSliceOf == [r \in MCRows |-> IF r = r1 THEN s1 ELSE s2]

Config(strategy, staged, incremental, masksKey, inPlace) ==
  [strategy |-> strategy, staged |-> staged, incremental |-> incremental,
   masked |-> TRUE, masksKey |-> masksKey, inPlace |-> inPlace, partitioned |-> TRUE, lag |-> 0]

Incremental == [Config("upsert", TRUE, TRUE, FALSE, FALSE) EXCEPT !.masked = FALSE]
Streamed == [Incremental EXCEPT !.staged = FALSE, !.partitioned = FALSE, !.lag = 1]
Stageless == Config("upsert", FALSE, TRUE, TRUE, FALSE)
Swapped == [Config("swap", TRUE, FALSE, FALSE, FALSE) EXCEPT !.partitioned = FALSE]
InPlace == Config("swap", TRUE, FALSE, FALSE, TRUE)

MCJobConfigs == {Incremental, Streamed, Stageless, Swapped, InPlace}
MaskingInPlace == {InPlace}

(* The rows are alike, each with its slice, and so are the keys. *)
Symmetry == Permutations(Keys) \cup {(r1 :> r2) @@ (r2 :> r1) @@ (s1 :> s2) @@ (s2 :> s1)}
===============================================================================
