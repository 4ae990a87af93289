------------------------------ MODULE MCReading ------------------------------
(***************************************************************************)
(* Reading for TLC: four rows, the last of them added while they are read, *)
(* in a column with NULLs, repeated values, fractions and a negative one.  *)
(***************************************************************************)
EXTENDS Reading

MCRows == 1..4
(* Three values found and one added: between them or beyond. *)
MCTables ==
  {<<Null, -1, 3, -3>>, <<0, 3, 4, 3>>, <<0, 0, 4, 6>>, <<Null, Null, Null, 0>>}

Budget(share, places, masking) ==
  [share |-> share, places |-> places, maskingThreads |-> masking, automaticThreads |-> masking = share]

Explicit(kind, count) ==
  [kind |-> kind, automatic |-> FALSE, count |-> count, budget |-> Budget(2, Null, 2), masksInPython |-> FALSE]

Automatic(kind, budget, masksInPython) ==
  [kind |-> kind, automatic |-> TRUE, budget |-> budget, masksInPython |-> masksInPython]

MCJobs ==
  {Explicit("numbers", 3),
   Automatic("numbers", Budget(2, Null, 2), FALSE), Automatic("numbers", Budget(3, 2, 1), FALSE),
   Automatic("others", Budget(2, Null, 2), FALSE), Automatic("numbers", Budget(2, Null, 2), TRUE)}
===============================================================================
