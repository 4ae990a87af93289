------------------------------ MODULE MCRunCycle ------------------------------
(***************************************************************************)
(* RunCycle on four jobs.  a, b and c form a chain, so that a failure      *)
(* cascades over two jobs; c reads in more slices than its connection has  *)
(* places; d has an automatic count and, with a, competes for the places   *)
(* of src.                                                                 *)
(***************************************************************************)
EXTENDS RunCycle, TLC

CONSTANTS a, b, c, d, src, duck

MCJobs == {a, b, c, d}
MCPreds == (a :> {}) @@ (b :> {a}) @@ (c :> {b}) @@ (d :> {})
MCAliases == {src, duck}
MCLimit == (src :> 2) @@ (duck :> 1)
MCUses == (a :> {src, duck}) @@ (b :> {duck}) @@ (c :> {src}) @@ (d :> {src})
MCCount == (a :> 1) @@ (b :> 1) @@ (c :> 3) @@ (d :> 1)
MCAutomatic == {d}
MCTimed == {a, b, d}
===============================================================================
