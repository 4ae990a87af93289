------------------------------ MODULE MCMasking ------------------------------
(***************************************************************************)
(* Masking for TLC: numbers of up to three digits in base three, so that   *)
(* the longest are FF1's, of two unequal halves, and any other block is    *)
(* larger than what it has to cover.                                       *)
(***************************************************************************)
EXTENDS Masking, Bitwise

MCExclusiveOr(a, b) == a ^^ b

(* Some function of all four. *)
MCPseudorandom(k, s, i, b) ==
  LET seed == k + 7 * s.length + (IF s.sign = "-" THEN 3 ELSE 0) + (IF s.type = "text" THEN 5 ELSE 0)
  IN  (seed * (b + 1) * (b + i + 2) + k * i) % 17
===============================================================================
