------------------------------- MODULE Masking -------------------------------
(***************************************************************************)
(* The one-to-one strategies, key and fpe (masking/strategies/keys.py): a  *)
(* column's values, masked by a keyed permutation of the values of their   *)
(* shape, KeyedHash.permute (masking/core.py) or FF1 (masking/fpe.py), or  *)
(* their like in the native masker (mask-rs).                              *)
(*                                                                         *)
(* A mask depends on the key and on its value only, so the values are      *)
(* masked side by side: a Feistel round is done for every number there is  *)
(* at once, and then the cycle walks go on together, a pass at a time.     *)
(*                                                                         *)
(* A value is an integer or text of digits; the digits are of a Radix, the *)
(* size of whichever alphabet, and what lies outside it, as a text's       *)
(* minus, is kept.                                                         *)
(***************************************************************************)
EXTENDS Integers, FiniteSets

CONSTANTS
  Radix,
  MaxLength,      \* bound: the digits of a value
  MinimumLength,  \* of what FF1 may mask
  Rounds,
  Keys,
  Strategies,
  Halves,                    \* the powers of two that may be half a block
  Pseudorandom(_, _, _, _),  \* HMAC, or AES: of a key, a shape, a round, a number
  ExclusiveOr(_, _)

Value == [type : {"integer", "text"}, sign : {"+", "-"}, length : 1..MaxLength, magnitude : 0..(Radix ^ MaxLength - 1)]

Shape == [cipher : {"permute", "FF1"}, type : {"integer", "text"}, sign : {"+", "-"}, length : 1..MaxLength]

(* An integer has no leading zero, and zero no minus. *)
LowOfOneDigit(s) ==  \* mutant: a negative digit may be masked as zero
  IF s.type = "integer" /\ s.length > 1 THEN Radix ^ (s.length - 1) ELSE 0

Low(s) ==
  IF s.type = "integer" /\ (s.length > 1 \/ s.sign = "-") THEN Radix ^ (s.length - 1) ELSE 0

High(s) == Radix ^ s.length - 1

(* permute numbers a shape's values from zero; FF1 encrypts their digits.  *)
Offset(s) == IF s.cipher = "permute" THEN Low(s) ELSE 0

Numbers(s) == (Low(s) - Offset(s))..(High(s) - Offset(s))

(* The smallest even number of bits that covers the numbers, halved.       *)
Half(size) == CHOOSE h \in Halves : h * h >= size /\ \A smaller \in Halves : smaller * smaller >= size => h <= smaller

Left(s) == IF s.cipher = "FF1" THEN Radix ^ (s.length \div 2) ELSE Half(Cardinality(Numbers(s)))
Right(s) == IF s.cipher = "FF1" THEN Radix ^ (s.length - s.length \div 2) ELSE Left(s)

Block(s) == 0..(Left(s) * Right(s) - 1)

(* A block covers its shape's numbers, and ExclusiveOr undoes itself.      *)
ASSUME MaskingAssumption ==
  /\ {Rounds, MaxLength} \subseteq Nat /\ Rounds % 2 = 0
  /\ Radix ^ 0 = 1 /\ \A n \in 0..MaxLength : Radix ^ n \in Nat \ {0}
  /\ Halves \subseteq Nat \ {0}
  /\ \A s \in Shape : Numbers(s) \subseteq Block(s) /\ (s.cipher = "permute" => Left(s) \in Halves)
  /\ \A k \in Keys, s \in Shape, i \in 0..(Rounds - 1) : \A b \in Block(s) : Pseudorandom(k, s, i, b) \in Nat
  /\ \A half \in Halves : \A a, b \in 0..(half - 1) :
       ExclusiveOr(a, b) \in 0..(half - 1) /\ ExclusiveOr(ExclusiveOr(a, b), b) = a

VARIABLES
  strategy, normalize,  \* the column's policy
  key,
  round,
  network,  \* [Shapes -> [Block -> the two halves]]
  walk,     \* [Cells -> where its cycle walk has come to]
  begun     \* [Cells -> the numbers at which its passes began]

maskingVars == <<strategy, normalize, key, round, network, walk, begun>>

(* A value too short for FF1 is masked as key would. *)
Cipher(length) == IF strategy = "fpe" /\ length >= MinimumLength THEN "FF1" ELSE "permute"

Shapes == {s \in Shape : s.cipher = Cipher(s.length)}

(* What is masked: a number of a shape. *)
Cells == UNION {{[shape |-> s, number |-> n] : n \in Numbers(s)} : s \in Shapes}

MaskingInit ==
  /\ strategy \in Strategies /\ normalize \in BOOLEAN /\ key \in Keys
  /\ round = 0
  /\ network = [s \in Shapes |-> [n \in Block(s) |-> <<n \div Right(s), n % Right(s)>>]]
  /\ walk = [c \in Cells |-> c.number]
  /\ begun = [c \in Cells |-> {}]

-------------------------------------------------------------------------------
(* The network *)

Modulus(s, i) == IF i % 2 = 0 THEN Left(s) ELSE Right(s)

Mixed(s, i, a, b) ==
  LET y == Pseudorandom(key, s, i, b)
  IN  IF s.cipher = "FF1" THEN (a + y) % Modulus(s, i) ELSE ExclusiveOr(a, y % Left(s))

OneRound(s, i, halves) == <<halves[2], Mixed(s, i, halves[1], halves[2])>>

Round ==
  /\ round < Rounds
  /\ round' = round + 1
  /\ network' = [s \in Shapes |-> [n \in Block(s) |-> OneRound(s, round, network[s][n])]]
  /\ UNCHANGED <<strategy, normalize, key, walk, begun>>

Permuted(s, n) == network[s][n][1] * Right(s) + network[s][n][2]

-------------------------------------------------------------------------------
(* The walk: on through the block until a number of the shape is come to.  *)

Landed(c) == begun[c] # {} /\ walk[c] \in Numbers(c.shape)

PassFromTheStart ==  \* mutant: each pass begins with the value again
  /\ round = Rounds
  /\ \E c \in Cells : ~Landed(c)
  /\ walk' = [c \in Cells |-> IF Landed(c) THEN walk[c] ELSE Permuted(c.shape, c.number)]
  /\ begun' = [c \in Cells |-> IF Landed(c) THEN begun[c] ELSE begun[c] \cup {c.number}]
  /\ UNCHANGED <<strategy, normalize, key, round, network>>

Pass ==
  /\ round = Rounds
  /\ \E c \in Cells : ~Landed(c)
  /\ walk' = [c \in Cells |-> IF Landed(c) THEN walk[c] ELSE Permuted(c.shape, walk[c])]
  /\ begun' = [c \in Cells |-> IF Landed(c) THEN begun[c] ELSE begun[c] \cup {walk[c]}]
  /\ UNCHANGED <<strategy, normalize, key, round, network>>

MaskingNext == Round \/ Pass

MaskingSpec == MaskingInit /\ [][MaskingNext]_maskingVars /\ WF_maskingVars(MaskingNext)

-------------------------------------------------------------------------------
(* The column's values *)

ShapeAs(type, v) == [cipher |-> Cipher(v.length), type |-> type, sign |-> v.sign, length |-> v.length]

IsValue(v) ==
  /\ v.magnitude < Radix ^ v.length
  /\ v.type = "integer" => /\ v.length > 1 => v.magnitude >= Radix ^ (v.length - 1)
                           /\ v.sign = "-" => v.magnitude # 0

(* Text that spells an integer one way only is masked as that integer, if  *)
(* the policy's normalize says so.                                         *)
ShapeOf(v) ==
  IF normalize /\ v.magnitude >= Low(ShapeAs("integer", v)) THEN ShapeAs("integer", v) ELSE ShapeAs(v.type, v)

CellOf(v) == [shape |-> ShapeOf(v), number |-> v.magnitude - Offset(ShapeOf(v))]

Masked(v) == Landed(CellOf(v))

(* And is written back as text. *)
Mask(v) == [v EXCEPT !.magnitude = walk[CellOf(v)] + Offset(ShapeOf(v))]

-------------------------------------------------------------------------------
(* Properties *)

Permutes ==
  \A v \in Value : IsValue(v) /\ Masked(v) =>
    /\ IsValue(Mask(v))
    /\ \A w \in Value : IsValue(w) /\ Masked(w) /\ Mask(v) = Mask(w) => v = w

(* Whatever the key, its pseudorandom functions and the values' lengths, a *)
(* mask is a value of the same type, sign and length, and no two values    *)
(* have the same one: neither two that FF1 masks, nor two that fall back   *)
(* to key, nor two whose walks took a different number of passes.          *)
OneToOne == ~normalize => Permutes

(* key and fpe are one-to-one, and normalize lists steps that either takes,*)
(* the documentation says.                                                 *)
OneToOneNormalized == Permutes

(* Every walk comes to a number of its shape. *)
WalkEnds == <>(\A c \in Cells : Landed(c))
===============================================================================
