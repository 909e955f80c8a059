---------------------------- MODULE FindFirstSet ----------------------------
(* strings_posix2024: ffs, ffsl and ffsll, one loop over the bits of a signed  *)
(* value that is shifted to the right with its sign.                           *)
EXTENDS Integers

CONSTANTS IntWidth, LongWidth

ASSUME BitsAssumption ==
  IntWidth \in Nat \ {0} /\ LongWidth \in Nat /\ IntWidth <= LongWidth

PowerOfTwo[n \in 0 .. LongWidth] == IF n = 0 THEN 1 ELSE 2 * PowerOfTwo[n - 1]

Signed(width) == -PowerOfTwo[width - 1] .. PowerOfTwo[width - 1] - 1

\* Mutant of FfsBits: the position counts from zero.
FfsBitsFromZero(bits) ==
  LET pos[v \in Signed(LongWidth) \ {0}] == IF v % 2 = 1 THEN 0 ELSE pos[v \div 2] + 1
  IN  IF bits = 0 THEN 0 ELSE pos[bits]

\* v >> 1 of a signed value keeps its sign: it rounds down, as \div does.
\* The loop ends at the lowest set bit; zero has none and never enters it.
FfsBits(bits) ==
  LET pos[v \in Signed(LongWidth) \ {0}] == IF v % 2 = 1 THEN 1 ELSE pos[v \div 2] + 1
  IN  IF bits = 0 THEN 0 ELSE pos[bits]

-----------------------------------------------------------------------------
\* The bit at the one-based position p of the two's complement pattern.
PatternBit(v, width, p) ==
  (((v + PowerOfTwo[width]) % PowerOfTwo[width]) \div PowerOfTwo[p - 1]) % 2

\* What POSIX says of a value of this width: none, or the least set bit.
LeastSetBit(v, width, answer) ==
  \/ answer = 0 /\ \A p \in 1 .. width : PatternBit(v, width, p) = 0
  \/ /\ answer \in 1 .. width /\ PatternBit(v, width, answer) = 1
     /\ \A p \in 1 .. answer - 1 : PatternBit(v, width, p) = 0
=============================================================================
