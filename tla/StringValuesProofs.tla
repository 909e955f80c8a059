-------------------------- MODULE StringValuesProofs --------------------------
(* Proofs about StringValues and the validator it calls, for every byte string *)
(* and any sources, pieces, capacities and width of usize: validate_utf8       *)
(* answers with the longest well-formed prefix, and the values that a sequence *)
(* of operations makes keep what their roles promise.                          *)
EXTENDS MCStringValues, SequenceTheorems, WellFoundedInduction, TLAPS

\* The least-number principle.
LEMMA LeastElement ==
  ASSUME NEW T \in SUBSET Nat, T # {}
  PROVE  \E x \in T : \A y \in T : x <= y
<1>. DEFINE R == OpToRel(<, Nat)
<1>1. IsWellFoundedOn(R, Nat)
  BY NatLessThanWellFounded
<1>2. PICK x \in T : \A y \in T : ~(<<y, x>> \in R)
  <2>. HIDE DEF R
  <2>. QED
    BY <1>1, WFMin
<1>3. \A y \in T : ~(y < x)
  BY <1>2 DEF OpToRel
<1>. QED
  BY <1>3

\* A number read in base 64: its digits are what the divisions give back.
LEMMA Divide ==
  ASSUME NEW q \in Nat, NEW r \in Nat
  PROVE  /\ q \div 1 = q
         /\ r < 64 => (q * 64 + r) \div 64 = q /\ (q * 64 + r) % 64 = r
         /\ r < 4096 => (q * 4096 + r) \div 4096 = q
         /\ r < 262144 => (q * 262144 + r) \div 262144 = q
<1>1. q \div 1 = q
  BY SMT
<1>2. r < 64 => (q * 64 + r) \div 64 = q /\ (q * 64 + r) % 64 = r
  BY SMT
<1>3. r < 4096 => (q * 4096 + r) \div 4096 = q
  BY SMT
<1>4. r < 262144 => (q * 262144 + r) \div 262144 = q
  BY SMT
<1>. QED
  BY <1>1, <1>2, <1>3, <1>4, SMT

\* The payload of two bytes, digit by digit.
LEMMA Digits2 ==
  ASSUME NEW a \in Nat, NEW b \in Nat, a < 32, b < 64, NEW u, u = a * 64 + b
  PROVE  /\ u \in Nat /\ u < 2048 /\ u \div 64 = a /\ (u \div 1) % 64 = b
<1>1. u \div 64 = a /\ u % 64 = b
  BY Divide, SMT
<1>2. u \in Nat /\ u < 2048
  BY SMT
<1>3. u \div 1 = u
  BY <1>2, SMT
<1>. QED
  BY <1>1, <1>2, <1>3, SMT

\* Of three bytes.
LEMMA Digits3 ==
  ASSUME NEW a \in Nat, NEW b \in Nat, NEW c \in Nat, a < 16, b < 64, c < 64, NEW u,
         u = a * 4096 + b * 64 + c
  PROVE  /\ u \in Nat /\ u < 65536
         /\ u \div 4096 = a /\ (u \div 64) % 64 = b /\ (u \div 1) % 64 = c
<1>1. u \in Nat /\ u < 65536
  BY SMT
<1>2. PICK r \in Nat, k \in Nat : r = b * 64 + c /\ k = a * 64 + b
  BY SMT
<1>3. r < 4096 /\ u = a * 4096 + r /\ u = k * 64 + c
  BY <1>2, SMT
<1>4. u \div 4096 = a
  BY <1>3, Divide, SMT
<1>5. u \div 64 = k /\ u % 64 = c
  BY <1>3, Divide, SMT
<1>6. k % 64 = b
  BY <1>2, Divide, SMT
<1>7. u \div 1 = u
  BY <1>1, SMT
<1>. QED
  BY <1>1, <1>4, <1>5, <1>6, <1>7, SMT

\* Of four bytes: the number, and its digits.
Payload4(a, b, c, d) == a * 262144 + b * 4096 + c * 64 + d

Reads4(u, a, b, c, d) ==
  /\ u \div 262144 = a /\ (u \div 4096) % 64 = b
  /\ (u \div 64) % 64 = c /\ (u \div 1) % 64 = d

LEMMA Digits4 ==
  ASSUME NEW a \in Nat, NEW b \in Nat, NEW c \in Nat, NEW d \in Nat,
         a < 8, b < 64, c < 64, d < 64, NEW u,
         u = Payload4(a, b, c, d)
  PROVE  u \in Nat /\ Reads4(u, a, b, c, d)
<1>0. u = a * 262144 + b * 4096 + c * 64 + d
  BY SMT DEF Payload4
<1>1. u \in Nat /\ u < 2097152
  BY <1>0, SMT
<1>2. PICK r \in Nat, k \in Nat, l \in Nat, p \in Nat :
        /\ r = b * 4096 + c * 64 + d /\ p = c * 64 + d
        /\ k = a * 64 + b /\ l = k * 64 + c
  BY SMT
<1>3. /\ r < 262144 /\ u = a * 262144 + r
      /\ p < 4096 /\ u = k * 4096 + p /\ u = l * 64 + d
  BY <1>0, <1>2, SMT
<1>4. u \div 262144 = a
  BY <1>3, Divide, SMT
<1>5. u \div 4096 = k
  BY <1>3, Divide, SMT
<1>6. u \div 64 = l /\ u % 64 = d
  BY <1>3, Divide, SMT
<1>7. k % 64 = b /\ l % 64 = c
  BY <1>2, Divide, SMT
<1>8. u \div 1 = u
  BY <1>1, SMT
<1>. QED
  BY <1>1, <1>4, <1>5, <1>6, <1>7, <1>8, SMT DEF Reads4

\* What is left of a byte when its marker bits are cleared.
LEMMA LowBits ==
  ASSUME NEW a \in Octet
  PROVE  /\ a \in Nat /\ a < 256
         /\ a % 64 \in Nat /\ a % 64 < 64 /\ a % 32 \in Nat /\ a % 32 < 32
         /\ a % 16 \in Nat /\ a % 16 < 16 /\ a % 8 \in Nat /\ a % 8 < 8
BY SMT DEF Octet

------------------------------------------------------------------------------
\* One to four bytes as Decode and Encode read and write them.

LEMMA Decode1 == ASSUME NEW a PROVE Decode(<<a>>) = a
BY SMT DEF Decode

LEMMA Decode2 ==
  ASSUME NEW a, NEW b PROVE Decode(<<a, b>>) = (a % 32) * 64 + (b % 64)
BY SMT DEF Decode

LEMMA Decode3 ==
  ASSUME NEW a, NEW b, NEW c
  PROVE  Decode(<<a, b, c>>) = (a % 16) * 4096 + (b % 64) * 64 + (c % 64)
BY SMT DEF Decode

LEMMA Decode4 ==
  ASSUME NEW a, NEW b, NEW c, NEW d
  PROVE  Decode(<<a, b, c, d>>)
           = Payload4(a % 8, b % 64, c % 64, d % 64)
BY SMT DEF Decode, Payload4

LEMMA Encode1 == ASSUME NEW u \in Nat, u < 128 PROVE Encode(u) = <<u>>
BY SMT DEF Encode

LEMMA Encode2 ==
  ASSUME NEW u \in Nat, u >= 128, u < 2048
  PROVE  Encode(u) = <<192 + (u \div 64), Six(u, 1)>>
BY SMT DEF Encode

LEMMA Encode3 ==
  ASSUME NEW u \in Nat, u >= 2048, u < 65536
  PROVE  Encode(u) = <<224 + (u \div 4096), Six(u, 64), Six(u, 1)>>
BY SMT DEF Encode

LEMMA Encode4 ==
  ASSUME NEW u \in Nat, u >= 65536
  PROVE  Encode(u) = <<240 + (u \div 262144), Six(u, 4096), Six(u, 64), Six(u, 1)>>
BY SMT DEF Encode

------------------------------------------------------------------------------
\* What the validator accepts of each width is the encoding of a scalar value.

\* The bytes that continue a sequence, and those that may come second.
LEMMA InCont == ASSUME NEW b \in Octet PROVE b \in Cont <=> 128 <= b /\ b < 192
BY LowBits, SMT DEF Cont

LEMMA InSecond ==
  ASSUME NEW a \in Octet, NEW b \in Octet
  PROVE  b \in Second(a) <=>
           /\ 128 <= b /\ b < 192
           /\ a = 224 => 160 <= b
           /\ a = 237 => b < 160
           /\ a = 240 => 144 <= b
           /\ a = 244 => b < 144
<1>1. a \in Nat /\ b \in Nat
  BY LowBits
<1>2. CASE a = 224
  BY <1>1, <1>2, SMT DEF Second
<1>3. CASE a = 237
  BY <1>1, <1>3, SMT DEF Second
<1>4. CASE a = 240
  BY <1>1, <1>4, SMT DEF Second
<1>5. CASE a = 244
  BY <1>1, <1>5, SMT DEF Second
<1>6. CASE a \notin {224, 237, 240, 244}
  BY <1>1, <1>6, InCont, SMT DEF Second
<1> QED BY <1>2, <1>3, <1>4, <1>5, <1>6, SMT

\* The width a lead byte announces.
LEMMA WidthIs ==
  ASSUME NEW a \in Octet
  PROVE  /\ Width(a) \in 0 .. 4
         /\ Width(a) = 1 <=> a < 128
         /\ Width(a) = 2 <=> 194 <= a /\ a < 224
         /\ Width(a) = 3 <=> 224 <= a /\ a < 240
         /\ Width(a) = 4 <=> 240 <= a /\ a < 245
<1>1. a \in Nat /\ a < 256
  BY LowBits
<1>2. CASE a < 128
  BY <1>1, <1>2, SMT DEF Width
<1>3. CASE 128 <= a /\ a < 194
  BY <1>1, <1>3, SMT DEF Width
<1>4. CASE 194 <= a /\ a < 224
  BY <1>1, <1>4, SMT DEF Width
<1>5. CASE 224 <= a /\ a < 240
  BY <1>1, <1>5, SMT DEF Width
<1>6. CASE 240 <= a /\ a < 245
  BY <1>1, <1>6, SMT DEF Width
<1>7. CASE 245 <= a
  BY <1>1, <1>7, SMT DEF Width
<1> QED BY <1>1, <1>2, <1>3, <1>4, <1>5, <1>6, <1>7, SMT

\* One, two, three and four bytes that encode a scalar value.
LEMMA Scalar1 == ASSUME NEW a \in Octet PROVE IsScalarEncoding(<<a>>) <=> a < 128
<1>1. a \in Nat /\ a < 256
  BY LowBits
<1>2. CASE a < 128
  <2>1. Encode(a) = <<a>> /\ IsScalar(a)
    BY <1>1, <1>2, Encode1, SMT DEF IsScalar
  <2> QED BY <1>2, <2>1, Decode1, SMT DEF IsScalarEncoding
<1>3. CASE a >= 128
  <2>1. Encode(a) = <<192 + (a \div 64), Six(a, 1)>>
    BY <1>1, <1>3, Encode2, SMT
  <2>2. Encode(a) # <<a>>
    BY <2>1, SMT
  <2> QED BY <1>1, <1>3, <2>2, Decode1, SMT DEF IsScalarEncoding
<1> QED BY <1>1, <1>2, <1>3, SMT

LEMMA Scalar2 ==
  ASSUME NEW a \in Octet, NEW b \in Octet
  PROVE  IsScalarEncoding(<<a, b>>) <=> 194 <= a /\ a < 224 /\ 128 <= b /\ b < 192
<1>1. PICK a0 \in Nat, b0 \in Nat, u \in Nat :
        /\ a0 = a % 32 /\ b0 = b % 64 /\ a0 < 32 /\ b0 < 64 /\ u = a0 * 64 + b0
  BY LowBits, SMT
<1>2. Decode(<<a, b>>) = u
  BY <1>1, Decode2, SMT
<1>3. u \in Nat /\ u < 2048 /\ u \div 64 = a0 /\ (u \div 1) % 64 = b0
  BY <1>1, Digits2, SMT
<1>4. IsScalar(u)
  BY <1>3, SMT DEF IsScalar
<1>5. a \in Nat /\ a < 256 /\ b \in Nat /\ b < 256
  BY LowBits
<1>6. CASE u < 128
  <2>1. Encode(u) = <<u>>
    BY <1>3, <1>6, Encode1, SMT
  <2>2. Encode(u) # <<a, b>>
    BY <2>1, SMT
  <2>3. ~(194 <= a /\ a < 224)
    BY <1>1, <1>5, <1>6, SMT
  <2> QED BY <1>2, <2>2, <2>3, SMT DEF IsScalarEncoding
<1>7. CASE u >= 128
  <2>0. Six(u, 1) = 128 + b0
    BY <1>3, SMT DEF Six
  <2>1. Encode(u) = <<192 + a0, 128 + b0>>
    BY <1>3, <1>7, <2>0, Encode2, SMT
  <2>2. Encode(u) = <<a, b>> <=> a = 192 + a0 /\ b = 128 + b0
    BY <2>1, SMT
  <2>3. a0 >= 2
    BY <1>1, <1>7, SMT
  <2>4. a = 192 + a0 <=> 194 <= a /\ a < 224
    BY <1>1, <1>5, <2>3, SMT
  <2>5. b = 128 + b0 <=> 128 <= b /\ b < 192
    BY <1>1, <1>5, SMT
  <2> QED BY <1>2, <1>4, <2>2, <2>4, <2>5, SMT DEF IsScalarEncoding
<1> QED BY <1>3, <1>6, <1>7, SMT

LEMMA Scalar3 ==
  ASSUME NEW a \in Octet, NEW b \in Octet, NEW c \in Octet
  PROVE  IsScalarEncoding(<<a, b, c>>) <=>
           /\ 224 <= a /\ a < 240 /\ 128 <= b /\ b < 192 /\ 128 <= c /\ c < 192
           /\ a = 224 => 160 <= b
           /\ a = 237 => b < 160
<1>1. PICK a0 \in Nat, b0 \in Nat, c0 \in Nat, u \in Nat :
        /\ a0 = a % 16 /\ b0 = b % 64 /\ c0 = c % 64
        /\ a0 < 16 /\ b0 < 64 /\ c0 < 64 /\ u = a0 * 4096 + b0 * 64 + c0
  BY LowBits, SMT
<1>2. Decode(<<a, b, c>>) = u
  BY <1>1, Decode3, SMT
<1>3. u \in Nat /\ u < 65536 /\ u \div 4096 = a0 /\ (u \div 64) % 64 = b0 /\ (u \div 1) % 64 = c0
  BY <1>1, Digits3, SMT
<1>4. /\ a \in Nat /\ a < 256 /\ b \in Nat /\ b < 256 /\ c \in Nat /\ c < 256
  BY LowBits
<1>5. CASE u < 2048
  <2>1. Encode(u) # <<a, b, c>>
    <3>1. CASE u < 128
      <4>1. Encode(u) = <<u>>
        BY <1>3, <3>1, Encode1, SMT
      <4> QED BY <4>1, SMT
    <3>2. CASE u >= 128
      <4>1. Encode(u) = <<192 + (u \div 64), Six(u, 1)>>
        BY <1>3, <1>5, <3>2, Encode2, SMT
      <4> QED BY <4>1, SMT
    <3> QED BY <1>3, <3>1, <3>2, SMT
  <2>2. a0 = 0 /\ b0 < 32
    BY <1>1, <1>5, SMT
  <2>3. ~(224 <= a /\ a < 240 /\ 128 <= b /\ b < 192 /\ (a = 224 => 160 <= b))
    BY <1>1, <1>4, <2>2, SMT
  <2> QED BY <1>2, <2>1, <2>3, SMT DEF IsScalarEncoding
<1>6. CASE u >= 2048
  <2>1. Six(u, 64) = 128 + b0 /\ Six(u, 1) = 128 + c0
    BY <1>3, SMT DEF Six
  <2>2. Encode(u) = <<224 + a0, 128 + b0, 128 + c0>>
    BY <1>3, <1>6, <2>1, Encode3, SMT
  <2>3. Encode(u) = <<a, b, c>> <=> a = 224 + a0 /\ b = 128 + b0 /\ c = 128 + c0
    BY <2>2, SMT
  <2>4. a = 224 + a0 <=> 224 <= a /\ a < 240
    BY <1>1, <1>4, SMT
  <2>5. b = 128 + b0 <=> 128 <= b /\ b < 192
    BY <1>1, <1>4, SMT
  <2>6. c = 128 + c0 <=> 128 <= c /\ c < 192
    BY <1>1, <1>4, SMT
  <2>7. a0 >= 1 \/ b0 >= 32
    BY <1>1, <1>6, SMT
  <2>8. IsScalar(u) <=> ~(a0 = 13 /\ b0 >= 32)
    <3>1. CASE a0 < 13
      <4>1. u < 55296
        BY <1>1, <3>1, SMT
      <4> QED BY <1>3, <3>1, <4>1, SMT DEF IsScalar
    <3>2. CASE a0 > 13
      <4>1. u > 57343
        BY <1>1, <3>2, SMT
      <4> QED BY <1>3, <3>2, <4>1, SMT DEF IsScalar
    <3>3. CASE a0 = 13
      <4>1. u < 57344 /\ (u < 55296 <=> b0 < 32)
        BY <1>1, <3>3, SMT
      <4> QED BY <1>1, <1>3, <3>3, <4>1, SMT DEF IsScalar
    <3> QED BY <1>1, <3>1, <3>2, <3>3, SMT
  <2>9. (IsScalar(u) /\ a = 224 + a0 /\ b = 128 + b0 /\ c = 128 + c0) <=>
           /\ a = 224 + a0 /\ b = 128 + b0 /\ c = 128 + c0
           /\ a = 224 => 160 <= b
           /\ a = 237 => b < 160
    BY <1>1, <1>4, <2>7, <2>8, SMT
  <2> QED BY <1>2, <2>3, <2>4, <2>5, <2>6, <2>9, SMT DEF IsScalarEncoding
<1> QED BY <1>3, <1>5, <1>6, SMT

LEMMA Scalar4 ==
  ASSUME NEW a \in Octet, NEW b \in Octet, NEW c \in Octet, NEW d \in Octet
  PROVE  IsScalarEncoding(<<a, b, c, d>>) <=>
           /\ 240 <= a /\ a < 245 /\ 128 <= b /\ b < 192
           /\ 128 <= c /\ c < 192 /\ 128 <= d /\ d < 192
           /\ a = 240 => 144 <= b
           /\ a = 244 => b < 144
<1>a. PICK a0, b0, c0, d0 : /\ a0 = a % 8 /\ b0 = b % 64 /\ c0 = c % 64 /\ d0 = d % 64
  OBVIOUS
<1>b. PICK u : u = Payload4(a0, b0, c0, d0)
  OBVIOUS
<1>c. /\ a0 \in Nat /\ a0 < 8 /\ b0 \in Nat /\ b0 < 64
      /\ c0 \in Nat /\ c0 < 64 /\ d0 \in Nat /\ d0 < 64
  BY <1>a, LowBits, SMT
<1>1. /\ a0 = a % 8 /\ b0 = b % 64 /\ c0 = c % 64 /\ d0 = d % 64
      /\ a0 \in Nat /\ b0 \in Nat /\ c0 \in Nat /\ d0 \in Nat
      /\ a0 < 8 /\ b0 < 64 /\ c0 < 64 /\ d0 < 64
      /\ u = Payload4(a0, b0, c0, d0)
  BY <1>a, <1>b, <1>c, Zenon
<1>2. Decode(<<a, b, c, d>>) = u
  BY <1>a, <1>b, Decode4, Zenon
<1>d. u \in Nat /\ Reads4(u, a0, b0, c0, d0)
  BY <1>1, Digits4, Zenon
<1>3. /\ u \in Nat /\ u \div 262144 = a0 /\ (u \div 4096) % 64 = b0
      /\ (u \div 64) % 64 = c0 /\ (u \div 1) % 64 = d0
  BY <1>d, SMT DEF Reads4
<1>4. /\ a \in Nat /\ a < 256 /\ b \in Nat /\ b < 256
      /\ c \in Nat /\ c < 256 /\ d \in Nat /\ d < 256
  BY LowBits
<1>5. CASE u < 65536
  <2>1. Encode(u) # <<a, b, c, d>>
    <3>1. CASE u < 128
      <4>1. Encode(u) = <<u>>
        BY <1>3, <3>1, Encode1, SMT
      <4> QED BY <4>1, SMT
    <3>2. CASE u >= 128 /\ u < 2048
      <4>1. Encode(u) = <<192 + (u \div 64), Six(u, 1)>>
        BY <1>3, <3>2, Encode2, SMT
      <4> QED BY <4>1, SMT
    <3>3. CASE u >= 2048
      <4>1. Encode(u) = <<224 + (u \div 4096), Six(u, 64), Six(u, 1)>>
        BY <1>3, <1>5, <3>3, Encode3, SMT
      <4> QED BY <4>1, SMT
    <3> QED BY <1>3, <3>1, <3>2, <3>3, SMT
  <2>2. a0 = 0 /\ b0 < 16
    BY <1>1, <1>5, SMT DEF Payload4
  <2>3. ~(240 <= a /\ a < 245 /\ 128 <= b /\ b < 192 /\ (a = 240 => 144 <= b))
    BY <1>1, <1>4, <2>2, SMT
  <2> QED BY <1>2, <2>1, <2>3, SMT DEF IsScalarEncoding
<1>6. CASE u >= 65536
  <2>1. Six(u, 4096) = 128 + b0 /\ Six(u, 64) = 128 + c0 /\ Six(u, 1) = 128 + d0
    BY <1>3, SMT DEF Six
  <2>2. Encode(u) = <<240 + a0, 128 + b0, 128 + c0, 128 + d0>>
    BY <1>3, <1>6, <2>1, Encode4, SMT
  <2>3. Encode(u) = <<a, b, c, d>> <=>
          a = 240 + a0 /\ b = 128 + b0 /\ c = 128 + c0 /\ d = 128 + d0
    BY <2>2, SMT
  <2>4. a = 240 + a0 <=> 240 <= a /\ a < 248
    BY <1>1, <1>4, SMT
  <2>5. b = 128 + b0 <=> 128 <= b /\ b < 192
    BY <1>1, <1>4, SMT
  <2>6. c = 128 + c0 <=> 128 <= c /\ c < 192
    BY <1>1, <1>4, SMT
  <2>7. d = 128 + d0 <=> 128 <= d /\ d < 192
    BY <1>1, <1>4, SMT
  <2>8. a0 >= 1 \/ b0 >= 16
    BY <1>1, <1>6, SMT DEF Payload4
  <2>9. IsScalar(u) <=> a0 < 4 \/ (a0 = 4 /\ b0 < 16)
    <3>0. IsScalar(u) <=> u <= 1114111
      BY <1>3, <1>6, SMT DEF IsScalar
    <3>1. CASE a0 < 4
      <4>1. u <= 1114111
        BY <1>1, <3>1, SMT DEF Payload4
      <4> QED BY <3>0, <3>1, <4>1, SMT
    <3>2. CASE a0 > 4
      <4>1. u > 1114111
        BY <1>1, <3>2, SMT DEF Payload4
      <4> QED BY <1>1, <1>3, <3>0, <3>2, <4>1, SMT
    <3>3. CASE a0 = 4
      <4>1. u <= 1114111 <=> b0 < 16
        BY <1>1, <3>3, SMT DEF Payload4
      <4> QED BY <3>0, <3>3, <4>1, SMT
    <3> QED BY <1>1, <3>1, <3>2, <3>3, SMT
  <2>10. (IsScalar(u) /\ a = 240 + a0 /\ b = 128 + b0) <=>
           /\ a = 240 + a0 /\ b = 128 + b0
           /\ a < 245
           /\ a = 240 => 144 <= b
           /\ a = 244 => b < 144
    BY <1>1, <1>4, <2>8, <2>9, SMT
  <2>11. IsScalarEncoding(<<a, b, c, d>>) <=>
           IsScalar(u) /\ a = 240 + a0 /\ b = 128 + b0 /\ c = 128 + c0 /\ d = 128 + d0
    BY <1>2, <2>3, SMT DEF IsScalarEncoding
  <2> QED BY <1>4, <2>4, <2>5, <2>6, <2>7, <2>10, <2>11, SMT
<1> QED BY <1>3, <1>5, <1>6, SMT

------------------------------------------------------------------------------
\* Windows of a text, and the sequence that begins at an offset.

\* Elements and slices of a sequence.
LEMMA ElementOf ==
  ASSUME NEW S, NEW s \in Seq(S), NEW x \in 1 .. Len(s)
  PROVE  s[x] \in S
OBVIOUS

LEMMA SliceIs ==
  ASSUME NEW S, NEW s \in Seq(S), NEW i \in Nat, NEW k \in Nat, i <= k, k <= Len(s)
  PROVE  /\ SubSeq(s, i + 1, k) \in Seq(S) /\ Len(SubSeq(s, i + 1, k)) = k - i
         /\ \A x \in 1 .. k - i : SubSeq(s, i + 1, k)[x] = s[i + x]
<1>1. PICK m \in Int : m = i + 1
  OBVIOUS
<1>2. \A x \in m .. k : s[x] \in S
  BY <1>1, SMT
<1>3. /\ SubSeq(s, m, k) \in Seq(S)
      /\ Len(SubSeq(s, m, k)) = IF m <= k THEN k - m + 1 ELSE 0
      /\ \A x \in 1 .. k - m + 1 : SubSeq(s, m, k)[x] = s[m + x - 1]
  BY <1>2, SubSeqProperties
<1>4. (IF m <= k THEN k - m + 1 ELSE 0) = k - i
  BY <1>1, SMT
<1>5. \A x \in 1 .. k - i : x \in 1 .. k - m + 1 /\ m + x - 1 = i + x
  BY <1>1, SMT
<1> QED BY <1>1, <1>3, <1>4, <1>5, Zenon

\* The bytes at an offset.
LEMMA WindowIs ==
  ASSUME NEW S, NEW s \in Seq(S), NEW i \in Nat, NEW n \in Nat, i + n <= Len(s)
  PROVE  /\ Window(s, i, n) \in Seq(S) /\ Len(Window(s, i, n)) = n
         /\ \A x \in 1 .. n : Window(s, i, n)[x] = s[i + x]
<1>1. PICK k \in Nat : k = i + n
  OBVIOUS
<1>2. i <= k /\ k <= Len(s) /\ k - i = n
  BY <1>1, SMT
<1>3. Window(s, i, n) = SubSeq(s, i + 1, k)
  BY <1>1, Zenon DEF Window
<1> QED BY <1>2, <1>3, SliceIs

\* The same bytes, one by one.
LEMMA Windows ==
  ASSUME NEW s \in Seq(Octet), NEW i \in Nat
  PROVE  /\ i + 1 <= Len(s) => Window(s, i, 1) = <<s[i + 1]>>
         /\ i + 2 <= Len(s) => Window(s, i, 2) = <<s[i + 1], s[i + 2]>>
         /\ i + 3 <= Len(s) => Window(s, i, 3) = <<s[i + 1], s[i + 2], s[i + 3]>>
         /\ i + 4 <= Len(s) =>
              Window(s, i, 4) = <<s[i + 1], s[i + 2], s[i + 3], s[i + 4]>>
<1>1. i + 1 <= Len(s) => Window(s, i, 1) = <<s[i + 1]>>
  <2>. SUFFICES ASSUME i + 1 <= Len(s) PROVE Window(s, i, 1) = <<s[i + 1]>>
    OBVIOUS
  <2>0. 1 \in Nat
    OBVIOUS
  <2>1. /\ Window(s, i, 1) \in Seq(Octet) /\ Len(Window(s, i, 1)) = 1
        /\ \A x \in 1 .. 1 : Window(s, i, 1)[x] = s[i + x]
    BY <2>0, WindowIs, Zenon
  <2>2. PICK t : t = <<s[i + 1]>>
    OBVIOUS
  <2>3. s[i + 1] \in Octet
    BY ElementOf, SMT
  <2>4. t \in Seq(Octet) /\ Len(t) = 1 /\ \A x \in 1 .. 1 : t[x] = s[i + x]
    BY <2>2, <2>3, SMT
  <2>5. /\ Len(Window(s, i, 1)) = Len(t)
        /\ \A x \in 1 .. Len(Window(s, i, 1)) : Window(s, i, 1)[x] = t[x]
    BY <2>1, <2>4, Zenon
  <2>6. Window(s, i, 1) = t
    BY <2>1, <2>4, <2>5, SeqEqual, Zenon
  <2> QED BY <2>2, <2>6, Zenon
<1>2. i + 2 <= Len(s) => Window(s, i, 2) = <<s[i + 1], s[i + 2]>>
  <2>. SUFFICES ASSUME i + 2 <= Len(s) PROVE Window(s, i, 2) = <<s[i + 1], s[i + 2]>>
    OBVIOUS
  <2>0. 2 \in Nat
    OBVIOUS
  <2>1. /\ Window(s, i, 2) \in Seq(Octet) /\ Len(Window(s, i, 2)) = 2
        /\ \A x \in 1 .. 2 : Window(s, i, 2)[x] = s[i + x]
    BY <2>0, WindowIs, Zenon
  <2>2. PICK t : t = <<s[i + 1], s[i + 2]>>
    OBVIOUS
  <2>3. s[i + 1] \in Octet /\ s[i + 2] \in Octet
    BY ElementOf, SMT
  <2>4. t \in Seq(Octet) /\ Len(t) = 2 /\ \A x \in 1 .. 2 : t[x] = s[i + x]
    BY <2>2, <2>3, SMT
  <2>5. /\ Len(Window(s, i, 2)) = Len(t)
        /\ \A x \in 1 .. Len(Window(s, i, 2)) : Window(s, i, 2)[x] = t[x]
    BY <2>1, <2>4, Zenon
  <2>6. Window(s, i, 2) = t
    BY <2>1, <2>4, <2>5, SeqEqual, Zenon
  <2> QED BY <2>2, <2>6, Zenon
<1>3. i + 3 <= Len(s) => Window(s, i, 3) = <<s[i + 1], s[i + 2], s[i + 3]>>
  <2>. SUFFICES ASSUME i + 3 <= Len(s)
       PROVE  Window(s, i, 3) = <<s[i + 1], s[i + 2], s[i + 3]>>
    OBVIOUS
  <2>0. 3 \in Nat
    OBVIOUS
  <2>1. /\ Window(s, i, 3) \in Seq(Octet) /\ Len(Window(s, i, 3)) = 3
        /\ \A x \in 1 .. 3 : Window(s, i, 3)[x] = s[i + x]
    BY <2>0, WindowIs, Zenon
  <2>2. PICK t : t = <<s[i + 1], s[i + 2], s[i + 3]>>
    OBVIOUS
  <2>3. s[i + 1] \in Octet /\ s[i + 2] \in Octet /\ s[i + 3] \in Octet
    BY ElementOf, SMT
  <2>4. t \in Seq(Octet) /\ Len(t) = 3 /\ \A x \in 1 .. 3 : t[x] = s[i + x]
    BY <2>2, <2>3, SMT
  <2>5. /\ Len(Window(s, i, 3)) = Len(t)
        /\ \A x \in 1 .. Len(Window(s, i, 3)) : Window(s, i, 3)[x] = t[x]
    BY <2>1, <2>4, Zenon
  <2>6. Window(s, i, 3) = t
    BY <2>1, <2>4, <2>5, SeqEqual, Zenon
  <2> QED BY <2>2, <2>6, Zenon
<1>4. i + 4 <= Len(s) => Window(s, i, 4) = <<s[i + 1], s[i + 2], s[i + 3], s[i + 4]>>
  <2>. SUFFICES ASSUME i + 4 <= Len(s)
       PROVE  Window(s, i, 4) = <<s[i + 1], s[i + 2], s[i + 3], s[i + 4]>>
    OBVIOUS
  <2>0. 4 \in Nat
    OBVIOUS
  <2>1. /\ Window(s, i, 4) \in Seq(Octet) /\ Len(Window(s, i, 4)) = 4
        /\ \A x \in 1 .. 4 : Window(s, i, 4)[x] = s[i + x]
    BY <2>0, WindowIs, Zenon
  <2>2. PICK t : t = <<s[i + 1], s[i + 2], s[i + 3], s[i + 4]>>
    OBVIOUS
  <2>3. s[i + 1] \in Octet /\ s[i + 2] \in Octet /\ s[i + 3] \in Octet /\ s[i + 4] \in Octet
    BY ElementOf, SMT
  <2>4. t \in Seq(Octet) /\ Len(t) = 4 /\ \A x \in 1 .. 4 : t[x] = s[i + x]
    BY <2>2, <2>3, SMT
  <2>5. /\ Len(Window(s, i, 4)) = Len(t)
        /\ \A x \in 1 .. Len(Window(s, i, 4)) : Window(s, i, 4)[x] = t[x]
    BY <2>1, <2>4, Zenon
  <2>6. Window(s, i, 4) = t
    BY <2>1, <2>4, <2>5, SeqEqual, Zenon
  <2> QED BY <2>2, <2>6, Zenon
<1> QED BY <1>1, <1>2, <1>3, <1>4, Zenon

\* SeqWidth at an offset says whether the encoding of a scalar stands there.
LEMMA EncodingAt ==
  ASSUME NEW s \in Seq(Octet), NEW i \in Nat, NEW w \in 1 .. 4, i + w <= Len(s)
  PROVE  IsScalarEncoding(Window(s, i, w)) <=> Width(s[i + 1]) = w /\ Accepts(s, i)
<1>0. PICK a, b, c, d : /\ a = s[i + 1] /\ b = s[i + 2] /\ c = s[i + 3] /\ d = s[i + 4]
  OBVIOUS
<1>1. Len(s) \in Nat /\ a \in Octet
  BY <1>0, ElementOf, SMT
<1>2. Accepts(s, i) /\ Width(a) = w <=>
        /\ Width(a) = w
        /\ w > 1 => b \in Second(a)
        /\ \A x \in 3 .. w : s[i + x] \in Cont
  <2>1. Accepts(s, i) <=> /\ Width(a) > 0 /\ i + Width(a) <= Len(s)
                          /\ Width(a) > 1 => b \in Second(a)
                          /\ \A x \in 3 .. Width(a) : s[i + x] \in Cont
    BY <1>0, Zenon DEF Accepts
  <2>2. w > 0
    OBVIOUS
  <2> QED BY <2>1, <2>2, Zenon
<1>3. CASE w = 1
  <2>1. IsScalarEncoding(Window(s, i, w)) <=> a < 128
    BY <1>1, <1>3, <1>0, Windows, Scalar1, SMT
  <2>2. Width(a) = 1 <=> a < 128
    BY <1>1, WidthIs, SMT
  <2>3. \A x \in 3 .. w : s[i + x] \in Cont
    BY <1>3, SMT
  <2> QED BY <1>0, <1>2, <1>3, <2>1, <2>2, <2>3, SMT
<1>4. CASE w = 2
  <2>0. b \in Octet
    BY <1>1, <1>4, <1>0, ElementOf, SMT
  <2>1. IsScalarEncoding(Window(s, i, w)) <=> 194 <= a /\ a < 224 /\ 128 <= b /\ b < 192
    BY <1>1, <1>4, <2>0, <1>0, Windows, Scalar2, SMT
  <2>2. Width(a) = 2 <=> 194 <= a /\ a < 224
    BY <1>1, WidthIs, SMT
  <2>3. \A x \in 3 .. w : s[i + x] \in Cont
    BY <1>4, SMT
  <2>4. (194 <= a /\ a < 224) => (b \in Second(a) <=> 128 <= b /\ b < 192)
    <3>1. /\ a \in Octet /\ b \in Octet
      BY <1>1, <2>0
    <3>2. b \in Second(a) <=>
           /\ 128 <= b /\ b < 192
           /\ a = 224 => 160 <= b
           /\ a = 237 => b < 160
           /\ a = 240 => 144 <= b
           /\ a = 244 => b < 144
      BY <3>1, InSecond, SMT
    <3>3. a \in Nat /\ b \in Nat
      BY <3>1, LowBits
    <3> QED BY <3>2, <3>3, SMT
  <2> QED BY <1>0, <1>2, <1>4, <2>1, <2>2, <2>3, <2>4, SMT
<1>5. CASE w = 3
  <2>0. b \in Octet /\ c \in Octet
    BY <1>1, <1>5, <1>0, ElementOf, SMT
  <2>1. IsScalarEncoding(Window(s, i, w)) <=>
           /\ 224 <= a /\ a < 240 /\ 128 <= b /\ b < 192 /\ 128 <= c /\ c < 192
           /\ a = 224 => 160 <= b
           /\ a = 237 => b < 160
    BY <1>1, <1>5, <2>0, <1>0, Windows, Scalar3, SMT
  <2>2. Width(a) = 3 <=> 224 <= a /\ a < 240
    BY <1>1, WidthIs, SMT
  <2>3. (\A x \in 3 .. w : s[i + x] \in Cont) <=> 128 <= c /\ c < 192
    <3>1. (\A x \in 3 .. w : s[i + x] \in Cont) <=> c \in Cont
      BY <1>0, <1>5, SMT
    <3> QED BY <3>1, <2>0, InCont, Zenon
  <2>4. (224 <= a /\ a < 240) =>
           (b \in Second(a) <=> /\ 128 <= b /\ b < 192
                                /\ a = 224 => 160 <= b
                                /\ a = 237 => b < 160)
    <3>1. /\ a \in Octet /\ b \in Octet
      BY <1>1, <2>0
    <3>2. b \in Second(a) <=>
           /\ 128 <= b /\ b < 192
           /\ a = 224 => 160 <= b
           /\ a = 237 => b < 160
           /\ a = 240 => 144 <= b
           /\ a = 244 => b < 144
      BY <3>1, InSecond, SMT
    <3>3. a \in Nat /\ b \in Nat
      BY <3>1, LowBits
    <3> QED BY <3>2, <3>3, SMT
  <2>5. w > 1
    BY <1>5, SMT
  <2> QED BY <1>0, <1>2, <1>5, <2>1, <2>2, <2>3, <2>4, <2>5, Zenon
<1>6. CASE w = 4
  <2>0. b \in Octet /\ c \in Octet /\ d \in Octet
    BY <1>1, <1>6, <1>0, ElementOf, SMT
  <2>1. IsScalarEncoding(Window(s, i, w)) <=>
           /\ 240 <= a /\ a < 245 /\ 128 <= b /\ b < 192
           /\ 128 <= c /\ c < 192 /\ 128 <= d /\ d < 192
           /\ a = 240 => 144 <= b
           /\ a = 244 => b < 144
    BY <1>1, <1>6, <2>0, <1>0, Windows, Scalar4, SMT
  <2>2. Width(a) = 4 <=> 240 <= a /\ a < 245
    BY <1>1, WidthIs, SMT
  <2>3. (\A x \in 3 .. w : s[i + x] \in Cont) <=> /\ 128 <= c /\ c < 192
                                                  /\ 128 <= d /\ d < 192
    <3>1. (\A x \in 3 .. w : s[i + x] \in Cont) <=> c \in Cont /\ d \in Cont
      BY <1>0, <1>6, SMT
    <3> QED BY <3>1, <2>0, InCont, Zenon
  <2>4. (240 <= a /\ a < 245) =>
           (b \in Second(a) <=> /\ 128 <= b /\ b < 192
                                /\ a = 240 => 144 <= b
                                /\ a = 244 => b < 144)
    <3>1. /\ a \in Octet /\ b \in Octet
      BY <1>1, <2>0
    <3>2. b \in Second(a) <=>
           /\ 128 <= b /\ b < 192
           /\ a = 224 => 160 <= b
           /\ a = 237 => b < 160
           /\ a = 240 => 144 <= b
           /\ a = 244 => b < 144
      BY <3>1, InSecond, SMT
    <3>3. a \in Nat /\ b \in Nat
      BY <3>1, LowBits
    <3> QED BY <3>2, <3>3, SMT
  <2>5. w > 1
    BY <1>6, SMT
  <2> QED BY <1>0, <1>2, <1>6, <2>1, <2>2, <2>3, <2>4, <2>5, Zenon
<1>7. w = 1 \/ w = 2 \/ w = 3 \/ w = 4
  BY SMT
<1> QED BY <1>3, <1>4, <1>5, <1>6, <1>7, Zenon

------------------------------------------------------------------------------
\* Well-formedness by cuts, and where a text can be cut at all.

\* A bounded set of offsets has a last one.
LEMMA GreatestElement ==
  ASSUME NEW n \in Nat, NEW T \in SUBSET (0 .. n), T # {}
  PROVE  \E x \in T : \A y \in T : y <= x
<1>1. PICK D \in SUBSET Nat : D = {d \in Nat : d <= n /\ n - d \in T}
  OBVIOUS
<1>2. PICK z \in T : TRUE
  OBVIOUS
<1>3. n - z \in D /\ D # {}
  BY <1>1, <1>2, SMT
<1>4. PICK d \in D : \A e \in D : d <= e
  BY <1>3, LeastElement
<1>5. n - d \in T
  BY <1>1, <1>4
<1>6. ASSUME NEW y \in T PROVE y <= n - d
  <2>1. n - y \in D
    BY <1>1, <1>6, SMT
  <2> QED BY <1>1, <1>4, <2>1, SMT
<1> QED BY <1>5, <1>6

\* A lead byte is not a continuation byte, and the bytes after it are.
LEMMA LeadFacts ==
  ASSUME NEW a \in Octet
  PROVE  /\ Width(a) \in 0 .. 4
         /\ Width(a) > 0 => a \notin Cont
         /\ \A b \in Octet : b \in Second(a) => b \in Cont
<1>1. a \in Nat
  BY LowBits
<1>2. Width(a) > 0 => a \notin Cont
  <2>1. a \in Cont <=> 128 <= a /\ a < 192
    BY InCont
  <2>2. /\ Width(a) \in 0 .. 4
        /\ Width(a) = 1 <=> a < 128
        /\ Width(a) = 2 <=> 194 <= a /\ a < 224
        /\ Width(a) = 3 <=> 224 <= a /\ a < 240
        /\ Width(a) = 4 <=> 240 <= a /\ a < 245
    BY WidthIs, SMT
  <2> QED BY <1>1, <2>1, <2>2, SMT
<1>3. ASSUME NEW b \in Octet, b \in Second(a) PROVE b \in Cont
  <2>1. 128 <= b /\ b < 192
    BY <1>3, InSecond, SMT
  <2> QED BY <2>1, InCont, SMT
<1>4. Width(a) \in 0 .. 4
  BY WidthIs, SMT
<1> QED BY <1>2, <1>3, <1>4, Zenon

\* What the sequence at offset i covers.
LEMMA Covered ==
  ASSUME NEW s \in Seq(Octet), NEW i \in Nat, i < Len(s), Accepts(s, i)
  PROVE  /\ Width(s[i + 1]) \in 1 .. 4
         /\ i + Width(s[i + 1]) <= Len(s)
         /\ s[i + 1] \notin Cont
         /\ \A x \in 2 .. Width(s[i + 1]) : s[i + x] \in Cont
<1>1. Len(s) \in Nat /\ s[i + 1] \in Octet
  BY ElementOf, SMT
<1>2. PICK w : w = Width(s[i + 1])
  OBVIOUS
<1>3. /\ w > 0 /\ i + w <= Len(s)
      /\ w > 1 => s[i + 2] \in Second(s[i + 1])
      /\ \A x \in 3 .. w : s[i + x] \in Cont
  BY <1>2, Zenon DEF Accepts
<1>4. w \in 1 .. 4
  BY <1>1, <1>2, <1>3, LeadFacts, SMT
<1>5. s[i + 1] \notin Cont
  BY <1>1, <1>2, <1>3, LeadFacts, Zenon
<1>6. ASSUME NEW x \in 2 .. w PROVE s[i + x] \in Cont
  <2>1. CASE x = 2
    <3>1. w > 1 /\ s[i + 2] \in Octet
      BY <1>1, <1>3, <1>4, <2>1, ElementOf, SMT
    <3> QED BY <1>1, <1>3, <2>1, <3>1, LeadFacts, Zenon
  <2>2. CASE x # 2
    <3>1. x \in 3 .. w
      BY <1>4, <2>2, SMT
    <3> QED BY <1>3, <3>1
  <2> QED BY <2>1, <2>2
<1> QED BY <1>2, <1>3, <1>4, <1>5, <1>6, Zenon

\* The same, of the offsets within it.
LEMMA NoCutWithin ==
  ASSUME NEW s \in Seq(Octet), NEW i \in Nat, i < Len(s), Accepts(s, i),
         NEW j \in Nat, i < j, j < i + Width(s[i + 1])
  PROVE  j < Len(s) /\ ~TextIsBoundary(s, j)
<1>0. PICK w : w = Width(s[i + 1])
  OBVIOUS
<1>1. /\ w \in 1 .. 4 /\ i + w <= Len(s)
      /\ \A x \in 2 .. w : s[i + x] \in Cont
  BY <1>0, Covered, Zenon
<1>2. PICK x \in Int : x = j - i + 1
  BY SMT
<1>3. x \in 2 .. w /\ i + x = j + 1 /\ j \in 1 .. Len(s) - 1
  BY <1>0, <1>1, <1>2, SMT
<1>4. s[j + 1] \in Cont
  BY <1>1, <1>3
<1>5. j < Len(s)
  BY <1>3, SMT
<1> QED BY <1>3, <1>4, <1>5, Zenon DEF TextIsBoundary

\* An offset where the text can be cut begins a whole sequence that ends at
\* another one: the local form of well-formedness.
EachWhole(s) ==
  \A i \in 0 .. Len(s) - 1 : TextIsBoundary(s, i) =>
    Accepts(s, i) /\ TextIsBoundary(s, i + Width(s[i + 1]))

\* The cuts of a well-formed text are all the places where it can be cut.
LEMMA WellFormedIsWhole ==
  ASSUME NEW s \in Seq(Octet), WellFormed(s)
  PROVE  EachWhole(s)
<1>0. Len(s) \in Nat
  OBVIOUS
<1>1. PICK cuts \in SUBSET (0 .. Len(s)) :
        /\ 0 \in cuts /\ Len(s) \in cuts
        /\ \A i \in cuts \ {Len(s)} : \E w \in 1 .. 4 :
             i + w \in cuts /\ IsScalarEncoding(Window(s, i, w))
  BY Zenon DEF WellFormed
<1>2. ASSUME NEW i \in cuts, i # Len(s)
      PROVE  i \in Nat /\ i < Len(s) /\ Accepts(s, i) /\ i + Width(s[i + 1]) \in cuts
  <2>1. PICK w \in 1 .. 4 : i + w \in cuts /\ IsScalarEncoding(Window(s, i, w))
    BY <1>1, <1>2
  <2>2. i \in Nat /\ i < Len(s) /\ i + w <= Len(s)
    BY <1>0, <1>2, <2>1, SMT
  <2>3. Width(s[i + 1]) = w /\ Accepts(s, i)
    BY <2>1, <2>2, EncodingAt
  <2> QED BY <2>1, <2>2, <2>3, Zenon
<1>3. ASSUME NEW i \in cuts PROVE TextIsBoundary(s, i)
  <2>1. CASE i = Len(s)
    BY <1>0, <2>1, SMT DEF TextIsBoundary
  <2>2. CASE i # Len(s)
    <3>1. i \in Nat /\ i < Len(s) /\ Accepts(s, i)
      BY <1>2, <2>2
    <3>2. s[i + 1] \notin Cont
      BY <3>1, Covered
    <3> QED BY <3>2, Zenon DEF TextIsBoundary
  <2> QED BY <2>1, <2>2
<1>4. ASSUME NEW i \in 0 .. Len(s) - 1, TextIsBoundary(s, i) PROVE i \in cuts
  <2>1. PICK T \in SUBSET (0 .. Len(s)) : T = {j \in cuts : j <= i}
    OBVIOUS
  <2>2. 0 \in T
    BY <1>1, <2>1, SMT
  <2>3. PICK p \in T : \A y \in T : y <= p
    BY <1>0, <2>2, GreatestElement
  <2>4. p \in cuts /\ p \in Nat /\ p <= i /\ p # Len(s) /\ i \in Nat /\ i < Len(s)
    BY <1>0, <2>1, <2>3, SMT
  <2>5. p < Len(s) /\ Accepts(s, p) /\ p + Width(s[p + 1]) \in cuts
    BY <1>2, <2>4
  <2>6. PICK w : w = Width(s[p + 1])
    OBVIOUS
  <2>7. w \in 1 .. 4
    BY <2>4, <2>5, <2>6, Covered, Zenon
  <2>8. p + w > i
    <3>1. ~(p + w <= p)
      BY <2>4, <2>7, SMT
    <3>2. p + w \notin T
      BY <2>3, <3>1
    <3>3. p + w \in cuts
      BY <2>5, <2>6
    <3>4. ~(p + w <= i)
      BY <2>1, <3>2, <3>3
    <3> QED BY <2>4, <2>7, <3>4, SMT
  <2>9. p = i
    <3>1. SUFFICES ASSUME p < i PROVE FALSE
      BY <2>4, SMT
    <3>2. ~TextIsBoundary(s, i)
      BY <2>4, <2>5, <2>6, <2>8, <3>1, NoCutWithin, Zenon
    <3> QED BY <1>4, <3>2
  <2> QED BY <2>4, <2>9
<1>5. ASSUME NEW i \in 0 .. Len(s) - 1, TextIsBoundary(s, i)
      PROVE  Accepts(s, i) /\ TextIsBoundary(s, i + Width(s[i + 1]))
  <2>1. i \in cuts /\ i # Len(s)
    BY <1>0, <1>4, <1>5, SMT
  <2> QED BY <1>2, <1>3, <2>1, Zenon
<1> QED BY <1>5, Zenon DEF EachWhole

\* And all of those cut it.
LEMMA WholeIsWellFormed ==
  ASSUME NEW s \in Seq(Octet), EachWhole(s)
  PROVE  WellFormed(s)
<1>0. Len(s) \in Nat
  OBVIOUS
<1>1. PICK cuts \in SUBSET (0 .. Len(s)) : cuts = {i \in 0 .. Len(s) : TextIsBoundary(s, i)}
  OBVIOUS
<1>2. 0 \in cuts /\ Len(s) \in cuts
  BY <1>0, <1>1, SMT DEF TextIsBoundary
<1>3. ASSUME NEW i \in cuts \ {Len(s)}
      PROVE  \E w \in 1 .. 4 : i + w \in cuts /\ IsScalarEncoding(Window(s, i, w))
  <2>1. i \in Nat /\ i < Len(s) /\ i \in 0 .. Len(s) - 1 /\ TextIsBoundary(s, i)
    BY <1>0, <1>1, <1>3, SMT
  <2>2. PICK w : w = Width(s[i + 1])
    OBVIOUS
  <2>3. Accepts(s, i) /\ TextIsBoundary(s, i + w)
    BY <2>1, <2>2 DEF EachWhole
  <2>4. w \in 1 .. 4 /\ i + w <= Len(s)
    BY <2>1, <2>2, <2>3, Covered, Zenon
  <2>5. i + w \in 0 .. Len(s)
    BY <1>0, <2>1, <2>4, SMT
  <2>6. i + w \in cuts
    BY <1>1, <2>3, <2>5
  <2>7. IsScalarEncoding(Window(s, i, w))
    BY <2>1, <2>2, <2>3, <2>4, EncodingAt, Zenon
  <2> QED BY <2>4, <2>6, <2>7
<1>4. {0, Len(s)} \subseteq cuts
  BY <1>2
<1> QED BY <1>3, <1>4, Zenon DEF WellFormed

------------------------------------------------------------------------------
\* Texts within texts, and one after the other.

\* m is what stands in s at offset a.
StandsAt(m, s, a) ==
  a + Len(m) <= Len(s) /\ \A x \in 1 .. Len(m) : m[x] = s[a + x]

\* What stands in s at offset a, byte by byte and sequence by sequence.
LEMMA SameByte ==
  ASSUME NEW s \in Seq(Octet), NEW m \in Seq(Octet), NEW a \in Nat, StandsAt(m, s, a),
         NEW i \in Nat, NEW k, k = a + i
  PROVE  \A x \in Nat : 1 <= i + x /\ i + x <= Len(m) => m[i + x] = s[k + x]
<1>1. SUFFICES ASSUME NEW x \in Nat, 1 <= i + x, i + x <= Len(m) PROVE m[i + x] = s[k + x]
  OBVIOUS
<1>2. PICK y : y = i + x
  OBVIOUS
<1>3. y \in 1 .. Len(m) /\ a + y = k + x
  BY <1>1, <1>2, SMT
<1>4. m[y] = s[a + y]
  BY <1>3, Zenon DEF StandsAt
<1> QED BY <1>2, <1>3, <1>4, Zenon

LEMMA SameSequence ==
  ASSUME NEW s \in Seq(Octet), NEW m \in Seq(Octet), NEW a \in Nat, StandsAt(m, s, a),
         NEW i \in Nat, i < Len(m), NEW k, k = a + i, NEW w, w = Width(m[i + 1])
  PROVE  /\ k \in Nat /\ k < Len(s)
         /\ Width(s[k + 1]) = w
         /\ Accepts(m, i) => Accepts(s, k)
         /\ Accepts(s, k) /\ i + w <= Len(m) => Accepts(m, i)
<1>0. Len(s) \in Nat /\ Len(m) \in Nat /\ a + Len(m) <= Len(s)
  BY SMT DEF StandsAt
<1>1. k \in Nat /\ k < Len(s)
  BY <1>0, SMT
<1>3. \A x \in Nat : 1 <= i + x /\ i + x <= Len(m) => m[i + x] = s[k + x]
  BY SameByte
<1>2. m[i + 1] = s[k + 1] /\ m[i + 1] \in Octet
  <2>1. 1 \in Nat /\ 1 <= i + 1 /\ i + 1 <= Len(m) /\ i + 1 \in 1 .. Len(m)
    BY <1>0, SMT
  <2>2. m[i + 1] = s[k + 1]
    BY <2>1, <1>3, Zenon
  <2> QED BY <2>1, <2>2, ElementOf, Zenon
<1>4. w \in 0 .. 4
  BY <1>2, LeadFacts, Zenon
<1>5. ASSUME i + w <= Len(m), NEW x \in 1 .. w PROVE m[i + x] = s[k + x]
  <2>1. x \in Nat /\ 1 <= i + x /\ i + x <= Len(m)
    BY <1>0, <1>4, <1>5, SMT
  <2> QED BY <2>1, <1>3, Zenon
<1>6. ASSUME Accepts(m, i) PROVE Accepts(s, k)
  <2>1. /\ w > 0 /\ i + w <= Len(m)
        /\ w > 1 => m[i + 2] \in Second(m[i + 1])
        /\ \A x \in 3 .. w : m[i + x] \in Cont
    BY <1>6, Zenon DEF Accepts
  <2>2. k + w <= Len(s)
    BY <1>0, <1>4, <2>1, SMT
  <2>3. w > 1 => s[k + 2] \in Second(s[k + 1])
    <3>1. w > 1 => 2 \in 1 .. w
      BY <1>4, SMT
    <3> QED BY <1>2, <1>5, <2>1, <3>1, Zenon
  <2>4. ASSUME NEW x \in 3 .. w PROVE s[k + x] \in Cont
    <3>1. x \in 1 .. w
      BY <1>4, SMT
    <3> QED BY <1>5, <2>1, <3>1, Zenon
  <2> QED BY <1>2, <2>1, <2>2, <2>3, <2>4, Zenon DEF Accepts
<1>7. ASSUME Accepts(s, k), i + w <= Len(m) PROVE Accepts(m, i)
  <2>1. /\ w > 0
        /\ w > 1 => s[k + 2] \in Second(s[k + 1])
        /\ \A x \in 3 .. w : s[k + x] \in Cont
    BY <1>2, <1>7, Zenon DEF Accepts
  <2>3. w > 1 => m[i + 2] \in Second(m[i + 1])
    <3>1. w > 1 => 2 \in 1 .. w
      BY <1>4, SMT
    <3> QED BY <1>2, <1>5, <1>7, <2>1, <3>1, Zenon
  <2>4. ASSUME NEW x \in 3 .. w PROVE m[i + x] \in Cont
    <3>1. x \in 1 .. w
      BY <1>4, SMT
    <3> QED BY <1>5, <1>7, <2>1, <3>1, Zenon
  <2> QED BY <1>7, <2>1, <2>3, <2>4, Zenon DEF Accepts
<1> QED BY <1>1, <1>2, <1>6, <1>7, Zenon

LEMMA SameBoundary ==
  ASSUME NEW s \in Seq(Octet), NEW m \in Seq(Octet), NEW a \in Nat, StandsAt(m, s, a),
         NEW i \in Nat, 0 < i, i < Len(m), NEW k, k = a + i
  PROVE  TextIsBoundary(m, i) <=> TextIsBoundary(s, k)
<1>0. Len(s) \in Nat /\ Len(m) \in Nat /\ a + Len(m) <= Len(s)
  BY SMT DEF StandsAt
<1>1. i \in 1 .. Len(m) - 1 /\ k \in 1 .. Len(s) - 1
  BY <1>0, SMT
<1>2. m[i + 1] = s[k + 1]
  BY <1>0, SameByte, SMT
<1> QED BY <1>1, <1>2, Zenon DEF TextIsBoundary

\* Either end of a text is a place to cut it.
LEMMA Ends ==
  ASSUME NEW s \in Seq(Octet)
  PROVE  TextIsBoundary(s, 0) /\ TextIsBoundary(s, Len(s))
BY SMT DEF TextIsBoundary

\* Between two places where a text can be cut stands a text.
LEMMA PartIsWhole ==
  ASSUME NEW s \in Seq(Octet), EachWhole(s),
         NEW m \in Seq(Octet), NEW a \in Nat, StandsAt(m, s, a),
         TextIsBoundary(s, a), TextIsBoundary(s, a + Len(m))
  PROVE  EachWhole(m)
<1>0. Len(s) \in Nat /\ Len(m) \in Nat /\ a + Len(m) <= Len(s)
  BY SMT DEF StandsAt
<1>1. ASSUME NEW i \in 0 .. Len(m) - 1, TextIsBoundary(m, i)
      PROVE  Accepts(m, i) /\ TextIsBoundary(m, i + Width(m[i + 1]))
  <2>1. i \in Nat /\ i < Len(m)
    BY <1>0, SMT
  <2>2. PICK w, k : w = Width(m[i + 1]) /\ k = a + i
    OBVIOUS
  <2>3. /\ k \in Nat /\ k < Len(s)
        /\ Width(s[k + 1]) = w
        /\ Accepts(s, k) /\ i + w <= Len(m) => Accepts(m, i)
    BY <2>1, <2>2, SameSequence, SMT
  <2>4. TextIsBoundary(s, k)
    <3>1. CASE i = 0
      BY <2>2, <3>1, SMT
    <3>2. CASE i # 0
      <4>1. 0 < i
        BY <2>1, <3>2, SMT
      <4> QED BY <1>1, <2>1, <2>2, <4>1, SameBoundary, Zenon
    <3> QED BY <3>1, <3>2
  <2>5. k \in 0 .. Len(s) - 1
    BY <1>0, <2>2, <2>3, SMT
  <2>6. Accepts(s, k) /\ TextIsBoundary(s, k + w)
    BY <2>3, <2>4, <2>5, Zenon DEF EachWhole
  <2>7. w \in 1 .. 4 /\ k + w <= Len(s)
    BY <2>3, <2>6, Covered, Zenon
  <2>8. i + w <= Len(m)
    <3>1. SUFFICES ASSUME ~(i + w <= Len(m)) PROVE FALSE
      OBVIOUS
    <3>2. PICK j \in Nat : j = a + Len(m)
      BY <1>0, SMT
    <3>3. k < j /\ j < k + w
      BY <1>0, <2>1, <2>2, <2>7, <3>1, <3>2, SMT
    <3>4. ~TextIsBoundary(s, j)
      BY <2>3, <2>6, <3>3, NoCutWithin, Zenon
    <3> QED BY <3>2, <3>4
  <2>9. Accepts(m, i)
    BY <2>3, <2>6, <2>8
  <2>10. TextIsBoundary(m, i + w)
    <3>1. CASE i + w = Len(m)
      BY <3>1, Ends
    <3>2. CASE i + w # Len(m)
      <4>1. i + w \in Nat /\ 0 < i + w /\ i + w < Len(m) /\ k + w = a + (i + w)
        BY <1>0, <2>1, <2>2, <2>7, <2>8, <3>2, SMT
      <4> QED BY <2>6, <4>1, SameBoundary, Zenon
    <3> QED BY <3>1, <3>2
  <2> QED BY <2>2, <2>9, <2>10, Zenon
<1> QED BY <1>1, Zenon DEF EachWhole

\* Where a text stands in a text, the latter can be cut.
LEMMA PartEndsOnBoundary ==
  ASSUME NEW s \in Seq(Octet), EachWhole(s),
         NEW m \in Seq(Octet), EachWhole(m), m # <<>>,
         NEW a \in Nat, StandsAt(m, s, a)
  PROVE  TextIsBoundary(s, a) /\ TextIsBoundary(s, a + Len(m))
<1>0. Len(s) \in Nat /\ Len(m) \in Nat /\ a + Len(m) <= Len(s) /\ Len(m) > 0
  BY EmptySeq, SMT DEF StandsAt
<1>1. 0 \in 0 .. Len(m) - 1 /\ 0 \in Nat /\ 0 < Len(m)
  BY <1>0, SMT
<1>2. Accepts(m, 0)
  BY <1>1, Ends, Zenon DEF EachWhole
<1>3. TextIsBoundary(s, a)
  <2>2. a = a + 0 /\ a < Len(s)
    BY <1>0, SMT
  <2>1. Accepts(s, a)
    BY <1>1, <1>2, <2>2, SameSequence, SMT
  <2>3. s[a + 1] \notin Cont
    BY <2>1, <2>2, Covered, Zenon
  <2> QED BY <2>3, Zenon DEF TextIsBoundary
<1>4. PICK T \in SUBSET (0 .. Len(m) - 1) : T = {i \in 0 .. Len(m) - 1 : TextIsBoundary(m, i)}
  OBVIOUS
<1>5. T # {} /\ Len(m) - 1 \in Nat
  BY <1>0, <1>1, <1>4, Ends, SMT
<1>6. PICK p \in T : \A y \in T : y <= p
  BY <1>5, GreatestElement
<1>7. p \in Nat /\ p < Len(m) /\ p \in 0 .. Len(m) - 1
  BY <1>0, <1>4, SMT
<1>8. PICK w, k : w = Width(m[p + 1]) /\ k = a + p
  OBVIOUS
<1>9. Accepts(m, p) /\ TextIsBoundary(m, p + w)
  BY <1>4, <1>7, <1>8, Zenon DEF EachWhole
<1>10. w \in 1 .. 4 /\ p + w <= Len(m)
  BY <1>7, <1>8, <1>9, Covered, Zenon
<1>11. p + w = Len(m)
  <2>1. SUFFICES ASSUME p + w # Len(m) PROVE FALSE
    OBVIOUS
  <2>2. p + w \in 0 .. Len(m) - 1 /\ ~(p + w <= p)
    BY <1>0, <1>7, <1>10, <2>1, SMT
  <2> QED BY <1>4, <1>6, <1>9, <2>2, Zenon
<1>12. /\ k \in Nat /\ k < Len(s)
       /\ Width(s[k + 1]) = w /\ Accepts(s, k)
  BY <1>7, <1>8, <1>9, SameSequence, SMT
<1>13. TextIsBoundary(s, k)
  BY <1>12, Covered, Zenon DEF TextIsBoundary
<1>14. k \in 0 .. Len(s) - 1 /\ k + w = a + Len(m)
  BY <1>0, <1>7, <1>8, <1>10, <1>11, <1>12, SMT
<1>15. TextIsBoundary(s, k + w)
  BY <1>12, <1>13, <1>14, Zenon DEF EachWhole
<1> QED BY <1>3, <1>14, <1>15, Zenon

\* Two texts, one after the other, are a text.
LEMMA ConcatIsWhole ==
  ASSUME NEW s \in Seq(Octet), EachWhole(s), NEW m \in Seq(Octet), EachWhole(m)
  PROVE  EachWhole(s \o m)
<1>0. PICK t : t = s \o m
  OBVIOUS
<1>1. /\ t \in Seq(Octet) /\ Len(t) = Len(s) + Len(m)
      /\ \A i \in 1 .. Len(s) + Len(m) : t[i] = IF i <= Len(s) THEN s[i] ELSE m[i - Len(s)]
  BY <1>0, ConcatProperties
<1>2. Len(s) \in Nat /\ Len(m) \in Nat /\ Len(t) \in Nat /\ Len(t) = Len(s) + Len(m)
  BY <1>1, SMT
<1>3. StandsAt(s, t, 0)
  BY <1>1, <1>2, SMT DEF StandsAt
<1>4. StandsAt(m, t, Len(s))
  BY <1>1, <1>2, SMT DEF StandsAt
<1>5. ASSUME NEW i \in 0 .. Len(t) - 1, TextIsBoundary(t, i)
      PROVE  Accepts(t, i) /\ TextIsBoundary(t, i + Width(t[i + 1]))
  <2>1. CASE i < Len(s)
    <3>1. i \in Nat /\ i \in 0 .. Len(s) - 1 /\ i = 0 + i /\ 0 \in Nat
      BY <1>2, <2>1, SMT
    <3>2. PICK w : w = Width(s[i + 1])
      OBVIOUS
    <3>3. TextIsBoundary(s, i)
      <4>1. CASE i = 0
        BY <4>1, Ends
      <4>2. CASE i # 0
        <5>1. 0 < i
          BY <3>1, <4>2, SMT
        <5> QED BY <1>1, <1>3, <1>5, <2>1, <3>1, <5>1, SameBoundary, Zenon
      <4> QED BY <4>1, <4>2
    <3>4. Accepts(s, i) /\ TextIsBoundary(s, i + w)
      BY <3>1, <3>2, <3>3, Zenon DEF EachWhole
    <3>5. w \in 1 .. 4 /\ i + w <= Len(s)
      BY <2>1, <3>1, <3>2, <3>4, Covered, Zenon
    <3>6. Accepts(t, i) /\ Width(t[i + 1]) = w
      BY <1>1, <1>3, <2>1, <3>1, <3>2, <3>4, SameSequence, SMT
    <3>7. TextIsBoundary(t, i + w)
      <4>1. CASE i + w < Len(s)
        <5>1. i + w \in Nat /\ 0 < i + w /\ i + w = 0 + (i + w)
          BY <3>1, <3>5, SMT
        <5> QED BY <1>1, <1>3, <3>1, <3>4, <4>1, <5>1, SameBoundary, Zenon
      <4>2. CASE ~(i + w < Len(s))
        <5>1. i + w = Len(s)
          BY <1>2, <3>1, <3>5, <4>2, SMT
        <5>2. CASE Len(m) = 0
          <6>1. i + w = Len(t)
            BY <1>1, <1>2, <5>1, <5>2, SMT
          <6> QED BY <1>1, <6>1, Ends, Zenon
        <5>3. CASE Len(m) # 0
          <6>1. 0 \in 0 .. Len(m) - 1 /\ 0 < Len(m) /\ Len(s) = Len(s) + 0 /\ Len(s) < Len(t)
            BY <1>1, <1>2, <5>3, SMT
          <6>2. Accepts(m, 0)
            BY <6>1, Ends, Zenon DEF EachWhole
          <6>4. Accepts(t, Len(s))
            BY <1>1, <1>2, <1>4, <3>1, <6>1, <6>2, SameSequence, SMT
          <6>5. t[Len(s) + 1] \notin Cont
            BY <1>1, <1>2, <6>1, <6>4, Covered, Zenon
          <6> QED BY <5>1, <6>5, Zenon DEF TextIsBoundary
        <5> QED BY <5>2, <5>3
      <4> QED BY <4>1, <4>2
    <3> QED BY <3>6, <3>7, Zenon
  <2>2. CASE ~(i < Len(s))
    <3>1. PICK k : k = i - Len(s)
      OBVIOUS
    <3>2. k \in Nat /\ k < Len(m) /\ k \in 0 .. Len(m) - 1 /\ i = Len(s) + k
      BY <1>2, <2>2, <3>1, SMT
    <3>3. PICK w : w = Width(m[k + 1])
      OBVIOUS
    <3>4. TextIsBoundary(m, k)
      <4>1. CASE k = 0
        BY <4>1, Ends
      <4>2. CASE k # 0
        <5>1. 0 < k
          BY <3>2, <4>2, SMT
        <5> QED BY <1>1, <1>2, <1>4, <1>5, <3>2, <5>1, SameBoundary, Zenon
      <4> QED BY <4>1, <4>2
    <3>5. Accepts(m, k) /\ TextIsBoundary(m, k + w)
      BY <3>2, <3>3, <3>4, Zenon DEF EachWhole
    <3>6. w \in 1 .. 4 /\ k + w <= Len(m)
      BY <3>2, <3>3, <3>5, Covered, Zenon
    <3>7. Accepts(t, i) /\ Width(t[i + 1]) = w
      BY <1>1, <1>2, <1>4, <3>2, <3>3, <3>5, SameSequence, SMT
    <3>8. TextIsBoundary(t, i + w)
      <4>1. CASE k + w < Len(m)
        <5>1. k + w \in Nat /\ 0 < k + w /\ i + w = Len(s) + (k + w)
          BY <1>2, <3>2, <3>6, SMT
        <5> QED BY <1>1, <1>2, <1>4, <3>5, <4>1, <5>1, SameBoundary, Zenon
      <4>2. CASE ~(k + w < Len(m))
        <5>0. k + w = Len(m)
          BY <1>2, <3>2, <3>6, <4>2, SMT
        <5>1. i + w = Len(t)
          BY <1>2, <3>2, <3>6, <5>0, SMT
        <5> QED BY <1>1, <5>1, Ends, Zenon
      <4> QED BY <4>1, <4>2
    <3> QED BY <3>7, <3>8, Zenon
  <2> QED BY <2>1, <2>2
<1> QED BY <1>0, <1>5, Zenon DEF EachWhole

------------------------------------------------------------------------------
\* The validator's loop, as the function its recursion defines.

\* f is the function that stop, base and next define.
Recursive(f, n, stop, base, next) ==
  f = [i \in 0 .. n |-> IF i \in stop THEN base[i] ELSE f[next[i]]]

\* A function defined by recursion towards the end of an interval exists.
LEMMA RecursionDown ==
  ASSUME NEW n \in Nat, NEW stop, NEW base, NEW next, n \in stop,
         \A i \in 0 .. n : i \notin stop => next[i] \in i + 1 .. n
  PROVE  \E f : Recursive(f, n, stop, base, next)
<1>. DEFINE Has(k) ==
       \E f : f = [i \in k .. n |-> IF i \in stop THEN base[i] ELSE f[next[i]]]
<1>1. Has(n)
  <2>1. PICK f : f = [i \in n .. n |-> base[i]]
    OBVIOUS
  <2>2. f = [i \in n .. n |-> IF i \in stop THEN base[i] ELSE f[next[i]]]
    <3>1. \A i \in n .. n : i \in stop
      BY SMT
    <3> QED BY <2>1, <3>1
  <2> QED BY <2>2
<1>2. ASSUME NEW k \in 1 .. n, Has(k) PROVE Has(k - 1)
  <2>1. PICK f : f = [i \in k .. n |-> IF i \in stop THEN base[i] ELSE f[next[i]]]
    BY <1>2
  <2>2. PICK j : j = k - 1
    OBVIOUS
  <2>3. j \in Nat /\ j <= n /\ (\A i \in j .. n : i \in 0 .. n /\ (i # j => i \in k .. n))
        /\ (\A i \in j .. n : \A x \in i + 1 .. n : x \in k .. n /\ x \in j .. n /\ x # j)
    BY <2>2, SMT
  <2>4. PICK g : g = [i \in j .. n |->
                        IF i = j THEN (IF i \in stop THEN base[i] ELSE f[next[i]]) ELSE f[i]]
    OBVIOUS
  <2>5. \A x \in j .. n : x # j => g[x] = f[x]
    BY <2>4
  <2>6. ASSUME NEW i \in j .. n, i \notin stop PROVE f[next[i]] = g[next[i]]
    <3>1. next[i] \in i + 1 .. n
      BY <2>3, <2>6
    <3>2. next[i] \in j .. n /\ next[i] # j
      BY <2>3, <3>1
    <3> QED BY <2>5, <3>2
  <2>7. ASSUME NEW i \in j .. n
        PROVE  (IF i = j THEN (IF i \in stop THEN base[i] ELSE f[next[i]]) ELSE f[i])
                 = (IF i \in stop THEN base[i] ELSE g[next[i]])
    <3>1. CASE i = j
      BY <2>6, <3>1
    <3>2. CASE i # j
      <4>1. f[i] = IF i \in stop THEN base[i] ELSE f[next[i]]
        BY <2>1, <2>3, <3>2
      <4> QED BY <2>6, <3>2, <4>1
    <3> QED BY <3>1, <3>2
  <2>8. g = [i \in j .. n |-> IF i \in stop THEN base[i] ELSE g[next[i]]]
    BY <2>4, <2>7
  <2>9. Has(j)
    BY <2>8
  <2> QED BY <2>2, <2>9
<1>. HIDE DEF Has
<1>3. SUFFICES ASSUME ~Has(0) PROVE FALSE
  BY DEF Has, Recursive
<1>4. PICK T \in SUBSET Nat : T = {d \in 0 .. n : ~Has(n - d)}
  <2>1. {d \in 0 .. n : ~Has(n - d)} \in SUBSET Nat
    BY SMT
  <2> QED BY <2>1
<1>5. n \in T
  <2>1. n \in 0 .. n /\ n - n = 0
    BY SMT
  <2> QED BY <1>3, <1>4, <2>1, Zenon
<1>6. PICK d \in T : \A e \in T : d <= e
  BY <1>5, LeastElement, Zenon
<1>7. d # 0
  <2>1. n - 0 = n
    BY SMT
  <2> QED BY <1>1, <1>4, <2>1, Zenon
<1>8. PICK k, e : k = n - d + 1 /\ e = d - 1
  OBVIOUS
<1>9. d \in 0 .. n /\ ~Has(n - d)
  BY <1>4
<1>10. k \in 1 .. n /\ k - 1 = n - d /\ e \in 0 .. n /\ n - e = k /\ ~(d <= e)
  BY <1>7, <1>8, <1>9, SMT
<1>11. Has(k)
  BY <1>4, <1>6, <1>10, Zenon
<1>12. Has(n - d)
  BY <1>2, <1>10, <1>11, Zenon
<1> QED BY <1>9, <1>12

\* ValidFrom satisfies its recursion.
LEMMA ValidFromIs ==
  ASSUME NEW s \in Seq(Octet)
  PROVE  \A i \in 0 .. Len(s) :
           ValidFrom(s)[i] = IF i = Len(s) THEN Valid
                             ELSE IF ~Accepts(s, i) THEN Invalid(i)
                             ELSE ValidFrom(s)[i + Width(s[i + 1])]
<1>0. Len(s) \in Nat
  OBVIOUS
<1>1. PICK stop, base, next :
        /\ stop = {i \in 0 .. Len(s) : i = Len(s) \/ ~Accepts(s, i)}
        /\ base = [i \in 0 .. Len(s) |-> IF i = Len(s) THEN Valid ELSE Invalid(i)]
        /\ next = [i \in 0 .. Len(s) |-> i + Width(s[i + 1])]
  OBVIOUS
<1>2. Len(s) \in stop
  BY <1>0, <1>1, SMT
<1>3. ASSUME NEW i \in 0 .. Len(s), i \notin stop PROVE next[i] \in i + 1 .. Len(s)
  <2>1. i # Len(s) /\ Accepts(s, i)
    BY <1>1, <1>3
  <2>2. i \in Nat /\ i < Len(s)
    BY <1>0, <2>1, SMT
  <2>3. Width(s[i + 1]) \in 1 .. 4 /\ i + Width(s[i + 1]) <= Len(s)
    BY <2>1, <2>2, Covered, Zenon
  <2>4. i + Width(s[i + 1]) \in i + 1 .. Len(s)
    BY <1>0, <2>2, <2>3, SMT
  <2> QED BY <1>1, <2>4
<1>4. PICK f : f = [i \in 0 .. Len(s) |-> IF i \in stop THEN base[i] ELSE f[next[i]]]
  <2>1. PICK n \in Nat : n = Len(s)
    BY <1>0
  <2>2. n \in stop /\ \A i \in 0 .. n : i \notin stop => next[i] \in i + 1 .. n
    BY <1>2, <1>3, <2>1
  <2>3. \E f : Recursive(f, n, stop, base, next)
    BY <2>2, RecursionDown
  <2> QED BY <2>1, <2>3 DEF Recursive
<1>. DEFINE from(g, i) ==
       IF i = Len(s) THEN Valid
       ELSE IF ~Accepts(s, i) THEN Invalid(i)
       ELSE g[i + Width(s[i + 1])]
<1>5. f = [i \in 0 .. Len(s) |-> from(f, i)]
  <2>1. \A i \in 0 .. Len(s) : (IF i \in stop THEN base[i] ELSE f[next[i]]) = from(f, i)
    BY <1>1
  <2> HIDE DEF from
  <2> QED BY <1>4, <2>1
<1>6. ValidFrom(s) = CHOOSE g : g = [i \in 0 .. Len(s) |-> from(g, i)]
  BY DEF ValidFrom
<1>7. ValidFrom(s) = [i \in 0 .. Len(s) |-> from(ValidFrom(s), i)]
  <2> HIDE DEF from
  <2> QED BY <1>5, <1>6
<1> QED BY <1>7

------------------------------------------------------------------------------
\* The validator answers with the longest well-formed prefix.

LEMMA WholeIffWellFormed ==
  ASSUME NEW s \in Seq(Octet)
  PROVE  WellFormed(s) <=> EachWhole(s)
BY WellFormedIsWhole, WholeIsWellFormed

\* A prefix, and the window at its end.
LEMMA PrefixIs ==
  ASSUME NEW s \in Seq(Octet), NEW n \in Nat, n <= Len(s)
  PROVE  /\ Prefix(s, n) \in Seq(Octet) /\ Len(Prefix(s, n)) = n
         /\ \A x \in 1 .. n : Prefix(s, n)[x] = s[x]
         /\ StandsAt(Prefix(s, n), s, 0)
<1>1. PICK z \in Nat : z = 0
  OBVIOUS
<1>2. z <= n /\ z + 1 = 1 /\ n - z = n /\ \A x \in 1 .. n : z + x = x
  BY <1>1, SMT
<1>3. PICK m : m = Prefix(s, n)
  OBVIOUS
<1>4. m = SubSeq(s, z + 1, n)
  BY <1>2, <1>3, Zenon DEF Prefix
<1>a. m \in Seq(Octet) /\ Len(m) = n - z /\ \A x \in 1 .. n - z : m[x] = s[z + x]
  BY <1>2, <1>4, SliceIs
<1>5. m \in Seq(Octet) /\ Len(m) = n /\ \A x \in 1 .. n : m[x] = s[x]
  BY <1>2, <1>a, SMT
<1>6. StandsAt(m, s, z)
  BY <1>1, <1>5, SMT DEF StandsAt
<1> QED BY <1>1, <1>3, <1>5, <1>6, Zenon

LEMMA WindowStands ==
  ASSUME NEW s \in Seq(Octet), NEW i \in Nat, NEW n \in Nat, i + n <= Len(s)
  PROVE  StandsAt(Window(s, i, n), s, i)
<1>1. PICK m : m = Window(s, i, n)
  OBVIOUS
<1>2. Len(m) = n /\ \A x \in 1 .. n : m[x] = s[i + x]
  BY <1>1, WindowIs
<1> QED BY <1>1, <1>2 DEF StandsAt

\* One accepted sequence is a text.
LEMMA OneIsWhole ==
  ASSUME NEW s \in Seq(Octet), NEW i \in Nat, i < Len(s), Accepts(s, i)
  PROVE  EachWhole(Window(s, i, Width(s[i + 1])))
<1>1. PICK w : w = Width(s[i + 1])
  OBVIOUS
<1>2. w \in 1 .. 4 /\ i + w <= Len(s) /\ \A x \in 2 .. w : s[i + x] \in Cont
  BY <1>1, Covered, Zenon
<1>3. w \in Nat
  BY <1>2, SMT
<1>4. PICK m : m = Window(s, i, w)
  OBVIOUS
<1>5. m \in Seq(Octet) /\ Len(m) = w /\ StandsAt(m, s, i)
      /\ \A x \in 1 .. w : m[x] = s[i + x]
  BY <1>2, <1>3, <1>4, WindowIs, WindowStands, Zenon
<1>6. ASSUME NEW j \in 0 .. Len(m) - 1, TextIsBoundary(m, j)
      PROVE  Accepts(m, j) /\ TextIsBoundary(m, j + Width(m[j + 1]))
  <2>1. j = 0
    <3>1. SUFFICES ASSUME j # 0 PROVE FALSE
      OBVIOUS
    <3>2. j \in 1 .. Len(m) - 1 /\ j + 1 \in 2 .. w /\ j + 1 \in 1 .. w
      BY <1>2, <1>5, <3>1, SMT
    <3>3. m[j + 1] \in Cont
      BY <1>2, <1>5, <3>2, Zenon
    <3> QED BY <1>6, <3>2, <3>3, Zenon DEF TextIsBoundary
  <2>2. 0 \in Nat /\ 0 < Len(m) /\ i = i + 0 /\ 1 \in 1 .. w /\ 0 + w = w /\ 0 + 1 = 1
    BY <1>2, <1>5, SMT
  <2>3. m[0 + 1] = s[i + 1]
    BY <1>5, <2>2, SMT
  <2>4. Width(m[0 + 1]) = w
    BY <1>1, <2>3
  <2>5. 0 + w <= Len(m)
    BY <1>2, <1>5, SMT
  <2>6. Accepts(m, 0)
    BY <1>5, <2>2, <2>4, <2>5, SameSequence, SMT
  <2>7. TextIsBoundary(m, 0 + w)
    BY <1>5, <2>2, Ends, Zenon
  <2> QED BY <2>1, <2>4, <2>6, <2>7, Zenon
<1> QED BY <1>1, <1>4, <1>6, Zenon DEF EachWhole

\* One accepted sequence more.
LEMMA NextPrefix ==
  ASSUME NEW s \in Seq(Octet), NEW i \in Nat, i < Len(s), Accepts(s, i),
         EachWhole(Prefix(s, i))
  PROVE  EachWhole(Prefix(s, i + Width(s[i + 1])))
<1>1. PICK w, k : w = Width(s[i + 1]) /\ k = i + w
  OBVIOUS
<1>2. w \in 1 .. 4 /\ i + w <= Len(s)
  BY <1>1, Covered, Zenon
<1>3. w \in Nat /\ k \in Nat /\ k <= Len(s) /\ i <= Len(s)
  BY <1>1, <1>2, SMT
<1>4. PICK p, m, q : p = Prefix(s, i) /\ m = Window(s, i, w) /\ q = Prefix(s, k)
  OBVIOUS
<1>5. p \in Seq(Octet) /\ Len(p) = i /\ \A x \in 1 .. i : p[x] = s[x]
  BY <1>3, <1>4, PrefixIs, Zenon
<1>6. m \in Seq(Octet) /\ Len(m) = w /\ \A x \in 1 .. w : m[x] = s[i + x]
  BY <1>2, <1>3, <1>4, WindowIs, Zenon
<1>7. q \in Seq(Octet) /\ Len(q) = k /\ \A x \in 1 .. k : q[x] = s[x]
  BY <1>3, <1>4, PrefixIs, Zenon
<1>8. PICK t : t = p \o m
  OBVIOUS
<1>9. /\ t \in Seq(Octet) /\ Len(t) = Len(p) + Len(m)
      /\ \A x \in 1 .. Len(p) + Len(m) : t[x] = IF x <= Len(p) THEN p[x] ELSE m[x - Len(p)]
  BY <1>5, <1>6, <1>8, ConcatProperties
<1>10. ASSUME NEW x \in 1 .. k PROVE t[x] = s[x]
  <2>1. x \in 1 .. Len(p) + Len(m)
    BY <1>1, <1>5, <1>6
  <2>2. CASE x <= i
    <3>1. x \in 1 .. i
      BY <2>2, SMT
    <3> QED BY <1>5, <1>9, <2>1, <2>2, <3>1
  <2>3. CASE ~(x <= i)
    <3>1. x - i \in 1 .. w /\ i + (x - i) = x
      BY <1>1, <1>3, <2>3, SMT
    <3>2. t[x] = m[x - i]
      BY <1>5, <1>9, <2>1, <2>3
    <3> QED BY <1>6, <3>1, <3>2
  <2> QED BY <2>2, <2>3
<1>11. q = t
  <2>1. Len(t) = k
    BY <1>1, <1>5, <1>6, <1>9
  <2> QED BY <1>7, <1>9, <1>10, <2>1, SeqEqual, Zenon
<1>12. EachWhole(m)
  BY <1>1, <1>4, OneIsWhole, Zenon
<1>13. EachWhole(t)
  BY <1>4, <1>5, <1>6, <1>8, <1>12, ConcatIsWhole, Zenon
<1> QED BY <1>1, <1>4, <1>11, <1>13, Zenon

LEMMA EmptyIsWhole == EachWhole(<<>>)
<1>1. ~(\E i \in 0 .. Len(<<>>) - 1 : TRUE)
  BY SMT
<1> QED BY <1>1, Zenon DEF EachWhole

\* Nothing longer than the prefix that ends where no sequence begins is a text.
LEMMA NoTextBeyond ==
  ASSUME NEW s \in Seq(Octet), NEW i \in Nat, i < Len(s), ~Accepts(s, i),
         EachWhole(Prefix(s, i)), NEW j \in i + 1 .. Len(s)
  PROVE  ~EachWhole(Prefix(s, j))
<1>1. SUFFICES ASSUME EachWhole(Prefix(s, j)) PROVE FALSE
  OBVIOUS
<1>2. j \in Nat /\ j <= Len(s) /\ i < j /\ i <= Len(s) /\ Len(s) \in Nat /\ i + 0 = i
  BY SMT
<1>3. PICK p, q : p = Prefix(s, i) /\ q = Prefix(s, j)
  OBVIOUS
<1>4. p \in Seq(Octet) /\ Len(p) = i /\ \A x \in 1 .. i : p[x] = s[x]
  BY <1>2, <1>3, PrefixIs, Zenon
<1>5. /\ q \in Seq(Octet) /\ Len(q) = j /\ \A x \in 1 .. j : q[x] = s[x]
      /\ StandsAt(q, s, 0)
  BY <1>2, <1>3, PrefixIs, Zenon
<1>6. TextIsBoundary(q, i)
  <2>1. CASE i = 0
    BY <1>5, <2>1, Ends
  <2>2. CASE i # 0
    <3>1. StandsAt(p, q, 0)
      BY <1>2, <1>4, <1>5, SMT DEF StandsAt
    <3>2. p # <<>> /\ 0 \in Nat /\ 0 + i = i
      BY <1>4, <2>2, EmptySeq, SMT
    <3> QED BY <1>1, <1>3, <1>4, <1>5, <3>1, <3>2, PartEndsOnBoundary, Zenon
  <2> QED BY <2>1, <2>2
<1>7. i \in 0 .. Len(q) - 1 /\ i < Len(q) /\ i = 0 + i
  BY <1>2, <1>5, SMT
<1>8. Accepts(q, i)
  BY <1>1, <1>3, <1>6, <1>7, Zenon DEF EachWhole
<1>9. Accepts(s, i)
  BY <1>5, <1>7, <1>8, SameSequence, SMT
<1> QED BY <1>9

\* What the loop answers from offset i, when what stands before is a text.
LEMMA AnswerFromFits ==
  ASSUME NEW s \in Seq(Octet), NEW i \in 0 .. Len(s), EachWhole(Prefix(s, i))
  PROVE  AnswerFits(s, ValidFrom(s)[i])
<1>0. PICK n \in Nat : n = Len(s)
  OBVIOUS
<1>. DEFINE Fails(j) == EachWhole(Prefix(s, j)) /\ ~AnswerFits(s, ValidFrom(s)[j])
<1>1. Prefix(s, n) = s
  BY <1>0, SubSeqFull, Zenon DEF Prefix
<1>2. ~Fails(n)
  <2>1. SUFFICES ASSUME EachWhole(Prefix(s, n)) PROVE AnswerFits(s, ValidFrom(s)[n])
    OBVIOUS
  <2>2. WellFormed(s)
    BY <1>1, <2>1, WholeIsWellFormed, Zenon
  <2>3. n \in 0 .. Len(s)
    BY <1>0, SMT
  <2>4. ValidFrom(s)[n] = Valid
    BY <1>0, <2>3, ValidFromIs, Zenon
  <2> QED BY <2>2, <2>4, Zenon DEF AnswerFits
<1>3. ASSUME NEW j \in 0 .. n, j < n, \A k \in 0 .. n : j < k => ~Fails(k) PROVE ~Fails(j)
  <2>1. SUFFICES ASSUME EachWhole(Prefix(s, j)) PROVE AnswerFits(s, ValidFrom(s)[j])
    OBVIOUS
  <2>2. j \in Nat /\ j < Len(s) /\ j \in 0 .. Len(s) /\ j # Len(s) /\ j \in 0 .. Len(s) - 1
    BY <1>0, <1>3, SMT
  <2>3. CASE Accepts(s, j)
    <3>1. PICK k : k = j + Width(s[j + 1])
      OBVIOUS
    <3>2. ValidFrom(s)[j] = ValidFrom(s)[k]
      BY <2>2, <2>3, <3>1, ValidFromIs, Zenon
    <3>3. EachWhole(Prefix(s, k))
      BY <2>1, <2>2, <2>3, <3>1, NextPrefix, Zenon
    <3>4. Width(s[j + 1]) \in 1 .. 4 /\ j + Width(s[j + 1]) <= Len(s)
      BY <2>2, <2>3, Covered, Zenon
    <3>5. k \in 0 .. n /\ j < k
      BY <1>0, <2>2, <3>1, <3>4, SMT
    <3> QED BY <1>3, <3>2, <3>3, <3>5, Zenon
  <2>4. CASE ~Accepts(s, j)
    <3>1. ValidFrom(s)[j] = Invalid(j)
      BY <2>2, <2>4, ValidFromIs, Zenon
    <3>2. WellFormed(Prefix(s, j))
      <4>1. Prefix(s, j) \in Seq(Octet)
        BY <1>0, <1>3, <2>2, PrefixIs, SMT
      <4> QED BY <2>1, <4>1, WholeIsWellFormed, Zenon
    <3>3. ASSUME NEW k \in j + 1 .. Len(s) PROVE ~WellFormed(Prefix(s, k))
      <4>1. ~EachWhole(Prefix(s, k))
        BY <2>1, <2>2, <2>4, NoTextBeyond, Zenon
      <4>2. k \in Nat /\ k <= Len(s)
        BY <2>2, SMT
      <4>3. Prefix(s, k) \in Seq(Octet)
        BY <4>2, PrefixIs, Zenon
      <4> QED BY <4>1, <4>3, WholeIffWellFormed, Zenon
    <3>4. n \in j + 1 .. Len(s)
      BY <1>0, <2>2, SMT
    <3>5. ~WellFormed(s)
      BY <1>1, <3>3, <3>4, Zenon
    <3> QED BY <2>2, <3>1, <3>2, <3>3, <3>5, Zenon DEF AnswerFits
  <2> QED BY <2>3, <2>4
<1>. HIDE DEF Fails
<1>4. ASSUME NEW T \in SUBSET (0 .. n), T = {j \in 0 .. n : Fails(j)} PROVE T = {}
  <2>1. SUFFICES ASSUME T # {} PROVE FALSE
    OBVIOUS
  <2>2. PICK j \in T : \A k \in T : k <= j
    BY <2>1, GreatestElement
  <2>3. j \in 0 .. n /\ Fails(j)
    BY <1>4, <2>2
  <2>4. j # n
    BY <1>2, <2>3
  <2>5. j < n
    BY <2>3, <2>4, SMT
  <2>6. ASSUME NEW k \in 0 .. n, j < k PROVE ~Fails(k)
    <3>1. ~(k <= j)
      BY <2>3, <2>6, SMT
    <3> QED BY <1>4, <2>2, <3>1, Zenon
  <2> QED BY <1>3, <2>3, <2>5, <2>6, Zenon
<1>5. ~Fails(i)
  <2>1. {j \in 0 .. n : Fails(j)} \in SUBSET (0 .. n)
    OBVIOUS
  <2>2. {j \in 0 .. n : Fails(j)} = {}
    BY <1>4, <2>1, Zenon
  <2> QED BY <1>0, <2>2, Zenon
<1> QED BY <1>5 DEF Fails

\* For every byte string: validate_utf8 accepts exactly the UTF-8 of RFC 3629,
\* and what it refuses it refuses at the end of the longest well-formed prefix.
THEOREM ValidatorIsExact ==
  \A s \in Seq(Octet) : AnswerFits(s, ValidateUtf8(s))
<1>. SUFFICES ASSUME NEW s \in Seq(Octet) PROVE AnswerFits(s, ValidFrom(s)[0])
  BY DEF ValidateUtf8
<1>1. 0 \in 0 .. Len(s)
  BY SMT
<1>2. Prefix(s, 0) = <<>>
  BY SubSeqEmpty, SMT DEF Prefix
<1>3. EachWhole(Prefix(s, 0))
  BY <1>2, EmptyIsWhole, Zenon
<1> QED BY <1>1, <1>3, AnswerFromFits, Zenon

------------------------------------------------------------------------------
\* NULs, prefixes, and the NUL that ends a C string.

\* NulOffset is the offset of the first NUL, or the length.
LEMMA NulOffsetIs ==
  ASSUME NEW s \in Seq(Octet)
  PROVE  /\ NulOffset(s) \in Nat /\ NulOffset(s) <= Len(s)
         /\ \A x \in 1 .. NulOffset(s) : s[x] # 0
         /\ NulOffset(s) < Len(s) => s[NulOffset(s) + 1] = 0
<1>0. PICK n \in Nat : n = Len(s)
  OBVIOUS
<1>1. \E f \in 0 .. n : (\A x \in 1 .. f : s[x] # 0) /\ (f < n => s[f + 1] = 0)
  <2>1. CASE HasNul(s)
    <3>1. PICK T \in SUBSET Nat : T = {x \in 1 .. n : s[x] = 0}
      <4>1. {x \in 1 .. n : s[x] = 0} \in SUBSET Nat
        BY SMT
      <4> QED BY <4>1
    <3>2. T # {}
      BY <1>0, <2>1, <3>1, SMT DEF HasNul
    <3>3. PICK y \in T : \A x \in T : y <= x
      BY <3>2, LeastElement
    <3>4. y \in 1 .. n /\ s[y] = 0
      BY <3>1
    <3>5. PICK f : f = y - 1
      OBVIOUS
    <3>6. f \in 0 .. n /\ f + 1 = y /\ \A x \in 1 .. f : x \in 1 .. n /\ ~(y <= x)
      BY <3>4, <3>5, SMT
    <3>7. \A x \in 1 .. f : s[x] # 0
      BY <3>1, <3>3, <3>6
    <3> QED BY <3>4, <3>6, <3>7
  <2>2. CASE ~HasNul(s)
    <3>1. \A x \in 1 .. n : s[x] # 0
      BY <1>0, <2>2, SMT DEF HasNul
    <3>2. n \in 0 .. n /\ ~(n < n)
      BY SMT
    <3> QED BY <3>1, <3>2
  <2> QED BY <2>1, <2>2
<1>2. PICK f : f = NulOffset(s)
  OBVIOUS
<1>3. f \in 0 .. n /\ (\A x \in 1 .. f : s[x] # 0) /\ (f < n => s[f + 1] = 0)
  BY <1>0, <1>1, <1>2 DEF NulOffset
<1>4. f \in Nat /\ f <= n
  BY <1>3, SMT
<1> QED BY <1>0, <1>2, <1>3, <1>4, Zenon

\* Up to it there is no NUL.
LEMMA NoNul ==
  ASSUME NEW s \in Seq(Octet)
  PROVE  HasNul(s) <=> \E x \in 1 .. Len(s) : s[x] = 0
BY SMT DEF HasNul

LEMMA PrefixNoNul ==
  ASSUME NEW s \in Seq(Octet), NEW n \in Nat, n <= Len(s), \A x \in 1 .. n : s[x] # 0
  PROVE  Prefix(s, n) \in Seq(Octet) /\ ~HasNul(Prefix(s, n))
<1>1. PICK m : m = Prefix(s, n)
  OBVIOUS
<1>2. m \in Seq(Octet) /\ Len(m) = n /\ \A x \in 1 .. n : m[x] = s[x]
  BY <1>1, PrefixIs, Zenon
<1> QED BY <1>1, <1>2, NoNul, Zenon

\* A string and the NUL appended to it.
LEMMA WithZero ==
  ASSUME NEW b \in Seq(Octet), ~HasNul(b), NEW t, t = b \o Zero
  PROVE  /\ t \in Seq(Octet) /\ Len(t) = Len(b) + 1 /\ t # <<>>
         /\ NulOffset(t) = Len(t) - 1
         /\ Prefix(t, Len(t) - 1) = b
<1>0. Zero \in Seq(Octet) /\ Len(Zero) = 1 /\ Zero[1] = 0
  <2>1. 0 \in Octet
    BY SMT DEF Octet
  <2> QED BY <2>1, SMT DEF Zero
<1>1. PICK n \in Nat : n = Len(b)
  OBVIOUS
<1>2. /\ t \in Seq(Octet) /\ Len(t) = Len(b) + Len(Zero)
      /\ \A x \in 1 .. Len(b) + Len(Zero) : t[x] = IF x <= Len(b) THEN b[x] ELSE Zero[x - Len(b)]
  BY <1>0, ConcatProperties
<1>3. t \in Seq(Octet) /\ Len(t) = n + 1 /\ (\A x \in 1 .. n : t[x] = b[x]) /\ t[n + 1] = 0
  BY <1>0, <1>1, <1>2, SMT
<1>4. \A x \in 1 .. n : t[x] # 0
  BY <1>1, <1>3, NoNul, Zenon
<1>5. NulOffset(t) = n
  <2>1. PICK f : f = NulOffset(t)
    OBVIOUS
  <2>2. /\ f \in Nat /\ f <= Len(t)
        /\ \A x \in 1 .. f : t[x] # 0
        /\ f < Len(t) => t[f + 1] = 0
    BY <1>3, <2>1, NulOffsetIs, Zenon
  <2>3. f # n + 1
    BY <1>3, <2>2, SMT
  <2>4. f <= n /\ f < Len(t)
    BY <1>3, <2>2, <2>3, SMT
  <2>5. ~(f < n)
    <3>1. SUFFICES ASSUME f < n PROVE FALSE
      OBVIOUS
    <3>2. f + 1 \in 1 .. n
      BY <2>2, <3>1, SMT
    <3> QED BY <1>4, <2>2, <2>4, <3>2
  <2> QED BY <2>1, <2>2, <2>4, <2>5, SMT
<1>6. Prefix(t, n) = b
  <2>1. n <= Len(t)
    BY <1>3, SMT
  <2>2. PICK p : p = Prefix(t, n)
    OBVIOUS
  <2>3. p \in Seq(Octet) /\ Len(p) = n /\ \A x \in 1 .. n : p[x] = t[x]
    BY <1>3, <2>1, <2>2, PrefixIs, Zenon
  <2>4. \A x \in 1 .. Len(p) : p[x] = b[x]
    BY <1>3, <2>3, Zenon
  <2> QED BY <1>1, <2>2, <2>3, <2>4, SeqEqual, Zenon
<1>7. Len(t) - 1 = n /\ t # <<>>
  BY <1>3, EmptySeq, SMT
<1> QED BY <1>1, <1>3, <1>5, <1>6, <1>7, Zenon

\* A prefix of a prefix.
LEMMA PrefixOfPrefix ==
  ASSUME NEW s \in Seq(Octet), NEW n \in Nat, n <= Len(s), NEW k \in Nat, k <= n
  PROVE  Prefix(Prefix(s, n), k) = Prefix(s, k)
<1>1. PICK p, q, r : p = Prefix(s, n) /\ q = Prefix(p, k) /\ r = Prefix(s, k)
  OBVIOUS
<1>2. k <= Len(s) /\ \A x \in 1 .. k : x \in 1 .. n
  BY SMT
<1>3. p \in Seq(Octet) /\ Len(p) = n /\ \A x \in 1 .. n : p[x] = s[x]
  BY <1>1, PrefixIs, Zenon
<1>4. q \in Seq(Octet) /\ Len(q) = k /\ \A x \in 1 .. k : q[x] = p[x]
  <2>1. k <= Len(p)
    BY <1>3
  <2> QED BY <1>1, <1>3, <2>1, PrefixIs, Zenon
<1>5. r \in Seq(Octet) /\ Len(r) = k /\ \A x \in 1 .. k : r[x] = s[x]
  BY <1>1, <1>2, PrefixIs, Zenon
<1>6. Len(q) = Len(r) /\ \A x \in 1 .. Len(q) : q[x] = r[x]
  BY <1>2, <1>3, <1>4, <1>5, Zenon
<1> QED BY <1>1, <1>4, <1>5, <1>6, SeqEqual, Zenon

\* The texts before an offset of a text end on a boundary, and no others.
LEMMA PrefixIsWhole ==
  ASSUME NEW s \in Seq(Octet), EachWhole(s), NEW n \in Nat, n <= Len(s)
  PROVE  EachWhole(Prefix(s, n)) <=> TextIsBoundary(s, n)
<1>1. PICK p : p = Prefix(s, n)
  OBVIOUS
<1>2. p \in Seq(Octet) /\ Len(p) = n /\ StandsAt(p, s, 0) /\ 0 \in Nat
  BY <1>1, PrefixIs, Zenon
<1>3. 0 + n = n /\ TextIsBoundary(s, 0)
  BY Ends, SMT
<1>4. ASSUME TextIsBoundary(s, n) PROVE EachWhole(p)
  <2>1. TextIsBoundary(s, 0 + Len(p))
    BY <1>2, <1>3, <1>4
  <2> QED BY <1>2, <1>3, <2>1, PartIsWhole, Zenon
<1>5. ASSUME EachWhole(p) PROVE TextIsBoundary(s, n)
  <2>1. CASE n = 0
    BY <1>3, <2>1
  <2>2. CASE n # 0
    <3>1. p # <<>>
      BY <1>2, <2>2, EmptySeq, Zenon
    <3>2. TextIsBoundary(s, 0 + Len(p))
      BY <1>2, <1>5, <3>1, PartEndsOnBoundary, Zenon
    <3> QED BY <1>2, <1>3, <3>2
  <2> QED BY <2>1, <2>2
<1> QED BY <1>1, <1>4, <1>5

------------------------------------------------------------------------------
\* What an operation needs of the value it reads, and of the one it gives.

\* What the constants are.
LEMMA Parameters ==
  /\ \A s \in Source : s \in Seq(Octet)
  /\ \A m \in Piece : m \in Seq(Octet) /\ m # <<>> /\ WellFormed(m) /\ ~HasNul(m)
  /\ \A c \in Capacity : c \in Nat
  /\ \A c \in Usize : c \in Nat
<1>1. \A s \in Source \cup Piece : s \in Seq(Octet)
  BY ValuesAssumption, Zenon
<1>2. \A m \in Piece : m # <<>> /\ WellFormed(m) /\ ~HasNul(m)
  BY ValuesAssumption, Zenon DEF HasNul
<1>3. \A c \in Usize : c \in Nat
  BY WidthAssumption, SMT DEF Usize
<1>4. Capacity \subseteq Usize
  BY ValuesAssumption, Zenon
<1> QED BY <1>1, <1>2, <1>3, <1>4, Zenon

\* A string the validator accepts is a text, and one it refuses is answered exactly.
LEMMA ValidMeansWhole ==
  ASSUME NEW s \in Seq(Octet)
  PROVE  /\ ValidateUtf8(s) = Valid => WellFormed(s)
         /\ ValidateUtf8(s) # Valid => AnswerFits(s, Invalid(ValidateUtf8(s)[2]))
<1>1. PICK a : a = ValidateUtf8(s)
  OBVIOUS
<1>2. AnswerFits(s, a)
  BY <1>1, ValidatorIsExact, Zenon
<1>3. \A k : Valid # Invalid(k) /\ Invalid(k)[2] = k
  BY SMT DEF Valid, Invalid
<1>4. a = Valid => WellFormed(s)
  BY <1>2, <1>3, Zenon DEF AnswerFits
<1>5. a # Valid => \E k : a = Invalid(k)
  BY <1>2, Zenon DEF AnswerFits
<1>6. a # Valid => a = Invalid(a[2])
  BY <1>3, <1>5, Zenon
<1> QED BY <1>1, <1>2, <1>4, <1>6, Zenon

LEMMA DetachedMade ==
  ASSUME NEW b PROVE MadeFrom(b, Detached)
BY DEF MadeFrom

\* What suffices for a value of each role.
LEMMA TextOk ==
  ASSUME NEW b \in Seq(Octet), WellFormed(b), NEW from, MadeFrom(b, from)
  PROVE  ValueOk(Text(b), from)
<1>1. PICK v : v = Text(b)
  OBVIOUS
<1>2. v.role = "Text" /\ v.bytes = b
  BY <1>1, Zenon DEF Text
<1>3. v.role # "CString" /\ Body(v) = b
  BY <1>2 DEF Body
<1> QED BY <1>1, <1>2, <1>3, Zenon DEF ValueOk

LEMMA CStrOk ==
  ASSUME NEW b \in Seq(Octet), ~HasNul(b), NEW from, MadeFrom(b, from)
  PROVE  ValueOk(CStr(b), from)
<1>1. PICK v : v = CStr(b)
  OBVIOUS
<1>2. v.role = "CStr" /\ v.bytes = b
  BY <1>1, Zenon DEF CStr
<1>3. v.role # "CString" /\ v.role # "Text" /\ Body(v) = b
  BY <1>2 DEF Body
<1> QED BY <1>1, <1>2, <1>3, Zenon DEF ValueOk

LEMMA CStringOk ==
  ASSUME NEW b \in Seq(Octet), ~HasNul(b), NEW from, MadeFrom(b, from)
  PROVE  ValueOk(CString(b \o Zero), from)
<1>1. PICK v, t : v = CString(t) /\ t = b \o Zero
  OBVIOUS
<1>2. v.role = "CString" /\ v.bytes = t
  BY <1>1, Zenon DEF CString
<1>3. t \in Seq(Octet) /\ Prefix(t, Len(t) - 1) = b
  BY <1>1, WithZero, Zenon
<1>4. v.role # "Text" /\ Body(v) = b
  BY <1>2, <1>3 DEF Body
<1> QED BY <1>1, <1>2, <1>3, <1>4, Zenon DEF ValueOk

\* An answer that is no rejection says nothing of the validator.
LEMMA OtherAnswers ==
  /\ AnswerOk(<<"Ok">>) /\ AnswerOk(LengthOverflow) /\ AnswerOk(NoTerminator)
  /\ \A k : AnswerOk(InteriorAt(k)) /\ AnswerOk(NotScalarBoundary(k))
BY SMT DEF AnswerOk, LengthOverflow, NoTerminator, InteriorAt, NotScalarBoundary

LEMMA InvalidAnswer ==
  ASSUME NEW s \in Seq(Octet), ValidateUtf8(s) # Valid
  PROVE  AnswerOk(InvalidText(s, ValidateUtf8(s)[2]))
<1>1. PICK a, k : a = InvalidText(s, k) /\ k = ValidateUtf8(s)[2]
  OBVIOUS
<1>2. a[2] = s /\ a[3] = k
  BY <1>1, SMT DEF InvalidText
<1>3. AnswerFits(s, Invalid(k))
  BY <1>1, ValidMeansWhole, Zenon
<1> QED BY <1>1, <1>2, <1>3, Zenon DEF AnswerOk

\* A call that gives a value gives one that keeps its promise, and a call that
\* does not leaves the value as it is.
LEMMA GivesOk ==
  ASSUME NEW v, NEW from, ValueOk(v, from), Gives(v, from)
  PROVE  IInv'
<1>1. val' = v /\ origin' = from /\ ans' = <<"Ok">>
  BY Zenon DEF Gives
<1>2. ValueOk(val', origin')
  BY <1>1, Zenon
<1>3. AnswerOk(ans')
  BY <1>1, OtherAnswers, Zenon
<1> QED BY <1>2, <1>3, Zenon DEF IInv

LEMMA AnswersOk ==
  ASSUME IInv, NEW a, AnswerOk(a), Answers(a)
  PROVE  IInv'
<1>1. ans' = a /\ val' = val /\ origin' = origin
  BY Zenon DEF Answers
<1>2. ValueOk(val', origin')
  BY <1>1, Zenon DEF IInv
<1>3. AnswerOk(ans')
  BY <1>1, Zenon
<1> QED BY <1>2, <1>3, Zenon DEF IInv

\* The first value, the empty text.
LEMMA InitOk == Init => IInv
<1>. SUFFICES ASSUME Init PROVE IInv
  OBVIOUS
<1>1. <<>> \in Seq(Octet)
  BY EmptySeq, Zenon
<1>2. WellFormed(<<>>)
  BY <1>1, EmptyIsWhole, WholeIsWellFormed, Zenon
<1>3. ValueOk(Text(<<>>), Detached)
  BY <1>1, <1>2, DetachedMade, TextOk, Zenon
<1> QED BY <1>3, OtherAnswers, Zenon DEF Init, IInv

\* What the value held promises.
LEMMA Held ==
  ASSUME IInv
  PROVE  /\ val.bytes \in Seq(Octet)
         /\ val.role = "Text" => WellFormed(val.bytes) /\ MadeFrom(val.bytes, origin)
         /\ val.role = "CStr" => ~HasNul(val.bytes) /\ MadeFrom(val.bytes, origin)
         /\ val.role = "CString" =>
              /\ Body(val) \in Seq(Octet) /\ ~HasNul(Body(val))
              /\ val.bytes = Body(val) \o Zero /\ MadeFrom(Body(val), origin)
<1>1. ValueOk(val, origin)
  BY Zenon DEF IInv
<1>2. val.role # "CString" => Body(val) = val.bytes
  BY Zenon DEF Body
<1>3. val.role = "Text" => val.role # "CString"
  OBVIOUS
<1>4. val.role = "CStr" => val.role # "CString" /\ val.role # "Text"
  OBVIOUS
<1>5. val.role = "CString" => val.role # "Text"
  OBVIOUS
<1> QED BY <1>1, <1>2, <1>3, <1>4, <1>5, Zenon DEF ValueOk

\* What is left of what was made from a text was made from it.
LEMMA MadeShorter ==
  ASSUME NEW b \in Seq(Octet), NEW from, MadeFrom(b, from), NEW n \in Nat, n <= Len(b)
  PROVE  MadeFrom(Prefix(b, n), from)
<1>1. SUFFICES ASSUME from # Detached PROVE MadeFrom(Prefix(b, n), from)
  BY DEF MadeFrom
<1>2. /\ from \in Seq(Octet) /\ WellFormed(from)
      /\ Len(b) <= Len(from) /\ b = Prefix(from, Len(b))
  BY <1>1, Zenon DEF MadeFrom
<1>3. PICK k \in Nat : k = Len(b)
  OBVIOUS
<1>4. Prefix(b, n) = Prefix(from, n)
  <2>1. n <= k /\ k <= Len(from) /\ b = Prefix(from, k)
    BY <1>2, <1>3
  <2> QED BY <1>2, <2>1, PrefixOfPrefix, Zenon
<1>5. Len(Prefix(b, n)) = n /\ n <= Len(from)
  <2>1. Len(Prefix(b, n)) = n
    BY PrefixIs, Zenon
  <2>2. Len(from) \in Nat
    BY <1>2, SMT
  <2> QED BY <1>2, <1>3, <2>1, <2>2, SMT
<1> QED BY <1>2, <1>4, <1>5, Zenon DEF MadeFrom

\* from_utf8 on bytes made from a text, and cstring_from on them.
LEMMA DecodedOk ==
  ASSUME IInv, NEW s \in Seq(Octet), NEW from, MadeFrom(s, from), Decoded(s, from)
  PROVE  IInv'
<1>1. CASE ValidateUtf8(s) = Valid /\ Gives(Text(s), from)
  BY <1>1, ValidMeansWhole, TextOk, GivesOk, Zenon
<1>2. CASE ValidateUtf8(s) # Valid /\ Answers(InvalidText(s, ValidateUtf8(s)[2]))
  BY <1>2, InvalidAnswer, AnswersOk, Zenon
<1> QED BY <1>1, <1>2, Zenon DEF Decoded

LEMMA TerminatedOk ==
  ASSUME IInv, NEW s \in Seq(Octet), NEW from, MadeFrom(s, from), Terminated(s, from)
  PROVE  IInv'
<1>1. CASE HasNul(s) /\ Answers(InteriorAt(NulOffset(s)))
  BY <1>1, OtherAnswers, AnswersOk, Zenon
<1>2. CASE ~HasNul(s) /\ Terminable(s) /\ Gives(CString(s \o Zero), from)
  BY <1>2, CStringOk, GivesOk, Zenon
<1> QED BY <1>1, <1>2, Zenon DEF Terminated

------------------------------------------------------------------------------
\* Every operation keeps the invariant.

LEMMA FromUtf8Step ==
  ASSUME IInv, NEW s \in Source, FromUtf8(s) PROVE IInv'
<1>1. s \in Seq(Octet)
  BY Parameters, Zenon
<1> QED BY <1>1, DetachedMade, DecodedOk, Zenon DEF FromUtf8

LEMMA ConcatStep ==
  ASSUME IInv, NEW m \in Piece, Concat(m) PROVE IInv'
<1>1. CASE Answers(LengthOverflow)
  BY <1>1, OtherAnswers, AnswersOk, Zenon
<1>2. CASE val.role = "Text" /\ Gives(Text(val.bytes \o m), Detached)
  <2>1. PICK b : b = val.bytes
    OBVIOUS
  <2>2. b \in Seq(Octet) /\ WellFormed(b)
    BY <1>2, <2>1, Held, Zenon
  <2>3. m \in Seq(Octet) /\ WellFormed(m)
    BY Parameters, Zenon
  <2>4. b \o m \in Seq(Octet)
    BY <2>2, <2>3, ConcatProperties
  <2>5. EachWhole(b \o m)
    BY <2>2, <2>3, WellFormedIsWhole, ConcatIsWhole, Zenon
  <2>6. WellFormed(b \o m)
    BY <2>4, <2>5, WholeIsWellFormed, Zenon
  <2>7. ValueOk(Text(b \o m), Detached)
    BY <2>4, <2>6, DetachedMade, TextOk, Zenon
  <2> QED BY <1>2, <2>1, <2>7, GivesOk, Zenon
<1> QED BY <1>1, <1>2, Zenon DEF Concat

\* What slice_bytes accepts.
LEMMA RefusalIs ==
  ASSUME NEW s \in Seq(Octet), NEW start \in Nat, NEW end \in Nat
  PROVE  Refusal(s, start, end) = None <=>
           /\ start <= end /\ end <= Len(s)
           /\ TextIsBoundary(s, start) /\ TextIsBoundary(s, end)
<1>0. PICK n \in Nat : n = Len(s)
  OBVIOUS
<1>1. \A k : Some(k) # None
  BY SMT DEF Some, None
<1>2. CASE start > n
  <2>1. Refusal(s, start, end) = Some(start)
    BY <1>0, <1>2, SMT DEF Refusal
  <2> QED BY <1>0, <1>1, <1>2, <2>1, SMT
<1>3. CASE start <= n /\ end > n
  <2>1. Refusal(s, start, end) = Some(end)
    BY <1>0, <1>3, SMT DEF Refusal
  <2> QED BY <1>0, <1>1, <1>3, <2>1, SMT
<1>4. CASE end <= n /\ start > end
  <2>1. Refusal(s, start, end) = Some(start) \/ Refusal(s, start, end) = Some(end)
    BY <1>0, <1>4, SMT DEF Refusal
  <2> QED BY <1>0, <1>1, <1>4, <2>1, SMT
<1>5. CASE start <= end /\ end <= n /\ ~TextIsBoundary(s, start)
  <2>1. Refusal(s, start, end) = Some(start)
    BY <1>0, <1>5, SMT DEF Refusal
  <2> QED BY <1>1, <1>5, <2>1, Zenon
<1>6. CASE start <= end /\ end <= n /\ TextIsBoundary(s, start)
  <2>1. Refusal(s, start, end) = IF TextIsBoundary(s, end) THEN None ELSE Some(end)
    BY <1>0, <1>6, SMT DEF Refusal
  <2> QED BY <1>0, <1>1, <1>6, <2>1, Zenon
<1> QED BY <1>0, <1>2, <1>3, <1>4, <1>5, <1>6, SMT

\* A slice stands in the text it was cut from, between two cuts.
LEMMA SliceStands ==
  ASSUME NEW s \in Seq(Octet), NEW i \in Nat, NEW k \in Nat, i <= k, k <= Len(s)
  PROVE  /\ SubSeq(s, i + 1, k) \in Seq(Octet)
         /\ StandsAt(SubSeq(s, i + 1, k), s, i) /\ i + Len(SubSeq(s, i + 1, k)) = k
<1>1. PICK m, w : m = SubSeq(s, i + 1, k) /\ w = k - i
  OBVIOUS
<1>2. m \in Seq(Octet) /\ Len(m) = w /\ \A x \in 1 .. w : m[x] = s[i + x]
  BY <1>1, SliceIs, Zenon
<1>3. i + w = k
  BY <1>1, SMT
<1>4. StandsAt(m, s, i)
  BY <1>2, <1>3 DEF StandsAt
<1> QED BY <1>1, <1>2, <1>3, <1>4, Zenon

LEMMA SliceBytesStep ==
  ASSUME IInv, NEW start \in Usize, NEW end \in Usize, SliceBytes(start, end) PROVE IInv'
<1>1. CASE Answers(NotScalarBoundary(Refusal(val.bytes, start, end)[2]))
  BY <1>1, OtherAnswers, AnswersOk, Zenon
<1>2. CASE /\ val.role = "Text" /\ Refusal(val.bytes, start, end) = None
           /\ Gives(Text(SubSeq(val.bytes, start + 1, end)), Detached)
  <2>1. PICK b, m : b = val.bytes /\ m = SubSeq(b, start + 1, end)
    OBVIOUS
  <2>2. b \in Seq(Octet) /\ EachWhole(b)
    BY <1>2, <2>1, Held, WellFormedIsWhole, Zenon
  <2>3. start \in Nat /\ end \in Nat
    BY Parameters, Zenon
  <2>4. /\ start <= end /\ end <= Len(b)
        /\ TextIsBoundary(b, start) /\ TextIsBoundary(b, end)
    BY <1>2, <2>1, <2>2, <2>3, RefusalIs, Zenon
  <2>5. m \in Seq(Octet) /\ StandsAt(m, b, start) /\ start + Len(m) = end
    BY <2>1, <2>2, <2>3, <2>4, SliceStands, Zenon
  <2>6. TextIsBoundary(b, start + Len(m))
    BY <2>4, <2>5
  <2>7. EachWhole(m)
    BY <2>2, <2>3, <2>4, <2>5, <2>6, PartIsWhole, Zenon
  <2>8. ValueOk(Text(m), Detached)
    BY <2>5, <2>7, WholeIsWellFormed, DetachedMade, TextOk, Zenon
  <2> QED BY <1>2, <2>1, <2>8, GivesOk, Zenon
<1> QED BY <1>1, <1>2, Zenon DEF SliceBytes

LEMMA FromTextStep == ASSUME IInv, FromText PROVE IInv'
<1>1. val.role = "Text" /\ Terminated(val.bytes, val.bytes)
  BY Zenon DEF FromText
<1>2. PICK b : b = val.bytes
  OBVIOUS
<1>3. b \in Seq(Octet) /\ WellFormed(b)
  BY <1>1, <1>2, Held, Zenon
<1>4. MadeFrom(b, b)
  <2>1. Len(b) <= Len(b)
    BY <1>3, SMT
  <2>2. b = Prefix(b, Len(b))
    BY <1>3, SubSeqFull, Zenon DEF Prefix
  <2> QED BY <1>3, <2>1, <2>2, Zenon DEF MadeFrom
<1> QED BY <1>1, <1>2, <1>3, <1>4, TerminatedOk, Zenon

LEMMA FromBytesStep == ASSUME IInv, NEW s \in Source, FromBytes(s) PROVE IInv'
<1>1. s \in Seq(Octet)
  BY Parameters, Zenon
<1> QED BY <1>1, DetachedMade, TerminatedOk, Zenon DEF FromBytes

LEMMA FromBytesWithNulStep ==
  ASSUME IInv, NEW s \in Source, FromBytesWithNul(s) PROVE IInv'
<1>1. CASE Answers(NoTerminator)
  BY <1>1, OtherAnswers, AnswersOk, Zenon
<1>2. CASE Answers(InteriorAt(NulOffset(s)))
  BY <1>2, OtherAnswers, AnswersOk, Zenon
<1>3. CASE NulOffset(s) = Len(s) - 1 /\ Gives(CStr(Prefix(s, Len(s) - 1)), Detached)
  <2>1. PICK n : n = NulOffset(s)
    OBVIOUS
  <2>2. s \in Seq(Octet)
    BY Parameters, Zenon
  <2>3. n \in Nat /\ n <= Len(s) /\ \A x \in 1 .. n : s[x] # 0
    BY <2>1, <2>2, NulOffsetIs, Zenon
  <2>4. Prefix(s, n) \in Seq(Octet) /\ ~HasNul(Prefix(s, n))
    BY <2>2, <2>3, PrefixNoNul, Zenon
  <2>5. ValueOk(CStr(Prefix(s, n)), Detached)
    BY <2>4, DetachedMade, CStrOk, Zenon
  <2> QED BY <1>3, <2>1, <2>5, GivesOk, Zenon
<1> QED BY <1>1, <1>2, <1>3, Zenon DEF FromBytesWithNul

LEMMA FromBytesUntilNulStep ==
  ASSUME IInv, NEW s \in Source, FromBytesUntilNul(s) PROVE IInv'
<1>1. CASE Answers(NoTerminator)
  BY <1>1, OtherAnswers, AnswersOk, Zenon
<1>2. CASE Gives(CStr(Prefix(s, NulOffset(s))), Detached)
  <2>1. PICK n : n = NulOffset(s)
    OBVIOUS
  <2>2. s \in Seq(Octet)
    BY Parameters, Zenon
  <2>3. n \in Nat /\ n <= Len(s) /\ \A x \in 1 .. n : s[x] # 0
    BY <2>1, <2>2, NulOffsetIs, Zenon
  <2>4. Prefix(s, n) \in Seq(Octet) /\ ~HasNul(Prefix(s, n))
    BY <2>2, <2>3, PrefixNoNul, Zenon
  <2>5. ValueOk(CStr(Prefix(s, n)), Detached)
    BY <2>4, DetachedMade, CStrOk, Zenon
  <2> QED BY <1>2, <2>1, <2>5, GivesOk, Zenon
<1> QED BY <1>1, <1>2, Zenon DEF FromBytesUntilNul

LEMMA BorrowStep == ASSUME IInv, Borrow PROVE IInv'
<1>1. /\ val.role = "CString"
      /\ Gives(CStr(IF val.bytes = <<>> THEN val.bytes
                    ELSE Prefix(val.bytes, Len(val.bytes) - 1)), origin)
  BY Zenon DEF Borrow
<1>2. PICK b : b = Body(val)
  OBVIOUS
<1>3. b \in Seq(Octet) /\ ~HasNul(b) /\ val.bytes = b \o Zero /\ MadeFrom(b, origin)
  BY <1>1, <1>2, Held, Zenon
<1>4. val.bytes # <<>> /\ Prefix(val.bytes, Len(val.bytes) - 1) = b
  BY <1>3, WithZero, Zenon
<1>5. Gives(CStr(b), origin)
  BY <1>1, <1>4
<1>6. ValueOk(CStr(b), origin)
  BY <1>3, CStrOk, Zenon
<1> QED BY <1>5, <1>6, GivesOk, Zenon

LEMMA ToTextStep == ASSUME IInv, ToText PROVE IInv'
<1>1. val.role = "CStr" /\ Decoded(val.bytes, origin)
  BY Zenon DEF ToText
<1>2. val.bytes \in Seq(Octet) /\ MadeFrom(val.bytes, origin)
  BY <1>1, Held, Zenon
<1> QED BY <1>1, <1>2, DecodedOk, Zenon

LEMMA CloneOwnedStep == ASSUME IInv, CloneOwned PROVE IInv'
<1>1. CASE Answers(LengthOverflow)
  BY <1>1, OtherAnswers, AnswersOk, Zenon
<1>2. CASE val.role = "CStr" /\ Gives(CString(val.bytes \o Zero), origin)
  <2>1. val.bytes \in Seq(Octet) /\ ~HasNul(val.bytes) /\ MadeFrom(val.bytes, origin)
    BY <1>2, Held, Zenon
  <2> QED BY <1>2, <2>1, CStringOk, GivesOk, Zenon
<1> QED BY <1>1, <1>2, Zenon DEF CloneOwned

LEMMA ConcatCStrStep ==
  ASSUME IInv, NEW m \in Piece, ConcatCStr(m) PROVE IInv'
<1>1. CASE Answers(LengthOverflow)
  BY <1>1, OtherAnswers, AnswersOk, Zenon
<1>2. CASE val.role = "CStr" /\ Gives(CString((val.bytes \o m) \o Zero), Detached)
  <2>1. PICK b, t : b = val.bytes /\ t = b \o m
    OBVIOUS
  <2>2. b \in Seq(Octet) /\ ~HasNul(b)
    BY <1>2, <2>1, Held, Zenon
  <2>3. m \in Seq(Octet) /\ ~HasNul(m)
    BY Parameters, Zenon
  <2>4. /\ t \in Seq(Octet) /\ Len(t) = Len(b) + Len(m)
        /\ \A x \in 1 .. Len(b) + Len(m) : t[x] = IF x <= Len(b) THEN b[x] ELSE m[x - Len(b)]
    BY <2>1, <2>2, <2>3, ConcatProperties
  <2>5. \A x \in 1 .. Len(b) : b[x] # 0
    BY <2>2, NoNul, Zenon
  <2>6. \A x \in 1 .. Len(m) : m[x] # 0
    BY <2>3, NoNul, Zenon
  <2>7. ASSUME NEW x \in 1 .. Len(t) PROVE t[x] # 0
    <3>0. Len(b) \in Nat /\ Len(m) \in Nat
      BY <2>2, <2>3
    <3>1. CASE x <= Len(b)
      <4>1. x \in 1 .. Len(b)
        BY <2>4, <3>0, <3>1, SMT
      <4> QED BY <2>4, <2>5, <3>1, <4>1
    <3>2. CASE ~(x <= Len(b))
      <4>1. x - Len(b) \in 1 .. Len(m)
        BY <2>4, <3>0, <3>2, SMT
      <4> QED BY <2>4, <2>6, <3>2, <4>1
    <3> QED BY <3>1, <3>2
  <2>8. ~HasNul(t)
    BY <2>4, <2>7, NoNul, Zenon
  <2>9. ValueOk(CString(t \o Zero), Detached)
    BY <2>4, <2>8, DetachedMade, CStringOk, Zenon
  <2> QED BY <1>2, <2>1, <2>9, GivesOk, Zenon
<1> QED BY <1>1, <1>2, Zenon DEF ConcatCStr

LEMMA StrNDupStep ==
  ASSUME IInv, NEW s \in Source, NEW n \in Usize, StrNDup(s, n) PROVE IInv'
<1>0. PICK k, p, stop : /\ k = AtMost(n, Len(s)) /\ p = Prefix(s, k)
                        /\ stop = NulOffset(p)
  OBVIOUS
<1>1. CASE Answers(LengthOverflow)
  BY <1>1, OtherAnswers, AnswersOk, Zenon
<1>2. CASE Gives(CString(Prefix(s, stop) \o Zero), Detached)
  <2>1. s \in Seq(Octet) /\ n \in Nat
    BY Parameters, Zenon
  <2>2. k \in Nat /\ k <= Len(s)
    BY <1>0, <2>1, SMT DEF AtMost
  <2>3. p \in Seq(Octet) /\ Len(p) = k /\ \A x \in 1 .. k : p[x] = s[x]
    BY <1>0, <2>1, <2>2, PrefixIs, Zenon
  <2>4. stop \in Nat /\ stop <= Len(p) /\ \A x \in 1 .. stop : p[x] # 0
    BY <1>0, <2>3, NulOffsetIs, Zenon
  <2>5. Prefix(p, stop) \in Seq(Octet) /\ ~HasNul(Prefix(p, stop))
    BY <2>3, <2>4, PrefixNoNul, Zenon
  <2>6. Prefix(p, stop) = Prefix(s, stop)
    BY <1>0, <2>1, <2>2, <2>3, <2>4, PrefixOfPrefix
  <2>7. ValueOk(CString(Prefix(s, stop) \o Zero), Detached)
    BY <2>5, <2>6, DetachedMade, CStringOk, Zenon
  <2> QED BY <1>2, <2>7, GivesOk, Zenon
<1> QED BY <1>0, <1>1, <1>2, Zenon DEF StrNDup

LEMMA ThroughBufferStep ==
  ASSUME IInv, NEW c \in Capacity, ThroughBuffer(c) PROVE IInv'
<1>1. CASE Answers(NoTerminator)
  BY <1>1, OtherAnswers, AnswersOk, Zenon
<1>2. CASE /\ val.role = "CStr" /\ c > 0
           /\ Gives(CStr(Prefix(val.bytes, AtMost(Len(val.bytes), c - 1))), origin)
  <2>1. PICK b, k : b = val.bytes /\ k = AtMost(Len(b), c - 1)
    OBVIOUS
  <2>2. b \in Seq(Octet) /\ ~HasNul(b) /\ MadeFrom(b, origin)
    BY <1>2, <2>1, Held, Zenon
  <2>3. c \in Nat
    BY Parameters, Zenon
  <2>4. k \in Nat /\ k <= Len(b) /\ \A x \in 1 .. k : x \in 1 .. Len(b)
    BY <1>2, <2>1, <2>2, <2>3, SMT DEF AtMost
  <2>5. \A x \in 1 .. k : b[x] # 0
    BY <2>2, <2>4, NoNul, Zenon
  <2>6. Prefix(b, k) \in Seq(Octet) /\ ~HasNul(Prefix(b, k)) /\ MadeFrom(Prefix(b, k), origin)
    BY <2>2, <2>4, <2>5, PrefixNoNul, MadeShorter, Zenon
  <2> QED BY <1>2, <2>1, <2>6, CStrOk, GivesOk, Zenon
<1> QED BY <1>1, <1>2, Zenon DEF ThroughBuffer

LEMMA NextOk == ASSUME IInv, [Next]_vars PROVE IInv'
<1>1. CASE UNCHANGED vars
  BY <1>1, Zenon DEF vars, IInv
<1>2. ASSUME NEW s \in Source,
             \/ FromUtf8(s) \/ FromBytes(s) \/ FromBytesWithNul(s) \/ FromBytesUntilNul(s)
             \/ \E n \in Usize : StrNDup(s, n)
      PROVE  IInv'
  BY <1>2, FromUtf8Step, FromBytesStep, FromBytesWithNulStep, FromBytesUntilNulStep,
     StrNDupStep, Zenon
<1>3. ASSUME NEW m \in Piece, Concat(m) \/ ConcatCStr(m) PROVE IInv'
  BY <1>3, ConcatStep, ConcatCStrStep, Zenon
<1>4. ASSUME NEW start \in Usize, NEW end \in Usize, SliceBytes(start, end) PROVE IInv'
  BY <1>4, SliceBytesStep, Zenon
<1>5. ASSUME NEW c \in Capacity, ThroughBuffer(c) PROVE IInv'
  BY <1>5, ThroughBufferStep, Zenon
<1>6. CASE FromText \/ Borrow \/ ToText \/ CloneOwned
  BY <1>6, FromTextStep, BorrowStep, ToTextStep, CloneOwnedStep, Zenon
<1> QED BY <1>1, <1>2, <1>3, <1>4, <1>5, <1>6, Zenon DEF Next

------------------------------------------------------------------------------
\* The properties, from the invariant.

\* What IInv says of each role.
LEMMA RolesFollow == ASSUME IInv PROVE RolesHold
<1>1. val.role = "Text" => WellFormed(val.bytes)
  BY Held, Zenon
<1>2. val.role = "CStr" => ~HasNul(val.bytes)
  BY Held, Zenon
<1>3. ASSUME val.role = "CString"
      PROVE  Len(val.bytes) > 0 /\ NulOffset(val.bytes) = Len(val.bytes) - 1
  <2>1. PICK b, t : b = Body(val) /\ t = val.bytes
    OBVIOUS
  <2>2. b \in Seq(Octet) /\ ~HasNul(b) /\ t = b \o Zero
    BY <1>3, <2>1, Held, Zenon
  <2>3. Len(t) = Len(b) + 1 /\ NulOffset(t) = Len(t) - 1
    BY <2>2, WithZero, Zenon
  <2>4. Len(t) > 0
    BY <2>2, <2>3, SMT
  <2> QED BY <2>1, <2>3, <2>4
<1> QED BY <1>1, <1>2, <1>3, Zenon DEF RolesHold

\* Where the validator stops in what is left of a text: at the beginning of the
\* one scalar that was cut.
LEMMA CutAtScalar ==
  ASSUME NEW from \in Seq(Octet), WellFormed(from),
         NEW b \in Seq(Octet), NEW n, n = Len(b), n <= Len(from), b = Prefix(from, n),
         NEW k, AnswerFits(b, Invalid(k))
  PROVE  /\ n - k \in 1 .. 3
         /\ TextIsBoundary(from, k)
         /\ \A j \in k + 1 .. n : ~TextIsBoundary(from, j)
<1>0. n \in Nat /\ Len(from) \in Nat /\ EachWhole(from)
  BY WellFormedIsWhole
<1>1. /\ k \in 0 .. n - 1
      /\ WellFormed(Prefix(b, k))
      /\ \A j \in k + 1 .. n : ~WellFormed(Prefix(b, j))
  <2>1. \A i : Valid # Invalid(i) /\ (Invalid(k) = Invalid(i) => k = i)
    BY SMT DEF Valid, Invalid
  <2> QED BY <2>1, Zenon DEF AnswerFits
<1>2. k \in Nat /\ k < n /\ k <= n /\ k <= Len(from) /\ k < Len(from)
      /\ k \in 0 .. Len(from) - 1
  BY <1>0, <1>1, SMT
<1>3. ASSUME NEW j \in Nat, j <= n PROVE WellFormed(Prefix(b, j)) <=> TextIsBoundary(from, j)
  <2>1. j <= Len(from)
    BY <1>0, <1>3, SMT
  <2>2. Prefix(b, j) = Prefix(from, j)
    <3>1. Prefix(Prefix(from, n), j) = Prefix(from, j)
      BY <1>0, <1>3, PrefixOfPrefix
    <3> QED BY <3>1
  <2>3. Prefix(from, j) \in Seq(Octet)
    BY <1>3, <2>1, PrefixIs, Zenon
  <2>4. WellFormed(Prefix(from, j)) <=> EachWhole(Prefix(from, j))
    BY <2>3, WholeIffWellFormed, Zenon
  <2>5. EachWhole(Prefix(from, j)) <=> TextIsBoundary(from, j)
    BY <1>0, <1>3, <2>1, PrefixIsWhole, Zenon
  <2> QED BY <2>2, <2>4, <2>5, Zenon
<1>4. TextIsBoundary(from, k)
  BY <1>1, <1>2, <1>3, Zenon
<1>5. ASSUME NEW j \in k + 1 .. n PROVE ~TextIsBoundary(from, j)
  <2>1. j \in Nat /\ j <= n
    BY <1>0, <1>2, SMT
  <2> QED BY <1>1, <1>3, <1>5, <2>1, Zenon
<1>6. PICK w : w = Width(from[k + 1])
  OBVIOUS
<1>7. Accepts(from, k) /\ TextIsBoundary(from, k + w)
  BY <1>0, <1>2, <1>4, <1>6, Zenon DEF EachWhole
<1>8. w \in 1 .. 4
  BY <1>2, <1>6, <1>7, Covered, Zenon
<1>9. ~(k + w \in k + 1 .. n)
  BY <1>5, <1>7
<1>10. n - k \in 1 .. 3
  BY <1>0, <1>2, <1>8, <1>9, SMT
<1> QED BY <1>4, <1>5, <1>10, Zenon

LEMMA CutFollows == ASSUME IInv PROVE CutOnScalar
<1>1. SUFFICES ASSUME origin # Detached PROVE CutOnScalar
  BY Zenon DEF CutOnScalar
<1>2. PICK b, n : b = val.bytes /\ n = Len(b)
  OBVIOUS
<1>3. b \in Seq(Octet)
  BY <1>2, Held, Zenon
<1>4. ASSUME val.role = "Text" \/ val.role = "CStr"
      PROVE  /\ origin \in Seq(Octet) /\ WellFormed(origin)
             /\ n <= Len(origin) /\ b = Prefix(origin, n)
  <2>1. MadeFrom(b, origin)
    BY <1>2, <1>4, Held, Zenon
  <2> QED BY <1>1, <1>2, <2>1, Zenon DEF MadeFrom
<1>5. ASSUME val.role = "Text" PROVE b = Prefix(origin, n) /\ TextIsBoundary(origin, n)
  <2>1. /\ origin \in Seq(Octet) /\ n <= Len(origin) /\ b = Prefix(origin, n)
        /\ EachWhole(origin)
    BY <1>4, <1>5, WellFormedIsWhole, Zenon
  <2>2. n \in Nat
    BY <1>2, <1>3
  <2>3. EachWhole(b)
    BY <1>2, <1>3, <1>5, Held, WellFormedIsWhole, Zenon
  <2> QED BY <2>1, <2>2, <2>3, PrefixIsWhole, Zenon
<1>6. ASSUME val.role = "CStr", ans[1] = "Invalid", ans[2] = b, NEW k, k = ans[3]
      PROVE  /\ n - k \in 1 .. 3
             /\ TextIsBoundary(origin, k)
             /\ \A j \in k + 1 .. n : ~TextIsBoundary(origin, j)
  <2>1. AnswerFits(b, Invalid(k))
    BY <1>6, Zenon DEF IInv, AnswerOk
  <2>2. origin \in Seq(Octet) /\ WellFormed(origin) /\ n <= Len(origin) /\ b = Prefix(origin, n)
    BY <1>4, <1>6, Zenon
  <2> QED BY <1>2, <1>3, <2>1, <2>2, CutAtScalar, Zenon
<1> QED BY <1>2, <1>5, <1>6, Zenon DEF CutOnScalar

\* Where a piece occurs in a text, the text can be cut.
LEMMA OccurrenceIsSliceable ==
  ASSUME NEW s \in Seq(Octet), WellFormed(s),
         NEW m \in Seq(Octet), WellFormed(m), m # <<>>, NEW i \in Occurrences(s, m)
  PROVE  /\ Refusal(s, i, i + Len(m)) = None
         /\ SubSeq(s, i + 1, i + Len(m)) = m
<1>1. PICK n \in Nat : n = Len(m)
  OBVIOUS
<1>2. PICK e : e = i + n
  OBVIOUS
<1>3. i \in 0 .. Len(s) - n /\ Window(s, i, n) = m
  BY <1>1, Zenon DEF Occurrences
<1>4. i \in Nat /\ i + n <= Len(s) /\ e \in Nat /\ i <= e
  BY <1>2, <1>3, SMT
<1>5. StandsAt(m, s, i)
  BY <1>3, <1>4, WindowStands, Zenon
<1>6. TextIsBoundary(s, i) /\ TextIsBoundary(s, e)
  BY <1>1, <1>2, <1>4, <1>5, WellFormedIsWhole, PartEndsOnBoundary, Zenon
<1>7. Refusal(s, i, e) = None
  BY <1>2, <1>4, <1>6, RefusalIs, Zenon
<1> QED BY <1>1, <1>2, <1>3, <1>7, Zenon DEF Window

\* find_slice and rfind answer with an occurrence.
LEMMA FoundIsOccurrence ==
  ASSUME NEW s \in Seq(Octet), NEW m \in Seq(Octet)
  PROVE  /\ Find(s, m) = None <=> Occurrences(s, m) = {}
         /\ RFind(s, m) = None <=> Occurrences(s, m) = {}
         /\ Occurrences(s, m) # {} =>
              Find(s, m)[2] \in Occurrences(s, m) /\ RFind(s, m)[2] \in Occurrences(s, m)
<1>1. \A k : Some(k) # None /\ Some(k)[2] = k
  BY SMT DEF Some, None
<1>2. PICK S : S = Occurrences(s, m)
  OBVIOUS
<1>3. ASSUME S # {}
      PROVE  /\ \E x \in S : \A y \in S : x <= y
             /\ \E x \in S : \A y \in S : x >= y
  <2>1. PICK n : n = Len(s) - Len(m)
    OBVIOUS
  <2>2. S \subseteq 0 .. n
    BY <1>2, <2>1, Zenon DEF Occurrences
  <2>3. n \in Nat /\ S \in SUBSET Nat /\ S \in SUBSET (0 .. n)
    <3>1. n \in Int
      BY <2>1, SMT
    <3>2. PICK x \in S : x \in 0 .. n
      BY <1>3, <2>2
    <3> QED BY <2>2, <3>1, <3>2, SMT
  <2>4. \E x \in S : \A y \in S : x <= y
    BY <1>3, <2>3, LeastElement
  <2>5. PICK x \in S : \A y \in S : y <= x
    BY <1>3, <2>3, GreatestElement
  <2>6. \A y \in S : x >= y
    BY <2>3, <2>5, SMT
  <2> QED BY <2>4, <2>6
<1>4. CASE S = {}
  BY <1>2, <1>4, Zenon DEF Find, RFind
<1>5. CASE S # {}
  <2>1. PICK p, q : /\ p = CHOOSE i \in S : \A j \in S : i <= j
                    /\ q = CHOOSE i \in S : \A j \in S : i >= j
    OBVIOUS
  <2>2. p \in S
    BY <1>3, <1>5, <2>1
  <2>3. q \in S
    BY <1>3, <1>5, <2>1
  <2>4. Find(s, m) = Some(p) /\ RFind(s, m) = Some(q)
    BY <1>2, <1>5, <2>1 DEF Find, RFind
  <2> QED BY <1>1, <1>2, <1>5, <2>2, <2>3, <2>4, Zenon
<1> QED BY <1>4, <1>5

LEMMA FoundFollows == ASSUME IInv PROVE FoundIsSliceable
<1>. SUFFICES ASSUME val.role = "Text", NEW m \in Piece
              PROVE  /\ Find(val.bytes, m) = None <=> RFind(val.bytes, m) = None
                     /\ Find(val.bytes, m) # None =>
                          \A i \in {Find(val.bytes, m)[2], RFind(val.bytes, m)[2]} :
                            /\ Refusal(val.bytes, i, i + Len(m)) = None
                            /\ SubSeq(val.bytes, i + 1, i + Len(m)) = m
  BY Zenon DEF FoundIsSliceable
<1>1. PICK s : s = val.bytes
  OBVIOUS
<1>2. s \in Seq(Octet) /\ WellFormed(s)
  BY <1>1, Held, Zenon
<1>3. m \in Seq(Octet) /\ m # <<>> /\ WellFormed(m)
  BY Parameters, Zenon
<1>4. Find(s, m) = None <=> RFind(s, m) = None
  BY <1>2, <1>3, FoundIsOccurrence, Zenon
<1>5. ASSUME Find(s, m) # None, NEW i \in {Find(s, m)[2], RFind(s, m)[2]}
      PROVE  Refusal(s, i, i + Len(m)) = None /\ SubSeq(s, i + 1, i + Len(m)) = m
  <2>1. i \in Occurrences(s, m)
    BY <1>2, <1>3, <1>5, FoundIsOccurrence, Zenon
  <2> QED BY <1>2, <1>3, <2>1, OccurrenceIsSliceable, Zenon
<1> QED BY <1>1, <1>4, <1>5, Zenon

\* Every value keeps its role's promise, knows the text it was made from, and
\* every rejection is the validator's: the inductive invariant, of the chains of
\* calls with and without the pure inputs.
THEOREM ValuesInvariant == (Spec \/ MCSpec) => []IInv
<1>1. Spec => []IInv
  <2>1. IInv /\ [Next]_vars => IInv'
    BY NextOk, Zenon
  <2> QED BY <2>1, InitOk, PTL DEF Spec
<1>2. MCSpec => []IInv
  <2>1. MCInit => IInv
    <3>1. MCInit => Init
      BY Zenon DEF MCInit, Init
    <3> QED BY <3>1, InitOk, Zenon
  <2>2. IInv /\ [MCNext]_<<val, origin, ans, fed>> => IInv'
    <3>1. [MCNext]_<<val, origin, ans, fed>> => [Next]_vars
      BY Zenon DEF MCNext, vars
    <3> QED BY <3>1, NextOk, Zenon
  <2> QED BY <2>1, <2>2, PTL DEF MCSpec
<1> QED BY <1>1, <1>2, PTL

\* What each role promises, whatever calls a value went through.
THEOREM RolesDoHold == (Spec \/ MCSpec) => []RolesHold
<1>1. IInv => RolesHold
  BY RolesFollow, Zenon
<1> QED BY <1>1, ValuesInvariant, PTL

\* A text truncated as a C string is cut between two scalars or refused there.
THEOREM CutsAreOnScalars == (Spec \/ MCSpec) => []CutOnScalar
<1>1. IInv => CutOnScalar
  BY CutFollows, Zenon
<1> QED BY <1>1, ValuesInvariant, PTL

\* What a search finds can be sliced out.
THEOREM FoundCanBeSliced == (Spec \/ MCSpec) => []FoundIsSliceable
<1>1. IInv => FoundIsSliceable
  BY FoundFollows, Zenon
<1> QED BY <1>1, ValuesInvariant, PTL

\* The validator's answer is exact for every byte sequence fed to it.
THEOREM ValidatorStaysExact == MCSpec => []ValidatorExact
<1>. DEFINE J == fed[1] = "bytes" => fed[2] \in Seq(Octet)
<1>1. MCInit => J
  <2>1. SUFFICES ASSUME MCInit, fed[1] = "bytes" PROVE fed[2] \in Seq(Octet)
    OBVIOUS
  <2>2. fed \in PureInput
    <3>1. <<"chain">>[1] # "bytes"
      BY SMT
    <3> QED BY <2>1, <3>1, Zenon DEF MCInit
  <2>3. ~(\E v : fed = <<"int", v>>)
    <3>1. \A v : <<"int", v>>[1] # "bytes"
      BY SMT
    <3> QED BY <2>1, <3>1, Zenon
  <2>4. PICK s \in UNION {[1 .. n -> Edges] : n \in 0 .. MaxBytes} : fed = <<"bytes", s>>
    BY <2>2, <2>3, Zenon DEF PureInput
  <2>5. PICK n \in 0 .. MaxBytes : s \in [1 .. n -> Edges]
    OBVIOUS
  <2>6. n \in Nat /\ s \in [1 .. n -> Octet]
    <3>1. Edges \subseteq Octet /\ MaxBytes \in Nat
      BY InputAssumption, Zenon
    <3> QED BY <2>5, <3>1, SMT
  <2>7. s \in Seq(Octet)
    BY <2>6, SeqDef
  <2>8. fed[2] = s
    BY <2>4, SMT
  <2> QED BY <2>7, <2>8
<1>2. J /\ [MCNext]_<<val, origin, ans, fed>> => J'
  <2>1. [MCNext]_<<val, origin, ans, fed>> => fed' = fed
    BY Zenon DEF MCNext
  <2> QED BY <2>1, Zenon
<1>3. J => ValidatorExact
  BY ValidatorIsExact, Zenon DEF ValidatorExact
<1> QED BY <1>1, <1>2, <1>3, PTL DEF MCSpec

-----------------------------------------------------------------------------
(* ffs. Both its loop and the powers of two are recursive functions, which have *)
(* to be shown to exist.                                                        *)

IsPower(f, n) == f = [i \in 0 .. n |-> IF i = 0 THEN 1 ELSE 2 * f[i - 1]]

LEMMA PowerExists == \A n \in Nat : \E f : IsPower(f, n)
<1>1. SUFFICES ASSUME NEW n \in Nat, ~\E f : IsPower(f, n) PROVE FALSE
  OBVIOUS
<1>2. PICK T \in SUBSET Nat : T = {m \in Nat : ~\E f : IsPower(f, m)}
  OBVIOUS
<1>3. PICK m \in T : \A y \in T : m <= y
  <2>1. n \in T
    BY <1>1, <1>2
  <2> QED BY <2>1, LeastElement, Zenon
<1>4. m \in Nat /\ ~\E f : IsPower(f, m)
  BY <1>2, <1>3
<1>5. CASE m = 0
  <2>1. PICK f : f = [i \in 0 .. 0 |-> 1]
    OBVIOUS
  <2>2. IsPower(f, 0)
    BY <2>1 DEF IsPower
  <2> QED BY <1>4, <1>5, <2>2
<1>6. CASE m # 0
  <2>1. PICK k \in Nat : m = k + 1
    <3>1. m - 1 \in Nat /\ m = (m - 1) + 1
      BY <1>4, <1>6
    <3> QED BY <3>1, Zenon
  <2>2. k \notin T
    BY <1>3, <2>1
  <2>3. PICK f : IsPower(f, k)
    BY <1>2, <2>2
  <2>4. PICK g : g = [i \in 0 .. k + 1 |-> IF i = 0 THEN 1 ELSE 2 * f[i - 1]]
    OBVIOUS
  <2>5. \A i \in 0 .. k : g[i] = f[i]
    BY <2>3, <2>4 DEF IsPower
  <2>6. \A i \in 0 .. k + 1 : i # 0 => g[i - 1] = f[i - 1]
    BY <2>5
  <2>7. g = [i \in 0 .. k + 1 |-> IF i = 0 THEN 1 ELSE 2 * g[i - 1]]
    BY <2>4, <2>6
  <2> QED BY <1>4, <2>1, <2>7 DEF IsPower
<1> QED BY <1>5, <1>6

\* What a power of two is.
LEMMA Powers ==
  /\ PowerOfTwo[0] = 1
  /\ \A n \in 0 .. LongWidth - 1 : PowerOfTwo[n + 1] = 2 * PowerOfTwo[n]
  /\ \A n \in 0 .. LongWidth : PowerOfTwo[n] \in Nat /\ PowerOfTwo[n] >= 1
<1>0. LongWidth \in Nat
  BY BitsAssumption
<1>1. PICK f : f = PowerOfTwo
  OBVIOUS
<1>2. IsPower(f, LongWidth)
  <2>1. f = CHOOSE g : IsPower(g, LongWidth)
    BY <1>1, Zenon DEF PowerOfTwo, IsPower
  <2> QED BY <1>0, <2>1, PowerExists, Zenon
<1>3. f[0] = 1
  BY <1>0, <1>2 DEF IsPower
<1>4. \A n \in 0 .. LongWidth - 1 : f[n + 1] = 2 * f[n]
  BY <1>0, <1>2 DEF IsPower
<1>5. ASSUME NEW n \in 0 .. LongWidth, ~(f[n] \in Nat /\ f[n] >= 1) PROVE FALSE
  <2>1. PICK T \in SUBSET Nat :
          T = {m \in Nat : m <= LongWidth /\ ~(f[m] \in Nat /\ f[m] >= 1)}
    OBVIOUS
  <2>2. PICK m \in T : \A y \in T : m <= y
    <3>1. n \in T
      BY <1>0, <1>5, <2>1
    <3> QED BY <3>1, LeastElement, Zenon
  <2>3. m \in 0 .. LongWidth /\ ~(f[m] \in Nat /\ f[m] >= 1)
    BY <1>0, <2>1, <2>2
  <2>4. m # 0
    BY <1>3, <2>3
  <2>5. m - 1 \in 0 .. LongWidth - 1 /\ m - 1 \in 0 .. LongWidth /\ (m - 1) + 1 = m
    BY <1>0, <2>3, <2>4
  <2>6. m - 1 \notin T
    BY <2>2, <2>3
  <2>7. f[m - 1] \in Nat /\ f[m - 1] >= 1
    BY <2>1, <2>5, <2>6
  <2>8. f[m] = 2 * f[m - 1]
    BY <1>4, <2>5
  <2> QED BY <2>3, <2>7, <2>8
<1> QED BY <1>1, <1>3, <1>4, <1>5

\* They grow, by factors of two.
LEMMA PowersGrow ==
  \A n \in 0 .. LongWidth : \A m \in 0 .. n :
    /\ PowerOfTwo[m] <= PowerOfTwo[n]
    /\ m < n => \E j \in Nat : PowerOfTwo[n] = PowerOfTwo[m] * (2 * j)
<1>0. LongWidth \in Nat
  BY BitsAssumption
<1> DEFINE Grown(m, n) ==
      /\ PowerOfTwo[m] <= PowerOfTwo[n]
      /\ m < n => \E j \in Nat : PowerOfTwo[n] = PowerOfTwo[m] * (2 * j)
<1>1. SUFFICES ASSUME NEW n \in 0 .. LongWidth, NEW m \in 0 .. n, ~Grown(m, n) PROVE FALSE
  OBVIOUS
<1>2. PICK T \in SUBSET Nat : T = {x \in Nat : x \in m .. LongWidth /\ ~Grown(m, x)}
  OBVIOUS
<1>3. m \in 0 .. LongWidth
  BY <1>0
<1>4. PICK x \in T : \A y \in T : x <= y
  <2>1. n \in T
    <3> HIDE DEF Grown
    <3> QED BY <1>0, <1>1, <1>2
  <2> QED BY <2>1, LeastElement, Zenon
<1>5. x \in m .. LongWidth /\ ~Grown(m, x)
  <2> HIDE DEF Grown
  <2> QED BY <1>2, <1>4
<1>6. PICK a \in Nat : a = PowerOfTwo[m]
  BY <1>3, Powers
<1>7. x # m
  BY <1>5, <1>6
<1>8. x - 1 \in m .. LongWidth /\ x - 1 \in 0 .. LongWidth - 1 /\ (x - 1) + 1 = x /\ ~(x <= x - 1)
      /\ x - 1 \in 0 .. LongWidth /\ x - 1 \in Nat /\ m \in Nat
  BY <1>0, <1>3, <1>5, <1>7
<1>9. Grown(m, x - 1)
  <2> HIDE DEF Grown
  <2> QED BY <1>2, <1>4, <1>8
<1>10. PICK b \in Nat : b = PowerOfTwo[x - 1] /\ PowerOfTwo[x] = 2 * b
  BY <1>8, Powers
<1>11. a <= b /\ (m < x - 1 => \E j \in Nat : b = a * (2 * j))
  BY <1>6, <1>9, <1>10
<1>12. a <= 2 * b
  BY <1>11
<1>13. \E j \in Nat : 2 * b = a * (2 * j)
  <2>1. CASE m < x - 1
    <3>1. PICK j \in Nat : b = a * (2 * j)
      BY <1>11, <2>1
    <3>2. PICK i \in Nat : i = 2 * j
      OBVIOUS
    <3>3. 2 * b = a * (2 * i)
      BY <3>1, <3>2
    <3> QED BY <3>3
  <2>2. CASE ~(m < x - 1)
    <3>1. m = x - 1
      BY <1>8, <2>2
    <3>2. 2 * b = a * (2 * 1)
      BY <1>6, <1>10, <3>1
    <3> QED BY <3>2
  <2> QED BY <2>1, <2>2
<1> QED BY <1>5, <1>6, <1>10, <1>12, <1>13

\* A floor, and what is left.
LEMMA DivMod ==
  ASSUME NEW v \in Int, NEW k \in Int, k > 0
  PROVE  \E q \in Int, r \in Int : q = v \div k /\ v = k * q + r /\ 0 <= r /\ r < k
<1>1. PICK q \in Int : q = v \div k
  BY SMT
<1>2. v >= k * q /\ v < k * q + k
  BY <1>1, SMT
<1>3. PICK r \in Int : r = v - k * q
  BY <1>1, SMT
<1> QED BY <1>1, <1>2, <1>3, SMT

LEMMA DivIs ==
  ASSUME NEW v \in Int, NEW k \in Int, NEW q \in Int, NEW r \in Int,
         v = k * q + r, 0 <= r, r < k
  PROVE  v \div k = q
BY SMT

LEMMA Parity ==
  ASSUME NEW v \in Int
  PROVE  /\ v % 2 = 0 \/ v % 2 = 1
         /\ v % 2 = 0 => v = 2 * (v \div 2)
         /\ v % 2 = 1 => v = 2 * (v \div 2) + 1
         /\ v \div 2 \in Int
<1>1. v % 2 = 0 \/ v % 2 = 1
  BY SMT
<1>2. ASSUME v % 2 = 0 PROVE v = 2 * (v \div 2)
  BY <1>2, SMT
<1>3. ASSUME v % 2 = 1 PROVE v = 2 * (v \div 2) + 1
  BY <1>3, SMT
<1> QED BY <1>1, <1>2, <1>3, SMT

\* Two shifts are one.
LEMMA DivDiv ==
  ASSUME NEW v \in Int, NEW k \in Int, k > 0
  PROVE  v \div (2 * k) = (v \div 2) \div k
<1>1. PICK h \in Int, b \in Int : h = v \div 2 /\ v = 2 * h + b /\ 0 <= b /\ b < 2
  BY DivMod
<1>2. PICK q \in Int, r \in Int : q = h \div k /\ h = k * q + r /\ 0 <= r /\ r < k
  BY DivMod
<1>3. PICK m \in Int, s \in Int : m = 2 * k /\ s = 2 * r + b
  BY <1>1, <1>2
<1>4. v = m * q + s
  <2>1. m * q = 2 * (k * q)
    BY <1>2, <1>3
  <2> QED BY <1>1, <1>2, <1>3, <2>1
<1>5. 0 <= s /\ s < m
  BY <1>1, <1>2, <1>3
<1>6. v \div m = q
  BY <1>3, <1>4, <1>5, DivIs
<1> QED BY <1>1, <1>2, <1>3, <1>6

\* An even multiple above the bits that are left does not change the lowest.
LEMMA DivShift ==
  ASSUME NEW v \in Int, NEW k \in Int, k > 0, NEW j \in Int
  PROVE  ((v + k * (2 * j)) \div k) % 2 = (v \div k) % 2
<1>1. PICK q \in Int, r \in Int : q = v \div k /\ v = k * q + r /\ 0 <= r /\ r < k
  BY DivMod
<1>2. PICK u \in Int, z \in Int : u = v + k * (2 * j) /\ z = q + 2 * j
  BY <1>1
<1>3. u = k * z + r
  BY <1>1, <1>2
<1>4. u \div k = z
  BY <1>1, <1>2, <1>3, DivIs
<1>5. z % 2 = q % 2
  BY <1>2
<1> QED BY <1>1, <1>2, <1>4, <1>5

NonZero(w) == Signed(w) \ {0}
IsPosition(f, w) == f = [v \in NonZero(w) |-> IF v % 2 = 1 THEN 1 ELSE f[v \div 2] + 1]
Bit(v, p) == (v \div PowerOfTwo[p - 1]) % 2

\* A shift of an even value loses nothing: the value fits one bit less.
LEMMA HalfFits ==
  ASSUME NEW w \in 1 .. LongWidth, NEW v \in NonZero(w), v % 2 # 1
  PROVE  w - 1 \in 1 .. LongWidth /\ v \div 2 \in NonZero(w - 1)
<1>1. LongWidth \in Nat /\ w - 1 \in 0 .. LongWidth
  BY BitsAssumption
<1>2. PICK a \in Nat : a = PowerOfTwo[w - 1] /\ a >= 1
  BY <1>1, Powers
<1>3. v \in Int /\ v # 0 /\ -a <= v /\ v < a
  BY <1>2 DEF NonZero, Signed
<1>4. PICK h \in Int : h = v \div 2 /\ v = 2 * h
  BY <1>3, Parity
<1>5. w # 1
  <2>1. ASSUME w = 1 PROVE FALSE
    <3>1. a = 1
      BY <1>2, <2>1, Powers
    <3> QED BY <1>3, <1>4, <3>1
  <2> QED BY <2>1
<1>6. w - 2 \in 0 .. LongWidth - 1 /\ w - 2 \in 0 .. LongWidth /\ (w - 2) + 1 = w - 1
      /\ (w - 1) - 1 = w - 2 /\ w - 1 \in 1 .. LongWidth
  BY <1>1, <1>5
<1>7. PICK b \in Nat : b = PowerOfTwo[w - 2]
  BY <1>6, Powers
<1>8. a = 2 * b
  BY <1>2, <1>6, <1>7, Powers
<1>9. h # 0 /\ -b <= h /\ h < b
  BY <1>3, <1>4, <1>8
<1>10. h \in -b .. b - 1
  BY <1>9
<1> QED BY <1>4, <1>6, <1>7, <1>9, <1>10 DEF NonZero, Signed

LEMMA NarrowFits ==
  ASSUME NEW w \in 1 .. LongWidth, w - 1 \in 1 .. LongWidth, NEW v \in NonZero(w - 1)
  PROVE  v \in NonZero(w)
<1>1. LongWidth \in Nat
  BY BitsAssumption
<1>2. w - 2 \in 0 .. LongWidth - 1 /\ w - 2 \in 0 .. LongWidth /\ (w - 2) + 1 = w - 1
      /\ (w - 1) - 1 = w - 2
  BY <1>1
<1>3. PICK b \in Nat : b = PowerOfTwo[w - 2] /\ PowerOfTwo[w - 1] = 2 * b
  BY <1>2, Powers
<1>4. v \in Int /\ v # 0 /\ -b <= v /\ v < b
  BY <1>2, <1>3 DEF NonZero, Signed
<1>5. v \in -(2 * b) .. 2 * b - 1
  BY <1>4
<1> QED BY <1>3, <1>4, <1>5 DEF NonZero, Signed

\* The loop comes to its end.
LEMMA PositionExists == \A w \in 1 .. LongWidth : \E f : IsPosition(f, w)
<1>1. SUFFICES ASSUME NEW n \in 1 .. LongWidth, ~\E f : IsPosition(f, n) PROVE FALSE
  OBVIOUS
<1>0. LongWidth \in Nat
  BY BitsAssumption
<1>2. PICK T \in SUBSET Nat :
        T = {m \in Nat : m \in 1 .. LongWidth /\ ~\E f : IsPosition(f, m)}
  OBVIOUS
<1>3. PICK m \in T : \A y \in T : m <= y
  <2>1. n \in T
    BY <1>0, <1>1, <1>2
  <2> QED BY <2>1, LeastElement, Zenon
<1>4. m \in 1 .. LongWidth /\ ~\E f : IsPosition(f, m)
  BY <1>2, <1>3
<1>5. CASE \A v \in NonZero(m) : v % 2 = 1
  <2>1. PICK f : f = [v \in NonZero(m) |-> 1]
    OBVIOUS
  <2>2. f = [v \in NonZero(m) |-> IF v % 2 = 1 THEN 1 ELSE f[v \div 2] + 1]
    BY <1>5, <2>1
  <2> QED BY <1>4, <2>2 DEF IsPosition
<1>6. CASE ~(\A v \in NonZero(m) : v % 2 = 1)
  <2>1. m - 1 \in 1 .. LongWidth
    <3>1. PICK v \in NonZero(m) : v % 2 # 1
      BY <1>6
    <3> QED BY <1>4, <3>1, HalfFits
  <2>2. m - 1 \notin T
    <3>1. ~(m <= m - 1)
      BY <1>0, <1>4
    <3> QED BY <1>3, <3>1
  <2>3. PICK f : IsPosition(f, m - 1)
    <3>1. m - 1 \in Nat
      BY <1>0, <2>1
    <3> QED BY <1>2, <2>1, <2>2, <3>1
  <2>4. PICK g : g = [v \in NonZero(m) |-> IF v % 2 = 1 THEN 1 ELSE f[v \div 2] + 1]
    OBVIOUS
  <2>5. \A v \in NonZero(m - 1) : g[v] = f[v]
    <3>1. \A v \in NonZero(m - 1) : v \in NonZero(m)
      BY <1>4, <2>1, NarrowFits
    <3>2. \A v \in NonZero(m - 1) : f[v] = IF v % 2 = 1 THEN 1 ELSE f[v \div 2] + 1
      BY <2>3, Zenon DEF IsPosition
    <3> QED BY <2>4, <3>1, <3>2, Zenon
  <2>6. \A v \in NonZero(m) : v % 2 # 1 => g[v \div 2] = f[v \div 2]
    BY <1>4, <2>5, HalfFits, Zenon
  <2>7. g = [v \in NonZero(m) |-> IF v % 2 = 1 THEN 1 ELSE g[v \div 2] + 1]
    BY <2>4, <2>6
  <2> QED BY <1>4, <2>7 DEF IsPosition
<1> QED BY <1>5, <1>6

\* A bit of a value is the next lower one of its half.
LEMMA BitBelow ==
  /\ \A v \in Int : Bit(v, 1) = v % 2
  /\ \A v \in Int, p \in 1 .. LongWidth : Bit(v, p + 1) = Bit(v \div 2, p)
<1>0. LongWidth \in Nat
  BY BitsAssumption
<1>1. ASSUME NEW v \in Int PROVE Bit(v, 1) = v % 2
  <2>1. v \div 1 = v
    BY SMT
  <2>2. PowerOfTwo[1 - 1] = 1
    BY Powers
  <2> QED BY <2>1, <2>2 DEF Bit
<1>2. ASSUME NEW v \in Int, NEW p \in 1 .. LongWidth PROVE Bit(v, p + 1) = Bit(v \div 2, p)
  <2>1. p - 1 \in 0 .. LongWidth - 1 /\ p - 1 \in 0 .. LongWidth /\ (p - 1) + 1 = p /\ (p + 1) - 1 = p
    BY <1>0
  <2>2. PICK k \in Int : k = PowerOfTwo[p - 1] /\ k > 0 /\ PowerOfTwo[p] = 2 * k
    BY <2>1, Powers
  <2>3. v \div (2 * k) = (v \div 2) \div k
    BY <2>2, DivDiv
  <2> QED BY <2>1, <2>2, <2>3 DEF Bit
<1> QED BY <1>1, <1>2

FoundAt(v, w, a) == a \in 1 .. w /\ Bit(v, a) = 1 /\ \A p \in 1 .. a - 1 : Bit(v, p) = 0

\* And it ends at the lowest bit.
LEMMA PositionIs ==
  ASSUME NEW f, IsPosition(f, LongWidth)
  PROVE  \A w \in 1 .. LongWidth : \A v \in NonZero(w) : FoundAt(v, w, f[v])
<1>0. LongWidth \in Nat
  BY BitsAssumption
<1>1. SUFFICES ASSUME NEW n \in 1 .. LongWidth, ~\A v \in NonZero(n) : FoundAt(v, n, f[v])
               PROVE  FALSE
  OBVIOUS
<1>2. PICK T \in SUBSET Nat :
        T = {m \in Nat : m \in 1 .. LongWidth /\ ~\A v \in NonZero(m) : FoundAt(v, m, f[v])}
  OBVIOUS
<1>3. PICK m \in T : \A y \in T : m <= y
  <2>1. n \in T
    BY <1>0, <1>1, <1>2
  <2> QED BY <2>1, LeastElement, Zenon
<1>4. m \in 1 .. LongWidth /\ ~\A v \in NonZero(m) : FoundAt(v, m, f[v])
  BY <1>2, <1>3
<1>5. PICK v \in NonZero(m) : ~FoundAt(v, m, f[v])
  BY <1>4
<1>6. v \in NonZero(LongWidth)
  <2>1. m - 1 \in 0 .. LongWidth /\ LongWidth - 1 \in 0 .. LongWidth
    BY <1>0, <1>4
  <2>2. PICK a \in Nat, b \in Nat : a = PowerOfTwo[m - 1] /\ b = PowerOfTwo[LongWidth - 1]
    BY <2>1, Powers
  <2>3. a <= b
    BY <1>0, <1>4, <2>2, PowersGrow
  <2>4. v \in -a .. a - 1 /\ v # 0
    BY <1>5, <2>2 DEF NonZero, Signed
  <2>5. v \in -b .. b - 1
    BY <2>3, <2>4
  <2> QED BY <2>2, <2>4, <2>5 DEF NonZero, Signed
<1>7. f[v] = IF v % 2 = 1 THEN 1 ELSE f[v \div 2] + 1
  BY <1>6, Zenon DEF IsPosition
<1>8. v \in Int
  <2>1. LongWidth - 1 \in 0 .. LongWidth
    BY <1>0, <1>4
  <2>2. PICK b \in Nat : b = PowerOfTwo[LongWidth - 1]
    BY <2>1, Powers
  <2> QED BY <1>6, <2>2 DEF NonZero, Signed
<1>9. CASE v % 2 = 1
  <2>1. f[v] = 1
    BY <1>7, <1>9
  <2>2. Bit(v, 1) = 1
    BY <1>8, <1>9, BitBelow
  <2>3. 1 \in 1 .. m /\ \A p : p \notin 1 .. 1 - 1
    BY <1>0, <1>4
  <2> QED BY <1>5, <2>1, <2>2, <2>3 DEF FoundAt
<1>10. CASE v % 2 # 1
  <2>1. m - 1 \in 1 .. LongWidth /\ v \div 2 \in NonZero(m - 1)
    BY <1>4, <1>5, <1>10, HalfFits
  <2>2. m - 1 \notin T
    <3>1. ~(m <= m - 1)
      BY <1>0, <1>4
    <3> QED BY <1>3, <3>1
  <2>3. PICK a : a = f[v \div 2] /\ FoundAt(v \div 2, m - 1, a)
    <3>1. m - 1 \in Nat
      BY <1>0, <2>1
    <3> QED BY <1>2, <2>1, <2>2, <3>1
  <2>4. a \in 1 .. m - 1 /\ a \in Nat
    BY <1>0, <1>4, <2>3 DEF FoundAt
  <2>5. f[v] = a + 1 /\ a + 1 \in 1 .. m /\ a \in 1 .. LongWidth
    BY <1>0, <1>4, <1>7, <1>10, <2>3, <2>4
  <2>6. Bit(v, a + 1) = 1
    BY <1>8, <2>3, <2>5, BitBelow DEF FoundAt
  <2>7. ASSUME NEW p \in 1 .. (a + 1) - 1 PROVE Bit(v, p) = 0
    <3>1. CASE p = 1
      <4>1. v % 2 = 0
        BY <1>8, <1>10, Parity
      <4> QED BY <1>8, <3>1, <4>1, BitBelow
    <3>2. CASE p # 1
      <4>1. p - 1 \in 1 .. a - 1 /\ p - 1 \in 1 .. LongWidth /\ (p - 1) + 1 = p
        BY <1>0, <2>4, <2>5, <2>7, <3>2
      <4>2. Bit(v \div 2, p - 1) = 0
        BY <2>3, <4>1 DEF FoundAt
      <4>3. Bit(v, (p - 1) + 1) = Bit(v \div 2, p - 1)
        BY <1>8, <4>1, BitBelow
      <4> QED BY <4>1, <4>2, <4>3
    <3> QED BY <3>1, <3>2
  <2> QED BY <1>5, <2>5, <2>6, <2>7 DEF FoundAt
<1> QED BY <1>9, <1>10

\* The bits of the pattern are those of the value: the sign goes above them.
LEMMA PatternIs ==
  ASSUME NEW w \in 1 .. LongWidth, NEW v \in Signed(w), NEW p \in 1 .. w
  PROVE  PatternBit(v, w, p) = Bit(v, p)
<1>0. LongWidth \in Nat
  BY BitsAssumption
<1>1. /\ w \in 0 .. LongWidth /\ w - 1 \in 0 .. LongWidth - 1 /\ w - 1 \in 0 .. LongWidth
      /\ (w - 1) + 1 = w /\ p - 1 \in 0 .. w /\ p - 1 < w /\ p - 1 \in 0 .. LongWidth
  BY <1>0
<1>2. PICK a \in Int : a = PowerOfTwo[w - 1] /\ a > 0
  BY <1>1, Powers
<1>3. PICK W \in Int : W = PowerOfTwo[w] /\ W = 2 * a
  BY <1>1, <1>2, Powers
<1>4. PICK k \in Int : k = PowerOfTwo[p - 1] /\ k > 0
  BY <1>1, Powers
<1>5. PICK j \in Int : W = k * (2 * j)
  <2>1. PICK j \in Nat : PowerOfTwo[w] = PowerOfTwo[p - 1] * (2 * j)
    BY <1>1, PowersGrow
  <2>2. j \in Int
    OBVIOUS
  <2> QED BY <1>3, <1>4, <2>1, <2>2, Zenon
<1>6. v \in Int /\ -a <= v /\ v < a
  BY <1>2 DEF Signed
<1>7. CASE v >= 0
  <2>1. (v + W) % W = v
    BY <1>2, <1>3, <1>6, <1>7
  <2> QED BY <1>3, <1>4, <2>1 DEF PatternBit, Bit
<1>8. CASE v < 0
  <2>1. PICK u \in Int : u = v + W /\ 0 <= u /\ u < W
    BY <1>2, <1>3, <1>6, <1>8
  <2>2. u % W = u
    BY <1>3, <2>1
  <2>3. ((v + k * (2 * j)) \div k) % 2 = (v \div k) % 2
    BY <1>4, <1>5, <1>6, DivShift
  <2> QED BY <1>3, <1>4, <1>5, <2>1, <2>2, <2>3 DEF PatternBit, Bit
<1> QED BY <1>6, <1>7, <1>8

\* For every width of int and long.
LEMMA FfsIsLeast ==
  \A v \in Signed(LongWidth) :
    /\ LeastSetBit(v, LongWidth, FfsBits(v))
    /\ v \in Signed(IntWidth) => LeastSetBit(v, IntWidth, FfsBits(v))
<1>0. LongWidth \in Nat /\ LongWidth \in 1 .. LongWidth /\ IntWidth \in 1 .. LongWidth
  BY BitsAssumption
<1>1. ASSUME NEW w \in 1 .. LongWidth, NEW v \in Signed(LongWidth), v \in Signed(w)
      PROVE  LeastSetBit(v, w, FfsBits(v))
  <2>1. CASE v = 0
    <3>1. FfsBits(v) = 0
      BY <2>1 DEF FfsBits
    <3>2. ASSUME NEW p \in 1 .. w PROVE PatternBit(v, w, p) = 0
      <4>1. p - 1 \in 0 .. LongWidth
        BY <1>0
      <4>2. PICK k \in Int : k = PowerOfTwo[p - 1] /\ k > 0
        BY <4>1, Powers
      <4>3. 0 = k * 0 + 0 /\ 0 \in Int /\ 0 <= 0 /\ 0 < k
        BY <4>2
      <4>4. 0 \div k = 0
        BY <4>2, <4>3, DivIs
      <4>5. Bit(0, p) = 0
        BY <4>2, <4>4 DEF Bit
      <4> QED BY <1>1, <2>1, <4>5, PatternIs
    <3> QED BY <3>1, <3>2 DEF LeastSetBit
  <2>2. CASE v # 0
    <3>1. PICK f : IsPosition(f, LongWidth) /\ FfsBits(v) = f[v]
      <4>1. PICK f : f = CHOOSE g : IsPosition(g, LongWidth)
        OBVIOUS
      <4>2. IsPosition(f, LongWidth)
        BY <1>0, <4>1, PositionExists, Zenon
      <4>3. FfsBits(v) = f[v]
        BY <2>2, <4>1, Zenon DEF FfsBits, IsPosition, NonZero
      <4> QED BY <4>2, <4>3
    <3>2. PICK a : a = FfsBits(v) /\ FoundAt(v, w, a)
      <4>1. v \in NonZero(w)
        BY <1>1, <2>2 DEF NonZero
      <4> QED BY <3>1, <4>1, PositionIs, Zenon
    <3>3. a \in 1 .. w /\ Bit(v, a) = 1 /\ \A p \in 1 .. a - 1 : Bit(v, p) = 0
      BY <3>2 DEF FoundAt
    <3>4. PatternBit(v, w, a) = 1
      BY <1>1, <3>3, PatternIs
    <3>5. ASSUME NEW p \in 1 .. a - 1 PROVE PatternBit(v, w, p) = 0
      <4>1. p \in 1 .. w
        BY <1>0, <3>3
      <4> QED BY <1>1, <3>3, <4>1, PatternIs
    <3> QED BY <3>2, <3>3, <3>4, <3>5 DEF LeastSetBit
  <2> QED BY <2>1, <2>2
<1> QED BY <1>0, <1>1, Zenon

\* The position of the lowest set bit is exact for every value fed to it, at every
\* width of int and long.
THEOREM FfsStaysExact == MCSpec => []FfsExact
<1>. DEFINE J == fed[1] = "int" => fed[2] \in Signed(LongWidth)
<1>1. MCInit => J
  <2>1. SUFFICES ASSUME MCInit, fed[1] = "int" PROVE fed[2] \in Signed(LongWidth)
    OBVIOUS
  <2>2. fed \in PureInput
    <3>1. <<"chain">>[1] # "int"
      BY SMT
    <3> QED BY <2>1, <3>1, Zenon DEF MCInit
  <2>3. ~(\E s : fed = <<"bytes", s>>)
    <3>1. \A s : <<"bytes", s>>[1] # "int"
      BY SMT
    <3> QED BY <2>1, <3>1, Zenon
  <2>4. PICK v \in Signed(LongWidth) : fed = <<"int", v>>
    BY <2>2, <2>3, Zenon DEF PureInput
  <2>5. fed[2] = v
    BY <2>4, SMT
  <2> QED BY <2>5
<1>2. J /\ [MCNext]_<<val, origin, ans, fed>> => J'
  <2>1. [MCNext]_<<val, origin, ans, fed>> => fed' = fed
    BY Zenon DEF MCNext
  <2> QED BY <2>1, Zenon
<1>3. J => FfsExact
  BY FfsIsLeast, Zenon DEF FfsExact
<1> QED BY <1>1, <1>2, <1>3, PTL DEF MCSpec
==============================================================================
