-------------------------------- MODULE Utf8 --------------------------------
(* validate_utf8, the scalar-boundary test and the text searches of           *)
(* lib/strings_text.sv0, and the definition of UTF-8 they are held against,   *)
(* which goes the other way: through the scalar values that RFC 3629 encodes. *)
EXTENDS Integers, Sequences

\* A byte: a u8.
Octet == 0 .. 255

Prefix(s, n) == SubSeq(s, 1, n)
Window(s, i, n) == SubSeq(s, i + 1, i + n)

Cont == 128 .. 191

\* Mutant of Second: surrogates are not excluded.
SecondWithSurrogates(b0) ==
  CASE b0 = 224 -> 160 .. 191
    [] b0 = 240 -> 144 .. 191
    [] b0 = 244 -> 128 .. 143
    [] b0 \notin {224, 240, 244} -> Cont

\* What may follow the lead byte b0: lo .. hi of the code.
Second(b0) ==
  CASE b0 = 224 -> 160 .. 191
    [] b0 = 237 -> 128 .. 159
    [] b0 = 240 -> 144 .. 191
    [] b0 = 244 -> 128 .. 143
    [] b0 \notin {224, 237, 240, 244} -> Cont

\* The length a lead byte announces; 0 for a byte that leads nothing.
Width(b0) ==
  CASE b0 \in 0 .. 127   -> 1
    [] b0 \in 194 .. 223 -> 2
    [] b0 \in 224 .. 239 -> 3
    [] b0 \in 240 .. 244 -> 4
    [] b0 \in 128 .. 193 \cup 245 .. 255 -> 0

\* The sequence that begins at offset i is whole and well formed.
Accepts(s, i) ==
  LET w == Width(s[i + 1]) IN
  /\ w > 0
  /\ i + w <= Len(s)
  /\ w > 1 => s[i + 2] \in Second(s[i + 1])
  /\ \A x \in 3 .. w : s[i + x] \in Cont

\* enum Utf8Check.
Valid      == <<"Valid">>
Invalid(k) == <<"Invalid", k>>

\* Mutant of ValidateUtf8: the offset reported is where the slice is cut.
ValidateToEnd(s) ==
  LET from[i \in 0 .. Len(s)] ==
        IF i = Len(s) THEN Valid
        ELSE IF ~Accepts(s, i) THEN Invalid(Len(s))
        ELSE from[i + Width(s[i + 1])]
  IN  from[0]

\* What the loop answers from offset i on.
ValidFrom(s) ==
  LET from[i \in 0 .. Len(s)] ==
        IF i = Len(s) THEN Valid
        ELSE IF ~Accepts(s, i) THEN Invalid(i)
        ELSE from[i + Width(s[i + 1])]
  IN  from

ValidateUtf8(s) == ValidFrom(s)[0]

\* Mutant of TextIsBoundary: two-byte leads are forgotten.
BoundaryForgetsTwo(s, i) == i \in 1 .. Len(s) - 1 => s[i + 1] \notin 128 .. 223

\* text_is_boundary: the start, the end, or a byte that continues nothing.
TextIsBoundary(s, i) == i \in 1 .. Len(s) - 1 => s[i + 1] \notin Cont

\* The offsets at which needle m occurs in s.
Occurrences(s, m) ==
  {i \in 0 .. Len(s) - Len(m) : Window(s, i, Len(m)) = m}

None    == <<"None">>
Some(i) == <<"Some", i>>

\* find and rfind: the first and the last occurrence; an empty needle is found
\* at 0 and at the end.
Find(s, m) ==
  IF Occurrences(s, m) = {} THEN None
  ELSE Some(CHOOSE i \in Occurrences(s, m) : \A j \in Occurrences(s, m) : i <= j)
RFind(s, m) ==
  IF Occurrences(s, m) = {} THEN None
  ELSE Some(CHOOSE i \in Occurrences(s, m) : \A j \in Occurrences(s, m) : i >= j)

-----------------------------------------------------------------------------
\* RFC 3629, section 3, by scalar value.
IsScalar(u) ==
  0 <= u /\ u <= 1114111 /\ ~(55296 <= u /\ u <= 57343)

\* The continuation byte that holds the six bits of u from d up.
Six(u, d) == 128 + ((u \div d) % 64)

Encode(u) ==
  CASE u < 128                 -> <<u>>
    [] 128 <= u /\ u < 2048    -> <<192 + (u \div 64), Six(u, 1)>>
    [] 2048 <= u /\ u < 65536  -> <<224 + (u \div 4096), Six(u, 64), Six(u, 1)>>
    [] 65536 <= u              ->
         <<240 + (u \div 262144), Six(u, 4096), Six(u, 64), Six(u, 1)>>

\* The payload bits of a sequence of one to four bytes.
Decode(c) ==
  LET bits(i) == c[i] % 64 IN
  CASE Len(c) = 1 -> c[1]
    [] Len(c) = 2 -> (c[1] % 32) * 64 + bits(2)
    [] Len(c) = 3 -> (c[1] % 16) * 4096 + bits(2) * 64 + bits(3)
    [] Len(c) = 4 -> (c[1] % 8) * 262144 + bits(2) * 4096 + bits(3) * 64 + bits(4)

\* c is the encoding of a scalar value, and of the one it decodes to.
IsScalarEncoding(c) == IsScalar(Decode(c)) /\ Encode(Decode(c)) = c

\* A sequence of encodings of scalar values: cut at these offsets, s has an
\* encoding from each of them to a later one.
WellFormed(s) ==
  \E cuts \in SUBSET (0 .. Len(s)) :
    /\ {0, Len(s)} \subseteq cuts
    /\ \A i \in cuts \ {Len(s)} : \E w \in 1 .. 4 :
         i + w \in cuts /\ IsScalarEncoding(Window(s, i, w))

\* The validator's answer for s is the one RFC 3629 gives: s is well formed, or
\* the offset is the length of the longest well-formed prefix.
AnswerFits(s, answer) ==
  \/ WellFormed(s) /\ answer = Valid
  \/ \E k \in 0 .. Len(s) - 1 :
       /\ ~WellFormed(s) /\ answer = Invalid(k)
       /\ WellFormed(Prefix(s, k))
       /\ \A j \in k + 1 .. Len(s) : ~WellFormed(Prefix(s, j))
=============================================================================
