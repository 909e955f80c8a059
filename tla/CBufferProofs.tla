---------------------------- MODULE CBufferProofs ----------------------------
(* The C buffer for every capacity, every payload, every count and every      *)
(* width of usize: no call stores outside the storage, a refusal stores       *)
(* nothing, a call stores only in its frame, and a reported need is enough.   *)
(* First the checked operations that the lengths are made with.               *)
EXTENDS CBuffer, WellFoundedInduction, TLAPS

\* The least-number principle.
LEMMA LeastElement ==
  ASSUME NEW T \in SUBSET Nat, T # {}
  PROVE  \E x \in T : \A y \in T : x <= y
<1>. DEFINE R == OpToRel(<, Nat)
<1>1. IsWellFoundedOn(R, Nat)
  BY NatLessThanWellFounded
<1>2. PICK x \in T : \A y \in T : ~(<<y, x>> \in R)
  <2>. HIDE DEF R
  <2>. QED
    BY <1>1, WFMin
<1>3. \A y \in T : ~(y < x)
  BY <1>2 DEF OpToRel
<1>. QED
  BY <1>3

\* A scan from i to n that stops at the first member of Hit, or at n.
LEMMA ScanStops ==
  ASSUME NEW i \in Nat, NEW n \in Nat, i <= n, NEW Hit
  PROVE  \E j \in i .. n : /\ \A x \in i .. j - 1 : x \notin Hit
                           /\ j < n => j \in Hit
<1>. DEFINE T == {x \in i .. n : x \in Hit \/ x = n}
<1>1. T \in SUBSET Nat /\ n \in T
  OBVIOUS
<1>2. PICK j \in T : \A y \in T : j <= y
  <2>. HIDE DEF T
  <2>. QED
    BY <1>1, LeastElement
<1>3. j \in i .. n /\ (j < n => j \in Hit)
  OBVIOUS
<1>4. ASSUME NEW x \in i .. j - 1 PROVE x \notin Hit
  <2>1. x \in i .. n /\ x < j
    BY <1>3
  <2>2. x \notin T
    BY <1>2, <1>3, <2>1
  <2>. QED
    BY <2>1, <2>2
<1>. QED
  BY <1>3, <1>4

LEMMA WrapSmall ==
  ASSUME NEW x \in Usize
  PROVE  Wrap(x) = x
BY WidthAssumption DEF Wrap, Usize

LEMMA WrapOnce ==
  ASSUME NEW x \in Nat, x > MaxUsize, x <= 2 * MaxUsize + 1
  PROVE  Wrap(x) = x - (MaxUsize + 1)
BY WidthAssumption DEF Wrap, Usize

LEMMA WrapType ==
  ASSUME NEW x \in Nat
  PROVE  Wrap(x) \in Usize /\ Wrap(x) <= x
BY WidthAssumption DEF Wrap, Usize

\* The wrapped sum is smaller than its first term exactly when the true sum
\* does not fit.
THEOREM AddIsExact == \A a \in Usize, b \in Usize : AddExact(a, b)
<1>. SUFFICES ASSUME NEW a \in Usize, NEW b \in Usize
     PROVE  CheckedAdd(a, b) = Exact(a + b)
  BY DEF AddExact
<1>1. CASE a + b <= MaxUsize
  BY <1>1, WrapSmall DEF CheckedAdd, Exact, Usize
<1>2. CASE a + b > MaxUsize
  <2>1. Wrap(a + b) = (a + b) - (MaxUsize + 1)
    BY <1>2, WrapOnce, WidthAssumption DEF Usize
  <2>. QED
    BY <1>2, <2>1, WidthAssumption DEF CheckedAdd, Exact, Usize
<1>. QED
  BY <1>1, <1>2, WidthAssumption DEF Usize

\* Subtraction overflows exactly when the difference is negative.
THEOREM SubIsExact == \A a \in Usize, b \in Usize : SubExact(a, b)
BY WidthAssumption DEF SubExact, CheckedSub, Exact, Usize

\* The division guard detects every wrapped product, and only those.
THEOREM MulIsExact == \A a \in Usize, b \in Usize : MulExact(a, b)
<1>. SUFFICES ASSUME NEW a \in Usize, NEW b \in Usize
     PROVE  CheckedMul(a, b) = Exact(a * b)
  BY DEF MulExact
<1>0. a \in Nat /\ b \in Nat /\ a * b \in Nat
  BY WidthAssumption DEF Usize
<1>1. CASE a = 0
  BY <1>0, <1>1, WidthAssumption DEF CheckedMul, Exact, Usize
<1>2. CASE a > 0 /\ a * b <= MaxUsize
  <2>1. Wrap(a * b) = a * b
    BY <1>0, <1>2, WrapSmall DEF Usize
  <2>2. (a * b) \div a = b
    BY <1>0, <1>2
  <2>. QED
    BY <1>0, <1>2, <2>1, <2>2 DEF CheckedMul, Exact, Usize
<1>3. CASE a > 0 /\ a * b > MaxUsize
  <2>. DEFINE p == Wrap(a * b)
  <2>1. p \in Nat /\ p <= MaxUsize
    BY <1>0, WrapType, WidthAssumption DEF Usize
  <2>2. a * (p \div a) <= p
    BY <1>0, <1>3, <2>1
  <2>3. p \div a # b
    BY <1>0, <1>3, <2>1, <2>2, WidthAssumption
  <2>4. a * b \notin Usize
    BY <1>0, <1>3, WidthAssumption DEF Usize
  <2>. QED
    BY <1>0, <1>3, <2>3, <2>4 DEF CheckedMul, Exact
<1>. QED
  BY <1>0, <1>1, <1>2, <1>3, WidthAssumption

-----------------------------------------------------------------------------
\* What a caller may rely on, in one fact: a sum that is reported is the sum.
LEMMA AddOk ==
  ASSUME NEW a \in Usize, NEW b \in Usize
  PROVE  /\ a + b <= MaxUsize => CheckedAdd(a, b) = Ok(a + b)
         /\ a + b > MaxUsize  => CheckedAdd(a, b) = Overflow
BY AddIsExact, WidthAssumption DEF AddExact, Exact, Usize

-----------------------------------------------------------------------------
(* Where the scans of the code end.                                            *)

LEMMA FirstNulFacts ==
  ASSUME NEW c \in Nat, NEW b
  PROVE  /\ FirstNul(b, c) \in 0 .. c
         /\ \A x \in 0 .. FirstNul(b, c) - 1 : b[x] # 0
         /\ FirstNul(b, c) < c => b[FirstNul(b, c)] = 0
<1>. DEFINE Hit == {x \in 0 .. c - 1 : b[x] = 0}
<1>1. \E j \in 0 .. c : (\A x \in 0 .. j - 1 : x \notin Hit) /\ (j < c => j \in Hit)
  <2>1. 0 \in Nat /\ 0 <= c
    OBVIOUS
  <2>. HIDE DEF Hit
  <2>. QED
    BY <2>1, ScanStops
<1>2. \E f \in 0 .. c : (\A x \in 0 .. f - 1 : b[x] # 0) /\ (f < c => b[f] = 0)
  BY <1>1
<1>. QED
  BY <1>2 DEF FirstNul

LEMMA FirstNulIs ==
  ASSUME NEW c \in Nat, NEW b, NEW f \in 0 .. c,
         \A x \in 0 .. f - 1 : b[x] # 0, f < c => b[f] = 0
  PROVE  FirstNul(b, c) = f
<1>1. ~(FirstNul(b, c) < f)
  BY FirstNulFacts
<1>2. ~(f < FirstNul(b, c))
  BY FirstNulFacts
<1>. QED
  BY <1>1, <1>2, FirstNulFacts

\* A NUL found within a bound is the NUL of the whole.
LEMMA FirstNulWithin ==
  ASSUME NEW c \in Nat, NEW d \in 0 .. c, NEW b, FirstNul(b, d) < d
  PROVE  FirstNul(b, c) = FirstNul(b, d)
<1>1. /\ FirstNul(b, d) \in 0 .. c
      /\ \A x \in 0 .. FirstNul(b, d) - 1 : b[x] # 0
      /\ b[FirstNul(b, d)] = 0
  BY FirstNulFacts
<1>. QED
  BY <1>1, FirstNulIs

LEMMA LeastFacts ==
  ASSUME NEW a \in Nat, NEW b \in Nat
  PROVE  Least(a, b) \in Nat /\ Least(a, b) <= a /\ Least(a, b) <= b
BY DEF Least

LEMMA BoundFacts ==
  ASSUME NEW s, Len(s) \in Nat, NEW n \in Nat
  PROVE  /\ BoundToNul(s, n) \in 0 .. Least(n, Len(s))
         /\ \A x \in 1 .. BoundToNul(s, n) : s[x] # 0
         /\ BoundToNul(s, n) < Least(n, Len(s)) => s[BoundToNul(s, n) + 1] = 0
         /\ BoundToNul(s, n) <= n /\ BoundToNul(s, n) <= Len(s)
<1>1. PICK m \in Nat : m = Least(n, Len(s)) /\ m <= n /\ m <= Len(s)
  BY LeastFacts
<1>. DEFINE Hit == {x \in 0 .. m - 1 : s[x + 1] = 0}
<1>2. \E j \in 0 .. m : (\A x \in 0 .. j - 1 : x \notin Hit) /\ (j < m => j \in Hit)
  <2>1. 0 \in Nat /\ 0 <= m
    OBVIOUS
  <2>. HIDE DEF Hit
  <2>. QED
    BY <2>1, ScanStops
<1>3. PICK j \in 0 .. m : (\A x \in 0 .. j - 1 : x \notin Hit) /\ (j < m => j \in Hit)
  BY <1>2
<1>4. ASSUME NEW x \in 1 .. j PROVE s[x] # 0
  <2>1. PICK y \in 0 .. j - 1 : y + 1 = x
    BY <1>1
  <2>2. y \notin Hit /\ y \in 0 .. m - 1
    BY <1>1, <1>3
  <2>3. s[y + 1] # 0
    BY <2>2
  <2>. QED
    BY <2>1, <2>3
<1>5. \E f \in 0 .. m : (\A x \in 1 .. f : s[x] # 0) /\ (f < m => s[f + 1] = 0)
  BY <1>3, <1>4
<1>6. /\ BoundToNul(s, n) \in 0 .. m /\ \A x \in 1 .. BoundToNul(s, n) : s[x] # 0
      /\ BoundToNul(s, n) < m => s[BoundToNul(s, n) + 1] = 0
  BY <1>1, <1>5 DEF BoundToNul
<1>. QED
  BY <1>1, <1>6

LEMMA StopFacts ==
  ASSUME NEW s, Len(s) \in Nat, NEW stop, NEW n \in Nat
  PROVE  /\ StopEnd(s, stop, n) \in Nat
         /\ StopEnd(s, stop, n) <= n /\ StopEnd(s, stop, n) <= Len(s)
         /\ StopEnd(s, stop, n) <= Least(n, Len(s))
         /\ \A x \in 1 .. StopEnd(s, stop, n) - 1 : s[x] # stop
         /\ StopEnd(s, stop, n) < Least(n, Len(s))
              => StopEnd(s, stop, n) > 0 /\ s[StopEnd(s, stop, n)] = stop
<1>1. PICK m \in Nat : m = Least(n, Len(s)) /\ m <= n /\ m <= Len(s)
  BY LeastFacts
<1>. DEFINE Hit == {x \in 0 .. m - 1 : s[x + 1] = stop}
<1>2. \E j \in 0 .. m : (\A x \in 0 .. j - 1 : x \notin Hit) /\ (j < m => j \in Hit)
  <2>1. 0 \in Nat /\ 0 <= m
    OBVIOUS
  <2>. HIDE DEF Hit
  <2>. QED
    BY <2>1, ScanStops
<1>3. PICK j \in 0 .. m : (\A x \in 0 .. j - 1 : x \notin Hit) /\ (j < m => j \in Hit)
  BY <1>2
<1>4. ASSUME NEW x \in 1 .. j PROVE s[x] # stop
  <2>1. PICK y \in 0 .. j - 1 : y + 1 = x
    BY <1>1
  <2>2. y \notin Hit /\ y \in 0 .. m - 1
    BY <1>1, <1>3
  <2>3. s[y + 1] # stop
    BY <2>2
  <2>. QED
    BY <2>1, <2>3
<1>. DEFINE Ends(e) == /\ \A x \in 1 .. e - 1 : s[x] # stop
                       /\ e < m => e > 0 /\ s[e] = stop
<1>5. \E e \in 0 .. m : Ends(e)
  <2>1. CASE j < m
    <3>1. j + 1 \in 0 .. m /\ j + 1 > 0 /\ s[j + 1] = stop /\ (j + 1) - 1 = j
      BY <1>1, <1>3, <2>1
    <3>. QED
      BY <1>4, <3>1
  <2>2. CASE j = m
    BY <1>1, <1>4, <2>2
  <2>. QED
    BY <1>1, <2>1, <2>2
<1>6. StopEnd(s, stop, n) \in 0 .. m /\ Ends(StopEnd(s, stop, n))
  <2>1. StopEnd(s, stop, n) = CHOOSE e \in 0 .. m : Ends(e)
    BY <1>1 DEF StopEnd
  <2>. HIDE DEF Ends
  <2>. QED
    BY <1>5, <2>1
<1>. QED
  BY <1>1, <1>6

-----------------------------------------------------------------------------
(* What the loops store.                                                       *)

LEMMA StateFacts ==
  ASSUME TypeOK
  PROVE  /\ cap \in Nat /\ cap \in Usize /\ cap < MaxUsize
         /\ buf \in [0 .. cap - 1 -> Byte]
         /\ FirstNul(buf, cap) \in 0 .. cap
         /\ \A x \in 0 .. FirstNul(buf, cap) - 1 : buf[x] # 0
         /\ FirstNul(buf, cap) < cap => buf[FirstNul(buf, cap)] = 0
<1>1. cap \in Nat /\ cap \in Usize /\ cap < MaxUsize
  BY BufferAssumption, RoomAssumption, WidthAssumption DEF TypeOK, Usize
<1>2. buf \in [0 .. cap - 1 -> Byte]
  BY DEF TypeOK
<1>3. /\ FirstNul(buf, cap) \in 0 .. cap
      /\ \A x \in 0 .. FirstNul(buf, cap) - 1 : buf[x] # 0
      /\ FirstNul(buf, cap) < cap => buf[FirstNul(buf, cap)] = 0
  BY <1>1, FirstNulFacts
<1>. QED
  BY <1>1, <1>2, <1>3

LEMMA PutFacts ==
  ASSUME TypeOK, NEW at \in Nat, NEW w \in Nat, at + w <= cap, NEW s \in Seq(Byte), w <= Len(s)
  PROVE  /\ Put(buf, at, s, w) \in [0 .. cap - 1 -> Byte]
         /\ \A x \in 0 .. cap - 1 :
              Put(buf, at, s, w)[x] = IF x \in at .. at + w - 1 THEN s[x - at + 1] ELSE buf[x]
<1>1. DOMAIN buf \cup at .. at + w - 1 = 0 .. cap - 1
  BY StateFacts
<1>2. \A x \in at .. at + w - 1 : s[x - at + 1] \in Byte
  <2>. SUFFICES ASSUME NEW x \in at .. at + w - 1 PROVE s[x - at + 1] \in Byte
    OBVIOUS
  <2>1. x - at + 1 \in 1 .. Len(s)
    OBVIOUS
  <2>. QED
    BY <2>1
<1>. QED
  BY <1>1, <1>2, StateFacts DEF Put

LEMMA PutStringFacts ==
  ASSUME TypeOK, NEW at \in Nat, NEW w \in Nat, at + w < cap, NEW s \in Seq(Byte), w <= Len(s)
  PROVE  /\ PutString(buf, at, s, w) \in [0 .. cap - 1 -> Byte]
         /\ \A x \in 0 .. cap - 1 :
              PutString(buf, at, s, w)[x] =
                IF x = at + w THEN 0
                ELSE IF x \in at .. at + w - 1 THEN s[x - at + 1] ELSE buf[x]
<1>1. PICK p \in [0 .. cap - 1 -> Byte] :
        /\ p = Put(buf, at, s, w)
        /\ \A x \in 0 .. cap - 1 : p[x] = IF x \in at .. at + w - 1 THEN s[x - at + 1] ELSE buf[x]
  <2>1. at + w <= cap
    BY StateFacts
  <2>2. /\ Put(buf, at, s, w) \in [0 .. cap - 1 -> Byte]
        /\ \A x \in 0 .. cap - 1 :
             Put(buf, at, s, w)[x] = IF x \in at .. at + w - 1 THEN s[x - at + 1] ELSE buf[x]
    BY <2>1, PutFacts
  <2>. QED
    BY <2>2
<1>2. PICK e \in Nat, g \in Nat, z \in Byte :
        e = at + w /\ g = at + w + 1 /\ g <= cap /\ z = 0
  BY BufferAssumption, StateFacts
<1>3. /\ Pad(p, e, g, z) \in [0 .. cap - 1 -> Byte]
      /\ \A x \in 0 .. cap - 1 : Pad(p, e, g, z)[x] = IF x \in e .. g - 1 THEN z ELSE p[x]
  <2>1. DOMAIN p \cup e .. g - 1 = 0 .. cap - 1
    BY <1>2, StateFacts
  <2>. QED
    BY <2>1 DEF Pad
<1>4. \A x \in 0 .. cap - 1 : x \in e .. g - 1 <=> x = e
  BY <1>2
<1>5. PutString(buf, at, s, w) = Pad(p, e, g, z)
  BY <1>1, <1>2 DEF PutString
<1>6. \A x \in 0 .. cap - 1 :
        Pad(p, e, g, z)[x] =
          IF x = e THEN 0 ELSE IF x \in at .. at + w - 1 THEN s[x - at + 1] ELSE buf[x]
  BY <1>1, <1>2, <1>3, <1>4
<1>. QED
  BY <1>2, <1>3, <1>5, <1>6

\* The terminator of a string stored at or before the old one is where it was put.
LEMMA PutStringEnds ==
  ASSUME TypeOK, NEW at \in Nat, NEW w \in Nat, at + w < cap, NEW s \in Seq(Byte), w <= Len(s),
         at <= FirstNul(buf, cap), \A x \in 1 .. w : s[x] # 0
  PROVE  FirstNul(PutString(buf, at, s, w), cap) = at + w
<1>1. PICK q : q = PutString(buf, at, s, w)
  OBVIOUS
<1>2. \A x \in 0 .. cap - 1 :
        q[x] = IF x = at + w THEN 0
               ELSE IF x \in at .. at + w - 1 THEN s[x - at + 1] ELSE buf[x]
  BY <1>1, PutStringFacts
<1>3. ASSUME NEW x \in 0 .. (at + w) - 1 PROVE q[x] # 0
  <2>1. CASE x < at
    <3>1. buf[x] # 0
      <4>1. FirstNul(buf, cap) \in 0 .. cap /\ \A y \in 0 .. FirstNul(buf, cap) - 1 : buf[y] # 0
        BY FirstNulFacts, StateFacts
      <4>. QED
        BY <2>1, <4>1
    <3>2. x \in 0 .. cap - 1 /\ x # at + w /\ x \notin at .. at + w - 1
      BY <2>1, StateFacts
    <3>. QED
      BY <1>2, <3>1, <3>2
  <2>2. CASE x >= at
    <3>1. x \in at .. at + w - 1 /\ x - at + 1 \in 1 .. w /\ x \in 0 .. cap - 1 /\ x # at + w
      BY <2>2, StateFacts
    <3>. QED
      BY <1>2, <3>1
  <2>. QED
    BY <2>1, <2>2
<1>4. q[at + w] = 0 /\ at + w \in 0 .. cap
  BY <1>2, StateFacts
<1>5. FirstNul(q, cap) = at + w
  BY <1>3, <1>4, StateFacts, FirstNulIs
<1>. QED
  BY <1>1, <1>5

-----------------------------------------------------------------------------
(* What every step must keep, and the three shapes of a call: one that stores  *)
(* nothing, one that stores bytes, and one that stores a string.               *)

AtomicStep ==
  \/ Refused(last'.res)
  \/ last'.op \in {"append_into", "strlcat"} /\ last'.res[2] = 0 /\ FirstNul(buf, cap) = cap
  => buf' = buf

FrameStep ==
  \A x \in 0 .. cap - 1 :
    \/ last'.op \in Appending /\ x < FirstNul(buf, cap)
    \/ last'.op \in Bounded /\ x >= last'.n
    \/ last'.op \in Stringing /\ x > FirstNul(buf', cap)
    => buf'[x] = buf[x]

Sound == TypeOK' /\ AtomicStep /\ FrameStep /\ RetrySucceeds'

LEMMA PayloadFacts ==
  ASSUME NEW p \in Payload
  PROVE  /\ p \in Seq(Byte) /\ Len(p) \in Nat /\ Len(p) \in Usize /\ Len(p) < MaxUsize
         /\ \A x \in 1 .. Len(p) : p[x] # 0
<1>1. p \in Seq(Byte \ {0})
  BY BufferAssumption
<1>2. Len(p) \in Usize /\ Len(p) < MaxUsize
  BY BufferAssumption, RoomAssumption
<1>. QED
  BY <1>1, <1>2

LEMMA SourceFacts ==
  ASSUME NEW s \in Source
  PROVE  s \in Seq(Byte) /\ Len(s) \in Nat /\ Len(s) \in Usize
<1>1. s \in Seq(Byte)
  BY BufferAssumption
<1>2. Len(s) \in Usize
  BY BufferAssumption
<1>. QED
  BY <1>1, <1>2

LEMMA CountFacts ==
  ASSUME NEW n \in Count
  PROVE  n \in Nat /\ n \in Usize
BY BufferAssumption, WidthAssumption DEF Usize

LEMMA NoStore ==
  ASSUME TypeOK, NEW op, NEW src, NEW n \in Nat, NEW res,
         AnswerOnly(op, src, n, res), op \notin {"strcat", "strncat"}
  PROVE  Sound
<1>1. cap' = cap /\ buf' = buf /\ last' = [op |-> op, src |-> src, n |-> n, res |-> res]
  BY DEF AnswerOnly, Answer
<1>2. TypeOK'
  BY <1>1 DEF TypeOK
<1>3. RetrySucceeds'
  BY <1>1 DEF RetrySucceeds
<1>. QED
  BY <1>1, <1>2, <1>3 DEF Sound, AtomicStep, FrameStep

LEMMA ByteStore ==
  ASSUME TypeOK, NEW op, NEW src, NEW n \in Nat, NEW res, Answer(op, src, n, res),
         op \notin Stringing, ~Refused(res), buf' \in [0 .. cap - 1 -> Byte],
         op \in Bounded => \A x \in 0 .. cap - 1 : x >= n => buf'[x] = buf[x]
  PROVE  Sound
<1>1. cap' = cap /\ last' = [op |-> op, src |-> src, n |-> n, res |-> res]
  BY DEF Answer
<1>2. TypeOK'
  BY <1>1 DEF TypeOK
<1>3. RetrySucceeds'
  BY <1>1 DEF RetrySucceeds, Stringing
<1>4. AtomicStep
  BY <1>1 DEF AtomicStep, Stringing
<1>5. FrameStep
  BY <1>1 DEF FrameStep, Stringing, Appending
<1>. QED
  BY <1>2, <1>3, <1>4, <1>5 DEF Sound

LEMMA StringStore ==
  ASSUME TypeOK, NEW op \in Stringing, NEW src, NEW n \in Nat, NEW res, Answer(op, src, n, res),
         ~Refused(res), NEW at \in Nat, NEW w \in Nat, at + w < cap,
         NEW s \in Seq(Byte), w <= Len(s), \A x \in 1 .. w : s[x] # 0,
         buf' = PutString(buf, at, s, w), at <= FirstNul(buf, cap),
         op \in Appending => at = FirstNul(buf, cap),
         op = "strlcat" => at + w < n
  PROVE  Sound
<1>1. cap' = cap /\ last' = [op |-> op, src |-> src, n |-> n, res |-> res]
  BY DEF Answer
<1>2. /\ buf' \in [0 .. cap - 1 -> Byte]
      /\ \A x \in 0 .. cap - 1 :
           buf'[x] = IF x = at + w THEN 0
                     ELSE IF x \in at .. at + w - 1 THEN s[x - at + 1] ELSE buf[x]
  BY StateFacts, PutStringFacts
<1>3. FirstNul(buf', cap) = at + w
  BY StateFacts, PutStringEnds
<1>4. TypeOK'
  BY <1>1, <1>2 DEF TypeOK
<1>5. RetrySucceeds'
  BY <1>1 DEF RetrySucceeds
<1>6. AtomicStep
  BY <1>1, StateFacts DEF AtomicStep, Appending
<1>7. FrameStep
  <2>. SUFFICES ASSUME NEW x \in 0 .. cap - 1,
                       \/ last'.op \in Appending /\ x < FirstNul(buf, cap)
                       \/ last'.op \in Bounded /\ x >= last'.n
                       \/ last'.op \in Stringing /\ x > FirstNul(buf', cap)
                PROVE  buf'[x] = buf[x]
    BY DEF FrameStep
  <2>1. x < at \/ x > at + w
    BY <1>1, <1>3, StateFacts DEF Stringing, Bounded, Appending
  <2>. QED
    BY <1>2, <2>1, StateFacts
<1>. QED
  BY <1>4, <1>5, <1>6, <1>7 DEF Sound

\* The answers that do not refuse.
LEMMA Accepting ==
  ASSUME NEW k, NEW r, NEW t
  PROVE  /\ ~Refused(Unit) /\ ~Refused(Copied(k)) /\ ~Refused(EndAt(k)) /\ ~Refused(Written(k))
         /\ ~Refused(Memccpy(k, t)) /\ ~Refused(Report(k, r, t)) /\ ~Refused(Reported(k, r, t))
BY DEF Refused, Unit, Copied, EndAt, Written, Memccpy, Report, Reported

-----------------------------------------------------------------------------
(* One lemma for each call.                                                    *)

LEMMA EmptyBufferSound ==
  ASSUME TypeOK, EmptyBuffer
  PROVE  Sound
<1>1. CASE cap = 0
  BY <1>1, NoStore DEF EmptyBuffer
<1>2. CASE cap > 0
  <2>1. buf' = Pad(buf, 0, 1, 0) /\ Answer("empty_buffer", <<>>, 0, Unit)
    BY <1>2 DEF EmptyBuffer
  <2>2. DOMAIN buf \cup 0 .. 1 - 1 = 0 .. cap - 1
    BY <1>2, StateFacts
  <2>3. buf' \in [0 .. cap - 1 -> Byte]
    BY <2>1, <2>2, StateFacts, BufferAssumption DEF Pad
  <2>. QED
    BY <2>1, <2>3, Accepting, ByteStore DEF Stringing, Bounded
<1>. QED
  BY <1>1, <1>2, StateFacts

LEMMA FillSound ==
  ASSUME TypeOK, NEW v \in Byte, Fill(v)
  PROVE  Sound
<1>1. buf' = Pad(buf, 0, cap, v) /\ Answer("fill", <<>>, v, Unit)
  BY DEF Fill
<1>2. DOMAIN buf \cup 0 .. cap - 1 = 0 .. cap - 1
  BY StateFacts
<1>3. buf' \in [0 .. cap - 1 -> Byte]
  BY <1>1, <1>2, StateFacts DEF Pad
<1>4. v \in Nat
  BY BufferAssumption
<1>. QED
  BY <1>1, <1>3, <1>4, Accepting, ByteStore DEF Stringing, Bounded

LEMMA CopyIntoSound ==
  ASSUME TypeOK, NEW p \in Payload, CopyInto(p)
  PROVE  Sound
<1>1. PICK w : w = Least(Len(p), cap - 1)
  OBVIOUS
<1>2. CASE AnswerOnly("copy_into", p, 0, Report(0, Len(p), TRUE))
  <2>1. PICK res : AnswerOnly("copy_into", p, 0, res)
    BY <1>2
  <2>2. 0 \in Nat /\ "copy_into" \notin {"strcat", "strncat"}
    OBVIOUS
  <2>. QED
    BY <2>1, <2>2, NoStore
<1>3. CASE cap > 0 /\ buf' = PutString(buf, 0, p, w)
           /\ Answer("copy_into", p, 0, Report(w, Len(p), Len(p) >= cap))
  <2>1. w \in Nat /\ 0 + w < cap /\ w <= Len(p) /\ \A x \in 1 .. w : p[x] # 0
    BY <1>1, <1>3, StateFacts, PayloadFacts DEF Least
  <2>2. 0 <= FirstNul(buf, cap)
    BY StateFacts
  <2>. QED
    BY <1>3, <2>1, <2>2, Accepting, PayloadFacts, StringStore DEF Stringing, Appending
<1>. QED
  BY <1>1, <1>2, <1>3 DEF CopyInto

LEMMA StrCpySound ==
  ASSUME TypeOK, NEW p \in Payload, StrCpy(p)
  PROVE  Sound
<1>1. PICK need : need = OkOr(CheckedAdd(Len(p), 1), Wrap(cap + 1))
  OBVIOUS
<1>2. need = Len(p) + 1
  <2>1. 1 \in Usize /\ Len(p) + 1 <= MaxUsize
    BY PayloadFacts, WidthAssumption DEF Usize
  <2>2. CheckedAdd(Len(p), 1) = Ok(Len(p) + 1)
    BY <2>1, AddOk, PayloadFacts
  <2>. QED
    BY <1>1, <2>2 DEF OkOr, Ok
<1>3. CASE need > cap
  BY <1>1, <1>3, <1>2, StateFacts, PayloadFacts, NoStore DEF StrCpy
<1>4. CASE need <= cap
  <2>1. buf' = PutString(buf, 0, p, Len(p)) /\ Answer("strcpy", p, 0, Copied(Len(p)))
    BY <1>1, <1>2, <1>4, StateFacts, PayloadFacts DEF StrCpy
  <2>2. 0 <= FirstNul(buf, cap) /\ 0 + Len(p) < cap
    BY <1>2, <1>4, StateFacts, PayloadFacts
  <2>. QED
    BY <2>1, <2>2, Accepting, PayloadFacts, StringStore DEF Stringing, Appending
<1>. QED
  BY <1>2, <1>3, <1>4, StateFacts, PayloadFacts

LEMMA StpCpySound ==
  ASSUME TypeOK, NEW p \in Payload, StpCpy(p)
  PROVE  Sound
<1>1. PICK need : need = Wrap(Len(p) + 1)
  OBVIOUS
<1>2. need = Len(p) + 1
  BY <1>1, WrapSmall, PayloadFacts, WidthAssumption DEF Usize
<1>3. CASE need > cap
  BY <1>1, <1>2, <1>3, StateFacts, PayloadFacts, NoStore DEF StpCpy
<1>4. CASE need <= cap
  <2>1. buf' = PutString(buf, 0, p, Len(p)) /\ Answer("stpcpy", p, 0, EndAt(Len(p)))
    BY <1>1, <1>2, <1>4, StateFacts, PayloadFacts DEF StpCpy
  <2>2. 0 <= FirstNul(buf, cap) /\ 0 + Len(p) < cap
    BY <1>2, <1>4, StateFacts, PayloadFacts
  <2>. QED
    BY <2>1, <2>2, Accepting, PayloadFacts, StringStore DEF Stringing, Appending
<1>. QED
  BY <1>2, <1>3, <1>4, StateFacts, PayloadFacts

LEMMA AppendSound ==
  ASSUME TypeOK, NEW p \in Payload, NEW n \in Nat, NEW ds \in 0 .. cap, NEW op,
         AppendWithin(op, p, n, ds),
         op \in {"append_into", "strlcat"}, op = "strlcat" => ds <= n, op = "append_into" => ds = cap
  PROVE  Sound
<1>1. PICK f, sum, w : /\ f = FirstNul(buf, ds)
                       /\ sum = CheckedAdd(f, Len(p))
                       /\ w = Least(Len(p), ds - f - 1)
  OBVIOUS
<1>2. ds \in Nat /\ f \in 0 .. ds
  BY <1>1, FirstNulFacts, StateFacts
<1>3. op \notin {"strcat", "strncat"} /\ op \in Stringing
  BY DEF Stringing
<1>4. CASE AnswerOnly(op, p, n, LengthOverflow) \/ AnswerOnly(op, p, n, Reported(0, sum.val, TRUE))
  BY <1>3, <1>4, NoStore
<1>5. CASE f < ds /\ buf' = PutString(buf, f, p, w)
           /\ Answer(op, p, n, Reported(w, sum.val, sum.val >= ds))
  <2>1. w \in Nat /\ f + w < ds /\ w <= Len(p) /\ \A x \in 1 .. w : p[x] # 0
    BY <1>1, <1>2, <1>5, PayloadFacts DEF Least
  <2>2. FirstNul(buf, cap) = f
    BY <1>1, <1>5, StateFacts, FirstNulWithin
  <2>3. f + w < cap /\ f \in Nat /\ f <= FirstNul(buf, cap) /\ (op = "strlcat" => f + w < n)
    BY <1>2, <2>1, <2>2, StateFacts
  <2>. QED
    BY <1>3, <1>5, <2>1, <2>2, <2>3, Accepting, PayloadFacts, StringStore
<1>. QED
  BY <1>1, <1>4, <1>5 DEF AppendWithin

LEMMA AppendIntoSound ==
  ASSUME TypeOK, NEW p \in Payload, AppendInto(p)
  PROVE  Sound
<1>1. cap \in 0 .. cap
  BY StateFacts
<1>. QED
  BY <1>1, AppendSound DEF AppendInto

LEMMA StrLCatSound ==
  ASSUME TypeOK, NEW p \in Payload, NEW n \in Count, StrLCat(p, n)
  PROVE  Sound
<1>1. Least(n, cap) \in 0 .. cap /\ Least(n, cap) <= n
  BY StateFacts, CountFacts, LeastFacts
<1>. QED
  BY <1>1, CountFacts, AppendSound DEF StrLCat

\* The need of an append is the sum, and a storage with that much has room.
LEMMA CatNeedFacts ==
  ASSUME NEW f \in Usize, NEW m \in Usize, NEW c \in Usize
  PROVE  /\ f + m + 1 <= MaxUsize => CatNeed(f, m, c) = f + m + 1
         /\ c < MaxUsize /\ CatNeed(f, m, c) <= c => f + m < c
<1>. USE WidthAssumption DEF Usize
<1>1. CASE f + m + 1 <= MaxUsize
  <2>1. CheckedAdd(f, m) = Ok(f + m)
    BY <1>1, AddOk
  <2>2. CheckedAdd(f + m, 1) = Ok(f + m + 1)
    BY <1>1, AddOk
  <2>3. CatNeed(f, m, c) = f + m + 1
    BY <2>1, <2>2 DEF CatNeed, OkOr, Ok
  <2>. QED
    BY <2>3
<1>2. CASE f + m + 1 > MaxUsize /\ c < MaxUsize
  <2>1. Wrap(c + 1) = c + 1
    BY <1>2, WrapSmall
  <2>2. CASE f + m <= MaxUsize
    <3>1. CheckedAdd(f, m) = Ok(f + m)
      BY <2>2, AddOk
    <3>2. CheckedAdd(f + m, 1) = Overflow
      BY <1>2, <2>2, AddOk
    <3>3. CatNeed(f, m, c) = c + 1
      BY <2>1, <3>1, <3>2 DEF CatNeed, OkOr, Ok, Overflow
    <3>. QED
      BY <1>2, <3>3
  <2>3. CASE f + m > MaxUsize
    <3>1. CheckedAdd(f, m) = Overflow
      BY <2>3, AddOk
    <3>2. CheckedAdd(c, 1) = Ok(c + 1)
      BY <1>2, AddOk
    <3>3. CatNeed(f, m, c) = c + 1
      BY <3>1, <3>2 DEF CatNeed, OkOr, Ok, Overflow
    <3>. QED
      BY <1>2, <3>3
  <2>. QED
    BY <2>2, <2>3
<1>. QED
  BY <1>1, <1>2

\* A storage that grows keeps its NUL, or gets one where its old bytes end.
LEMMA GrownEnds ==
  ASSUME TypeOK, NEW c \in Nat, c > cap
  PROVE  FirstNul(Grown(c), c) = FirstNul(buf, cap)
<1>0. PICK f \in 0 .. cap : f = FirstNul(buf, cap)
  BY StateFacts
<1>1. PICK g : g = Grown(c)
  OBVIOUS
<1>2. \A x \in 0 .. c - 1 : g[x] = IF x < cap THEN buf[x] ELSE 0
  BY <1>1 DEF Grown
<1>3. /\ \A x \in 0 .. f - 1 : buf[x] # 0
      /\ f < cap => buf[f] = 0
  BY <1>0, StateFacts, FirstNulFacts
<1>4. f \in 0 .. c /\ (\A x \in 0 .. f - 1 : g[x] # 0) /\ g[f] = 0
  BY <1>2, <1>3, StateFacts
<1>5. FirstNul(g, c) = f
  BY <1>4, FirstNulIs
<1>. QED
  BY <1>0, <1>1, <1>5

\* A refused append: nothing is stored, and a need that did not wrap is enough.
LEMMA RefusedCat ==
  ASSUME TypeOK, NEW op \in {"strcat", "strncat"}, NEW s, NEW n \in Nat, NEW need,
         AnswerOnly(op, s, n, TooSmall(need, cap)),
         NEW m \in Usize, m = IF op = "strcat" THEN Len(s) ELSE BoundToNul(s, n),
         cap + 1 + (IF op = "strcat" THEN Len(s) ELSE n) \in Usize
           => need \in Usize /\ need > cap /\ FirstNul(buf, cap) + m < need
  PROVE  Sound
<1>1. /\ cap' = cap /\ buf' = buf
      /\ last' = [op |-> op, src |-> s, n |-> n, res |-> TooSmall(need, cap)]
  BY DEF AnswerOnly, Answer
<1>2. TypeOK'
  BY <1>1 DEF TypeOK
<1>3. AtomicStep /\ FrameStep
  BY <1>1 DEF AtomicStep, FrameStep
<1>4. RetrySucceeds'
  <2>1. SUFFICES ASSUME SumFits'
                 PROVE  /\ need > cap /\ FirstNul(Grown(need)', need) < need
                        /\ CatNeed(FirstNul(Grown(need)', need), m, need) <= need
    BY <1>1 DEF RetrySucceeds, TooSmall
  <2>2. need \in Usize /\ need \in Nat /\ need > cap /\ FirstNul(buf, cap) + m < need
    BY <1>1, <2>1, WidthAssumption DEF SumFits, Usize
  <2>3. Grown(need)' = Grown(need)
    BY <1>1 DEF Grown
  <2>4. FirstNul(Grown(need), need) = FirstNul(buf, cap)
    BY <2>2, GrownEnds
  <2>5. CatNeed(FirstNul(buf, cap), m, need) <= need
    <3>1. PICK f \in Usize : f = FirstNul(buf, cap)
      BY StateFacts, WidthAssumption DEF Usize
    <3>2. f + m + 1 <= MaxUsize /\ f + m + 1 <= need
      BY <2>2, <3>1, StateFacts, WidthAssumption DEF Usize
    <3>3. CatNeed(f, m, need) = f + m + 1
      BY <2>2, <3>2, CatNeedFacts
    <3>. QED
      BY <3>1, <3>2, <3>3
  <2>6. FirstNul(buf, cap) < need
    BY <2>2, StateFacts, WidthAssumption DEF Usize
  <2>. QED
    BY <2>2, <2>3, <2>4, <2>5, <2>6
<1>. QED
  BY <1>2, <1>3, <1>4 DEF Sound

LEMMA CatWholeSound ==
  ASSUME TypeOK, NEW op \in {"strcat", "strncat"}, NEW s \in Seq(Byte), NEW n \in Nat,
         NEW m \in Usize, m = IF op = "strcat" THEN Len(s) ELSE BoundToNul(s, n),
         m <= Len(s), m <= IF op = "strcat" THEN Len(s) ELSE n, \A x \in 1 .. m : s[x] # 0,
         FirstNul(buf, cap) < cap, CatWhole(op, s, n, FirstNul(buf, cap), m)
  PROVE  Sound
<1>1. PICK f, need : f = FirstNul(buf, cap) /\ need = CatNeed(f, m, cap)
  OBVIOUS
<1>2. f \in Usize /\ f \in Nat /\ m \in Nat /\ f < cap
  BY <1>1, StateFacts, WidthAssumption DEF Usize
<1>3. CASE need > cap /\ AnswerOnly(op, s, n, TooSmall(need, cap))
  <2>1. ASSUME cap + 1 + (IF op = "strcat" THEN Len(s) ELSE n) \in Usize
        PROVE  need \in Usize /\ need > cap /\ f + m < need
    <3>1. f + m + 1 <= MaxUsize
      BY <1>2, <2>1, StateFacts, WidthAssumption DEF Usize
    <3>2. need = f + m + 1
      BY <1>1, <1>2, <3>1, StateFacts, CatNeedFacts
    <3>. QED
      BY <1>2, <1>3, <3>1, <3>2, WidthAssumption DEF Usize
  <2>. QED
    BY <1>1, <1>3, <2>1, RefusedCat
<1>4. CASE need <= cap /\ buf' = PutString(buf, f, s, m) /\ Answer(op, s, n, Copied(m))
  <2>1. f + m < cap
    BY <1>1, <1>2, <1>4, StateFacts, CatNeedFacts
  <2>2. f <= FirstNul(buf, cap) /\ op \in Stringing /\ op # "strlcat"
    BY <1>1, <1>2 DEF Stringing
  <2>. QED
    BY <1>1, <1>2, <1>4, <2>1, <2>2, Accepting, StringStore
<1>. QED
  BY <1>1, <1>3, <1>4 DEF CatWhole

LEMMA StrCatSound ==
  ASSUME TypeOK, NEW p \in Payload, StrCat(p)
  PROVE  Sound
<1>1. PICK f : f = FirstNul(buf, cap)
  OBVIOUS
<1>2. CASE f = cap /\ AnswerOnly("strcat", p, 0, TooSmall(Wrap(cap + Len(p) + 1), cap))
  <2>1. PICK need : need = Wrap(cap + Len(p) + 1)
    OBVIOUS
  <2>2. ASSUME cap + 1 + Len(p) \in Usize
        PROVE  need \in Usize /\ need > cap /\ f + Len(p) < need
    <3>1. cap + Len(p) + 1 \in Usize
      BY <2>2, StateFacts, PayloadFacts
    <3>2. need = cap + Len(p) + 1
      BY <2>1, <3>1, WrapSmall
    <3>. QED
      BY <1>2, <3>1, <3>2, StateFacts, PayloadFacts
  <2>3. PICK op \in {"strcat", "strncat"} : op = "strcat"
    OBVIOUS
  <2>4. AnswerOnly(op, p, 0, TooSmall(need, cap)) /\ 0 \in Nat
    BY <1>2, <2>1, <2>3
  <2>. QED
    BY <1>1, <2>2, <2>3, <2>4, PayloadFacts, RefusedCat
<1>3. CASE f < cap /\ CatWhole("strcat", p, 0, f, Len(p))
  <2>1. PICK op \in {"strcat", "strncat"} : op = "strcat"
    OBVIOUS
  <2>2. /\ CatWhole(op, p, 0, FirstNul(buf, cap), Len(p)) /\ 0 \in Nat
        /\ Len(p) = IF op = "strcat" THEN Len(p) ELSE BoundToNul(p, 0)
        /\ Len(p) <= IF op = "strcat" THEN Len(p) ELSE 0
    BY <1>1, <1>3, <2>1, PayloadFacts
  <2>3. FirstNul(buf, cap) < cap /\ Len(p) <= Len(p)
    BY <1>1, <1>3, PayloadFacts
  <2>. QED
    BY <2>2, <2>3, PayloadFacts, CatWholeSound
<1>. QED
  BY <1>1, <1>2, <1>3 DEF StrCat

LEMMA StrNCatSound ==
  ASSUME TypeOK, NEW s \in Source, NEW n \in Count, StrNCat(s, n)
  PROVE  Sound
<1>1. PICK f, m : f = FirstNul(buf, cap) /\ m = BoundToNul(s, n)
  OBVIOUS
<1>2. m \in Nat /\ m \in Usize /\ m <= n /\ m <= Len(s) /\ \A x \in 1 .. m : s[x] # 0
  <2>1. /\ m \in 0 .. Least(n, Len(s)) /\ m <= n /\ m <= Len(s)
        /\ \A x \in 1 .. m : s[x] # 0
    BY <1>1, BoundFacts, SourceFacts, CountFacts
  <2>. QED
    BY <2>1, SourceFacts, CountFacts, LeastFacts, WidthAssumption DEF Usize
<1>3. PICK op \in {"strcat", "strncat"} : op = "strncat"
  OBVIOUS
<1>4. m = IF op = "strcat" THEN Len(s) ELSE BoundToNul(s, n)
  BY <1>1, <1>3
<1>5. CASE f = cap /\ AnswerOnly("strncat", s, n, TooSmall(Wrap(cap + n + 1), cap))
  <2>1. PICK need : need = Wrap(cap + n + 1)
    OBVIOUS
  <2>2. ASSUME cap + 1 + n \in Usize
        PROVE  need \in Usize /\ need > cap /\ f + m < need
    <3>1. cap + n + 1 \in Usize
      BY <2>2, StateFacts, CountFacts
    <3>2. need = cap + n + 1
      BY <2>1, <3>1, WrapSmall
    <3>. QED
      BY <1>2, <1>5, <3>1, <3>2, StateFacts, CountFacts
  <2>3. AnswerOnly(op, s, n, TooSmall(need, cap))
    BY <1>3, <1>5, <2>1
  <2>4. cap + 1 + (IF op = "strcat" THEN Len(s) ELSE n) \in Usize
          => need \in Usize /\ need > cap /\ FirstNul(buf, cap) + m < need
    BY <1>1, <1>3, <2>2
  <2>. QED
    BY <1>2, <1>4, <2>3, <2>4, CountFacts, RefusedCat
<1>6. CASE f < cap /\ CatWhole("strncat", s, n, f, m)
  <2>1. /\ CatWhole(op, s, n, FirstNul(buf, cap), m) /\ FirstNul(buf, cap) < cap
        /\ m <= IF op = "strcat" THEN Len(s) ELSE n
    BY <1>1, <1>2, <1>3, <1>6
  <2>. QED
    BY <1>2, <1>4, <2>1, SourceFacts, CountFacts, CatWholeSound
<1>. QED
  BY <1>1, <1>5, <1>6 DEF StrNCat

LEMMA NCopySound ==
  ASSUME TypeOK, NEW s \in Source, NEW n \in Count, NEW op \in {"strncpy", "stpncpy"}, NEW res,
         ~Refused(res), NCopy(op, s, n, res)
  PROVE  Sound
<1>1. op \notin {"strcat", "strncat"} /\ op \notin Stringing
  BY DEF Stringing
<1>2. CASE AnswerOnly(op, s, n, TooSmall(n, cap))
  BY <1>1, <1>2, CountFacts, NoStore
<1>3. CASE n <= cap /\ buf' = Pad(Put(buf, 0, s, BoundToNul(s, n)), BoundToNul(s, n), n, 0)
           /\ Answer(op, s, n, res)
  <2>1. PICK stop \in Nat : stop = BoundToNul(s, n) /\ stop <= n /\ stop <= Len(s)
    BY BoundFacts, SourceFacts, CountFacts, LeastFacts
  <2>2. 0 + stop <= cap /\ 0 \in Nat
    BY <1>3, <2>1, CountFacts, StateFacts
  <2>3. PICK p \in [0 .. cap - 1 -> Byte] :
          /\ p = Put(buf, 0, s, stop)
          /\ \A x \in 0 .. cap - 1 :
               p[x] = IF x \in 0 .. 0 + stop - 1 THEN s[x - 0 + 1] ELSE buf[x]
    <3>1. /\ Put(buf, 0, s, stop) \in [0 .. cap - 1 -> Byte]
          /\ \A x \in 0 .. cap - 1 :
               Put(buf, 0, s, stop)[x] = IF x \in 0 .. 0 + stop - 1 THEN s[x - 0 + 1] ELSE buf[x]
      BY <2>1, <2>2, SourceFacts, PutFacts
    <3>. QED
      BY <3>1
  <2>4. DOMAIN p \cup stop .. n - 1 = 0 .. cap - 1
    BY <1>3, <2>1, CountFacts, StateFacts
  <2>5. buf' = Pad(p, stop, n, 0)
    BY <1>3, <2>1, <2>3
  <2>6. buf' \in [0 .. cap - 1 -> Byte]
    BY <2>4, <2>5, BufferAssumption DEF Pad
  <2>7. ASSUME NEW x \in 0 .. cap - 1, x >= n PROVE buf'[x] = buf[x]
    <3>1. buf'[x] = p[x]
      BY <2>4, <2>5, <2>7, CountFacts DEF Pad
    <3>2. x \notin 0 .. 0 + stop - 1
      BY <2>1, <2>7, CountFacts
    <3>. QED
      BY <2>3, <3>1, <3>2
  <2>. QED
    BY <1>1, <1>3, <2>6, <2>7, CountFacts, ByteStore
<1>. QED
  BY <1>2, <1>3 DEF NCopy

\* A copy to the front of the storage.
LEMMA FrontStore ==
  ASSUME TypeOK, NEW op, NEW src, NEW n \in Nat, NEW res, Answer(op, src, n, res),
         op \notin Stringing, ~Refused(res), NEW s \in Seq(Byte), NEW w \in Nat,
         w <= cap, w <= Len(s), buf' = Put(buf, 0, s, w), op \in Bounded => w <= n
  PROVE  Sound
<1>1. 0 \in Nat /\ 0 + w <= cap
  BY StateFacts
<1>2. /\ buf' \in [0 .. cap - 1 -> Byte]
      /\ \A x \in 0 .. cap - 1 :
           buf'[x] = IF x \in 0 .. 0 + w - 1 THEN s[x - 0 + 1] ELSE buf[x]
  BY <1>1, PutFacts
<1>3. op \in Bounded => \A x \in 0 .. cap - 1 : x >= n => buf'[x] = buf[x]
  BY <1>2
<1>. QED
  BY <1>2, <1>3, ByteStore

LEMMA MemCpySound ==
  ASSUME TypeOK, NEW s \in Source, NEW n \in Count, MemCpy(s, n)
  PROVE  Sound
<1>1. CASE AnswerOnly("memcpy", s, n, TooSmall(n, cap))
  BY <1>1, CountFacts, NoStore
<1>2. CASE AnswerOnly("memcpy", s, n, TooSmall(n, Len(s)))
  BY <1>2, CountFacts, NoStore
<1>3. CASE n <= cap /\ n <= Len(s) /\ buf' = Put(buf, 0, s, n) /\ Answer("memcpy", s, n, Copied(n))
  BY <1>3, CountFacts, SourceFacts, Accepting, FrontStore DEF Stringing
<1>. QED
  BY <1>1, <1>2, <1>3 DEF MemCpy

LEMMA MemCCpySound ==
  ASSUME TypeOK, NEW s \in Source, NEW stop \in Byte, NEW n \in Count, MemCCpy(s, stop, n)
  PROVE  Sound
<1>1. PICK e \in Nat : e = StopEnd(s, stop, n) /\ e <= n /\ e <= Len(s)
  BY StopFacts, SourceFacts, CountFacts
<1>2. PICK no, res : no = Memccpy(0, FALSE) /\ res = Memccpy(e, e > 0 /\ s[e] = stop)
  OBVIOUS
<1>3. CASE AnswerOnly("memccpy", s, n, no)
  BY <1>3, CountFacts, NoStore
<1>4. CASE n <= cap /\ buf' = Put(buf, 0, s, e) /\ Answer("memccpy", s, n, res)
  <2>1. ~Refused(res)
    BY <1>2 DEF Refused, Memccpy
  <2>2. e <= cap
    BY <1>1, <1>4, CountFacts, StateFacts
  <2>. QED
    BY <1>1, <1>4, <2>1, <2>2, CountFacts, SourceFacts, FrontStore DEF Stringing
<1>. QED
  BY <1>1, <1>2, <1>3, <1>4 DEF MemCCpy

LEMMA CopySound ==
  ASSUME TypeOK, NEW s \in Source, Copy(s)
  PROVE  Sound
<1>1. CASE AnswerOnly("copy", s, 0, TooSmall(Len(s), cap))
  BY <1>1, NoStore
<1>2. CASE cap >= Len(s) /\ buf' = Put(buf, 0, s, Len(s)) /\ Answer("copy", s, 0, Copied(Len(s)))
  <2>1. PICK w \in Nat : w = Len(s) /\ w <= cap /\ w <= Len(s)
    BY <1>2, SourceFacts, StateFacts
  <2>2. buf' = Put(buf, 0, s, w) /\ Answer("copy", s, 0, Copied(w)) /\ 0 \in Nat
    BY <1>2, <2>1
  <2>3. "copy" \notin Stringing /\ "copy" \notin Bounded
    BY DEF Stringing, Bounded
  <2>. QED
    BY <2>1, <2>2, <2>3, SourceFacts, Accepting, FrontStore
<1>. QED
  BY <1>1, <1>2 DEF Copy

LEMMA CopyPrefixSound ==
  ASSUME TypeOK, NEW s \in Source, CopyPrefix(s)
  PROVE  Sound
<1>1. PICK w \in Nat : w = Least(Len(s), cap) /\ w <= Len(s) /\ w <= cap
  BY LeastFacts, SourceFacts, StateFacts
<1>2. PICK res : res = Report(w, Len(s), cap < Len(s))
  OBVIOUS
<1>3. buf' = Put(buf, 0, s, w) /\ Answer("copy_prefix", s, 0, res)
  BY <1>1, <1>2 DEF CopyPrefix
<1>4. ~Refused(res) /\ 0 \in Nat
  BY <1>2 DEF Refused, Report
<1>. QED
  BY <1>1, <1>3, <1>4, SourceFacts, FrontStore DEF Stringing, Bounded

LEMMA StrXfrmSound ==
  ASSUME TypeOK, NEW p \in Payload, StrXfrm(p)
  PROVE  Sound
<1>1. CASE AnswerOnly("strxfrm", p, 0, KeyTooBig(Len(p)))
  BY <1>1, NoStore
<1>2. CASE Len(p) <= cap /\ buf' = Put(buf, 0, p, Len(p))
           /\ Answer("strxfrm", p, 0, Written(Len(p)))
  <2>1. Len(p) <= Len(p) /\ 0 \in Nat
    BY PayloadFacts
  <2>. QED
    BY <1>2, <2>1, PayloadFacts, Accepting, FrontStore DEF Stringing, Bounded
<1>. QED
  BY <1>1, <1>2 DEF StrXfrm

\* The calls that store nothing.
LEMMA ReadersSound ==
  ASSUME TypeOK,
         \/ RequireCStr
         \/ \E n \in Count : StrNLen(n)
         \/ \E p \in Payload : StrXfrmNamed(p)
  PROVE  Sound
<1>1. CASE RequireCStr
  BY <1>1, NoStore DEF RequireCStr
<1>2. CASE \E n \in Count : StrNLen(n)
  BY <1>2, CountFacts, NoStore DEF StrNLen
<1>3. CASE \E p \in Payload : StrXfrmNamed(p)
  BY <1>3, NoStore DEF StrXfrmNamed
<1>. QED
  BY <1>1, <1>2, <1>3

LEMMA TakeAnswerSound ==
  ASSUME TypeOK, TakeAnswer
  PROVE  Sound
<1>1. cap' = cap /\ buf' = buf /\ last' = NoAnswer
  BY DEF TakeAnswer
<1>2. TypeOK'
  BY <1>1 DEF TypeOK, NoAnswer
<1>3. RetrySucceeds'
  BY <1>1 DEF RetrySucceeds, NoAnswer
<1>. QED
  BY <1>1, <1>2, <1>3 DEF Sound, AtomicStep, FrameStep

-----------------------------------------------------------------------------
(* The results.                                                                *)

LEMMA InitSound ==
  ASSUME Init
  PROVE  TypeOK /\ RetrySucceeds
BY DEF Init, TypeOK, RetrySucceeds, NoAnswer

LEMMA StepSound ==
  ASSUME TypeOK, Next
  PROVE  Sound
<1>1. CASE \E p \in Payload :
             \/ CopyInto(p) \/ AppendInto(p) \/ StrCpy(p) \/ StpCpy(p)
             \/ StrCat(p) \/ StrXfrm(p) \/ StrXfrmNamed(p)
             \/ \E n \in Count : StrLCat(p, n)
  BY <1>1, CopyIntoSound, AppendIntoSound, StrCpySound, StpCpySound, StrCatSound, StrXfrmSound,
     ReadersSound, StrLCatSound
<1>2. CASE \E s \in Source :
             \/ Copy(s) \/ CopyPrefix(s)
             \/ \E n \in Count :
                  \/ StrNCat(s, n) \/ StrNCpy(s, n) \/ StpNCpy(s, n) \/ MemCpy(s, n)
                  \/ \E stop \in Byte : MemCCpy(s, stop, n)
  <2>. PICK s \in Source :
             \/ Copy(s) \/ CopyPrefix(s)
             \/ \E n \in Count :
                  \/ StrNCat(s, n) \/ StrNCpy(s, n) \/ StpNCpy(s, n) \/ MemCpy(s, n)
                  \/ \E stop \in Byte : MemCCpy(s, stop, n)
    BY <1>2
  <2>1. CASE \E n \in Count : StrNCpy(s, n)
    BY <2>1, Accepting, NCopySound DEF StrNCpy
  <2>2. CASE \E n \in Count : StpNCpy(s, n)
    BY <2>2, Accepting, NCopySound DEF StpNCpy
  <2>. QED
    BY <2>1, <2>2, CopySound, CopyPrefixSound, StrNCatSound, MemCpySound, MemCCpySound
<1>. QED
  BY <1>1, <1>2, TakeAnswerSound, EmptyBufferSound, FillSound, ReadersSound DEF Next

\* BYTE-017: no sequence of calls stores outside the storage, whatever its size.
THEOREM StorageHolds == Spec => []TypeOK
<1>1. Init => TypeOK
  BY InitSound
<1>2. TypeOK /\ [Next]_vars => TypeOK'
  <2>1. TypeOK /\ Next => TypeOK'
    BY StepSound DEF Sound
  <2>2. TypeOK /\ UNCHANGED vars => TypeOK'
    BY DEF TypeOK, vars
  <2>. QED
    BY <2>1, <2>2
<1>. QED
  BY <1>1, <1>2, PTL DEF Spec

\* SEC-003: a call that refuses has stored nothing.
THEOREM RefusalStoresNothing == Spec => FailureAtomic
<1>1. TypeOK /\ [Next]_vars => [AtomicStep]_vars
  BY StepSound DEF Sound
<1>2. Spec => [][AtomicStep]_vars
  BY <1>1, StorageHolds, PTL DEF Spec
<1>. QED
  BY <1>2 DEF FailureAtomic, AtomicStep

\* A call stores inside its frame only: behind the string it extends, below its
\* bound, up to the terminator it sets.
THEOREM StoresStayInFrame == Spec => Frame
<1>1. TypeOK /\ [Next]_vars => [FrameStep]_vars
  BY StepSound DEF Sound
<1>2. Spec => [][FrameStep]_vars
  BY <1>1, StorageHolds, PTL DEF Spec
<1>. QED
  BY <1>2 DEF Frame, FrameStep

\* The need a refused append reports is enough whenever it is a sum that fits.
THEOREM GrownOnceIsEnough == Spec => []RetrySucceeds
<1>1. Init => RetrySucceeds
  BY InitSound
<1>2. TypeOK /\ RetrySucceeds /\ [Next]_vars => RetrySucceeds'
  <2>1. TypeOK /\ Next => RetrySucceeds'
    BY StepSound DEF Sound
  <2>2. RetrySucceeds /\ UNCHANGED vars => RetrySucceeds'
    <3>1. RetrySucceeds /\ last' = last /\ cap' = cap /\ buf' = buf => RetrySucceeds'
      BY DEF RetrySucceeds, SumFits, Grown
    <3>. QED
      BY <3>1 DEF vars
  <2>. QED
    BY <2>1, <2>2
<1>. QED
  BY <1>1, <1>2, StorageHolds, PTL DEF Spec

-----------------------------------------------------------------------------
(* The refinement: what the storage is to a reader of C strings.  First the    *)
(* string that is read, and the bounds of the sources as CStringCell says them.*)

Chars == Byte \ {0}

LEMMA ContentFacts ==
  ASSUME NEW c \in Nat, NEW b \in [0 .. c - 1 -> Byte]
  PROVE  /\ Content(b, c) \in Seq(Chars)
         /\ Len(Content(b, c)) = FirstNul(b, c)
         /\ \A i \in 1 .. FirstNul(b, c) : Content(b, c)[i] = b[i - 1]
<1>1. PICK f \in Nat : f = FirstNul(b, c) /\ f <= c
  BY FirstNulFacts
<1>2. \A x \in 0 .. f - 1 : b[x] # 0
  BY <1>1, FirstNulFacts
<1>3. Content(b, c) = [i \in 1 .. f |-> b[i - 1]]
  BY <1>1 DEF Content
<1>4. \A i \in 1 .. f : b[i - 1] \in Chars
  <2>. SUFFICES ASSUME NEW i \in 1 .. f PROVE b[i - 1] \in Chars
    OBVIOUS
  <2>1. PICK x \in 0 .. f - 1 : x = i - 1 /\ x \in 0 .. c - 1
    BY <1>1
  <2>2. b[x] \in Byte /\ b[x] # 0
    BY <1>2, <2>1
  <2>. QED
    BY <2>1, <2>2 DEF Chars
<1>. QED
  BY <1>1, <1>3, <1>4

\* A storage whose first bytes are t, and then a NUL or its end, reads as t.
LEMMA ReadsAs ==
  ASSUME NEW c \in Nat, NEW b, NEW t \in Seq(Chars), Len(t) <= c,
         \A i \in 1 .. Len(t) : b[i - 1] = t[i],
         Len(t) < c => b[Len(t)] = 0
  PROVE  Content(b, c) = t
<1>1. PICK f \in 0 .. c : f = Len(t)
  OBVIOUS
<1>2. ASSUME NEW x \in 0 .. f - 1 PROVE b[x] # 0
  <2>1. PICK i \in 1 .. Len(t) : i - 1 = x
    BY <1>1
  <2>2. t[i] \in Chars
    OBVIOUS
  <2>. QED
    BY <2>1, <2>2 DEF Chars
<1>3. FirstNul(b, c) = f
  BY <1>1, <1>2, FirstNulIs
<1>4. Content(b, c) = [i \in 1 .. f |-> b[i - 1]]
  BY <1>3 DEF Content
<1>5. t = [i \in 1 .. f |-> t[i]]
  BY <1>1
<1>. QED
  BY <1>1, <1>4, <1>5

LEMMA Min2Is ==
  ASSUME NEW a \in Int, NEW b \in Int
  PROVE  CString!Min2(a, b) = Least(a, b)
BY DEF CString!Min2, Least

LEMMA FirstFacts ==
  ASSUME NEW S, NEW s \in Seq(S), NEW n \in Nat, n <= Len(s)
  PROVE  /\ CString!First(s, n) \in Seq(S) /\ Len(CString!First(s, n)) = n
         /\ \A i \in 1 .. n : CString!First(s, n)[i] = s[i]
BY DEF CString!First

LEMMA UpToNulIs ==
  ASSUME NEW s \in Seq(Byte), NEW n \in Nat
  PROVE  CString!UpToNul(s, n) = CString!First(s, BoundToNul(s, n))
<1>0. Len(s) \in Nat
  OBVIOUS
<1>1. PICK m \in Nat : m = Least(n, Len(s)) /\ m <= Len(s)
  BY <1>0, LeastFacts
<1>2. PICK k : k = BoundToNul(s, n)
  OBVIOUS
<1>3. k \in 0 .. m /\ (\A x \in 1 .. k : s[x] # 0) /\ (k < m => s[k + 1] = 0)
  BY <1>0, <1>1, <1>2, BoundFacts
<1>4. PICK lens : lens = {j \in 0 .. m : ~CString!HasNul(CString!First(s, j))}
  OBVIOUS
<1>5. ASSUME NEW j \in 0 .. m
      PROVE  j \in lens <=> \A x \in 1 .. j : s[x] # 0
  <2>1. PICK t : t = CString!First(s, j)
    OBVIOUS
  <2>2. Len(t) = j /\ \A x \in 1 .. j : t[x] = s[x]
    BY <1>1, <2>1, FirstFacts
  <2>. QED
    BY <1>4, <2>1, <2>2 DEF CString!HasNul
<1>6. k \in lens /\ \A j \in lens : j <= k
  <2>1. ASSUME NEW j \in lens PROVE j <= k
    <3>1. j \in 0 .. m /\ \A x \in 1 .. j : s[x] # 0
      BY <1>4, <1>5
    <3>2. CASE k < j
      <4>1. k + 1 \in 1 .. j /\ s[k + 1] = 0
        BY <1>3, <3>1, <3>2
      <4>. QED
        BY <3>1, <4>1
    <3>. QED
      BY <1>3, <3>1, <3>2
  <2>. QED
    BY <1>3, <1>5, <2>1
<1>7. PICK y : y = CHOOSE j \in lens : \A i \in lens : i <= j
  OBVIOUS
<1>8. y = k
  <2>1. y \in lens /\ \A i \in lens : i <= y
    BY <1>6, <1>7
  <2>2. y <= k /\ k <= y /\ y \in 0 .. m
    BY <1>4, <1>6, <2>1
  <2>. QED
    BY <1>3, <2>2
<1>9. CString!Min2(n, Len(s)) = m
  BY <1>0, <1>1, Min2Is
<1>. QED
  BY <1>2, <1>4, <1>7, <1>8, <1>9 DEF CString!UpToNul

LEMMA FirstOfFirst ==
  ASSUME NEW S, NEW s \in Seq(S), NEW m \in Nat, m <= Len(s), NEW h \in Nat, h <= m
  PROVE  CString!First(CString!First(s, m), h) = CString!First(s, h)
BY DEF CString!First

LEMMA ThroughIs ==
  ASSUME NEW s \in Seq(Byte), NEW stop \in Byte, NEW n \in Nat
  PROVE  /\ CString!Through(s, stop, n) = CString!First(s, StopEnd(s, stop, n))
         /\ (\E i \in 1 .. StopEnd(s, stop, n) : s[i] = stop)
              <=> StopEnd(s, stop, n) > 0 /\ s[StopEnd(s, stop, n)] = stop
<1>0. Len(s) \in Nat
  OBVIOUS
<1>1. PICK m \in Nat : m = Least(n, Len(s)) /\ m <= Len(s)
  BY <1>0, LeastFacts
<1>2. PICK e : e = StopEnd(s, stop, n)
  OBVIOUS
<1>3. /\ e \in 0 .. m /\ \A x \in 1 .. e - 1 : s[x] # stop
      /\ e < m => e > 0 /\ s[e] = stop
  BY <1>0, <1>1, <1>2, StopFacts
<1>4. PICK t : t = CString!First(s, m)
  OBVIOUS
<1>5. t \in Seq(Byte) /\ Len(t) = m /\ \A x \in 1 .. m : t[x] = s[x]
  BY <1>1, <1>4, FirstFacts
<1>6. PICK hits : hits = {i \in 1 .. Len(t) : t[i] = stop}
  OBVIOUS
<1>7. \A i : i \in hits <=> i \in 1 .. m /\ s[i] = stop
  BY <1>5, <1>6
<1>8. CString!Through(s, stop, n) =
        IF hits = {} THEN t ELSE CString!First(t, CHOOSE i \in hits : \A j \in hits : i <= j)
  <2>1. CString!Min2(n, Len(s)) = m
    BY <1>0, <1>1, Min2Is
  <2>. QED
    BY <1>4, <1>6, <2>1 DEF CString!Through
<1>9. CASE hits = {}
  <2>1. e = m
    BY <1>3, <1>7, <1>9
  <2>2. ~(\E i \in 1 .. e : s[i] = stop)
    BY <1>7, <1>9, <2>1
  <2>3. ~(e > 0 /\ s[e] = stop)
    BY <1>3, <2>2
  <2>. QED
    BY <1>2, <1>4, <1>8, <1>9, <2>1, <2>2, <2>3
<1>10. CASE hits # {}
  <2>1. e \in hits
    BY <1>3, <1>7, <1>10
  <2>2. \A j \in hits : e <= j
    BY <1>3, <1>7
  <2>3. PICK h : h = CHOOSE i \in hits : \A j \in hits : i <= j
    OBVIOUS
  <2>4. h = e
    <3>1. h \in hits /\ \A j \in hits : h <= j
      BY <2>1, <2>2, <2>3
    <3>. QED
      BY <1>7, <2>1, <2>2, <3>1
  <2>5. CString!First(t, e) = CString!First(s, e)
    BY <1>1, <1>3, <1>4, FirstOfFirst
  <2>6. e > 0 /\ s[e] = stop /\ e \in 1 .. e
    BY <1>3, <1>7, <2>1
  <2>. QED
    BY <1>2, <1>8, <1>10, <2>3, <2>4, <2>5, <2>6
<1>. QED
  BY <1>9, <1>10

\* What is read after a string was stored at or before the NUL.
LEMMA StringReads ==
  ASSUME TypeOK, NEW at \in Nat, NEW w \in Nat, at + w < cap, NEW s \in Seq(Byte), w <= Len(s),
         at <= FirstNul(buf, cap), \A x \in 1 .. w : s[x] # 0,
         NEW t \in Seq(Byte), Len(t) = at + w,
         \A i \in 1 .. at : t[i] = buf[i - 1],
         \A i \in 1 .. w : t[at + i] = s[i]
  PROVE  Content(PutString(buf, at, s, w), cap) = t
<1>1. PICK q : q = PutString(buf, at, s, w)
  OBVIOUS
<1>2. \A x \in 0 .. cap - 1 :
        q[x] = IF x = at + w THEN 0
               ELSE IF x \in at .. at + w - 1 THEN s[x - at + 1] ELSE buf[x]
  BY <1>1, PutStringFacts
<1>3. ASSUME NEW i \in 1 .. Len(t) PROVE t[i] # 0 /\ q[i - 1] = t[i]
  <2>1. CASE i <= at
    <3>1. PICK x \in 0 .. cap - 1 : x = i - 1 /\ x < at
      BY <2>1, StateFacts
    <3>2. buf[x] # 0
      <4>1. x \in 0 .. FirstNul(buf, cap) - 1
        BY <3>1, StateFacts
      <4>. QED
        BY <4>1, StateFacts
    <3>3. q[x] = buf[x]
      BY <1>2, <3>1
    <3>. QED
      BY <2>1, <3>1, <3>2, <3>3
  <2>2. CASE i > at
    <3>1. PICK y \in 1 .. w : i = at + y
      <4>1. i - at \in 1 .. w /\ i = at + (i - at)
        BY <2>2
      <4>. QED
        BY <4>1
    <3>2. PICK x \in 0 .. cap - 1 : x = i - 1 /\ x \in at .. at + w - 1 /\ x - at + 1 = y
      BY <2>2, <3>1, StateFacts
    <3>3. q[x] = s[y]
      BY <1>2, <3>2
    <3>. QED
      BY <3>1, <3>2, <3>3
  <2>. QED
    BY <2>1, <2>2
<1>4. q[Len(t)] = 0 /\ Len(t) <= cap
  <2>1. PICK e \in 0 .. cap - 1 : e = at + w
    BY StateFacts
  <2>2. q[e] = 0
    BY <1>2, <2>1
  <2>. QED
    BY <2>1, <2>2, StateFacts
<1>5. t \in Seq(Chars)
  BY <1>3 DEF Chars
<1>6. Content(q, cap) = t
  <2>1. \A i \in 1 .. Len(t) : q[i - 1] = t[i]
    BY <1>3
  <2>2. cap \in Nat /\ Len(t) <= cap /\ (Len(t) < cap => q[Len(t)] = 0)
    BY <1>4, StateFacts
  <2>. QED
    BY <1>5, <2>1, <2>2, ReadsAs, Zenon
<1>. QED
  BY <1>1, <1>6

\* Bytes stored at the front: the abstract overlay of those bytes.
LEMMA FrontReads ==
  ASSUME TypeOK, cap' = cap, NEW s \in Seq(Byte), NEW w \in Nat, w <= Len(s), w <= cap,
         buf' = Put(buf, 0, s, w)
  PROVE  CString!Overlay(CString!First(s, w))
<1>1. PICK q, old, t : q = buf' /\ old = Content(buf, cap) /\ t = CString!First(s, w)
  OBVIOUS
<1>2. Content(buf, cap)' = Content(q, cap)
  BY <1>1
<1>3. t \in Seq(Byte) /\ Len(t) = w /\ \A i \in 1 .. w : t[i] = s[i]
  BY <1>1, FirstFacts
<1>4. PICK l \in 0 .. cap : l = FirstNul(buf, cap)
  BY StateFacts
<1>5. old \in Seq(Chars) /\ Len(old) = l /\ \A i \in 1 .. l : old[i] = buf[i - 1]
  BY <1>1, <1>4, StateFacts, ContentFacts
<1>6. /\ q \in [0 .. cap - 1 -> Byte]
      /\ \A x \in 0 .. cap - 1 : q[x] = IF x \in 0 .. 0 + w - 1 THEN s[x - 0 + 1] ELSE buf[x]
  <2>1. 0 \in Nat /\ 0 + w <= cap
    BY StateFacts
  <2>. QED
    BY <1>1, <2>1, PutFacts
<1>7. ASSUME NEW i \in 1 .. w PROVE q[i - 1] = t[i]
  <2>1. PICK x \in 0 .. cap - 1 : x = i - 1 /\ x \in 0 .. 0 + w - 1 /\ x - 0 + 1 = i
    BY StateFacts
  <2>2. q[x] = s[i]
    BY <1>6, <2>1
  <2>. QED
    BY <1>3, <2>1, <2>2
<1>8. ASSUME NEW i \in w + 1 .. cap PROVE q[i - 1] = buf[i - 1]
  <2>1. PICK x \in 0 .. cap - 1 : x = i - 1 /\ x \notin 0 .. 0 + w - 1
    BY StateFacts
  <2>2. q[x] = buf[x]
    BY <1>6, <2>1
  <2>. QED
    BY <2>1, <2>2
<1>9. CASE CString!HasNul(t)
  <2>1. PICK k : k = BoundToNul(t, w)
    OBVIOUS
  <2>2. k \in 0 .. w /\ (\A x \in 1 .. k : t[x] # 0) /\ (k < w => t[k + 1] = 0)
    <3>1. Len(t) \in Nat /\ Least(w, Len(t)) = w
      BY <1>3 DEF Least
    <3>. QED
      BY <2>1, <3>1, BoundFacts
  <2>3. k < w
    BY <1>3, <1>9, <2>2 DEF CString!HasNul
  <2>4. PICK u : u = CString!First(t, k)
    OBVIOUS
  <2>5. u \in Seq(Byte) /\ Len(u) = k /\ \A i \in 1 .. k : u[i] = t[i]
    BY <1>3, <2>2, <2>4, FirstFacts
  <2>6. u \in Seq(Chars)
    BY <2>2, <2>5 DEF Chars
  <2>7. \A i \in 1 .. Len(u) : q[i - 1] = u[i]
    BY <1>7, <2>2, <2>5
  <2>8. cap \in Nat /\ Len(u) <= cap /\ (Len(u) < cap => q[Len(u)] = 0)
    <3>1. PICK i \in 1 .. w : i = k + 1 /\ i - 1 = k
      BY <2>2, <2>3
    <3>2. q[i - 1] = 0
      BY <1>7, <2>2, <2>3, <3>1
    <3>. QED
      BY <2>2, <2>5, <3>1, <3>2, StateFacts
  <2>9. Content(q, cap) = u
    BY <2>6, <2>7, <2>8, ReadsAs, Zenon
  <2>10. CString!UpToNul(t, Len(t)) = u
    BY <1>3, <2>1, <2>4, UpToNulIs
  <2>. QED
    BY <1>1, <1>2, <1>9, <2>9, <2>10 DEF CString!Overlay
<1>10. CASE ~CString!HasNul(t) /\ w <= l
  <2>1. t \in Seq(Chars)
    BY <1>3, <1>10 DEF CString!HasNul, Chars
  <2>2. PICK r : r = CString!Rest(old, w)
    OBVIOUS
  <2>3. r \in Seq(Chars) /\ Len(r) = l - w /\ \A i \in 1 .. l - w : r[i] = old[w + i]
    BY <1>5, <1>10, <2>2 DEF CString!Rest
  <2>4. PICK u : u = t \o r
    OBVIOUS
  <2>5. /\ u \in Seq(Chars) /\ Len(u) = l
        /\ \A i \in 1 .. l : u[i] = IF i <= w THEN t[i] ELSE r[i - w]
    BY <1>3, <1>10, <2>1, <2>3, <2>4
  <2>6. ASSUME NEW i \in 1 .. Len(u) PROVE q[i - 1] = u[i]
    <3>1. CASE i <= w
      BY <1>7, <2>5, <3>1
    <3>2. CASE i > w
      <4>1. PICK j \in 1 .. l - w : j = i - w /\ w + j = i
        BY <2>5, <3>2
      <4>2. u[i] = old[i]
        BY <2>3, <2>5, <3>2, <4>1
      <4>3. i \in w + 1 .. cap /\ i \in 1 .. l
        BY <2>5, <3>2, StateFacts
      <4>. QED
        BY <1>5, <1>8, <4>2, <4>3
    <3>. QED
      BY <2>5, <3>1, <3>2
  <2>7. cap \in Nat /\ Len(u) <= cap /\ (Len(u) < cap => q[Len(u)] = 0)
    <3>1. ASSUME l < cap PROVE q[l] = 0
      <4>1. PICK i \in w + 1 .. cap : i - 1 = l
        <5>1. l + 1 \in w + 1 .. cap /\ (l + 1) - 1 = l
          BY <1>10, <3>1, StateFacts
        <5>. QED
          BY <5>1
      <4>2. q[i - 1] = buf[i - 1]
        BY <1>8
      <4>. QED
        BY <1>4, <3>1, <4>1, <4>2, StateFacts
    <3>. QED
      BY <2>5, <3>1, StateFacts
  <2>8. \A i \in 1 .. Len(u) : q[i - 1] = u[i]
    BY <2>6
  <2>9. Content(q, cap) = u
    BY <2>5, <2>7, <2>8, ReadsAs, Zenon
  <2>. QED
    BY <1>1, <1>2, <1>3, <1>5, <1>10, <2>2, <2>4, <2>9 DEF CString!Overlay
<1>11. CASE ~CString!HasNul(t) /\ w > l
  <2>1. PICK u : u = Content(q, cap)
    OBVIOUS
  <2>2. PICK f \in 0 .. cap : f = FirstNul(q, cap) /\ (f < cap => q[f] = 0)
    BY StateFacts, FirstNulFacts
  <2>3. u \in Seq(Chars) /\ Len(u) = f /\ \A i \in 1 .. f : u[i] = q[i - 1]
    BY <1>6, <2>1, <2>2, StateFacts, ContentFacts
  <2>4. w <= f
    <3>1. SUFFICES ASSUME f < w PROVE FALSE
      BY <2>2
    <3>2. PICK i \in 1 .. w : i - 1 = f
      <4>1. f + 1 \in 1 .. w /\ (f + 1) - 1 = f
        BY <3>1
      <4>. QED
        BY <4>1
    <3>3. t[i] = 0
      BY <1>7, <2>2, <3>1, <3>2, StateFacts
    <3>. QED
      BY <1>3, <1>11, <3>3 DEF CString!HasNul
  <2>5. PICK v : v = CString!First(u, w)
    OBVIOUS
  <2>6. v \in Seq(Chars) /\ Len(v) = w /\ \A i \in 1 .. w : v[i] = u[i]
    BY <2>3, <2>4, <2>5, FirstFacts
  <2>7. ASSUME NEW i \in 1 .. w PROVE v[i] = t[i]
    <3>1. i \in 1 .. f
      BY <2>2, <2>4
    <3>2. v[i] = u[i] /\ u[i] = q[i - 1] /\ q[i - 1] = t[i]
      BY <1>7, <2>3, <2>6, <3>1
    <3>. QED
      BY <3>2
  <2>8. v = t
    BY <1>3, <2>6, <2>7
  <2>9. u \in Seq(CString!Char)
    BY <2>3 DEF Chars, CString!Char
  <2>. QED
    BY <1>1, <1>2, <1>3, <1>5, <1>11, <2>1, <2>2, <2>3, <2>4, <2>5, <2>8, <2>9
    DEF CString!Overlay
<1>. QED
  BY <1>3, <1>9, <1>10, <1>11

-----------------------------------------------------------------------------
(* One lemma for each call: it is the call of CStringCell.                     *)

LEMMA CellFacts ==
  ASSUME TypeOK
  PROVE  /\ Content(buf, cap) \in Seq(Chars)
         /\ Len(Content(buf, cap)) = FirstNul(buf, cap)
         /\ \A i \in 1 .. FirstNul(buf, cap) : Content(buf, cap)[i] = buf[i - 1]
BY StateFacts, ContentFacts

LEMMA SameAnswers ==
  ASSUME NEW k, NEW r, NEW t
  PROVE  /\ CString!NoAnswer = NoAnswer /\ CString!Unit = Unit
         /\ CString!LengthOverflow = LengthOverflow /\ CString!NoTerminator = NoTerminator
         /\ CString!LocaleUnsupported = LocaleUnsupported
         /\ CString!Copied(k) = Copied(k) /\ CString!TooSmall(k, r) = TooSmall(k, r)
         /\ CString!Report(k, r, t) = Report(k, r, t)
         /\ CString!Reported(k, r, t) = Reported(k, r, t)
         /\ CString!EndAt(k) = EndAt(k) /\ CString!Memccpy(k, t) = Memccpy(k, t)
         /\ CString!Written(k) = Written(k) /\ CString!KeyTooBig(k) = KeyTooBig(k)
         /\ CString!View(k) = View(k) /\ CString!Length(k) = Length(k)
BY DEF CString!NoAnswer, CString!Unit, CString!LengthOverflow, CString!NoTerminator,
       CString!LocaleUnsupported, CString!Copied, CString!TooSmall, CString!Report,
       CString!Reported, CString!EndAt, CString!Memccpy, CString!Written, CString!KeyTooBig,
       CString!View, CString!Length, NoAnswer, Unit, LengthOverflow, NoTerminator,
       LocaleUnsupported, Copied, TooSmall, Report, Reported, EndAt, Memccpy, Written,
       KeyTooBig, View, Length

LEMMA AnswerReads ==
  ASSUME NEW op, NEW src, NEW n, NEW res, Answer(op, src, n, res)
  PROVE  CString!Says(op, src, n, res) /\ cap' = cap
BY SameAnswers DEF Answer, CString!Says

LEMMA KeptReads ==
  ASSUME NEW op, NEW src, NEW n, NEW res, AnswerOnly(op, src, n, res)
  PROVE  CString!Stays(op, src, n, res)
<1>1. CString!Says(op, src, n, res) /\ cap' = cap /\ buf' = buf
  BY AnswerReads DEF AnswerOnly
<1>2. Content(buf, cap)' = Content(buf, cap)
  BY <1>1
<1>. QED
  BY <1>1, <1>2 DEF CString!Stays, CString!Becomes

LEMMA StringBecomes ==
  ASSUME TypeOK, NEW op, NEW src, NEW n, NEW res, Answer(op, src, n, res),
         NEW at \in Nat, NEW w \in Nat, at + w < cap, NEW s \in Seq(Byte), w <= Len(s),
         at <= FirstNul(buf, cap), \A x \in 1 .. w : s[x] # 0,
         buf' = PutString(buf, at, s, w),
         NEW t \in Seq(Byte), Len(t) = at + w,
         \A i \in 1 .. at : t[i] = buf[i - 1],
         \A i \in 1 .. w : t[at + i] = s[i]
  PROVE  CString!Becomes(t, op, src, n, res)
<1>1. CString!Says(op, src, n, res) /\ cap' = cap
  BY AnswerReads
<1>2. Content(PutString(buf, at, s, w), cap) = t
  BY StringReads
<1>3. Content(buf, cap)' = t
  BY <1>1, <1>2
<1>. QED
  BY <1>1, <1>3 DEF CString!Becomes

\* A string stored at the front.
LEMMA FrontBecomes ==
  ASSUME TypeOK, NEW op, NEW src, NEW n, NEW res, Answer(op, src, n, res),
         NEW w \in Nat, w < cap, NEW s \in Seq(Byte), w <= Len(s),
         \A x \in 1 .. w : s[x] # 0, buf' = PutString(buf, 0, s, w)
  PROVE  CString!Becomes(CString!First(s, w), op, src, n, res)
<1>1. PICK t \in Seq(Byte) :
        t = CString!First(s, w) /\ Len(t) = w /\ \A i \in 1 .. w : t[i] = s[i]
  BY FirstFacts
<1>2. PICK at \in Nat : at = 0
  OBVIOUS
<1>3. /\ at + w < cap /\ at <= FirstNul(buf, cap) /\ Len(t) = at + w
      /\ buf' = PutString(buf, at, s, w)
      /\ \A i \in 1 .. at : t[i] = buf[i - 1]
      /\ \A i \in 1 .. w : t[at + i] = s[i]
  BY <1>1, <1>2, StateFacts
<1>4. CString!Becomes(t, op, src, n, res)
  BY <1>3, StringBecomes
<1>. QED
  BY <1>1, <1>4

\* A string stored at the NUL.
LEMMA AppendBecomes ==
  ASSUME TypeOK, NEW op, NEW src, NEW n, NEW res, Answer(op, src, n, res),
         NEW w \in Nat, FirstNul(buf, cap) + w < cap, NEW s \in Seq(Byte), w <= Len(s),
         \A x \in 1 .. w : s[x] # 0, buf' = PutString(buf, FirstNul(buf, cap), s, w)
  PROVE  CString!Becomes(Content(buf, cap) \o CString!First(s, w), op, src, n, res)
<1>1. PICK u \in Seq(Byte) :
        u = CString!First(s, w) /\ Len(u) = w /\ \A i \in 1 .. w : u[i] = s[i]
  BY FirstFacts
<1>2. PICK at \in Nat : at = FirstNul(buf, cap)
  BY StateFacts
<1>3. PICK old \in Seq(Byte) :
        old = Content(buf, cap) /\ Len(old) = at /\ \A i \in 1 .. at : old[i] = buf[i - 1]
  <2>1. Content(buf, cap) \in Seq(Byte)
    BY CellFacts DEF Chars
  <2>. QED
    BY <1>2, <2>1, CellFacts
<1>4. PICK t : t = old \o u
  OBVIOUS
<1>5. /\ t \in Seq(Byte) /\ Len(t) = at + w
      /\ \A i \in 1 .. at + w : t[i] = IF i <= at THEN old[i] ELSE u[i - at]
  <2>1. /\ t \in Seq(Byte) /\ Len(t) = Len(old) + Len(u)
        /\ \A i \in 1 .. Len(old) + Len(u) :
             t[i] = IF i <= Len(old) THEN old[i] ELSE u[i - Len(old)]
    BY <1>4
  <2>. QED
    BY <1>1, <1>3, <2>1
<1>6. \A i \in 1 .. at : t[i] = buf[i - 1]
  <2>. SUFFICES ASSUME NEW i \in 1 .. at PROVE t[i] = buf[i - 1]
    OBVIOUS
  <2>1. i \in 1 .. at + w /\ i <= at
    OBVIOUS
  <2>. QED
    BY <1>3, <1>5, <2>1
<1>7. \A i \in 1 .. w : t[at + i] = s[i]
  <2>. SUFFICES ASSUME NEW i \in 1 .. w PROVE t[at + i] = s[i]
    OBVIOUS
  <2>1. at + i \in 1 .. at + w /\ ~(at + i <= at) /\ (at + i) - at = i
    OBVIOUS
  <2>. QED
    BY <1>1, <1>5, <2>1
<1>8. at + w < cap /\ at <= FirstNul(buf, cap) /\ buf' = PutString(buf, at, s, w)
  BY <1>2, StateFacts
<1>9. CString!Becomes(t, op, src, n, res)
  BY <1>5, <1>6, <1>7, <1>8, StringBecomes
<1>. QED
  BY <1>1, <1>3, <1>4, <1>9

LEMMA FirstAll ==
  ASSUME NEW S, NEW s \in Seq(S)
  PROVE  CString!First(s, Len(s)) = s
BY DEF CString!First

\* A scan of a prefix stops at the NUL or at the end of the prefix.
LEMMA FirstNulLeast ==
  ASSUME TypeOK, NEW d \in 0 .. cap
  PROVE  FirstNul(buf, d) = Least(FirstNul(buf, cap), d)
<1>1. PICK f \in 0 .. cap : f = FirstNul(buf, cap)
  BY StateFacts
<1>2. d \in Nat /\ f \in Nat /\ d <= cap /\ f <= cap
  BY StateFacts
<1>3. PICK e \in 0 .. d : e = Least(f, d) /\ e <= f /\ (e < d => e = f)
  <2>1. Least(f, d) \in 0 .. d /\ Least(f, d) <= f /\ (Least(f, d) < d => Least(f, d) = f)
    BY <1>2 DEF Least
  <2>. QED
    BY <2>1
<1>4. \A x \in 0 .. e - 1 : buf[x] # 0
  BY <1>1, <1>2, <1>3, StateFacts
<1>5. e < d => buf[e] = 0
  BY <1>1, <1>2, <1>3, StateFacts
<1>. QED
  BY <1>1, <1>2, <1>3, <1>4, <1>5, FirstNulIs

LEMMA EmptyBufferReads ==
  ASSUME TypeOK, EmptyBuffer
  PROVE  CString!EmptyBuffer
<1>1. Answer("empty_buffer", <<>>, 0, Unit)
  BY DEF EmptyBuffer, AnswerOnly
<1>2. CString!Says("empty_buffer", <<>>, 0, Unit) /\ cap' = cap
  BY <1>1, AnswerReads
<1>3. PICK q, t : q = buf' /\ t = <<>>
  OBVIOUS
<1>4. cap > 0 => q[0] = 0
  <2>1. SUFFICES ASSUME cap > 0 PROVE q[0] = 0
    OBVIOUS
  <2>2. q = Pad(buf, 0, 1, 0)
    BY <1>3, <2>1 DEF EmptyBuffer
  <2>. QED
    BY <2>2 DEF Pad
<1>5. t \in Seq(Chars) /\ Len(t) = 0
  BY <1>3
<1>6. /\ cap \in Nat /\ Len(t) <= cap /\ (Len(t) < cap => q[Len(t)] = 0)
      /\ \A i \in 1 .. Len(t) : q[i - 1] = t[i]
  BY <1>4, <1>5, StateFacts
<1>7. Content(q, cap) = t
  BY <1>5, <1>6, ReadsAs, Zenon
<1>. QED
  BY <1>2, <1>3, <1>7, SameAnswers DEF CString!EmptyBuffer, CString!Becomes

LEMMA FillReads ==
  ASSUME TypeOK, NEW v \in Byte, Fill(v)
  PROVE  CString!Fill(v)
<1>1. CString!Says("fill", <<>>, v, Unit) /\ cap' = cap
  BY AnswerReads DEF Fill
<1>2. PICK q : q = buf'
  OBVIOUS
<1>3. \A x \in 0 .. cap - 1 : q[x] = v
  BY <1>2, StateFacts DEF Fill, Pad
<1>4. PICK t : t = IF v = 0 THEN <<>> ELSE [i \in 1 .. cap |-> v]
  OBVIOUS
<1>5. /\ t \in Seq(Chars)
      /\ cap \in Nat /\ Len(t) <= cap /\ (Len(t) < cap => q[Len(t)] = 0)
      /\ \A i \in 1 .. Len(t) : q[i - 1] = t[i]
  <2>1. CASE v = 0
    <3>1. t = <<>> /\ t \in Seq(Chars) /\ Len(t) = 0
      BY <1>4, <2>1
    <3>. QED
      BY <1>3, <2>1, <3>1, StateFacts
  <2>2. CASE v # 0
    <3>1. PICK c \in Nat : c = cap
      BY StateFacts
    <3>2. t = [i \in 1 .. c |-> v] /\ v \in Chars
      BY <1>4, <2>2, <3>1 DEF Chars
    <3>3. t \in Seq(Chars) /\ Len(t) = c /\ \A i \in 1 .. c : t[i] = v
      BY <3>2
    <3>4. ASSUME NEW i \in 1 .. Len(t) PROVE q[i - 1] = t[i]
      <4>1. i - 1 \in 0 .. cap - 1
        BY <3>1, <3>3
      <4>. QED
        BY <1>3, <3>3, <4>1
    <3>. QED
      BY <3>1, <3>3, <3>4
  <2>. QED
    BY <2>1, <2>2
<1>6. Content(q, cap) = t
  BY <1>5, ReadsAs, Zenon
<1>. QED
  BY <1>1, <1>2, <1>4, <1>6, SameAnswers DEF CString!Fill, CString!Becomes

LEMMA CopyIntoReads ==
  ASSUME TypeOK, NEW p \in Payload, CopyInto(p)
  PROVE  CString!CopyInto(p)
<1>1. PICK w : w = Least(Len(p), cap - 1)
  OBVIOUS
<1>2. CString!Min2(Len(p), cap - 1) = w
  BY <1>1, Min2Is, PayloadFacts, StateFacts
<1>3. CASE cap = 0 /\ AnswerOnly("copy_into", p, 0, Report(0, Len(p), TRUE))
  <2>1. PICK res : res = Report(0, Len(p), TRUE)
    OBVIOUS
  <2>2. AnswerOnly("copy_into", p, 0, res) /\ res = CString!Report(0, Len(p), TRUE)
    BY <1>3, <2>1, SameAnswers
  <2>3. CString!Stays("copy_into", p, 0, res)
    BY <2>2, KeptReads
  <2>. QED
    BY <1>3, <2>2, <2>3 DEF CString!CopyInto
<1>4. CASE cap > 0 /\ buf' = PutString(buf, 0, p, w)
           /\ Answer("copy_into", p, 0, Report(w, Len(p), Len(p) >= cap))
  <2>1. w \in Nat /\ w < cap /\ w <= Len(p) /\ \A x \in 1 .. w : p[x] # 0
    BY <1>1, <1>4, StateFacts, PayloadFacts DEF Least
  <2>2. (Len(p) >= cap) = (w < Len(p))
    BY <1>1, <1>4, StateFacts, PayloadFacts DEF Least
  <2>3. PICK res : res = Report(w, Len(p), w < Len(p))
    OBVIOUS
  <2>4. Answer("copy_into", p, 0, res) /\ res = CString!Report(w, Len(p), w < Len(p))
    BY <1>4, <2>2, <2>3 DEF Report, CString!Report
  <2>5. CString!Becomes(CString!First(p, w), "copy_into", p, 0, res)
    BY <1>4, <2>1, <2>4, PayloadFacts, FrontBecomes
  <2>. QED
    BY <1>2, <1>4, <2>4, <2>5, StateFacts DEF CString!CopyInto
<1>. QED
  BY <1>1, <1>3, <1>4 DEF CopyInto

LEMMA StrCpyReads ==
  ASSUME TypeOK, NEW p \in Payload, StrCpy(p)
  PROVE  CString!StrCpy(p)
<1>1. PICK need : need = OkOr(CheckedAdd(Len(p), 1), Wrap(cap + 1))
  OBVIOUS
<1>2. need = Len(p) + 1
  <2>1. 1 \in Usize /\ Len(p) + 1 <= MaxUsize
    BY PayloadFacts, WidthAssumption DEF Usize
  <2>2. CheckedAdd(Len(p), 1) = Ok(Len(p) + 1)
    BY <2>1, AddOk, PayloadFacts
  <2>. QED
    BY <1>1, <2>2 DEF OkOr, Ok
<1>3. CASE need > cap /\ AnswerOnly("strcpy", p, 0, TooSmall(need, cap))
  <2>1. CString!Stays("strcpy", p, 0, TooSmall(need, cap))
    BY <1>3, KeptReads
  <2>2. ~(Len(p) < cap)
    BY <1>2, <1>3, PayloadFacts, StateFacts
  <2>. QED
    BY <1>2, <2>1, <2>2, SameAnswers DEF CString!StrCpy, CString!Whole
<1>4. CASE need <= cap /\ buf' = PutString(buf, 0, p, Len(p))
           /\ Answer("strcpy", p, 0, Copied(Len(p)))
  <2>1. Len(p) < cap /\ Len(p) <= Len(p)
    BY <1>2, <1>4, PayloadFacts, StateFacts
  <2>2. CString!Becomes(CString!First(p, Len(p)), "strcpy", p, 0, Copied(Len(p)))
    BY <1>4, <2>1, PayloadFacts, FrontBecomes
  <2>3. CString!First(p, Len(p)) = p
    BY PayloadFacts, FirstAll
  <2>. QED
    BY <2>1, <2>2, <2>3, SameAnswers DEF CString!StrCpy, CString!Whole
<1>. QED
  BY <1>1, <1>3, <1>4 DEF StrCpy

LEMMA StpCpyReads ==
  ASSUME TypeOK, NEW p \in Payload, StpCpy(p)
  PROVE  CString!StpCpy(p)
<1>1. PICK need : need = Wrap(Len(p) + 1)
  OBVIOUS
<1>2. need = Len(p) + 1
  BY <1>1, WrapSmall, PayloadFacts, WidthAssumption DEF Usize
<1>3. CASE need > cap /\ AnswerOnly("stpcpy", p, 0, TooSmall(need, cap))
  <2>1. CString!Stays("stpcpy", p, 0, TooSmall(need, cap))
    BY <1>3, KeptReads
  <2>2. ~(Len(p) < cap)
    BY <1>2, <1>3, PayloadFacts, StateFacts
  <2>. QED
    BY <1>2, <2>1, <2>2, SameAnswers DEF CString!StpCpy, CString!Whole
<1>4. CASE need <= cap /\ buf' = PutString(buf, 0, p, Len(p))
           /\ Answer("stpcpy", p, 0, EndAt(Len(p)))
  <2>1. Len(p) < cap /\ Len(p) <= Len(p)
    BY <1>2, <1>4, PayloadFacts, StateFacts
  <2>2. CString!Becomes(CString!First(p, Len(p)), "stpcpy", p, 0, EndAt(Len(p)))
    BY <1>4, <2>1, PayloadFacts, FrontBecomes
  <2>3. CString!First(p, Len(p)) = p
    BY PayloadFacts, FirstAll
  <2>. QED
    BY <2>1, <2>2, <2>3, SameAnswers DEF CString!StpCpy, CString!Whole
<1>. QED
  BY <1>1, <1>3, <1>4 DEF StpCpy

LEMMA AppendReads ==
  ASSUME TypeOK, NEW p \in Payload, NEW n, NEW ds \in 0 .. cap, NEW op,
         AppendWithin(op, p, n, ds)
  PROVE  CString!Append2(op, p, n, ds)
<1>1. PICK f, sum, w : /\ f = FirstNul(buf, ds)
                       /\ sum = CheckedAdd(f, Len(p))
                       /\ w = Least(Len(p), ds - f - 1)
  OBVIOUS
<1>2. PICK l \in 0 .. cap : l = FirstNul(buf, cap) /\ l = Len(Content(buf, cap))
  BY StateFacts, CellFacts
<1>3. f = Least(l, ds) /\ f \in 0 .. ds /\ f \in Usize /\ ds \in Nat
  BY <1>1, <1>2, FirstNulLeast, LeastFacts, StateFacts, WidthAssumption DEF Usize
<1>4. CString!Min2(Len(Content(buf, cap)), ds) = f
  BY <1>2, <1>3, Min2Is
<1>5. CString!Min2(Len(p), ds - f - 1) = w
  BY <1>1, <1>3, Min2Is, PayloadFacts
<1>6. /\ f + Len(p) <= MaxUsize => sum = Ok(f + Len(p))
      /\ f + Len(p) > MaxUsize => sum = Overflow
  BY <1>1, <1>3, AddOk, PayloadFacts
<1>7. Ok(f + Len(p)) # Overflow /\ Ok(f + Len(p)).val = f + Len(p)
  BY DEF Ok, Overflow
<1>8. CASE sum = Overflow /\ AnswerOnly(op, p, n, LengthOverflow)
  <2>1. f + Len(p) > MaxUsize
    BY <1>3, <1>6, <1>7, <1>8, PayloadFacts, WidthAssumption DEF Usize
  <2>2. CString!Stays(op, p, n, CString!LengthOverflow)
    BY <1>8, KeptReads, SameAnswers
  <2>. QED
    BY <1>4, <2>1, <2>2 DEF CString!Append2
<1>9. CASE sum # Overflow /\ f = ds /\ AnswerOnly(op, p, n, Reported(0, sum.val, TRUE))
  <2>1. f + Len(p) <= MaxUsize /\ sum.val = f + Len(p)
    BY <1>3, <1>6, <1>7, <1>9, PayloadFacts, WidthAssumption DEF Usize
  <2>2. PICK res : res = Reported(0, sum.val, TRUE)
    OBVIOUS
  <2>3. AnswerOnly(op, p, n, res) /\ res = CString!Reported(0, ds + Len(p), TRUE)
    BY <1>9, <2>1, <2>2 DEF Reported, CString!Reported
  <2>4. CString!Stays(op, p, n, res)
    BY <2>3, KeptReads
  <2>. QED
    BY <1>4, <1>9, <2>1, <2>3, <2>4 DEF CString!Append2
<1>10. CASE sum # Overflow /\ f < ds /\ buf' = PutString(buf, f, p, w)
            /\ Answer(op, p, n, Reported(w, sum.val, sum.val >= ds))
  <2>1. f + Len(p) <= MaxUsize /\ sum.val = f + Len(p)
    BY <1>3, <1>6, <1>7, <1>10, PayloadFacts, WidthAssumption DEF Usize
  <2>2. f = l
    BY <1>3, <1>10 DEF Least
  <2>3. /\ w \in Nat /\ f + w < cap /\ w <= Len(p) /\ \A x \in 1 .. w : p[x] # 0
        /\ (f + Len(p) >= ds) = (w < Len(p))
    <3>1. PICK k \in Nat : k = Len(p)
      BY PayloadFacts
    <3>2. /\ w = IF ds - f - 1 < k THEN ds - f - 1 ELSE k
          /\ f \in Nat /\ f < ds /\ ds \in Nat /\ ds <= cap /\ cap \in Nat
      BY <1>1, <1>3, <1>10, <3>1, StateFacts DEF Least
    <3>3. w \in Nat /\ f + w < cap /\ w <= k /\ (f + k >= ds <=> w < k)
      BY <3>2
    <3>. QED
      BY <3>1, <3>3, PayloadFacts
  <2>4. PICK res : res = Reported(w, sum.val, w < Len(p))
    OBVIOUS
  <2>5. Answer(op, p, n, res) /\ res = CString!Reported(w, l + Len(p), w < Len(p))
    BY <1>10, <2>1, <2>2, <2>3, <2>4 DEF Reported, CString!Reported
  <2>6. CString!Becomes(Content(buf, cap) \o CString!First(p, w), op, p, n, res)
    <3>1. FirstNul(buf, cap) + w < cap /\ buf' = PutString(buf, FirstNul(buf, cap), p, w)
      BY <1>2, <1>10, <2>2, <2>3
    <3>. QED
      BY <2>3, <2>5, <3>1, PayloadFacts, AppendBecomes
  <2>. QED
    BY <1>2, <1>4, <1>5, <1>10, <2>1, <2>5, <2>6 DEF CString!Append2
<1>. QED
  BY <1>1, <1>8, <1>9, <1>10 DEF AppendWithin

LEMMA AppendIntoReads ==
  ASSUME TypeOK, NEW p \in Payload, AppendInto(p)
  PROVE  CString!AppendInto(p)
<1>1. cap \in 0 .. cap
  BY StateFacts
<1>. QED
  BY <1>1, AppendReads DEF AppendInto, CString!AppendInto

LEMMA StrLCatReads ==
  ASSUME TypeOK, NEW p \in Payload, NEW n \in Count, StrLCat(p, n)
  PROVE  CString!StrLCat(p, n)
<1>1. PICK d \in 0 .. cap : d = Least(n, cap) /\ d = CString!Min2(n, cap)
  <2>1. n \in Nat /\ cap \in Nat /\ n \in Int /\ cap \in Int
    BY StateFacts, CountFacts
  <2>2. Least(n, cap) \in 0 .. cap
    BY <2>1, LeastFacts
  <2>. QED
    BY <2>1, <2>2, Min2Is
<1>2. AppendWithin("strlcat", p, n, d)
  BY <1>1 DEF StrLCat
<1>3. CString!Append2("strlcat", p, n, d)
  BY <1>2, AppendReads
<1>. QED
  BY <1>1, <1>3 DEF CString!StrLCat

LEMMA CatNeedType ==
  ASSUME NEW f \in Usize, NEW m \in Usize, NEW c \in Usize
  PROVE  CatNeed(f, m, c) \in Usize
<1>1. ASSUME NEW a \in Usize, NEW b \in Usize, NEW e \in Usize
      PROVE  OkOr(CheckedAdd(a, b), e) \in Usize
  <2>1. CASE a + b <= MaxUsize
    <3>1. CheckedAdd(a, b) = Ok(a + b) /\ a + b \in Usize
      BY <2>1, AddOk, WidthAssumption DEF Usize
    <3>. QED
      BY <3>1 DEF OkOr, Ok
  <2>2. CASE a + b > MaxUsize
    <3>1. CheckedAdd(a, b) = Overflow
      BY <2>2, AddOk
    <3>. QED
      BY <3>1 DEF OkOr, Overflow
  <2>. QED
    BY <2>1, <2>2, WidthAssumption DEF Usize
<1>2. PICK a \in Usize : a = OkOr(CheckedAdd(f, m), c)
  BY <1>1
<1>3. Wrap(c + 1) \in Usize
  BY WrapType, WidthAssumption DEF Usize
<1>4. CASE MaxUsize = 0
  <2>1. 1 \notin Usize /\ c = 0 /\ a = 0
    BY <1>2, <1>4 DEF Usize
  <2>2. OkOr(CheckedAdd(a, 1), Wrap(c + 1)) \in Usize
    BY <1>3, <1>4, <2>1 DEF CheckedAdd, OkOr, Ok, Overflow, Wrap, Usize
  <2>. QED
    BY <1>2, <2>2 DEF CatNeed
<1>5. CASE MaxUsize # 0
  <2>1. 1 \in Usize
    BY <1>5, WidthAssumption DEF Usize
  <2>2. OkOr(CheckedAdd(a, 1), Wrap(c + 1)) \in Usize
    BY <1>1, <1>3, <2>1
  <2>. QED
    BY <1>2, <2>2 DEF CatNeed
<1>. QED
  BY <1>4, <1>5

\* A refusal that finds no NUL: any need.
LEMMA UnterminatedReads ==
  ASSUME TypeOK, NEW op, NEW s, NEW n, NEW t, NEW need \in Usize,
         FirstNul(buf, cap) = cap, AnswerOnly(op, s, n, TooSmall(need, cap))
  PROVE  CString!Concat(op, s, n, t)
<1>1. CString!Stays(op, s, n, CString!TooSmall(need, cap))
  BY KeptReads, SameAnswers
<1>2. ~CString!Terminated
  BY CellFacts, StateFacts DEF CString!Terminated
<1>. QED
  BY <1>1, <1>2 DEF CString!Concat, Usize

LEMMA CatWholeReads ==
  ASSUME TypeOK, NEW op, NEW s \in Seq(Byte), NEW n, NEW m \in Usize, m <= Len(s),
         \A x \in 1 .. m : s[x] # 0,
         FirstNul(buf, cap) < cap, CatWhole(op, s, n, FirstNul(buf, cap), m)
  PROVE  CString!Concat(op, s, n, CString!First(s, m))
<1>1. PICK f, need : f = FirstNul(buf, cap) /\ need = CatNeed(f, m, cap)
  OBVIOUS
<1>2. /\ f \in Usize /\ f \in Nat /\ m \in Nat /\ f < cap
      /\ need \in Usize /\ need \in Nat /\ f = Len(Content(buf, cap))
  <2>1. f \in Usize /\ f \in Nat /\ m \in Nat /\ f < cap /\ cap \in Usize
    BY <1>1, StateFacts, WidthAssumption DEF Usize
  <2>2. need \in Usize
    BY <1>1, <2>1, CatNeedType
  <2>3. f = Len(Content(buf, cap))
    BY <1>1, CellFacts
  <2>. QED
    BY <2>1, <2>2, <2>3, WidthAssumption DEF Usize
<1>3. CString!Terminated
  BY <1>1, <1>2, CellFacts DEF CString!Terminated
<1>4. Len(CString!First(s, m)) = m
  BY <1>2, FirstFacts
<1>5. CASE need > cap /\ AnswerOnly(op, s, n, TooSmall(need, cap))
  <2>1. f + m >= cap
    <3>1. SUFFICES ASSUME f + m < cap PROVE FALSE
      BY <1>2, StateFacts
    <3>2. f + m + 1 <= MaxUsize
      BY <1>2, <3>1, StateFacts, WidthAssumption
    <3>3. need = f + m + 1
      BY <1>1, <1>2, <3>2, StateFacts, CatNeedFacts
    <3>. QED
      BY <1>2, <1>5, <3>1, <3>3, StateFacts
  <2>2. CString!Stays(op, s, n, CString!TooSmall(need, cap))
    BY <1>5, KeptReads, SameAnswers
  <2>3. need \in cap + 1 .. MaxUsize
    BY <1>2, <1>5, StateFacts, WidthAssumption DEF Usize
  <2>. QED
    BY <1>2, <1>3, <1>4, <2>1, <2>2, <2>3 DEF CString!Concat
<1>6. CASE need <= cap /\ buf' = PutString(buf, f, s, m) /\ Answer(op, s, n, Copied(m))
  <2>1. f + m < cap
    BY <1>1, <1>2, <1>6, StateFacts, CatNeedFacts
  <2>2. CString!Becomes(Content(buf, cap) \o CString!First(s, m), op, s, n, Copied(m))
    BY <1>1, <1>2, <1>6, <2>1, AppendBecomes
  <2>. QED
    BY <1>2, <1>3, <1>4, <2>1, <2>2, SameAnswers DEF CString!Concat
<1>. QED
  BY <1>1, <1>5, <1>6 DEF CatWhole

LEMMA StrCatReads ==
  ASSUME TypeOK, NEW p \in Payload, StrCat(p)
  PROVE  CString!StrCat(p)
<1>1. CASE FirstNul(buf, cap) = cap
           /\ AnswerOnly("strcat", p, 0, TooSmall(Wrap(cap + Len(p) + 1), cap))
  <2>1. PICK need \in Usize : need = Wrap(cap + Len(p) + 1)
    BY WrapType, StateFacts, PayloadFacts
  <2>. QED
    BY <1>1, <2>1, UnterminatedReads DEF CString!StrCat
<1>2. CASE FirstNul(buf, cap) < cap /\ CatWhole("strcat", p, 0, FirstNul(buf, cap), Len(p))
  <2>1. Len(p) <= Len(p)
    BY PayloadFacts
  <2>2. CString!Concat("strcat", p, 0, CString!First(p, Len(p)))
    BY <1>2, <2>1, PayloadFacts, CatWholeReads
  <2>. QED
    BY <2>2, PayloadFacts, FirstAll DEF CString!StrCat
<1>. QED
  BY <1>1, <1>2 DEF StrCat

LEMMA StrNCatReads ==
  ASSUME TypeOK, NEW s \in Source, NEW n \in Count, StrNCat(s, n)
  PROVE  CString!StrNCat(s, n)
<1>1. PICK m : m = BoundToNul(s, n)
  OBVIOUS
<1>2. m \in Usize /\ m <= Len(s) /\ \A x \in 1 .. m : s[x] # 0
  <2>1. /\ m \in 0 .. Least(n, Len(s)) /\ m <= n /\ m <= Len(s)
        /\ \A x \in 1 .. m : s[x] # 0
    BY <1>1, BoundFacts, SourceFacts, CountFacts
  <2>. QED
    BY <2>1, SourceFacts, CountFacts, LeastFacts, WidthAssumption DEF Usize
<1>3. CString!UpToNul(s, n) = CString!First(s, m)
  BY <1>1, UpToNulIs, SourceFacts, CountFacts
<1>4. CASE FirstNul(buf, cap) = cap
           /\ AnswerOnly("strncat", s, n, TooSmall(Wrap(cap + n + 1), cap))
  <2>1. PICK need \in Usize : need = Wrap(cap + n + 1)
    BY WrapType, StateFacts, CountFacts
  <2>. QED
    BY <1>4, <2>1, UnterminatedReads DEF CString!StrNCat
<1>5. CASE FirstNul(buf, cap) < cap /\ CatWhole("strncat", s, n, FirstNul(buf, cap), m)
  <2>1. CString!Concat("strncat", s, n, CString!First(s, m))
    BY <1>2, <1>5, SourceFacts, CatWholeReads
  <2>. QED
    BY <1>3, <2>1 DEF CString!StrNCat
<1>. QED
  BY <1>1, <1>4, <1>5 DEF StrNCat

LEMMA NCopyReads ==
  ASSUME TypeOK, NEW s \in Source, NEW n \in Count, NEW op, NEW res, NCopy(op, s, n, res)
  PROVE  CString!NCopy(op, s, n, res)
<1>1. PICK stop \in Nat : /\ stop = BoundToNul(s, n) /\ stop <= n /\ stop <= Len(s)
                          /\ \A x \in 1 .. stop : s[x] # 0
  <2>1. n \in Nat /\ Len(s) \in Nat
    BY CountFacts, SourceFacts
  <2>2. /\ BoundToNul(s, n) \in 0 .. Least(n, Len(s)) /\ Least(n, Len(s)) \in Nat
        /\ BoundToNul(s, n) <= n /\ BoundToNul(s, n) <= Len(s)
        /\ \A x \in 1 .. BoundToNul(s, n) : s[x] # 0
    BY <2>1, BoundFacts, LeastFacts
  <2>. QED
    BY <2>1, <2>2
<1>2. PICK t : t = CString!First(s, stop)
  OBVIOUS
<1>3. t \in Seq(Byte) /\ Len(t) = stop /\ \A i \in 1 .. stop : t[i] = s[i]
  BY <1>1, <1>2, FirstFacts, SourceFacts
<1>4. CString!UpToNul(s, n) = t
  BY <1>1, <1>2, UpToNulIs, SourceFacts, CountFacts
<1>5. CASE n > cap /\ AnswerOnly(op, s, n, TooSmall(n, cap))
  <2>1. CString!Stays(op, s, n, CString!TooSmall(n, cap))
    BY <1>5, KeptReads, SameAnswers
  <2>. QED
    BY <1>5, <2>1 DEF CString!NCopy
<1>6. CASE n <= cap /\ buf' = Pad(Put(buf, 0, s, stop), stop, n, 0) /\ Answer(op, s, n, res)
  <2>1. CString!Says(op, s, n, res) /\ cap' = cap
    BY <1>6, AnswerReads
  <2>2. 0 + stop <= cap /\ 0 \in Nat /\ n \in Nat /\ stop <= cap
    BY <1>1, <1>6, CountFacts, StateFacts
  <2>3. PICK p \in [0 .. cap - 1 -> Byte] :
          /\ p = Put(buf, 0, s, stop)
          /\ \A x \in 0 .. cap - 1 :
               p[x] = IF x \in 0 .. 0 + stop - 1 THEN s[x - 0 + 1] ELSE buf[x]
    <3>1. /\ Put(buf, 0, s, stop) \in [0 .. cap - 1 -> Byte]
          /\ \A x \in 0 .. cap - 1 :
               Put(buf, 0, s, stop)[x] = IF x \in 0 .. 0 + stop - 1 THEN s[x - 0 + 1] ELSE buf[x]
      BY <1>1, <2>2, SourceFacts, PutFacts
    <3>. QED
      BY <3>1
  <2>4. DOMAIN p \cup stop .. n - 1 = 0 .. cap - 1
    BY <1>1, <1>6, <2>2, CountFacts, StateFacts
  <2>5. buf' = Pad(p, stop, n, 0)
    BY <1>6, <2>3
  <2>6. PICK q : q = buf'
    OBVIOUS
  <2>7. q = [x \in 0 .. cap - 1 |-> IF x \in stop .. n - 1 THEN 0 ELSE p[x]]
    BY <2>4, <2>5, <2>6 DEF Pad
  <2>8. CASE stop < n
    <3>1. t \in Seq(Chars)
      BY <1>1, <1>3 DEF Chars
    <3>2. ASSUME NEW i \in 1 .. Len(t) PROVE q[i - 1] = t[i]
      <4>1. PICK x \in 0 .. cap - 1 : /\ x = i - 1 /\ x \in 0 .. 0 + stop - 1
                                      /\ x \notin stop .. n - 1 /\ x - 0 + 1 = i
        BY <1>3, <2>2, StateFacts
      <4>2. q[x] = s[i]
        BY <2>3, <2>7, <4>1
      <4>. QED
        BY <1>3, <4>1, <4>2
    <3>3. cap \in Nat /\ Len(t) <= cap /\ (Len(t) < cap => q[Len(t)] = 0)
      <4>1. stop \in 0 .. cap - 1 /\ stop \in stop .. n - 1
        BY <1>6, <2>2, <2>8, StateFacts
      <4>2. q[stop] = 0
        BY <2>7, <4>1
      <4>. QED
        BY <1>3, <2>2, <4>2, StateFacts
    <3>4. \A i \in 1 .. Len(t) : q[i - 1] = t[i]
      BY <3>2
    <3>5. Content(q, cap) = t
      BY <3>1, <3>3, <3>4, ReadsAs, Zenon
    <3>6. CString!Becomes(t, op, s, n, res)
      BY <2>1, <2>6, <3>5 DEF CString!Becomes
    <3>. QED
      BY <1>3, <1>4, <1>6, <2>8, <3>6 DEF CString!NCopy
  <2>9. CASE stop = n
    <3>1. stop .. n - 1 = {}
      BY <2>2, <2>9
    <3>2. q = p
      BY <2>7, <3>1
    <3>3. buf' = Put(buf, 0, s, stop)
      BY <2>3, <2>6, <3>2
    <3>4. CString!Overlay(t)
      BY <1>1, <1>2, <2>1, <2>2, <3>3, SourceFacts, FrontReads
    <3>. QED
      BY <1>3, <1>4, <1>6, <2>1, <2>9, <3>4 DEF CString!NCopy
  <2>. QED
    BY <1>1, <2>2, <2>8, <2>9
<1>. QED
  BY <1>1, <1>5, <1>6 DEF NCopy

LEMMA StrNCpyReads ==
  ASSUME TypeOK, NEW s \in Source, NEW n \in Count, StrNCpy(s, n)
  PROVE  CString!StrNCpy(s, n)
BY NCopyReads, SameAnswers DEF StrNCpy, CString!StrNCpy

LEMMA StpNCpyReads ==
  ASSUME TypeOK, NEW s \in Source, NEW n \in Count, StpNCpy(s, n)
  PROVE  CString!StpNCpy(s, n)
<1>1. PICK m \in Nat : m = BoundToNul(s, n) /\ m <= Len(s)
  BY BoundFacts, SourceFacts, CountFacts, LeastFacts
<1>2. Len(CString!UpToNul(s, n)) = m
  BY <1>1, UpToNulIs, FirstFacts, SourceFacts, CountFacts
<1>3. CString!NCopy("stpncpy", s, n, EndAt(m))
  BY <1>1, NCopyReads DEF StpNCpy
<1>. QED
  BY <1>2, <1>3, SameAnswers DEF CString!StpNCpy

LEMMA MemCpyReads ==
  ASSUME TypeOK, NEW s \in Source, NEW n \in Count, MemCpy(s, n)
  PROVE  CString!MemCpy(s, n)
<1>1. CASE n > cap /\ AnswerOnly("memcpy", s, n, TooSmall(n, cap))
  <2>1. CString!Stays("memcpy", s, n, CString!TooSmall(n, cap))
    BY <1>1, KeptReads, SameAnswers
  <2>. QED
    BY <1>1, <2>1 DEF CString!MemCpy
<1>2. CASE n <= cap /\ n > Len(s) /\ AnswerOnly("memcpy", s, n, TooSmall(n, Len(s)))
  <2>1. CString!Stays("memcpy", s, n, CString!TooSmall(n, Len(s)))
    BY <1>2, KeptReads, SameAnswers
  <2>. QED
    BY <1>2, <2>1 DEF CString!MemCpy
<1>3. CASE n <= cap /\ n <= Len(s) /\ buf' = Put(buf, 0, s, n) /\ Answer("memcpy", s, n, Copied(n))
  <2>1. CString!Says("memcpy", s, n, CString!Copied(n)) /\ cap' = cap
    BY <1>3, AnswerReads, SameAnswers
  <2>2. CString!Overlay(CString!First(s, n))
    BY <1>3, <2>1, SourceFacts, CountFacts, FrontReads
  <2>. QED
    BY <1>3, <2>1, <2>2 DEF CString!MemCpy
<1>. QED
  BY <1>1, <1>2, <1>3 DEF MemCpy

LEMMA MemCCpyReads ==
  ASSUME TypeOK, NEW s \in Source, NEW stop \in Byte, NEW n \in Count, MemCCpy(s, stop, n)
  PROVE  CString!MemCCpy(s, stop, n)
<1>1. PICK e \in Nat : e = StopEnd(s, stop, n) /\ e <= n /\ e <= Len(s)
  BY StopFacts, SourceFacts, CountFacts
<1>2. PICK w : w = CString!First(s, e)
  OBVIOUS
<1>3. Len(w) = e /\ \A i \in 1 .. e : w[i] = s[i]
  BY <1>1, <1>2, FirstFacts, SourceFacts
<1>4. /\ CString!Through(s, stop, n) = w
      /\ (\E i \in 1 .. e : s[i] = stop) <=> e > 0 /\ s[e] = stop
  BY <1>1, <1>2, ThroughIs, SourceFacts, CountFacts
<1>5. (\E i \in 1 .. Len(w) : w[i] = stop) <=> e > 0 /\ s[e] = stop
  BY <1>3, <1>4
<1>6. CASE n > cap /\ AnswerOnly("memccpy", s, n, Memccpy(0, FALSE))
  <2>1. PICK res : res = Memccpy(0, FALSE)
    OBVIOUS
  <2>2. AnswerOnly("memccpy", s, n, res) /\ res = CString!Memccpy(0, FALSE)
    BY <1>6, <2>1 DEF Memccpy, CString!Memccpy
  <2>3. CString!Stays("memccpy", s, n, res)
    BY <2>2, KeptReads
  <2>. QED
    BY <1>6, <2>2, <2>3 DEF CString!MemCCpy
<1>7. CASE n <= cap /\ buf' = Put(buf, 0, s, e)
           /\ Answer("memccpy", s, n, Memccpy(e, e > 0 /\ s[e] = stop))
  <2>1. PICK res : res = Memccpy(e, e > 0 /\ s[e] = stop)
    OBVIOUS
  <2>2. /\ Answer("memccpy", s, n, res)
        /\ res = CString!Memccpy(Len(w), \E i \in 1 .. Len(w) : w[i] = stop)
    BY <1>3, <1>5, <1>7, <2>1 DEF Memccpy, CString!Memccpy
  <2>3. CString!Says("memccpy", s, n, res) /\ cap' = cap
    BY <2>2, AnswerReads
  <2>4. e <= cap /\ ~(n > cap)
    BY <1>1, <1>7, CountFacts, StateFacts
  <2>5. CString!Overlay(w)
    BY <1>1, <1>2, <1>7, <2>3, <2>4, SourceFacts, FrontReads
  <2>. QED
    BY <1>4, <2>2, <2>3, <2>4, <2>5 DEF CString!MemCCpy
<1>. QED
  BY <1>1, <1>6, <1>7 DEF MemCCpy

LEMMA CopyReads ==
  ASSUME TypeOK, NEW s \in Source, Copy(s)
  PROVE  CString!Copy(s)
<1>1. PICK w \in Nat : w = Len(s) /\ CString!First(s, w) = s
  BY SourceFacts, FirstAll
<1>2. CASE cap < w /\ AnswerOnly("copy", s, 0, TooSmall(w, cap))
  <2>1. CString!Stays("copy", s, 0, CString!TooSmall(w, cap))
    BY <1>2, KeptReads, SameAnswers
  <2>. QED
    BY <1>1, <1>2, <2>1, StateFacts DEF CString!Copy
<1>3. CASE cap >= w /\ buf' = Put(buf, 0, s, w) /\ Answer("copy", s, 0, Copied(w))
  <2>1. CString!Says("copy", s, 0, CString!Copied(w)) /\ cap' = cap
    BY <1>3, AnswerReads, SameAnswers
  <2>2. w <= cap /\ w <= Len(s) /\ ~(w > cap)
    BY <1>1, <1>3, StateFacts
  <2>3. CString!Overlay(CString!First(s, w))
    BY <1>3, <2>1, <2>2, SourceFacts, FrontReads
  <2>. QED
    BY <1>1, <2>1, <2>2, <2>3 DEF CString!Copy
<1>. QED
  BY <1>1, <1>2, <1>3 DEF Copy

LEMMA CopyPrefixReads ==
  ASSUME TypeOK, NEW s \in Source, CopyPrefix(s)
  PROVE  CString!CopyPrefix(s)
<1>1. PICK w \in Nat : w = Least(Len(s), cap) /\ w <= Len(s) /\ w <= cap
  BY LeastFacts, SourceFacts, StateFacts
<1>2. CString!Min2(Len(s), cap) = w /\ (cap < Len(s) <=> w < Len(s))
  BY <1>1, Min2Is, SourceFacts, StateFacts DEF Least
<1>3. PICK t : t = CString!First(s, w) /\ Len(t) = w
  BY <1>1, FirstFacts, SourceFacts
<1>4. PICK res : res = Report(w, Len(s), cap < Len(s))
  OBVIOUS
<1>5. buf' = Put(buf, 0, s, w) /\ Answer("copy_prefix", s, 0, res)
  BY <1>1, <1>4 DEF CopyPrefix
<1>6. res = CString!Report(Len(t), Len(s), Len(t) < Len(s))
  BY <1>2, <1>3, <1>4 DEF Report, CString!Report
<1>7. CString!Says("copy_prefix", s, 0, res) /\ cap' = cap
  BY <1>5, AnswerReads
<1>8. CString!Overlay(t)
  BY <1>1, <1>3, <1>5, <1>7, SourceFacts, FrontReads
<1>. QED
  BY <1>2, <1>3, <1>6, <1>7, <1>8 DEF CString!CopyPrefix

LEMMA StrXfrmReads ==
  ASSUME TypeOK, NEW p \in Payload, StrXfrm(p)
  PROVE  CString!StrXfrm(p)
<1>1. PICK w \in Nat : w = Len(p) /\ CString!First(p, w) = p
  BY PayloadFacts, FirstAll
<1>2. CASE w > cap /\ AnswerOnly("strxfrm", p, 0, KeyTooBig(w))
  <2>1. CString!Stays("strxfrm", p, 0, CString!KeyTooBig(w))
    BY <1>2, KeptReads, SameAnswers
  <2>. QED
    BY <1>1, <1>2, <2>1 DEF CString!StrXfrm
<1>3. CASE w <= cap /\ buf' = Put(buf, 0, p, w) /\ Answer("strxfrm", p, 0, Written(w))
  <2>1. CString!Says("strxfrm", p, 0, CString!Written(w)) /\ cap' = cap
    BY <1>3, AnswerReads, SameAnswers
  <2>2. w <= cap /\ w <= Len(p) /\ ~(w > cap)
    BY <1>1, <1>3, StateFacts
  <2>3. CString!Overlay(CString!First(p, w))
    BY <1>3, <2>1, <2>2, PayloadFacts, FrontReads
  <2>. QED
    BY <1>1, <2>1, <2>2, <2>3 DEF CString!StrXfrm
<1>. QED
  BY <1>1, <1>2, <1>3 DEF StrXfrm

LEMMA StrXfrmNamedReads ==
  ASSUME NEW p \in Payload, StrXfrmNamed(p)
  PROVE  CString!StrXfrmNamed(p)
BY KeptReads, SameAnswers DEF StrXfrmNamed, CString!StrXfrmNamed

LEMMA RequireCStrReads ==
  ASSUME TypeOK, RequireCStr
  PROVE  CString!RequireCStr
<1>1. CString!Terminated <=> FirstNul(buf, cap) < cap
  BY CellFacts DEF CString!Terminated
<1>2. CASE FirstNul(buf, cap) = cap /\ AnswerOnly("require_cstr", <<>>, 0, NoTerminator)
  <2>1. ~CString!Terminated
    BY <1>1, <1>2, StateFacts
  <2>2. CString!Stays("require_cstr", <<>>, 0, CString!NoTerminator)
    BY <1>2, KeptReads, SameAnswers
  <2>. QED
    BY <2>1, <2>2 DEF CString!RequireCStr
<1>3. CASE FirstNul(buf, cap) < cap
           /\ AnswerOnly("require_cstr", <<>>, 0, View(Content(buf, cap)))
  <2>1. CString!Stays("require_cstr", <<>>, 0, CString!View(Content(buf, cap)))
    BY <1>3, KeptReads, SameAnswers
  <2>. QED
    BY <1>1, <1>3, <2>1 DEF CString!RequireCStr
<1>. QED
  BY <1>2, <1>3 DEF RequireCStr

LEMMA StrNLenReads ==
  ASSUME TypeOK, NEW n \in Count, StrNLen(n)
  PROVE  CString!StrNLen(n)
<1>1. PICK d \in 0 .. cap : d = Least(n, cap)
  <2>1. n \in Nat /\ cap \in Nat
    BY CountFacts, StateFacts
  <2>2. Least(n, cap) \in 0 .. cap
    BY <2>1, LeastFacts
  <2>. QED
    BY <2>2
<1>2. PICK l \in 0 .. cap : l = FirstNul(buf, cap) /\ l = Len(Content(buf, cap))
  BY StateFacts, CellFacts
<1>3. FirstNul(buf, d) = CString!Min2(n, l)
  <2>1. FirstNul(buf, d) = Least(l, d)
    BY <1>2, FirstNulLeast
  <2>2. n \in Int /\ l \in Int /\ CString!Min2(n, l) = Least(n, l)
    BY Min2Is, CountFacts, StateFacts
  <2>3. Least(l, d) = Least(n, l)
    BY <1>1, <1>2, CountFacts, StateFacts DEF Least
  <2>. QED
    BY <2>1, <2>2, <2>3
<1>4. AnswerOnly("strnlen", <<>>, n, Length(FirstNul(buf, d)))
  BY <1>1 DEF StrNLen
<1>5. CString!Stays("strnlen", <<>>, n, CString!Length(FirstNul(buf, d)))
  BY <1>4, KeptReads, SameAnswers
<1>. QED
  BY <1>2, <1>3, <1>5 DEF CString!StrNLen

LEMMA StepReads ==
  ASSUME TypeOK, Next
  PROVE  CString!Next
<1>1. CASE TakeAnswer
  <2>1. CString!TakeAnswer
    <3>1. Content(buf, cap)' = Content(buf, cap)
      BY <1>1 DEF TakeAnswer
    <3>. QED
      BY <1>1, <3>1, SameAnswers DEF TakeAnswer, CString!TakeAnswer
  <2>. QED
    BY <2>1 DEF CString!Next
<1>2. CASE EmptyBuffer \/ RequireCStr
  BY <1>2, EmptyBufferReads, RequireCStrReads DEF CString!Next
<1>3. CASE (\E v \in Byte : Fill(v)) \/ (\E n \in Count : StrNLen(n))
  BY <1>3, FillReads, StrNLenReads DEF CString!Next
<1>4. CASE \E p \in Payload :
             \/ CopyInto(p) \/ AppendInto(p) \/ StrCpy(p) \/ StpCpy(p)
             \/ StrCat(p) \/ StrXfrm(p) \/ StrXfrmNamed(p)
             \/ \E n \in Count : StrLCat(p, n)
  BY <1>4, CopyIntoReads, AppendIntoReads, StrCpyReads, StpCpyReads, StrCatReads, StrXfrmReads,
     StrXfrmNamedReads, StrLCatReads DEF CString!Next
<1>5. CASE \E s \in Source :
             \/ Copy(s) \/ CopyPrefix(s)
             \/ \E n \in Count :
                  \/ StrNCat(s, n) \/ StrNCpy(s, n) \/ StpNCpy(s, n) \/ MemCpy(s, n)
                  \/ \E stop \in Byte : MemCCpy(s, stop, n)
  BY <1>5, CopyReads, CopyPrefixReads, StrNCatReads, StrNCpyReads, StpNCpyReads, MemCpyReads,
     MemCCpyReads DEF CString!Next
<1>. QED
  BY <1>1, <1>2, <1>3, <1>4, <1>5 DEF Next

\* CSTR-010..017 and the contracts of the C23 and POSIX names: to a reader of C
\* strings the storage is the cell, and every call has the effect and the answer
\* the cell gives it, whatever the capacity, the bytes and the calls before.
THEOREM StorageIsACString == Spec => CStringSpec
<1>1. Init => CString!Init
  <2>. SUFFICES ASSUME Init PROVE CString!Init
    OBVIOUS
  <2>1. TypeOK /\ cap \in 0 .. MaxCap /\ last = NoAnswer
    BY InitSound DEF Init
  <2>2. Content(buf, cap) \in Seq(CString!Char) /\ Len(Content(buf, cap)) <= cap
    BY <2>1, CellFacts, StateFacts DEF Chars, CString!Char
  <2>. QED
    BY <2>1, <2>2, SameAnswers DEF CString!Init
<1>2. TypeOK /\ [Next]_vars => [CString!Next]_(CString!vars)
  <2>1. TypeOK /\ Next => CString!Next
    BY StepReads
  <2>2. UNCHANGED vars => UNCHANGED CString!vars
    <3>1. UNCHANGED vars => Content(buf, cap)' = Content(buf, cap)
      BY DEF vars
    <3>. QED
      BY <3>1 DEF vars, CString!vars
  <2>. QED
    BY <2>1, <2>2
<1>. QED
  BY <1>1, <1>2, StorageHolds, PTL DEF Spec, CStringSpec, CString!Spec
=============================================================================
