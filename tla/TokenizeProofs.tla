--------------------------- MODULE TokenizeProofs ---------------------------
(* Proofs about the tokenizer, alone and beside C's, for any number of        *)
(* callers, any text and any separator sets.                                  *)
EXTENDS StrtokInC, WellFoundedInduction, TLAPS

\* The least-number principle.
LEMMA LeastElement ==
  ASSUME NEW T \in SUBSET Nat, T # {}
  PROVE  \E x \in T : \A y \in T : x <= y
<1>. DEFINE R == OpToRel(<, Nat)
<1>1. IsWellFoundedOn(R, Nat)
  BY NatLessThanWellFounded
<1>2. PICK x \in T : \A y \in T : ~(<<y, x>> \in R)
  <2>. HIDE DEF R
  <2>. QED
    BY <1>1, WFMin
<1>3. \A y \in T : ~(y < x)
  BY <1>2 DEF OpToRel
<1>. QED
  BY <1>3

\* A scan from i to n that stops at the first member of Hit, or at n.
LEMMA ScanStops ==
  ASSUME NEW i \in Nat, NEW n \in Nat, i <= n, NEW Hit
  PROVE  \E j \in i .. n : /\ \A x \in i .. j - 1 : x \notin Hit
                           /\ j < n => j \in Hit
<1>. DEFINE T == {x \in i .. n : x \in Hit \/ x = n}
<1>1. T \in SUBSET Nat /\ n \in T
  OBVIOUS
<1>2. PICK j \in T : \A y \in T : j <= y
  <2>. HIDE DEF T
  <2>. QED
    BY <1>1, LeastElement
<1>3. j \in i .. n /\ (j < n => j \in Hit)
  OBVIOUS
<1>4. ASSUME NEW x \in i .. j - 1 PROVE x \notin Hit
  <2>1. x \in i .. n /\ x < j
    BY <1>3
  <2>2. x \notin T
    BY <1>2, <1>3, <2>1
  <2>. QED
    BY <2>1, <2>2
<1>. QED
  BY <1>3, <1>4

IInv == TypeOK /\ TokensMaximal /\ NothingLost

LEMMA TextLength ==
  ASSUME TypeOK
  PROVE  N \in Nat /\ text \in Seq(Byte)
BY TokenizeAssumption DEF TypeOK, N

\* The first loop of next ends at the first byte outside S, or at the end.
LEMMA SkipStops ==
  ASSUME N \in Nat, NEW S, NEW i \in 0 .. N
  PROVE  /\ Skip(S, i) \in i .. N
         /\ \A x \in i .. Skip(S, i) - 1 : At(x) \in S
         /\ Skip(S, i) < N => At(Skip(S, i)) \notin S
<1>. DEFINE Hit == {x \in 0 .. N - 1 : At(x) \notin S}
<1>1. \E j \in i .. N : /\ \A x \in i .. j - 1 : x \notin Hit
                        /\ j < N => j \in Hit
  <2>1. i \in Nat /\ i <= N
    OBVIOUS
  <2>. HIDE DEF Hit
  <2>. QED
    BY <2>1, ScanStops
<1>2. \E j \in i .. N : /\ \A x \in i .. j - 1 : At(x) \in S
                        /\ j < N => At(j) \notin S
  BY <1>1
<1>. QED
  BY <1>2 DEF Skip

\* The second loop ends at the first byte in S, or at the end.
LEMMA ScanStopsAt ==
  ASSUME N \in Nat, NEW S, NEW i \in 0 .. N
  PROVE  /\ Scan(S, i) \in i .. N
         /\ \A x \in i .. Scan(S, i) - 1 : At(x) \notin S
         /\ Scan(S, i) < N => At(Scan(S, i)) \in S
<1>. DEFINE Hit == {x \in 0 .. N - 1 : At(x) \in S}
<1>1. \E j \in i .. N : /\ \A x \in i .. j - 1 : x \notin Hit
                        /\ j < N => j \in Hit
  <2>1. i \in Nat /\ i <= N
    OBVIOUS
  <2>. HIDE DEF Hit
  <2>. QED
    BY <2>1, ScanStops
<1>2. \E j \in i .. N : /\ \A x \in i .. j - 1 : At(x) \notin S
                        /\ j < N => At(j) \in S
  BY <1>1
<1>. QED
  BY <1>2 DEF Scan

-----------------------------------------------------------------------------
LEMMA InitIInv == Init => IInv
<1>. SUFFICES ASSUME Init PROVE IInv
  OBVIOUS
<1>1. N \in Nat
  BY TokenizeAssumption DEF Init, N
<1>2. \A c \in Caller : toks[c] = <<>> /\ cursor[c] = [pos |-> 0, complete |-> FALSE]
  BY DEF Init
<1>3. TypeOK
  BY <1>1 DEF Init, TypeOK
<1>4. TokensMaximal
  BY <1>2 DEF TokensMaximal
<1>5. NothingLost
  <2>. SUFFICES ASSUME NEW c \in Caller
       PROVE LET last == Len(toks[c]) IN
             /\ \A k \in 1 .. last :
                  toks[c][k].from = IF k = 1 THEN 0 ELSE toks[c][k - 1].end
             /\ cursor[c].pos = IF last = 0 THEN 0 ELSE toks[c][last].end
             /\ cursor[c].complete =>
                  \A x \in cursor[c].pos .. N - 1 : At(x) \in seps[c]
    BY DEF NothingLost
  <2>1. Len(<<>>) = 0
    OBVIOUS
  <2>2. Len(toks[c]) = 0
    BY <1>2, <2>1
  <2>3. cursor[c].pos = 0 /\ ~cursor[c].complete
    BY <1>2
  <2>. QED
    BY <2>2, <2>3
<1>. QED
  BY <1>3, <1>4, <1>5 DEF IInv

\* Handing caller c the token t keeps the invariant, when t begins where the
\* cursor stands and is a maximal run of the set it was asked for.
LEMMA EmitIInv ==
  ASSUME IInv, NEW c \in Caller,
         NEW start \in 0 .. N, NEW end \in 0 .. N,
         ~cursor[c].complete,
         cursor[c].pos <= start, start < end,
         \A x \in cursor[c].pos .. start - 1 : At(x) \in seps[c],
         \A x \in start .. end - 1 : At(x) \notin seps[c],
         end < N => At(end) \in seps[c],
         Emit(c, start, end, end),
         UNCHANGED <<text, seps>>
  PROVE  IInv'
<1>. DEFINE t == [from |-> cursor[c].pos, start |-> start, end |-> end, seps |-> seps[c]]
<1>1. N \in Nat /\ N' = N /\ text' = text
  BY TextLength DEF IInv, N
<1>2. cursor[c].pos \in 0 .. N /\ seps[c] \in Separators /\ toks[c] \in Seq(Tokens)
  BY DEF IInv, TypeOK
<1>3. t \in Tokens /\ Tokens' = Tokens
  BY <1>1, <1>2 DEF Tokens
<1>4. /\ cursor' = [cursor EXCEPT ![c].pos = end]
      /\ toks' = [toks EXCEPT ![c] = Append(@, t)]
  BY DEF Emit, Token
<1>5. \A d \in Caller : toks'[d] = IF d = c THEN Append(toks[c], t) ELSE toks[d]
  BY <1>4 DEF IInv, TypeOK
<1>6. \A d \in Caller : cursor'[d] = IF d = c THEN [cursor[c] EXCEPT !.pos = end] ELSE cursor[d]
  BY <1>4 DEF IInv, TypeOK
<1>7. /\ cursor'[c].pos = end
      /\ ~cursor'[c].complete
  BY <1>6 DEF IInv, TypeOK
<1>. HIDE DEF t
<1>8. /\ Len(Append(toks[c], t)) = Len(toks[c]) + 1
      /\ Append(toks[c], t)[Len(toks[c]) + 1] = t
      /\ \A k \in 1 .. Len(toks[c]) : Append(toks[c], t)[k] = toks[c][k]
      /\ Len(toks[c]) \in Nat
      /\ DOMAIN Append(toks[c], t) = 1 .. Len(toks[c]) + 1
      /\ DOMAIN toks[c] = 1 .. Len(toks[c])
      /\ Append(toks[c], t) \in Seq(Tokens)
  BY <1>2, <1>3
<1>9. TypeOK'
  <2>1. cursor' \in [Caller -> [pos : 0 .. N, complete : BOOLEAN]]
    BY <1>4 DEF IInv, TypeOK
  <2>2. toks' \in [Caller -> Seq(Tokens)]
    BY <1>4, <1>8 DEF IInv, TypeOK
  <2>. QED
    BY <1>1, <1>3, <2>1, <2>2 DEF IInv, TypeOK
<1>10. TokensMaximal'
  <2>. SUFFICES ASSUME NEW d \in Caller, NEW k \in DOMAIN toks'[d]
       PROVE LET u == toks'[d][k] IN
             /\ u.from <= u.start /\ u.start < u.end /\ u.end <= N
             /\ \A x \in u.from .. u.start - 1 : At(x) \in u.seps
             /\ \A x \in u.start .. u.end - 1 : At(x) \notin u.seps
             /\ u.end < N => At(u.end) \in u.seps
    BY <1>1 DEF TokensMaximal, Gap, Body, At
  <2>1. CASE d = c /\ k = Len(toks[c]) + 1
    <3>1. toks'[d][k] = t
      BY <1>5, <1>8, <2>1
    <3>. QED
      BY <1>1, <3>1 DEF t
  <2>2. CASE ~(d = c /\ k = Len(toks[c]) + 1)
    <3>1. CASE d = c
      <4>1. toks'[d] = Append(toks[c], t)
        BY <1>5, <3>1
      <4>2. k \in 1 .. Len(toks[c]) + 1 /\ k # Len(toks[c]) + 1
        BY <1>8, <2>2, <3>1, <4>1
      <4>3. k \in 1 .. Len(toks[c])
        BY <1>8, <4>2
      <4>. QED
        BY <1>8, <3>1, <4>1, <4>3 DEF IInv, TokensMaximal, Gap, Body
    <3>2. CASE d # c
      <4>1. toks'[d] = toks[d]
        BY <1>5, <3>2
      <4>. QED
        BY <4>1 DEF IInv, TokensMaximal, Gap, Body
    <3>. QED
      BY <3>1, <3>2
  <2>. QED
    BY <2>1, <2>2
<1>11. NothingLost'
  <2>. SUFFICES ASSUME NEW d \in Caller
       PROVE /\ \A k \in 1 .. Len(toks'[d]) :
                  toks'[d][k].from = IF k = 1 THEN 0 ELSE toks'[d][k - 1].end
             /\ cursor'[d].pos = IF Len(toks'[d]) = 0 THEN 0
                                 ELSE toks'[d][Len(toks'[d])].end
             /\ cursor'[d].complete =>
                  \A x \in cursor'[d].pos .. N - 1 : At(x) \in seps[d]
    BY <1>1 DEF NothingLost, At
  <2>1. CASE d # c
    BY <1>5, <1>6, <2>1 DEF IInv, NothingLost
  <2>2. CASE d = c
    <3>1. toks'[d] = Append(toks[c], t) /\ Len(toks'[d]) = Len(toks[c]) + 1
      BY <1>5, <1>8, <2>2
    <3>2. t.from = IF Len(toks[c]) = 0 THEN 0 ELSE toks[c][Len(toks[c])].end
      BY DEF t, IInv, NothingLost
    <3>3. ASSUME NEW k \in 1 .. Len(toks[c]) + 1
          PROVE  Append(toks[c], t)[k].from
                   = IF k = 1 THEN 0 ELSE Append(toks[c], t)[k - 1].end
      <4>1. CASE k = Len(toks[c]) + 1
        BY <1>8, <3>2, <4>1
      <4>2. CASE k \in 1 .. Len(toks[c])
        <5>1. k = 1 \/ k - 1 \in 1 .. Len(toks[c])
          BY <1>8, <4>2
        <5>. QED
          BY <1>8, <4>2, <5>1 DEF IInv, NothingLost
      <4>. QED
        BY <1>8, <4>1, <4>2
    <3>4. t.end = end
      BY DEF t
    <3>. QED
      BY <1>7, <1>8, <2>2, <3>1, <3>3, <3>4
  <2>. QED
    BY <2>1, <2>2
<1>. QED
  BY <1>9, <1>10, <1>11 DEF IInv

\* Marking a cursor complete keeps it, when only separators are left.
LEMMA CompleteIInv ==
  ASSUME IInv, NEW c \in Caller,
         \A x \in cursor[c].pos .. N - 1 : At(x) \in seps[c],
         Complete(c),
         UNCHANGED <<text, seps>>
  PROVE  IInv'
<1>1. N' = N /\ text' = text /\ seps' = seps /\ toks' = toks
  BY DEF Complete, N
<1>2. \A d \in Caller : cursor'[d].pos = cursor[d].pos
  BY DEF Complete, IInv, TypeOK
<1>3. \A d \in Caller : d # c => cursor'[d] = cursor[d]
  BY DEF Complete, IInv, TypeOK
<1>4. TypeOK'
  BY <1>1 DEF Complete, IInv, TypeOK, Tokens
<1>5. TokensMaximal'
  BY <1>1 DEF IInv, TokensMaximal, Gap, Body, At
<1>6. NothingLost'
  BY <1>1, <1>2, <1>3 DEF IInv, NothingLost, At
<1>. QED
  BY <1>4, <1>5, <1>6 DEF IInv

\* One call of next: the two loops give a maximal run, or only separators.
LEMMA NextTokenIInv ==
  ASSUME IInv, NEW c \in Caller, NextToken(c)
  PROVE  IInv'
<1>. DEFINE S     == seps[c]
            from  == cursor[c].pos
            start == Skip(S, from)
            end   == Scan(S, start)
<1>1. N \in Nat /\ from \in 0 .. N
  BY TextLength DEF IInv, TypeOK
<1>2. /\ start \in from .. N
      /\ \A x \in from .. start - 1 : At(x) \in S
      /\ start < N => At(start) \notin S
  BY <1>1, SkipStops
<1>3. /\ end \in start .. N
      /\ \A x \in start .. end - 1 : At(x) \notin S
      /\ end < N => At(end) \in S
  <2>1. start \in 0 .. N
    BY <1>1, <1>2
  <2>. HIDE DEF start
  <2>. QED
    BY <1>1, <2>1, ScanStopsAt
<1>4. CASE from >= N /\ Complete(c)
  BY <1>1, <1>4, CompleteIInv DEF NextToken
<1>5. CASE from < N /\ S = {} /\ Emit(c, from, N, N)
  <2>1. N \in 0 .. N /\ (\A x \in from .. from - 1 : At(x) \in S)
    BY <1>1
  <2>. QED
    BY <1>1, <1>5, <2>1, EmitIInv DEF NextToken
<1>6. CASE from < N /\ S # {} /\ start >= N /\ Complete(c)
  <2>1. \A x \in from .. N - 1 : At(x) \in S
    BY <1>1, <1>2, <1>6
  <2>. QED
    BY <1>6, <2>1, CompleteIInv DEF NextToken
<1>7. CASE from < N /\ S # {} /\ start < N /\ Emit(c, start, end, end)
  <2>1. start \in 0 .. N /\ end \in 0 .. N /\ from <= start
    BY <1>1, <1>2, <1>3
  <2>2. start < end
    <3>. HIDE DEF start, end
    <3>. QED
      BY <1>1, <1>2, <1>3, <1>7, <2>1
  <2>. HIDE DEF start, end
  <2>. QED
    BY <1>2, <1>3, <1>7, <2>1, <2>2, EmitIInv DEF NextToken
<1>. QED
  BY <1>4, <1>5, <1>6, <1>7 DEF NextToken

LEMMA ChangeIInv ==
  ASSUME IInv, NEW c \in Caller, NEW S \in Separators, ChangeSeparators(c, S)
  PROVE  IInv'
<1>1. N' = N /\ text' = text /\ cursor' = cursor /\ toks' = toks
  BY DEF ChangeSeparators, N
<1>2. \A d \in Caller : d # c => seps'[d] = seps[d]
  BY DEF ChangeSeparators, IInv, TypeOK
<1>3. ~cursor[c].complete
  BY DEF ChangeSeparators
<1>4. TypeOK'
  BY <1>1 DEF ChangeSeparators, IInv, TypeOK, Tokens
<1>5. TokensMaximal'
  BY <1>1 DEF IInv, TokensMaximal, Gap, Body, At
<1>6. NothingLost'
  BY <1>1, <1>2, <1>3 DEF IInv, NothingLost, At
<1>. QED
  BY <1>4, <1>5, <1>6 DEF IInv

LEMMA NextIInv == IInv /\ [Next]_vars => IInv'
<1>. SUFFICES ASSUME IInv, [Next]_vars PROVE IInv'
  OBVIOUS
<1>1. ASSUME NEW c \in Caller, NextToken(c) PROVE IInv'
  BY <1>1, NextTokenIInv
<1>2. ASSUME NEW c \in Caller, NEW S \in Separators, ChangeSeparators(c, S) PROVE IInv'
  BY <1>2, ChangeIInv
<1>3. CASE UNCHANGED vars
  <2>1. text' = text /\ cursor' = cursor /\ seps' = seps /\ toks' = toks /\ N' = N
    BY <1>3 DEF vars, N
  <2>2. TypeOK'
    BY <2>1 DEF IInv, TypeOK, Tokens
  <2>3. TokensMaximal'
    BY <2>1 DEF IInv, TokensMaximal, Gap, Body, At
  <2>4. NothingLost'
    BY <2>1 DEF IInv, NothingLost, At
  <2>. QED
    BY <2>2, <2>3, <2>4 DEF IInv
<1>. QED
  BY <1>1, <1>2, <1>3 DEF Next

LEMMA Invariance == Spec => []IInv
<1>1. Init => IInv
  BY InitIInv
<1>2. IInv /\ [Next]_vars => IInv'
  BY NextIInv
<1>. QED
  BY <1>1, <1>2, PTL DEF Spec

-----------------------------------------------------------------------------
(* Independence.  Where a token starts and ends follows from where it was      *)
(* asked and with which set; where it was asked, from the token before it.     *)

Maximal(t) ==
  /\ t.from <= t.start /\ t.start < t.end /\ t.end <= N
  /\ \A x \in Gap(t) : At(x) \in t.seps
  /\ \A x \in Body(t) : At(x) \notin t.seps
  /\ t.end < N => At(t.end) \in t.seps

LEMMA Determined ==
  ASSUME N \in Nat, NEW t \in Tokens, NEW u \in Tokens, Maximal(t), Maximal(u),
         t.from = u.from, t.seps = u.seps
  PROVE  t = u
<1>1. ASSUME NEW v \in Tokens, NEW w \in Tokens, Maximal(v), Maximal(w),
             v.from = w.from, v.seps = w.seps
      PROVE  ~(v.start < w.start)
  <2>. SUFFICES ASSUME v.start < w.start PROVE FALSE
    OBVIOUS
  <2>1. v.start \in Gap(w) /\ v.start \in Body(v)
    BY <1>1 DEF Maximal, Gap, Body, Tokens
  <2>. QED
    BY <1>1, <2>1 DEF Maximal
<1>2. t.start = u.start
  <2>1. t.start \in Int /\ u.start \in Int
    BY DEF Tokens
  <2>. QED
    BY <1>1, <2>1
<1>3. ASSUME NEW v \in Tokens, NEW w \in Tokens, Maximal(v), Maximal(w),
             v.start = w.start, v.seps = w.seps
      PROVE  ~(v.end < w.end)
  <2>. SUFFICES ASSUME v.end < w.end PROVE FALSE
    OBVIOUS
  <2>1. v.end \in Body(w) /\ v.end < N
    BY <1>3 DEF Maximal, Body, Tokens
  <2>. QED
    BY <1>3, <2>1 DEF Maximal
<1>4. t.end = u.end
  <2>1. t.end \in Int /\ u.end \in Int
    BY DEF Tokens
  <2>. QED
    BY <1>2, <1>3, <2>1
<1>. QED
  BY <1>2, <1>4 DEF Tokens

LEMMA IndependentOfOthers == IInv => Independent
<1>. SUFFICES ASSUME IInv, NEW c \in Caller, NEW d \in Caller
     PROVE  \A k \in DOMAIN toks[c] \cap DOMAIN toks[d] :
              (\A j \in 1 .. k : toks[c][j].seps = toks[d][j].seps)
                => toks[c][k] = toks[d][k]
  BY DEF Independent
<1>. DEFINE Apart ==
       {k \in DOMAIN toks[c] \cap DOMAIN toks[d] :
          /\ \A j \in 1 .. k : toks[c][j].seps = toks[d][j].seps
          /\ toks[c][k] # toks[d][k]}
<1>. SUFFICES ASSUME Apart # {} PROVE FALSE
  OBVIOUS
<1>1. toks[c] \in Seq(Tokens) /\ toks[d] \in Seq(Tokens) /\ N \in Nat
  BY TextLength DEF IInv, TypeOK
<1>2. \A k \in DOMAIN toks[c] : k \in Nat \ {0}
  BY <1>1
<1>3. PICK k \in Apart : \A j \in Apart : k <= j
  <2>1. Apart \in SUBSET Nat
    BY <1>2
  <2>. HIDE DEF Apart
  <2>. QED
    BY <2>1, LeastElement
<1>4. /\ k \in 1 .. Len(toks[c]) /\ k \in 1 .. Len(toks[d])
      /\ Len(toks[c]) \in Nat /\ Len(toks[d]) \in Nat
  BY <1>1
<1>5. toks[c][k].from = toks[d][k].from
  <2>1. /\ toks[c][k].from = IF k = 1 THEN 0 ELSE toks[c][k - 1].end
        /\ toks[d][k].from = IF k = 1 THEN 0 ELSE toks[d][k - 1].end
    BY <1>4 DEF IInv, NothingLost
  <2>2. CASE k = 1
    BY <2>1, <2>2
  <2>3. CASE k > 1
    <3>1. k - 1 \in DOMAIN toks[c] \cap DOMAIN toks[d] /\ k - 1 < k
      BY <1>1, <1>4, <2>3
    <3>2. \A j \in 1 .. k - 1 : toks[c][j].seps = toks[d][j].seps
      BY <1>4
    <3>3. k - 1 \notin Apart
      <4>1. k \in Nat
        BY <1>4
      <4>. HIDE DEF Apart
      <4>. QED
        BY <1>3, <4>1
    <3>4. toks[c][k - 1] = toks[d][k - 1]
      BY <3>1, <3>2, <3>3
    <3>. QED
      BY <1>4, <2>1, <2>3, <3>4
  <2>. QED
    BY <1>4, <2>2, <2>3
<1>6. toks[c][k].seps = toks[d][k].seps
  BY <1>4
<1>7. Maximal(toks[c][k]) /\ Maximal(toks[d][k])
  BY <1>4 DEF IInv, TokensMaximal, Maximal
<1>8. toks[c][k] \in Tokens /\ toks[d][k] \in Tokens
  BY <1>1, <1>4
<1>. QED
  BY <1>1, <1>5, <1>6, <1>7, <1>8, Determined

-----------------------------------------------------------------------------
(* Beside C.  C resumes behind the separator that ended the last token, next  *)
(* on it; as long as each set passed has that separator, the two skip to the  *)
(* same byte.                                                                 *)

\* Where C stands: behind the separator on which the caller's cursor stands.
SavedBehind(c) ==
  saved[c] = IF Len(toks[c]) = 0 THEN 0
             ELSE IF cursor[c].pos < N THEN cursor[c].pos + 1 ELSE N

CTypeOK ==
  /\ saved \in [Caller -> 0 .. N]
  /\ ctoks \in [Caller -> Seq((0 .. N) \X (0 .. N))]
  /\ cnull \in [Caller -> BOOLEAN]

CInv ==
  /\ IInv
  /\ CTypeOK
  /\ \A c \in Caller : Kept(c) => SameTokens(c) /\ SavedBehind(c)

LEMMA SkipAgain ==
  ASSUME N \in Nat, NEW S, NEW i \in 0 .. N - 1, At(i) \in S
  PROVE  Skip(S, i) = Skip(S, i + 1)
<1>. DEFINE j == Skip(S, i)
            k == Skip(S, i + 1)
<1>1. i \in 0 .. N /\ i + 1 \in 0 .. N
  OBVIOUS
<1>2. j \in i .. N /\ (\A x \in i .. j - 1 : At(x) \in S) /\ (j < N => At(j) \notin S)
  BY <1>1, SkipStops
<1>3. k \in i + 1 .. N /\ (\A x \in i + 1 .. k - 1 : At(x) \in S) /\ (k < N => At(k) \notin S)
  BY <1>1, SkipStops
<1>. HIDE DEF j, k
<1>4. j # i
  BY <1>2
<1>5. j \in i + 1 .. N
  BY <1>2, <1>4
<1>6. ~(j < k)
  <2>. SUFFICES ASSUME j < k PROVE FALSE
    OBVIOUS
  <2>1. j \in i + 1 .. k - 1 /\ j < N
    BY <1>3, <1>5
  <2>. QED
    BY <1>2, <1>3, <2>1
<1>7. ~(k < j)
  <2>. SUFFICES ASSUME k < j PROVE FALSE
    OBVIOUS
  <2>1. k \in i .. j - 1 /\ k < N
    BY <1>2, <1>3
  <2>. QED
    BY <1>2, <1>3, <2>1
<1>8. j = k
  BY <1>3, <1>5, <1>6, <1>7
<1>. QED
  BY <1>8 DEF j, k

\* Without separators the one token is the text.
LEMMA NothingSkipped ==
  ASSUME N \in Nat, NEW i \in 0 .. N
  PROVE  Skip({}, i) = i /\ Scan({}, i) = N
<1>. DEFINE j == Skip({}, i)
            k == Scan({}, i)
<1>1. j \in i .. N /\ (\A x \in i .. j - 1 : At(x) \in {})
  BY SkipStops
<1>2. k \in i .. N /\ (k < N => At(k) \in {})
  BY ScanStopsAt
<1>. HIDE DEF j, k
<1>3. j = i
  <2>. SUFFICES ASSUME i < j PROVE FALSE
    BY <1>1
  <2>1. i \in i .. j - 1
    BY <1>1
  <2>. QED
    BY <1>1, <2>1
<1>4. k = N
  BY <1>2
<1>. QED
  BY <1>3, <1>4 DEF j, k

\* From a state in which the two agree, a set that still has the separator under
\* the cursor leads both to the same byte.
LEMMA SameStart ==
  ASSUME CInv, NEW c \in Caller, Kept(c),
         Len(toks[c]) > 0 /\ cursor[c].pos < N => At(cursor[c].pos) \in seps[c]
  PROVE  Skip(seps[c], saved[c]) = Skip(seps[c], cursor[c].pos)
<1>1. N \in Nat /\ cursor[c].pos \in 0 .. N /\ Len(toks[c]) \in Nat
  BY TextLength DEF CInv, IInv, TypeOK
<1>2. SavedBehind(c)
  BY DEF CInv
<1>3. CASE Len(toks[c]) = 0
  <2>1. cursor[c].pos = 0
    BY <1>3 DEF CInv, IInv, NothingLost
  <2>. QED
    BY <1>2, <1>3, <2>1 DEF SavedBehind
<1>4. CASE Len(toks[c]) > 0 /\ cursor[c].pos < N
  <2>1. saved[c] = cursor[c].pos + 1
    BY <1>1, <1>2, <1>4 DEF SavedBehind
  <2>2. cursor[c].pos \in 0 .. N - 1
    BY <1>1, <1>4
  <2>. QED
    BY <1>1, <1>4, <2>1, <2>2, SkipAgain
<1>5. CASE Len(toks[c]) > 0 /\ ~(cursor[c].pos < N)
  <2>1. saved[c] = N /\ cursor[c].pos = N
    BY <1>1, <1>2, <1>5 DEF SavedBehind
  <2>. QED
    BY <2>1
<1>. QED
  BY <1>1, <1>3, <1>4, <1>5

LEMMA InitCInv == CInit => CInv
<1>. SUFFICES ASSUME CInit PROVE CInv
  OBVIOUS
<1>1. IInv /\ N \in Nat
  BY InitIInv, TextLength DEF CInit, IInv
<1>2. CTypeOK
  BY <1>1 DEF CInit, CTypeOK
<1>3. ASSUME NEW c \in Caller PROVE SameTokens(c) /\ SavedBehind(c)
  <2>1. toks[c] = <<>> /\ ctoks[c] = <<>> /\ saved[c] = 0 /\ ~cnull[c] /\ ~cursor[c].complete
    BY DEF CInit, Init
  <2>2. [k \in DOMAIN toks[c] |-> <<toks[c][k].start, toks[c][k].end>>] = ctoks[c]
    BY <2>1
  <2>. QED
    BY <1>1, <2>1, <2>2 DEF SameTokens, SavedBehind, CInit, IInv, TypeOK
<1>. QED
  BY <1>1, <1>2, <1>3 DEF CInv

\* C's part of a call keeps its types, and the other callers.
LEMMA CStrtokType ==
  ASSUME CInv, NEW c \in Caller, CStrtok(c), N' = N
  PROVE  /\ CTypeOK'
         /\ \A d \in Caller \ {c} :
              saved'[d] = saved[d] /\ ctoks'[d] = ctoks[d] /\ cnull'[d] = cnull[d]
<1>. DEFINE start == Skip(seps[c], saved[c])
            end   == Scan(seps[c], start)
<1>1. N \in Nat /\ saved[c] \in 0 .. N /\ ctoks[c] \in Seq((0 .. N) \X (0 .. N))
  BY TextLength DEF CInv, IInv, CTypeOK
<1>2. start \in saved[c] .. N
  BY <1>1, SkipStops
<1>3. start \in 0 .. N
  BY <1>1, <1>2
<1>4. end \in start .. N
  <2>. HIDE DEF start
  <2>. QED
    BY <1>1, <1>3, ScanStopsAt
<1>5. end \in 0 .. N
  <2>. HIDE DEF end, start
  <2>. QED
    BY <1>1, <1>3, <1>4
<1>6. CASE cnull' = [cnull EXCEPT ![c] = TRUE] /\ UNCHANGED <<saved, ctoks>>
  BY <1>6 DEF CInv, CTypeOK
<1>7. CASE /\ ctoks' = [ctoks EXCEPT ![c] = Append(@, <<start, end>>)]
           /\ saved' = [saved EXCEPT ![c] = IF end < N THEN end + 1 ELSE N]
           /\ UNCHANGED cnull
  <2>. HIDE DEF start, end
  <2>1. <<start, end>> \in (0 .. N) \X (0 .. N)
    BY <1>3, <1>5
  <2>2. Append(ctoks[c], <<start, end>>) \in Seq((0 .. N) \X (0 .. N))
    BY <1>1, <2>1
  <2>3. (IF end < N THEN end + 1 ELSE N) \in 0 .. N
    BY <1>1, <1>5
  <2>4. ctoks' \in [Caller -> Seq((0 .. N) \X (0 .. N))]
    BY <1>7, <2>2 DEF CInv, CTypeOK
  <2>5. saved' \in [Caller -> 0 .. N]
    BY <1>7, <2>3 DEF CInv, CTypeOK
  <2>. QED
    BY <1>7, <2>4, <2>5 DEF CInv, CTypeOK
<1>. QED
  BY <1>6, <1>7 DEF CStrtok

\* A caller whose state stays agrees as before.
LEMMA OthersAgree ==
  ASSUME NEW d, text' = text, toks'[d] = toks[d], cursor'[d] = cursor[d],
         saved'[d] = saved[d], ctoks'[d] = ctoks[d], cnull'[d] = cnull[d],
         Kept(d) => SameTokens(d) /\ SavedBehind(d)
  PROVE  Kept(d)' => SameTokens(d)' /\ SavedBehind(d)'
<1>1. N' = N /\ \A i : At(i)' = At(i)
  BY DEF N, At
<1>. QED
  BY <1>1 DEF Kept, SameTokens, SavedBehind, At

\* Told Complete: C, which sees only separators too, answers null.
LEMMA CompleteAgrees ==
  ASSUME CInv, NEW c \in Caller, CStrtok(c), Complete(c), UNCHANGED <<text, seps>>,
         \A x \in cursor[c].pos .. N - 1 : At(x) \in seps[c]
  PROVE  Kept(c)' => SameTokens(c)' /\ SavedBehind(c)'
<1>1. /\ N' = N /\ text' = text /\ toks' = toks
      /\ \A i : At(i)' = At(i)
  BY DEF Complete, N, At
<1>2. SUFFICES ASSUME Kept(c) PROVE SameTokens(c)' /\ SavedBehind(c)'
  BY <1>1 DEF Kept
<1>3. N \in Nat /\ cursor[c].pos \in 0 .. N /\ Len(toks[c]) \in Nat
  BY TextLength DEF CInv, IInv, TypeOK
<1>4. Skip(seps[c], cursor[c].pos) = N
  <2>. DEFINE j == Skip(seps[c], cursor[c].pos)
  <2>1. j \in cursor[c].pos .. N /\ (j < N => At(j) \notin seps[c])
    BY <1>3, SkipStops
  <2>. HIDE DEF j
  <2>2. j = N
    BY <1>3, <2>1
  <2>. QED
    BY <2>2 DEF j
<1>5. Skip(seps[c], saved[c]) = N
  <2>1. cursor[c].pos < N => At(cursor[c].pos) \in seps[c]
    BY <1>3
  <2>. QED
    BY <1>2, <1>4, <2>1, SameStart
<1>6. cnull' = [cnull EXCEPT ![c] = TRUE] /\ saved' = saved /\ ctoks' = ctoks
  BY <1>3, <1>5 DEF CStrtok
<1>7. cursor'[c].complete /\ cursor'[c].pos = cursor[c].pos
  BY DEF Complete, CInv, IInv, TypeOK
<1>8. SameTokens(c) /\ SavedBehind(c)
  BY <1>2 DEF CInv
<1>9. cnull'[c] = TRUE /\ cursor'[c].complete = TRUE
  BY <1>6, <1>7 DEF CInv, CTypeOK, IInv, TypeOK, Complete
<1>. QED
  BY <1>1, <1>6, <1>7, <1>8, <1>9 DEF SameTokens, SavedBehind

\* The pairs of a token history with one more token.
LEMMA PairsAppend ==
  ASSUME NEW S, NEW s \in Seq(S), NEW t \in S, NEW p, NEW u, NEW q,
         p = [k \in DOMAIN s |-> <<s[k].start, s[k].end>>],
         u = Append(s, t),
         q = [k \in DOMAIN u |-> <<u[k].start, u[k].end>>]
  PROVE  q = Append(p, <<t.start, t.end>>)
<1>. DEFINE f == [k \in DOMAIN Append(s, t) |-> <<Append(s, t)[k].start, Append(s, t)[k].end>>]
            g == Append(p, <<t.start, t.end>>)
<1>1. /\ Len(s) \in Nat /\ DOMAIN s = 1 .. Len(s)
      /\ DOMAIN Append(s, t) = 1 .. Len(s) + 1
      /\ \A k \in 1 .. Len(s) : Append(s, t)[k] = s[k]
      /\ Append(s, t)[Len(s) + 1] = t
  OBVIOUS
<1>2. p \in Seq({<<s[k].start, s[k].end>> : k \in DOMAIN s}) /\ Len(p) = Len(s)
  BY <1>1
<1>3. /\ g \in Seq({<<s[k].start, s[k].end>> : k \in DOMAIN s} \cup {<<t.start, t.end>>})
      /\ DOMAIN g = 1 .. Len(s) + 1
      /\ \A k \in 1 .. Len(s) : g[k] = p[k]
      /\ g[Len(s) + 1] = <<t.start, t.end>>
  BY <1>1, <1>2
<1>4. ASSUME NEW k \in 1 .. Len(s) + 1 PROVE f[k] = g[k]
  <2>1. CASE k = Len(s) + 1
    BY <1>1, <1>3, <2>1
  <2>2. CASE k \in 1 .. Len(s)
    <3>1. f[k] = <<s[k].start, s[k].end>>
      BY <1>1, <2>2
    <3>2. g[k] = p[k] /\ p[k] = <<s[k].start, s[k].end>>
      BY <1>1, <1>3, <2>2
    <3>. QED
      BY <3>1, <3>2
  <2>3. k = Len(s) + 1 \/ k \in 1 .. Len(s)
    BY <1>1
  <2>. QED
    BY <2>1, <2>2, <2>3, Zenon
<1>5. f = [k \in 1 .. Len(s) + 1 |-> f[k]] /\ g = [k \in 1 .. Len(s) + 1 |-> g[k]]
  BY <1>1, <1>3
<1>. HIDE DEF f, g
<1>6. f = g
  BY <1>4, <1>5
<1>7. q = f
  BY DEF f
<1>. QED
  BY <1>6, <1>7 DEF g

\* Given a token: if the set kept the separator, C gives the same one.
LEMMA GivenAgrees ==
  ASSUME CInv, NEW c \in Caller, NEW start, NEW end,
         start = Skip(seps[c], cursor[c].pos), end = Scan(seps[c], start),
         start < N, cursor[c].pos < N,
         CStrtok(c), Emit(c, start, end, end), UNCHANGED <<text, seps>>
  PROVE  Kept(c)' => SameTokens(c)' /\ SavedBehind(c)'
<1>. DEFINE t == Token(c, start, end)
<1>1. N \in Nat /\ cursor[c].pos \in 0 .. N /\ toks[c] \in Seq(Tokens) /\ Len(toks[c]) \in Nat
  BY TextLength DEF CInv, IInv, TypeOK
<1>2. start \in 0 .. N
  <2>1. Skip(seps[c], cursor[c].pos) \in cursor[c].pos .. N
    BY <1>1, SkipStops
  <2>. QED
    BY <1>1, <2>1
<1>3. end \in 0 .. N
  <2>1. Scan(seps[c], start) \in start .. N
    BY <1>1, <1>2, ScanStopsAt
  <2>. QED
    BY <1>1, <1>2, <2>1
<1>4. t \in Tokens /\ t.start = start /\ t.end = end /\ t.from = cursor[c].pos /\ t.seps = seps[c]
  BY <1>1, <1>2, <1>3 DEF Token, Tokens, CInv, IInv, TypeOK
<1>5. toks'[c] = Append(toks[c], t) /\ cursor'[c].pos = end
      /\ cursor'[c].complete = cursor[c].complete
  BY DEF Emit, CInv, IInv, TypeOK
<1>6. N' = N /\ \A i : At(i)' = At(i)
  BY DEF N, At
<1>. HIDE DEF t
<1>7. /\ DOMAIN toks[c] = 1 .. Len(toks[c]) /\ DOMAIN toks'[c] = 1 .. Len(toks[c]) + 1
      /\ Len(toks'[c]) = Len(toks[c]) + 1
      /\ \A k \in 1 .. Len(toks[c]) : toks'[c][k] = toks[c][k]
      /\ toks'[c][Len(toks[c]) + 1] = t
  BY <1>1, <1>4, <1>5
<1>8. SUFFICES ASSUME Kept(c)' PROVE SameTokens(c)' /\ SavedBehind(c)'
  OBVIOUS
<1>9. \A k \in 1 .. Len(toks[c]) + 1 : k > 1 => At(toks'[c][k].from) \in toks'[c][k].seps
  BY <1>6, <1>7, <1>8 DEF Kept
<1>10. Kept(c)
  <2>. SUFFICES ASSUME NEW k \in DOMAIN toks[c], k > 1
                PROVE  At(toks[c][k].from) \in toks[c][k].seps
    BY DEF Kept
  <2>1. k \in 1 .. Len(toks[c]) /\ k \in 1 .. Len(toks[c]) + 1
    BY <1>1, <1>7
  <2>2. At(toks'[c][k].from) \in toks'[c][k].seps
    BY <1>9, <2>1
  <2>. QED
    BY <1>7, <2>1, <2>2
<1>11. Len(toks[c]) > 0 => At(cursor[c].pos) \in seps[c]
  <2>. SUFFICES ASSUME Len(toks[c]) > 0 PROVE At(cursor[c].pos) \in seps[c]
    OBVIOUS
  <2>1. Len(toks[c]) + 1 \in 1 .. Len(toks[c]) + 1 /\ Len(toks[c]) + 1 > 1
    BY <1>1
  <2>2. At(toks'[c][Len(toks[c]) + 1].from) \in toks'[c][Len(toks[c]) + 1].seps
    BY <1>9, <2>1
  <2>. QED
    BY <1>4, <1>7, <2>2
<1>12. Skip(seps[c], saved[c]) = start
  BY <1>10, <1>11, SameStart
<1>13. /\ ctoks' = [ctoks EXCEPT ![c] = Append(@, <<start, end>>)]
       /\ saved' = [saved EXCEPT ![c] = IF end < N THEN end + 1 ELSE N]
       /\ UNCHANGED cnull
  BY <1>1, <1>2, <1>12 DEF CStrtok
<1>14. /\ ctoks'[c] = Append(ctoks[c], <<start, end>>)
       /\ saved'[c] = IF end < N THEN end + 1 ELSE N
       /\ cnull'[c] = cnull[c]
  BY <1>13 DEF CInv, CTypeOK
<1>15. SameTokens(c)
  BY <1>10 DEF CInv
<1>16. [k \in DOMAIN toks'[c] |-> <<toks'[c][k].start, toks'[c][k].end>>] = ctoks'[c]
  <2>1. ctoks[c] = [k \in DOMAIN toks[c] |-> <<toks[c][k].start, toks[c][k].end>>]
    BY <1>15 DEF SameTokens
  <2>2. [k \in DOMAIN toks'[c] |-> <<toks'[c][k].start, toks'[c][k].end>>]
          = Append(ctoks[c], <<t.start, t.end>>)
    <3>1. PICK p, h, u, q : /\ p = ctoks[c] /\ h = toks[c] /\ u = toks'[c]
                            /\ q = [k \in DOMAIN toks'[c] |-> <<toks'[c][k].start, toks'[c][k].end>>]
      OBVIOUS
    <3>2. h \in Seq(Tokens) /\ p = [k \in DOMAIN h |-> <<h[k].start, h[k].end>>]
      BY <1>1, <2>1, <3>1
    <3>3. t \in Tokens /\ u = Append(h, t)
      BY <1>4, <1>5, <3>1
    <3>4. q = [k \in DOMAIN u |-> <<u[k].start, u[k].end>>]
      BY <3>1, Zenon
    <3>5. q = Append(p, <<t.start, t.end>>)
      BY <3>2, <3>3, <3>4, PairsAppend
    <3>. QED
      BY <3>1, <3>5, Zenon
  <2>. QED
    BY <1>4, <1>14, <2>2, Zenon
<1>17. cursor'[c].complete = cnull'[c]
  BY <1>5, <1>14, <1>15 DEF SameTokens
<1>18. SavedBehind(c)'
  BY <1>1, <1>5, <1>6, <1>7, <1>14 DEF SavedBehind
<1>. QED
  BY <1>16, <1>17, <1>18 DEF SameTokens

\* One call of next, and the call of strtok_r beside it.
LEMMA BothCInv ==
  ASSUME CInv, NEW c \in Caller, NextToken(c), CStrtok(c)
  PROVE  CInv'
<1>. DEFINE S     == seps[c]
            from  == cursor[c].pos
            start == Skip(S, from)
            end   == Scan(S, start)
<1>1. N \in Nat /\ from \in 0 .. N
  BY TextLength DEF CInv, IInv, TypeOK
<1>2. text' = text /\ seps' = seps /\ N' = N
  BY DEF NextToken, N
<1>3. /\ start \in from .. N
      /\ \A x \in from .. start - 1 : At(x) \in S
  BY <1>1, SkipStops
<1>4. IInv'
  BY NextTokenIInv DEF CInv
<1>5. /\ CTypeOK'
      /\ \A d \in Caller \ {c} :
           saved'[d] = saved[d] /\ ctoks'[d] = ctoks[d] /\ cnull'[d] = cnull[d]
  BY <1>2, CStrtokType
<1>6. \A d \in Caller \ {c} : toks'[d] = toks[d] /\ cursor'[d] = cursor[d]
  BY DEF NextToken, Emit, Complete, CInv, IInv, TypeOK
<1>7. ASSUME NEW d \in Caller \ {c} PROVE Kept(d)' => SameTokens(d)' /\ SavedBehind(d)'
  BY <1>2, <1>5, <1>6, OthersAgree DEF CInv
<1>8. Kept(c)' => SameTokens(c)' /\ SavedBehind(c)'
  <2>1. CASE from >= N /\ Complete(c)
    <3>1. \A x \in from .. N - 1 : At(x) \in S
      BY <1>1, <2>1
    <3>. QED
      BY <1>2, <2>1, <3>1, CompleteAgrees
  <2>2. CASE from < N /\ S = {} /\ Emit(c, from, N, N)
    <3>1. Skip(seps[c], from) = from /\ Scan(seps[c], from) = N
      BY <1>1, <2>2, NothingSkipped
    <3>2. from = Skip(seps[c], cursor[c].pos) /\ N = Scan(seps[c], from)
      BY <3>1
    <3>. HIDE DEF start, end
    <3>. QED
      BY <1>2, <2>2, <3>2, GivenAgrees
  <2>3. CASE from < N /\ S # {} /\ start >= N /\ Complete(c)
    <3>1. \A x \in from .. N - 1 : At(x) \in S
      BY <1>1, <1>3, <2>3
    <3>. QED
      BY <1>2, <2>3, <3>1, CompleteAgrees
  <2>4. CASE from < N /\ S # {} /\ start < N /\ Emit(c, start, end, end)
    BY <1>2, <2>4, GivenAgrees
  <2>. QED
    BY <2>1, <2>2, <2>3, <2>4 DEF NextToken
<1>. QED
  BY <1>4, <1>5, <1>7, <1>8 DEF CInv

LEMMA NextCInv == CInv /\ [CNext]_cvars => CInv'
<1>. SUFFICES ASSUME CInv, [CNext]_cvars PROVE CInv'
  OBVIOUS
<1>1. ASSUME NEW c \in Caller, NextToken(c), CStrtok(c) PROVE CInv'
  BY <1>1, BothCInv
<1>2. ASSUME text' = text, toks' = toks, cursor' = cursor, IInv',
             UNCHANGED <<saved, ctoks, cnull>>
      PROVE  CInv'
  <2>1. CTypeOK'
    BY <1>2 DEF CInv, CTypeOK, N
  <2>2. \A d \in Caller : Kept(d)' => SameTokens(d)' /\ SavedBehind(d)'
    BY <1>2, OthersAgree DEF CInv
  <2>. QED
    BY <1>2, <2>1, <2>2 DEF CInv
<1>3. ASSUME NEW c \in Caller, NEW S \in Separators, ChangeSeparators(c, S),
             UNCHANGED <<saved, ctoks, cnull>>
      PROVE  CInv'
  <2>1. IInv'
    BY <1>3, ChangeIInv DEF CInv
  <2>. QED
    BY <1>2, <1>3, <2>1 DEF ChangeSeparators
<1>4. CASE UNCHANGED cvars
  <2>1. IInv'
    BY <1>4, NextIInv DEF cvars, vars, CInv
  <2>. QED
    BY <1>2, <1>4, <2>1 DEF cvars
<1>. QED
  BY <1>1, <1>3, <1>4 DEF CNext

LEMMA CInvariance == CSpec => []CInv
BY InitCInv, NextCInv, PTL DEF CSpec

LEMMA BothInvariance == (Spec \/ CSpec) => []IInv
<1>1. CInv => IInv
  BY DEF CInv
<1>. QED
  BY Invariance, CInvariance, <1>1, PTL

-----------------------------------------------------------------------------
(* What holds of the tokenizer, alone and with C's calls beside its own.      *)

\* TOK-002, TOK-005: every token is a non-empty maximal run of the bytes outside
\* the set of its call, in range, and what was skipped before it is separators.
THEOREM MaximalTokens == (Spec \/ CSpec) => []TokensMaximal
<1>1. IInv => TokensMaximal
  BY DEF IInv
<1>. QED
  BY <1>1, BothInvariance, PTL

\* Consecutive calls of a caller partition the text: no byte is dropped or given
\* twice, and a complete cursor has nothing but separators left.
THEOREM NoByteLost == (Spec \/ CSpec) => []NothingLost
<1>1. IInv => NothingLost
  BY DEF IInv
<1>. QED
  BY <1>1, BothInvariance, PTL

\* TOK-001, TOK-007: two callers that passed the same sets so far were given the
\* same tokens, for any number of callers and any interleaving.
THEOREM CallersIndependent == (Spec \/ CSpec) => []Independent
BY IndependentOfOthers, BothInvariance, PTL

\* C23-013, TOK-009: for any number of callers, any text and any sets, a caller
\* whose sets keep the separator that ended its last token is given C's tokens,
\* and Complete exactly when C answers null.
THEOREM TokensAreCs == CSpec => []SameAsCWhenKept
<1>1. CInv => SameAsCWhenKept
  BY DEF CInv, SameAsCWhenKept
<1>. QED
  BY CInvariance, <1>1, PTL
\* The answer to a call of next moves its caller on, or is Complete.
Closer == \A c \in Caller :
  NextToken(c) => \/ cursor'[c].complete
                  \/ cursor[c].pos < cursor'[c].pos /\ cursor'[c].pos <= N

LEMMA NextTokenCloser ==
  ASSUME IInv, NEW c \in Caller, NextToken(c)
  PROVE  \/ cursor'[c].complete
         \/ cursor[c].pos < cursor'[c].pos /\ cursor'[c].pos <= N
<1>. DEFINE S     == seps[c]
            from  == cursor[c].pos
            start == Skip(S, from)
            end   == Scan(S, start)
<1>1. N \in Nat /\ from \in 0 .. N /\ cursor[c] \in [pos : 0 .. N, complete : BOOLEAN]
      /\ cursor \in [Caller -> [pos : 0 .. N, complete : BOOLEAN]]
  BY TextLength DEF IInv, TypeOK
<1>2. CASE Complete(c)
  BY <1>1, <1>2 DEF Complete
<1>3. CASE from < N /\ Emit(c, from, N, N)
  BY <1>1, <1>3 DEF Emit
<1>4. CASE start < N /\ Emit(c, start, end, end)
  <2>1. start \in from .. N /\ At(start) \notin S
    BY <1>1, <1>4, SkipStops
  <2>2. start \in 0 .. N
    BY <1>1, <2>1
  <2>3. end \in start .. N /\ (end < N => At(end) \in S)
    BY <1>1, <2>2, ScanStopsAt
  <2>4. end # start
    BY <1>4, <2>1, <2>3
  <2>5. cursor'[c].pos = end
    BY <1>1, <1>4 DEF Emit
  <2>. QED
    BY <1>1, <2>1, <2>2, <2>3, <2>4, <2>5
<1>. QED
  BY <1>2, <1>3, <1>4 DEF NextToken

\* TOK-004: next cannot be asked forever without an end.  Whatever the sets and
\* whatever the other callers do, an answer moves its caller on in the text, or
\* is Complete.
THEOREM NextMovesOn == (Spec \/ CSpec) => [][Closer]_vars
<1>1. IInv /\ [Next]_vars => [Closer]_vars
  BY NextTokenCloser DEF Closer
<1>2. IInv /\ [CNext]_cvars => [Closer]_vars
  BY NextTokenCloser DEF Closer, cvars, vars
<1>. QED
  BY <1>1, <1>2, Invariance, CInvariance, BothInvariance, PTL DEF Spec, CSpec
=============================================================================
