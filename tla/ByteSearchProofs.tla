-------------------------- MODULE ByteSearchProofs --------------------------
(* Proofs about ByteSearch, for every number of byte values, every text and   *)
(* every argument.                                                            *)
EXTENDS ByteSearch, TLAPS

\* The lengths are natural numbers, and the call does not change.
LEMMA CallType ==
  ASSUME LegalCall(call)
  PROVE  /\ call.op \in Ops /\ call.n \in Nat /\ call.c \in Int
         /\ call.hay \in Seq(Byte) /\ call.arg \in Seq(Byte)
         /\ H \in Nat /\ M \in Nat /\ Limit \in Nat
BY DEF LegalCall, H, M, Limit

LEMMA InitIInv == Init => IInv
BY SearchAssumption
DEF Init, IInv, TypeOK, Pcs, Where, LoopContracts, Searched, Exact

\* An answer that was promised keeps the invariant: the loops are left.
LEMMA AnswerIInv ==
  ASSUME IInv, NEW r, Answer(r), Promised(call, r)
  PROVE  IInv'
<1>1. TypeOK'
  BY DEF IInv, TypeOK, Answer, Pcs
<1>2. Exact'
  BY DEF Answer, Exact
<1>. QED
  BY <1>1, <1>2 DEF IInv, Where, LoopContracts, Searched, Answer

-----------------------------------------------------------------------------
(* What an answer given by each loop promises.                               *)

\* A position at which the byte is found, with none before it.
LEMMA FoundFirst ==
  ASSUME LegalCall(call), call.op \in {"find", "memchr", "strchr"},
         call.op = "strchr" => IntToByte(call.c) # 0,
         i \in Nat, i < Limit, Limit <= H,
         At(Hay, i) = Sought, \A x \in 0 .. i - 1 : At(Hay, x) # Sought
  PROVE  Promised(call, Some(i))
<1>1. H \in Nat /\ Limit \in Nat /\ call.n \in Nat
  BY CallType
<1>2. i \in Positions(call) /\ \A x \in Positions(call) : At(Hay, x) = Sought => i <= x
  BY <1>1 DEF Positions, H, Hay
<1>3. CASE call.op \in {"find", "memchr"}
  <2>1. i \in Holding(call, call.c) /\ \A x \in Holding(call, call.c) : i <= x
    BY <1>2, <1>3 DEF Holding, Sought, Hay
  <2>2. call.op = "memchr" => i < call.n
    BY <1>1 DEF Limit
  <2>. QED
    BY <1>3, <2>1, <2>2 DEF Promised, FirstOf
<1>4. CASE call.op = "strchr"
  <2>1. i \in CHolding(call, call.c % ByteMod)
    BY <1>1, <1>2, <1>4 DEF CHolding, CByte, Positions, Sought, IntToByte, H, Hay
  <2>2. ASSUME NEW x \in CHolding(call, call.c % ByteMod) PROVE i <= x
    <3>1. x \in 0 .. H /\ CByte(call, x) = Sought
      BY <1>4 DEF CHolding, Sought, IntToByte, H
    <3>2. x < H
      BY <1>1, <1>4, <3>1 DEF CByte, Sought, H
    <3>3. At(Hay, x) = Sought
      BY <3>1, <3>2, <1>1 DEF CByte, H, Hay
    <3>. QED
      BY <1>1, <1>2, <3>1, <3>2, <3>3 DEF Positions, H
  <2>. QED
    BY <1>4, <2>1, <2>2 DEF Promised, FirstOf
<1>. QED
  BY <1>3, <1>4

LEMMA FoundLast ==
  ASSUME LegalCall(call), call.op \in {"rfind", "strrchr"},
         call.op = "strrchr" => IntToByte(call.c) # 0,
         NEW p \in Nat, p < H,
         At(Hay, p) = Sought, \A x \in p + 1 .. H - 1 : At(Hay, x) # Sought
  PROVE  Promised(call, Some(p))
<1>1. H \in Nat
  BY CallType
<1>2. p \in Positions(call) /\ \A x \in Positions(call) : At(Hay, x) = Sought => x <= p
  BY <1>1 DEF Positions, H, Hay
<1>3. CASE call.op = "rfind"
  <2>1. p \in Holding(call, call.c) /\ \A x \in Holding(call, call.c) : x <= p
    BY <1>2, <1>3 DEF Holding, Sought, Hay
  <2>. QED
    BY <1>3, <2>1 DEF Promised, LastOf
<1>4. CASE call.op = "strrchr"
  <2>1. p \in CHolding(call, call.c % ByteMod)
    BY <1>1, <1>2, <1>4 DEF CHolding, CByte, Positions, Sought, IntToByte, H, Hay
  <2>2. ASSUME NEW x \in CHolding(call, call.c % ByteMod) PROVE x <= p
    <3>1. x \in 0 .. H /\ CByte(call, x) = Sought
      BY <1>4 DEF CHolding, Sought, IntToByte, H
    <3>2. x < H
      BY <1>1, <1>4, <3>1 DEF CByte, Sought, H
    <3>3. At(Hay, x) = Sought
      BY <3>1, <3>2, <1>1 DEF CByte, H, Hay
    <3>. QED
      BY <1>1, <1>2, <3>1, <3>2, <3>3 DEF Positions, H
  <2>. QED
    BY <1>4, <2>1, <2>2 DEF Promised, LastOf
<1>. QED
  BY <1>3, <1>4

\* The view was searched to its end.
LEMMA FoundNowhere ==
  ASSUME LegalCall(call), call.op \in {"find", "memchr", "strchr", "rfind", "strrchr"},
         call.op \in {"strchr", "strrchr"} => IntToByte(call.c) # 0,
         \A x \in 0 .. Limit - 1 : At(Hay, x) # Sought
  PROVE  Promised(call, None)
<1>1. H \in Nat /\ Limit \in Nat /\ call.n \in Nat
  BY CallType
<1>2. CASE call.op \in {"find", "rfind"}
  <2>1. Holding(call, call.c) = {}
    BY <1>1, <1>2 DEF Holding, Positions, Limit, Sought, H, Hay
  <2>. QED
    BY <1>2, <2>1 DEF Promised, FirstOf, LastOf
<1>3. CASE call.op = "memchr"
  <2>1. {x \in Holding(call, call.c) : x < call.n} = {}
    BY <1>1, <1>3 DEF Holding, Positions, Limit, Sought, H, Hay
  <2>. QED
    BY <1>3, <2>1 DEF Promised, FirstOf
<1>4. CASE call.op \in {"strchr", "strrchr"}
  <2>1. CHolding(call, call.c % ByteMod) = {}
    BY <1>1, <1>4 DEF CHolding, CByte, Limit, Sought, IntToByte, H, Hay
  <2>. QED
    BY <1>4, <2>1 DEF Promised, FirstOf, LastOf
<1>. QED
  BY <1>2, <1>3, <1>4

\* The terminator is the only NUL that C sees, behind a payload without one.
LEMMA FoundTerminator ==
  ASSUME LegalCall(call), call.op \in {"strchr", "strrchr"},
         IntToByte(call.c) = 0
  PROVE  Promised(call, Some(H))
<1>1. H \in Nat /\ call.hay \in Seq(Byte)
  BY CallType
<1>2. \A x \in 0 .. H - 1 : At(Hay, x) # 0
  BY <1>1 DEF LegalCall, OnPayload, At, H, Hay
<1>3. CHolding(call, call.c % ByteMod) = {H}
  BY <1>1, <1>2 DEF CHolding, CByte, IntToByte, H, Hay
<1>4. FirstOf({H}, Some(H)) /\ LastOf({H}, Some(H))
  BY <1>1 DEF FirstOf, LastOf
<1>. QED
  BY <1>3, <1>4 DEF Promised

\* The first or last offset at which the needle occurs.
LEMMA FoundSlice ==
  ASSUME LegalCall(call), NEW p \in Nat, p + M <= H,
         \A y \in 0 .. M - 1 : At(Hay, p + y) = At(Arg, y),
         \/ call.op = "find_slice" /\ \A x \in 0 .. p - 1 : ~Occurs(call, x)
         \/ call.op = "text_rfind" /\ \A x \in p + 1 .. H - M : ~Occurs(call, x)
  PROVE  Promised(call, Some(p))
<1>1. H \in Nat /\ M \in Nat
  BY CallType
<1>2. p \in Occurrences(call)
  BY <1>1 DEF Occurrences, Occurs, H, M, Hay, Arg
<1>3. \A x \in Occurrences(call) : x \in 0 .. H - M /\ Occurs(call, x)
  BY <1>1 DEF Occurrences, Occurs, H, M
<1>4. CASE call.op = "find_slice"
  BY <1>1, <1>2, <1>3, <1>4 DEF Promised, FirstOf
<1>5. CASE call.op = "text_rfind"
  BY <1>1, <1>2, <1>3, <1>5 DEF Promised, LastOf
<1>. QED
  BY <1>4, <1>5

\* An occurrence ends inside the text.
LEMMA OccursInside ==
  ASSUME NEW x, Occurs(call, x)
  PROVE  0 <= x /\ x + M <= H
BY DEF Occurs, H, M

\* No offset is left, or the needle is longer than the text.
LEMMA NoSlice ==
  ASSUME LegalCall(call), call.op \in {"find_slice", "text_rfind"},
         \A x \in 0 .. H - M : ~Occurs(call, x)
  PROVE  Promised(call, None)
<1>1. H \in Nat /\ M \in Nat
  BY CallType
<1>2. ASSUME NEW x \in Occurrences(call) PROVE FALSE
  <2>1. x \in 0 .. H /\ Occurs(call, x)
    BY DEF Occurrences, H
  <2>2. x + M <= H
    BY <2>1, OccursInside
  <2>. QED
    BY <1>1, <2>1, <2>2
<1>3. FirstOf(Occurrences(call), None) /\ LastOf(Occurrences(call), None)
  BY <1>2 DEF FirstOf, LastOf
<1>. QED
  BY <1>3 DEF Promised

\* starts_with and ends_with compare at one offset.
LEMMA Affix ==
  ASSUME LegalCall(call), call.op \in {"starts_with", "ends_with"},
         NEW b \in BOOLEAN,
         b <=> Occurs(call, IF call.op = "starts_with" THEN 0 ELSE H - M)
  PROVE  Promised(call, Truth(b))
<1>1. CASE call.op = "starts_with"
  <2>1. b = Occurs(call, 0)
    BY <1>1 DEF Occurs
  <2>. QED
    BY <1>1, <2>1 DEF Promised
<1>2. CASE call.op = "ends_with"
  <2>1. b = Occurs(call, H - M)
    BY <1>2 DEF Occurs
  <2>. QED
    BY <1>2, <2>1 DEF Promised, H, M
<1>. QED
  BY <1>1, <1>2

\* The span ends at p, which is the end of the text or a byte of the other kind.
LEMMA SpanFound ==
  ASSUME LegalCall(call), call.op \in {"span_in", "span_not_in", "strpbrk"},
         NEW p \in 0 .. H,
         \A x \in 0 .. p - 1 : Member(call, x) <=> call.op = "span_in",
         p < H => ~(Member(call, p) <=> call.op = "span_in")
  PROVE  Promised(call, SpanAnswer(p))
<1>1. H \in Nat
  BY CallType
<1>2. CASE call.op = "span_in"
  <2>1. LongestPrefix(call, TRUE, Size(p))
    BY <1>1, <1>2 DEF LongestPrefix, H
  <2>. QED
    BY <1>2, <2>1 DEF Promised, SpanAnswer
<1>3. CASE call.op = "span_not_in"
  <2>1. LongestPrefix(call, FALSE, Size(p))
    BY <1>1, <1>3 DEF LongestPrefix, H
  <2>. QED
    BY <1>3, <2>1 DEF Promised, SpanAnswer
<1>4. CASE call.op = "strpbrk"
  <2>. DEFINE S == {x \in Positions(call) : Member(call, x)}
  <2>1. \A x \in S : p <= x
    BY <1>1, <1>4 DEF Positions, H
  <2>2. p < H => p \in S
    BY <1>1, <1>4 DEF Positions, H
  <2>3. p = H => S = {}
    BY <1>1, <2>1 DEF Positions, H
  <2>4. FirstOf(S, SpanAnswer(p))
    BY <1>1, <1>4, <2>1, <2>2, <2>3 DEF FirstOf, SpanAnswer
  <2>. QED
    BY <1>4, <2>4 DEF Promised
<1>. QED
  BY <1>2, <1>3, <1>4

-----------------------------------------------------------------------------
(* One lemma per action.                                                     *)

\* The first offset of a mismatch is no occurrence.
LEMMA NoOccurrence ==
  ASSUME LegalCall(call), j \in Nat, j < M, i \in Nat,
         At(Hay, i + j) # At(Arg, j)
  PROVE  ~Occurs(call, i)
BY CallType DEF Occurs, M, Hay, Arg

LEMMA EnterIInv ==
  ASSUME IInv, Enter
  PROVE  IInv'
<1>. USE DEF Entry
<1>1. LegalCall(call) /\ H \in Nat /\ M \in Nat /\ Limit \in Nat
  BY CallType DEF IInv, TypeOK
<1>2. Limit <= H
  BY <1>1, CallType DEF Limit
<1>3. CASE FindTerminator
  BY <1>1, <1>3, FoundTerminator, AnswerIInv DEF FindTerminator
<1>4. CASE EmptyNeedle
  <2>1. Promised(call, Some(IF call.op = "find_slice" THEN 0 ELSE H))
    <3>1. CASE call.op = "find_slice"
      BY <1>1, <1>4, <3>1, FoundSlice DEF EmptyNeedle
    <3>2. CASE call.op = "text_rfind"
      BY <1>1, <1>4, <3>2, FoundSlice DEF EmptyNeedle
    <3>. QED
      BY <1>4, <3>1, <3>2 DEF EmptyNeedle
  <2>. QED
    BY <1>4, <2>1, AnswerIInv DEF EmptyNeedle
<1>5. CASE TooLong
  <2>1. CASE call.op \in {"starts_with", "ends_with"}
    <3>1. M > H
      BY <1>5 DEF TooLong
    <3>2. ~Occurs(call, 0) /\ ~Occurs(call, H - M)
      BY <1>1, <3>1, OccursInside
    <3>3. Promised(call, Truth(FALSE))
      BY <1>1, <2>1, <3>2, Affix
    <3>. QED
      BY <1>5, <2>1, <3>3, AnswerIInv DEF TooLong
  <2>2. CASE call.op \in {"find_slice", "text_rfind"}
    <3>1. Promised(call, None)
      BY <1>1, <1>5, <2>2, NoSlice DEF TooLong
    <3>. QED
      BY <1>5, <2>2, <3>1, AnswerIInv DEF TooLong
  <2>. QED
    BY <1>5, <2>1, <2>2 DEF TooLong
<1>6. CASE \/ EnterFind \/ EnterRFind \/ EnterStrChr \/ EnterStrRChr
           \/ EnterSlice \/ EnterRSlice \/ EnterAffix \/ EnterSpan
  <2>. USE <1>1 DEF EnterFind, EnterRFind, EnterStrChr, EnterStrRChr,
                EnterSlice, EnterRSlice, EnterAffix, EnterSpan, Goto
  <2>1. call' = call /\ answer' = answer /\ j' = 0 /\ H' = H /\ M' = M
          /\ Limit' = Limit /\ Sought' = Sought
    BY <1>6 DEF H, M, Limit, Sought
  <2>2. TypeOK'
    BY <1>6, <2>1 DEF IInv, TypeOK, Pcs
  <2>3. Where'
    BY <1>6, <2>1 DEF Where
  <2>4. LoopContracts'
    BY <1>2, <1>6, <2>1 DEF LoopContracts
  <2>5. Searched'
    BY <1>6, <2>1 DEF Searched
  <2>6. Exact'
    BY <1>6 DEF Exact
  <2>. QED
    BY <2>2, <2>3, <2>4, <2>5, <2>6 DEF IInv
<1>. QED
  BY <1>3, <1>4, <1>5, <1>6 DEF Enter

LEMMA FindStepIInv ==
  ASSUME IInv, FindStep
  PROVE  IInv'
<1>1. LegalCall(call) /\ H \in Nat /\ M \in Nat /\ Limit \in Nat /\ i \in Nat
  BY CallType DEF IInv, TypeOK
<1>2. CASE At(Hay, i) = Sought
  <2>1. Promised(call, Some(i))
    BY <1>1, <1>2, FoundFirst DEF FindStep, IInv, Where, LoopContracts, Searched
  <2>. QED
    BY <1>2, <2>1, AnswerIInv DEF FindStep
<1>3. CASE At(Hay, i) # Sought
  <2>1. Goto("find", i + 1) /\ pc = "find" /\ i < Limit
    BY <1>3 DEF FindStep
  <2>2. call' = call /\ Hay' = Hay /\ Limit' = Limit /\ H' = H /\ Sought' = Sought
    BY <2>1 DEF Goto, Hay, Limit, H, Sought
  <2>3. TypeOK'
    BY <1>1, <2>1 DEF IInv, TypeOK, Goto
  <2>4. Where' /\ LoopContracts' /\ Exact'
    BY <1>1, <2>1, <2>2 DEF IInv, Where, LoopContracts, Exact, Goto
  <2>5. Searched'
    BY <1>1, <1>3, <2>1, <2>2 DEF IInv, Searched, Goto
  <2>. QED
    BY <2>3, <2>4, <2>5 DEF IInv
<1>. QED
  BY <1>2, <1>3

LEMMA RFindStepIInv ==
  ASSUME IInv, RFindStep
  PROVE  IInv'
<1>1. LegalCall(call) /\ H \in Nat /\ i \in Nat /\ pc = "rfind" /\ i > 0 /\ i <= H
  BY CallType DEF IInv, TypeOK, RFindStep, LoopContracts
<1>2. CASE At(Hay, i - 1) = Sought
  <2>1. i - 1 \in Nat /\ i - 1 < H /\ (i - 1) + 1 = i
    BY <1>1
  <2>2. Promised(call, Some(i - 1))
    BY <1>1, <1>2, <2>1, FoundLast DEF IInv, Where, Searched
  <2>. QED
    BY <1>2, <2>2, AnswerIInv DEF RFindStep
<1>3. CASE At(Hay, i - 1) # Sought
  <2>1. Goto("rfind", i - 1)
    BY <1>3 DEF RFindStep
  <2>2. call' = call /\ Hay' = Hay /\ H' = H /\ Sought' = Sought
    BY <2>1 DEF Goto, Hay, H, Sought
  <2>3. TypeOK'
    BY <1>1, <2>1 DEF IInv, TypeOK, Goto
  <2>4. Where' /\ LoopContracts' /\ Exact'
    BY <1>1, <2>1, <2>2 DEF IInv, Where, LoopContracts, Exact, Goto
  <2>5. Searched'
    BY <1>1, <1>3, <2>1, <2>2 DEF IInv, Searched, Goto
  <2>. QED
    BY <2>3, <2>4, <2>5 DEF IInv
<1>. QED
  BY <1>2, <1>3

\* Steps from one loop to another keep the call and what is derived from it.
LEMMA GotoFrame ==
  ASSUME NEW p, NEW x, Goto(p, x)
  PROVE  /\ pc' = p /\ i' = x /\ j' = 0 /\ call' = call /\ answer' = answer
         /\ Hay' = Hay /\ Arg' = Arg /\ H' = H /\ M' = M
         /\ Limit' = Limit /\ Sought' = Sought
BY DEF Goto, Hay, Arg, H, M, Limit, Sought

LEMMA SliceStepIInv ==
  ASSUME IInv, SliceStep \/ RSliceStep
  PROVE  IInv'
<1>1. LegalCall(call) /\ H \in Nat /\ M \in Nat /\ i \in Nat
  BY CallType DEF IInv, TypeOK
<1>2. CASE SliceStep
  <2>1. Goto("match", i) /\ pc = "slice" /\ i <= H - M
    BY <1>2 DEF SliceStep, LastStart
  <2>2. TypeOK' /\ Where' /\ LoopContracts' /\ Exact'
    BY <1>1, <2>1, GotoFrame DEF IInv, TypeOK, Pcs, Where, LoopContracts, Exact
  <2>3. Searched'
    BY <1>1, <2>1, GotoFrame DEF IInv, Where, Searched
  <2>. QED
    BY <2>2, <2>3 DEF IInv
<1>3. CASE RSliceStep
  <2>1. Goto("match", i - 1) /\ pc = "rslice" /\ i > 0 /\ i - 1 \in Nat
          /\ (i - 1) + 1 = i
    BY <1>1, <1>3 DEF RSliceStep
  <2>2. TypeOK' /\ Where' /\ LoopContracts' /\ Exact'
    BY <1>1, <2>1, GotoFrame DEF IInv, TypeOK, Pcs, Where, LoopContracts, Exact
  <2>3. Searched'
    BY <1>1, <2>1, GotoFrame DEF IInv, Where, Searched
  <2>. QED
    BY <2>2, <2>3 DEF IInv
<1>. QED
  BY <1>2, <1>3

LEMMA NotFoundIInv ==
  ASSUME IInv, NotFound
  PROVE  IInv'
<1>1. LegalCall(call) /\ H \in Nat /\ M \in Nat /\ Limit \in Nat /\ i \in Nat
  BY CallType DEF IInv, TypeOK
<1>2. Promised(call, None)
  <2>1. CASE pc = "find" /\ i >= Limit
    BY <1>1, <2>1, FoundNowhere DEF IInv, Where, Searched
  <2>2. CASE pc = "rfind" /\ i <= 0
    <3>1. Limit = H
      BY <2>2 DEF IInv, Where, Limit
    <3>. QED
      BY <1>1, <2>2, <3>1, FoundNowhere DEF IInv, Where, Searched
  <2>3. CASE pc = "slice" /\ i > LastStart
    BY <1>1, <2>3, NoSlice DEF IInv, Where, Searched, LastStart
  <2>4. CASE pc = "rslice" /\ i <= 0
    BY <1>1, <2>4, NoSlice DEF IInv, Where, Searched
  <2>. QED
    BY <2>1, <2>2, <2>3, <2>4 DEF NotFound
<1>. QED
  BY <1>2, AnswerIInv DEF NotFound

LEMMA MatchStepIInv ==
  ASSUME IInv, MatchStep
  PROVE  IInv'
<1>1. LegalCall(call) /\ H \in Nat /\ M \in Nat /\ i \in Nat /\ j \in Nat
        /\ pc = "match" /\ j < M /\ At(Hay, i + j) = At(Arg, j)
  BY CallType DEF IInv, TypeOK, MatchStep
<1>2. /\ call' = call /\ pc' = pc /\ i' = i /\ j' = j + 1 /\ answer' = answer
      /\ Hay' = Hay /\ Arg' = Arg /\ H' = H /\ M' = M
  BY DEF MatchStep, Hay, Arg, H, M
<1>3. TypeOK' /\ Where' /\ LoopContracts' /\ Exact'
  BY <1>1, <1>2 DEF IInv, TypeOK, Where, LoopContracts, Exact
<1>4. Searched'
  BY <1>1, <1>2 DEF IInv, Searched
<1>. QED
  BY <1>3, <1>4 DEF IInv

LEMMA MismatchIInv ==
  ASSUME IInv, Mismatch
  PROVE  IInv'
<1>1. LegalCall(call) /\ H \in Nat /\ M \in Nat /\ i \in Nat /\ j \in Nat
        /\ pc = "match" /\ j < M /\ i + M <= H
  BY CallType DEF IInv, TypeOK, Mismatch, LoopContracts
<1>2. ~Occurs(call, i)
  BY <1>1, NoOccurrence DEF Mismatch
<1>3. CASE call.op = "find_slice"
  <2>1. Goto("slice", i + 1)
    BY <1>3 DEF Mismatch
  <2>2. TypeOK' /\ Where' /\ LoopContracts' /\ Exact'
    BY <1>1, <1>3, <2>1, GotoFrame
    DEF IInv, TypeOK, Pcs, Where, LoopContracts, Exact
  <2>3. Searched'
    BY <1>1, <1>2, <1>3, <2>1, GotoFrame DEF IInv, Searched
  <2>. QED
    BY <2>2, <2>3 DEF IInv
<1>4. CASE call.op = "text_rfind"
  <2>1. Goto("rslice", i)
    BY <1>4 DEF Mismatch
  <2>2. TypeOK' /\ Where' /\ LoopContracts' /\ Exact'
    BY <1>1, <1>4, <2>1, GotoFrame
    DEF IInv, TypeOK, Pcs, Where, LoopContracts, Exact
  <2>3. Searched'
    BY <1>1, <1>2, <1>4, <2>1, GotoFrame DEF IInv, Searched
  <2>. QED
    BY <2>2, <2>3 DEF IInv
<1>5. CASE call.op \in {"starts_with", "ends_with"}
  <2>1. i = (IF call.op = "starts_with" THEN 0 ELSE H - M)
    BY <1>1, <1>5 DEF IInv, Where
  <2>2. Promised(call, Truth(FALSE))
    BY <1>1, <1>2, <1>5, <2>1, Affix
  <2>. QED
    BY <1>5, <2>2, AnswerIInv DEF Mismatch
<1>. QED
  BY <1>1, <1>3, <1>4, <1>5 DEF IInv, Where

LEMMA MatchedIInv ==
  ASSUME IInv, Matched
  PROVE  IInv'
<1>1. LegalCall(call) /\ H \in Nat /\ M \in Nat /\ i \in Nat /\ j \in Nat
        /\ pc = "match" /\ j = M /\ i + M <= H
  BY CallType DEF IInv, TypeOK, Matched, LoopContracts
<1>2. \A y \in 0 .. M - 1 : At(Hay, i + y) = At(Arg, y)
  BY <1>1 DEF IInv, Searched
<1>3. CASE call.op \in {"starts_with", "ends_with"}
  <2>1. Occurs(call, i)
    BY <1>1, <1>2 DEF Occurs, H, M, Hay, Arg
  <2>2. i = (IF call.op = "starts_with" THEN 0 ELSE H - M)
    BY <1>1, <1>3 DEF IInv, Where
  <2>3. Promised(call, Truth(TRUE))
    BY <1>1, <1>3, <2>1, <2>2, Affix
  <2>. QED
    BY <1>3, <2>3, AnswerIInv DEF Matched
<1>4. CASE call.op \in {"find_slice", "text_rfind"}
  <2>1. Promised(call, Some(i))
    BY <1>1, <1>2, <1>4, FoundSlice DEF IInv, Searched
  <2>. QED
    BY <1>4, <2>1, AnswerIInv DEF Matched
<1>. QED
  BY <1>1, <1>3, <1>4 DEF IInv, Where

LEMMA SpanStepIInv ==
  ASSUME IInv, SpanStep
  PROVE  IInv'
<1>1. LegalCall(call) /\ H \in Nat /\ M \in Nat /\ i \in Nat
  BY CallType DEF IInv, TypeOK
<1>2. Goto("member", i) /\ pc = "span" /\ i < H
  BY DEF SpanStep
<1>3. TypeOK' /\ Where' /\ LoopContracts' /\ Exact'
  BY <1>1, <1>2, GotoFrame DEF IInv, TypeOK, Pcs, Where, LoopContracts, Exact
<1>4. Searched'
  BY <1>1, <1>2, GotoFrame DEF IInv, Searched
<1>. QED
  BY <1>3, <1>4 DEF IInv

\* What set_contains found out is what membership means.
LEMMA DecideIInv ==
  ASSUME IInv, pc = "member",
         NEW found \in BOOLEAN, found <=> Member(call, i), Decide(found)
  PROVE  IInv'
<1>1. LegalCall(call) /\ H \in Nat /\ M \in Nat /\ i \in Nat /\ i < H
        /\ call.op \in {"span_in", "span_not_in", "strpbrk"}
  BY CallType DEF IInv, TypeOK, LoopContracts, Where
<1>2. CASE found <=> call.op = "span_in"
  <2>1. Goto("span", i + 1)
    BY <1>2 DEF Decide
  <2>2. TypeOK' /\ Where' /\ LoopContracts' /\ Exact'
    BY <1>1, <2>1, GotoFrame DEF IInv, TypeOK, Pcs, Where, LoopContracts, Exact
  <2>3. Searched'
    BY <1>1, <1>2, <2>1, GotoFrame DEF IInv, Searched
  <2>. QED
    BY <2>2, <2>3 DEF IInv
<1>3. CASE ~(found <=> call.op = "span_in")
  <2>1. Promised(call, SpanAnswer(i))
    BY <1>1, <1>3, SpanFound DEF IInv, Searched
  <2>. QED
    BY <1>3, <2>1, AnswerIInv DEF Decide
<1>. QED
  BY <1>2, <1>3

LEMMA MemberStepIInv ==
  ASSUME IInv, MemberStep
  PROVE  IInv'
<1>1. LegalCall(call) /\ H \in Nat /\ M \in Nat /\ i \in Nat /\ j \in Nat
        /\ pc = "member" /\ j < M
  BY CallType DEF IInv, TypeOK, MemberStep
<1>2. CASE At(Arg, j) = At(Hay, i)
  <2>1. Member(call, i)
    BY <1>1, <1>2 DEF Member, M, Hay, Arg
  <2>. QED
    BY <1>1, <1>2, <2>1, DecideIInv DEF MemberStep
<1>3. CASE At(Arg, j) # At(Hay, i)
  <2>1. /\ call' = call /\ pc' = pc /\ i' = i /\ j' = j + 1 /\ answer' = answer
        /\ Hay' = Hay /\ Arg' = Arg /\ H' = H /\ M' = M
    BY <1>3 DEF MemberStep, Hay, Arg, H, M
  <2>2. TypeOK' /\ Where' /\ LoopContracts' /\ Exact'
    BY <1>1, <2>1 DEF IInv, TypeOK, Where, LoopContracts, Exact
  <2>3. Searched'
    BY <1>1, <1>3, <2>1 DEF IInv, Searched
  <2>. QED
    BY <2>2, <2>3 DEF IInv
<1>. QED
  BY <1>2, <1>3

LEMMA NotMemberIInv ==
  ASSUME IInv, NotMember
  PROVE  IInv'
<1>1. M \in Nat /\ j \in Nat /\ pc = "member" /\ j >= M
  BY CallType DEF IInv, TypeOK, NotMember
<1>2. ~Member(call, i)
  BY <1>1 DEF IInv, Searched, Member, M, Hay, Arg
<1>. QED
  BY <1>1, <1>2, DecideIInv DEF NotMember

LEMMA SpanEndIInv ==
  ASSUME IInv, SpanEnd
  PROVE  IInv'
<1>1. LegalCall(call) /\ H \in Nat /\ i \in Nat /\ pc = "span" /\ i = H
  BY CallType DEF IInv, TypeOK, SpanEnd, LoopContracts
<1>2. Promised(call, SpanAnswer(H))
  BY <1>1, SpanFound DEF IInv, Where, Searched
<1>. QED
  BY <1>2, AnswerIInv DEF SpanEnd

\* Every step of every loop keeps the inductive invariant.
LEMMA NextIInv ==
  ASSUME IInv, [Next]_vars
  PROVE  IInv'
<1>1. CASE UNCHANGED vars
  <2>1. /\ call' = call /\ pc' = pc /\ i' = i /\ j' = j /\ answer' = answer
        /\ Hay' = Hay /\ Arg' = Arg /\ H' = H /\ M' = M
        /\ Limit' = Limit /\ Sought' = Sought
    BY <1>1 DEF vars, Hay, Arg, H, M, Limit, Sought
  <2>. QED
    BY <2>1 DEF IInv, TypeOK, Where, LoopContracts, Searched, Exact
<1>2. CASE Next
  BY <1>2, EnterIInv, FindStepIInv, RFindStepIInv, SliceStepIInv, NotFoundIInv,
     MatchStepIInv, MismatchIInv, MatchedIInv, SpanStepIInv, MemberStepIInv,
     NotMemberIInv, SpanEndIInv
  DEF Next
<1>. QED
  BY <1>1, <1>2

-----------------------------------------------------------------------------
(* The theorems.                                                             *)

\* The inductive invariant holds of every call: where each loop can be, its
\* contracts, and what the part of the text behind it is known not to hold.
THEOREM SearchInvariant == Spec => []IInv
BY InitIInv, NextIInv, PTL DEF Spec

\* Every search and span of the library answers what its name promises, on
\* every text, needle, set, count and byte.
THEOREM SearchExact == Spec => []Exact
<1>1. IInv => Exact
  BY DEF IInv
<1>. QED
  BY <1>1, SearchInvariant, PTL

\* No loop contract of these functions is ever false, and so none of them can
\* stop the program or read outside its slice.
THEOREM NoSearchContractFails == Spec => []LoopContracts
<1>1. IInv => LoopContracts
  BY DEF IInv
<1>. QED
  BY <1>1, SearchInvariant, PTL
-----------------------------------------------------------------------------
(* Termination. The fairness is a run's; that no step can be taken forever is   *)
(* proved: the phase goes down, or the work left in it does.                    *)

Phase == IF pc = "entry" THEN 2 ELSE IF pc = "answered" THEN 0 ELSE 1

\* The candidates not yet tried. A search for a slice goes from the outer loop to
\* the match at an offset and back for each of them, a span to the set and back.
Outer ==
  CASE pc = "find"   -> Limit - i
    [] pc \in {"rfind", "rslice"} -> 2 * i
    [] pc = "slice"  -> 2 * (LastStart + 1 - i) + 1
    [] pc = "span"   -> 2 * (H - i) + 1
    [] pc = "match" /\ call.op = "find_slice" -> 2 * (LastStart + 1 - i)
    [] pc = "match" /\ call.op = "text_rfind" -> 2 * i + 1
    [] pc = "member" -> 2 * (H - i)
    [] OTHER -> 0

\* The bytes of the argument not yet compared with one candidate.
Inner == IF pc \in {"match", "member"} THEN M - j ELSE 0

\* Every step brings the answer closer.
Closer ==
  \/ Phase' < Phase
  \/ /\ Phase' = Phase /\ Outer' \in Nat /\ Inner' \in Nat
     /\ \/ Outer' < Outer
        \/ Outer' = Outer /\ Inner' < Inner

LEMMA EnterCloser == IInv /\ Enter => Closer
<1>1. (pc = "entry" /\ pc' # "entry") => Closer
  BY DEF Closer, Phase
<1>. QED
  BY <1>1 DEF Enter, EnterFind, EnterRFind, FindTerminator, EnterStrChr,
    EnterStrRChr, EmptyNeedle, TooLong, EnterSlice, EnterRSlice, EnterAffix,
    EnterSpan, Entry, Goto, Answer

LEMMA AnswerCloser ==
  ASSUME IInv, pc # "entry", pc # "answered", pc' = "answered"
  PROVE  Closer
<1>1. Phase = 1 /\ Phase' = 0
  BY DEF Phase
<1>. QED
  BY <1>1 DEF Closer

LEMMA LoopCloser ==
  ASSUME IInv, pc \in Pcs \ {"entry", "answered"}, pc' \in Pcs \ {"entry", "answered"},
         Outer' \in Nat, Outer' < Outer, Inner' \in Nat
  PROVE  Closer
<1>1. Phase = 1 /\ Phase' = 1
  BY DEF Phase
<1>. QED
  BY <1>1 DEF Closer

LEMMA Sizes ==
  ASSUME IInv
  PROVE  H \in Nat /\ M \in Nat /\ i \in Nat /\ j \in Nat /\ call.n \in Nat /\ Limit \in Nat
<1>1. call.hay \in Seq(Byte) /\ call.arg \in Seq(Byte) /\ call.n \in Nat
  BY DEF IInv, TypeOK, LegalCall
<1>2. H \in Nat /\ M \in Nat
  BY <1>1 DEF H, M
<1>. QED
  BY <1>1, <1>2 DEF IInv, TypeOK, Limit

LEMMA GotoCloser ==
  ASSUME IInv, NEW p, NEW x, Goto(p, x)
  PROVE  /\ pc' = p /\ i' = x /\ j' = 0 /\ call' = call
         /\ H' = H /\ M' = M /\ Limit' = Limit /\ LastStart' = LastStart
  BY DEF Goto, H, M, Limit, LastStart

LEMMA FindCloser == IInv /\ (FindStep \/ RFindStep) => Closer
<1>. SUFFICES ASSUME IInv, FindStep \/ RFindStep PROVE Closer
  OBVIOUS
<1>. USE Sizes
<1>1. CASE FindStep
  <2>1. CASE Answer(Some(i))
    BY <1>1, <2>1, AnswerCloser DEF FindStep, Answer
  <2>2. CASE Goto("find", i + 1)
    <3>1. Outer = Limit - i /\ Outer' = Limit - (i + 1) /\ Inner' = 0
      BY <1>1, <2>2, GotoCloser DEF FindStep, Outer, Inner
    <3>2. i < Limit /\ pc = "find" /\ pc' = "find"
      BY <1>1, <2>2, GotoCloser DEF FindStep
    <3>. QED
      BY <3>1, <3>2, LoopCloser DEF Pcs
  <2>. QED
    BY <1>1, <2>1, <2>2 DEF FindStep
<1>2. CASE RFindStep
  <2>1. CASE Answer(Some(i - 1))
    BY <1>2, <2>1, AnswerCloser DEF RFindStep, Answer
  <2>2. CASE Goto("rfind", i - 1)
    <3>1. Outer = 2 * i /\ Outer' = 2 * (i - 1) /\ Inner' = 0
      BY <1>2, <2>2, GotoCloser DEF RFindStep, Outer, Inner
    <3>2. i > 0 /\ pc = "rfind" /\ pc' = "rfind"
      BY <1>2, <2>2, GotoCloser DEF RFindStep
    <3>. QED
      BY <3>1, <3>2, LoopCloser DEF Pcs
  <2>. QED
    BY <1>2, <2>1, <2>2 DEF RFindStep
<1>. QED
  BY <1>1, <1>2

LEMMA OffsetCloser == IInv /\ (SliceStep \/ RSliceStep \/ SpanStep) => Closer
<1>. SUFFICES ASSUME IInv, SliceStep \/ RSliceStep \/ SpanStep PROVE Closer
  OBVIOUS
<1>. USE Sizes
<1>1. CASE SliceStep
  <2>1. Goto("match", i) /\ pc = "slice" /\ i <= LastStart /\ call.op = "find_slice"
    BY <1>1 DEF SliceStep, IInv, Where
  <2>2. Outer = 2 * (LastStart + 1 - i) + 1 /\ Outer' = 2 * (LastStart + 1 - i)
        /\ Inner' = M /\ pc' = "match"
    BY <2>1, GotoCloser DEF Outer, Inner
  <2>. QED
    BY <2>1, <2>2, LoopCloser DEF Pcs, LastStart
<1>2. CASE RSliceStep
  <2>1. Goto("match", i - 1) /\ pc = "rslice" /\ i > 0 /\ call.op = "text_rfind"
    BY <1>2 DEF RSliceStep, IInv, Where
  <2>2. Outer = 2 * i /\ Outer' = 2 * (i - 1) + 1 /\ Inner' = M /\ pc' = "match"
    BY <2>1, GotoCloser DEF Outer, Inner
  <2>. QED
    BY <2>1, <2>2, LoopCloser DEF Pcs
<1>3. CASE SpanStep
  <2>1. Goto("member", i) /\ pc = "span" /\ i < H
    BY <1>3 DEF SpanStep
  <2>2. Outer = 2 * (H - i) + 1 /\ Outer' = 2 * (H - i) /\ Inner' = M /\ pc' = "member"
    BY <2>1, GotoCloser DEF Outer, Inner
  <2>. QED
    BY <2>1, <2>2, LoopCloser DEF Pcs
<1>. QED
  BY <1>1, <1>2, <1>3

\* A byte of the argument is dealt with, and the candidate stays.
LEMMA ByteCloser ==
  ASSUME IInv, pc \in {"match", "member"}, j < M, j' = j + 1,
         UNCHANGED <<call, pc, i, answer>>
  PROVE  Closer
<1>. USE Sizes
<1>1. H' = H /\ M' = M /\ LastStart' = LastStart /\ pc' = pc /\ i' = i /\ call' = call
  BY DEF H, M, LastStart
<1>2. Inner = M - j /\ Inner' = M - (j + 1)
  BY <1>1 DEF Inner
<1>3. Phase' = Phase /\ Outer' = Outer
  BY <1>1 DEF Phase, Outer
<1>4. Outer \in Nat
  <2>1. CASE pc = "match"
    BY <2>1 DEF IInv, LoopContracts, Where, Outer, LastStart
  <2>2. CASE pc = "member"
    BY <2>2 DEF IInv, LoopContracts, Outer
  <2>. QED
    BY <2>1, <2>2
<1>. QED
  BY <1>2, <1>3, <1>4 DEF Closer

LEMMA MismatchCloser == IInv /\ Mismatch => Closer
<1>. SUFFICES ASSUME IInv, Mismatch PROVE Closer
  OBVIOUS
<1>. USE Sizes
<1>0. pc = "match" /\ i + M <= H
  BY DEF Mismatch, IInv, LoopContracts
<1>1. CASE call.op = "find_slice" /\ Goto("slice", i + 1)
  <2>1. Outer = 2 * (LastStart + 1 - i) /\ Outer' = 2 * (LastStart + 1 - (i + 1)) + 1
        /\ Inner' = 0 /\ pc' = "slice"
    BY <1>0, <1>1, GotoCloser DEF Outer, Inner
  <2>. QED
    BY <1>0, <2>1, LoopCloser DEF Pcs, LastStart
<1>2. CASE call.op = "text_rfind" /\ Goto("rslice", i)
  <2>1. Outer = 2 * i + 1 /\ Outer' = 2 * i /\ Inner' = 0 /\ pc' = "rslice"
    BY <1>0, <1>2, GotoCloser DEF Outer, Inner
  <2>. QED
    BY <1>0, <2>1, LoopCloser DEF Pcs
<1>3. CASE Answer(Truth(FALSE))
  BY <1>0, <1>3, AnswerCloser DEF Answer
<1>. QED
  BY <1>1, <1>2, <1>3 DEF Mismatch

LEMMA DecideCloser ==
  ASSUME IInv, pc = "member", NEW b \in BOOLEAN, Decide(b)
  PROVE  Closer
<1>. USE Sizes
<1>1. CASE Goto("span", i + 1)
  <2>1. Outer = 2 * (H - i) /\ Outer' = 2 * (H - (i + 1)) + 1 /\ Inner' = 0
        /\ pc' = "span" /\ i < H
    BY <1>1, GotoCloser DEF Outer, Inner, IInv, LoopContracts
  <2>. QED
    BY <2>1, LoopCloser DEF Pcs
<1>2. CASE Answer(SpanAnswer(i))
  BY <1>2, AnswerCloser DEF Answer
<1>. QED
  BY <1>1, <1>2 DEF Decide

LEMMA NextCloser == IInv /\ Next => Closer
<1>. SUFFICES ASSUME IInv, Next PROVE Closer
  OBVIOUS
<1>1. CASE Enter
  BY <1>1, EnterCloser
<1>2. CASE FindStep \/ RFindStep
  BY <1>2, FindCloser
<1>3. CASE SliceStep \/ RSliceStep \/ SpanStep
  BY <1>3, OffsetCloser
<1>4. CASE NotFound \/ Matched \/ SpanEnd
  BY <1>4, AnswerCloser DEF NotFound, Matched, SpanEnd, Answer
<1>5. CASE MatchStep
  BY <1>5, ByteCloser DEF MatchStep
<1>6. CASE Mismatch
  BY <1>6, MismatchCloser
<1>7. CASE MemberStep
  <2>1. CASE Decide(TRUE)
    BY <1>7, <2>1, DecideCloser DEF MemberStep
  <2>2. CASE j' = j + 1 /\ UNCHANGED <<call, pc, i, answer>>
    BY <1>7, <2>2, ByteCloser DEF MemberStep
  <2>. QED
    BY <1>7, <2>1, <2>2 DEF MemberStep
<1>8. CASE NotMember
  BY <1>8, DecideCloser DEF NotMember
<1>. QED
  BY <1>1, <1>2, <1>3, <1>4, <1>5, <1>6, <1>7, <1>8 DEF Next

\* No search goes on forever: every step of a call ends its phase, or one
\* candidate, or one byte of a candidate, and there are finitely many of each.
\* What the code's loop variants would say, for texts of any length.
THEOREM SearchDescends == Spec => [][Closer]_vars
<1>1. IInv /\ [Next]_vars => [Closer]_vars
  BY NextCloser
<1>. QED
  BY <1>1, SearchInvariant, PTL DEF Spec
=============================================================================
