---------------------------- MODULE CompareProofs ----------------------------
(* Proofs about Compare, for every set of byte values, every alphabet of two   *)
(* cases in it, and every call.                                                *)
EXTENDS Compare, WellFoundedInduction, TLAPS

\* The least-number principle.
LEMMA LeastElement ==
  ASSUME NEW T \in SUBSET Nat, T # {}
  PROVE  \E x \in T : \A y \in T : x <= y
<1>. DEFINE R == OpToRel(<, Nat)
<1>1. IsWellFoundedOn(R, Nat)
  BY NatLessThanWellFounded
<1>2. PICK x \in T : \A y \in T : ~(<<y, x>> \in R)
  <2>. HIDE DEF R
  <2>. QED
    BY <1>1, WFMin
<1>3. \A y \in T : ~(y < x)
  BY <1>2 DEF OpToRel
<1>. QED
  BY <1>3

LEMMA CallType ==
  ASSUME LegalCall(call)
  PROVE  /\ call.op \in Ops /\ call.n \in Nat
         /\ call.a \in Seq(Byte) /\ call.b \in Seq(Byte)
         /\ La \in Nat /\ Lb \in Nat
BY DEF LegalCall, La, Lb

\* Folding keeps a byte a byte, and NUL the only NUL.
LEMMA FoldType ==
  ASSUME NEW op, NEW c \in Byte
  PROVE  Fold(op, c) \in Nat /\ (Fold(op, c) = 0 <=> c = 0)
BY CompareAssumption DEF Byte, Fold, ToLower

LEMMA SmallerType ==
  ASSUME NEW x \in Nat, NEW y \in Nat
  PROVE  /\ Smaller(x, y) \in Nat /\ Smaller(x, y) <= x /\ Smaller(x, y) <= y
         /\ Smaller(x, y) = x \/ Smaller(x, y) = y
BY DEF Smaller

LEMMA ExtentType ==
  ASSUME LegalCall(call)
  PROVE  Extent(call) \in Nat
<1>1. call.n \in Nat /\ La \in Nat /\ Lb \in Nat
  BY CallType
<1>2. Smaller(Smaller(call.n, La), Lb) \in Nat /\ La + Lb \in Nat
  BY <1>1, SmallerType
<1>3. CASE call.op = "memcmp"
  BY <1>2, <1>3 DEF Extent, La, Lb
<1>4. CASE call.op \in Bounded \cup {"prefix_ignore_case"}
  BY <1>1, <1>2, <1>4 DEF Extent, La, Lb
<1>5. CASE call.op \notin Bounded \cup {"memcmp", "prefix_ignore_case"}
  <2>1. Extent(call) = La + Lb
    BY <1>5 DEF Extent, La, Lb
  <2>. QED
    BY <1>2, <2>1
<1>. QED
  BY <1>3, <1>4, <1>5

-----------------------------------------------------------------------------
(* What a window of an operand has to do with what is seen of it.             *)

\* What is seen behind the end of an operand.
EndValue == IF call.op \in Bounded \cup OnCStrs THEN 0 ELSE -1

\* Inside its window an operand is seen as it is, above any end.
LEMMA SeenInside ==
  ASSUME LegalCall(call), NEW s \in {call.a, call.b},
         NEW c \in Nat, Window(s, c), c <= Len(s), NEW x \in Nat, x < c
  PROVE  /\ Seen(call.op, s, x) = Fold(call.op, At(s, x))
         /\ Seen(call.op, s, x) \in Nat
         /\ Seen(call.op, s, x) > EndValue
<1>1. s \in Seq(Byte) /\ Len(s) \in Nat /\ call.n \in Nat
  BY CallType
<1>2. At(s, x) \in Byte
  BY <1>1 DEF At
<1>3. Fold(call.op, At(s, x)) \in Nat
        /\ (Fold(call.op, At(s, x)) = 0 <=> At(s, x) = 0)
  BY <1>2, FoldType
<1>4. CASE call.op \in Bounded \cup OnCStrs
  <2>1. \A y \in 0 .. x : At(s, y) # 0
    <3>1. CASE call.op \in Bounded
      BY <1>1, <3>1 DEF Window, EndsAt
    <3>2. CASE call.op \in OnCStrs
      BY <1>1, <3>2 DEF LegalCall, HasNul, At
    <3>. QED
      BY <1>4, <3>1, <3>2
  <2>. QED
    BY <1>1, <1>3, <1>4, <2>1 DEF Seen, CSeen, EndValue
<1>5. CASE call.op \notin Bounded \cup OnCStrs
  BY <1>1, <1>3, <1>5 DEF Seen, SliceSeen, EndValue
<1>. QED
  BY <1>4, <1>5

\* From its window to the extent of the comparison an operand has ended.
LEMMA SeenPast ==
  ASSUME LegalCall(call), NEW s \in {call.a, call.b},
         NEW c \in Nat, Window(s, c), c <= Len(s),
         NEW x \in Nat, c <= x, x < Extent(call)
  PROVE  Seen(call.op, s, x) = EndValue
<1>1. s \in Seq(Byte) /\ Len(s) \in Nat /\ call.n \in Nat /\ Extent(call) \in Nat
        /\ Len(call.a) \in Nat /\ Len(call.b) \in Nat
  BY CallType, ExtentType DEF La, Lb
<1>2. CASE call.op \in Bounded
  <2>1. call.op # "memcmp" /\ Extent(call) = call.n
    BY <1>2 DEF Extent, Bounded
  <2>2. c < Len(s) => c \in 0 .. x /\ At(s, c) = 0
    BY <1>1, <1>2, <2>1 DEF Window, EndsAt, Smaller
  <2>3. ~(x < Len(s) /\ \A y \in 0 .. x : At(s, y) # 0)
    BY <1>1, <2>2
  <2>. QED
    BY <1>2, <2>3 DEF Seen, CSeen, EndValue
<1>3. CASE call.op \in OnCStrs
  <2>1. c = Len(s)
    BY <1>3 DEF Window, OnCStrs, Bounded
  <2>. QED
    BY <1>1, <1>3, <2>1 DEF Seen, CSeen, EndValue
<1>4. CASE call.op \notin Bounded \cup OnCStrs
  <2>1. call.op = "memcmp" => FALSE
    BY <1>1 DEF Window
  <2>2. call.op = "prefix_ignore_case" => Extent(call) = call.n /\ c = Smaller(call.n, Len(s))
    BY DEF Extent, Window
  <2>3. c = Len(s)
    BY <1>1, <1>4, <2>1, <2>2 DEF Window, Smaller
  <2>. QED
    BY <1>1, <1>4, <2>3 DEF Seen, SliceSeen, EndValue
<1>. QED
  BY <1>2, <1>3, <1>4

\* No window is longer than what the call may look at.
LEMMA WindowInExtent ==
  ASSUME LegalCall(call), NEW s \in {call.a, call.b}, NEW c \in Nat, Window(s, c)
  PROVE  c <= Extent(call)
<1>1. La \in Nat /\ Lb \in Nat /\ call.n \in Nat
  BY CallType
<1>2. CASE call.op \in Bounded
  <2>1. Extent(call) = call.n
    BY <1>2 DEF Extent, Bounded
  <2>2. c <= Smaller(call.n, La) \/ c <= Smaller(call.n, Lb)
    BY <1>2 DEF Window, EndsAt, La, Lb
  <2>3. /\ Smaller(call.n, La) \in Nat /\ Smaller(call.n, La) <= call.n
        /\ Smaller(call.n, Lb) \in Nat /\ Smaller(call.n, Lb) <= call.n
    BY <1>1, SmallerType
  <2>. QED
    BY <1>1, <2>1, <2>2, <2>3
<1>3. CASE call.op = "memcmp"
  BY <1>1, <1>3, ExtentType DEF Window
<1>4. CASE call.op = "prefix_ignore_case"
  <2>1. Extent(call) = call.n
    BY <1>4 DEF Extent
  <2>2. c = Smaller(call.n, La) \/ c = Smaller(call.n, Lb)
    BY <1>4 DEF Window, La, Lb
  <2>. QED
    BY <1>1, <2>1, <2>2, SmallerType
<1>5. CASE call.op \notin Bounded \cup {"memcmp", "prefix_ignore_case"}
  <2>1. Extent(call) = La + Lb
    BY <1>5 DEF Extent, La, Lb
  <2>2. c = La \/ c = Lb
    BY <1>5 DEF Window, La, Lb
  <2>. QED
    BY <1>1, <2>1, <2>2
<1>. QED
  BY <1>2, <1>3, <1>4, <1>5

-----------------------------------------------------------------------------
(* What each answer of the loop promises.                                     *)

LEMMA AnswerIInv ==
  ASSUME IInv, NEW r, Answer(r), Promised(call, r)
  PROVE  IInv'
<1>1. TypeOK' /\ LoopContracts'
  BY DEF IInv, TypeOK, LoopContracts, Answer, La, Lb
<1>2. Compared' /\ Exact'
  BY DEF Compared, Exact, Answer
<1>. QED
  BY <1>1, <1>2 DEF IInv

\* The orderings are different answers.
LEMMA Distinct == Less # Equal /\ Greater # Equal /\ Less # Greater
BY DEF Less, Equal, Greater

\* An ordering, or the Boolean it is turned into, is what was promised.
LEMMA ResultPromised ==
  ASSUME ~Refused, NEW o \in {Less, Equal, Greater}, Ordered(call, o),
         o # Equal => \E x \in 0 .. Extent(call) - 1 : ~Alike(call, x)
  PROVE  Promised(call, Result(o))
<1>1. CASE call.op \in {"equal", "equal_ignore_case"}
  <2>. DEFINE same == \A x \in 0 .. Extent(call) - 1 : Alike(call, x)
  <2>1. (o = Equal) <=> same
    BY Distinct DEF Ordered
  <2>2. (o = Equal) = same
    BY <2>1
  <2>3. Result(o) = Truth(same)
    BY <1>1, <2>2 DEF Result
  <2>. QED
    BY <1>1, <2>3 DEF Promised, Refused
<1>2. CASE call.op \notin {"equal", "equal_ignore_case"}
  BY <1>2 DEF Promised, Result, Refused
<1>. QED
  BY <1>1, <1>2

\* What the loop knows where it ends.
Reached ==
  /\ LegalCall(call) /\ ~Refused
  /\ ac \in Nat /\ bc \in Nat /\ ac <= La /\ bc <= Lb
  /\ Window(call.a, ac) /\ Window(call.b, bc)
  /\ i \in Nat /\ i <= ac /\ i <= bc
  /\ \A y \in 0 .. i - 1 : AByte(y) = BByte(y)

LEMMA InLoop ==
  ASSUME IInv, pc = "compare"
  PROVE  Reached
BY DEF IInv, TypeOK, LoopContracts, Compared, Reached

LEMMA AlikeBefore ==
  ASSUME Reached
  PROVE  \A y \in 0 .. i - 1 : Alike(call, y)
<1>. TAKE y \in 0 .. i - 1
<1>1. y \in Nat /\ y < ac /\ y < bc /\ AByte(y) = BByte(y)
  BY DEF Reached
<1>2. Seen(call.op, call.a, y) = AByte(y)
  BY <1>1, SeenInside DEF Reached, AByte, La
<1>3. Seen(call.op, call.b, y) = BByte(y)
  BY <1>1, SeenInside DEF Reached, BByte, Lb
<1>. QED
  BY <1>1, <1>2, <1>3 DEF Alike

\* A difference at i, in what is seen there, is the first one.
LEMMA FirstDifference ==
  ASSUME Reached, i < Extent(call), NEW o \in {Less, Greater},
         o = Less => Seen(call.op, call.a, i) < Seen(call.op, call.b, i),
         o = Greater => Seen(call.op, call.a, i) > Seen(call.op, call.b, i),
         Seen(call.op, call.a, i) \in Int, Seen(call.op, call.b, i) \in Int
  PROVE  Promised(call, Result(o))
<1>1. i \in 0 .. Extent(call) - 1 /\ ~Refused
  BY ExtentType DEF Reached
<1>2. ~Alike(call, i)
  BY DEF Alike
<1>3. Ordered(call, o)
  BY <1>1, AlikeBefore DEF Ordered
<1>. QED
  BY <1>1, <1>2, <1>3, ResultPromised

LEMMA InitIInv == Init => IInv
BY CompareAssumption
DEF Init, IInv, TypeOK, LoopContracts, Compared, Exact, La, Lb

-----------------------------------------------------------------------------
(* One lemma per action.                                                      *)

\* Steps from one loop to another keep the call and its operands.
LEMMA GotoFrame ==
  ASSUME NEW p, NEW x, NEW y, Goto(p, x, y)
  PROVE  /\ pc' = p /\ i' = 0 /\ ac' = x /\ bc' = y
         /\ call' = call /\ answer' = answer
BY DEF Goto

\* A loop is entered with windows that are within the operands.
LEMMA EnterLoop ==
  ASSUME IInv, NEW x \in Nat, NEW y \in Nat, ~Refused,
         Goto("compare", x, y), x <= La, y <= Lb,
         Window(call.a, x), Window(call.b, y),
         call.op = "equal_ignore_case" => x = y
  PROVE  IInv'
<1>1. TypeOK'
  BY GotoFrame DEF IInv, TypeOK
<1>2. LoopContracts'
  BY GotoFrame DEF LoopContracts, La, Lb
<1>3. Compared' /\ Exact'
  BY GotoFrame DEF Compared, Exact, Refused, Window
<1>. QED
  BY <1>1, <1>2, <1>3 DEF IInv

LEMMA EnterIInv ==
  ASSUME IInv, EnterWhole \/ EnterMemCmp \/ EnterPrefix
  PROVE  IInv'
<1>1. LegalCall(call) /\ La \in Nat /\ Lb \in Nat /\ call.n \in Nat
  BY CallType DEF IInv, TypeOK
<1>2. CASE EnterWhole
  <2>1. ~Refused /\ Goto("compare", La, Lb)
          /\ call.op \notin Bounded \cup {"memcmp", "prefix_ignore_case"}
          /\ (call.op = "equal_ignore_case" => La = Lb)
    BY <1>2 DEF EnterWhole
  <2>2. Window(call.a, La) /\ Window(call.b, Lb)
    BY <2>1 DEF Window, La, Lb
  <2>. QED
    BY <1>1, <2>1, <2>2, EnterLoop
<1>3. CASE EnterMemCmp
  <2>. DEFINE lim == Smaller(Smaller(call.n, La), Lb)
  <2>1. lim \in Nat /\ lim <= La /\ lim <= Lb
    BY <1>1, SmallerType
  <2>2. Goto("compare", lim, lim) /\ call.op = "memcmp"
    BY <1>3 DEF EnterMemCmp
  <2>3. lim = Extent(call)
    BY <2>2 DEF Extent, La, Lb
  <2>. HIDE DEF lim
  <2>4. Window(call.a, lim) /\ Window(call.b, lim) /\ ~Refused
    BY <2>2, <2>3 DEF Window, Bounded, Refused, Explicit
  <2>. QED
    BY <2>1, <2>2, <2>4, EnterLoop
<1>4. CASE EnterPrefix
  <2>1. /\ Smaller(call.n, La) \in Nat /\ Smaller(call.n, La) <= La
        /\ Smaller(call.n, Lb) \in Nat /\ Smaller(call.n, Lb) <= Lb
    BY <1>1, SmallerType
  <2>2. Goto("compare", Smaller(call.n, La), Smaller(call.n, Lb))
          /\ call.op = "prefix_ignore_case"
    BY <1>4 DEF EnterPrefix
  <2>3. Window(call.a, Smaller(call.n, La)) /\ Window(call.b, Smaller(call.n, Lb))
          /\ ~Refused
    BY <2>2 DEF Window, Bounded, Refused, Explicit, La, Lb
  <2>. QED
    BY <2>1, <2>2, <2>3, EnterLoop
<1>. QED
  BY <1>2, <1>3, <1>4

LEMMA EnterBoundedIInv ==
  ASSUME IInv, EnterBounded
  PROVE  IInv'
<1>1. LegalCall(call) /\ La \in Nat /\ Lb \in Nat /\ call.n \in Nat
  BY CallType DEF IInv, TypeOK
<1>2. /\ Smaller(call.n, La) \in Nat /\ Smaller(call.n, La) <= La
      /\ Smaller(call.n, Lb) \in Nat /\ Smaller(call.n, Lb) <= Lb
  BY <1>1, SmallerType
<1>3. /\ Goto("bound_a", Smaller(call.n, La), Smaller(call.n, Lb))
      /\ ~Refused /\ call.op \in Bounded
  BY DEF EnterBounded
<1>4. TypeOK'
  BY <1>2, <1>3, GotoFrame DEF IInv, TypeOK
<1>5. LoopContracts'
  BY <1>2, <1>3, GotoFrame DEF LoopContracts, La, Lb
<1>6. Compared' /\ Exact'
  BY <1>3, GotoFrame DEF Compared, Exact, Refused, La, Lb
<1>. QED
  BY <1>4, <1>5, <1>6 DEF IInv

LEMMA BoundStepIInv ==
  ASSUME IInv, BoundStep
  PROVE  IInv'
<1>1. /\ LegalCall(call) /\ i \in Nat /\ ac \in Nat /\ bc \in Nat
      /\ i' = i + 1 /\ pc \in {"bound_a", "bound_b"}
      /\ UNCHANGED <<call, pc, ac, bc, answer>>
  BY DEF IInv, TypeOK, BoundStep
<1>2. TypeOK'
  BY <1>1 DEF IInv, TypeOK
<1>3. LoopContracts'
  BY <1>1 DEF IInv, LoopContracts, BoundStep, La, Lb
<1>4. Compared' /\ Exact'
  BY <1>1 DEF IInv, Compared, Exact, BoundStep, Refused, La, Lb, EndsAt
<1>. QED
  BY <1>2, <1>3, <1>4 DEF IInv

LEMMA BoundedAIInv ==
  ASSUME IInv, BoundedA
  PROVE  IInv'
<1>1. /\ LegalCall(call) /\ La \in Nat /\ Lb \in Nat /\ call.n \in Nat
      /\ i \in Nat /\ ac \in Nat /\ bc \in Nat /\ pc = "bound_a"
      /\ i <= ac /\ ac = Smaller(call.n, La) /\ ac <= La
      /\ \A y \in 0 .. i - 1 : At(call.a, y) # 0
  BY CallType DEF IInv, TypeOK, LoopContracts, Compared, BoundedA
<1>2. PICK x \in Nat : /\ x <= ac /\ Goto("bound_b", x, bc)
                       /\ \A y \in 0 .. x - 1 : At(call.a, y) # 0
                       /\ x < ac => At(call.a, x) = 0
  <2>1. CASE i < ac
    BY <1>1, <2>1 DEF BoundedA
  <2>2. CASE i >= ac
    <3>1. i = ac
      BY <1>1, <2>2
    <3>. QED
      BY <1>1, <2>2, <3>1 DEF BoundedA
  <2>. QED
    BY <1>1, <2>1, <2>2
<1>3. EndsAt(call.a, call.n, x)
  BY <1>1, <1>2 DEF EndsAt, La
<1>4. TypeOK'
  BY <1>2, GotoFrame DEF IInv, TypeOK
<1>5. LoopContracts'
  BY <1>1, <1>2, GotoFrame DEF IInv, LoopContracts, La, Lb
<1>6. Compared' /\ Exact'
  BY <1>1, <1>2, <1>3, GotoFrame DEF IInv, Compared, Exact, Refused, Lb
<1>. QED
  BY <1>4, <1>5, <1>6 DEF IInv

LEMMA BoundedBIInv ==
  ASSUME IInv, BoundedB
  PROVE  IInv'
<1>1. /\ LegalCall(call) /\ La \in Nat /\ Lb \in Nat /\ call.n \in Nat
      /\ i \in Nat /\ ac \in Nat /\ bc \in Nat /\ pc = "bound_b"
      /\ i <= bc /\ bc = Smaller(call.n, Lb) /\ ac <= La /\ bc <= Lb
      /\ EndsAt(call.a, call.n, ac) /\ call.op \in Bounded /\ ~Refused
      /\ \A y \in 0 .. i - 1 : At(call.b, y) # 0
  BY CallType DEF IInv, TypeOK, LoopContracts, Compared, BoundedB
<1>2. PICK x \in Nat : /\ x <= bc /\ Goto("compare", ac, x)
                       /\ \A y \in 0 .. x - 1 : At(call.b, y) # 0
                       /\ x < bc => At(call.b, x) = 0
  <2>1. CASE i < bc
    BY <1>1, <2>1 DEF BoundedB
  <2>2. CASE i >= bc
    <3>1. i = bc
      BY <1>1, <2>2
    <3>. QED
      BY <1>1, <2>2, <3>1 DEF BoundedB
  <2>. QED
    BY <1>1, <2>1, <2>2
<1>3. EndsAt(call.b, call.n, x)
  BY <1>1, <1>2 DEF EndsAt, Lb
<1>4. Window(call.a, ac) /\ Window(call.b, x) /\ call.op # "equal_ignore_case"
  BY <1>1, <1>3 DEF Window, Bounded
<1>. QED
  BY <1>1, <1>2, <1>4, EnterLoop

LEMMA DifferIInv ==
  ASSUME IInv, Differ
  PROVE  IInv'
<1>1. Reached /\ i < ac /\ i < bc
  BY InLoop DEF Differ
<1>2. i < Extent(call)
  BY <1>1, WindowInExtent, ExtentType DEF Reached
<1>3. /\ Seen(call.op, call.a, i) = AByte(i) /\ Seen(call.op, call.a, i) \in Nat
      /\ Seen(call.op, call.b, i) = BByte(i) /\ Seen(call.op, call.b, i) \in Nat
  BY <1>1, SeenInside DEF Reached, AByte, BByte, La, Lb
<1>4. CASE AByte(i) < BByte(i) /\ Answer(Result(Less))
  <2>1. Promised(call, Result(Less))
    BY <1>1, <1>2, <1>3, <1>4, FirstDifference, Distinct
  <2>. QED
    BY <1>4, <2>1, AnswerIInv
<1>5. CASE AByte(i) > BByte(i) /\ Answer(Result(Greater))
  <2>1. Promised(call, Result(Greater))
    BY <1>1, <1>2, <1>3, <1>5, FirstDifference, Distinct
  <2>. QED
    BY <1>5, <2>1, AnswerIInv
<1>. QED
  BY <1>4, <1>5 DEF Differ

LEMMA CompareStepIInv ==
  ASSUME IInv, CompareStep
  PROVE  IInv'
<1>1. /\ LegalCall(call) /\ i \in Nat /\ ac \in Nat /\ bc \in Nat
      /\ i' = i + 1 /\ pc = "compare" /\ i < ac /\ i < bc
      /\ AByte(i) = BByte(i)
      /\ UNCHANGED <<call, pc, ac, bc, answer>>
  BY DEF IInv, TypeOK, CompareStep
<1>2. TypeOK'
  BY <1>1 DEF IInv, TypeOK
<1>3. LoopContracts'
  BY <1>1 DEF IInv, LoopContracts, La, Lb
<1>4. Compared' /\ Exact'
  BY <1>1 DEF IInv, Compared, Exact, Refused, Window, AByte, BByte
<1>. QED
  BY <1>2, <1>3, <1>4 DEF IInv

LEMMA CompareEndIInv ==
  ASSUME IInv, CompareEnd
  PROVE  IInv'
<1>1. Reached /\ (i >= ac \/ i >= bc)
  BY InLoop DEF CompareEnd
<1>2. /\ i \in Nat /\ ac \in Nat /\ bc \in Nat /\ Extent(call) \in Nat
      /\ i <= ac /\ i <= bc /\ ac <= Extent(call) /\ bc <= Extent(call)
      /\ EndValue \in Int
  BY <1>1, WindowInExtent, ExtentType DEF Reached, EndValue
<1>3. CASE ac < bc
  <2>1. i = ac /\ i < Extent(call)
    BY <1>1, <1>2, <1>3
  <2>2. Seen(call.op, call.a, i) = EndValue
    BY <1>1, <2>1, SeenPast DEF Reached, La
  <2>3. Seen(call.op, call.b, i) \in Nat /\ Seen(call.op, call.b, i) > EndValue
    BY <1>1, <1>3, <2>1, SeenInside DEF Reached, Lb
  <2>4. Promised(call, Result(Less))
    BY <1>1, <1>2, <2>1, <2>2, <2>3, FirstDifference, Distinct
  <2>. QED
    BY <1>3, <2>4, AnswerIInv DEF CompareEnd
<1>4. CASE ac > bc
  <2>1. i = bc /\ i < Extent(call)
    BY <1>1, <1>2, <1>4
  <2>2. Seen(call.op, call.b, i) = EndValue
    BY <1>1, <2>1, SeenPast DEF Reached, Lb
  <2>3. Seen(call.op, call.a, i) \in Nat /\ Seen(call.op, call.a, i) > EndValue
    BY <1>1, <1>4, <2>1, SeenInside DEF Reached, La
  <2>4. Promised(call, Result(Greater))
    BY <1>1, <1>2, <2>1, <2>2, <2>3, FirstDifference, Distinct
  <2>5. ~(ac < bc)
    BY <1>2, <1>4
  <2>. QED
    BY <1>4, <2>4, <2>5, AnswerIInv DEF CompareEnd
<1>5. CASE ac = bc
  <2>1. i = ac /\ ~(ac < bc) /\ ~(ac > bc)
    BY <1>1, <1>2, <1>5
  <2>2. ASSUME NEW x \in 0 .. Extent(call) - 1 PROVE Alike(call, x)
    <3>1. CASE x < ac
      BY <1>1, <1>2, <2>1, <3>1, AlikeBefore
    <3>2. CASE x >= ac
      <4>1. x \in Nat /\ x < Extent(call)
        BY <1>2
      <4>2. Seen(call.op, call.a, x) = EndValue
        BY <1>1, <3>2, <4>1, SeenPast DEF Reached, La
      <4>3. Seen(call.op, call.b, x) = EndValue
        BY <1>1, <1>5, <3>2, <4>1, SeenPast DEF Reached, Lb
      <4>. QED
        BY <4>2, <4>3 DEF Alike
    <3>. QED
      BY <1>2, <3>1, <3>2
  <2>3. Promised(call, Result(Equal))
    BY <1>1, <2>2, ResultPromised DEF Ordered, Reached
  <2>. QED
    BY <2>1, <2>3, AnswerIInv DEF CompareEnd
<1>. QED
  BY <1>2, <1>3, <1>4, <1>5

LEMMA UnequalLengthsIInv ==
  ASSUME IInv, UnequalLengths
  PROVE  IInv'
<1>1. /\ LegalCall(call) /\ La \in Nat /\ Lb \in Nat /\ La # Lb
      /\ call.op = "equal_ignore_case" /\ Answer(Truth(FALSE))
  BY CallType DEF IInv, TypeOK, UnequalLengths
<1>2. Window(call.a, La) /\ Window(call.b, Lb)
  BY <1>1 DEF Window, Bounded, La, Lb
<1>3. La <= Extent(call) /\ Lb <= Extent(call) /\ Extent(call) \in Nat
        /\ EndValue \in Int
  BY <1>1, <1>2, WindowInExtent, ExtentType DEF EndValue
<1>4. \E x \in 0 .. Extent(call) - 1 : ~Alike(call, x)
  <2>1. CASE La < Lb
    <3>1. La \in 0 .. Extent(call) - 1
      BY <1>1, <1>3, <2>1
    <3>2. Seen(call.op, call.a, La) = EndValue
      <4>1. La <= La /\ La < Extent(call) /\ La <= Len(call.a)
        BY <1>1, <1>3, <3>1 DEF La
      <4>. QED
        BY <1>1, <1>2, <4>1, SeenPast
    <3>3. Seen(call.op, call.b, La) \in Nat /\ Seen(call.op, call.b, La) > EndValue
      BY <1>1, <1>2, <2>1, SeenInside DEF Lb
    <3>. QED
      BY <1>3, <3>1, <3>2, <3>3 DEF Alike
  <2>2. CASE Lb < La
    <3>1. Lb \in 0 .. Extent(call) - 1
      BY <1>1, <1>3, <2>2
    <3>2. Seen(call.op, call.b, Lb) = EndValue
      <4>1. Lb <= Lb /\ Lb < Extent(call) /\ Lb <= Len(call.b)
        BY <1>1, <1>3, <3>1 DEF Lb
      <4>. QED
        BY <1>1, <1>2, <4>1, SeenPast
    <3>3. Seen(call.op, call.a, Lb) \in Nat /\ Seen(call.op, call.a, Lb) > EndValue
      BY <1>1, <1>2, <2>2, SeenInside DEF La
    <3>. QED
      BY <1>3, <3>1, <3>2, <3>3 DEF Alike
  <2>. QED
    BY <1>1, <2>1, <2>2
<1>5. (\A x \in 0 .. Extent(call) - 1 : Alike(call, x)) = FALSE
  BY <1>4
<1>6. Promised(call, Truth(FALSE))
  BY <1>1, <1>5 DEF Promised, Explicit
<1>. QED
  BY <1>1, <1>6, AnswerIInv

\* Every step of every loop keeps the inductive invariant.
LEMMA NextIInv ==
  ASSUME IInv, [Next]_vars
  PROVE  IInv'
<1>1. CASE UNCHANGED vars
  BY <1>1 DEF vars, IInv, TypeOK, LoopContracts, Compared, Exact, Refused,
              Window, AByte, BByte, La, Lb
<1>2. CASE RefuseLocale
  BY <1>2, AnswerIInv DEF RefuseLocale, Promised, Refused
<1>3. CASE Next
  BY <1>2, <1>3, UnequalLengthsIInv, EnterIInv, EnterBoundedIInv, BoundStepIInv,
     BoundedAIInv, BoundedBIInv, DifferIInv, CompareStepIInv, CompareEndIInv
  DEF Next
<1>. QED
  BY <1>1, <1>3

-----------------------------------------------------------------------------
(* The theorems.                                                              *)

\* The inductive invariant holds of every call: how much of either operand is
\* compared, and that the loop has only equal bytes behind it.
THEOREM CompareInvariant == Spec => []IInv
BY InitIInv, NextIInv, PTL DEF Spec

\* Every comparison of the library, however it bounds its operands, gives the
\* order of the first difference that its name promises to see.
THEOREM CompareExact == Spec => []Exact
<1>1. IInv => Exact
  BY DEF IInv
<1>. QED
  BY <1>1, CompareInvariant, PTL

\* No loop contract of a comparison is ever false.
THEOREM NoCompareContractFails == Spec => []LoopContracts
<1>1. IInv => LoopContracts
  BY DEF IInv
<1>. QED
  BY <1>1, CompareInvariant, PTL

-----------------------------------------------------------------------------
(* The order that the answers describe.                                       *)

Below(op, s, t) ==
  \E x \in Nat : /\ Seen(op, s, x) < Seen(op, t, x)
                 /\ \A y \in 0 .. x - 1 : Seen(op, s, y) = Seen(op, t, y)

Same(op, s, t) == \A x \in Nat : Seen(op, s, x) = Seen(op, t, x)

LEMMA SeenType ==
  ASSUME NEW op, NEW s \in Seq(Byte), NEW x \in Nat
  PROVE  Seen(op, s, x) \in Int
<1>1. CASE x < Len(s)
  <2>1. At(s, x) \in Byte
    BY <1>1 DEF At
  <2>. QED
    BY <2>1, FoldType DEF Seen, CSeen, SliceSeen
<1>2. CASE ~(x < Len(s))
  BY <1>2 DEF Seen, CSeen, SliceSeen
<1>. QED
  BY <1>1, <1>2

\* Any two operands are the same, or one is below the other: what makes the
\* answers usable by a sort.
THEOREM OrderTotal ==
  ASSUME NEW op, NEW s \in Seq(Byte), NEW t \in Seq(Byte)
  PROVE  Same(op, s, t) \/ Below(op, s, t) \/ Below(op, t, s)
<1>. DEFINE D == {x \in Nat : Seen(op, s, x) # Seen(op, t, x)}
<1>1. CASE D = {}
  BY <1>1 DEF Same
<1>2. CASE D # {}
  <2>1. PICK x \in D : \A y \in D : x <= y
    <3>1. D \in SUBSET Nat
      OBVIOUS
    <3>. HIDE DEF D
    <3>. QED
      BY <1>2, <3>1, LeastElement
  <2>2. x \in Nat /\ Seen(op, s, x) \in Int /\ Seen(op, t, x) \in Int
          /\ Seen(op, s, x) # Seen(op, t, x)
    BY SeenType
  <2>3. \A y \in 0 .. x - 1 : Seen(op, s, y) = Seen(op, t, y)
    BY <2>1, <2>2
  <2>4. Seen(op, s, x) < Seen(op, t, x) \/ Seen(op, t, x) < Seen(op, s, x)
    BY <2>2
  <2>. QED
    BY <2>2, <2>3, <2>4 DEF Below
<1>. QED
  BY <1>1, <1>2

\* Never two of the three: swapping the operands swaps Less and Greater.
THEOREM OrderAntisymmetric ==
  ASSUME NEW op, NEW s \in Seq(Byte), NEW t \in Seq(Byte), Below(op, s, t)
  PROVE  ~Below(op, t, s) /\ ~Same(op, s, t)
<1>1. PICK x \in Nat : /\ Seen(op, s, x) < Seen(op, t, x)
                       /\ \A y \in 0 .. x - 1 : Seen(op, s, y) = Seen(op, t, y)
  BY DEF Below
<1>2. Seen(op, s, x) \in Int /\ Seen(op, t, x) \in Int
  BY SeenType
<1>3. ~Same(op, s, t)
  BY <1>1, <1>2 DEF Same
<1>4. ASSUME NEW z \in Nat, Seen(op, t, z) < Seen(op, s, z),
             \A y \in 0 .. z - 1 : Seen(op, t, y) = Seen(op, s, y)
      PROVE  FALSE
  <2>1. Seen(op, s, z) \in Int /\ Seen(op, t, z) \in Int
    BY SeenType
  <2>2. CASE x < z
    BY <1>1, <1>2, <1>4, <2>2
  <2>3. CASE z < x
    BY <1>1, <1>4, <2>1, <2>3
  <2>4. CASE x = z
    BY <1>1, <1>2, <1>4, <2>4
  <2>. QED
    BY <2>2, <2>3, <2>4
<1>. QED
  BY <1>3, <1>4 DEF Below

\* Less is transitive, so a sort by any of the comparisons cannot go in a circle.
THEOREM OrderTransitive ==
  ASSUME NEW op, NEW s \in Seq(Byte), NEW t \in Seq(Byte), NEW u \in Seq(Byte),
         Below(op, s, t), Below(op, t, u)
  PROVE  Below(op, s, u)
<1>1. PICK x \in Nat : /\ Seen(op, s, x) < Seen(op, t, x)
                       /\ \A y \in 0 .. x - 1 : Seen(op, s, y) = Seen(op, t, y)
  BY DEF Below
<1>2. PICK z \in Nat : /\ Seen(op, t, z) < Seen(op, u, z)
                       /\ \A y \in 0 .. z - 1 : Seen(op, t, y) = Seen(op, u, y)
  BY DEF Below
<1>. DEFINE m == IF x < z THEN x ELSE z
<1>3. m \in Nat /\ m <= x /\ m <= z /\ (m = x \/ m = z)
  OBVIOUS
<1>. HIDE DEF m
<1>4. /\ Seen(op, s, m) \in Int /\ Seen(op, t, m) \in Int /\ Seen(op, u, m) \in Int
  BY <1>3, SeenType
<1>5. m = x => Seen(op, s, m) < Seen(op, t, m)
  BY <1>1
<1>6. m # x => Seen(op, s, m) = Seen(op, t, m)
  BY <1>1, <1>3
<1>7. m = z => Seen(op, t, m) < Seen(op, u, m)
  BY <1>2
<1>8. m # z => Seen(op, t, m) = Seen(op, u, m)
  BY <1>2, <1>3
<1>9. Seen(op, s, m) < Seen(op, u, m)
  BY <1>3, <1>4, <1>5, <1>6, <1>7, <1>8
<1>10. \A y \in 0 .. m - 1 : Seen(op, s, y) = Seen(op, u, y)
  BY <1>1, <1>2, <1>3
<1>. QED
  BY <1>3, <1>9, <1>10 DEF Below

\* Two slices that compare or equal calls the same are the same slice.
THEOREM SameIsIdentical ==
  ASSUME NEW op \in {"compare", "equal"}, NEW s \in Seq(Byte), NEW t \in Seq(Byte),
         Same(op, s, t)
  PROVE  s = t
<1>1. \A x \in Nat : SliceSeen(op, s, x) = SliceSeen(op, t, x)
  BY DEF Same, Seen, Bounded, OnCStrs
<1>2. /\ \A x \in Nat : x < Len(s) => SliceSeen(op, s, x) = At(s, x) /\ At(s, x) \in Nat
      /\ \A x \in Nat : x < Len(t) => SliceSeen(op, t, x) = At(t, x) /\ At(t, x) \in Nat
  <2>1. ASSUME NEW r \in Seq(Byte), NEW x \in Nat, x < Len(r)
        PROVE  SliceSeen(op, r, x) = At(r, x) /\ At(r, x) \in Nat
    <3>1. At(r, x) \in Byte
      BY <2>1 DEF At
    <3>2. Fold(op, At(r, x)) = At(r, x)
      BY DEF Fold, Folding
    <3>. QED
      BY <2>1, <3>1, <3>2 DEF SliceSeen, Byte
  <2>. QED
    BY <2>1
<1>3. /\ \A x \in Nat : ~(x < Len(s)) => SliceSeen(op, s, x) = -1
      /\ \A x \in Nat : ~(x < Len(t)) => SliceSeen(op, t, x) = -1
  BY DEF SliceSeen
<1>4. \A x \in Nat : (x < Len(s) <=> x < Len(t))
  BY <1>1, <1>2, <1>3
<1>5. Len(s) \in Nat /\ Len(t) \in Nat
  OBVIOUS
<1>6. Len(s) = Len(t)
  BY <1>4, <1>5
<1>7. ASSUME NEW x \in 1 .. Len(s) PROVE s[x] = t[x]
  <2>1. x - 1 \in Nat /\ x - 1 < Len(s) /\ x - 1 < Len(t) /\ (x - 1) + 1 = x
    BY <1>5, <1>6
  <2>2. At(s, x - 1) = At(t, x - 1)
    BY <1>1, <1>2, <2>1
  <2>. QED
    BY <2>1, <2>2 DEF At
<1>. QED
  BY <1>6, <1>7

\* Folding forgets nothing but case: two bytes fold alike when they are the same
\* byte or the two cases of one letter (ASCII-001, ASCII-002).
THEOREM FoldIsCaseless ==
  ASSUME NEW x \in Byte, NEW y \in Byte
  PROVE  ToLower(x) = ToLower(y) <=>
           \/ x = y
           \/ UpperA <= x /\ x <= UpperZ /\ y = x + CaseGap
           \/ UpperA <= y /\ y <= UpperZ /\ x = y + CaseGap
BY CompareAssumption DEF ToLower, Byte

\* The two folds are consistent: lower case is the lower case of upper case.
THEOREM FoldsAgree ==
  ASSUME NEW x \in Byte
  PROVE  /\ ToLower(ToUpper(x)) = ToLower(x)
         /\ ToUpper(ToLower(x)) = ToUpper(x)
         /\ ToLower(x) \in Byte /\ ToUpper(x) \in Byte
BY CompareAssumption DEF ToLower, ToUpper, Byte
-----------------------------------------------------------------------------
(* Termination. The fairness is a run's; that no step can be taken forever is   *)
(* proved: the loops come one after the other, and each has less left to do.    *)

\* The loops that are still to come.
Phase ==
  CASE pc = "entry" -> 4 [] pc = "bound_a" -> 3 [] pc = "bound_b" -> 2
    [] pc = "compare" -> 1 [] OTHER -> 0

\* The bytes that the loop has still to look at.
Left ==
  CASE pc = "bound_a" -> ac - i [] pc = "bound_b" -> bc - i
    [] pc = "compare" -> Smaller(ac, bc) - i [] OTHER -> 0

\* Every step brings the answer closer.
Closer ==
  \/ Phase' < Phase
  \/ Phase' = Phase /\ Left' \in Nat /\ Left' < Left

LEMMA LoopSizes ==
  ASSUME IInv
  PROVE  /\ i \in Nat /\ ac \in Nat /\ bc \in Nat /\ Smaller(ac, bc) \in Nat
         /\ i < ac /\ i < bc => i < Smaller(ac, bc)
BY DEF IInv, TypeOK, Smaller

\* A loop, or an entry, hands over to one that is later.
LEMMA PhaseCloser ==
  ASSUME IInv, Phase \in Nat, Phase' \in Nat, Phase' < Phase
  PROVE  Closer
BY DEF Closer

LEMMA EnterCloser ==
  ASSUME IInv, pc = "entry",
         pc' \in {"bound_a", "bound_b", "compare", "answered"}
  PROVE  Closer
BY PhaseCloser DEF Phase

LEMMA LoopCloser ==
  ASSUME IInv, BoundStep \/ CompareStep
  PROVE  Closer
<1>1. Phase' = Phase
  BY DEF BoundStep, CompareStep, Phase
<1>2. CASE pc = "bound_a"
  <2>1. i < ac /\ Left = ac - i /\ Left' = ac - (i + 1)
    BY <1>2 DEF BoundStep, CompareStep, Left
  <2>. QED
    BY <1>1, <2>1, LoopSizes DEF Closer
<1>3. CASE pc = "bound_b"
  <2>1. i < bc /\ Left = bc - i /\ Left' = bc - (i + 1)
    BY <1>3 DEF BoundStep, CompareStep, Left
  <2>. QED
    BY <1>1, <2>1, LoopSizes DEF Closer
<1>4. CASE pc = "compare"
  <2>1. /\ i < ac /\ i < bc
        /\ Left = Smaller(ac, bc) - i /\ Left' = Smaller(ac, bc) - (i + 1)
    BY <1>4 DEF BoundStep, CompareStep, Left
  <2>. QED
    BY <1>1, <2>1, LoopSizes DEF Closer
<1>. QED
  BY <1>2, <1>3, <1>4 DEF BoundStep, CompareStep

LEMMA NextCloser == IInv /\ Next => Closer
<1>. SUFFICES ASSUME IInv, Next PROVE Closer
  OBVIOUS
<1>1. CASE RefuseLocale \/ UnequalLengths \/ EnterWhole \/ EnterMemCmp
             \/ EnterPrefix \/ EnterBounded
  BY <1>1, EnterCloser
  DEF RefuseLocale, UnequalLengths, EnterWhole, EnterMemCmp, EnterPrefix,
      EnterBounded, Answer, Goto
<1>2. CASE BoundStep \/ CompareStep
  BY <1>2, LoopCloser
<1>3. CASE BoundedA
  BY <1>3, PhaseCloser DEF BoundedA, Goto, Phase
<1>4. CASE BoundedB
  BY <1>4, PhaseCloser DEF BoundedB, Goto, Phase
<1>5. CASE Differ \/ CompareEnd
  BY <1>5, PhaseCloser DEF Differ, CompareEnd, Answer, Phase
<1>. QED
  BY <1>1, <1>2, <1>3, <1>4, <1>5 DEF Next

\* No comparison goes on forever: every step ends a loop or takes one byte off
\* what the loop has left, for operands and counts of any size.
THEOREM CompareDescends == Spec => [][Closer]_vars
<1>1. IInv /\ [Next]_vars => [Closer]_vars
  BY NextCloser
<1>. QED
  BY <1>1, CompareInvariant, PTL DEF Spec
=============================================================================
