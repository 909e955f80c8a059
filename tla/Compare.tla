------------------------------ MODULE Compare ------------------------------
(* The comparisons of the library, one loop iteration per step. The loop is    *)
(* written out six times in the source (strings_bytes, strings_text,           *)
(* strings_ascii twice, strings_posix2024, strings_locale twice); the names    *)
(* differ in the part of the operands they compare and in whether they fold    *)
(* case:                                                                       *)
(*   compare      also compare_bytes, strcmp, locale_compare, strcoll          *)
(*   equal        strings_bytes::equal                                         *)
(*   memcmp       also strings_legacy::bcmp                                    *)
(*   strncmp, and strncasecmp with its explicit-locale form                    *)
(*   ignore_case  compare_ignore_case, strcasecmp, locale_compare_ignore_case  *)
(*   equal_ignore_case, prefix_ignore_case  of strings_ascii                   *)
(* They are pure, so a behaviour is one call.                                  *)
EXTENDS Integers, Sequences

CONSTANTS ByteMod,            \* the number of byte values, 256 on every target
          UpperA, UpperZ,     \* 'A' is 65, 'Z' is 90
          CaseGap,            \* 'a' - 'A' is 32
          Calls               \* the calls made

Byte == 0 .. ByteMod - 1

\* The _l forms take a locale, the others are for the POSIX locale.
Bounded == {"strncmp", "strncasecmp", "strncasecmp_l"}
OnCStrs == {"strcmp", "strcasecmp", "strcasecmp_l", "strcoll_l"}
Explicit == {"strcasecmp_l", "strncasecmp_l", "strcoll_l"}
Folding == {"strncasecmp", "strncasecmp_l", "strcasecmp", "strcasecmp_l",
            "ignore_case", "equal_ignore_case", "prefix_ignore_case"}
Ops == {"compare", "equal", "memcmp"} \cup Bounded \cup OnCStrs \cup Folding

HasNul(s) == \E x \in 1 .. Len(s) : s[x] = 0

LegalCall(k) ==
  /\ k \in [op : Ops, a : Seq(Byte), b : Seq(Byte), n : Nat,
            loc : {"Posix", "HostNamed"}]
  /\ k.op \in OnCStrs => ~HasNul(k.a) /\ ~HasNul(k.b)

ASSUME CompareAssumption ==
  /\ ByteMod \in Nat
  /\ UpperA \in Nat \ {0}
  /\ UpperZ \in Nat
  /\ CaseGap \in Nat
  /\ UpperA <= UpperZ
  /\ UpperZ < UpperA + CaseGap
  /\ UpperZ + CaseGap < ByteMod
  /\ \A k \in Calls : LegalCall(k)

VARIABLES call,       \* the arguments
          pc,         \* the loop the call is in
          i,          \* its index
          ac, bc,     \* how much of either operand is compared
          answer

vars == <<call, pc, i, ac, bc, answer>>

Pending     == <<"Pending">>
Less        == <<"Less">>
Equal       == <<"Equal">>
Greater     == <<"Greater">>
Unsupported == <<"Unsupported">>
Truth(b)    == <<"Bool", b>>

-----------------------------------------------------------------------------
At(s, x) == s[x + 1]
Smaller(x, y) == IF y < x THEN y ELSE x

ToLower(c) == IF UpperA <= c /\ c <= UpperZ THEN c + CaseGap ELSE c
ToUpper(c) == IF UpperA + CaseGap <= c /\ c <= UpperZ + CaseGap
              THEN c - CaseGap ELSE c

\* Mutant of Fold: the other direction, which moves letters below '_'.
FoldUp(op, c) == IF op \in Folding THEN ToUpper(c) ELSE c

Fold(op, c) == IF op \in Folding THEN ToLower(c) ELSE c

La == Len(call.a)
Lb == Len(call.b)
AByte(x) == Fold(call.op, At(call.a, x))
BByte(x) == Fold(call.op, At(call.b, x))

Init ==
  /\ call \in Calls
  /\ pc = "entry"
  /\ i = 0
  /\ ac = 0
  /\ bc = 0
  /\ answer = Pending

Answer(r) ==
  /\ pc' = "answered"
  /\ answer' = r
  /\ UNCHANGED <<call, i, ac, bc>>

Goto(p, x, y) ==
  /\ pc' = p
  /\ i' = 0
  /\ ac' = x
  /\ bc' = y
  /\ UNCHANGED <<call, answer>>

\* A named host locale is refused before anything is compared.
Refused == call.op \in Explicit /\ call.loc = "HostNamed"

RefuseLocale ==
  /\ pc = "entry"
  /\ Refused
  /\ Answer(Unsupported)

UnequalLengths ==
  /\ pc = "entry"
  /\ call.op = "equal_ignore_case"
  /\ La # Lb
  /\ Answer(Truth(FALSE))

EnterWhole ==
  /\ pc = "entry"
  /\ ~Refused
  /\ call.op \in (Ops \ Bounded) \ {"memcmp", "prefix_ignore_case"}
  /\ call.op = "equal_ignore_case" => La = Lb
  /\ Goto("compare", La, Lb)

EnterMemCmp ==
  /\ pc = "entry"
  /\ call.op = "memcmp"
  /\ LET lim == Smaller(Smaller(call.n, La), Lb) IN Goto("compare", lim, lim)

EnterPrefix ==
  /\ pc = "entry"
  /\ call.op = "prefix_ignore_case"
  /\ Goto("compare", Smaller(call.n, La), Smaller(call.n, Lb))

EnterBounded ==
  /\ pc = "entry"
  /\ ~Refused
  /\ call.op \in Bounded
  /\ Goto("bound_a", Smaller(call.n, La), Smaller(call.n, Lb))

\* bound_to_nul over the first operand, then over the second.
BoundStep ==
  /\ \/ pc = "bound_a" /\ i < ac /\ At(call.a, i) # 0
     \/ pc = "bound_b" /\ i < bc /\ At(call.b, i) # 0
  /\ i' = i + 1
  /\ UNCHANGED <<call, pc, ac, bc, answer>>

\* Mutant of BoundedA: the terminator is counted in.
BoundedAWithNul ==
  /\ pc = "bound_a"
  /\ \/ /\ i < ac /\ At(call.a, i) = 0
        /\ Goto("bound_b", i + 1, bc)
     \/ /\ i >= ac
        /\ Goto("bound_b", ac, bc)

BoundedA ==
  /\ pc = "bound_a"
  /\ \/ /\ i < ac /\ At(call.a, i) = 0
        /\ Goto("bound_b", i, bc)
     \/ /\ i >= ac
        /\ Goto("bound_b", ac, bc)

BoundedB ==
  /\ pc = "bound_b"
  /\ \/ /\ i < bc /\ At(call.b, i) = 0
        /\ Goto("compare", ac, i)
     \/ /\ i >= bc
        /\ Goto("compare", ac, bc)

\* equal and equal_ignore_case turn an ordering into a Boolean.
Result(o) ==
  IF call.op \in {"equal", "equal_ignore_case"} THEN Truth(o = Equal) ELSE o

Differ ==
  /\ pc = "compare" /\ i < ac /\ i < bc
  /\ \/ AByte(i) < BByte(i) /\ Answer(Result(Less))
     \/ AByte(i) > BByte(i) /\ Answer(Result(Greater))

\* Mutant of CompareStep: the loop variable is not moved.
CompareStepStuck ==
  /\ pc = "compare" /\ i < ac /\ i < bc
  /\ AByte(i) = BByte(i)
  /\ UNCHANGED vars

CompareStep ==
  /\ pc = "compare" /\ i < ac /\ i < bc
  /\ AByte(i) = BByte(i)
  /\ i' = i + 1
  /\ UNCHANGED <<call, pc, ac, bc, answer>>

\* Mutant of CompareEnd: the longer operand is Less.
CompareEndReversed ==
  /\ pc = "compare"
  /\ i >= ac \/ i >= bc
  /\ Answer(Result(IF ac < bc THEN Greater ELSE IF ac > bc THEN Less ELSE Equal))

CompareEnd ==
  /\ pc = "compare"
  /\ i >= ac \/ i >= bc
  /\ Answer(Result(IF ac < bc THEN Less ELSE IF ac > bc THEN Greater ELSE Equal))

Next ==
  \/ RefuseLocale \/ UnequalLengths
  \/ EnterWhole \/ EnterMemCmp \/ EnterPrefix \/ EnterBounded
  \/ BoundStep \/ BoundedA \/ BoundedB
  \/ Differ \/ CompareStep \/ CompareEnd

Spec == Init /\ [][Next]_vars

\* A call runs to its end.
FairSpec == Spec /\ WF_vars(Next)
-----------------------------------------------------------------------------
(* What the names promise, without a loop and without a length: the first      *)
(* position at which the operands are seen to differ decides.                  *)

\* C sees a NUL at the end of a string and compares nothing behind it.
CSeen(op, s, x) ==
  IF x < Len(s) /\ \A y \in 0 .. x : At(s, y) # 0 THEN Fold(op, At(s, x)) ELSE 0

\* A slice just ends; its end is below every byte.
SliceSeen(op, s, x) == IF x < Len(s) THEN Fold(op, At(s, x)) ELSE -1

Seen(op, s, x) ==
  IF op \in Bounded \cup OnCStrs THEN CSeen(op, s, x) ELSE SliceSeen(op, s, x)

\* How many positions are looked at.
Extent(k) ==
  IF k.op = "memcmp" THEN Smaller(Smaller(k.n, Len(k.a)), Len(k.b))
  ELSE IF k.op \in Bounded \cup {"prefix_ignore_case"} THEN k.n
  ELSE Len(k.a) + Len(k.b)

Alike(k, x) == Seen(k.op, k.a, x) = Seen(k.op, k.b, x)

\* The order of the operands, as an ordering.
Ordered(k, o) ==
  \/ o = Equal /\ \A x \in 0 .. Extent(k) - 1 : Alike(k, x)
  \/ \E x \in 0 .. Extent(k) - 1 :
       /\ \A y \in 0 .. x - 1 : Alike(k, y)
       /\ \/ o = Less    /\ Seen(k.op, k.a, x) < Seen(k.op, k.b, x)
          \/ o = Greater /\ Seen(k.op, k.a, x) > Seen(k.op, k.b, x)

Promised(k, r) ==
  IF k.op \in Explicit /\ k.loc = "HostNamed" THEN r = Unsupported
  ELSE IF k.op \in {"equal", "equal_ignore_case"}
  THEN r = Truth(\A x \in 0 .. Extent(k) - 1 : Alike(k, x))
  ELSE Ordered(k, r)

\* Every comparison gives the order of its first difference; the C names give
\* what C gives, where a terminator and not a length ends a string; a named
\* host locale is refused and never compared by bytes (BYTE-001, BYTE-002,
\* TEXT-004, ASCII-003 to ASCII-005, C23-007, C23-027, POSIX-007, POSIX-017,
\* HOST-004).
Exact == pc = "answered" => Promised(call, answer)

\* The loop contracts of the code; with them every index is in its slice.
LoopContracts ==
  /\ pc = "bound_a" => i <= ac
  /\ pc = "bound_b" => i <= bc
  /\ pc = "compare" => i <= ac /\ i <= bc
  /\ pc = "compare" /\ call.op = "equal_ignore_case" => ac = bc
  /\ ac <= La /\ bc <= Lb

\* Every call is answered.
Terminates == <>(pc = "answered")
-----------------------------------------------------------------------------
TypeOK ==
  /\ LegalCall(call)
  /\ pc \in {"entry", "bound_a", "bound_b", "compare", "answered"}
  /\ i \in Nat
  /\ ac \in Nat
  /\ bc \in Nat

\* x is where C's view of s ends, within n.
EndsAt(s, n, x) ==
  /\ x <= Smaller(n, Len(s))
  /\ \A y \in 0 .. x - 1 : At(s, y) # 0
  /\ x < Smaller(n, Len(s)) => At(s, x) = 0

\* c is how much of s, one of the operands, the call compares.
Window(s, c) ==
  /\ call.op \in Bounded => EndsAt(s, call.n, c)
  /\ call.op = "memcmp" => c = Extent(call)
  /\ call.op = "prefix_ignore_case" => c = Smaller(call.n, Len(s))
  /\ call.op \notin Bounded \cup {"memcmp", "prefix_ignore_case"} => c = Len(s)

\* What the windows are, and what the loops have behind them.
Compared ==
  /\ pc \in {"bound_a", "bound_b", "compare"} => ~Refused
  /\ pc \in {"bound_a", "bound_b"} =>
       /\ call.op \in Bounded
       /\ bc = Smaller(call.n, Lb)
  /\ pc = "bound_a" =>
       /\ ac = Smaller(call.n, La)
       /\ \A y \in 0 .. i - 1 : At(call.a, y) # 0
  /\ pc = "bound_b" =>
       /\ EndsAt(call.a, call.n, ac)
       /\ \A y \in 0 .. i - 1 : At(call.b, y) # 0
  /\ pc = "compare" =>
       /\ Window(call.a, ac)
       /\ Window(call.b, bc)
       /\ \A y \in 0 .. i - 1 : AByte(y) = BByte(y)

\* The inductive invariant.
IInv == TypeOK /\ LoopContracts /\ Compared /\ Exact
=============================================================================
