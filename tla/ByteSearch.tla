----------------------------- MODULE ByteSearch -----------------------------
(* The searches and spans of the library, one loop iteration per step, with  *)
(* the entry each facade name makes into them:                               *)
(*   find        strings_bytes::find, strings_text::find_byte                *)
(*   memchr      strings_c23::memchr                                         *)
(*   strchr      strings_c23::strchr, strchr_int, strings_legacy::index      *)
(*   rfind       strings_bytes::rfind                                        *)
(*   strrchr     strings_c23::strrchr, strrchr_int, strings_legacy::rindex   *)
(*   find_slice  strings_bytes and strings_text, strstr, memmem              *)
(*   text_rfind  strings_text::rfind                                         *)
(*   span_in     and strspn; span_not_in and strcspn; strpbrk                *)
(*   starts_with, ends_with  of strings_bytes and strings_text               *)
(* They are pure, so a behaviour is one call.                                *)
EXTENDS Integers, Sequences

CONSTANTS ByteMod,    \* the number of byte values, 256 on every target
          Calls       \* the calls made

Byte == 0 .. ByteMod - 1

Ops == {"find", "memchr", "strchr", "rfind", "strrchr", "find_slice",
        "text_rfind", "span_in", "span_not_in", "strpbrk", "starts_with",
        "ends_with"}

\* Calls whose text is a CStr payload (deviation D-7), which holds no NUL.
OnPayload == {"strchr", "strrchr", "strpbrk"}

\* n is a count, c a byte; the int forms of strchr and strrchr take any c.
LegalCall(k) ==
  /\ k \in [op : Ops, hay : Seq(Byte), arg : Seq(Byte), n : Nat, c : Int]
  /\ k.op \in {"find", "memchr", "rfind"} => k.c \in Byte
  /\ k.op \in OnPayload => \A x \in 1 .. Len(k.hay) : k.hay[x] # 0

ASSUME SearchAssumption ==
  /\ ByteMod \in Nat \ {0}
  /\ \A k \in Calls : LegalCall(k)

VARIABLES call,       \* the arguments
          pc,         \* the loop the call is in
          i,          \* the index of the outer loop: i, or s of find_slice
          j,          \* the index of slice_match_at or of set_contains
          answer

vars == <<call, pc, i, j, answer>>

Pending  == <<"Pending">>
None     == <<"None">>
Some(x)  == <<"Some", x>>
Size(x)  == <<"Size", x>>
Truth(b) == <<"Bool", b>>

-----------------------------------------------------------------------------
At(s, x) == s[x + 1]

Hay == call.hay
Arg == call.arg
H   == Len(call.hay)
M   == Len(call.arg)

\* Mutant of IntToByte: the sign is kept.
IntToByteSigned(c) == IF c < 0 THEN -((-c) % ByteMod) ELSE c % ByteMod

\* c & 255: the low bits of the two's complement pattern.
IntToByte(c) == c % ByteMod

\* The length of the view that find searches.
Limit == IF call.op = "memchr" /\ call.n <= H THEN call.n ELSE H

\* The byte that is looked for: the int forms reduce their argument first.
Sought == IF call.op \in {"strchr", "strrchr"} THEN IntToByte(call.c) ELSE call.c

Init ==
  /\ call \in Calls
  /\ pc = "entry"
  /\ i = 0
  /\ j = 0
  /\ answer = Pending

Answer(r) ==
  /\ pc' = "answered"
  /\ answer' = r
  /\ UNCHANGED <<call, i, j>>

Goto(p, x) ==
  /\ pc' = p
  /\ i' = x
  /\ j' = 0
  /\ UNCHANGED <<call, answer>>

Entry(ops) == pc = "entry" /\ call.op \in ops

-----------------------------------------------------------------------------
(* The entries.                                                              *)

EnterFind ==
  /\ Entry({"find", "memchr"})
  /\ Goto("find", 0)

EnterRFind ==
  /\ Entry({"rfind"})
  /\ Goto("rfind", H)

\* Mutant of FindTerminator: the payload is searched for the terminator.
FindTerminatorInside ==
  /\ Entry({"strchr", "strrchr"})
  /\ IntToByte(call.c) = 0
  /\ Answer(None)

\* The terminator is found behind the payload, by either function.
FindTerminator ==
  /\ Entry({"strchr", "strrchr"})
  /\ IntToByte(call.c) = 0
  /\ Answer(Some(H))

EnterStrChr ==
  /\ Entry({"strchr"})
  /\ IntToByte(call.c) # 0
  /\ Goto("find", 0)

EnterStrRChr ==
  /\ Entry({"strrchr"})
  /\ IntToByte(call.c) # 0
  /\ Goto("rfind", H)

EmptyNeedle ==
  /\ Entry({"find_slice", "text_rfind"})
  /\ M = 0
  /\ Answer(Some(IF call.op = "find_slice" THEN 0 ELSE H))

\* An argument longer than the text: no search, no prefix, no suffix.
TooLong ==
  /\ Entry({"find_slice", "text_rfind", "starts_with", "ends_with"})
  /\ M > H
  /\ Answer(IF call.op \in {"starts_with", "ends_with"} THEN Truth(FALSE) ELSE None)

EnterSlice ==
  /\ Entry({"find_slice"})
  /\ 0 < M /\ M <= H
  /\ Goto("slice", 0)

\* Mutant of EnterRSlice: the last offset is never tried.
EnterRSliceLow ==
  /\ Entry({"text_rfind"})
  /\ 0 < M /\ M <= H
  /\ Goto("rslice", H - M)

EnterRSlice ==
  /\ Entry({"text_rfind"})
  /\ 0 < M /\ M <= H
  /\ Goto("rslice", H - M + 1)

EnterAffix ==
  /\ Entry({"starts_with", "ends_with"})
  /\ M <= H
  /\ Goto("match", IF call.op = "starts_with" THEN 0 ELSE H - M)

EnterSpan ==
  /\ Entry({"span_in", "span_not_in", "strpbrk"})
  /\ Goto("span", 0)

Enter ==
  \/ EnterFind \/ EnterRFind \/ FindTerminator \/ EnterStrChr \/ EnterStrRChr
  \/ EmptyNeedle \/ TooLong \/ EnterSlice \/ EnterRSlice \/ EnterAffix
  \/ EnterSpan

-----------------------------------------------------------------------------
(* The loops.                                                                *)

FindStep ==
  /\ pc = "find" /\ i < Limit
  /\ \/ /\ At(Hay, i) = Sought
        /\ Answer(Some(i))
     \/ /\ At(Hay, i) # Sought
        /\ Goto("find", i + 1)

RFindStep ==
  /\ pc = "rfind" /\ i > 0
  /\ \/ /\ At(Hay, i - 1) = Sought
        /\ Answer(Some(i - 1))
     \/ /\ At(Hay, i - 1) # Sought
        /\ Goto("rfind", i - 1)

\* last of find_slice_pure.
LastStart == H - M

SliceStep ==
  /\ pc = "slice" /\ i <= LastStart
  /\ Goto("match", i)

RSliceStep ==
  /\ pc = "rslice" /\ i > 0
  /\ Goto("match", i - 1)

NotFound ==
  /\ \/ pc = "find" /\ i >= Limit
     \/ pc = "slice" /\ i > LastStart
     \/ pc \in {"rfind", "rslice"} /\ i <= 0
  /\ Answer(None)

MatchStep ==
  /\ pc = "match" /\ j < M
  /\ At(Hay, i + j) = At(Arg, j)
  /\ j' = j + 1
  /\ UNCHANGED <<call, pc, i, answer>>

\* Mutant of Mismatch: the search resumes behind the bytes that did match.
MismatchSkips ==
  /\ pc = "match" /\ j < M
  /\ At(Hay, i + j) # At(Arg, j)
  /\ \/ call.op = "find_slice" /\ Goto("slice", i + j + 1)
     \/ call.op = "text_rfind" /\ Goto("rslice", i)
     \/ call.op \in {"starts_with", "ends_with"} /\ Answer(Truth(FALSE))

\* slice_match_at said no: the next offset, or the answer.
Mismatch ==
  /\ pc = "match" /\ j < M
  /\ At(Hay, i + j) # At(Arg, j)
  /\ \/ call.op = "find_slice" /\ Goto("slice", i + 1)
     \/ call.op = "text_rfind" /\ Goto("rslice", i)
     \/ call.op \in {"starts_with", "ends_with"} /\ Answer(Truth(FALSE))

Matched ==
  /\ pc = "match" /\ j >= M
  /\ Answer(IF call.op \in {"starts_with", "ends_with"} THEN Truth(TRUE) ELSE Some(i))

\* strpbrk turns the length of the span into an index.
SpanAnswer(x) ==
  IF call.op = "strpbrk" THEN IF x < H THEN Some(x) ELSE None ELSE Size(x)

SpanStep ==
  /\ pc = "span" /\ i < H
  /\ Goto("member", i)

\* What set_contains answered decides: the span goes on, or ends at i.
Decide(found) ==
  IF found <=> call.op = "span_in"
  THEN Goto("span", i + 1)
  ELSE Answer(SpanAnswer(i))

\* Mutant of MemberStep: the loop variable is not moved.
MemberStepStuck ==
  /\ pc = "member" /\ j < M
  /\ \/ /\ At(Arg, j) = At(Hay, i)
        /\ Decide(TRUE)
     \/ /\ At(Arg, j) # At(Hay, i)
        /\ UNCHANGED vars

MemberStep ==
  /\ pc = "member" /\ j < M
  /\ \/ /\ At(Arg, j) = At(Hay, i)
        /\ Decide(TRUE)
     \/ /\ At(Arg, j) # At(Hay, i)
        /\ j' = j + 1
        /\ UNCHANGED <<call, pc, i, answer>>

NotMember ==
  /\ pc = "member" /\ j >= M
  /\ Decide(FALSE)

SpanEnd ==
  /\ pc = "span" /\ i >= H
  /\ Answer(SpanAnswer(H))

Next ==
  \/ Enter \/ FindStep \/ RFindStep \/ SliceStep \/ RSliceStep \/ NotFound
  \/ MatchStep \/ Mismatch \/ Matched
  \/ SpanStep \/ MemberStep \/ NotMember \/ SpanEnd

Spec == Init /\ [][Next]_vars

\* A call runs to its end.
FairSpec == Spec /\ WF_vars(Next)
-----------------------------------------------------------------------------
(* What the names promise, without a loop.                                   *)

Positions(k) == 0 .. Len(k.hay) - 1

\* The text C sees: the payload and, behind it, the terminator.
CByte(k, x) == IF x = Len(k.hay) THEN 0 ELSE At(k.hay, x)

Occurs(k, x) ==
  /\ 0 <= x /\ x + Len(k.arg) <= Len(k.hay)
  /\ \A y \in 0 .. Len(k.arg) - 1 : At(k.hay, x + y) = At(k.arg, y)

Member(k, x) == \E y \in 0 .. Len(k.arg) - 1 : At(k.arg, y) = At(k.hay, x)

FirstOf(S, r) ==
  \/ r = None /\ S = {}
  \/ \E x \in S : r = Some(x) /\ \A y \in S : x <= y

LastOf(S, r) ==
  \/ r = None /\ S = {}
  \/ \E x \in S : r = Some(x) /\ \A y \in S : y <= x

\* The longest prefix whose bytes are all in the set, or all outside it.
LongestPrefix(k, in, r) ==
  \E x \in 0 .. Len(k.hay) :
    /\ r = Size(x)
    /\ \A y \in 0 .. x - 1 : Member(k, y) <=> in
    /\ x < Len(k.hay) => ~(Member(k, x) <=> in)

Holding(k, b) == {x \in Positions(k) : At(k.hay, x) = b}
CHolding(k, b) == {x \in 0 .. Len(k.hay) : CByte(k, x) = b}
Occurrences(k) == {x \in 0 .. Len(k.hay) : Occurs(k, x)}

Promised(k, r) ==
  CASE k.op = "find"        -> FirstOf(Holding(k, k.c), r)
    [] k.op = "memchr"      -> FirstOf({x \in Holding(k, k.c) : x < k.n}, r)
    [] k.op = "rfind"       -> LastOf(Holding(k, k.c), r)
    [] k.op = "strchr"      -> FirstOf(CHolding(k, k.c % ByteMod), r)
    [] k.op = "strrchr"     -> LastOf(CHolding(k, k.c % ByteMod), r)
    [] k.op = "find_slice"  -> FirstOf(Occurrences(k), r)
    [] k.op = "text_rfind"  -> LastOf(Occurrences(k), r)
    [] k.op = "span_in"     -> LongestPrefix(k, TRUE, r)
    [] k.op = "span_not_in" -> LongestPrefix(k, FALSE, r)
    [] k.op = "strpbrk"     -> FirstOf({x \in Positions(k) : Member(k, x)}, r)
    [] k.op = "starts_with" -> r = Truth(Occurs(k, 0))
    [] k.op = "ends_with"   -> r = Truth(Occurs(k, Len(k.hay) - Len(k.arg)))

\* Every call answers what its name promises on every input: the first or the
\* last position, the longest prefix, or absence (BYTE-011 to BYTE-015,
\* TEXT-007 to TEXT-009, C23-006, C23-012, C23-020 to C23-023, POSIX-002).
Exact == pc = "answered" => Promised(call, answer)

\* The loop contracts of the code (they abort the program when false) and what
\* slice_match_at assumes of its caller; with them every index is in its slice.
LoopContracts ==
  /\ pc = "find" => i <= Limit /\ Limit <= H
  /\ pc = "rfind" => i <= H
  /\ pc = "slice" => M <= H /\ i <= H - M + 1
  /\ pc = "rslice" => M <= H /\ i <= H - M + 1
  /\ pc = "match" => j <= M /\ i + M <= H
  /\ pc = "span" => i <= H
  /\ pc = "member" => j <= M /\ i < H

\* Every call is answered.
Terminates == <>(pc = "answered")
-----------------------------------------------------------------------------
Pcs == {"entry", "find", "rfind", "slice", "rslice", "match", "span", "member",
        "answered"}

TypeOK ==
  /\ LegalCall(call)
  /\ pc \in Pcs
  /\ i \in Nat
  /\ j \in Nat

\* Which loops a call can be in.
Where ==
  /\ pc = "find" => call.op \in {"find", "memchr", "strchr"}
  /\ pc = "rfind" => call.op \in {"rfind", "strrchr"}
  /\ pc \in {"find", "rfind"} /\ call.op \in {"strchr", "strrchr"}
       => IntToByte(call.c) # 0
  /\ pc = "slice" => call.op = "find_slice" /\ 0 < M
  /\ pc = "rslice" => call.op = "text_rfind" /\ 0 < M
  /\ pc = "match" =>
       /\ call.op \in {"find_slice", "text_rfind", "starts_with", "ends_with"}
       /\ call.op = "starts_with" => i = 0
       /\ call.op = "ends_with" => i = H - M
  /\ pc \in {"span", "member"} => call.op \in {"span_in", "span_not_in", "strpbrk"}

\* What the part of the text that a loop has behind it is known not to hold.
Searched ==
  /\ pc = "find" => \A x \in 0 .. i - 1 : At(Hay, x) # Sought
  /\ pc = "rfind" => \A x \in i .. H - 1 : At(Hay, x) # Sought
  /\ pc = "slice" \/ (pc = "match" /\ call.op = "find_slice")
       => \A x \in 0 .. i - 1 : ~Occurs(call, x)
  /\ pc = "rslice" => \A x \in i .. H - M : ~Occurs(call, x)
  /\ pc = "match" /\ call.op = "text_rfind"
       => \A x \in i + 1 .. H - M : ~Occurs(call, x)
  /\ pc = "match" => \A y \in 0 .. j - 1 : At(Hay, i + y) = At(Arg, y)
  /\ pc \in {"span", "member"} =>
       \A x \in 0 .. i - 1 : Member(call, x) <=> call.op = "span_in"
  /\ pc = "member" => \A y \in 0 .. j - 1 : At(Arg, y) # At(Hay, i)

\* The inductive invariant.
IInv == TypeOK /\ Where /\ LoopContracts /\ Searched /\ Exact
=============================================================================
