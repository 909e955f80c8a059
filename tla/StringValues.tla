---------------------------- MODULE StringValues ----------------------------
(* The immutable string values of the library, and the calls that turn one    *)
(* into another.  Text, CStr and CString are one sv0 type, string (deviation  *)
(* D-7); role is the domain the specification gives a value, which the code   *)
(* keeps nowhere.  A caller holds one value and passes it where its role is   *)
(* asked for.                                                                 *)
(*   strings_text   from_utf8, concat, slice_bytes                            *)
(*   strings_cstr   from_text, from_bytes, from_bytes_with_nul,               *)
(*                  from_bytes_until_nul, borrow, to_text, clone_owned,       *)
(*                  concat, and copy_into with require_cstr on a storage      *)
(*   strings_c23    strdup (clone_owned), strndup                             *)
EXTENDS Utf8, StringsChecked, StringsTypes

CONSTANTS Source,      \* the byte slices a value is made from
          Piece,       \* the texts appended and searched for, without a 0
          Capacity     \* the lengths of the storages a value is copied through

ASSUME ValuesAssumption ==
  /\ Source \cup Piece \subseteq Seq(Octet)
  /\ \A s \in Source \cup Piece : Len(s) <= MaxUsize
  /\ Piece \subseteq Source
  /\ \A m \in Piece : m # <<>> /\ WellFormed(m) /\ \A i \in DOMAIN m : m[i] # 0
  /\ Capacity \subseteq Usize

VARIABLES val,         \* the value held
          origin,      \* history: the text the held value was made from by
                       \* way of a C string, or Detached
          ans          \* the answer of the last call

vars == <<val, origin, ans>>

Text(s)    == [role |-> "Text", bytes |-> s]
CStr(s)    == [role |-> "CStr", bytes |-> s]
CString(s) == [role |-> "CString", bytes |-> s]

Detached   == <<-1>>

Zero == <<0>>
HasNul(s) == \E i \in DOMAIN s : s[i] = 0

\* The first NUL of a slice, or its length.
NulOffset(s) ==
  CHOOSE f \in 0 .. Len(s) : /\ \A x \in 1 .. f : s[x] # 0
                             /\ f < Len(s) => s[f + 1] = 0

AtMost(a, b) == IF a < b THEN a ELSE b

-----------------------------------------------------------------------------
\* A value is answered and replaces the one held; the caller drops that.
Gives(v, from) == val' = v /\ origin' = from /\ ans' = <<"Ok">>

\* Another answer leaves the caller with the value it had.
Answers(a) == ans' = a /\ UNCHANGED <<val, origin>>

InteriorAt(i) == <<"InteriorAt", i>>
NotScalarBoundary(off) == <<"NotScalarBoundary", off>>
InvalidText(s, k) == <<"Invalid", s, k>>

\* string_concat appends the terminator.  A string that leaves no room for it
\* cannot be held: the allocator aborts the program.
Terminable(s) == Len(s) < MaxUsize

Init ==
  /\ val = Text(<<>>)
  /\ origin = Detached
  /\ ans = <<"Ok">>

\* Validate, then copy.
Decoded(s, from) ==
  \/ ValidateUtf8(s) = Valid /\ Gives(Text(s), from)
  \/ ValidateUtf8(s) # Valid /\ Answers(InvalidText(s, ValidateUtf8(s)[2]))

FromUtf8(s) == Decoded(s, Detached)

Concat(m) ==
  /\ val.role = "Text"
  /\ \/ /\ CheckedAdd(Len(val.bytes), Len(m)) = Overflow
        /\ Answers(LengthOverflow)
     \/ /\ CheckedAdd(Len(val.bytes), Len(m)) # Overflow
        /\ Gives(Text(val.bytes \o m), Detached)

\* The first offset refused, in the order of the tests.
Refusal(s, start, end) ==
  CASE start > Len(s) -> Some(start)
    [] start <= Len(s) /\ end > Len(s) -> Some(end)
    [] end <= Len(s) /\ start > end -> Some(start)
    [] start <= end /\ end <= Len(s) /\ ~TextIsBoundary(s, start) -> Some(start)
    [] start <= end /\ end <= Len(s) /\ TextIsBoundary(s, start) ->
         IF TextIsBoundary(s, end) THEN None ELSE Some(end)

\* Mutant of SliceBytes: the end is checked against the length only.
SliceBytesOpenEnd(start, end) ==
  /\ val.role = "Text"
  /\ \/ /\ start <= end /\ end <= Len(val.bytes) /\ TextIsBoundary(val.bytes, start)
        /\ Gives(Text(SubSeq(val.bytes, start + 1, end)), Detached)
     \/ /\ ~(start <= end /\ end <= Len(val.bytes) /\ TextIsBoundary(val.bytes, start))
        /\ Answers(NotScalarBoundary(Refusal(val.bytes, start, end)[2]))

SliceBytes(start, end) ==
  /\ val.role = "Text"
  /\ \/ /\ Refusal(val.bytes, start, end) = None
        /\ Gives(Text(SubSeq(val.bytes, start + 1, end)), Detached)
     \/ /\ Refusal(val.bytes, start, end) # None
        /\ Answers(NotScalarBoundary(Refusal(val.bytes, start, end)[2]))

\* from_text and from_bytes: no NUL inside, one appended.
Terminated(s, from) ==
  \/ HasNul(s) /\ Answers(InteriorAt(NulOffset(s)))
  \/ ~HasNul(s) /\ Terminable(s) /\ Gives(CString(s \o Zero), from)

FromText == val.role = "Text" /\ Terminated(val.bytes, val.bytes)

FromBytes(s) == Terminated(s, Detached)

FromBytesWithNul(s) ==
  \/ s = <<>> /\ Answers(NoTerminator)
  \/ s # <<>> /\ s[Len(s)] # 0 /\ Answers(NoTerminator)
  \/ /\ s # <<>> /\ s[Len(s)] = 0
     /\ \/ NulOffset(s) < Len(s) - 1 /\ Answers(InteriorAt(NulOffset(s)))
        \/ NulOffset(s) = Len(s) - 1 /\ Gives(CStr(Prefix(s, Len(s) - 1)), Detached)

FromBytesUntilNul(s) ==
  \/ ~HasNul(s) /\ Answers(NoTerminator)
  \/ HasNul(s) /\ Gives(CStr(Prefix(s, NulOffset(s))), Detached)

\* The substring without its last byte; an empty string is given back.
Borrow ==
  /\ val.role = "CString"
  /\ Gives(CStr(IF val.bytes = <<>> THEN val.bytes
                ELSE Prefix(val.bytes, Len(val.bytes) - 1)), origin)

ToText == val.role = "CStr" /\ Decoded(val.bytes, origin)

CloneOwned ==
  /\ val.role = "CStr"
  /\ \/ /\ CheckedAdd(Len(val.bytes), 1) = Overflow
        /\ Answers(LengthOverflow)
     \/ /\ CheckedAdd(Len(val.bytes), 1) # Overflow
        /\ Gives(CString(val.bytes \o Zero), origin)

\* Two checked additions, then two concatenations.
ConcatCStr(m) ==
  LET sum == CheckedAdd(Len(val.bytes), Len(m)) IN
  /\ val.role = "CStr"
  /\ \/ /\ sum = Overflow \/ CheckedAdd(sum.val, 1) = Overflow
        /\ Answers(LengthOverflow)
     \/ /\ sum # Overflow /\ CheckedAdd(sum.val, 1) # Overflow
        /\ Gives(CString(val.bytes \o m \o Zero), Detached)

\* The source up to its first NUL within n bytes.
StrNDup(s, n) ==
  LET stop == NulOffset(Prefix(s, AtMost(n, Len(s)))) IN
  \/ CheckedAdd(stop, 1) = Overflow /\ Answers(LengthOverflow)
  \/ CheckedAdd(stop, 1) # Overflow /\ Gives(CString(Prefix(s, stop) \o Zero), Detached)

\* copy_into a storage of c bytes, and require_cstr of that storage.
ThroughBuffer(c) ==
  /\ val.role = "CStr"
  /\ \/ /\ c = 0
        /\ Answers(NoTerminator)
     \/ /\ c > 0
        /\ Gives(CStr(Prefix(val.bytes, AtMost(Len(val.bytes), c - 1))), origin)

Next ==
  \/ \E s \in Source :
       \/ FromUtf8(s) \/ FromBytes(s) \/ FromBytesWithNul(s) \/ FromBytesUntilNul(s)
       \/ \E n \in Usize : StrNDup(s, n)
  \/ \E m \in Piece : Concat(m) \/ ConcatCStr(m)
  \/ \E start, end \in Usize : SliceBytes(start, end)
  \/ \E c \in Capacity : ThroughBuffer(c)
  \/ FromText \/ Borrow \/ ToText \/ CloneOwned

Spec == Init /\ [][Next]_vars

-----------------------------------------------------------------------------
\* What each role promises, whatever calls a value went through: a Text is
\* well-formed UTF-8 (TEXT-010..014), a CStr holds no NUL (CSTR-001, 002, 017),
\* a CString holds one, at its end (CSTR-005, 006, 008, 009).
RolesHold ==
  LET n == Len(val.bytes) IN
  /\ val.role = "Text" => WellFormed(val.bytes)
  /\ val.role = "CStr" => ~HasNul(val.bytes)
  /\ val.role = "CString" => n > 0 /\ NulOffset(val.bytes) = n - 1

\* A text sent through bounded storages comes back as a prefix of itself that
\* ends between two scalars, or is refused with the offset of the scalar that
\* was cut: truncation never forges a character and never costs a second one.
CutOnScalar ==
  origin # Detached =>
    LET n == Len(val.bytes) IN
    /\ val.role = "Text" =>
         val.bytes = Prefix(origin, n) /\ TextIsBoundary(origin, n)
    /\ val.role = "CStr" /\ ans[1] = "Invalid" /\ ans[2] = val.bytes =>
         LET k == ans[3] IN
         /\ n - k \in 1 .. 3
         /\ TextIsBoundary(origin, k)
         /\ \A j \in k + 1 .. n : ~TextIsBoundary(origin, j)

\* TEXT-008: what find and rfind report of a text can be cut out of it.
\* Every occurrence of a text lies between the two, on scalar boundaries, and
\* slice_bytes accepts it.
FoundIsSliceable ==
  val.role = "Text" => \A m \in Piece :
    /\ Find(val.bytes, m) = None <=> RFind(val.bytes, m) = None
    /\ Find(val.bytes, m) # None =>
         \A i \in {Find(val.bytes, m)[2], RFind(val.bytes, m)[2]} :
           /\ Refusal(val.bytes, i, i + Len(m)) = None
           /\ SubSeq(val.bytes, i + 1, i + Len(m)) = m
-----------------------------------------------------------------------------
\* The bytes of a value, without the NUL that ends a CString.
Body(v) ==
  IF v.role = "CString" THEN Prefix(v.bytes, Len(v.bytes) - 1) ELSE v.bytes

\* A value that came from a text is what is left of the beginning of it.
MadeFrom(b, from) ==
  from # Detached =>
    /\ from \in Seq(Octet) /\ WellFormed(from)
    /\ Len(b) <= Len(from) /\ b = Prefix(from, Len(b))

ValueOk(v, from) ==
  /\ v.role \in {"Text", "CStr", "CString"}
  /\ v.bytes \in Seq(Octet) /\ Body(v) \in Seq(Octet)
  /\ v.role = "Text" => WellFormed(v.bytes)
  /\ v.role # "Text" => ~HasNul(Body(v))
  /\ v.role = "CString" => v.bytes = Body(v) \o Zero
  /\ MadeFrom(Body(v), from)

\* A rejection is the validator's, of the bytes it names.
AnswerOk(a) ==
  a[1] = "Invalid" => a[2] \in Seq(Octet) /\ AnswerFits(a[2], Invalid(a[3]))

\* The inductive invariant.
IInv == ValueOk(val, origin) /\ AnswerOk(ans)
=============================================================================
