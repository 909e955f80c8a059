------------------------------ MODULE CBuffer -------------------------------
(* A CBuffer: one mutable byte storage and the library calls a program makes  *)
(* on it, one call per step.  The value is exactly its storage (deviation     *)
(* D-8): the first NUL is found by a bounded scan in every call and cached    *)
(* nowhere.                                                                   *)
(*   strings_cstr       copy_into, append_into, empty_buffer, require_cstr    *)
(*   strings_c23        memcpy, memccpy, strcpy, strncpy, strcat, strncat,    *)
(*                      memset, strxfrm                                       *)
(*   strings_posix2024  stpcpy, stpncpy, strlcpy, strlcat, strnlen            *)
(*   strings_bytes      copy, copy_prefix, fill                               *)
EXTENDS StringsChecked, StringsTypes, Sequences

CONSTANTS MaxCap,      \* the longest storage
          Byte,        \* the byte values, 0 among them
          Payload,     \* the CStr payloads passed as a source: no 0 in them
          Source,      \* the byte slices passed as a source
          Count        \* the values of a count argument n or dstsize

ASSUME BufferAssumption ==
  /\ MaxCap \in Usize
  /\ Byte \subseteq Nat
  /\ 0 \in Byte
  /\ Payload \subseteq Seq(Byte \ {0})
  /\ Source \subseteq Seq(Byte)
  /\ \A s \in Payload \cup Source : Len(s) \in Usize
  /\ Count \subseteq Usize

\* One byte beside a storage or a payload can be counted: neither is all of
\* memory.
ASSUME RoomAssumption ==
  /\ MaxCap < MaxUsize
  /\ \A p \in Payload : Len(p) < MaxUsize

VARIABLES cap,         \* slice_len(storage)
          buf,         \* the storage, indexed from 0
          last         \* the answer the caller holds, with the call it is for

vars == <<cap, buf, last>>

NoAnswer == [op |-> "none", src |-> <<>>, n |-> 0, res |-> Unit]

\* A call runs to its answer; the next one is made once that was taken.
Answer(op, src, n, res) ==
  /\ last = NoAnswer
  /\ last' = [op |-> op, src |-> src, n |-> n, res |-> res]
  /\ UNCHANGED cap

AnswerOnly(op, src, n, res) == Answer(op, src, n, res) /\ UNCHANGED buf

-----------------------------------------------------------------------------
Least(a, b) == IF b < a THEN b ELSE a

\* first_nul and cat_first_nul of b[0..c]: the first 0, or c.
FirstNul(b, c) ==
  CHOOSE f \in 0 .. c : /\ \A x \in 0 .. f - 1 : b[x] # 0
                        /\ f < c => b[f] = 0

\* bound_to_nul of a source slice, with its bound clamped to the slice.
BoundToNul(s, n) ==
  CHOOSE f \in 0 .. Least(n, Len(s)) :
    /\ \A x \in 1 .. f : s[x] # 0
    /\ f < Least(n, Len(s)) => s[f + 1] = 0

\* The copy loop b[at + i] = s[i] for i < w.  An index past the end of the
\* storage would make the storage grow, which TypeOK forbids.
Put(b, at, s, w) ==
  [x \in DOMAIN b \cup at .. at + w - 1 |->
     IF x \in at .. at + w - 1 THEN s[x - at + 1] ELSE b[x]]

\* The loop that stores v in b[from .. to - 1].
Pad(b, from, to, v) ==
  [x \in DOMAIN b \cup from .. to - 1 |->
     IF x \in from .. to - 1 THEN v ELSE b[x]]

\* The copy loop followed by the terminator.
PutString(b, at, s, w) == Pad(Put(b, at, s, w), at + w, at + w + 1, 0)

\* The payload that require_cstr copies out.
Content(b, c) == [i \in 1 .. FirstNul(b, c) |-> b[i - 1]]

-----------------------------------------------------------------------------
Init ==
  /\ cap \in 0 .. MaxCap
  /\ buf \in [0 .. cap - 1 -> Byte]
  /\ last = NoAnswer

TakeAnswer ==
  /\ last # NoAnswer
  /\ last' = NoAnswer
  /\ UNCHANGED <<cap, buf>>

EmptyBuffer ==
  \/ /\ cap > 0
     /\ buf' = Pad(buf, 0, 1, 0)
     /\ Answer("empty_buffer", <<>>, 0, Unit)
  \/ /\ cap = 0
     /\ AnswerOnly("empty_buffer", <<>>, 0, Unit)

\* Mutant of CopyInto: a payload that fills the storage is not called cut.
CopyIntoUnreported(p) ==
  \/ /\ cap = 0
     /\ AnswerOnly("copy_into", p, 0, Report(0, Len(p), TRUE))
  \/ /\ cap > 0
     /\ LET w == Least(Len(p), cap - 1) IN
          /\ buf' = PutString(buf, 0, p, w)
          /\ Answer("copy_into", p, 0, Report(w, Len(p), Len(p) > cap))

\* strlcpy is this function.
CopyInto(p) ==
  \/ /\ cap = 0
     /\ AnswerOnly("copy_into", p, 0, Report(0, Len(p), TRUE))
  \/ /\ cap > 0
     /\ LET w == Least(Len(p), cap - 1) IN
          /\ buf' = PutString(buf, 0, p, w)
          /\ Answer("copy_into", p, 0, Report(w, Len(p), Len(p) >= cap))

\* Mutant of AppendWithin: the sum is not checked.
AppendUnchecked(op, p, n, ds) ==
  LET f   == FirstNul(buf, ds)
      sum == Wrap(f + Len(p))
      w   == Least(Len(p), ds - f - 1)
  IN
  \/ /\ f = ds
     /\ AnswerOnly(op, p, n, Reported(0, sum, TRUE))
  \/ /\ f < ds
     /\ buf' = PutString(buf, f, p, w)
     /\ Answer(op, p, n, Reported(w, sum, sum >= ds))

\* append_into on the first ds bytes of the storage; both arms of the code
\* check the same sum, for without a NUL the scan ends at ds.
AppendWithin(op, p, n, ds) ==
  LET f   == FirstNul(buf, ds)
      sum == CheckedAdd(f, Len(p))
      w   == Least(Len(p), ds - f - 1)
  IN
  \/ /\ sum = Overflow
     /\ AnswerOnly(op, p, n, LengthOverflow)
  \/ /\ sum # Overflow /\ f = ds
     /\ AnswerOnly(op, p, n, Reported(0, sum.val, TRUE))
  \/ /\ sum # Overflow /\ f < ds
     /\ buf' = PutString(buf, f, p, w)
     /\ Answer(op, p, n, Reported(w, sum.val, sum.val >= ds))

AppendInto(p) == AppendWithin("append_into", p, 0, cap)

\* Mutant of StrLCat: dstsize is ignored.
StrLCatWhole(p, n) == AppendWithin("strlcat", p, n, cap)

StrLCat(p, n) == AppendWithin("strlcat", p, n, Least(n, cap))

\* Mutant of StrCpy: a refused call leaves the empty string, as strcpy_s does.
StrCpyEmpties(p) ==
  LET need == OkOr(CheckedAdd(Len(p), 1), Wrap(cap + 1)) IN
  \/ /\ need > cap
     /\ buf' = IF cap = 0 THEN buf ELSE Pad(buf, 0, 1, 0)
     /\ Answer("strcpy", p, 0, TooSmall(need, cap))
  \/ /\ need <= cap
     /\ buf' = PutString(buf, 0, p, Len(p))
     /\ Answer("strcpy", p, 0, Copied(Len(p)))

StrCpy(p) ==
  LET need == OkOr(CheckedAdd(Len(p), 1), Wrap(cap + 1)) IN
  \/ /\ need > cap
     /\ AnswerOnly("strcpy", p, 0, TooSmall(need, cap))
  \/ /\ need <= cap
     /\ buf' = PutString(buf, 0, p, Len(p))
     /\ Answer("strcpy", p, 0, Copied(Len(p)))

\* stpcpy adds one without the checked addition.
StpCpy(p) ==
  LET need == Wrap(Len(p) + 1) IN
  \/ /\ need > cap
     /\ AnswerOnly("stpcpy", p, 0, TooSmall(need, cap))
  \/ /\ need <= cap
     /\ buf' = PutString(buf, 0, p, Len(p))
     /\ Answer("stpcpy", p, 0, EndAt(Len(p)))

\* Mutant of CatNeed: no room for the terminator.
CatNeedBare(f, m, c) == OkOr(CheckedAdd(f, m), c)

\* The bytes strcat and strncat need for m bytes after offset f.
CatNeed(f, m, c) ==
  OkOr(CheckedAdd(OkOr(CheckedAdd(f, m), c), 1), Wrap(c + 1))

\* strcat and strncat from the first NUL on: all m bytes of s, or nothing.
CatWhole(op, s, n, f, m) ==
  LET need == CatNeed(f, m, cap) IN
  \/ /\ need > cap
     /\ AnswerOnly(op, s, n, TooSmall(need, cap))
  \/ /\ need <= cap
     /\ buf' = PutString(buf, f, s, m)
     /\ Answer(op, s, n, Copied(m))

\* Mutant of StrCat: the need of an unterminated storage lacks the terminator.
StrCatShort(p) ==
  LET f == FirstNul(buf, cap) IN
  \/ /\ f = cap
     /\ AnswerOnly("strcat", p, 0, TooSmall(Wrap(cap + Len(p)), cap))
  \/ /\ f < cap
     /\ CatWhole("strcat", p, 0, f, Len(p))

\* Without a NUL in the storage the need is added up unchecked.
StrCat(p) ==
  LET f == FirstNul(buf, cap) IN
  \/ /\ f = cap
     /\ AnswerOnly("strcat", p, 0, TooSmall(Wrap(cap + Len(p) + 1), cap))
  \/ /\ f < cap
     /\ CatWhole("strcat", p, 0, f, Len(p))

StrNCat(s, n) ==
  LET f == FirstNul(buf, cap) IN
  \/ /\ f = cap
     /\ AnswerOnly("strncat", s, n, TooSmall(Wrap(cap + n + 1), cap))
  \/ /\ f < cap
     /\ CatWhole("strncat", s, n, f, BoundToNul(s, n))

\* strncpy and stpncpy: copy to the first NUL of the window, pad to n.  When
\* the window holds none, nothing terminates the storage.
NCopy(op, s, n, res) ==
  \/ /\ n > cap
     /\ AnswerOnly(op, s, n, TooSmall(n, cap))
  \/ /\ n <= cap
     /\ LET stop == BoundToNul(s, n) IN
          buf' = Pad(Put(buf, 0, s, stop), stop, n, 0)
     /\ Answer(op, s, n, res)

StrNCpy(s, n) == NCopy("strncpy", s, n, Copied(n))

StpNCpy(s, n) == NCopy("stpncpy", s, n, EndAt(BoundToNul(s, n)))

\* memmove between two slices is the same call.
MemCpy(s, n) ==
  \/ /\ n > cap
     /\ AnswerOnly("memcpy", s, n, TooSmall(n, cap))
  \/ /\ n <= cap /\ n > Len(s)
     /\ AnswerOnly("memcpy", s, n, TooSmall(n, Len(s)))
  \/ /\ n <= cap /\ n <= Len(s)
     /\ buf' = Put(buf, 0, s, n)
     /\ Answer("memcpy", s, n, Copied(n))

\* The offset just past the first stop byte of the window, or its end.
StopEnd(s, stop, n) ==
  CHOOSE e \in 0 .. Least(n, Len(s)) :
    /\ \A x \in 1 .. e - 1 : s[x] # stop
    /\ e < Least(n, Len(s)) => e > 0 /\ s[e] = stop

MemCCpy(s, stop, n) ==
  \/ /\ n > cap
     /\ AnswerOnly("memccpy", s, n, Memccpy(0, FALSE))
  \/ /\ n <= cap
     /\ LET e == StopEnd(s, stop, n) IN
          /\ buf' = Put(buf, 0, s, e)
          /\ Answer("memccpy", s, n, Memccpy(e, e > 0 /\ s[e] = stop))

Copy(s) ==
  \/ /\ cap < Len(s)
     /\ AnswerOnly("copy", s, 0, TooSmall(Len(s), cap))
  \/ /\ cap >= Len(s)
     /\ buf' = Put(buf, 0, s, Len(s))
     /\ Answer("copy", s, 0, Copied(Len(s)))

CopyPrefix(s) ==
  LET w == Least(Len(s), cap) IN
  /\ buf' = Put(buf, 0, s, w)
  /\ Answer("copy_prefix", s, 0, Report(w, Len(s), cap < Len(s)))

\* memset, memset_explicit, fill_explicit and, with 0, bzero are this loop.
Fill(v) ==
  /\ buf' = Pad(buf, 0, cap, v)
  /\ Answer("fill", <<>>, v, Unit)

\* strxfrm under the POSIX locale: the key is the payload, unterminated.
StrXfrm(p) ==
  \/ /\ Len(p) > cap
     /\ AnswerOnly("strxfrm", p, 0, KeyTooBig(Len(p)))
  \/ /\ Len(p) <= cap
     /\ buf' = Put(buf, 0, p, Len(p))
     /\ Answer("strxfrm", p, 0, Written(Len(p)))

\* strxfrm_l in a named locale: open refuses it. In the POSIX locale it is
\* strxfrm.
StrXfrmNamed(p) == AnswerOnly("strxfrm_l", p, 0, LocaleUnsupported)

RequireCStr ==
  \/ /\ FirstNul(buf, cap) = cap
     /\ AnswerOnly("require_cstr", <<>>, 0, NoTerminator)
  \/ /\ FirstNul(buf, cap) < cap
     /\ AnswerOnly("require_cstr", <<>>, 0, View(Content(buf, cap)))

StrNLen(n) ==
  AnswerOnly("strnlen", <<>>, n, Length(FirstNul(buf, Least(n, cap))))

Next ==
  \/ TakeAnswer
  \/ EmptyBuffer
  \/ RequireCStr
  \/ \E v \in Byte : Fill(v)
  \/ \E n \in Count : StrNLen(n)
  \/ \E p \in Payload :
       \/ CopyInto(p) \/ AppendInto(p) \/ StrCpy(p) \/ StpCpy(p)
       \/ StrCat(p) \/ StrXfrm(p) \/ StrXfrmNamed(p)
       \/ \E n \in Count : StrLCat(p, n)
  \/ \E s \in Source :
       \/ Copy(s) \/ CopyPrefix(s)
       \/ \E n \in Count :
            \/ StrNCat(s, n) \/ StrNCpy(s, n) \/ StpNCpy(s, n) \/ MemCpy(s, n)
            \/ \E stop \in Byte : MemCCpy(s, stop, n)

Spec == Init /\ [][Next]_vars

-----------------------------------------------------------------------------
\* BYTE-017: no call, in any order, stores past the end of the storage; a store
\* there would add an index to buf.
TypeOK ==
  /\ cap \in 0 .. MaxCap
  /\ buf \in [0 .. cap - 1 -> Byte]
  /\ last.n \in Nat

\* SEC-003 and each function's contract: a call that refuses the storage, or
\* finds no NUL to append after, has stored nothing; a check placed after the
\* first store would break it.
FailureAtomic ==
  [][\/ Refused(last'.res)
     \/ last'.op \in {"append_into", "strlcat"} /\ last'.res[2] = 0
           /\ FirstNul(buf, cap) = cap
     => buf' = buf]_vars

\* The calls that leave a C string behind when they answer with success.
Stringing == {"copy_into", "append_into", "strlcat", "strcpy", "stpcpy",
              "strcat", "strncat"}
Appending == {"append_into", "strlcat", "strcat", "strncat"}
Bounded   == {"strlcat", "strncpy", "stpncpy", "memcpy", "memccpy"}

\* What a call may touch: an append keeps the string it extends, a call with a
\* bound keeps every byte at or past the bound, and a string call keeps every
\* byte after the terminator it stored.
Frame ==
  [][\A x \in 0 .. cap - 1 :
       \/ last'.op \in Appending /\ x < FirstNul(buf, cap)
       \/ last'.op \in Bounded /\ x >= last'.n
       \/ last'.op \in Stringing /\ x > FirstNul(buf', cap)
       => buf'[x] = buf[x]]_vars

\* BufferError: DestinationTooSmall(needed, available) is only answered when
\* more is needed than is available.
NeedExceedsHave ==
  last.res[1] = "DestinationTooSmall" => last.res[2] > last.res[3]

\* The storage a caller gets by growing it to c bytes, zero filled.
Grown(c) == [x \in 0 .. c - 1 |-> IF x < cap THEN buf[x] ELSE 0]

\* The storage, what is asked to be appended and a terminator add up to a usize.
SumFits ==
  cap + 1 + (IF last.op = "strcat" THEN Len(last.src) ELSE last.n) \in Usize

\* The need a refused strcat or strncat reports is enough, where it is a sum that
\* fits: the same call on the storage grown to it finds a NUL and room, so a
\* caller that grows and retries once is done.
RetrySucceeds ==
  last.op \in {"strcat", "strncat"} /\ Refused(last.res) /\ SumFits =>
    LET c == last.res[2]
        f == FirstNul(Grown(c), c)
        m == IF last.op = "strcat" THEN Len(last.src)
             ELSE BoundToNul(last.src, last.n)
    IN  c > cap /\ f < c /\ CatNeed(f, m, c) <= c

\* What the storage is to its reader: a bounded C string, on which every call
\* has the effect and the answer that CStringCell gives it.
CString == INSTANCE CStringCell WITH str <- Content(buf, cap)
CStringSpec == CString!Spec
=============================================================================
