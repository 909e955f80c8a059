----------------------------- MODULE CStringCell ----------------------------
(* What a CBuffer promises its reader (SPEC Section 13, CSTR-010..017, and    *)
(* the C23 and POSIX names of the same calls).  The state is the C string in  *)
(* the storage: the bytes before the first NUL, or all cap bytes when there   *)
(* is none, and then the storage is unterminated.  Bytes after the first NUL  *)
(* are not part of the value; a raw call that overwrites the NUL without      *)
(* storing another lets them resurface, and the reader cannot know them.      *)
EXTENDS Integers, Sequences, StringsTypes

CONSTANTS MaxUsize, MaxCap, Byte, Payload, Source, Count

VARIABLES cap,     \* the capacity of the storage
          str,     \* the C string in it
          last     \* the answer the caller holds, with the call it is for

vars == <<cap, str, last>>

Char == Byte \ {0}

Min2(a, b) == IF a < b THEN a ELSE b
First(s, n) == SubSeq(s, 1, n)
Rest(s, n)  == SubSeq(s, n + 1, Len(s))
HasNul(s)   == \E i \in 1 .. Len(s) : s[i] = 0

\* The C string in the first n bytes of a source.
UpToNul(s, n) ==
  LET lens == {k \in 0 .. Min2(n, Len(s)) : ~HasNul(First(s, k))}
  IN  First(s, CHOOSE k \in lens : \A j \in lens : j <= k)

Terminated == Len(str) < cap

NoAnswer == [op |-> "none", src |-> <<>>, n |-> 0, res |-> Unit]

Says(op, src, n, res) ==
  /\ last = NoAnswer
  /\ last' = [op |-> op, src |-> src, n |-> n, res |-> res]
  /\ UNCHANGED cap

Becomes(s, op, src, n, res) == Says(op, src, n, res) /\ str' = s
Stays(op, src, n, res)      == Becomes(str, op, src, n, res)

\* The bytes w are stored at the front and nothing else is.
Overlay(w) ==
  \/ HasNul(w) /\ str' = UpToNul(w, Len(w))
  \/ ~HasNul(w) /\ Len(w) <= Len(str) /\ str' = w \o Rest(str, Len(w))
  \/ /\ ~HasNul(w) /\ Len(w) > Len(str)
     /\ str' \in Seq(Char)
     /\ Len(w) <= Len(str') /\ Len(str') <= cap
     /\ First(str', Len(w)) = w

-----------------------------------------------------------------------------
Init ==
  /\ cap \in 0 .. MaxCap
  /\ str \in Seq(Char)
  /\ Len(str) <= cap
  /\ last = NoAnswer

TakeAnswer ==
  /\ last # NoAnswer
  /\ last' = NoAnswer
  /\ UNCHANGED <<cap, str>>

EmptyBuffer == Becomes(<<>>, "empty_buffer", <<>>, 0, Unit)

\* As much of p as leaves room for a terminator; without any room, nothing,
\* and the caller is told it was cut.
CopyInto(p) ==
  LET w == Min2(Len(p), cap - 1) IN
  IF cap = 0 THEN Stays("copy_into", p, 0, Report(0, Len(p), TRUE))
  ELSE Becomes(First(p, w), "copy_into", p, 0, Report(w, Len(p), w < Len(p)))

\* Append within the first ds bytes; a string that fills them is left alone.
Append2(op, p, n, ds) ==
  LET l == Min2(Len(str), ds)
      w == Min2(Len(p), ds - l - 1) IN
  \/ l + Len(p) > MaxUsize /\ Stays(op, p, n, LengthOverflow)
  \/ /\ l + Len(p) <= MaxUsize /\ l = ds
     /\ Stays(op, p, n, Reported(0, ds + Len(p), TRUE))
  \/ /\ l + Len(p) <= MaxUsize /\ l < ds
     /\ Becomes(str \o First(p, w), op, p, n,
                Reported(w, Len(str) + Len(p), w < Len(p)))

AppendInto(p) == Append2("append_into", p, 0, cap)
StrLCat(p, n) == Append2("strlcat", p, n, Min2(n, cap))

\* The whole of s and a terminator, or a refusal.
Whole(op, s, res) ==
  IF Len(s) < cap THEN Becomes(s, op, s, 0, res)
  ELSE Stays(op, s, 0, TooSmall(Len(s) + 1, cap))

StrCpy(p) == Whole("strcpy", p, Copied(Len(p)))
StpCpy(p) == Whole("stpcpy", p, EndAt(Len(p)))

\* The whole of t after the string, or a refusal.  What a refusal for want of
\* a terminator reports as needed is unneeded here: see NeedExceedsHave.
Concat(op, s, n, t) ==
  \/ ~Terminated /\ \E need \in 0 .. MaxUsize : Stays(op, s, n, TooSmall(need, cap))
  \/ /\ Terminated /\ Len(str) + Len(t) < cap
     /\ Becomes(str \o t, op, s, n, Copied(Len(t)))
  \/ /\ Terminated /\ Len(str) + Len(t) >= cap
     /\ \E need \in cap + 1 .. MaxUsize : Stays(op, s, n, TooSmall(need, cap))

StrCat(p)     == Concat("strcat", p, 0, p)
StrNCat(s, n) == Concat("strncat", s, n, UpToNul(s, n))

\* Exactly n bytes: the string of the source padded with NULs, or, when that
\* string has n bytes, no terminator at all.
NCopy(op, s, n, res) ==
  LET t == UpToNul(s, n) IN
  \/ n > cap /\ Stays(op, s, n, TooSmall(n, cap))
  \/ n <= cap /\ Len(t) < n /\ Becomes(t, op, s, n, res)
  \/ n <= cap /\ Len(t) = n /\ Says(op, s, n, res) /\ Overlay(t)

StrNCpy(s, n) == NCopy("strncpy", s, n, Copied(n))
StpNCpy(s, n) == NCopy("stpncpy", s, n, EndAt(Len(UpToNul(s, n))))

\* The raw calls see no string.
MemCpy(s, n) ==
  \/ n > cap /\ Stays("memcpy", s, n, TooSmall(n, cap))
  \/ n <= cap /\ n > Len(s) /\ Stays("memcpy", s, n, TooSmall(n, Len(s)))
  \/ /\ n <= cap /\ n <= Len(s)
     /\ Says("memcpy", s, n, Copied(n)) /\ Overlay(First(s, n))

\* The window of the source up to and including its first stop byte.
Through(s, stop, n) ==
  LET window == First(s, Min2(n, Len(s)))
      hits   == {i \in 1 .. Len(window) : window[i] = stop}
  IN  IF hits = {} THEN window
      ELSE First(window, CHOOSE i \in hits : \A j \in hits : i <= j)

MemCCpy(s, stop, n) ==
  LET w == Through(s, stop, n)
      hit == \E i \in 1 .. Len(w) : w[i] = stop IN
  IF n > cap THEN Stays("memccpy", s, n, Memccpy(0, FALSE))
  ELSE Says("memccpy", s, n, Memccpy(Len(w), hit)) /\ Overlay(w)

Copy(s) ==
  IF Len(s) > cap THEN Stays("copy", s, 0, TooSmall(Len(s), cap))
  ELSE Says("copy", s, 0, Copied(Len(s))) /\ Overlay(s)

CopyPrefix(s) ==
  LET w == First(s, Min2(Len(s), cap)) IN
  Says("copy_prefix", s, 0, Report(Len(w), Len(s), Len(w) < Len(s))) /\ Overlay(w)

Fill(v) ==
  Becomes(IF v = 0 THEN <<>> ELSE [i \in 1 .. cap |-> v], "fill", <<>>, v, Unit)

StrXfrm(p) ==
  IF Len(p) > cap THEN Stays("strxfrm", p, 0, KeyTooBig(Len(p)))
  ELSE Says("strxfrm", p, 0, Written(Len(p))) /\ Overlay(p)

StrXfrmNamed(p) == Stays("strxfrm_l", p, 0, LocaleUnsupported)

RequireCStr ==
  Stays("require_cstr", <<>>, 0, IF Terminated THEN View(str) ELSE NoTerminator)

StrNLen(n) == Stays("strnlen", <<>>, n, Length(Min2(n, Len(str))))

Next ==
  \/ TakeAnswer
  \/ EmptyBuffer
  \/ RequireCStr
  \/ \E v \in Byte : Fill(v)
  \/ \E n \in Count : StrNLen(n)
  \/ \E p \in Payload :
       \/ CopyInto(p) \/ AppendInto(p) \/ StrCpy(p) \/ StpCpy(p)
       \/ StrCat(p) \/ StrXfrm(p) \/ StrXfrmNamed(p)
       \/ \E n \in Count : StrLCat(p, n)
  \/ \E s \in Source :
       \/ Copy(s) \/ CopyPrefix(s)
       \/ \E n \in Count :
            \/ StrNCat(s, n) \/ StrNCpy(s, n) \/ StpNCpy(s, n) \/ MemCpy(s, n)
            \/ \E stop \in Byte : MemCCpy(s, stop, n)

Spec == Init /\ [][Next]_vars
=============================================================================
