----------------------------- MODULE AtomicMove -----------------------------
(* What strings_bytes::move_within promises (lib/strings_bytes.sv0, BYTE-007 *)
(* and BYTE-008): the call either answers RangeOutOfBounds and leaves the    *)
(* buffer alone, or moves the range as if the source bytes had first been    *)
(* copied to a buffer of their own.  One step invokes, one step answers.     *)
EXTENDS Integers

CONSTANTS N,          \* slice_len(buf)
          Byte,       \* the byte values a cell can hold
          MaxUsize    \* the largest usize

VARIABLES buf,        \* the caller's buffer, indexed from 0
          call,       \* the arguments of the call
          busy,       \* a call is in progress
          result      \* the answer of the last call

vars == <<buf, call, busy, result>>

Usize == 0 .. MaxUsize
Index == 0 .. N - 1
Args  == [src_start : Usize, len : Usize, dst_start : Usize]

NoArgs == [src_start |-> 0, len |-> 0, dst_start |-> 0]

NoResult == <<"None">>
Moved    == <<"Moved">>
RangeOutOfBounds(start, len) == <<"RangeOutOfBounds", start, len, N>>

\* The range [start, start + len) lies in the buffer.
InRange(start, len) == start + len <= N

\* The buffer b after the move of c, every source byte read from b itself.
Snapshot(b, c) ==
  [x \in Index |->
     IF x \in c.dst_start .. c.dst_start + c.len - 1
     THEN b[c.src_start + (x - c.dst_start)] ELSE b[x]]

Init ==
  /\ buf \in [Index -> Byte]
  /\ call = NoArgs
  /\ busy = FALSE
  /\ result = NoResult

Invoke(c) ==
  /\ ~busy
  /\ busy' = TRUE
  /\ call' = c
  /\ result' = NoResult
  /\ UNCHANGED buf

Move ==
  /\ busy
  /\ InRange(call.src_start, call.len)
  /\ InRange(call.dst_start, call.len)
  /\ buf' = Snapshot(buf, call)
  /\ result' = Moved
  /\ busy' = FALSE
  /\ call' = NoArgs

\* The source range is the first one checked, so it is the one reported.
Refuse ==
  /\ busy
  /\ \/ /\ ~InRange(call.src_start, call.len)
        /\ result' = RangeOutOfBounds(call.src_start, call.len)
     \/ /\ InRange(call.src_start, call.len)
        /\ ~InRange(call.dst_start, call.len)
        /\ result' = RangeOutOfBounds(call.dst_start, call.len)
  /\ busy' = FALSE
  /\ call' = NoArgs
  /\ UNCHANGED buf

Next == (\E c \in Args : Invoke(c)) \/ Move \/ Refuse

Spec == Init /\ [][Next]_vars
=============================================================================
