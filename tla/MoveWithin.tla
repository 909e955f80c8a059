----------------------------- MODULE MoveWithin -----------------------------
(* strings_bytes::move_within (lib/strings_bytes.sv0), one loop iteration    *)
(* per step, called again and again on one buffer with any arguments a usize *)
(* can hold.  strings_c23::memmove_within is the same call with its          *)
(* arguments in another order.                                               *)
EXTENDS Integers

CONSTANTS N,          \* slice_len(buf)
          Byte,       \* the byte values a cell can hold
          MaxUsize    \* the largest usize

\* A slice fits in the address space and a byte has at least one value.
ASSUME ConstantsAssumption ==
  /\ N \in Nat
  /\ MaxUsize \in Nat
  /\ N <= MaxUsize
  /\ Byte # {}

VARIABLES buf,        \* the caller's buffer, indexed from 0
          call,       \* src_start, len and dst_start of the call
          pc,         \* where the call is
          k,          \* i of the forward loop, j of the backward loop
          old,        \* history: the buffer when the call began
          result      \* the MoveResult of the last call

vars == <<buf, call, pc, k, old, result>>

Usize  == 0 .. MaxUsize
Index  == 0 .. N - 1
Buffer == [Index -> Byte]
Args   == [src_start : Usize, len : Usize, dst_start : Usize]

NoArgs == [src_start |-> 0, len |-> 0, dst_start |-> 0]

NoResult == <<"None">>
Moved    == <<"Moved">>
RangeOutOfBounds(start, len) == <<"RangeOutOfBounds", start, len, N>>

MoveResult == {NoResult, Moved}
                \cup {RangeOutOfBounds(s, l) : s \in Usize, l \in Usize}

-----------------------------------------------------------------------------
\* Mutant of OutOfBounds: one comparison, of a sum that may wrap.
OutOfBoundsBySum(start, len) == (start + len) % (MaxUsize + 1) > N

\* The two checks of a range, written so that start + len is never formed.
OutOfBounds(start, len) == start > N \/ len > N - start

\* The answer; the arguments and the loop variable die with the call, and the
\* history variable follows the buffer again.
Return(r) ==
  /\ pc' = "idle"
  /\ result' = r
  /\ call' = NoArgs
  /\ k' = 0
  /\ old' = buf
  /\ UNCHANGED buf

Init ==
  /\ buf \in Buffer
  /\ call = NoArgs
  /\ pc = "idle"
  /\ k = 0
  /\ old = buf
  /\ result = NoResult

Call(c) ==
  /\ pc = "idle"
  /\ pc' = "check"
  /\ call' = c
  /\ result' = NoResult
  /\ UNCHANGED <<buf, k, old>>

\* Mutant of Refuse: the destination range is checked first.
RefuseDestinationFirst ==
  /\ pc = "check"
  /\ \/ /\ OutOfBounds(call.dst_start, call.len)
        /\ Return(RangeOutOfBounds(call.dst_start, call.len))
     \/ /\ ~OutOfBounds(call.dst_start, call.len)
        /\ OutOfBounds(call.src_start, call.len)
        /\ Return(RangeOutOfBounds(call.src_start, call.len))

Refuse ==
  /\ pc = "check"
  /\ \/ /\ OutOfBounds(call.src_start, call.len)
        /\ Return(RangeOutOfBounds(call.src_start, call.len))
     \/ /\ ~OutOfBounds(call.src_start, call.len)
        /\ OutOfBounds(call.dst_start, call.len)
        /\ Return(RangeOutOfBounds(call.dst_start, call.len))

Accepted == ~OutOfBounds(call.src_start, call.len)
              /\ ~OutOfBounds(call.dst_start, call.len)
Nothing  == call.len = 0 \/ call.src_start = call.dst_start

MoveNothing ==
  /\ pc = "check" /\ Accepted /\ Nothing
  /\ Return(Moved)

\* Mutant of Forward: the comparison the wrong way round.
ForwardReversed(c) == c.dst_start > c.src_start

\* Which end the copy starts from.
Forward(c) == c.dst_start < c.src_start

StartForward ==
  /\ pc = "check" /\ Accepted /\ ~Nothing /\ Forward(call)
  /\ pc' = "forward"
  /\ k' = 0
  /\ UNCHANGED <<buf, call, old, result>>

\* Mutant of StartBackward: the loop begins one byte low.
StartBackwardLow ==
  /\ pc = "check" /\ Accepted /\ ~Nothing /\ ~Forward(call)
  /\ pc' = "backward"
  /\ k' = call.len - 1
  /\ UNCHANGED <<buf, call, old, result>>

StartBackward ==
  /\ pc = "check" /\ Accepted /\ ~Nothing /\ ~Forward(call)
  /\ pc' = "backward"
  /\ k' = call.len
  /\ UNCHANGED <<buf, call, old, result>>

CopyByte(x) == buf' = [buf EXCEPT ![call.dst_start + x] = buf[call.src_start + x]]

StepForward ==
  /\ pc = "forward" /\ k < call.len
  /\ CopyByte(k)
  /\ k' = k + 1
  /\ UNCHANGED <<call, pc, old, result>>

\* Mutant of StepBackward: the loop variable is not moved.
StepBackwardStuck ==
  /\ pc = "backward" /\ k > 0
  /\ CopyByte(k - 1)
  /\ UNCHANGED <<call, pc, k, old, result>>

StepBackward ==
  /\ pc = "backward" /\ k > 0
  /\ k' = k - 1
  /\ CopyByte(k - 1)
  /\ UNCHANGED <<call, pc, old, result>>

Finish ==
  /\ \/ pc = "forward" /\ k >= call.len
     \/ pc = "backward" /\ k <= 0
  /\ Return(Moved)

\* The steps of a call once it began; a sequential caller runs them to the end.
Run == Refuse \/ MoveNothing \/ StartForward \/ StartBackward
         \/ StepForward \/ StepBackward \/ Finish

Next == (\E c \in Args : Call(c)) \/ Run

Spec == Init /\ [][Next]_vars

\* A call that began is run; the caller may stop calling.
FairSpec == Spec /\ WF_vars(Run)

-----------------------------------------------------------------------------
TypeOK ==
  /\ buf \in Buffer
  /\ old \in Buffer
  /\ call \in Args
  /\ pc \in {"idle", "check", "forward", "backward"}
  /\ k \in Usize
  /\ result \in MoveResult

Looping == pc \in {"forward", "backward"}

\* Positions of the destination range already written.
Done == IF pc = "forward" THEN 0 .. k - 1 ELSE k .. call.len - 1

\* Positions of the source range still to be read.
ToRead == (0 .. call.len - 1) \ Done

\* The loop contracts of both loops (they abort the program when false), and
\* with them every index the loop forms is an index of the slice.
LoopContracts ==
  Looping => /\ k <= call.len
             /\ call.src_start + call.len <= N
             /\ call.dst_start + call.len <= N

\* Whatever the overlap, a source byte that is still to be read holds what it
\* held when the call began: the direction test never lets the copy overwrite
\* one first.
UnreadIntact ==
  Looping => \A x \in ToRead : buf[call.src_start + x] = old[call.src_start + x]

\* In the middle of a call the buffer differs from what it was only at the
\* destination positions already written, and those hold the old source bytes.
PartialMove ==
  Looping => \A x \in Index :
    buf[x] = IF x - call.dst_start \in Done
             THEN old[call.src_start + (x - call.dst_start)] ELSE old[x]

\* Outside the loops a call has changed nothing.
CleanEntry == ~Looping => buf = old

\* The direction the loop runs in is the safe one.
Direction ==
  /\ pc = "forward" => call.dst_start < call.src_start
  /\ pc = "backward" => call.src_start < call.dst_start

\* The inductive invariant.
IInv == TypeOK /\ LoopContracts /\ Direction /\ CleanEntry /\ PartialMove

\* The whole call is one atomic snapshot move or one refusal that wrote
\* nothing, whichever arguments it was given (BYTE-007, BYTE-008).
Atomic == INSTANCE AtomicMove
            WITH busy <- pc # "idle",
                 buf  <- IF pc = "idle" THEN buf ELSE old
AtomicSpec == Atomic!Spec

\* A call that began is answered: both loops end.
Terminates == pc # "idle" ~> pc = "idle"
=============================================================================
