-------------------------- MODULE MoveWithinProofs --------------------------
(* Proofs about MoveWithin, for every buffer length, every set of bytes and   *)
(* every width of usize.                                                      *)
EXTENDS MoveWithin, TLAPS

\* What the four ordered checks of move_within say, without the subtraction.
LEMMA BoundsMeaning ==
  ASSUME NEW start \in Usize, NEW len \in Usize
  PROVE  OutOfBounds(start, len) <=> start + len > N
BY ConstantsAssumption DEF OutOfBounds, Usize

LEMMA ArgsType ==
  ASSUME NEW c \in Args
  PROVE  c.src_start \in Nat /\ c.len \in Nat /\ c.dst_start \in Nat
BY ConstantsAssumption DEF Args, Usize

\* An accepted call has both ranges in the buffer.
LEMMA AcceptedMeaning ==
  ASSUME call \in Args
  PROVE  Accepted <=> /\ call.src_start + call.len <= N
                      /\ call.dst_start + call.len <= N
<1>1. call.src_start \in Usize /\ call.len \in Usize /\ call.dst_start \in Usize
  BY DEF Args
<1>2. OutOfBounds(call.src_start, call.len) <=> call.src_start + call.len > N
  BY <1>1, BoundsMeaning
<1>3. OutOfBounds(call.dst_start, call.len) <=> call.dst_start + call.len > N
  BY <1>1, BoundsMeaning
<1>. QED
  BY <1>1, <1>2, <1>3, ConstantsAssumption DEF Accepted, Usize

LEMMA InitIInv == Init => IInv
<1>. SUFFICES ASSUME Init PROVE IInv
  OBVIOUS
<1>1. TypeOK
  BY ConstantsAssumption
  DEF Init, TypeOK, Usize, Args, NoArgs, MoveResult
<1>. QED
  BY <1>1 DEF Init, IInv, LoopContracts, Direction, CleanEntry, PartialMove, Looping

-----------------------------------------------------------------------------
(* One lemma per group of actions: an answer, and the two loops.             *)

\* Every return leaves the invariant: nothing but the answer is kept.
LEMMA ReturnIInv ==
  ASSUME IInv, NEW r \in MoveResult, Return(r)
  PROVE  IInv'
<1>1. TypeOK'
  BY ConstantsAssumption DEF IInv, TypeOK, Return, Usize, Args, NoArgs, Index, Buffer
<1>. QED
  BY <1>1 DEF Return, IInv, LoopContracts, Direction, CleanEntry, PartialMove, Looping

LEMMA CallIInv ==
  ASSUME IInv, NEW c \in Args, Call(c)
  PROVE  IInv'
<1>1. TypeOK'
  BY DEF IInv, TypeOK, Call, MoveResult, Index, Buffer, Usize, Args
<1>. QED
  BY <1>1 DEF Call, IInv, LoopContracts, Direction, CleanEntry, PartialMove, Looping

LEMMA RefuseIInv ==
  ASSUME IInv, Refuse
  PROVE  IInv'
<1>1. call.src_start \in Usize /\ call.len \in Usize /\ call.dst_start \in Usize
  BY DEF IInv, TypeOK, Args
<1>2. PICK r \in MoveResult : Return(r)
  BY <1>1 DEF Refuse, MoveResult
<1>. QED
  BY <1>2, ReturnIInv

LEMMA StartForwardIInv ==
  ASSUME IInv, StartForward
  PROVE  IInv'
<1>1. /\ call.src_start \in Nat /\ call.len \in Nat /\ call.dst_start \in Nat
      /\ call.src_start + call.len <= N
      /\ call.dst_start + call.len <= N
  BY AcceptedMeaning, ArgsType DEF IInv, TypeOK, StartForward
<1>2. TypeOK'
  BY ConstantsAssumption DEF IInv, TypeOK, StartForward, Usize, Index, Buffer, Args, MoveResult
<1>3. LoopContracts'
  BY <1>1 DEF StartForward, LoopContracts
<1>4. PartialMove'
  BY <1>1 DEF IInv, CleanEntry, StartForward, PartialMove, Looping, Done, Index
<1>. QED
  BY <1>2, <1>3, <1>4 DEF StartForward, IInv, Direction, CleanEntry, Looping, Forward

LEMMA StartBackwardIInv ==
  ASSUME IInv, StartBackward
  PROVE  IInv'
<1>1. /\ call.src_start \in Nat /\ call.len \in Nat /\ call.dst_start \in Nat
      /\ call.len \in Usize
      /\ call.src_start + call.len <= N
      /\ call.dst_start + call.len <= N
  BY AcceptedMeaning, ArgsType DEF IInv, TypeOK, StartBackward, Args
<1>2. TypeOK'
  BY <1>1 DEF IInv, TypeOK, StartBackward, Usize, Index, Buffer, Args, MoveResult
<1>3. LoopContracts'
  BY <1>1 DEF StartBackward, LoopContracts
<1>4. PartialMove'
  BY <1>1 DEF IInv, CleanEntry, StartBackward, PartialMove, Looping, Done, Index
<1>5. Direction'
  BY <1>1 DEF StartBackward, Direction, Forward, Nothing
<1>. QED
  BY <1>2, <1>3, <1>4, <1>5 DEF StartBackward, IInv, CleanEntry, Looping

\* A forward step writes position k of the destination with position k of the
\* source, which no earlier step has overwritten because dst_start < src_start.
LEMMA StepForwardIInv ==
  ASSUME IInv, StepForward
  PROVE  IInv'
<1>1. /\ call.src_start \in Nat /\ call.len \in Nat /\ call.dst_start \in Nat
      /\ k \in Nat /\ N \in Nat /\ k < call.len /\ call.len \in Usize
      /\ call.src_start + call.len <= N
      /\ call.dst_start + call.len <= N
      /\ call.dst_start < call.src_start
      /\ call.dst_start + k \in Index /\ call.src_start + k \in Index
  BY ArgsType, ConstantsAssumption
  DEF IInv, TypeOK, StepForward, LoopContracts, Looping, Direction, Usize, Index, Args
<1>2. buf[call.src_start + k] = old[call.src_start + k]
  BY <1>1 DEF IInv, StepForward, PartialMove, Looping, Done
<1>3. TypeOK'
  <2>1. buf \in [Index -> Byte] /\ buf' = [buf EXCEPT ![call.dst_start + k] = buf[call.src_start + k]]
    BY DEF IInv, TypeOK, StepForward, CopyByte, Buffer
  <2>2. buf' \in Buffer
    BY <1>1, <2>1 DEF Buffer
  <2>3. k' \in Usize
    BY <1>1, ConstantsAssumption DEF StepForward, Usize
  <2>. QED
    BY <2>2, <2>3 DEF IInv, TypeOK, StepForward
<1>4. LoopContracts'
  BY <1>1 DEF StepForward, LoopContracts
<1>5. PartialMove'
  <2>. SUFFICES ASSUME NEW x \in Index
       PROVE  buf'[x] = IF x - call.dst_start \in 0 .. k
                        THEN old[call.src_start + (x - call.dst_start)] ELSE old[x]
    BY <1>1 DEF PartialMove, StepForward, Done
  <2>1. buf[x] = IF x - call.dst_start \in 0 .. k - 1
                 THEN old[call.src_start + (x - call.dst_start)] ELSE old[x]
    BY DEF IInv, StepForward, PartialMove, Looping, Done
  <2>2. buf' = [buf EXCEPT ![call.dst_start + k] = buf[call.src_start + k]]
    BY DEF StepForward, CopyByte
  <2>3. DOMAIN buf = Index
    BY DEF IInv, TypeOK, Buffer
  <2>4. CASE x = call.dst_start + k
    BY <1>1, <1>2, <2>2, <2>3, <2>4
  <2>5. CASE x # call.dst_start + k
    <3>1. x - call.dst_start \in 0 .. k <=> x - call.dst_start \in 0 .. k - 1
      BY <1>1, <2>5 DEF Index
    <3>. QED
      BY <2>1, <2>2, <2>3, <2>5, <3>1
  <2>. QED
    BY <2>4, <2>5
<1>. QED
  BY <1>3, <1>4, <1>5 DEF StepForward, IInv, Direction, CleanEntry, Looping

\* A backward step is its mirror image: src_start < dst_start.
LEMMA StepBackwardIInv ==
  ASSUME IInv, StepBackward
  PROVE  IInv'
<1>1. /\ call.src_start \in Nat /\ call.len \in Nat /\ call.dst_start \in Nat
      /\ k \in Nat /\ N \in Nat /\ k > 0 /\ k <= call.len /\ call.len \in Usize
      /\ call.src_start + call.len <= N
      /\ call.dst_start + call.len <= N
      /\ call.src_start < call.dst_start
      /\ call.dst_start + (k - 1) \in Index /\ call.src_start + (k - 1) \in Index
  BY ArgsType, ConstantsAssumption
  DEF IInv, TypeOK, StepBackward, LoopContracts, Looping, Direction, Usize, Index, Args
<1>2. buf[call.src_start + (k - 1)] = old[call.src_start + (k - 1)]
  BY <1>1 DEF IInv, StepBackward, PartialMove, Looping, Done
<1>3. TypeOK'
  <2>1. buf \in [Index -> Byte] /\ buf' = [buf EXCEPT ![call.dst_start + (k - 1)] = buf[call.src_start + (k - 1)]]
    BY DEF IInv, TypeOK, StepBackward, CopyByte, Buffer
  <2>2. buf' \in Buffer
    BY <1>1, <2>1 DEF Buffer
  <2>3. k' \in Usize
    BY <1>1, ConstantsAssumption DEF StepBackward, Usize
  <2>. QED
    BY <2>2, <2>3 DEF IInv, TypeOK, StepBackward
<1>4. LoopContracts'
  BY <1>1 DEF StepBackward, LoopContracts
<1>5. PartialMove'
  <2>. SUFFICES ASSUME NEW x \in Index
       PROVE  buf'[x] = IF x - call.dst_start \in k - 1 .. call.len - 1
                        THEN old[call.src_start + (x - call.dst_start)] ELSE old[x]
    BY <1>1 DEF PartialMove, StepBackward, Done
  <2>1. buf[x] = IF x - call.dst_start \in k .. call.len - 1
                 THEN old[call.src_start + (x - call.dst_start)] ELSE old[x]
    BY DEF IInv, StepBackward, PartialMove, Looping, Done
  <2>2. buf' = [buf EXCEPT ![call.dst_start + (k - 1)] = buf[call.src_start + (k - 1)]]
    BY DEF StepBackward, CopyByte
  <2>3. DOMAIN buf = Index
    BY DEF IInv, TypeOK, Buffer
  <2>4. CASE x = call.dst_start + (k - 1)
    BY <1>1, <1>2, <2>2, <2>3, <2>4
  <2>5. CASE x # call.dst_start + (k - 1)
    <3>1. x - call.dst_start \in k - 1 .. call.len - 1
            <=> x - call.dst_start \in k .. call.len - 1
      BY <1>1, <2>5 DEF Index
    <3>. QED
      BY <2>1, <2>2, <2>3, <2>5, <3>1
  <2>. QED
    BY <2>4, <2>5
<1>. QED
  BY <1>3, <1>4, <1>5 DEF StepBackward, IInv, Direction, CleanEntry, Looping

LEMMA NextIInv == IInv /\ [Next]_vars => IInv'
<1>. SUFFICES ASSUME IInv, [Next]_vars PROVE IInv'
  OBVIOUS
<1>1. ASSUME NEW c \in Args, Call(c) PROVE IInv'
  BY <1>1, CallIInv
<1>2. CASE Refuse
  BY <1>2, RefuseIInv
<1>3. CASE MoveNothing \/ Finish
  BY <1>3, ReturnIInv DEF MoveNothing, Finish, MoveResult
<1>4. CASE StartForward
  BY <1>4, StartForwardIInv
<1>5. CASE StartBackward
  BY <1>5, StartBackwardIInv
<1>6. CASE StepForward
  BY <1>6, StepForwardIInv
<1>7. CASE StepBackward
  BY <1>7, StepBackwardIInv
<1>8. CASE UNCHANGED vars
  BY <1>8 DEF vars, IInv, TypeOK, LoopContracts, Direction, CleanEntry, PartialMove,
              Looping, Done, Usize, Index, Buffer, Args, MoveResult
<1>. QED
  BY <1>1, <1>2, <1>3, <1>4, <1>5, <1>6, <1>7, <1>8 DEF Next, Run

\* The inductive invariant of move_within: types, loop contracts, the copy
\* direction, and the exact contents of the buffer in the middle of the call.
THEOREM MoveInvariant == Spec => []IInv
<1>1. Init => IInv
  BY InitIInv
<1>2. IInv /\ [Next]_vars => IInv'
  BY NextIInv
<1>. QED
  BY <1>1, <1>2, PTL DEF Spec

-----------------------------------------------------------------------------
\* No step of either loop, in any overlap, overwrites a source byte that the
\* loop has yet to read.
THEOREM NeverClobbers == Spec => []UnreadIntact
<1>1. IInv => UnreadIntact
  <2>. SUFFICES ASSUME IInv, Looping, NEW x \in ToRead
       PROVE  buf[call.src_start + x] = old[call.src_start + x]
    BY DEF UnreadIntact
  <2>1. /\ call.src_start \in Nat /\ call.len \in Nat /\ call.dst_start \in Nat
        /\ k \in Nat /\ N \in Nat /\ k <= call.len
        /\ call.src_start + call.len <= N
        /\ call.dst_start + call.len <= N
        /\ x \in 0 .. call.len - 1 /\ x \notin Done
    BY ArgsType, ConstantsAssumption DEF IInv, TypeOK, LoopContracts, Usize, ToRead
  <2>2. call.src_start + x \in Index
    BY <2>1 DEF Index
  <2>3. (call.src_start + x) - call.dst_start \notin Done
    BY <2>1 DEF IInv, Direction, Looping, Done
  <2>. QED
    BY <2>2, <2>3 DEF IInv, PartialMove
<1>. QED
  BY <1>1, MoveInvariant, PTL

\* The loop contracts hold at every iteration, so no call aborts and every
\* index lies in the slice, whatever the arguments.
THEOREM NoContractFails == Spec => []LoopContracts
<1>1. IInv => LoopContracts
  BY DEF IInv
<1>. QED
  BY <1>1, MoveInvariant, PTL

-----------------------------------------------------------------------------
(* The refinement: seen through the mapping, in which the buffer of a call in *)
(* progress is the buffer the call found, the last step of a call is the move *)
(* and every loop step is a stutter.                                          *)

LEMMA InitAtomic == Init => Atomic!Init
BY DEF Init, Atomic!Init, Buffer, Index, NoArgs, NoResult,
       Atomic!Index, Atomic!NoArgs, Atomic!NoResult

LEMMA CallAtomic ==
  ASSUME IInv, NEW c \in Args, Call(c)
  PROVE  Atomic!Next
<1>1. Atomic!Invoke(c)
  BY DEF IInv, CleanEntry, Looping, Call, Atomic!Invoke, NoResult, Atomic!NoResult
<1>. QED
  BY <1>1 DEF Atomic!Next, Args, Atomic!Args, Usize, Atomic!Usize

LEMMA RefuseAtomic ==
  ASSUME IInv, Refuse
  PROVE  Atomic!Refuse
<1>1. call.src_start \in Usize /\ call.len \in Usize /\ call.dst_start \in Usize
  BY DEF IInv, TypeOK, Args
<1>2. /\ OutOfBounds(call.src_start, call.len)
          <=> ~Atomic!InRange(call.src_start, call.len)
      /\ OutOfBounds(call.dst_start, call.len)
          <=> ~Atomic!InRange(call.dst_start, call.len)
  BY <1>1, BoundsMeaning, ConstantsAssumption DEF Atomic!InRange, Usize
<1>3. /\ pc # "idle" /\ pc' = "idle" /\ buf' = buf /\ buf = old
      /\ call' = NoArgs
  BY DEF Refuse, Return, IInv, CleanEntry, Looping
<1>. QED
  BY <1>2, <1>3 DEF Refuse, Return, Atomic!Refuse, NoArgs, Atomic!NoArgs,
                    RangeOutOfBounds, Atomic!RangeOutOfBounds

\* A call that returns Moved with the buffer a snapshot move would give.
LEMMA MovedAtomic ==
  ASSUME IInv, pc # "idle", Return(Moved),
         call.src_start + call.len <= N, call.dst_start + call.len <= N,
         buf = Atomic!Snapshot(old, call)
  PROVE  Atomic!Move
BY DEF Return, Atomic!Move, Atomic!InRange, Moved, Atomic!Moved, NoArgs, Atomic!NoArgs

LEMMA MoveNothingAtomic ==
  ASSUME IInv, MoveNothing
  PROVE  Atomic!Move
<1>1. /\ call.src_start \in Nat /\ call.len \in Nat /\ call.dst_start \in Nat
      /\ call.src_start + call.len <= N
      /\ call.dst_start + call.len <= N
  BY AcceptedMeaning, ArgsType DEF IInv, TypeOK, MoveNothing
<1>2. buf = old /\ old \in [Index -> Byte]
  BY DEF IInv, TypeOK, CleanEntry, Looping, MoveNothing, Buffer
<1>3. ASSUME NEW x \in Index
      PROVE  old[x] = IF x \in call.dst_start .. call.dst_start + call.len - 1
                      THEN old[call.src_start + (x - call.dst_start)] ELSE old[x]
  BY <1>1, <1>3, ConstantsAssumption DEF MoveNothing, Nothing, Index
<1>4. old = Atomic!Snapshot(old, call)
  BY <1>2, <1>3 DEF Atomic!Snapshot, Index, Atomic!Index
<1>. QED
  BY <1>1, <1>2, <1>4, MovedAtomic DEF MoveNothing

LEMMA FinishAtomic ==
  ASSUME IInv, Finish
  PROVE  Atomic!Move
<1>1. /\ call.src_start \in Nat /\ call.len \in Nat /\ call.dst_start \in Nat
      /\ call.src_start + call.len <= N
      /\ call.dst_start + call.len <= N
      /\ k \in Nat /\ k <= call.len
  BY ArgsType, ConstantsAssumption
  DEF IInv, TypeOK, LoopContracts, Looping, Finish, Usize
<1>2. Done = 0 .. call.len - 1
  BY <1>1 DEF Finish, Done
<1>3. buf \in [Index -> Byte] /\ old \in [Index -> Byte]
  BY DEF IInv, TypeOK, Buffer
<1>4. ASSUME NEW x \in Index
      PROVE  buf[x] = IF x \in call.dst_start .. call.dst_start + call.len - 1
                      THEN old[call.src_start + (x - call.dst_start)] ELSE old[x]
  <2>1. x - call.dst_start \in 0 .. call.len - 1
          <=> x \in call.dst_start .. call.dst_start + call.len - 1
    BY <1>1, ConstantsAssumption DEF Index
  <2>. QED
    BY <1>2, <2>1 DEF IInv, PartialMove, Looping, Finish
<1>5. buf = Atomic!Snapshot(old, call)
  BY <1>3, <1>4 DEF Atomic!Snapshot, Index, Atomic!Index
<1>. QED
  BY <1>1, <1>5, MovedAtomic DEF Finish

LEMMA LoopStepStutters ==
  ASSUME StartForward \/ StartBackward \/ StepForward \/ StepBackward
  PROVE  UNCHANGED Atomic!vars
BY DEF StartForward, StartBackward, StepForward, StepBackward, Atomic!vars

LEMMA NextAtomic == IInv /\ [Next]_vars => [Atomic!Next]_(Atomic!vars)
<1>. SUFFICES ASSUME IInv, [Next]_vars PROVE [Atomic!Next]_(Atomic!vars)
  OBVIOUS
<1>1. ASSUME NEW c \in Args, Call(c) PROVE Atomic!Next
  BY <1>1, CallAtomic
<1>2. CASE Refuse
  BY <1>2, RefuseAtomic DEF Atomic!Next
<1>3. CASE MoveNothing
  BY <1>3, MoveNothingAtomic DEF Atomic!Next
<1>4. CASE Finish
  BY <1>4, FinishAtomic DEF Atomic!Next
<1>5. CASE StartForward \/ StartBackward \/ StepForward \/ StepBackward
  BY <1>5, LoopStepStutters
<1>6. CASE UNCHANGED vars
  BY <1>6 DEF vars, Atomic!vars
<1>. QED
  BY <1>1, <1>2, <1>3, <1>4, <1>5, <1>6 DEF Next, Run

\* move_within is an atomic snapshot move, or a refusal that writes nothing,
\* for every buffer length and every argument a usize can hold.
THEOREM MoveIsAtomic == Spec => AtomicSpec
<1>1. Init => Atomic!Init
  BY InitAtomic
<1>2. IInv /\ [Next]_vars => [Atomic!Next]_(Atomic!vars)
  BY NextAtomic
<1>. QED
  BY <1>1, <1>2, MoveInvariant, PTL DEF Spec, AtomicSpec, Atomic!Spec
-----------------------------------------------------------------------------
(* Termination. The fairness is a run's; that a call cannot go on forever is    *)
(* proved: its phase goes down, or the bytes left to copy do.                   *)

Phase == CASE pc = "check" -> 2 [] pc = "idle" -> 0 [] OTHER -> 1
Left  == CASE pc = "forward" -> call.len - k [] pc = "backward" -> k [] OTHER -> 0

\* Every step of a call brings its end closer.
Closer ==
  Run => \/ Phase' < Phase
         \/ Phase' = Phase /\ Left' \in Nat /\ Left' < Left

LEMMA RunCloser == IInv => Closer
<1>. SUFFICES ASSUME IInv, Run
     PROVE  Phase' < Phase \/ (Phase' = Phase /\ Left' \in Nat /\ Left' < Left)
  BY DEF Closer
<1>1. CASE Refuse \/ MoveNothing
  BY <1>1 DEF Refuse, MoveNothing, Return, Phase
<1>2. CASE StartForward \/ StartBackward
  BY <1>2 DEF StartForward, StartBackward, Phase
<1>3. CASE StepForward
  <2>1. Phase' = Phase /\ Left = call.len - k /\ Left' = call.len - (k + 1)
    BY <1>3 DEF StepForward, Phase, Left
  <2>2. k \in Nat /\ call.len \in Nat /\ k < call.len
    BY <1>3, ArgsType, ConstantsAssumption DEF StepForward, IInv, TypeOK, Usize
  <2>. QED
    BY <2>1, <2>2
<1>4. CASE StepBackward
  <2>1. Phase' = Phase /\ Left = k /\ Left' = k - 1
    BY <1>4 DEF StepBackward, Phase, Left
  <2>2. k \in Nat /\ k > 0
    BY <1>4, ConstantsAssumption DEF StepBackward, IInv, TypeOK, Usize
  <2>. QED
    BY <2>1, <2>2
<1>5. CASE Finish
  BY <1>5 DEF Finish, Return, Phase
<1>. QED
  BY <1>1, <1>2, <1>3, <1>4, <1>5 DEF Run

\* A call of move_within cannot go on forever: every step of it ends a phase or
\* leaves a byte fewer to copy, for every buffer length and every range.
THEOREM MoveDescends == Spec => [][Closer]_vars
<1>1. IInv /\ [Next]_vars => [Closer]_vars
  BY RunCloser
<1>. QED
  BY <1>1, MoveInvariant, PTL DEF Spec
=============================================================================
