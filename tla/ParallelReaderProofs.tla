------------------------ MODULE ParallelReaderProofs ------------------------
(***************************************************************************)
(* The invariant of ParallelTypeProofs holds in every state of the         *)
(* pipeline, and with it: bytes in order, one owner of each buffer, quiet  *)
(* after Close.                                                            *)
(***************************************************************************)
EXTENDS ParallelBufferProofs

USE DEF vars, dispVars, workVars, bufVars, callVars, curVars

(* The current buffer keeps its block's bytes while the consumer reads it. *)
LEMMA CurrentKept ==
  ASSUME IInv, NEW w \in Workers, WorkerStep(w), cur # NoBuf
  PROVE  content'[cur] = content[cur]
<1>0. content \in [BufIds -> Blocks \cup {NoBlock}] /\ cur \in BufIds \cup {NoBuf}
  BY DEF IInv, TypeOK
<1>1. CASE Fill(w)
  <2>1. PICK b \in BufIds : content' = [content EXCEPT ![b] = wblk[w]] /\ b # cur
    BY <1>1, FillAlone, ZenonT(30)
  <2>2. QED
    BY <1>0, <2>1
<1>2. CASE ~Fill(w)
  BY <1>2 DEF WorkerStep, DecodeStep, Handoff, ReadHeader, getBuf, DecodeOK,
     DecodeFails, Report, WorkerExit
<1>3. QED
  BY ONLY <1>1, <1>2, ZenonT(30)

(* Bytes are copied from where the consumer stands, and it moves with them.*)
LEMMA DeliverPosition ==
  ASSUME IInv, curPos # CurLen, NEW k \in 0 .. CurLen - curPos, Deliver(k),
         UNCHANGED <<rblk, cur, content>>, rpc' \in {"loop", "stop"}
  PROVE  PositionInv' /\ InOrder'
<1>1. /\ cur # NoBuf /\ rblk \in Blocks /\ CurLen = Size(rblk)
      /\ CurLen \in Nat /\ curPos \in Nat /\ content[cur] = rblk
      /\ Len(out) = Offset[rblk] + curPos /\ out \in Seq(Nat)
  BY BytesLeft, ZenonT(30) DEF IInv, PositionInv, TypeOK
<1>2. k \in Nat /\ curPos + k <= Size(rblk) /\ Offset[rblk] \in Nat
  BY <1>1, BlockBounds
<1>3. /\ curPos' = curPos + k
      /\ Len(out') = Len(out) + k
      /\ \A i \in 1 .. Len(out) : out'[i] = out[i]
      /\ \A i \in 1 .. k : out'[Len(out) + i] = Offset[rblk] + curPos + i
  BY <1>1, <1>2, DeliverType, ZenonT(30) DEF Deliver
<1>4. PositionInv'
  <2>1. curPos' <= Size(rblk) /\ Len(out') = Offset[rblk] + curPos'
    <3>1. /\ Len(out) = Offset[rblk] + curPos /\ curPos \in Nat /\ Offset[rblk] \in Nat
          /\ k \in Nat /\ curPos + k <= Size(rblk) /\ curPos' = curPos + k
          /\ Len(out') = Len(out) + k
      BY ONLY <1>1, <1>2, <1>3, ZenonT(30)
    <3>2. QED
      BY ONLY <3>1
  <2>2. QED
    BY <1>1, <2>1, ZenonT(30) DEF PositionInv, Size
<1>5. InOrder'
  <2> SUFFICES ASSUME NEW i \in 1 .. Len(out') PROVE out'[i] = i
    BY ZenonT(30) DEF InOrder
  <2>1. i \in Nat /\ 1 <= i /\ i <= Len(out) + k /\ Len(out) \in Nat
    BY <1>1, <1>3, SMTT(60)
  <2>2. CASE i <= Len(out)
    <3>1. i \in 1 .. Len(out)
      BY <2>1, <2>2, SMTT(60)
    <3>2. QED
      BY <1>3, <3>1 DEF IInv, InOrder
  <2>3. CASE i > Len(out)
    <3>1. i - Len(out) \in 1 .. k
      BY <1>2, <2>1, <2>3, SMTT(60)
    <3>2. out'[Len(out) + (i - Len(out))] = Offset[rblk] + curPos + (i - Len(out))
      BY <1>3, <3>1
    <3>3. Len(out) + (i - Len(out)) = i
      BY ONLY <2>1, SMT
    <3>4. Offset[rblk] + curPos + (i - Len(out)) = i
      <4>1. /\ Len(out) = Offset[rblk] + curPos /\ curPos \in Nat /\ Offset[rblk] \in Nat
        BY ONLY <1>1, <1>2, ZenonT(30)
      <4>2. QED
        BY ONLY <2>1, <4>1
    <3>5. QED
      BY <3>2, <3>3, <3>4
  <2>4. QED
    BY <2>1, <2>2, <2>3
<1>6. QED
  BY ONLY <1>4, <1>5, ZenonT(30)

(* What is delivered stays in order and ends where the consumer stands.    *)
LEMMA PositionStep == IInv /\ [Next]_vars => PositionInv' /\ InOrder'
<1> SUFFICES ASSUME IInv, [Next]_vars
             PROVE  PositionInv' /\ InOrder'
  OBVIOUS
<1>0. /\ TypeOK /\ PositionInv /\ InOrder /\ QueueInv
      /\ curPos \in Nat /\ out \in Seq(Nat) /\ cur \in BufIds \cup {NoBuf}
      /\ queue \in Seq(Blocks) /\ rblk \in Nat
  <2>1. /\ TypeOK /\ PositionInv /\ InOrder /\ QueueInv
        /\ curPos \in Nat /\ out \in Seq(Nat) /\ cur \in BufIds \cup {NoBuf}
        /\ queue \in Seq(Blocks) /\ rblk \in Blocks \cup {NoBlock}
    BY ZenonT(30) DEF IInv, TypeOK
  <2>2. rblk \in Nat
    BY <2>1, BlocksAssumption, SMT DEF Blocks, NoBlock
  <2>3. QED
    BY <2>1, <2>2, SMTT(60)
<1>1. CASE UNCHANGED <<rblk, cur, curPos, out, content, rpc, err>>
  BY ONLY <1>0, <1>1, ZenonT(30) DEF PositionInv, InOrder, Size
<1>2. CASE DispatcherStep
  BY <1>1, <1>2, ZenonT(30) DEF DispatcherStep, Enqueue, HandoffCancelled, EndDispatch
<1>3. ASSUME NEW w \in Workers, WorkerStep(w) PROVE PositionInv' /\ InOrder'
  <2>1. UNCHANGED <<rblk, cur, curPos, out, rpc, err>>
    BY ONLY <1>3, ZenonT(30) DEF WorkerStep, DecodeStep, Handoff, ReadHeader, getBuf, Fill,
       DecodeOK, DecodeFails, Report, WorkerExit
  <2>2. cur # NoBuf => content'[cur] = content[cur]
    BY <1>3, CurrentKept, ZenonT(30)
  <2>3. QED
    BY <1>0, <2>1, <2>2, ZenonT(30) DEF PositionInv, InOrder, Size
<1>4. CASE Call
  <2>1. /\ rpc = "idle" /\ (rpc' = "idle" \/ (rpc' = "loop" /\ err = Nil))
        /\ UNCHANGED <<rblk, cur, curPos, out, content, err>>
    BY <1>4, CallBegins, ZenonT(30) DEF begin
  <2>2. QED
    BY <1>0, <2>1, SMTT(60) DEF PositionInv, InOrder, Size
<1>5. CASE ReadCopy
  <2>1. want \in Nat /\ CurLen - curPos \in Nat /\ curPos # CurLen
    BY <1>0, <1>5, BytesLeft DEF ReadCopy, TypeOK
  <2> DEFINE k == IF want < CurLen - curPos THEN want ELSE CurLen - curPos
  <2>2. k \in 0 .. CurLen - curPos
    BY <2>1
  <2>3. Deliver(k) /\ UNCHANGED <<rblk, cur, content>> /\ rpc' \in {"loop", "stop"}
    BY <1>5, ZenonT(30) DEF ReadCopy
  <2> HIDE DEF k
  <2>4. QED
    BY <2>1, <2>2, <2>3, DeliverPosition, ZenonT(30)
<1>6. CASE WriteToWrite
  <2>1. PICK k \in 0 .. CurLen - curPos : Deliver(k)
    BY <1>6, ZenonT(30) DEF WriteToWrite
  <2>2. /\ curPos # CurLen /\ UNCHANGED <<rblk, cur, content>>
        /\ rpc' \in {"loop", "stop"}
    BY ONLY <1>6, ZenonT(30) DEF WriteToWrite
  <2>3. QED
    BY <2>1, <2>2, DeliverPosition, SMTT(60)
<1>7. CASE RetireCurrent
  <2>1. Len(out) = Offset[rblk + 1]
    <3>1. CASE cur = NoBuf
      BY <1>0, <1>7, <3>1, SMTT(60) DEF RetireCurrent, PositionInv
    <3>2. CASE cur # NoBuf
      BY <1>0, <1>7, <3>2, BlockBounds, ZenonT(30) DEF RetireCurrent, PositionInv, CurLen
    <3>3. QED
      BY <3>1, <3>2, ZenonT(30)
  <2>2. QED
    BY <1>0, <1>7, <2>1, SMTT(60) DEF RetireCurrent, PositionInv, InOrder
<1>8. CASE RecvQueue
  <2>1. UNCHANGED <<cur, curPos, out, content, err>>
    BY <1>8, ZenonT(30) DEF RecvQueue
  <2>2. CASE /\ queue # <<>> /\ rblk' = Head(queue) /\ rpc' = "recvResult"
    <3>1. Head(queue) \in Blocks /\ Head(queue) = rblk + 1
      BY <1>0, <2>2, SMT DEF QueueInv
    <3>2. QED
      BY ONLY <1>0, <1>8, <2>1, <2>2, <3>1, ZenonT(30) DEF RecvQueue, PositionInv, InOrder
  <2>3. CASE rpc' \in {"setErr", "stop"} /\ UNCHANGED rblk
    BY <1>0, <1>8, <2>1, <2>3, ZenonT(30) DEF RecvQueue, PositionInv, InOrder
  <2>4. QED
    BY <1>8, <2>2, <2>3, ZenonT(30) DEF RecvQueue, RecvDone
<1>9. CASE RecvResult
  <2>1. /\ UNCHANGED <<rblk, curPos, out, content, err>>
        /\ cur = NoBuf /\ rblk \in Blocks /\ Len(out) = Offset[rblk] /\ curPos = 0
    BY <1>0, <1>9, ZenonT(30) DEF RecvResult, PositionInv
  <2>2. CASE cur' = result[rblk].buf /\ rpc' = "loop" /\ result[rblk].err = Nil
    <3>1. cur' # NoBuf /\ content'[cur'] = rblk
      BY <2>1, <2>2, ZenonT(30) DEF IInv, ResultInv, ResultOK
    <3>2. Offset[rblk] \in Nat /\ Size(rblk) \in Nat
      BY <2>1, BlockBounds, ZenonT(30)
    <3>3. curPos' <= Size(rblk) /\ Len(out') = Offset[rblk] + curPos'
      BY <2>1, <3>2, SMT
    <3>4. PositionInv'
      BY <2>1, <2>2, <3>1, <3>3, ZenonT(30) DEF PositionInv, Size
    <3>5. QED
      BY <1>0, <2>1, <3>4 DEF InOrder
  <2>3. CASE cur' = cur /\ rpc' = "stop"
    BY ONLY <1>0, <2>1, <2>3, ZenonT(30) DEF PositionInv, InOrder
  <2>4. QED
    BY <1>9, <2>2, <2>3, SMTT(60) DEF RecvResult, RecvDone
<1>10. CASE ReadReturn \/ StopOnError \/ SetErrReturn
  <2>1. /\ UNCHANGED <<rblk, cur, curPos, out, content>>
        /\ \/ rpc = "loop" /\ rpc' = "idle"
           \/ rpc' = "setErr"
           \/ rpc' = "idle" /\ err' # Nil
    BY <1>10, RecordedIsError, ZenonT(30)
       DEF ReadReturn, StopOnError, SetErrReturn, IInv, StartInv
  <2>2. QED
    BY <1>0, <2>1 DEF PositionInv, InOrder, Size
<1>11. CASE (\E c \in Closers : CloseStop(c) \/ CloserStep(c)) \/ Abandon \/ Cleanup
  <2>1. UNCHANGED <<rblk, cur, curPos, out, content, rpc>> /\ (err' = err \/ err' # Nil)
    BY <1>11, ZenonT(30) DEF CloserStep, CloseStop, CloseLock, CloseWait, Abandon, Cleanup, Nil
  <2>2. QED
    BY <1>0, <2>1, SMTT(60) DEF PositionInv, InOrder, Size
<1>12. QED
  BY <1>1, <1>2, <1>3, <1>4, <1>5, <1>6, <1>7, <1>8, <1>9, <1>10, <1>11, ZenonT(30) DEF Next,
     Call, ConsumerStep

(* Once Close has returned nothing can start again.                        *)
LEMMA CloseStep == IInv /\ [Next]_vars => CloseInv'
<1> SUFFICES ASSUME IInv, [Next]_vars
             PROVE  CloseInv'
  OBVIOUS
<1>0. /\ CloseInv /\ StartInv
      /\ cpc \in [Closers -> {"idle", "lock", "wait", "returned"}]
      /\ wpc \in [Workers -> {"off", "idle", "header", "getBuf", "fill", "check",
                              "report", "exited"}]
  BY ZenonT(30) DEF IInv, TypeOK
<1>1. CASE UNCHANGED <<cpc, err, started, wpc>>
  BY ONLY <1>0, <1>1, ZenonT(30) DEF CloseInv, Quiet
<1>2. ASSUME NEW w \in Workers, WorkerStep(w) PROVE CloseInv'
  <2>1. wpc[w] \notin {"off", "exited"} /\ UNCHANGED <<cpc, err, started>>
    BY <1>2, ZenonT(30) DEF WorkerStep, DecodeStep, Handoff, ReadHeader, getBuf, Fill, DecodeOK,
       DecodeFails, Report, WorkerExit
  <2>2. QED
    BY ONLY <1>0, <2>1, ZenonT(30) DEF CloseInv, Quiet
<1>3. CASE Call
  <2>1. UNCHANGED <<cpc, err, started, wpc>> \/ (err = Nil /\ UNCHANGED <<cpc, err>>)
    BY <1>3, CallBegins, ZenonT(30) DEF begin, start
  <2>2. QED
    BY <1>0, <1>1, <2>1, SMTT(60) DEF CloseInv
<1>4. CASE ConsumerStep
  <2>1. UNCHANGED <<cpc, started, wpc>> /\ (err # Nil => err' # Nil)
    BY <1>4, ZenonT(30) DEF ConsumerStep, ReadCopy, ReadReturn, WriteToWrite, RetireCurrent,
       RecvQueue, RecvResult, StopOnError, SetErrReturn
  <2>2. QED
    BY <1>0, <2>1, SMTT(60) DEF CloseInv, Quiet
<1>5. CASE DispatcherStep
  BY <1>1, <1>5, ZenonT(30) DEF DispatcherStep, Enqueue, HandoffCancelled, EndDispatch
<1>6. ASSUME NEW c \in Closers, CloseStop(c) PROVE CloseInv'
  BY <1>0, <1>6, ZenonT(30) DEF CloseInv, CloseStop, Quiet
<1>7. ASSUME NEW c \in Closers, CloseLock(c) PROVE CloseInv'
  <2>1. err' # Nil /\ UNCHANGED <<started, wpc>>
    BY <1>7, ZenonT(30) DEF CloseLock, Nil
  <2>2. ~started => Quiet
    BY <1>0, ZenonT(30) DEF StartInv, Quiet
  <2>3. QED
    BY ONLY <1>0, <1>7, <2>1, <2>2, SMT DEF CloseInv, CloseLock, Quiet
<1>8. ASSUME NEW c \in Closers, CloseWait(c) PROVE CloseInv'
  BY ONLY <1>0, <1>8, ZenonT(30) DEF CloseInv, CloseWait, Quiet
<1>9. CASE Abandon \/ Cleanup
  BY <1>1, <1>9 DEF Abandon, Cleanup
<1>10. QED
  BY <1>1, <1>2, <1>3, <1>4, <1>5, <1>6, <1>7, <1>8, <1>9, ZenonT(30) DEF Next, Call, CloserStep
-----------------------------------------------------------------------------
LEMMA IInvInit == Init => IInv
<1> SUFFICES ASSUME Init PROVE IInv
  OBVIOUS
<1>1. TypeOK
  <2>1. 1 \in 1 .. NBlocks + 1 /\ 0 \in 0 .. MaxRead
    BY BlocksAssumption, ProcessAssumption
  <2>2. ret \in {"none", "Read", "WriteTo"} \X (Errors \cup {Nil})
    BY DEF Init
  <2>3. NoResult \in Results
    BY SMTT(60) DEF NoResult, Results
  <2>4. queue \in Seq(Blocks) /\ pool \in Seq(BufIds) /\ out \in Seq(Nat)
    BY SMT DEF Init
  <2>5. QED
    BY <2>1, <2>2, <2>3, <2>4, ZenonT(30) DEF Init, TypeOK
<1>2. StartInv /\ QueueInv /\ CloseInv
  BY SMT DEF Init, StartInv, QueueInv, CloseInv, NoBlock
<1>3. WorkerInv /\ ResultInv
  BY ZenonT(30) DEF Init, WorkerInv, WorkerOK, ResultInv, ResultOK, Busy, NoResult, DecodeErrs,
     Nil
<1>4. BufferOwnership
  BY SMT DEF Init, BufferOwnership, NoResult
<1>5. PositionInv /\ InOrder
  BY BlocksAssumption DEF Init, PositionInv, InOrder, NoBlock, Nil
<1>6. QED
  BY <1>1, <1>2, <1>3, <1>4, <1>5 DEF IInv

LEMMA IInvStep == IInv /\ [Next]_vars => IInv'
BY TypeStep, StartStep, QueueStep, WorkerInvStep, ResultInvStep, OwnershipStep,
   PositionStep, CloseStep, ZenonT(30) DEF IInv

LEMMA IInvAlways == Spec => []IInv
BY IInvInit, IInvStep, PTL DEF Spec

(* The pipeline's state is always well formed.                             *)
THEOREM TypeCorrect == Spec => []TypeOK
<1>1. IInv => TypeOK
  BY DEF IInv
<1>2. QED
  BY <1>1, IInvAlways, PTL

(* Read and WriteTo deliver the stream's bytes in order, for any number of *)
(* workers, blocks, buffers and concurrent Closes.                         *)
THEOREM DeliversInOrder == Spec => []InOrder
<1>1. IInv => InOrder
  BY DEF IInv
<1>2. QED
  BY <1>1, IInvAlways, PTL

(* No decode buffer ever has two owners, however it is recycled.           *)
THEOREM BuffersHaveOneOwner == Spec => []BufferOwnership
<1>1. IInv => BufferOwnership
  BY DEF IInv
<1>2. QED
  BY <1>1, IInvAlways, PTL

(* Once a Close has returned, no worker runs, now or later.                *)
THEOREM CloseIsQuiet == Spec => []QuietAfterClose
<1>1. IInv => QuietAfterClose
  BY DEF IInv, CloseInv, QuietAfterClose
<1>2. QED
  BY <1>1, IInvAlways, PTL
=============================================================================
