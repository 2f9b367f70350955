----------------------- MODULE ParallelContractProofs -----------------------
(***************************************************************************)
(* Without a concurrent Close, and with a writer whose errors are its own, *)
(* the concurrent reader keeps the contract of a sequential one:           *)
(* ParallelReader implements DeliveryContract, and an end of data is       *)
(* reported only when everything has been delivered.  (With a Close, or a  *)
(* writer that fails with io.EOF, neither holds: see the runs pr_close_eof *)
(* and pr_writer_eof.)                                                     *)
(***************************************************************************)
EXTENDS ParallelReaderProofs

(* The pipeline is stopped only by an error that is being recorded or by   *)
(* the caller having dropped the reader, and an error ends the last call.  *)
StopInv ==
  /\ done => abandoned \/ rpc = "setErr" \/ err # Nil
  /\ abandoned \/ err # Nil => rpc = "idle"

(* A dispatcher that was not stopped has passed every block on.            *)
DispatchedInv ==
  disp \in {"closeJobs", "closeQueue", "exited"} /\ ~done =>
    rblk + Len(queue) = NBlocks

(* What an error on its way to setErr says about the bytes delivered.      *)
CauseInv ==
  /\ rpc = "stop" => rerr # "EOF"
  /\ rpc \in {"stop", "setErr"} => rerr # "writeEOF"
  /\ rpc = "setErr" /\ rerr = "EOF" => Len(out) = Total
  /\ rpc \in {"stop", "setErr"} /\ rerr \in FaultErrs =>
       \E b \in Faulty : Len(out) = Offset[b]

(* What a recorded error, and an answer, say about the bytes delivered.    *)
AnswerInv ==
  /\ err = "EOF" => Len(out) = Total
  /\ ret \in {<<"Read", "EOF">>, <<"WriteTo", Nil>>} => err = "EOF"

EndInv == StopInv /\ DispatchedInv /\ CauseInv /\ AnswerInv
-----------------------------------------------------------------------------
USE DEF vars, dispVars, workVars, bufVars, callVars, curVars

(* Nobody but the consumer and the caller's cleanup stops the pipeline.    *)
LEMMA StopStep ==
  ASSUME Closers = {}
  PROVE  IInv /\ EndInv /\ [Next]_vars => StopInv'
<1> SUFFICES ASSUME IInv, EndInv, [Next]_vars
             PROVE  StopInv'
  BY SMTT(60)
<1>0. StopInv /\ StartInv
  BY DEF IInv, EndInv
<1>1. CASE UNCHANGED <<done, abandoned, rpc, err>>
  BY <1>0, <1>1, ZenonT(30) DEF StopInv
<1>2. CASE DispatcherStep
  BY <1>1, <1>2, ZenonT(30) DEF DispatcherStep, Enqueue, HandoffCancelled, EndDispatch
<1>3. ASSUME NEW w \in Workers, WorkerStep(w) PROVE StopInv'
  BY ONLY <1>1, <1>3, ZenonT(30) DEF WorkerStep, DecodeStep, Handoff, ReadHeader, getBuf, Fill,
     DecodeOK, DecodeFails, Report, WorkerExit
<1>4. CASE Call
  <2>1. rpc = "idle" /\ ~abandoned /\ UNCHANGED <<err, done, abandoned>>
    BY <1>4, CallBegins, SMTT(60)
  <2>2. err = Nil \/ UNCHANGED rpc
    BY <1>4, CallBegins, ZenonT(30) DEF begin, start
  <2>3. CASE err = Nil
    BY <1>0, <2>1, <2>3, SMTT(60) DEF StopInv
  <2>4. CASE UNCHANGED rpc
    BY ONLY <1>1, <2>1, <2>4, ZenonT(30)
  <2>5. QED
    BY <2>2, <2>3, <2>4, ZenonT(30)
<1>5. CASE ConsumerStep
  <2>1. rpc # "idle"
    BY <1>5, ZenonT(30) DEF ConsumerStep, ReadCopy, ReadReturn, WriteToWrite, RetireCurrent,
       RecvQueue, RecvResult, StopOnError, SetErrReturn
  <2>2. CASE StopOnError
    BY <1>0, <2>1, <2>2, ZenonT(30) DEF StopOnError, StopInv
  <2>3. CASE SetErrReturn
    <3>1. rerr # Nil /\ rpc' = "idle" /\ err' # Nil
      BY <1>0, <2>3, RecordedIsError, ZenonT(30) DEF SetErrReturn, IInv, StartInv
    <3>2. QED
      BY ONLY <3>1, ZenonT(30) DEF StopInv
  <2>4. CASE ReadCopy \/ ReadReturn \/ WriteToWrite \/ RetireCurrent \/ RecvQueue
             \/ RecvResult
    <3>1. UNCHANGED <<done, abandoned, err>> /\ rpc # "setErr"
      BY <2>4, ZenonT(30) DEF ReadCopy, ReadReturn, WriteToWrite, RetireCurrent, RecvQueue,
         RecvResult
    <3>2. QED
      BY <1>0, <2>1, <3>1 DEF StopInv
  <2>5. QED
    BY <1>5, <2>2, <2>3, <2>4, SMTT(60) DEF ConsumerStep
<1>6. CASE Abandon \/ Cleanup
  BY <1>0, <1>6, ZenonT(30) DEF StopInv, Abandon, Cleanup
<1>7. QED
  BY <1>1, <1>2, <1>3, <1>4, <1>5, <1>6, ZenonT(30) DEF Next, Call

(* The dispatcher leaves its loop early only when it is stopped.           *)
LEMMA DispatchedStep == IInv /\ EndInv /\ [Next]_vars => DispatchedInv'
<1> SUFFICES ASSUME IInv, EndInv, [Next]_vars
             PROVE  DispatchedInv'
  BY ZenonT(30)
<1>0. /\ DispatchedInv /\ QueueInv /\ queue \in Seq(Blocks)
      /\ rblk \in Nat /\ next \in 1 .. NBlocks + 1
  BY Indices, ZenonT(30) DEF IInv, EndInv, TypeOK
<1>1. CASE UNCHANGED <<disp, rblk, queue>> /\ (done => done')
  BY ONLY <1>0, <1>1, ZenonT(30) DEF DispatchedInv
<1>2. CASE Enqueue
  BY <1>2, SMTT(60) DEF DispatchedInv, Enqueue
<1>3. CASE HandoffCancelled
  BY <1>3, ZenonT(30) DEF DispatchedInv, HandoffCancelled
<1>4. CASE EndDispatch
  <2>1. UNCHANGED <<rblk, queue, done>>
    BY <1>4, SMTT(60) DEF EndDispatch
  <2>2. CASE disp = "enqueue" /\ next \notin Blocks
    <3>1. next = NBlocks + 1 /\ next = rblk + Len(queue) + 1
      BY ONLY <1>0, <2>2, BlocksAssumption, SMT DEF Blocks, QueueInv
    <3>2. rblk + Len(queue) = NBlocks
      BY <1>0, <3>1, BlocksAssumption, SMT
    <3>3. QED
      BY ONLY <2>1, <3>2, ZenonT(30) DEF DispatchedInv
  <2>3. CASE disp \in {"closeJobs", "closeQueue"}
    BY <1>0, <2>1, <2>3, ZenonT(30) DEF DispatchedInv
  <2>4. QED
    BY <1>4, <2>2, <2>3, ZenonT(30) DEF EndDispatch
<1>5. ASSUME NEW w \in Workers, WorkerStep(w) PROVE DispatchedInv'
  <2>1. CASE Handoff(w)
    BY ONLY <2>1, ZenonT(30) DEF Handoff, DispatchedInv
  <2>2. CASE ~Handoff(w)
    BY <1>1, <1>5, <2>2, SMTT(60) DEF WorkerStep, DecodeStep, ReadHeader, getBuf, Fill, DecodeOK,
       DecodeFails, Report, WorkerExit
  <2>3. QED
    BY <2>1, <2>2
<1>6. CASE Call
  BY <1>0, <1>6, CallBegins, ZenonT(30) DEF DispatchedInv, begin, start
<1>7. CASE RecvQueue
  <2>1. CASE queue # <<>> /\ rblk' = Head(queue) /\ queue' = Tail(queue)
    <3>1. Len(queue) \in Nat \ {0} /\ rblk' = rblk + 1
      BY <1>0, <2>1, SMT DEF QueueInv
    <3>2. Len(queue') = Len(queue) - 1
      BY ONLY <1>0, <2>1, SMT
    <3>3. rblk' + Len(queue') = rblk + Len(queue)
      BY <1>0, <3>1, <3>2, SMT
    <3>4. QED
      BY <1>0, <1>7, <3>3, ZenonT(30) DEF RecvQueue, DispatchedInv
  <2>2. CASE UNCHANGED <<queue, rblk>>
    BY <1>1, <1>7, <2>2, SMTT(60) DEF RecvQueue
  <2>3. QED
    BY ONLY <1>7, <2>1, <2>2, ZenonT(30) DEF RecvQueue
<1>8. CASE ConsumerStep /\ ~RecvQueue
  <2>1. CASE ReadCopy \/ ReadReturn \/ WriteToWrite
    BY ONLY <1>1, <2>1, ZenonT(30) DEF ReadCopy, ReadReturn, WriteToWrite
  <2>2. CASE RetireCurrent \/ RecvResult
    BY ONLY <1>1, <2>2, ZenonT(30) DEF RetireCurrent, RecvResult
  <2>3. CASE StopOnError \/ SetErrReturn
    BY ONLY <1>1, <2>3, ZenonT(30) DEF StopOnError, SetErrReturn
  <2>4. QED
    BY <1>8, <2>1, <2>2, <2>3, ZenonT(30) DEF ConsumerStep
<1>9. CASE (\E c \in Closers : CloseStop(c) \/ CloserStep(c)) \/ Abandon \/ Cleanup
  BY ONLY <1>1, <1>9, ZenonT(30) DEF CloserStep, CloseStop, CloseLock, CloseWait, Abandon,
     Cleanup
<1>10. QED
  BY <1>1, <1>2, <1>3, <1>4, <1>5, <1>6, <1>7, <1>8, <1>9, SMT DEF Next, Call,
     DispatcherStep

(* The closed queue means that every byte is out; a failed block is        *)
(* reported where it starts.                                               *)
LEMMA CauseStep ==
  ASSUME Closers = {}, "writeEOF" \notin WriteErrs
  PROVE  IInv /\ EndInv /\ [Next]_vars => CauseInv'
<1> SUFFICES ASSUME IInv, EndInv, [Next]_vars
             PROVE  CauseInv'
  OBVIOUS
<1>0. CauseInv /\ StopInv /\ PositionInv /\ TypeOK
  BY SMTT(60) DEF IInv, EndInv
<1>1. CASE UNCHANGED <<rpc, rerr, out>>
  BY ONLY <1>0, <1>1, ZenonT(30) DEF CauseInv
<1>2. CASE DispatcherStep
  BY <1>1, <1>2, ZenonT(30) DEF DispatcherStep, Enqueue, HandoffCancelled, EndDispatch
<1>3. ASSUME NEW w \in Workers, WorkerStep(w) PROVE CauseInv'
  BY <1>1, <1>3, SMTT(60) DEF WorkerStep, DecodeStep, Handoff, ReadHeader, getBuf, Fill,
     DecodeOK, DecodeFails, Report, WorkerExit
<1>4. CASE Call
  BY <1>4, CallBegins, ZenonT(30) DEF CauseInv, begin, start
<1>5. CASE ConsumerStep
  <2>1. CASE WriteToWrite
    <3>1. rerr' \in {Nil, "write", "shortWrite"} /\ rpc' # "setErr"
      <4>1. WriteErrs \subseteq {"write"}
        BY ONLY ProcessAssumption, "writeEOF" \notin WriteErrs, ZenonT(30)
      <4> QED
        BY ONLY <2>1, <4>1, ZenonT(30) DEF WriteToWrite
    <3>2. QED
      BY <3>1, SMTT(60) DEF CauseInv, FaultErrs, Nil
  <2>2. CASE RecvQueue
    <3>1. CASE queue = <<>> /\ QueueClosed /\ rerr' = "EOF" /\ rpc' = "setErr"
      <4>1. err = Nil /\ ~abandoned /\ ~done
        BY <1>0, <2>2, SMTT(60) DEF StopInv, RecvQueue
      <4>2. rblk + Len(queue) = NBlocks
        BY <3>1, <4>1, ZenonT(30) DEF EndInv, DispatchedInv, QueueClosed
      <4>3. rblk = NBlocks
        <5>1. rblk \in Nat
          BY Indices, ZenonT(30)
        <5>2. QED
          BY ONLY <3>1, <4>2, <5>1
      <4>4. Len(out) = Total
        BY <1>0, <2>2, <4>3, SMTT(60) DEF RecvQueue, PositionInv, Total
      <4>5. QED
        BY <2>2, <3>1, <4>4, ZenonT(30) DEF RecvQueue, CauseInv, FaultErrs
    <3>2. CASE rpc' = "recvResult"
      BY <3>2 DEF CauseInv
    <3>3. CASE RecvDone
      BY <3>3, ZenonT(30) DEF RecvDone, CauseInv, FaultErrs
    <3>4. QED
      BY <2>2, <3>1, <3>2, <3>3, ZenonT(30) DEF RecvQueue
  <2>3. CASE RecvResult
    <3>1. out' = out /\ rblk \in Blocks /\ Len(out) = Offset[rblk]
      BY ONLY <1>0, <2>3, ZenonT(30) DEF RecvResult, PositionInv
    <3>2. CASE rpc' = "loop"
      BY <3>2, ZenonT(30) DEF CauseInv
    <3>3. CASE /\ result[rblk] # NoResult /\ result[rblk].err # Nil
               /\ rpc' = "stop" /\ rerr' = ResultErr(result[rblk].err)
      <4>1. result[rblk] \in Results /\ ResultOK(rblk)
        BY <3>1, Indices, ZenonT(30) DEF IInv, ResultInv
      <4>2. result[rblk].err \in DecodeErrs
        BY <3>3, <4>1, ResultType, ZenonT(30) DEF ResultOK
      <4>3. rblk \in Faulty
        BY <4>1, <4>2, ZenonT(60) DEF ResultOK
      <4>4. rerr' # "EOF" /\ rerr' # "writeEOF"
        BY ONLY <3>3, <4>2, SMT DEF ResultErr, DecodeErrs
      <4>5. QED
        BY <3>1, <3>3, <4>3, <4>4, ZenonT(30) DEF CauseInv
    <3>4. CASE RecvDone
      BY <3>4 DEF RecvDone, CauseInv, FaultErrs
    <3>5. QED
      BY ONLY <2>3, <3>2, <3>3, <3>4, ZenonT(30) DEF RecvResult
  <2>4. CASE StopOnError
    BY <1>0, <2>4, ZenonT(30) DEF StopOnError, CauseInv
  <2>5. CASE ReadCopy \/ ReadReturn \/ RetireCurrent \/ SetErrReturn
    BY ONLY <2>5, ZenonT(30) DEF ReadCopy, ReadReturn, RetireCurrent, SetErrReturn, CauseInv
  <2>6. QED
    BY ONLY <1>5, <2>1, <2>2, <2>3, <2>4, <2>5, ZenonT(30) DEF ConsumerStep
<1>6. CASE Abandon \/ Cleanup
  BY <1>1, <1>6 DEF Abandon, Cleanup
<1>7. QED
  BY <1>1, <1>2, <1>3, <1>4, <1>5, <1>6, ZenonT(30) DEF Next, Call

(* Nothing is delivered after the end of data, and no call answers with an *)
(* end of data that is not recorded.                                       *)
LEMMA AnswerStep ==
  ASSUME Closers = {}
  PROVE  IInv /\ EndInv /\ [Next]_vars => AnswerInv'
<1> SUFFICES ASSUME IInv, EndInv, [Next]_vars
             PROVE  AnswerInv'
  OBVIOUS
<1>0. AnswerInv /\ StopInv /\ CauseInv /\ StartInv
  BY ZenonT(30) DEF IInv, EndInv
<1>1. CASE UNCHANGED <<err, out, ret>>
  BY <1>0, <1>1, ZenonT(30) DEF AnswerInv
<1>2. CASE DispatcherStep
  BY <1>1, <1>2, ZenonT(30) DEF DispatcherStep, Enqueue, HandoffCancelled, EndDispatch
<1>3. ASSUME NEW w \in Workers, WorkerStep(w) PROVE AnswerInv'
  BY <1>1, <1>3, ZenonT(30) DEF WorkerStep, DecodeStep, Handoff, ReadHeader, getBuf, Fill,
     DecodeOK, DecodeFails, Report, WorkerExit
<1>4. CASE Call
  <2>1. UNCHANGED <<err, out>>
    BY <1>4, CallBegins, SMTT(60)
  <2>2. UNCHANGED ret \/ \E o \in {"Read", "WriteTo"} :
          err # Nil /\ ret' = <<o, IF o = "WriteTo" /\ err = "EOF" THEN Nil ELSE err>>
    BY <1>4, CallBegins, ZenonT(30) DEF begin, start
  <2>3. QED
    BY ONLY <1>0, <2>1, <2>2, SMT DEF AnswerInv
<1>5. CASE ConsumerStep
  <2>1. err = Nil
    BY <1>0, <1>5, ZenonT(30) DEF StopInv, ConsumerStep, ReadCopy, ReadReturn, WriteToWrite,
       RetireCurrent, RecvQueue, RecvResult, StopOnError, SetErrReturn
  <2>2. CASE SetErrReturn
    <3>0. rpc = "setErr" /\ rerr # "writeEOF" /\ rerr # Nil
      BY ONLY <1>0, <2>2, ZenonT(30) DEF SetErrReturn, StartInv, CauseInv
    <3>1. /\ err' = rerr /\ out' = out
          /\ ret' = <<op, IF op = "WriteTo" /\ rerr = "EOF" THEN Nil ELSE rerr>>
      BY ONLY <2>1, <2>2, <3>0, ZenonT(30) DEF SetErrReturn, Recorded
    <3>2. err' = "EOF" => Len(out') = Total
      BY <1>0, <2>2, <3>1, ZenonT(30) DEF SetErrReturn, CauseInv
    <3>3. ret' \in {<<"Read", "EOF">>, <<"WriteTo", Nil>>} => err' = "EOF"
      BY ONLY <3>0, <3>1, ZenonT(30)
    <3>4. QED
      BY <3>2, <3>3, ZenonT(30) DEF AnswerInv
  <2>3. CASE ReadReturn
    BY <1>0, <2>1, <2>3, ZenonT(30) DEF ReadReturn, AnswerInv, Nil
  <2>4. CASE ReadCopy \/ WriteToWrite \/ RetireCurrent \/ RecvQueue \/ RecvResult
             \/ StopOnError
    <3>1. UNCHANGED <<err, ret>>
      BY <2>4, ZenonT(30) DEF ReadCopy, WriteToWrite, RetireCurrent, RecvQueue, RecvResult,
         StopOnError
    <3>2. QED
      BY <1>0, <2>1, <3>1 DEF AnswerInv, Nil
  <2>5. QED
    BY <1>5, <2>2, <2>3, <2>4, SMTT(60) DEF ConsumerStep
<1>6. CASE Abandon \/ Cleanup
  BY <1>1, <1>6, ZenonT(30) DEF Abandon, Cleanup
<1>7. QED
  BY <1>1, <1>2, <1>3, <1>4, <1>5, <1>6, ZenonT(30) DEF Next, Call
-----------------------------------------------------------------------------
LEMMA EndInit == Init => EndInv
BY DEF Init, EndInv, StopInv, DispatchedInv, CauseInv, AnswerInv, Nil

LEMMA EndAlways ==
  ASSUME Closers = {}, "writeEOF" \notin WriteErrs
  PROVE  Spec => [](IInv /\ EndInv)
<1>1. Init => IInv /\ EndInv
  BY IInvInit, EndInit, SMTT(60)
<1>2. IInv /\ EndInv /\ [Next]_vars => (IInv /\ EndInv)'
  BY IInvStep, StopStep, DispatchedStep, CauseStep, AnswerStep, ZenonT(30) DEF EndInv
<1>3. QED
  BY <1>1, <1>2, PTL DEF Spec

(* Unless the reader is closed under a running call, or the caller's       *)
(* writer fails with io.EOF, a Read that reports io.EOF and a WriteTo that *)
(* reports success have delivered the whole file.                          *)
THEOREM EndIsComplete ==
  ASSUME Closers = {}, "writeEOF" \notin WriteErrs
  PROVE  Spec => []CleanEndIsComplete
<1>1. EndInv => CleanEndIsComplete
  BY SMTT(60) DEF EndInv, AnswerInv, CleanEndIsComplete
<1>2. QED
  BY <1>1, EndAlways, PTL

(* A copy to the caller is a delivery of the contract.                     *)
LEMMA DeliverRefines ==
  ASSUME IInv, EndInv, rpc = "loop", curPos # CurLen, err' = err,
         NEW k \in 0 .. CurLen - curPos, Deliver(k)
  PROVE  [Contract!Next]_<<Len(out), err>>
<1>1. /\ cur # NoBuf /\ rblk \in Blocks /\ CurLen = Size(rblk)
      /\ CurLen \in Nat /\ curPos \in Nat /\ Len(out) = Offset[rblk] + curPos
      /\ out \in Seq(Nat)
  BY BytesLeft, ZenonT(30) DEF IInv, PositionInv, TypeOK
<1>2. /\ k \in Nat /\ curPos + k <= Size(rblk)
      /\ Offset[rblk] \in Nat /\ Total \in Nat /\ Offset[rblk] + Size(rblk) <= Total
      /\ Size(rblk) \in Nat
  <2>1. /\ Offset[rblk] \in Nat /\ Total \in Nat /\ Offset[rblk + 1] <= Total
        /\ Size(rblk) \in Nat /\ Offset[rblk] + Size(rblk) = Offset[rblk + 1]
    BY <1>1, BlockBounds, ZenonT(30)
  <2>2. k \in Nat /\ curPos + k <= Size(rblk)
    BY <1>1, SMT
  <2>3. QED
    BY <2>1, <2>2
<1>3. Len(out') = Len(out) + k /\ Len(out) \in Nat
  BY <1>1, <1>2, DeliverType, SMTT(60)
<1>4. err = Nil
  BY DEF EndInv, StopInv
<1>5. CASE k = 0
  BY <1>3, <1>5, SMTT(60)
<1>6. CASE k # 0
  <2>1. Len(out) + k <= Total
    <3>1. /\ Len(out) = Offset[rblk] + curPos /\ curPos \in Nat /\ k \in Nat
          /\ curPos + k <= Size(rblk) /\ Offset[rblk] \in Nat /\ Total \in Nat
          /\ Offset[rblk] + Size(rblk) <= Total /\ Size(rblk) \in Nat
      BY ONLY <1>1, <1>2, ZenonT(30)
    <3>2. QED
      BY ONLY <3>1
  <2>2. Len(out') \in Len(out) + 1 .. Total
    BY <1>2, <1>3, <1>6, <2>1
  <2>3. QED
    BY <1>4, <2>2 DEF Contract!Next, Contract!Deliver
<1>7. QED
  BY <1>5, <1>6, ZenonT(30)

(* Recording an error is an end of the contract's behaviour, for the       *)
(* reason the contract allows.                                             *)
LEMMA SetErrRefines ==
  ASSUME IInv, EndInv, SetErrReturn
  PROVE  Contract!Next
<1>1. err = Nil /\ err' = rerr /\ out' = out /\ rerr \in Errors
  <2>1. rpc = "setErr" /\ rerr # "writeEOF" /\ rerr # Nil /\ err = Nil
    BY ZenonT(30) DEF SetErrReturn, EndInv, StopInv, CauseInv, IInv, StartInv
  <2>2. rerr \in Errors \cup {Nil, "writeEOF"}
    BY ZenonT(30) DEF IInv, TypeOK
  <2> QED
    BY ONLY SetErrReturn, <2>1, <2>2, ZenonT(30) DEF SetErrReturn, Recorded
<1>2. CASE rerr = "EOF"
  BY <1>1, <1>2, SMTT(60) DEF SetErrReturn, EndInv, CauseInv, Contract!Next, Contract!EndOfData
<1>3. CASE rerr \in FaultErrs
  <2>1. \E b \in Faulty : Len(out) = Offset[b]
    BY <1>3, SMTT(60) DEF SetErrReturn, EndInv, CauseInv
  <2>2. QED
    BY <1>1, <1>3, <2>1, ZenonT(30) DEF Contract!Next, Contract!BlockFault
<1>4. CASE rerr \in WriterErrs \cup {"closed"}
  BY <1>1, <1>4, ZenonT(30) DEF Contract!Next, Contract!CallerStops
<1>5. QED
  BY <1>1, <1>2, <1>3, <1>4, SMTT(60) DEF Errors

(* Every step of the pipeline is a step of the contract or none at all.    *)
LEMMA StepRefines ==
  ASSUME Closers = {}
  PROVE  IInv /\ EndInv /\ [Next]_vars => [Contract!Next]_<<Len(out), err>>
<1> SUFFICES ASSUME IInv, EndInv, [Next]_vars
             PROVE  [Contract!Next]_<<Len(out), err>>
  BY SMTT(60)
<1>1. CASE UNCHANGED <<out, err>>
  BY <1>1, ZenonT(30)
<1>2. CASE DispatcherStep
  BY ONLY <1>1, <1>2, ZenonT(30) DEF DispatcherStep, Enqueue, HandoffCancelled, EndDispatch
<1>3. ASSUME NEW w \in Workers, WorkerStep(w) PROVE UNCHANGED <<out, err>>
  BY <1>3, ZenonT(30) DEF WorkerStep, DecodeStep, Handoff, ReadHeader, getBuf, Fill, DecodeOK,
     DecodeFails, Report, WorkerExit
<1>4. CASE Call
  BY ONLY <1>1, <1>4, CallBegins, ZenonT(30)
<1>5. CASE ReadCopy
  <2>1. want \in Nat /\ CurLen - curPos \in Nat /\ curPos # CurLen
    <3>1. curPos # CurLen
      BY ONLY <1>5, ZenonT(30) DEF ReadCopy
    <3>2. want \in Nat
      <4>1. want \in 0 .. MaxRead
        BY ZenonT(30) DEF IInv, TypeOK
      <4> QED
        BY ONLY <4>1
    <3>3. CurLen - curPos \in Nat
      BY <3>1, BytesLeft, ZenonT(30)
    <3> QED
      BY ONLY <3>1, <3>2, <3>3, ZenonT(30)
  <2> DEFINE k == IF want < CurLen - curPos THEN want ELSE CurLen - curPos
  <2>2. k \in 0 .. CurLen - curPos
    BY ONLY <2>1, SMT
  <2>3. rpc = "loop" /\ Deliver(k) /\ err' = err
    BY <1>5, ZenonT(30) DEF ReadCopy
  <2> HIDE DEF k
  <2>4. QED
    BY <2>1, <2>2, <2>3, DeliverRefines, ZenonT(30)
<1>6. CASE WriteToWrite
  <2>1. PICK k \in 0 .. CurLen - curPos : Deliver(k)
    BY ONLY <1>6, ZenonT(30) DEF WriteToWrite
  <2>2. rpc = "loop" /\ curPos # CurLen /\ err' = err
    BY <1>6, ZenonT(30) DEF WriteToWrite
  <2>3. QED
    BY <2>1, <2>2, DeliverRefines, ZenonT(30)
<1>7. CASE ReadReturn \/ RetireCurrent \/ RecvQueue \/ RecvResult \/ StopOnError
  BY <1>1, <1>7, ZenonT(30) DEF ReadReturn, RetireCurrent, RecvQueue, RecvResult, StopOnError
<1>8. CASE Abandon \/ Cleanup
  BY <1>1, <1>8 DEF Abandon, Cleanup
<1>9. QED
  BY <1>1, <1>2, <1>3, <1>4, <1>5, <1>6, <1>7, <1>8, SetErrRefines, ZenonT(30) DEF Next, Call,
     ConsumerStep

(* The concurrent reader implements the contract of a sequential one: the  *)
(* first error is final, io.EOF means complete, and a failing block is     *)
(* reported in its place, whatever order the workers finish in.            *)
THEOREM ImplementsContract ==
  ASSUME Closers = {}, "writeEOF" \notin WriteErrs
  PROVE  Spec => MeetsContract
<1>1. Init => Contract!Init
  BY DEF Init, Contract!Init
<1>2. IInv /\ EndInv /\ [Next]_vars => [Contract!Next]_<<Len(out), err>>
  BY StepRefines
<1>3. QED
  BY <1>1, <1>2, EndAlways, PTL DEF Spec, MeetsContract, Contract!Spec
=============================================================================
