------------------------- MODULE ParallelTypeProofs -------------------------
(***************************************************************************)
(* The inductive invariant of ParallelReader, for any number of workers,   *)
(* blocks, buffers and closers: what is in the queue, with the workers and *)
(* in the result channels, who owns a buffer, and where the bytes delivered *)
(* end.  Here, that every step keeps the types and the queue; the rest is  *)
(* in ParallelBufferProofs and ParallelReaderProofs.                       *)
(***************************************************************************)
EXTENDS ParallelReader, TLAPS

(* Nothing runs before the first call, and a call that leaves nextBlock    *)
(* with an error has one to record.                                        *)
StartInv ==
  /\ ~started => disp = "off" /\ \A w \in Workers : wpc[w] = "off"
  /\ rpc \in {"stop", "setErr"} => rerr # Nil
  /\ rpc # "idle" => op \in {"Read", "WriteTo"}

(* queue holds the blocks that follow the consumer's, without a gap, up to *)
(* the dispatcher's.                                                       *)
QueueInv ==
  /\ \A i \in 1 .. Len(queue) : queue[i] = rblk + i
  /\ disp \in {"off", "enqueue"} => next = rblk + Len(queue) + 1
  /\ disp = "handoff" => next = rblk + Len(queue) /\ next \in Blocks

Busy == {"header", "getBuf", "fill", "check", "report"}

(* What a worker at each point of decodeOne has in hand.                   *)
WorkerOK(w) ==
  /\ wpc[w] \in Busy => wblk[w] \in Blocks
  /\ wpc[w] \in {"off", "idle", "header", "getBuf", "exited"} => wres[w].buf = NoBuf
  /\ wpc[w] \in {"fill", "check"} => wres[w].buf # NoBuf
  /\ wpc[w] = "check" => content[wres[w].buf] = wblk[w]
  /\ wpc[w] = "report" =>
       /\ wres[w].err # "none"
       /\ wres[w].err = Nil => wres[w].buf # NoBuf /\ content[wres[w].buf] = wblk[w]
       /\ wres[w].err \in DecodeErrs => wblk[w] \in Faulty
WorkerInv == \A w \in Workers : WorkerOK(w)

(* A result that reports success carries its own block's bytes.            *)
ResultOK(b) ==
  /\ result[b].err = "none" => result[b] = NoResult
  /\ result[b].err = Nil => result[b].buf # NoBuf /\ content[result[b].buf] = b
  /\ result[b].err \in DecodeErrs => b \in Faulty
ResultInv == \A b \in Blocks : ResultOK(b)

(* The bytes delivered end where the consumer stands in its block.         *)
PositionInv ==
  /\ cur # NoBuf => /\ rblk \in Blocks /\ content[cur] = rblk
                    /\ curPos <= Size(rblk) /\ Len(out) = Offset[rblk] + curPos
  /\ cur = NoBuf => curPos = 0
  /\ rpc \in {"recvQueue", "recvResult"} => cur = NoBuf
  /\ rpc = "recvResult" => rblk \in Blocks /\ Len(out) = Offset[rblk]
  /\ cur = NoBuf /\ (rpc \in {"loop", "recvQueue"} \/ (rpc = "idle" /\ err = Nil))
       => Len(out) = Offset[rblk + 1]

(* A Close that has returned found nothing to wait for, and forbids it to  *)
(* start.                                                                  *)
CloseInv ==
  \A c \in Closers :
    /\ cpc[c] \in {"wait", "returned"} => err # Nil
    /\ cpc[c] = "wait" => started
    /\ cpc[c] = "returned" => Quiet

IInv ==
  TypeOK /\ StartInv /\ QueueInv /\ WorkerInv /\ ResultInv /\ BufferOwnership
  /\ PositionInv /\ InOrder /\ CloseInv

-----------------------------------------------------------------------------
USE DEF vars, dispVars, workVars, bufVars, callVars, curVars

(* setErr records an error for an error.                                   *)
LEMMA RecordedIsError ==
  ASSUME NEW e, e # Nil
  PROVE  Recorded(e) # Nil
BY DEF Recorded, Nil

(* The consumer's block, the dispatcher's and the queue between them.      *)
LEMMA Indices ==
  ASSUME IInv
  PROVE  /\ rblk \in Nat /\ next \in Nat /\ Len(queue) \in Nat /\ Blocks \subseteq Nat
         /\ queue \in Seq(Blocks) /\ result \in [Blocks -> Results]
         /\ \A w \in Workers : wpc[w] \in Busy => wblk[w] \in Blocks
<1>1. /\ rblk \in Blocks \cup {NoBlock} /\ next \in 1 .. NBlocks + 1 /\ queue \in Seq(Blocks)
      /\ result \in [Blocks -> Results] /\ \A w \in Workers : wpc[w] \in Busy => wblk[w] \in Blocks
  BY ZenonT(30) DEF IInv, TypeOK, WorkerInv, WorkerOK
<1>2. Blocks \subseteq Nat /\ NoBlock \in Nat /\ \A n \in 1 .. NBlocks + 1 : n \in Nat
  BY ONLY BlocksAssumption DEF Blocks, NoBlock
<1>3. Len(queue) \in Nat
  BY ONLY <1>1
<1> QED
  BY ONLY <1>1, <1>2, <1>3, ZenonT(30)

(* The record a worker is filling stays a Results record.                  *)
LEMMA ResultType ==
  ASSUME NEW r \in Results
  PROVE  /\ r.err \in DecodeErrs \cup {"none", Nil}
         /\ r.buf \in BufIds \cup {NoBuf}
         /\ \A b \in BufIds \cup {NoBuf} : [r EXCEPT !.buf = b] \in Results
         /\ [r EXCEPT !.err = Nil] \in Results
         /\ \A e \in DecodeErrs : [err |-> e, buf |-> NoBuf] \in Results
         /\ NoResult \in Results
BY DEF Results, NoResult

(* putBuf keeps bufPool a sequence of buffers.                             *)
LEMMA PutBufType ==
  ASSUME TypeOK, NEW b \in BufIds \cup {NoBuf}
  PROVE  putBuf(b) \in Seq(BufIds)
BY DEF TypeOK, putBuf

(* The dispatcher's steps keep the types.                                  *)
LEMMA TypeDispatcher ==
  IInv /\ (DispatcherStep \/ \E w \in Workers : Handoff(w)) => TypeOK'
<1> SUFFICES ASSUME IInv, DispatcherStep \/ \E w \in Workers : Handoff(w)
             PROVE  TypeOK'
  OBVIOUS
<1>0. TypeOK
  BY DEF IInv
<1>1. CASE Enqueue
  <2>1. queue' = Append(queue, next) \/ queue' = queue
    BY <1>1 DEF Enqueue
  <2>2. queue \in Seq(Blocks) /\ next \in Blocks
    BY <1>0, <1>1 DEF Enqueue, TypeOK
  <2>3. queue' \in Seq(Blocks)
    BY <2>1, <2>2
  <2>4. QED
    BY <1>0, <1>1, <2>3 DEF Enqueue, TypeOK
<1>2. CASE HandoffCancelled
  BY <1>0, <1>2 DEF HandoffCancelled, TypeOK
<1>3. CASE EndDispatch
  BY <1>0, <1>3 DEF EndDispatch, TypeOK
<1>4. ASSUME NEW w \in Workers, Handoff(w) PROVE TypeOK'
  <2>1. next \in Blocks
    BY <1>4 DEF Handoff, IInv, QueueInv
  <2>2. next' \in 1 .. NBlocks + 1
    BY <1>4, <2>1, BlocksAssumption DEF Handoff, Blocks
  <2>3. QED
    BY <1>0, <1>4, <2>1, <2>2 DEF Handoff, TypeOK
<1>5. QED
  BY <1>1, <1>2, <1>3, <1>4 DEF DispatcherStep

(* A worker's steps keep the types.                                        *)
LEMMA TypeWorker ==
  ASSUME NEW w \in Workers
  PROVE  IInv /\ (DecodeStep(w) \/ WorkerExit(w)) => TypeOK'
<1> SUFFICES ASSUME IInv, DecodeStep(w) \/ WorkerExit(w)
             PROVE  TypeOK'
  OBVIOUS
<1>0. TypeOK
  BY DEF IInv
<1>a. wres[w] \in Results /\ wres[w].buf \in BufIds \cup {NoBuf}
  BY <1>0, ResultType, ZenonT(30) DEF TypeOK
<1>1. CASE ReadHeader(w)
  BY <1>0, <1>1 DEF ReadHeader, TypeOK
<1>2. CASE getBuf(w)
  <2>1. pool \in Seq(BufIds)
    BY <1>0 DEF TypeOK
  <2>2. PICK b \in BufIds : wres' = [wres EXCEPT ![w].buf = b]
    BY <1>2, <2>1 DEF getBuf, Fresh
  <2>3. wres' \in [Workers -> Results]
    BY <1>0, <1>a, <2>2, ResultType, ZenonT(30) DEF TypeOK
  <2>4. pool' = pool \/ (pool # <<>> /\ pool' = Tail(pool))
    BY <1>2 DEF getBuf
  <2>5. pool' \in Seq(BufIds)
    BY <2>1, <2>4
  <2>6. QED
    BY <1>0, <1>2, <2>3, <2>5 DEF getBuf, TypeOK
<1>3. CASE Fill(w)
  <2>1. wres[w].buf # NoBuf
    BY <1>3 DEF Fill, IInv, WorkerInv, WorkerOK
  <2>2. PICK b \in BufIds : /\ wres' = [wres EXCEPT ![w].buf = b]
                            /\ content' = [content EXCEPT ![b] = wblk[w]]
    BY <1>3, <1>a, <2>1, ZenonT(30) DEF Fill, Fresh
  <2>3. wres' \in [Workers -> Results]
    BY <1>0, <1>a, <2>2, ResultType, ZenonT(30) DEF TypeOK
  <2>4. content' \in [BufIds -> Blocks \cup {NoBlock}]
    BY <1>0, <2>2 DEF TypeOK
  <2>5. QED
    BY <1>0, <1>3, <2>3, <2>4 DEF Fill, TypeOK
<1>4. CASE DecodeOK(w)
  <2>1. wres' \in [Workers -> Results]
    BY <1>0, <1>4, <1>a, ResultType, ZenonT(30) DEF DecodeOK, TypeOK
  <2>2. QED
    BY <1>0, <1>4, <2>1, SMT DEF DecodeOK, TypeOK
<1>5. CASE DecodeFails(w)
  <2>1. wres' \in [Workers -> Results]
    BY <1>0, <1>5, ResultType, ZenonT(30) DEF DecodeFails, TypeOK
  <2>2. pool' \in Seq(BufIds)
    BY <1>0, <1>5, <1>a, PutBufType DEF DecodeFails
  <2>3. QED
    BY <1>0, <1>5, <2>1, <2>2 DEF DecodeFails, TypeOK
<1>6. CASE Report(w)
  <2>1. wres' \in [Workers -> Results]
    BY <1>0, <1>6, ResultType, ZenonT(30) DEF Report, TypeOK
  <2>2. result' \in [Blocks -> Results]
    BY <1>0, <1>6, <1>a, ZenonT(30) DEF Report, TypeOK
  <2>3. QED
    BY <1>0, <1>6, <2>1, <2>2 DEF Report, TypeOK
<1>7. CASE WorkerExit(w)
  BY <1>0, <1>7 DEF WorkerExit, TypeOK
<1>8. QED
  BY <1>1, <1>2, <1>3, <1>4, <1>5, <1>6, <1>7 DEF DecodeStep

Call == (\E n \in 0 .. MaxRead : Read(n)) \/ WriteTo

(* Read and WriteTo both start with begin, and change nothing else.        *)
LEMMA CallBegins ==
  ASSUME Call
  PROVE  /\ rpc = "idle" /\ ~abandoned
         /\ \E o \in {"Read", "WriteTo"}, m \in 0 .. MaxRead : begin(o, m)
         /\ UNCHANGED <<err, done, next, queue, wblk, wres, result, pool, content,
                        rerr, rblk, cur, curPos, out, cpc, abandoned, failed>>
<1>1. 0 \in 0 .. MaxRead
  BY ProcessAssumption
<1>2. QED
  BY <1>1 DEF Call, Read, WriteTo

(* Read and WriteTo keep the types.                                        *)
LEMMA TypeCall == IInv /\ Call => TypeOK'
<1> SUFFICES ASSUME IInv, Call
             PROVE  TypeOK'
  OBVIOUS
<1>0. TypeOK
  BY DEF IInv
<1>1. PICK o \in {"Read", "WriteTo"}, m \in 0 .. MaxRead : begin(o, m)
  BY CallBegins
<1>2. UNCHANGED <<err, done, next, queue, wblk, wres, result, bufVars, rerr,
                  curVars, out, cpc, abandoned, failed>>
  BY CallBegins
<1>3. ret' \in {"none", "Read", "WriteTo"} \X (Errors \cup {Nil})
  BY <1>0, <1>1 DEF begin, start, TypeOK
<1>4. wpc' = wpc \/ wpc' = [w \in Workers |-> "idle"]
  BY <1>1 DEF begin, start
<1>5. /\ disp' \in {disp, "enqueue"} /\ started' \in {started, TRUE}
      /\ rpc' \in {rpc, "loop"} /\ op' \in {op, o} /\ want' \in {want, m}
  BY <1>1, ZenonT(30) DEF begin, start
<1>6. /\ disp' \in {"off", "enqueue", "handoff", "closeJobs", "closeQueue", "exited"}
      /\ rpc' \in {"idle", "loop", "recvQueue", "recvResult", "stop", "setErr"}
      /\ op' \in {"none", "Read", "WriteTo"} /\ want' \in 0 .. MaxRead
      /\ started' \in BOOLEAN
  BY <1>0, <1>5, ZenonT(30) DEF TypeOK
<1>7. wpc' \in [Workers -> {"off", "idle", "header", "getBuf", "fill", "check",
                            "report", "exited"}]
  BY <1>0, <1>4 DEF TypeOK
<1>8. QED
  BY <1>0, <1>2, <1>3, <1>6, <1>7 DEF TypeOK

(* Blocks lie one after the other inside the stream.                       *)
LEMMA BlockBounds ==
  ASSUME NEW b \in Blocks
  PROVE  /\ Offset[b] \in Nat /\ Offset[b + 1] \in Nat /\ Size(b) \in Nat
         /\ Offset[b] + Size(b) = Offset[b + 1]
         /\ Total \in Nat /\ Offset[b + 1] <= Total
<1>1. b \in 1 .. NBlocks + 1 /\ b + 1 \in 1 .. NBlocks + 1 /\ NBlocks + 1 \in 1 .. NBlocks + 1
  BY BlocksAssumption DEF Blocks
<1>2. Offset[b] \in Nat /\ Offset[b + 1] \in Nat /\ Offset[NBlocks + 1] \in Nat
  BY <1>1, BlocksAssumption
<1>3. Offset[b] <= Offset[b + 1] /\ Offset[b + 1] <= Offset[NBlocks + 1]
  BY <1>1, BlocksAssumption
<1>4. QED
  BY <1>2, <1>3 DEF Size, Total

(* When the current block is not used up, there is one, with bytes left.   *)
LEMMA BytesLeft ==
  ASSUME IInv, curPos # CurLen
  PROVE  /\ cur # NoBuf /\ rblk \in Blocks /\ CurLen = Size(rblk)
         /\ CurLen \in Nat /\ curPos \in Nat /\ CurLen - curPos \in Nat \ {0}
<1>1. cur # NoBuf /\ curPos \in Nat
  BY DEF IInv, TypeOK, PositionInv, CurLen
<1>2. rblk \in Blocks /\ curPos <= Size(rblk) /\ CurLen = Size(rblk)
  BY <1>1 DEF IInv, PositionInv, CurLen
<1>3. QED
  BY <1>1, <1>2, BlockBounds

(* Bytes handed out by Deliver are bytes of the stream.                    *)
LEMMA DeliverType ==
  ASSUME IInv, cur # NoBuf, NEW k \in Nat, Deliver(k)
  PROVE  /\ out' \in Seq(Nat) /\ curPos' \in Nat
         /\ Len(out') = Len(out) + k
         /\ \A i \in 1 .. Len(out) : out'[i] = out[i]
         /\ \A i \in 1 .. k : out'[Len(out) + i] = Offset[rblk] + curPos + i
<1> DEFINE new == [i \in 1 .. k |-> Offset[content[cur]] + curPos + i]
<1>1. out \in Seq(Nat) /\ curPos \in Nat /\ rblk \in Blocks /\ content[cur] = rblk
  BY DEF IInv, TypeOK, PositionInv
<1>2. Offset[rblk] \in Nat
  BY <1>1, BlocksAssumption DEF Blocks
<1>3. new \in Seq(Nat) /\ Len(new) = k
  BY <1>1, <1>2
<1>4. out' = out \o new /\ curPos' = curPos + k
  BY DEF Deliver
<1>5. \A i \in 1 .. k : new[i] = Offset[rblk] + curPos + i
  BY <1>1
<1> HIDE DEF new
<1>6. out' \in Seq(Nat) /\ Len(out') = Len(out) + k
  <2>1. out \in Seq(Nat) /\ new \in Seq(Nat)
    BY <1>1, <1>3
  <2>2. out \o new \in Seq(Nat) /\ Len(out \o new) = Len(out) + Len(new)
    BY <2>1
  <2>3. QED
    BY <1>3, <1>4, <2>2
<1>7. \A i \in 1 .. Len(out) : out'[i] = out[i]
  BY <1>1, <1>3, <1>4
<1>8. \A i \in 1 .. k : out'[Len(out) + i] = new[i]
  BY <1>1, <1>3, <1>4
<1>9. QED
  BY <1>1, <1>4, <1>5, <1>6, <1>7, <1>8

(* The steps inside a call keep the types.                                 *)
LEMMA TypeConsumer == IInv /\ ConsumerStep => TypeOK'
<1> SUFFICES ASSUME IInv, ConsumerStep
             PROVE  TypeOK'
  OBVIOUS
<1>0. TypeOK
  BY DEF IInv
<1>1. CASE ReadCopy
  <2>1. /\ want \in 0 .. MaxRead /\ want > 0
        /\ cur # NoBuf /\ CurLen - curPos \in Nat \ {0}
    BY <1>0, <1>1, BytesLeft DEF ReadCopy, TypeOK
  <2> DEFINE k == IF want < CurLen - curPos THEN want ELSE CurLen - curPos
  <2>2. Deliver(k) /\ want' = want - k
    BY <1>1 DEF ReadCopy
  <2>3. k \in Nat /\ k <= want
    BY <2>1, ProcessAssumption
  <2> HIDE DEF k
  <2>4. want' \in 0 .. MaxRead
    BY <2>1, <2>2, <2>3, ProcessAssumption
  <2>5. out' \in Seq(Nat) /\ curPos' \in Nat
    BY <2>1, <2>2, <2>3, DeliverType
  <2>6. QED
    BY <1>0, <1>1, <2>4, <2>5, SMT DEF ReadCopy, TypeOK
<1>2. CASE ReadReturn
  BY <1>0, <1>2 DEF ReadReturn, TypeOK
<1>3. CASE WriteToWrite
  <2>1. cur # NoBuf /\ CurLen - curPos \in Nat
    BY <1>3, BytesLeft DEF WriteToWrite
  <2>2. PICK k \in 0 .. CurLen - curPos, e \in WriteErrs \cup {Nil} :
          /\ Deliver(k)
          /\ rerr' = IF e = Nil /\ k = 0 THEN "shortWrite" ELSE e
          /\ rpc' = IF rerr' = Nil THEN "loop" ELSE "stop"
    BY <1>3 DEF WriteToWrite
  <2>3. out' \in Seq(Nat) /\ curPos' \in Nat
    BY <2>1, <2>2, DeliverType
  <2>4. rerr' \in Errors \cup {Nil, "writeEOF"}
    BY ONLY <2>2, ProcessAssumption, ZenonT(30) DEF Errors, WriterErrs
  <2>5. QED
    BY <1>0, <1>3, <2>2, <2>3, <2>4 DEF WriteToWrite, TypeOK
<1>4. CASE RetireCurrent
  <2>1. pool' \in Seq(BufIds)
    BY <1>0, <1>4, PutBufType DEF RetireCurrent, TypeOK
  <2>2. QED
    BY <1>0, <1>4, <2>1, SMTT(60) DEF RetireCurrent, TypeOK
<1>5. CASE RecvQueue
  <2>1. \/ queue' = queue /\ rblk' = rblk
        \/ queue # <<>> /\ queue' = Tail(queue) /\ rblk' = Head(queue)
    BY <1>5 DEF RecvQueue
  <2>2. queue \in Seq(Blocks)
    BY <1>0 DEF TypeOK
  <2>3. queue' \in Seq(Blocks) /\ (rblk' = rblk \/ rblk' \in Blocks)
    BY <2>1, <2>2
  <2>4. rerr' \in Errors \cup {Nil, "writeEOF"}
    BY ONLY <1>0, <1>5, ZenonT(30) DEF RecvQueue, RecvDone, TypeOK, Errors
  <2>5. QED
    BY <1>0, <1>5, <2>3, <2>4 DEF RecvQueue, RecvDone, TypeOK
<1>6. CASE RecvResult
  <2>1. rblk \in Blocks
    BY <1>6 DEF RecvResult, IInv, PositionInv
  <2>2. result[rblk] \in Results
    BY <1>0, <2>1 DEF TypeOK
  <2>3. result' \in [Blocks -> Results]
    BY <1>0, <1>6, ResultType, ZenonT(30) DEF RecvResult, TypeOK
  <2>4. cur' \in BufIds \cup {NoBuf}
    BY <1>0, <1>6, <2>2, ResultType, ZenonT(30) DEF RecvResult, TypeOK
  <2>5. rerr' \in Errors \cup {Nil, "writeEOF"}
    <3>1. result[rblk] # NoResult => result[rblk].err \in DecodeErrs \cup {Nil}
      BY <2>1, <2>2, ResultType, ZenonT(30) DEF IInv, ResultInv, ResultOK
    <3>2. rerr' \in {rerr, "closed"} \/ \E e \in DecodeErrs : rerr' = ResultErr(e)
      BY <1>6, <3>1, ZenonT(30) DEF RecvResult, RecvDone
    <3>3. QED
      BY ONLY <1>0, <3>2, ZenonT(30) DEF TypeOK, ResultErr, DecodeErrs, Errors, FaultErrs
  <2>6. QED
    BY ONLY <1>0, <1>6, <2>3, <2>4, <2>5, SMT DEF RecvResult, RecvDone, TypeOK
<1>7. CASE StopOnError
  BY <1>0, <1>7, SMT DEF StopOnError, TypeOK
<1>8. CASE SetErrReturn
  <2>1. err' \in Errors \cup {Nil}
    BY ONLY <1>0, <1>8, ZenonT(30) DEF SetErrReturn, Recorded, TypeOK, Errors
  <2>2. ret' \in {"none", "Read", "WriteTo"} \X (Errors \cup {Nil}) /\ rerr' = Nil /\ want' = 0
    BY ONLY <1>0, <1>8, <2>1, SMT DEF SetErrReturn, TypeOK
  <2>3. 0 \in 0 .. MaxRead
    BY ONLY ProcessAssumption
  <2> QED
    BY ONLY <1>0, <1>8, <2>1, <2>2, <2>3, ZenonT(30) DEF SetErrReturn, TypeOK
<1>9. QED
  BY <1>1, <1>2, <1>3, <1>4, <1>5, <1>6, <1>7, <1>8 DEF ConsumerStep

(* A Close, an abandoned reader and its cleanup keep the types.            *)
LEMMA TypeCloser ==
  IInv /\ ((\E c \in Closers : CloseStop(c) \/ CloserStep(c)) \/ Abandon \/ Cleanup)
    => TypeOK'
<1> SUFFICES ASSUME IInv,
               (\E c \in Closers : CloseStop(c) \/ CloserStep(c)) \/ Abandon \/ Cleanup
             PROVE  TypeOK'
  OBVIOUS
<1>0. TypeOK
  BY ZenonT(30) DEF IInv
<1>1. ASSUME NEW c \in Closers, CloseStop(c) PROVE TypeOK'
  BY <1>0, <1>1, SMT DEF CloseStop, TypeOK
<1>2. ASSUME NEW c \in Closers, CloseLock(c) PROVE TypeOK'
  BY <1>0, <1>2 DEF CloseLock, TypeOK, Errors
<1>3. ASSUME NEW c \in Closers, CloseWait(c) PROVE TypeOK'
  BY ONLY <1>0, <1>3, SMT DEF CloseWait, TypeOK
<1>4. CASE Abandon
  BY <1>0, <1>4, SMT DEF Abandon, TypeOK
<1>5. CASE Cleanup
  BY <1>0, <1>5 DEF Cleanup, TypeOK
<1>6. QED
  BY <1>1, <1>2, <1>3, <1>4, <1>5 DEF CloserStep

LEMMA TypeStep == IInv /\ [Next]_vars => TypeOK'
<1> SUFFICES ASSUME IInv, [Next]_vars
             PROVE  TypeOK'
  BY ZenonT(30)
<1>1. CASE UNCHANGED vars
  BY <1>1 DEF IInv, TypeOK
<1>2. CASE Next
  BY <1>2, TypeDispatcher, TypeWorker, TypeConsumer, TypeCall, TypeCloser, SMTT(60)
     DEF Next, WorkerStep, Call
<1>3. QED
  BY <1>1, <1>2
-----------------------------------------------------------------------------
(* Goroutines run only once started, and nextBlock's errors are errors.    *)
LEMMA StartStep == IInv /\ [Next]_vars => StartInv'
<1> SUFFICES ASSUME IInv, [Next]_vars
             PROVE  StartInv'
  OBVIOUS
<1>0. StartInv
  BY SMTT(60) DEF IInv
<1>1. CASE UNCHANGED vars
  BY <1>0, <1>1 DEF StartInv
<1>2. CASE DispatcherStep
  BY <1>0, <1>2, SMTT(60)
     DEF StartInv, DispatcherStep, Enqueue, HandoffCancelled, EndDispatch
<1>3. ASSUME NEW w \in Workers, WorkerStep(w) PROVE StartInv'
  <2>1. started /\ UNCHANGED <<started, rpc, op, rerr>>
    BY <1>0, <1>3 DEF StartInv, WorkerStep, DecodeStep, Handoff, ReadHeader, getBuf,
       Fill, DecodeOK, DecodeFails, Report, WorkerExit
  <2>2. QED
    BY ONLY <1>0, <2>1, ZenonT(30) DEF StartInv
<1>4. CASE Call
  BY <1>0, <1>4, CallBegins, ZenonT(30) DEF StartInv, begin, start
<1>5. CASE ConsumerStep
  <2>1. UNCHANGED <<started, disp, wpc>> /\ (rpc' # "idle" => rpc # "idle" /\ op' = op)
    BY <1>5, ZenonT(30) DEF ConsumerStep, ReadCopy, ReadReturn, WriteToWrite, RetireCurrent,
       RecvQueue, RecvResult, RecvDone, StopOnError, SetErrReturn
  <2>2. rpc' \in {"stop", "setErr"} => rerr' # Nil
    <3>1. CASE WriteToWrite
      BY <3>1 DEF WriteToWrite
    <3>2. CASE RecvQueue
      BY <3>2, SMTT(60) DEF RecvQueue, RecvDone, Nil
    <3>3. CASE RecvResult
      <4>1. rpc' = "stop" => \/ rerr' = "closed"
                             \/ /\ rerr' = ResultErr(result[rblk].err)
                                /\ result[rblk].err # Nil
        BY <3>3, ZenonT(30) DEF RecvResult, RecvDone
      <4>2. QED
        BY <3>3, <4>1 DEF RecvResult, RecvDone, ResultErr, Nil
    <3>4. CASE ReadCopy \/ ReadReturn \/ RetireCurrent \/ StopOnError \/ SetErrReturn
      BY <1>0, <3>4, ZenonT(30) DEF StartInv, ReadCopy, ReadReturn, RetireCurrent, StopOnError,
         SetErrReturn
    <3>5. QED
      BY <1>5, <3>1, <3>2, <3>3, <3>4, ZenonT(30) DEF ConsumerStep
  <2>3. QED
    BY <1>0, <2>1, <2>2 DEF StartInv
<1>6. CASE (\E c \in Closers : CloseStop(c) \/ CloserStep(c)) \/ Abandon \/ Cleanup
  BY <1>0, <1>6, SMTT(60)
     DEF StartInv, CloserStep, CloseStop, CloseLock, CloseWait, Abandon, Cleanup
<1>7. QED
  BY <1>1, <1>2, <1>3, <1>4, <1>5, <1>6 DEF Next, Call

(* queue stays the run of blocks between consumer and dispatcher.          *)
LEMMA QueueStep == IInv /\ [Next]_vars => QueueInv'
<1> SUFFICES ASSUME IInv, [Next]_vars
             PROVE  QueueInv'
  OBVIOUS
<1>0. /\ QueueInv /\ StartInv
      /\ queue \in Seq(Blocks) /\ rblk \in Nat /\ next \in Nat
  BY Indices, ZenonT(30) DEF IInv
<1>1. CASE UNCHANGED <<disp, next, queue, rblk>>
  BY <1>0, <1>1 DEF QueueInv
<1>2. CASE Enqueue
  <2>1. CASE queue' = Append(queue, next) /\ disp' = "handoff"
    <3>1. next = rblk + Len(queue) + 1 /\ next \in Blocks /\ next' = next /\ rblk' = rblk
      BY <1>0, <1>2 DEF QueueInv, Enqueue
    <3>2. /\ Len(queue') = Len(queue) + 1
          /\ \A i \in 1 .. Len(queue) : queue'[i] = queue[i]
          /\ queue'[Len(queue) + 1] = next
      BY <1>0, <2>1, <3>1
    <3>3. \A i \in 1 .. Len(queue') : queue'[i] = rblk' + i
      <4> SUFFICES ASSUME NEW i \in 1 .. Len(queue') PROVE queue'[i] = rblk' + i
        BY ZenonT(30)
      <4>1. Len(queue) \in Nat /\ rblk \in Nat
        BY Indices, ZenonT(30)
      <4>2. CASE i \in 1 .. Len(queue)
        BY <1>0, <3>1, <3>2, <4>2, ZenonT(30) DEF QueueInv
      <4>3. CASE i = Len(queue) + 1
        BY ONLY <3>1, <3>2, <4>1, <4>3
      <4> QED
        BY ONLY <3>2, <4>1, <4>2, <4>3, i \in 1 .. Len(queue')
    <3>4. QED
      BY <1>0, <2>1, <3>1, <3>2, <3>3 DEF QueueInv
  <2>2. CASE UNCHANGED queue /\ disp' = "closeJobs"
    BY <1>0, <1>2, <2>2 DEF QueueInv, Enqueue
  <2>3. QED
    BY <1>2, <2>1, <2>2, SMTT(60) DEF Enqueue
<1>3. CASE HandoffCancelled \/ EndDispatch
  BY <1>0, <1>3 DEF QueueInv, HandoffCancelled, EndDispatch
<1>4. ASSUME NEW w \in Workers, Handoff(w) PROVE QueueInv'
  BY <1>0, <1>4 DEF QueueInv, Handoff
<1>5. CASE Call
  BY <1>0, <1>5, CallBegins, ZenonT(30) DEF QueueInv, StartInv, begin, start
<1>6. CASE RecvQueue
  <2>1. CASE queue # <<>> /\ rblk' = Head(queue) /\ queue' = Tail(queue)
    <3>1. Len(queue) \in Nat \ {0} /\ rblk' = rblk + 1
      BY <1>0, <2>1 DEF QueueInv
    <3>2. Len(queue') = Len(queue) - 1 /\ \A i \in 1 .. Len(queue') : queue'[i] = queue[i + 1]
      BY <1>0, <2>1, SMTT(60)
    <3>3. \A i \in 1 .. Len(queue') : queue'[i] = rblk' + i
      BY <1>0, <3>1, <3>2 DEF QueueInv
    <3>4. QED
      BY <1>0, <1>6, <3>1, <3>2, <3>3 DEF QueueInv, RecvQueue
  <2>2. CASE UNCHANGED <<queue, rblk>>
    BY ONLY <1>0, <1>6, <2>2, ZenonT(30) DEF QueueInv, RecvQueue
  <2>3. QED
    BY <1>6, <2>1, <2>2 DEF RecvQueue
<1>7. ASSUME NEW w \in Workers, DecodeStep(w) \/ WorkerExit(w)
      PROVE  UNCHANGED <<disp, next, queue, rblk>>
  BY <1>7 DEF DecodeStep, ReadHeader, getBuf, Fill, DecodeOK, DecodeFails, Report,
     WorkerExit
<1>8. CASE ConsumerStep /\ ~RecvQueue
  BY <1>1, <1>8, ZenonT(30) DEF ConsumerStep, ReadCopy, ReadReturn, WriteToWrite, RetireCurrent,
     RecvResult, StopOnError, SetErrReturn
<1>9. CASE (\E c \in Closers : CloseStop(c) \/ CloserStep(c)) \/ Abandon \/ Cleanup
  BY <1>1, <1>9 DEF CloserStep, CloseStop, CloseLock, CloseWait, Abandon, Cleanup
<1>10. QED
  BY <1>1, <1>2, <1>3, <1>4, <1>5, <1>6, <1>7, <1>8, <1>9, ZenonT(30) DEF Next, Call,
     DispatcherStep, WorkerStep
=============================================================================
