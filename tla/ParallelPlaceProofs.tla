------------------------ MODULE ParallelPlaceProofs -------------------------
(***************************************************************************)
(* Where the blocks of the file are: each with one worker, in its result   *)
(* channel or with the consumer, and all of them within the span that queue *)
(* admits.                                                                 *)
(***************************************************************************)
EXTENDS ParallelReaderProofs

(* The blocks taken up reach no further than the last one queued, and the  *)
(* queue is bounded.                                                       *)
SpanInv ==
  /\ Len(queue) <= QueueCap
  /\ next <= rblk + Len(queue) + 1

(* The consumer is done with everything up to its block, but for what is   *)
(* left of the current buffer.                                             *)
Passed ==
  \/ rpc \in {"loop", "recvQueue"} \/ (rpc = "idle" /\ err = Nil)
  \/ cur # NoBuf

(* A block is with one worker, or in its result channel, or with the       *)
(* consumer.                                                               *)
AtWorker(w) ==
  wpc[w] \in Busy =>
    /\ rblk <= wblk[w] /\ wblk[w] < next
    /\ Passed => rblk < wblk[w]
    /\ \A v \in Workers \ {w} : wpc[v] \in Busy => wblk[v] # wblk[w]
    /\ result[wblk[w]] = NoResult
AtResult(b) ==
  result[b] # NoResult =>
    /\ rblk <= b /\ b < next
    /\ Passed => rblk < b
PlaceInv ==
  /\ \A w \in Workers : AtWorker(w)
  /\ \A b \in Blocks : AtResult(b)
  /\ disp = "handoff" /\ Passed => rblk < next

-----------------------------------------------------------------------------
USE DEF vars, dispVars, workVars, bufVars, callVars, curVars

(* Enqueue, Handoff and RecvQueue move the ends of the span together.      *)
LEMMA SpanStep ==
  ASSUME Cardinality(Workers) \in Nat
  PROVE  IInv /\ SpanInv /\ [Next]_vars => SpanInv'
<1> SUFFICES ASSUME IInv, SpanInv, [Next]_vars
             PROVE  SpanInv'
  BY ZenonT(30)
<1> USE DEF SpanInv
<1>0. /\ queue \in Seq(Blocks) /\ Len(queue) \in Nat /\ rblk \in Nat /\ next \in Nat
      /\ Len(queue) <= QueueCap /\ next <= rblk + Len(queue) + 1 /\ QueueCap \in Nat
  <2>1. QueueCap \in Nat
    BY ONLY Cardinality(Workers) \in Nat DEF QueueCap
  <2> QED
    BY <2>1, Indices, ZenonT(30)
<1>1. CASE UNCHANGED <<queue, next, rblk>>
  BY ONLY <1>0, <1>1, ZenonT(30)
<1>2. CASE Enqueue
  <2>1. UNCHANGED <<next, rblk>> /\ (queue' = queue \/ (queue' = Append(queue, next) /\ Len(queue) < QueueCap))
    BY ONLY <1>2, ZenonT(30) DEF Enqueue
  <2>2. next \in Blocks
    BY <1>2 DEF Enqueue
  <2>3. queue' = Append(queue, next) => Len(queue') = Len(queue) + 1
    BY <1>0, <2>2, SMTT(60)
  <2> QED
    BY ONLY <1>0, <2>1, <2>3, SMT
<1>3. ASSUME NEW w \in Workers, Handoff(w) PROVE SpanInv'
  <2>1. next' = next + 1 /\ UNCHANGED <<queue, rblk>> /\ next = rblk + Len(queue)
    BY <1>3, ZenonT(30) DEF Handoff, IInv, QueueInv
  <2> QED
    BY ONLY <1>0, <2>1, SMT
<1>4. CASE RecvQueue
  <2>1. CASE UNCHANGED <<queue, rblk>>
    BY <1>0, <1>4, <2>1, SMTT(60) DEF RecvQueue
  <2>2. CASE queue # <<>> /\ rblk' = Head(queue) /\ queue' = Tail(queue)
    <3>1. Len(queue') = Len(queue) - 1 /\ rblk' = queue[1] /\ Len(queue) >= 1
      BY <1>0, <2>2, SMT
    <3>2. rblk' = rblk + 1 /\ next' = next
      BY <1>0, <1>4, <3>1, SMT DEF IInv, QueueInv, RecvQueue
    <3> QED
      BY <1>0, <3>1, <3>2
  <2> QED
    BY ONLY <1>4, <2>1, <2>2, ZenonT(30) DEF RecvQueue
<1> QED
  BY <1>1, <1>2, <1>3, <1>4, ZenonT(30) DEF Next, DispatcherStep, WorkerStep, DecodeStep, ConsumerStep,
     CloserStep, HandoffCancelled, EndDispatch, ReadHeader, getBuf, Fill, DecodeOK, DecodeFails,
     Report, WorkerExit, ReadCopy, ReadReturn, WriteToWrite, RetireCurrent, RecvResult,
     StopOnError, SetErrReturn, Read, WriteTo, CloseStop, CloseLock, CloseWait, Abandon, Cleanup

(* A step that moves no block and takes the consumer nowhere new.          *)
LEMMA PlacesKept ==
  ASSUME PlaceInv, Passed' => Passed, UNCHANGED <<rblk, next, wblk, result>>,
         \A w \in Workers : wpc'[w] \in Busy => wpc[w] \in Busy,
         disp' = "handoff" => disp = "handoff"
  PROVE  PlaceInv'
<1>1. ASSUME NEW w \in Workers PROVE AtWorker(w)'
  <2>1. AtWorker(w)
    BY DEF PlaceInv
  <2> QED
    BY <2>1, ZenonT(30) DEF AtWorker
<1>2. ASSUME NEW b \in Blocks PROVE AtResult(b)'
  <2>1. AtResult(b)
    BY DEF PlaceInv
  <2> QED
    BY <2>1, ZenonT(30) DEF AtResult
<1> QED
  BY <1>1, <1>2, ZenonT(30) DEF PlaceInv

(* A worker takes up a block nobody has, and hands on the one it has.      *)
LEMMA PlaceWorker ==
  ASSUME IInv, PlaceInv, NEW w \in Workers, WorkerStep(w)
  PROVE  PlaceInv'
<1>0. /\ wpc \in [Workers -> {"off", "idle", "header", "getBuf", "fill", "check", "report", "exited"}]
      /\ wblk \in [Workers -> Blocks \cup {NoBlock}]
      /\ result \in [Blocks -> Results]
      /\ rblk \in Nat /\ next \in Nat /\ Len(queue) \in Nat
  BY Indices, ZenonT(30) DEF IInv, TypeOK
<1>1. Passed' <=> Passed
  BY DEF Passed, WorkerStep, DecodeStep, Handoff, ReadHeader, getBuf, Fill, DecodeOK, DecodeFails,
     Report, WorkerExit
<1>2. CASE ReadHeader(w) \/ getBuf(w) \/ Fill(w) \/ DecodeOK(w) \/ DecodeFails(w) \/ WorkerExit(w)
  <2>1. UNCHANGED <<rblk, next, wblk, result, disp>>
    BY <1>2, ZenonT(30) DEF ReadHeader, getBuf, Fill, DecodeOK, DecodeFails, WorkerExit
  <2>2. \E p \in {"getBuf", "fill", "check", "report", "exited"} :
          /\ wpc' = [wpc EXCEPT ![w] = p] /\ (p # "exited" => wpc[w] \in Busy)
    BY <1>2 DEF ReadHeader, getBuf, Fill, DecodeOK, DecodeFails, WorkerExit, Busy
  <2>3. \A v \in Workers : wpc'[v] \in Busy => wpc[v] \in Busy
    BY ONLY <1>0, <2>2, ZenonT(30) DEF Busy
  <2> QED
    BY <1>1, <2>1, <2>3, PlacesKept, ZenonT(30)
<1>3. CASE Handoff(w)
  <2>1. /\ disp = "handoff" /\ disp' = "enqueue" /\ next' = next + 1
        /\ wpc[w] = "idle" /\ wpc'[w] = "header" /\ wblk'[w] = next
        /\ \A v \in Workers \ {w} : wpc'[v] = wpc[v] /\ wblk'[v] = wblk[v]
        /\ UNCHANGED <<rblk, result>>
    BY <1>0, <1>3, ZenonT(30) DEF Handoff
  <2>2. next \in Blocks /\ rblk <= next /\ (Passed => rblk < next)
    <3>1. next \in Blocks /\ next = rblk + Len(queue) /\ (Passed => rblk < next)
      BY <2>1, ZenonT(30) DEF IInv, QueueInv, PlaceInv
    <3>2. rblk <= next
      BY ONLY <1>0, <3>1, SMT
    <3> QED
      BY ONLY <3>1, <3>2, ZenonT(30)
  <2>3. /\ ~ (next < next) /\ next < next + 1
        /\ \A n \in Nat : n < next => n < next + 1
    BY ONLY <1>0, SMT
  <2>4. ASSUME NEW v \in Workers \ {w} PROVE AtWorker(v)' /\ (wpc[v] \in Busy => wblk[v] # next)
    <3>1. AtWorker(v) /\ (wpc[v] \in Busy => wblk[v] \in Nat)
      BY Indices, ZenonT(30) DEF PlaceInv
    <3>2. wpc[v] \in Busy => wblk[v] # next
      BY ONLY <2>3, <3>1, ZenonT(30) DEF AtWorker
    <3>3. wpc'[v] \in Busy => /\ rblk' <= wblk'[v] /\ wblk'[v] < next'
                              /\ Passed' => rblk' < wblk'[v]
                              /\ result'[wblk'[v]] = NoResult
      BY ONLY <1>1, <2>1, <2>3, <3>1, ZenonT(30) DEF AtWorker
    <3>4. \A u \in Workers \ {v} : wpc'[v] \in Busy /\ wpc'[u] \in Busy => wblk'[u] # wblk'[v]
      BY ONLY <2>1, <3>1, <3>2, ZenonT(30) DEF AtWorker
    <3> QED
      BY ONLY <3>2, <3>3, <3>4, ZenonT(30) DEF AtWorker
  <2>5. AtWorker(w)'
    <3>1. result[next] = NoResult
      BY ONLY PlaceInv, <2>2, <2>3, ZenonT(30) DEF PlaceInv, AtResult
    <3> QED
      BY ONLY <1>1, <2>1, <2>2, <2>3, <2>4, <3>1, ZenonT(30) DEF AtWorker
  <2>6. ASSUME NEW b \in Blocks PROVE AtResult(b)'
    <3>1. AtResult(b) /\ b \in Nat
      BY Indices, ZenonT(30) DEF PlaceInv
    <3> QED
      BY ONLY <1>1, <2>1, <2>3, <3>1, ZenonT(30) DEF AtResult
  <2> QED
    BY <2>1, <2>4, <2>5, <2>6, ZenonT(30) DEF PlaceInv
<1>4. CASE Report(w)
  <2>1. /\ wpc[w] = "report" /\ wpc'[w] = "idle" /\ wblk[w] \in Blocks
        /\ result'[wblk[w]] = wres[w]
        /\ \A b \in Blocks \ {wblk[w]} : result'[b] = result[b]
        /\ \A v \in Workers \ {w} : wpc'[v] = wpc[v] /\ wblk'[v] = wblk[v]
        /\ UNCHANGED <<rblk, next, disp>>
    BY <1>0, <1>4, ZenonT(30) DEF Report, IInv, WorkerInv, WorkerOK, Busy
  <2>2. AtWorker(w) /\ wpc[w] \in Busy
    BY <2>1, ZenonT(30) DEF PlaceInv, Busy
  <2>3. ASSUME NEW v \in Workers \ {w} PROVE AtWorker(v)'
    <3>1. AtWorker(v) /\ (wpc[v] \in Busy => wblk[v] \in Blocks)
      BY ZenonT(30) DEF PlaceInv, IInv, WorkerInv, WorkerOK
    <3> QED
      BY ONLY <1>1, <2>1, <2>2, <3>1, SMT DEF AtWorker, Busy
  <2>4. AtWorker(w)'
    BY ONLY <2>1, ZenonT(30) DEF AtWorker, Busy
  <2>5. ASSUME NEW b \in Blocks PROVE AtResult(b)'
    <3>1. AtResult(b)
      BY ZenonT(30) DEF PlaceInv
    <3> QED
      BY ONLY <1>1, <2>1, <2>2, <3>1, ZenonT(30) DEF AtResult, AtWorker
  <2> QED
    BY <1>1, <2>1, <2>3, <2>4, <2>5, ZenonT(30) DEF PlaceInv
<1> QED
  BY <1>2, <1>3, <1>4, ZenonT(30) DEF WorkerStep, DecodeStep

(* The consumer takes a block that no worker and no later result can pass. *)
LEMMA PlaceConsumer == IInv /\ PlaceInv /\ ConsumerStep => PlaceInv'
<1> SUFFICES ASSUME IInv, PlaceInv, ConsumerStep
             PROVE  PlaceInv'
  BY ZenonT(30)
<1>0. /\ result \in [Blocks -> Results] /\ queue \in Seq(Blocks)
      /\ rblk \in Nat /\ next \in Nat /\ Len(queue) \in Nat
      /\ \A w \in Workers : wpc[w] \in Busy => wblk[w] \in Blocks
      /\ Blocks \subseteq Nat
  BY Indices, ZenonT(30)
<1>1. CASE ReadCopy \/ ReadReturn \/ WriteToWrite \/ RetireCurrent \/ StopOnError \/ SetErrReturn
  <2>1. UNCHANGED <<rblk, next, wblk, result, wpc, disp>>
    BY ONLY <1>1, ZenonT(30) DEF ReadCopy, ReadReturn, WriteToWrite, RetireCurrent, StopOnError,
       SetErrReturn
  <2>2. Passed' => Passed
    <3>1. CASE SetErrReturn
      <4>1. rerr # Nil /\ err' # Nil /\ rpc' = "idle" /\ cur' = cur
        BY <3>1, RecordedIsError, ZenonT(30) DEF SetErrReturn, IInv, StartInv
      <4> QED
        BY <4>1, ZenonT(30) DEF Passed
    <3>2. CASE StopOnError
      BY ONLY <3>2, ZenonT(30) DEF StopOnError, Passed
    <3>3. CASE ReadCopy \/ ReadReturn \/ WriteToWrite \/ RetireCurrent
      BY <3>3 DEF Passed, ReadCopy, ReadReturn, WriteToWrite, RetireCurrent
    <3> QED
      BY <1>1, <3>1, <3>2, <3>3
  <2> QED
    BY <2>1, <2>2, PlacesKept, ZenonT(30)
<1>2. CASE RecvQueue
  <2>1. cur = NoBuf /\ cur' = NoBuf /\ Passed /\ UNCHANGED <<next, wblk, result, wpc, disp>>
        /\ rpc' \in {"recvResult", "stop", "setErr"}
    BY <1>2 DEF RecvQueue, RecvDone, IInv, PositionInv, Passed
  <2>2. ~ Passed'
    BY <2>1, SMTT(60) DEF Passed
  <2>3. rblk' = rblk \/ rblk' = rblk + 1
    <3>1. CASE queue # <<>> /\ rblk' = Head(queue)
      <4>1. rblk' = queue[1] /\ Len(queue) >= 1
        BY ONLY <1>0, <3>1, SMT
      <4> QED
        BY <1>0, <4>1, SMTT(60) DEF IInv, QueueInv
    <3> QED
      BY <1>2, <3>1, ZenonT(30) DEF RecvQueue
  <2>4. ASSUME NEW w \in Workers PROVE AtWorker(w)'
    <3>1. AtWorker(w)
      BY ZenonT(30) DEF PlaceInv
    <3>2. CASE wpc[w] \in Busy
      <4>1. /\ rblk < wblk[w] /\ wblk[w] < next /\ wblk[w] \in Nat
            /\ \A v \in Workers \ {w} : wpc[v] \in Busy => wblk[v] # wblk[w]
            /\ result[wblk[w]] = NoResult
        BY <1>0, <2>1, <3>1, <3>2, ZenonT(30) DEF AtWorker
      <4>2. rblk' <= wblk[w]
        BY ONLY <1>0, <2>3, <4>1, SMT
      <4> QED
        BY <2>1, <2>2, <4>1, <4>2, SMTT(60) DEF AtWorker
    <3> QED
      BY <2>1, <3>2, SMTT(60) DEF AtWorker
  <2>5. ASSUME NEW b \in Blocks PROVE AtResult(b)'
    <3>1. AtResult(b)
      BY DEF PlaceInv
    <3> QED
      BY <1>0, <2>1, <2>2, <2>3, <3>1 DEF AtResult
  <2> QED
    BY <2>2, <2>4, <2>5, ZenonT(30) DEF PlaceInv
<1>3. CASE RecvResult
  <2>1. /\ cur = NoBuf /\ rblk \in Blocks /\ UNCHANGED <<rblk, next, wblk, wpc, disp>>
    BY <1>3, ZenonT(30) DEF RecvResult, IInv, PositionInv
  <2>2. CASE RecvDone /\ UNCHANGED <<result, cur>>
    <3>1. ~ Passed'
      BY <2>1, <2>2 DEF Passed, RecvDone
    <3> QED
      BY <2>1, <2>2, <3>1, PlacesKept, SMTT(60)
  <2>3. CASE result[rblk] # NoResult /\ result' = [result EXCEPT ![rblk] = NoResult]
    <3>1. /\ result'[rblk] = NoResult
          /\ \A b \in Blocks \ {rblk} : result'[b] = result[b]
      BY <1>0, <2>1, <2>3
    <3>2. rblk < next
      BY <2>1, <2>3, ZenonT(30) DEF PlaceInv, AtResult
    <3>3. ASSUME NEW w \in Workers PROVE AtWorker(w)'
      <4>1. AtWorker(w)
        BY DEF PlaceInv
      <4>2. wpc[w] \in Busy => rblk < wblk[w] /\ result'[wblk[w]] = NoResult
        <5> SUFFICES ASSUME wpc[w] \in Busy
                     PROVE  rblk < wblk[w] /\ result'[wblk[w]] = NoResult
          OBVIOUS
        <5>1. rblk <= wblk[w] /\ result[wblk[w]] = NoResult
          BY ONLY <4>1, wpc[w] \in Busy, ZenonT(30) DEF AtWorker
        <5>2. wblk[w] \in Blocks
          BY ZenonT(30) DEF IInv, WorkerInv, WorkerOK
        <5>3. wblk[w] # rblk
          BY ONLY <2>3, <5>1, ZenonT(30)
        <5>4. rblk < wblk[w]
          BY ONLY <2>1, <5>1, <5>2, <5>3, BlocksAssumption DEF Blocks
        <5>5. result'[wblk[w]] = NoResult
          BY ONLY <3>1, <5>1, <5>2, <5>3, ZenonT(30)
        <5> QED
          BY ONLY <5>4, <5>5, ZenonT(30)
      <4> QED
        BY ONLY <2>1, <4>1, <4>2, ZenonT(30) DEF AtWorker
    <3>4. ASSUME NEW b \in Blocks PROVE AtResult(b)'
      <4>1. AtResult(b)
        BY ZenonT(30) DEF PlaceInv
      <4>2. b # rblk /\ rblk <= b => rblk < b
        BY ONLY <1>0, SMT
      <4>3. result'[b] # NoResult => b # rblk /\ result[b] # NoResult
        BY ONLY <3>1, ZenonT(30)
      <4> QED
        BY ONLY <2>1, <4>1, <4>2, <4>3, ZenonT(30) DEF AtResult
    <3> QED
      BY <2>1, <3>2, <3>3, <3>4, ZenonT(30) DEF PlaceInv
  <2> QED
    BY ONLY <1>3, <2>2, <2>3, ZenonT(30) DEF RecvResult
<1> QED
  BY <1>1, <1>2, <1>3 DEF ConsumerStep

LEMMA PlaceStep == IInv /\ PlaceInv /\ [Next]_vars => PlaceInv'
<1> SUFFICES ASSUME IInv, PlaceInv, [Next]_vars
             PROVE  PlaceInv'
  OBVIOUS
<1>1. CASE UNCHANGED vars
  <2>1. Passed' => Passed
    BY <1>1 DEF Passed
  <2> QED
    BY <1>1, <2>1, PlacesKept, ZenonT(30)
<1>2. CASE Enqueue
  <2>1. UNCHANGED <<rblk, next, wblk, result, wpc, err, rpc, cur>>
    BY <1>2 DEF Enqueue
  <2>2. Passed' <=> Passed
    BY <2>1, SMTT(60) DEF Passed
  <2>3. rblk < next
    <3>1. next = rblk + Len(queue) + 1
      BY <1>2, ZenonT(30) DEF Enqueue, IInv, QueueInv
    <3>2. rblk \in Nat /\ Len(queue) \in Nat
      BY Indices, ZenonT(30)
    <3> QED
      BY <3>1, <3>2, SMT
  <2>4. \A w \in Workers : AtWorker(w)'
    BY <2>1, <2>2, ZenonT(30) DEF PlaceInv, AtWorker
  <2>5. \A b \in Blocks : AtResult(b)'
    BY <2>1, <2>2 DEF PlaceInv, AtResult
  <2> QED
    BY <2>1, <2>3, <2>4, <2>5, ZenonT(30) DEF PlaceInv
<1>3. CASE HandoffCancelled \/ EndDispatch
  <2>1. UNCHANGED <<rblk, next, wblk, result, wpc, err, rpc, cur>> /\ disp' # "handoff"
    BY <1>3 DEF HandoffCancelled, EndDispatch
  <2>2. Passed' => Passed
    BY <2>1, ZenonT(30) DEF Passed
  <2> QED
    BY <2>1, <2>2, PlacesKept, ZenonT(30)
<1>4. CASE Call
  <2>1. PICK o \in {"Read", "WriteTo"}, m \in 0 .. MaxRead : begin(o, m)
    BY ONLY <1>4, CallBegins, ZenonT(30)
  <2>2. rpc = "idle" /\ UNCHANGED <<rblk, next, wblk, result, err, cur>>
    BY <1>4, CallBegins, ZenonT(30)
  <2>3. Passed' => Passed
    BY ONLY <2>1, <2>2, ZenonT(30) DEF Passed, begin
  <2>4. /\ wpc' = wpc \/ wpc' = [w \in Workers |-> "idle"]
        /\ disp' = disp \/ disp' = "enqueue"
    BY <2>1, ZenonT(30) DEF begin, start
  <2>5. \A w \in Workers : wpc'[w] \in Busy => wpc[w] \in Busy
    BY <2>4, SMTT(60) DEF Busy
  <2> QED
    BY <2>2, <2>3, <2>4, <2>5, PlacesKept, ZenonT(30)
<1>5. CASE (\E c \in Closers : CloseStop(c) \/ CloserStep(c)) \/ Abandon \/ Cleanup
  <2>1. UNCHANGED <<rblk, next, wblk, result, wpc, disp, rpc, cur>> /\ (err' = err \/ err' # Nil)
    BY ONLY <1>5, ZenonT(30) DEF CloserStep, CloseStop, CloseLock, CloseWait, Abandon, Cleanup, Nil
  <2>2. Passed' => Passed
    BY <2>1 DEF Passed
  <2> QED
    BY <2>1, <2>2, PlacesKept, ZenonT(30)
<1> QED
  BY <1>1, <1>2, <1>3, <1>4, <1>5, PlaceWorker, PlaceConsumer, ZenonT(30) DEF Next, Call,
     DispatcherStep
=============================================================================
