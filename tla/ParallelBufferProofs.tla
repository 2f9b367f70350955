------------------------ MODULE ParallelBufferProofs ------------------------
(***************************************************************************)
(* What the workers and the result channels hold, and that a decode buffer *)
(* has one owner: the steps of ParallelReader keep WorkerInv, ResultInv and *)
(* BufferOwnership.                                                        *)
(***************************************************************************)
EXTENDS ParallelTypeProofs

USE DEF vars, dispVars, workVars, bufVars, callVars, curVars

(* The buffer make() returns belongs to nobody.                            *)
LEMMA FreshUnheld ==
  ASSUME TypeOK, NEW b \in Fresh
  PROVE  /\ b \in BufIds /\ b # NoBuf /\ b # cur
         /\ \A i \in DOMAIN pool : pool[i] # b
         /\ \A w \in Workers : wres[w].buf # b
         /\ \A r \in Blocks : result[r].buf # b
<1>1. b \in BufIds /\ b \notin LiveBufs
  BY DEF Fresh
<1>2. b # NoBuf
  BY <1>1, ProcessAssumption DEF NoBuf
<1>3. QED
  BY <1>1, <1>2 DEF LiveBufs

(* Only Fill changes what a buffer holds, and it has that buffer to itself.*)
LEMMA FillAlone ==
  ASSUME IInv, NEW w \in Workers, Fill(w)
  PROVE  \E b \in BufIds :
           /\ wres' = [wres EXCEPT ![w].buf = b]
           /\ content' = [content EXCEPT ![b] = wblk[w]]
           /\ b # NoBuf /\ b # cur
           /\ \A i \in DOMAIN pool : pool[i] # b
           /\ \A v \in Workers \ {w} : wres[v].buf # b
           /\ \A r \in Blocks : result[r].buf # b
<1>0. TypeOK /\ BufferOwnership
  BY DEF IInv
<1>1. wres[w].buf # NoBuf /\ wres[w].buf \in BufIds
  BY <1>0, ResultType, ZenonT(30) DEF Fill, IInv, WorkerInv, WorkerOK, TypeOK
<1>2. PICK b \in {wres[w].buf} \cup Fresh :
        /\ wres' = [wres EXCEPT ![w].buf = b]
        /\ content' = [content EXCEPT ![b] = wblk[w]]
  BY ZenonT(30) DEF Fill
<1>3. CASE b = wres[w].buf
  BY <1>0, <1>1, <1>2, <1>3, ZenonT(30) DEF BufferOwnership
<1>4. CASE b \in Fresh
  BY <1>0, <1>2, <1>4, FreshUnheld, ZenonT(30)
<1>5. QED
  BY <1>2, <1>3, <1>4, ZenonT(30)

(* Each worker step leaves the worker with what the next point requires,   *)
(* and leaves the others' blocks and buffers alone.                        *)
LEMMA WorkerStepOK ==
  ASSUME IInv, NEW w \in Workers, WorkerStep(w)
  PROVE  WorkerInv'
<1>0. /\ TypeOK /\ WorkerInv /\ WorkerOK(w)
      /\ wpc \in [Workers -> {"off", "idle", "header", "getBuf", "fill", "check",
                              "report", "exited"}]
      /\ wblk \in [Workers -> Blocks \cup {NoBlock}]
      /\ wres \in [Workers -> Results]
      /\ content \in [BufIds -> Blocks \cup {NoBlock}]
  BY ZenonT(30) DEF IInv, TypeOK, WorkerInv
<1>1. ASSUME NEW v \in Workers, v # w PROVE WorkerOK(v)'
  <2>1. wpc'[v] = wpc[v] /\ wblk'[v] = wblk[v] /\ wres'[v] = wres[v]
    BY <1>0, <1>1 DEF WorkerStep, DecodeStep, Handoff, ReadHeader, getBuf, Fill, DecodeOK,
       DecodeFails, Report, WorkerExit
  <2>2. content'[wres[v].buf] = content[wres[v].buf] \/ wres[v].buf = NoBuf
    <3>1. CASE Fill(w)
      <4>1. wres[v].buf \in BufIds \cup {NoBuf}
        BY <1>0, ResultType, ZenonT(30)
      <4>2. PICK b \in BufIds : content' = [content EXCEPT ![b] = wblk[w]] /\ wres[v].buf # b
        BY <1>1, <3>1, FillAlone, ZenonT(30)
      <4>3. QED
        BY <1>0, <4>1, <4>2
    <3>2. CASE ~Fill(w)
      BY <3>2, ZenonT(30) DEF WorkerStep, DecodeStep, Handoff, ReadHeader, getBuf, DecodeOK,
         DecodeFails, Report, WorkerExit
    <3>3. QED
      BY <3>1, <3>2, ZenonT(30)
  <2>3. WorkerOK(v)
    BY <1>0, SMTT(60) DEF WorkerInv
  <2>4. QED
    BY <2>1, <2>2, <2>3, ZenonT(30) DEF WorkerOK
<1>2. WorkerOK(w)'
  <2>1. CASE Handoff(w)
    BY <1>0, <2>1, ZenonT(30) DEF WorkerOK, Handoff, IInv, QueueInv
  <2>2. CASE ReadHeader(w)
    BY <1>0, <2>2 DEF WorkerOK, ReadHeader, Busy
  <2>3. CASE getBuf(w)
    <3>0. pool \in Seq(BufIds)
      BY <1>0 DEF TypeOK
    <3>1. PICK b \in BufIds : wres' = [wres EXCEPT ![w].buf = b]
      BY <2>3, <3>0 DEF getBuf, Fresh
    <3>2. wres'[w].buf = b /\ b # NoBuf
      BY <1>0, <3>1, ProcessAssumption DEF NoBuf, Results
    <3>3. QED
      BY <1>0, <2>3, <3>2 DEF WorkerOK, getBuf, Busy
  <2>4. CASE Fill(w)
    <3>1. PICK b \in BufIds : /\ wres' = [wres EXCEPT ![w].buf = b]
                              /\ content' = [content EXCEPT ![b] = wblk[w]]
                              /\ b # NoBuf
      BY <2>4, FillAlone
    <3>2. wres'[w].buf = b /\ content'[b] = wblk[w]
      BY <1>0, <3>1 DEF Results
    <3>3. QED
      BY <1>0, <2>4, <3>1, <3>2 DEF WorkerOK, Fill, Busy
  <2>5. CASE DecodeOK(w)
    <3>1. wres'[w].buf = wres[w].buf /\ wres'[w].err = Nil
      BY ONLY <1>0, <2>5, SMT DEF DecodeOK, Results
    <3>2. QED
      BY <1>0, <2>5, <3>1 DEF WorkerOK, DecodeOK, Busy, DecodeErrs, Nil
  <2>6. CASE DecodeFails(w)
    <3>1. wres'[w].err \in DecodeErrs /\ wpc'[w] = "report" /\ wblk'[w] = wblk[w]
      BY ONLY <1>0, <2>6, SMT DEF DecodeFails
    <3>2. QED
      BY <1>0, <2>6, <3>1, ProcessAssumption, ZenonT(30) DEF WorkerOK, DecodeFails, DecodeErrs,
         Nil
  <2>7. CASE Report(w)
    BY <1>0, <2>7, ZenonT(30) DEF WorkerOK, Report, NoResult, Busy
  <2>8. CASE WorkerExit(w)
    BY <1>0, <2>8, SMTT(60) DEF WorkerOK, WorkerExit, Busy
  <2>9. QED
    BY <2>1, <2>2, <2>3, <2>4, <2>5, <2>6, <2>7, <2>8, ZenonT(30) DEF WorkerStep, DecodeStep
<1>3. QED
  BY ONLY <1>1, <1>2, SMT DEF WorkerInv

(* What workers have in hand is not disturbed by anyone else.              *)
LEMMA WorkerInvStep == IInv /\ [Next]_vars => WorkerInv'
<1> SUFFICES ASSUME IInv, [Next]_vars
             PROVE  WorkerInv'
  OBVIOUS
<1>0. WorkerInv
  BY ZenonT(30) DEF IInv
<1>1. CASE UNCHANGED <<wpc, wblk, wres, content>>
  BY <1>0, <1>1 DEF WorkerInv, WorkerOK
<1>2. CASE Call
  <2>1. CASE UNCHANGED wpc
    BY ONLY <1>1, <1>2, <2>1, CallBegins, ZenonT(30)
  <2>2. CASE ~started /\ wpc' = [w \in Workers |-> "idle"]
    <3>1. \A w \in Workers : wpc[w] = "off"
      BY <2>2, ZenonT(30) DEF IInv, StartInv
    <3>2. QED
      BY <1>0, <1>2, <2>2, <3>1, CallBegins, SMTT(60) DEF WorkerInv, WorkerOK, Busy
  <2>3. QED
    BY <1>2, <2>1, <2>2, CallBegins, ZenonT(30) DEF begin, start
<1>3. CASE DispatcherStep
  BY <1>1, <1>3, SMTT(60) DEF DispatcherStep, Enqueue, HandoffCancelled, EndDispatch
<1>4. CASE ConsumerStep
  BY <1>1, <1>4, ZenonT(30) DEF ConsumerStep, ReadCopy, ReadReturn, WriteToWrite, RetireCurrent,
     RecvQueue, RecvResult, StopOnError, SetErrReturn
<1>5. CASE (\E c \in Closers : CloseStop(c) \/ CloserStep(c)) \/ Abandon \/ Cleanup
  BY ONLY <1>1, <1>5, SMT DEF CloserStep, CloseStop, CloseLock, CloseWait, Abandon, Cleanup
<1>6. QED
  BY <1>1, <1>2, <1>3, <1>4, <1>5, WorkerStepOK DEF Next, Call

(* A result reaches its block's channel unchanged and stays there.         *)
LEMMA ResultInvStep == IInv /\ [Next]_vars => ResultInv'
<1> SUFFICES ASSUME IInv, [Next]_vars
             PROVE  ResultInv'
  OBVIOUS
<1>0. ResultInv /\ TypeOK /\ result \in [Blocks -> Results]
      /\ content \in [BufIds -> Blocks \cup {NoBlock}]
  BY SMTT(60) DEF IInv, TypeOK
<1>1. CASE UNCHANGED <<result, content>>
  BY <1>0, <1>1 DEF ResultInv, ResultOK
<1>2. ASSUME NEW w \in Workers, WorkerStep(w) PROVE ResultInv'
  <2>1. CASE Fill(w)
    <3>1. PICK b \in BufIds : /\ content' = [content EXCEPT ![b] = wblk[w]]
                              /\ \A r \in Blocks : result[r].buf # b
      BY <2>1, FillAlone, ZenonT(30)
    <3>2. ASSUME NEW r \in Blocks PROVE ResultOK(r)'
      <4>1. result[r].buf \in BufIds \cup {NoBuf} /\ ResultOK(r) /\ result' = result
        BY <1>0, <2>1, ResultType, ZenonT(30) DEF ResultInv, Fill
      <4>2. QED
        BY <1>0, <3>1, <4>1 DEF ResultOK
    <3>3. QED
      BY <3>2 DEF ResultInv
  <2>2. CASE Report(w)
    <3>1. /\ result' = [result EXCEPT ![wblk[w]] = wres[w]] /\ content' = content
          /\ wblk[w] \in Blocks
          /\ wres[w].err # "none"
          /\ wres[w].err = Nil => wres[w].buf # NoBuf /\ content[wres[w].buf] = wblk[w]
          /\ wres[w].err \in DecodeErrs => wblk[w] \in Faulty
      BY <2>2, ZenonT(30) DEF Report, IInv, WorkerInv, WorkerOK, Busy
    <3>2. QED
      BY <1>0, <3>1, SMT DEF ResultInv, ResultOK
  <2>3. CASE ~Fill(w) /\ ~Report(w)
    BY <1>1, <1>2, <2>3, ZenonT(30) DEF WorkerStep, DecodeStep, Handoff, ReadHeader, getBuf,
       DecodeOK, DecodeFails, WorkerExit
  <2>4. QED
    BY <2>1, <2>2, <2>3
<1>3. CASE RecvResult
  <2>1. /\ result' = result \/ result' = [result EXCEPT ![rblk] = NoResult]
        /\ content' = content
    BY <1>3 DEF RecvResult
  <2>2. QED
    BY <1>0, <2>1, SMT DEF ResultInv, ResultOK, NoResult, DecodeErrs, Nil
<1>4. CASE ConsumerStep /\ ~RecvResult
  BY <1>1, <1>4, ZenonT(30) DEF ConsumerStep, ReadCopy, ReadReturn, WriteToWrite, RetireCurrent,
     RecvQueue, StopOnError, SetErrReturn
<1>5. CASE DispatcherStep
  BY <1>1, <1>5, ZenonT(30) DEF DispatcherStep, Enqueue, HandoffCancelled, EndDispatch
<1>6. CASE (\E c \in Closers : CloseStop(c) \/ CloserStep(c)) \/ Abandon \/ Cleanup
  BY <1>1, <1>6, ZenonT(30) DEF CloserStep, CloseStop, CloseLock, CloseWait, Abandon, Cleanup
<1>7. QED
  BY <1>1, <1>2, <1>3, <1>4, <1>5, <1>6, CallBegins, ZenonT(30) DEF Next, Call
-----------------------------------------------------------------------------
(* What bufPool holds after putBuf: what it held, and perhaps the buffer.  *)
LEMMA PutBufContents ==
  ASSUME TypeOK, NEW b \in BufIds \cup {NoBuf}
  PROVE  \A i \in DOMAIN putBuf(b) :
           \/ i \in DOMAIN pool /\ putBuf(b)[i] = pool[i]
           \/ b # NoBuf /\ i = Len(pool) + 1 /\ putBuf(b)[i] = b
<1>1. pool \in Seq(BufIds)
  BY DEF TypeOK
<1>2. CASE putBuf(b) = pool
  BY <1>2, ZenonT(30)
<1>3. CASE putBuf(b) = Append(pool, b) /\ b # NoBuf
  BY <1>1, <1>3, SMTT(60)
<1>4. QED
  BY <1>2, <1>3 DEF putBuf

(* What bufPool holds after a receive: the rest, without the one received. *)
LEMMA PoolReceive ==
  ASSUME TypeOK, BufferOwnership, pool # <<>>
  PROVE  /\ Head(pool) = pool[1] /\ 1 \in DOMAIN pool
         /\ \A i \in DOMAIN Tail(pool) :
              i + 1 \in DOMAIN pool /\ Tail(pool)[i] = pool[i + 1]
         /\ \A i \in DOMAIN Tail(pool) : Tail(pool)[i] # Head(pool)
<1>1. pool \in Seq(BufIds)
  BY DEF TypeOK
<1>2. Head(pool) = pool[1] /\ 1 \in DOMAIN pool
  BY <1>1
<1>3. \A i \in DOMAIN Tail(pool) :
        /\ i \in Nat /\ i >= 1
        /\ i + 1 \in DOMAIN pool /\ Tail(pool)[i] = pool[i + 1]
  BY <1>1
<1>4. \A i \in DOMAIN Tail(pool) : Tail(pool)[i] # Head(pool)
  <2> SUFFICES ASSUME NEW i \in DOMAIN Tail(pool), Tail(pool)[i] = Head(pool)
               PROVE  FALSE
    BY SMTT(60)
  <2>1. pool[i + 1] = pool[1] /\ i + 1 \in DOMAIN pool /\ 1 \in DOMAIN pool
    BY <1>2, <1>3, ZenonT(30)
  <2>2. i + 1 = 1
    BY <2>1 DEF BufferOwnership
  <2>3. QED
    BY <1>3, <2>2
<1>5. QED
  BY <1>2, <1>3, <1>4, ZenonT(30)

(* bufPool may take a buffer that it does not hold.                        *)
LEMMA PoolTakes ==
  ASSUME TypeOK, BufferOwnership, NEW b \in BufIds \cup {NoBuf}, pool' = putBuf(b),
         b # NoBuf => \A i \in DOMAIN pool : pool[i] # b
  PROVE  /\ \A i, j \in DOMAIN pool' : pool'[i] = pool'[j] => i = j
         /\ \A x : /\ b # NoBuf => b # x
                   /\ \A j \in DOMAIN pool : pool[j] # x
                   => \A i \in DOMAIN pool' : pool'[i] # x
<1>1. \A i \in DOMAIN pool' :
        \/ i \in DOMAIN pool /\ pool'[i] = pool[i]
        \/ b # NoBuf /\ i = Len(pool) + 1 /\ pool'[i] = b
  BY PutBufContents, ZenonT(30)
<1>2. ASSUME NEW i \in DOMAIN pool', NEW j \in DOMAIN pool', pool'[i] = pool'[j]
      PROVE  i = j
  <2>1. CASE i \in DOMAIN pool /\ pool'[i] = pool[i] /\ j \in DOMAIN pool /\ pool'[j] = pool[j]
    BY <1>2, <2>1, ZenonT(30) DEF BufferOwnership
  <2>2. CASE i = Len(pool) + 1 /\ j = Len(pool) + 1
    BY <2>2
  <2>3. QED
    BY <1>1, <1>2, <2>1, <2>2, ZenonT(30)
<1>3. QED
  BY <1>1, <1>2, ZenonT(30)

(* A worker may take a buffer that nobody else holds.                      *)
LEMMA WorkerTakes ==
  ASSUME TypeOK, BufferOwnership, NEW w \in Workers, NEW b \in BufIds,
         wres' = [wres EXCEPT ![w].buf = b], cur' = cur, result' = result,
         \A i \in DOMAIN pool' : \E j \in DOMAIN pool : pool'[i] = pool[j],
         \A i, j \in DOMAIN pool' : pool'[i] = pool'[j] => i = j,
         b # cur, \A i \in DOMAIN pool' : pool'[i] # b,
         \A v \in Workers \ {w} : wres[v].buf # b,
         \A r \in Blocks : result[r].buf # b
  PROVE  BufferOwnership'
<1>1. wres'[w].buf = b /\ \A v \in Workers \ {w} : wres'[v] = wres[v]
  BY DEF TypeOK, Results
<1>2. \A i \in DOMAIN pool' : pool'[i] # cur'
  BY DEF BufferOwnership
<1>3. ASSUME NEW v \in Workers, wres'[v].buf # NoBuf
      PROVE  /\ wres'[v].buf # cur'
             /\ \A i \in DOMAIN pool' : pool'[i] # wres'[v].buf
             /\ \A u \in Workers \ {v} : wres'[u].buf # wres'[v].buf
             /\ \A r \in Blocks : result'[r].buf # wres'[v].buf
  <2>1. CASE v = w
    BY <1>1, <2>1
  <2>2. CASE v # w
    BY <1>1, <1>3, <2>2 DEF BufferOwnership
  <2>3. QED
    BY <2>1, <2>2
<1>4. ASSUME NEW r \in Blocks, result'[r].buf # NoBuf
      PROVE  /\ result'[r].buf # cur'
             /\ \A i \in DOMAIN pool' : pool'[i] # result'[r].buf
             /\ \A c \in Blocks \ {r} : result'[c].buf # result'[r].buf
  BY <1>4, SMT DEF BufferOwnership
<1>5. QED
  BY <1>2, <1>3, <1>4 DEF BufferOwnership

(* What a worker's buffer, and an undelivered result's, differ from.       *)
LEMMA WorkerOwns ==
  ASSUME BufferOwnership, NEW w \in Workers, wres[w].buf # NoBuf
  PROVE  /\ wres[w].buf # cur
         /\ \A i \in DOMAIN pool : pool[i] # wres[w].buf
         /\ \A v \in Workers \ {w} : wres[v].buf # wres[w].buf
         /\ \A b \in Blocks : result[b].buf # wres[w].buf
BY ZenonT(30) DEF BufferOwnership

LEMMA ResultOwns ==
  ASSUME BufferOwnership, NEW b \in Blocks, result[b].buf # NoBuf
  PROVE  /\ result[b].buf # cur
         /\ \A i \in DOMAIN pool : pool[i] # result[b].buf
         /\ \A c \in Blocks \ {b} : result[c].buf # result[b].buf
BY ZenonT(30) DEF BufferOwnership

(* Every step of a worker keeps the buffers apart.                         *)
LEMMA OwnershipWorker ==
  ASSUME IInv, NEW w \in Workers, WorkerStep(w)
  PROVE  BufferOwnership'
<1>0. /\ TypeOK /\ BufferOwnership /\ wres \in [Workers -> Results]
      /\ result \in [Blocks -> Results] /\ pool \in Seq(BufIds)
      /\ wres[w].buf \in BufIds \cup {NoBuf}
  BY ResultType, ZenonT(30) DEF IInv, TypeOK
<1>1. CASE UNCHANGED <<pool, wres, result, cur>>
  BY <1>0, <1>1, ZenonT(30) DEF BufferOwnership
<1>2. CASE getBuf(w)
  <2>1. \/ pool' = pool
        \/ pool # <<>> /\ pool' = Tail(pool)
    BY <1>2 DEF getBuf
  <2>2. PICK b \in {Head(pool)} \cup Fresh :
          /\ wres' = [wres EXCEPT ![w].buf = b]
          /\ b \in Fresh \/ (pool # <<>> /\ b = Head(pool) /\ pool' = Tail(pool))
    BY <1>2 DEF getBuf
  <2>3. \A i \in DOMAIN pool' : \E j \in DOMAIN pool : pool'[i] = pool[j]
    BY <1>0, <2>1, PoolReceive, ZenonT(30)
  <2>4. \A i, j \in DOMAIN pool' : pool'[i] = pool'[j] => i = j
    <3>1. CASE pool' = pool
      BY <1>0, <3>1, ZenonT(30) DEF BufferOwnership
    <3>2. CASE pool # <<>> /\ pool' = Tail(pool)
      <4> SUFFICES ASSUME NEW i \in DOMAIN pool', NEW j \in DOMAIN pool',
                          pool'[i] = pool'[j]
                   PROVE  i = j
        BY SMTT(60)
      <4>1. i \in Nat /\ j \in Nat
        BY ONLY <1>0, <3>2, SMT
      <4>2. /\ i + 1 \in DOMAIN pool /\ j + 1 \in DOMAIN pool
            /\ pool[i + 1] = pool[j + 1]
        BY <1>0, <3>2, PoolReceive, ZenonT(30)
      <4>3. i + 1 = j + 1
        BY <1>0, <4>2, SMTT(60) DEF BufferOwnership
      <4>4. QED
        BY <4>1, <4>3
    <3>3. QED
      BY <2>1, <3>1, <3>2
  <2>5. /\ b \in BufIds /\ b # cur
        /\ \A i \in DOMAIN pool' : pool'[i] # b
        /\ \A v \in Workers \ {w} : wres[v].buf # b
        /\ \A r \in Blocks : result[r].buf # b
    <3>1. CASE b \in Fresh
      BY <1>0, <2>3, <3>1, FreshUnheld, SMT
    <3>2. CASE pool # <<>> /\ b = Head(pool) /\ pool' = Tail(pool)
      <4>1. pool \in Seq(BufIds) /\ TypeOK /\ BufferOwnership
        BY <1>0
      <4>2. b \in BufIds
        BY <3>2, <4>1
      <4>3. b # NoBuf
        BY <4>2, ProcessAssumption DEF NoBuf
      <4>4. /\ b = pool[1] /\ 1 \in DOMAIN pool
            /\ \A i \in DOMAIN pool' : pool'[i] # b
        BY <3>2, <4>1, PoolReceive, ZenonT(30)
      <4>5. b # cur
        BY <4>1, <4>4, ZenonT(30) DEF BufferOwnership
      <4>6. \A v \in Workers \ {w} : wres[v].buf # b
        BY <4>1, <4>3, <4>4, ZenonT(30) DEF BufferOwnership
      <4>7. \A r \in Blocks : result[r].buf # b
        BY <4>1, <4>3, <4>4, ZenonT(30) DEF BufferOwnership
      <4>8. QED
        BY <4>2, <4>4, <4>5, <4>6, <4>7
    <3>3. QED
      BY ONLY <2>2, <3>1, <3>2, ZenonT(30)
  <2>6. cur' = cur /\ result' = result
    BY <1>2 DEF getBuf
  <2>7. QED
    BY <1>0, <2>2, <2>3, <2>4, <2>5, <2>6, WorkerTakes, ZenonT(30)
<1>3. CASE Fill(w)
  <2>1. PICK b \in BufIds : /\ wres' = [wres EXCEPT ![w].buf = b]
                            /\ b # cur
                            /\ \A i \in DOMAIN pool : pool[i] # b
                            /\ \A v \in Workers \ {w} : wres[v].buf # b
                            /\ \A r \in Blocks : result[r].buf # b
    BY <1>3, FillAlone
  <2>2. UNCHANGED <<pool, cur, result>>
    BY <1>3 DEF Fill
  <2>3. /\ \A i \in DOMAIN pool' : \E j \in DOMAIN pool : pool'[i] = pool[j]
        /\ \A i, j \in DOMAIN pool' : pool'[i] = pool'[j] => i = j
        /\ \A i \in DOMAIN pool' : pool'[i] # b
        /\ cur' = cur /\ result' = result
    BY <1>0, <2>1, <2>2 DEF BufferOwnership
  <2>4. QED
    BY <1>0, <2>1, <2>3, WorkerTakes, ZenonT(30)
<1>4. CASE DecodeOK(w)
  <2>1. \A v \in Workers : wres'[v].buf = wres[v].buf
    BY <1>0, <1>4, SMTT(60) DEF DecodeOK, Results
  <2>2. QED
    BY <1>0, <1>4, <2>1 DEF DecodeOK, BufferOwnership
<1>5. CASE DecodeFails(w)
  <2>1. wres'[w].buf = NoBuf /\ \A v \in Workers \ {w} : wres'[v] = wres[v]
    BY ONLY <1>0, <1>5, SMT DEF DecodeFails
  <2>2. pool' = putBuf(wres[w].buf) /\ cur' = cur /\ result' = result
    BY <1>5, SMTT(60) DEF DecodeFails
  <2>3. wres[w].buf # NoBuf => \A i \in DOMAIN pool : pool[i] # wres[w].buf
    BY <1>0, WorkerOwns, ZenonT(30)
  <2>4. /\ \A i, j \in DOMAIN pool' : pool'[i] = pool'[j] => i = j
        /\ \A x : /\ wres[w].buf # NoBuf => wres[w].buf # x
                  /\ \A j \in DOMAIN pool : pool[j] # x
                  => \A i \in DOMAIN pool' : pool'[i] # x
    BY <1>0, <2>2, <2>3, PoolTakes, ZenonT(30)
  <2>5. \A i \in DOMAIN pool' : pool'[i] # cur'
    BY <1>0, <2>2, <2>4, ZenonT(30) DEF BufferOwnership
  <2>6. ASSUME NEW v \in Workers, wres'[v].buf # NoBuf
        PROVE  /\ wres'[v].buf # cur'
               /\ \A i \in DOMAIN pool' : pool'[i] # wres'[v].buf
               /\ \A u \in Workers \ {v} : wres'[u].buf # wres'[v].buf
               /\ \A r \in Blocks : result'[r].buf # wres'[v].buf
    <3>1. v # w /\ wres'[v] = wres[v] /\ wres[v].buf # NoBuf
      BY <2>1, <2>6, ZenonT(30)
    <3>2. wres[w].buf # NoBuf => wres[w].buf # wres[v].buf
      BY <1>0, <3>1, WorkerOwns, ZenonT(30)
    <3>3. \A i \in DOMAIN pool' : pool'[i] # wres'[v].buf
      <4>1. \A i \in DOMAIN pool : pool[i] # wres[v].buf
        BY ONLY <1>0, <3>1, WorkerOwns, ZenonT(30)
      <4>2. QED
        BY <2>4, <3>1, <3>2, <4>1, ZenonT(30)
    <3>4. ASSUME NEW u \in Workers \ {v} PROVE wres'[u].buf # wres'[v].buf
      <4>1. CASE u = w
        BY <2>1, <2>6, <4>1, ZenonT(30)
      <4>2. CASE u # w
        BY ONLY <1>0, <2>1, <3>1, <4>2, WorkerOwns, SMT
      <4>3. QED
        BY <4>1, <4>2
    <3>5. wres[v].buf # cur /\ \A b \in Blocks : result[b].buf # wres[v].buf
      BY <1>0, <3>1, WorkerOwns
    <3>6. QED
      BY <2>2, <3>1, <3>3, <3>4, <3>5, ZenonT(30)
  <2>7. ASSUME NEW r \in Blocks, result'[r].buf # NoBuf
        PROVE  /\ result'[r].buf # cur'
               /\ \A i \in DOMAIN pool' : pool'[i] # result'[r].buf
               /\ \A c \in Blocks \ {r} : result'[c].buf # result'[r].buf
    <3>1. result'[r] = result[r] /\ result[r].buf # NoBuf
      BY <2>2, <2>7, SMT
    <3>2. wres[w].buf # NoBuf => wres[w].buf # result[r].buf
      BY <1>0, <3>1, WorkerOwns, ZenonT(30)
    <3>3. /\ result[r].buf # cur /\ \A i \in DOMAIN pool : pool[i] # result[r].buf
          /\ \A c \in Blocks \ {r} : result[c].buf # result[r].buf
      BY <1>0, <3>1, ResultOwns
    <3>4. \A i \in DOMAIN pool' : pool'[i] # result'[r].buf
      BY <2>4, <3>1, <3>2, <3>3, ZenonT(30)
    <3>5. QED
      BY <2>2, <3>1, <3>3, <3>4, ZenonT(30)
  <2>8. QED
    BY <2>4, <2>5, <2>6, <2>7, ZenonT(30) DEF BufferOwnership
<1>6. CASE Report(w)
  <2>1. wres'[w].buf = NoBuf /\ \A v \in Workers \ {w} : wres'[v] = wres[v]
    BY <1>0, <1>6, ZenonT(30) DEF Report, NoResult
  <2>2. /\ wblk[w] \in Blocks /\ result'[wblk[w]] = wres[w]
        /\ \A r \in Blocks \ {wblk[w]} : result'[r] = result[r]
    BY <1>0, <1>6, ZenonT(30) DEF Report, IInv, WorkerInv, WorkerOK, Busy
  <2>3. UNCHANGED <<pool, cur>>
    BY <1>6 DEF Report
  <2>4. ASSUME NEW v \in Workers, wres'[v].buf # NoBuf
        PROVE  /\ wres'[v].buf # cur'
               /\ \A i \in DOMAIN pool' : pool'[i] # wres'[v].buf
               /\ \A u \in Workers \ {v} : wres'[u].buf # wres'[v].buf
               /\ \A r \in Blocks : result'[r].buf # wres'[v].buf
    <3>1. v # w /\ wres'[v] = wres[v] /\ wres[v].buf # NoBuf
      BY <2>1, <2>4, ZenonT(30)
    <3>2. ASSUME NEW u \in Workers \ {v} PROVE wres'[u].buf # wres'[v].buf
      <4>1. CASE u = w
        BY <2>1, <2>4, <4>1, ZenonT(30)
      <4>2. CASE u # w
        BY <1>0, <2>1, <3>1, <4>2, WorkerOwns
      <4>3. QED
        BY <4>1, <4>2
    <3>3. ASSUME NEW r \in Blocks PROVE result'[r].buf # wres'[v].buf
      <4>1. CASE r = wblk[w]
        BY ONLY <1>0, <2>2, <3>1, <4>1, WorkerOwns, SMT
      <4>2. CASE r # wblk[w]
        BY ONLY <1>0, <2>2, <3>1, <4>2, WorkerOwns, SMT
      <4>3. QED
        BY <4>1, <4>2, ZenonT(30)
    <3>4. wres[v].buf # cur /\ \A i \in DOMAIN pool : pool[i] # wres[v].buf
      BY <1>0, <3>1, WorkerOwns
    <3>5. QED
      BY <2>3, <3>1, <3>2, <3>3, <3>4, ZenonT(30)
  <2>5. ASSUME NEW r \in Blocks, result'[r].buf # NoBuf
        PROVE  /\ result'[r].buf # cur'
               /\ \A i \in DOMAIN pool' : pool'[i] # result'[r].buf
               /\ \A c \in Blocks \ {r} : result'[c].buf # result'[r].buf
    <3>1. CASE r = wblk[w]
      <4>1. result'[r] = wres[w] /\ wres[w].buf # NoBuf
        BY <2>2, <2>5, <3>1, ZenonT(30)
      <4>2. ASSUME NEW c \in Blocks \ {r} PROVE result'[c].buf # result'[r].buf
        <5>1. result'[c] = result[c]
          BY <2>2, <3>1, ZenonT(30)
        <5>2. result[c].buf # wres[w].buf
          BY <1>0, <4>1, WorkerOwns, ZenonT(30)
        <5>3. QED
          BY <4>1, <5>1, <5>2, ZenonT(30)
      <4>3. wres[w].buf # cur /\ \A i \in DOMAIN pool : pool[i] # wres[w].buf
        BY <1>0, <4>1, WorkerOwns
      <4>4. QED
        BY <2>3, <4>1, <4>2, <4>3, ZenonT(30)
    <3>2. CASE r # wblk[w]
      <4>1. result'[r] = result[r] /\ result[r].buf # NoBuf
        BY <2>2, <2>5, <3>2, ZenonT(30)
      <4>2. wres[w].buf # result[r].buf
        BY <1>0, <4>1, WorkerOwns, ZenonT(30)
      <4>3. ASSUME NEW c \in Blocks \ {r} PROVE result'[c].buf # result'[r].buf
        <5>1. CASE c = wblk[w]
          BY <2>2, <4>1, <4>2, <5>1, ZenonT(30)
        <5>2. CASE c # wblk[w]
          BY <1>0, <2>2, <4>1, <5>2, ResultOwns, ZenonT(30)
        <5>3. QED
          BY <5>1, <5>2
      <4>4. result[r].buf # cur /\ \A i \in DOMAIN pool : pool[i] # result[r].buf
        BY <1>0, <4>1, ResultOwns, ZenonT(30)
      <4>5. QED
        BY <2>3, <4>1, <4>3, <4>4, ZenonT(30)
    <3>3. QED
      BY <3>1, <3>2, ZenonT(30)
  <2>6. QED
    BY <1>0, <2>3, <2>4, <2>5, ZenonT(30) DEF BufferOwnership
<1>7. QED
  BY <1>1, <1>2, <1>3, <1>4, <1>5, <1>6
     DEF WorkerStep, DecodeStep, Handoff, ReadHeader, WorkerExit

(* Buffers have one owner: the consumer takes and returns whole ownership. *)
LEMMA OwnershipStep == IInv /\ [Next]_vars => BufferOwnership'
<1> SUFFICES ASSUME IInv, [Next]_vars
             PROVE  BufferOwnership'
  OBVIOUS
<1>0. /\ TypeOK /\ BufferOwnership /\ result \in [Blocks -> Results]
      /\ pool \in Seq(BufIds) /\ cur \in BufIds \cup {NoBuf}
  BY SMTT(60) DEF IInv, TypeOK
<1>1. CASE UNCHANGED <<pool, wres, result, cur>>
  BY <1>0, <1>1, ZenonT(30) DEF BufferOwnership
<1>2. CASE RetireCurrent
  <2>1. pool' = putBuf(cur) /\ cur' = NoBuf /\ wres' = wres /\ result' = result
    BY <1>2 DEF RetireCurrent
  <2>2. \A i \in DOMAIN pool : pool[i] # cur
    BY <1>0, ZenonT(30) DEF BufferOwnership
  <2>3. /\ \A i, j \in DOMAIN pool' : pool'[i] = pool'[j] => i = j
        /\ \A x : /\ cur # NoBuf => cur # x
                  /\ \A j \in DOMAIN pool : pool[j] # x
                  => \A i \in DOMAIN pool' : pool'[i] # x
    BY <1>0, <2>1, <2>2, PoolTakes, ZenonT(30)
  <2>4. \A j \in DOMAIN pool : pool[j] # NoBuf
    BY <1>0, ProcessAssumption DEF NoBuf
  <2>5. \A i \in DOMAIN pool' : pool'[i] # cur'
    BY <2>1, <2>3, <2>4, ZenonT(30)
  <2>6. ASSUME NEW v \in Workers, wres'[v].buf # NoBuf
        PROVE  /\ wres'[v].buf # cur'
               /\ \A i \in DOMAIN pool' : pool'[i] # wres'[v].buf
               /\ \A u \in Workers \ {v} : wres'[u].buf # wres'[v].buf
               /\ \A r \in Blocks : result'[r].buf # wres'[v].buf
    <3>1. wres'[v].buf = wres[v].buf /\ wres[v].buf # NoBuf
      BY <2>1, <2>6, ZenonT(30)
    <3>2. \A i \in DOMAIN pool' : pool'[i] # wres[v].buf
      BY <1>0, <2>3, <3>1, ZenonT(30) DEF BufferOwnership
    <3>3. QED
      BY <1>0, <2>1, <3>1, <3>2, ZenonT(30) DEF BufferOwnership
  <2>7. ASSUME NEW r \in Blocks, result'[r].buf # NoBuf
        PROVE  /\ result'[r].buf # cur'
               /\ \A i \in DOMAIN pool' : pool'[i] # result'[r].buf
               /\ \A c \in Blocks \ {r} : result'[c].buf # result'[r].buf
    <3>1. result'[r].buf = result[r].buf /\ result[r].buf # NoBuf
      BY <2>1, <2>7, ZenonT(30)
    <3>2. \A i \in DOMAIN pool' : pool'[i] # result[r].buf
      BY <1>0, <2>3, <3>1, ZenonT(30) DEF BufferOwnership
    <3>3. QED
      BY <1>0, <2>1, <3>1, <3>2, ZenonT(30) DEF BufferOwnership
  <2>8. QED
    BY <2>3, <2>5, <2>6, <2>7, ZenonT(30) DEF BufferOwnership
<1>3. CASE RecvResult
  <2>1. cur = NoBuf /\ rblk \in Blocks /\ ResultOK(rblk)
    BY <1>3, ZenonT(30) DEF RecvResult, IInv, PositionInv, ResultInv
  <2>2. CASE /\ result' = [result EXCEPT ![rblk] = NoResult]
             /\ cur' = cur \/ (cur' = result[rblk].buf /\ result[rblk].err = Nil)
    <3>1. result'[rblk].buf = NoBuf /\ \A r \in Blocks \ {rblk} : result'[r] = result[r]
      BY <1>0, <2>1, <2>2, ZenonT(30) DEF NoResult
    <3>2. cur' = cur \/ (cur' = result[rblk].buf /\ cur' # NoBuf)
      BY ONLY <2>1, <2>2, ZenonT(30) DEF ResultOK
    <3>3. UNCHANGED <<pool, wres>>
      BY <1>3 DEF RecvResult
    <3>4. \A i \in DOMAIN pool' : pool'[i] # cur'
      BY <1>0, <2>1, <3>2, <3>3, ZenonT(30) DEF BufferOwnership
    <3>5. ASSUME NEW v \in Workers, wres'[v].buf # NoBuf
          PROVE  /\ wres'[v].buf # cur'
                 /\ \A i \in DOMAIN pool' : pool'[i] # wres'[v].buf
                 /\ \A u \in Workers \ {v} : wres'[u].buf # wres'[v].buf
                 /\ \A r \in Blocks : result'[r].buf # wres'[v].buf
      <4>1. wres'[v].buf # cur'
        BY <1>0, <2>1, <3>2, <3>3, <3>5, ZenonT(30) DEF BufferOwnership
      <4>2. \A r \in Blocks : result'[r].buf # wres'[v].buf
        BY ONLY <1>0, <3>1, <3>3, <3>5, SMT DEF BufferOwnership
      <4>3. QED
        BY <1>0, <3>3, <3>5, <4>1, <4>2, ZenonT(30) DEF BufferOwnership
    <3>6. ASSUME NEW r \in Blocks, result'[r].buf # NoBuf
          PROVE  /\ result'[r].buf # cur'
                 /\ \A i \in DOMAIN pool' : pool'[i] # result'[r].buf
                 /\ \A c \in Blocks \ {r} : result'[c].buf # result'[r].buf
      <4>1. r # rblk /\ result'[r] = result[r] /\ result[r].buf # NoBuf
        BY <3>1, <3>6, ZenonT(30)
      <4>2. result'[r].buf # cur'
        BY <1>0, <2>1, <3>2, <4>1, ZenonT(30) DEF BufferOwnership
      <4>3. \A c \in Blocks \ {r} : result'[c].buf # result'[r].buf
        BY <1>0, <3>1, <4>1, SMTT(60) DEF BufferOwnership
      <4>4. QED
        BY <1>0, <3>3, <4>1, <4>2, <4>3, ZenonT(30) DEF BufferOwnership
    <3>7. \A i, j \in DOMAIN pool' : pool'[i] = pool'[j] => i = j
      BY <1>0, <3>3, ZenonT(30) DEF BufferOwnership
    <3>8. QED
      BY <3>4, <3>5, <3>6, <3>7, ZenonT(30) DEF BufferOwnership
  <2>3. CASE UNCHANGED <<result, cur>>
    BY <1>1, <1>3, <2>3, SMTT(60) DEF RecvResult
  <2>4. QED
    BY <1>3, <2>2, <2>3 DEF RecvResult
<1>4. CASE ConsumerStep /\ ~RetireCurrent /\ ~RecvResult
  BY <1>1, <1>4, ZenonT(30) DEF ConsumerStep, ReadCopy, ReadReturn, WriteToWrite, RecvQueue,
     StopOnError, SetErrReturn
<1>5. CASE DispatcherStep
  BY ONLY <1>1, <1>5, SMT DEF DispatcherStep, Enqueue, HandoffCancelled, EndDispatch
<1>6. CASE (\E c \in Closers : CloseStop(c) \/ CloserStep(c)) \/ Abandon \/ Cleanup
  BY <1>1, <1>6, ZenonT(30) DEF CloserStep, CloseStop, CloseLock, CloseWait, Abandon, Cleanup
<1>7. QED
  BY <1>1, <1>2, <1>3, <1>4, <1>5, <1>6, CallBegins, OwnershipWorker, ZenonT(30) DEF Next, Call
=============================================================================
