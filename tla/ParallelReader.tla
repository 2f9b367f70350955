--------------------------- MODULE ParallelReader ---------------------------
(***************************************************************************)
(* The concurrent xz reader of parallelreader.go, after the index has been *)
(* parsed: a dispatcher goroutine hands the blocks of the file, in order,  *)
(* to decode workers over the unbuffered channel jobs and, in the same     *)
(* order, to the consumer over the bounded channel queue.  The consumer (a *)
(* goroutine inside Read or WriteTo) takes the blocks off queue and waits  *)
(* for each block's own result channel.  Close may run in any other        *)
(* goroutine.  Decode buffers travel from worker to result to consumer and *)
(* back to the workers through bufPool.                                    *)
(*                                                                         *)
(* Data: the bytes of the uncompressed stream are numbered from 1.  Block  *)
(* b holds the bytes Offset[b]+1 .. Offset[b+1].  A buffer's content is    *)
(* the block whose bytes were last decoded into it.                        *)
(***************************************************************************)
EXTENDS Naturals, Sequences, FiniteSets

CONSTANTS
  Workers,    (* the decode goroutines                                     *)
  NBlocks,    (* the number of blocks the index lists                      *)
  Offset,     (* where each block starts in the uncompressed stream        *)
  Faulty,     (* the blocks whose decoding may fail                        *)
  Large,      (* the blocks that a buffer at hand may be too small for     *)
  Closers,    (* goroutines that call Close, once each                     *)
  MaxRead,    (* bound: the largest len(p) of a Read                       *)
  BufIds,     (* the buffers make() can return                             *)
  WriteErrs,  (* what the caller's writer may fail with                    *)
  MayAbandon  (* whether the caller may drop its reference without Close   *)

Blocks == 1 .. NBlocks

ASSUME BlocksAssumption ==
  /\ NBlocks \in Nat
  /\ Offset \in [1 .. NBlocks + 1 -> Nat]
  /\ Offset[1] = 0
  /\ \A a, b \in 1 .. NBlocks + 1 : a <= b => Offset[a] <= Offset[b]

ASSUME ProcessAssumption ==
  /\ IsFiniteSet(Workers) /\ Workers # {}
  /\ Faulty \subseteq Blocks /\ Large \subseteq Blocks
  /\ WriteErrs \subseteq {"write", "writeEOF"}
  /\ MaxRead \in Nat
  /\ BufIds \subseteq Nat \ {0}
  /\ MayAbandon \in BOOLEAN

Size(b) == Offset[b + 1] - Offset[b]
Total == Offset[NBlocks + 1]

(* Errors.  DecodeErrs are what decodeOne reports; io.EOF among them is a  *)
(* block cut short, which nextBlock turns into io.ErrUnexpectedEOF.        *)
(* "writeEOF" is an io.EOF that came from the caller's writer.             *)
Nil == "nil"
DecodeErrs == {"corrupt", "EOF"}
FaultErrs == {"corrupt", "unexpectedEOF"}
WriterErrs == {"write", "shortWrite"}
Errors == FaultErrs \cup WriterErrs \cup {"EOF", "closed"}

NoBuf == 0
NoBlock == 0
NoResult == [err |-> "none", buf |-> NoBuf]
Results == [err : DecodeErrs \cup {"none", Nil}, buf : BufIds \cup {NoBuf}]

(* Mutant: queue one block deeper than the pipeline needs.                 *)
QueueCapDeeper == Cardinality(Workers) + 3

(* start: queue and pool capacities, lines 553 and 556.                    *)
QueueCap == Cardinality(Workers) + 2
PoolCap == QueueCap + 1

VARIABLES
  err, started,                    (* ParallelReader fields under mu       *)
  done,                            (* the channel done has been closed     *)
  disp, next,                      (* dispatcher: control, block in hand   *)
  queue,                           (* channel queue                        *)
  wpc, wblk, wres,                 (* workers: control, block, result      *)
  result,                          (* the result channel of each block     *)
  pool, content,                   (* channel bufPool; what buffers hold   *)
  rpc, op, want,                   (* consumer: control, call, bytes left  *)
  rblk, cur, curPos, rerr,         (* block taken, current buffer, error   *)
  out, ret,                        (* bytes delivered, last call's answer  *)
  cpc,                             (* control of each Close                *)
  abandoned,                       (* the reader has become unreachable    *)
  failed                           (* history: blocks reported as failed   *)

dispVars == <<disp, next>>
workVars == <<wpc, wblk, wres>>
bufVars  == <<pool, content>>
callVars == <<rpc, op, want, rerr, ret>>
curVars  == <<rblk, cur, curPos>>
vars == <<err, started, done, dispVars, queue, workVars, result, bufVars,
          callVars, curVars, out, cpc, abandoned, failed>>

(* dispatch closes jobs, then queue, on every exit path (deferred calls).  *)
JobsClosed == disp \in {"closeQueue", "exited"}
QueueClosed == disp = "exited"

LiveBufs == ({pool[i] : i \in DOMAIN pool} \cup {wres[w].buf : w \in Workers}
             \cup {result[b].buf : b \in Blocks} \cup {cur}) \ {NoBuf}

(* The buffer make() returns: one nobody holds.                            *)
Fresh == {b \in BufIds \ LiveBufs : \A c \in BufIds \ LiveBufs : b <= c}

(* putBuf: a full pool drops the buffer, and nil is ignored.               *)
putBuf(b) == IF b # NoBuf /\ Len(pool) < PoolCap THEN Append(pool, b) ELSE pool

Init ==
  /\ err = Nil /\ started = FALSE /\ done = FALSE
  /\ disp = "off" /\ next = 1 /\ queue = <<>>
  /\ wpc = [w \in Workers |-> "off"]
  /\ wblk = [w \in Workers |-> NoBlock]
  /\ wres = [w \in Workers |-> NoResult]
  /\ result = [b \in Blocks |-> NoResult]
  /\ pool = <<>> /\ content = [b \in BufIds |-> NoBlock]
  /\ rpc = "idle" /\ op = "none" /\ want = 0
  /\ rblk = NoBlock /\ cur = NoBuf /\ curPos = 0 /\ rerr = Nil
  /\ out = <<>> /\ ret = <<"none", Nil>>
  /\ cpc = [c \in Closers |-> "idle"]
  /\ abandoned = FALSE /\ failed = {}
-----------------------------------------------------------------------------
(* The dispatcher goroutine.                                               *)

(* Mutant: a plain send, which does not watch done.                        *)
EnqueueWaits ==
  /\ disp = "enqueue" /\ next \in Blocks
  /\ Len(queue) < QueueCap
  /\ queue' = Append(queue, next) /\ disp' = "handoff"
  /\ UNCHANGED <<err, started, done, next, workVars, result, bufVars,
                 callVars, curVars, out, cpc, abandoned, failed>>

(* The head of the loop: the next block goes on queue, or done ends it.    *)
Enqueue ==
  /\ disp = "enqueue" /\ next \in Blocks
  /\ \/ /\ Len(queue) < QueueCap
        /\ queue' = Append(queue, next)
        /\ disp' = "handoff"
     \/ /\ done
        /\ disp' = "closeJobs"
        /\ UNCHANGED queue
  /\ UNCHANGED <<err, started, done, next, workVars, result, bufVars,
                 callVars, curVars, out, cpc, abandoned, failed>>

(* Mutant: the block number is advanced twice.                             *)
HandoffSkips(w) ==
  /\ disp = "handoff" /\ wpc[w] = "idle"
  /\ disp' = "enqueue" /\ next' = next + 2
  /\ wpc' = [wpc EXCEPT ![w] = "header"]
  /\ wblk' = [wblk EXCEPT ![w] = next]
  /\ UNCHANGED <<err, started, done, queue, wres, result, bufVars,
                 callVars, curVars, out, cpc, abandoned, failed>>

(* jobs is unbuffered: the send meets a worker waiting in its range loop.  *)
Handoff(w) ==
  /\ disp = "handoff" /\ wpc[w] = "idle"
  /\ disp' = "enqueue" /\ next' = next + 1
  /\ wpc' = [wpc EXCEPT ![w] = "header"]
  /\ wblk' = [wblk EXCEPT ![w] = next]
  /\ UNCHANGED <<err, started, done, queue, wres, result, bufVars,
                 callVars, curVars, out, cpc, abandoned, failed>>

HandoffCancelled ==
  /\ disp = "handoff" /\ done
  /\ disp' = "closeJobs"
  /\ UNCHANGED <<err, started, done, next, queue, workVars, result, bufVars,
                 callVars, curVars, out, cpc, abandoned, failed>>

(* The end of the loop, and the two deferred closes.                       *)
EndDispatch ==
  /\ \/ disp = "enqueue" /\ next \notin Blocks /\ disp' = "closeJobs"
     \/ disp = "closeJobs" /\ disp' = "closeQueue"
     \/ disp = "closeQueue" /\ disp' = "exited"
  /\ UNCHANGED <<err, started, done, next, queue, workVars, result, bufVars,
                 callVars, curVars, out, cpc, abandoned, failed>>
-----------------------------------------------------------------------------
(* The decode workers.                                                     *)

(* decodeBlock: the block header is read from the source and agrees with   *)
(* the index.                                                              *)
ReadHeader(w) ==
  /\ wpc[w] = "header"
  /\ wpc' = [wpc EXCEPT ![w] = "getBuf"]
  /\ UNCHANGED <<err, started, done, dispVars, queue, wblk, wres, result,
                 bufVars, callVars, curVars, out, cpc, abandoned, failed>>

(* getBuf: a pooled buffer if it is large enough; one that is too small is *)
(* dropped and a new one made.                                             *)
getBuf(w) ==
  /\ wpc[w] = "getBuf"
  /\ wpc' = [wpc EXCEPT ![w] = "fill"]
  /\ \/ /\ pool # <<>>
        /\ pool' = Tail(pool)
        /\ \E b \in {Head(pool)} \cup Fresh :
             /\ b # Head(pool) => wblk[w] \in Large
             /\ wres' = [wres EXCEPT ![w].buf = b]
     \/ /\ pool = <<>>
        /\ \E b \in Fresh : wres' = [wres EXCEPT ![w].buf = b]
        /\ UNCHANGED pool
  /\ UNCHANGED <<err, started, done, dispVars, queue, wblk, result, content,
                 callVars, curVars, out, cpc, abandoned, failed>>

(* The decode loop: the block's bytes end up in the buffer, or, when that  *)
(* has to grow, in a new one that replaces it.                             *)
Fill(w) ==
  /\ wpc[w] = "fill"
  /\ wpc' = [wpc EXCEPT ![w] = "check"]
  /\ \E b \in {wres[w].buf} \cup Fresh :
        /\ b # wres[w].buf => wblk[w] \in Large
        /\ wres' = [wres EXCEPT ![w].buf = b]
        /\ content' = [content EXCEPT ![b] = wblk[w]]
  /\ UNCHANGED <<err, started, done, dispVars, queue, wblk, result, pool,
                 callVars, curVars, out, cpc, abandoned, failed>>

(* Mutant: the buffer returns to the pool on success too (defer putBuf).   *)
DecodeOKRecycles(w) ==
  /\ wpc[w] = "check"
  /\ wpc' = [wpc EXCEPT ![w] = "report"]
  /\ wres' = [wres EXCEPT ![w].err = Nil]
  /\ pool' = putBuf(wres[w].buf)
  /\ UNCHANGED <<err, started, done, dispVars, queue, wblk, result, content,
                 callVars, curVars, out, cpc, abandoned, failed>>

(* The last Read verifies padding and check; record() matches the index.   *)
DecodeOK(w) ==
  /\ wpc[w] = "check"
  /\ wpc' = [wpc EXCEPT ![w] = "report"]
  /\ wres' = [wres EXCEPT ![w].err = Nil]
  /\ UNCHANGED <<err, started, done, dispVars, queue, wblk, result, bufVars,
                 callVars, curVars, out, cpc, abandoned, failed>>

(* decodeOne's error and panic paths: the buffer goes back to the pool and *)
(* the result carries only the error.                                      *)
DecodeFails(w) ==
  /\ wpc[w] \in {"header", "fill", "check"} /\ wblk[w] \in Faulty
  /\ wpc' = [wpc EXCEPT ![w] = "report"]
  /\ \E e \in DecodeErrs : wres' = [wres EXCEPT ![w] = [err |-> e, buf |-> NoBuf]]
  /\ pool' = putBuf(wres[w].buf)
  /\ failed' = failed \cup {wblk[w]}
  /\ UNCHANGED <<err, started, done, dispVars, queue, wblk, result, content,
                 callVars, curVars, out, cpc, abandoned>>

(* w.result <- ...: the result channel has room for its one result.        *)
Report(w) ==
  /\ wpc[w] = "report"
  /\ wpc' = [wpc EXCEPT ![w] = "idle"]
  /\ result' = [result EXCEPT ![wblk[w]] = wres[w]]
  /\ wres' = [wres EXCEPT ![w] = NoResult]
  /\ wblk' = [wblk EXCEPT ![w] = NoBlock]
  /\ UNCHANGED <<err, started, done, dispVars, queue, bufVars,
                 callVars, curVars, out, cpc, abandoned, failed>>

(* The range over jobs ends and workers.Done runs.                         *)
WorkerExit(w) ==
  /\ wpc[w] = "idle" /\ JobsClosed
  /\ wpc' = [wpc EXCEPT ![w] = "exited"]
  /\ UNCHANGED <<err, started, done, dispVars, queue, wblk, wres, result,
                 bufVars, callVars, curVars, out, cpc, abandoned, failed>>
-----------------------------------------------------------------------------
(* The consumer: Read and WriteTo.                                         *)

(* start: the dispatcher and the workers, their channels empty.            *)
start == disp' = "enqueue" /\ wpc' = [w \in Workers |-> "idle"]

(* begin, under mu: a recorded error is reported, the first call starts    *)
(* the dispatcher and the workers.                                         *)
begin(o, n) ==
  \/ /\ err # Nil
     /\ ret' = <<o, IF o = "WriteTo" /\ err = "EOF" THEN Nil ELSE err>>
     /\ UNCHANGED <<started, disp, wpc, rpc, op, want>>
  \/ /\ err = Nil
     /\ started' = TRUE
     /\ IF started THEN UNCHANGED <<disp, wpc>> ELSE start
     /\ rpc' = "loop" /\ op' = o /\ want' = n
     /\ UNCHANGED ret

Read(n) ==
  /\ rpc = "idle" /\ ~abandoned
  /\ begin("Read", n)
  /\ UNCHANGED <<err, done, next, queue, wblk, wres, result, bufVars, rerr,
                 curVars, out, cpc, abandoned, failed>>

WriteTo ==
  /\ rpc = "idle" /\ ~abandoned
  /\ begin("WriteTo", 0)
  /\ UNCHANGED <<err, done, next, queue, wblk, wres, result, bufVars, rerr,
                 curVars, out, cpc, abandoned, failed>>

CurLen == IF cur = NoBuf THEN 0 ELSE Size(rblk)

(* k bytes of the current buffer, whatever it holds now, reach the caller. *)
Deliver(k) ==
  /\ out' = out \o [i \in 1 .. k |-> Offset[content[cur]] + curPos + i]
  /\ curPos' = curPos + k

ReadCopy ==
  /\ rpc = "loop" /\ op = "Read" /\ want > 0 /\ curPos # CurLen
  /\ LET k == IF want < CurLen - curPos THEN want ELSE CurLen - curPos
     IN  Deliver(k) /\ want' = want - k
  /\ UNCHANGED <<err, started, done, dispVars, queue, workVars, result,
                 bufVars, rpc, op, rerr, ret, rblk, cur, cpc, abandoned, failed>>

ReadReturn ==
  /\ rpc = "loop" /\ op = "Read" /\ want = 0
  /\ rpc' = "idle" /\ op' = "none" /\ ret' = <<"Read", Nil>>
  /\ UNCHANGED <<err, started, done, dispVars, queue, workVars, result,
                 bufVars, want, rerr, curVars, out, cpc, abandoned, failed>>

(* WriteTo hands the rest of the buffer to the writer, which takes k bytes *)
(* and may fail; taking nothing without an error is io.ErrShortWrite.      *)
WriteToWrite ==
  /\ rpc = "loop" /\ op = "WriteTo" /\ curPos # CurLen
  /\ \E k \in 0 .. CurLen - curPos, e \in WriteErrs \cup {Nil} :
       /\ Deliver(k)
       /\ rerr' = IF e = Nil /\ k = 0 THEN "shortWrite" ELSE e
       /\ rpc' = IF rerr' = Nil THEN "loop" ELSE "stop"
  /\ UNCHANGED <<err, started, done, dispVars, queue, workVars, result,
                 bufVars, op, want, ret, rblk, cur, cpc, abandoned, failed>>

(* Mutant: the retired buffer is still the current one.                    *)
RetireKeepsCurrent ==
  /\ rpc = "loop" /\ (op = "WriteTo" \/ want > 0) /\ curPos = CurLen
  /\ pool' = putBuf(cur)
  /\ curPos' = 0
  /\ rpc' = "recvQueue"
  /\ UNCHANGED <<err, started, done, dispVars, queue, workVars, result,
                 content, op, want, rerr, ret, rblk, cur, out, cpc, abandoned, failed>>

(* nextBlock, first part: the finished buffer goes back to the pool.       *)
RetireCurrent ==
  /\ rpc = "loop" /\ (op = "WriteTo" \/ want > 0) /\ curPos = CurLen
  /\ pool' = putBuf(cur)
  /\ cur' = NoBuf /\ curPos' = 0
  /\ rpc' = "recvQueue"
  /\ UNCHANGED <<err, started, done, dispVars, queue, workVars, result,
                 content, op, want, rerr, ret, rblk, out, cpc, abandoned, failed>>

(* Mutant: only the first select of nextBlock watches done.                *)
RecvDoneFirstOnly == rpc = "recvQueue" /\ done /\ rerr' = "closed" /\ rpc' = "stop"

(* The done case of both selects of nextBlock.                             *)
RecvDone == done /\ rerr' = "closed" /\ rpc' = "stop"

(* Mutant: a block's io.EOF is passed on as it came.                       *)
ResultErrRaw(e) == e

(* A block result never ends the stream: only the closed queue does.       *)
ResultErr(e) == IF e = "EOF" THEN "unexpectedEOF" ELSE e

(* The first select of nextBlock.                                          *)
RecvQueue ==
  /\ rpc = "recvQueue"
  /\ \/ /\ queue # <<>>
        /\ rblk' = Head(queue) /\ queue' = Tail(queue)
        /\ rpc' = "recvResult"
        /\ UNCHANGED rerr
     \/ /\ queue = <<>> /\ QueueClosed
        /\ rerr' = "EOF" /\ rpc' = "setErr"
        /\ UNCHANGED <<queue, rblk>>
     \/ RecvDone /\ UNCHANGED <<queue, rblk>>
  /\ UNCHANGED <<err, started, done, dispVars, workVars, result, bufVars,
                 op, want, ret, cur, curPos, out, cpc, abandoned, failed>>

(* The second select of nextBlock.                                         *)
RecvResult ==
  /\ rpc = "recvResult"
  /\ \/ /\ result[rblk] # NoResult
        /\ result' = [result EXCEPT ![rblk] = NoResult]
        /\ LET res == result[rblk] IN
           IF res.err = Nil
           THEN cur' = res.buf /\ rpc' = "loop" /\ UNCHANGED rerr
           ELSE rerr' = ResultErr(res.err) /\ rpc' = "stop" /\ UNCHANGED cur
     \/ RecvDone /\ UNCHANGED <<result, cur>>
  /\ UNCHANGED <<err, started, done, dispVars, queue, workVars, bufVars,
                 op, want, ret, rblk, curPos, out, cpc, abandoned, failed>>

(* Any error but io.EOF stops the pipeline before it is recorded.          *)
StopOnError ==
  /\ rpc = "stop"
  /\ done' = TRUE /\ rpc' = "setErr"
  /\ UNCHANGED <<err, started, dispVars, queue, workVars, result, bufVars,
                 op, want, rerr, ret, curVars, out, cpc, abandoned, failed>>

(* What r.err holds: an io.EOF says nothing of where it came from.         *)
Recorded(e) == IF e = "writeEOF" THEN "EOF" ELSE e

(* setErr, under mu, and the return: the first error stays and is what     *)
(* Read reports; WriteTo ignores setErr's answer at nextBlock's io.EOF.    *)
SetErrReturn ==
  /\ rpc = "setErr"
  /\ err' = IF err = Nil THEN Recorded(rerr) ELSE err
  /\ ret' = <<op, IF op = "WriteTo" /\ rerr = "EOF" THEN Nil ELSE err'>>
  /\ rpc' = "idle" /\ op' = "none" /\ want' = 0 /\ rerr' = Nil
  /\ UNCHANGED <<started, done, dispVars, queue, workVars, result, bufVars,
                 curVars, out, cpc, abandoned, failed>>
-----------------------------------------------------------------------------
(* Close, from any goroutine.                                              *)
CloseStop(c) ==
  /\ cpc[c] = "idle" /\ ~abandoned
  /\ done' = TRUE
  /\ cpc' = [cpc EXCEPT ![c] = "lock"]
  /\ UNCHANGED <<err, started, dispVars, queue, workVars, result, bufVars,
                 callVars, curVars, out, abandoned, failed>>

(* Mutant: Close does not wait for the workers.                            *)
CloseLockNoWait(c) ==
  /\ cpc[c] = "lock"
  /\ err' = IF err = Nil THEN "closed" ELSE err
  /\ cpc' = [cpc EXCEPT ![c] = "returned"]
  /\ UNCHANGED <<started, done, dispVars, queue, workVars, result, bufVars,
                 callVars, curVars, out, abandoned, failed>>

(* Under mu: the close is recorded unless the reader had finished.         *)
CloseLock(c) ==
  /\ cpc[c] = "lock"
  /\ err' = IF err = Nil THEN "closed" ELSE err
  /\ cpc' = [cpc EXCEPT ![c] = IF started THEN "wait" ELSE "returned"]
  /\ UNCHANGED <<started, done, dispVars, queue, workVars, result, bufVars,
                 callVars, curVars, out, abandoned, failed>>

CloseWait(c) ==
  /\ cpc[c] = "wait"
  /\ \A w \in Workers : wpc[w] = "exited"
  /\ cpc' = [cpc EXCEPT ![c] = "returned"]
  /\ UNCHANGED <<err, started, done, dispVars, queue, workVars, result,
                 bufVars, callVars, curVars, out, abandoned, failed>>

(* The caller drops its last reference outside any call; the cleanup that  *)
(* NewParallelReader registered then stops the decoder.                    *)
Abandon ==
  /\ MayAbandon /\ ~abandoned /\ rpc = "idle"
  /\ \A c \in Closers : cpc[c] \in {"idle", "returned"}
  /\ abandoned' = TRUE
  /\ UNCHANGED <<err, started, done, dispVars, queue, workVars, result,
                 bufVars, callVars, curVars, out, cpc, failed>>

(* Mutant: no cleanup was registered.                                      *)
CleanupMissing == FALSE /\ UNCHANGED vars

Cleanup ==
  /\ abandoned /\ ~done
  /\ done' = TRUE
  /\ UNCHANGED <<err, started, dispVars, queue, workVars, result, bufVars,
                 callVars, curVars, out, cpc, abandoned, failed>>
-----------------------------------------------------------------------------
DispatcherStep == Enqueue \/ HandoffCancelled \/ EndDispatch
DecodeStep(w) == ReadHeader(w) \/ getBuf(w) \/ Fill(w) \/ DecodeOK(w)
                 \/ DecodeFails(w) \/ Report(w)
WorkerStep(w) == DecodeStep(w) \/ Handoff(w) \/ WorkerExit(w)
ConsumerStep == ReadCopy \/ ReadReturn \/ WriteToWrite \/ RetireCurrent
                \/ RecvQueue \/ RecvResult \/ StopOnError \/ SetErrReturn
CloserStep(c) == CloseLock(c) \/ CloseWait(c)

Next ==
  \/ DispatcherStep
  \/ \E w \in Workers : WorkerStep(w)
  \/ ConsumerStep
  \/ \E n \in 0 .. MaxRead : Read(n)
  \/ WriteTo
  \/ \E c \in Closers : CloseStop(c) \/ CloserStep(c)
  \/ Abandon \/ Cleanup

(* Every goroutine that can take a step eventually does; nobody is obliged *)
(* to call Read, WriteTo or Close, or to abandon the reader.               *)
Fairness ==
  /\ WF_vars(DispatcherStep)
  /\ \A w \in Workers : WF_vars(WorkerStep(w))
  /\ WF_vars(ConsumerStep)
  /\ \A c \in Closers : WF_vars(CloserStep(c))
  /\ WF_vars(Cleanup)

Spec == Init /\ [][Next]_vars
FairSpec == Spec /\ Fairness
-----------------------------------------------------------------------------
TypeOK ==
  /\ err \in Errors \cup {Nil} /\ started \in BOOLEAN /\ done \in BOOLEAN
  /\ disp \in {"off", "enqueue", "handoff", "closeJobs", "closeQueue", "exited"}
  /\ next \in 1 .. NBlocks + 1
  /\ queue \in Seq(Blocks)
  /\ wpc \in [Workers -> {"off", "idle", "header", "getBuf", "fill", "check",
                          "report", "exited"}]
  /\ wblk \in [Workers -> Blocks \cup {NoBlock}]
  /\ wres \in [Workers -> Results]
  /\ result \in [Blocks -> Results]
  /\ pool \in Seq(BufIds)
  /\ content \in [BufIds -> Blocks \cup {NoBlock}]
  /\ rpc \in {"idle", "loop", "recvQueue", "recvResult", "stop", "setErr"}
  /\ op \in {"none", "Read", "WriteTo"} /\ want \in 0 .. MaxRead
  /\ rblk \in Blocks \cup {NoBlock} /\ cur \in BufIds \cup {NoBuf} /\ curPos \in Nat
  /\ rerr \in Errors \cup {Nil, "writeEOF"}
  /\ out \in Seq(Nat)
  /\ ret \in {"none", "Read", "WriteTo"} \X (Errors \cup {Nil})
  /\ cpc \in [Closers -> {"idle", "lock", "wait", "returned"}]
  /\ abandoned \in BOOLEAN /\ failed \subseteq Faulty

(* What the caller has received is the uncompressed stream from its start: *)
(* the i-th byte delivered is byte i, however the workers interleave and   *)
(* whichever buffers they recycle.                                         *)
InOrder == \A i \in 1 .. Len(out) : out[i] = i

(* nextBlock "returns io.EOF after the last block": a Read that reports    *)
(* io.EOF, and a WriteTo that reports success, have delivered everything.  *)
CleanEndIsComplete ==
  ret \in {<<"Read", "EOF">>, <<"WriteTo", Nil>>} => Len(out) = Total

(* Read and WriteTo together keep the contract of a sequential reader:     *)
(* the first error is final, io.EOF means complete, and a failing block is *)
(* reported in its place even when a later block failed before it.         *)
Contract == INSTANCE DeliveryContract WITH
  sent <- Len(out), outcome <- err,
  FaultOffsets <- {Offset[b] : b \in Faulty},
  CallerErrs <- WriterErrs \cup {"closed"}
MeetsContract == Contract!Spec

(* A decode buffer has one owner: a pool slot, a worker, an undelivered    *)
(* result or the consumer.                                                 *)
BufferOwnership ==
  /\ \A i, j \in DOMAIN pool : pool[i] = pool[j] => i = j
  /\ \A i \in DOMAIN pool : pool[i] # cur
  /\ \A w \in Workers : wres[w].buf # NoBuf =>
       /\ wres[w].buf # cur
       /\ \A i \in DOMAIN pool : pool[i] # wres[w].buf
       /\ \A v \in Workers \ {w} : wres[v].buf # wres[w].buf
       /\ \A b \in Blocks : result[b].buf # wres[w].buf
  /\ \A b \in Blocks : result[b].buf # NoBuf =>
       /\ result[b].buf # cur
       /\ \A i \in DOMAIN pool : pool[i] # result[b].buf
       /\ \A c \in Blocks \ {b} : result[c].buf # result[b].buf

(* Memory in flight is bounded however far the workers run ahead of the    *)
(* consumer: one buffer per block that queue admits, and the one being     *)
(* read; recycled buffers are counted.                                     *)
BuffersBounded == Cardinality(LiveBufs) <= Cardinality(Workers) + 3

Quiet == \A w \in Workers : wpc[w] \in {"off", "exited"}

(* "after it returns nothing reads the source": once any Close has         *)
(* returned no worker runs, even if the first Read raced with it.          *)
QuietAfterClose == (\E c \in Closers : cpc[c] = "returned") => Quiet

(* stop: "The workers finish the block in hand and exit": no worker takes  *)
(* up another block once done is closed.                                   *)
NoBlockTakenAfterStop ==
  [][done => \A w \in Workers : wpc[w] = "idle" => wpc'[w] # "header"]_vars

(* A call always returns: to the end of data, an error, or a Close that    *)
(* cancels it.                                                             *)
CallsReturn == (rpc # "idle") ~> (rpc = "idle")

(* Close returns once the workers have finished what they have in hand.    *)
CloseReturns == \A c \in Closers : (cpc[c] = "lock") ~> (cpc[c] = "returned")

(* No goroutine outlives the reader: after the end of data, an error, a    *)
(* Close or the caller dropping the reader, every goroutine exits.         *)
GoroutinesExit ==
  (err # Nil \/ done \/ abandoned) ~> (Quiet /\ disp \in {"off", "exited"})
=============================================================================
