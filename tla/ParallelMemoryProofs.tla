------------------------ MODULE ParallelMemoryProofs ------------------------
(***************************************************************************)
(* The memory the parallel reader holds, from the invariants of            *)
(* ParallelPlaceProofs, for any number of workers, blocks and closers: a   *)
(* decode buffer for each block that queue admits, and the one being read, *)
(* however slow the consumer is.                                           *)
(***************************************************************************)
EXTENDS ParallelPlaceProofs, FiniteSetTheorems

MemInv == IsFiniteSet(LiveBufs) /\ BuffersBounded

MInv == SpanInv /\ PlaceInv
-----------------------------------------------------------------------------
USE DEF vars, dispVars, workVars, bufVars, callVars, curVars

HeldBufs == ({wres[w].buf : w \in Workers} \cup {result[b].buf : b \in Blocks} \cup {cur})
            \ {NoBuf}

(* The buffers outside the pool belong to different blocks, from the one   *)
(* being read to the last one queued.                                      *)
LEMMA HeldFits == IInv /\ MInv => /\ IsFiniteSet(HeldBufs)
                                  /\ Cardinality(HeldBufs) <= Cardinality(Workers) + 3
<1> SUFFICES ASSUME IInv, MInv
             PROVE  IsFiniteSet(HeldBufs) /\ Cardinality(HeldBufs) <= Cardinality(Workers) + 3
  OBVIOUS
<1> DEFINE Span == rblk .. rblk + Len(queue)
           Holds(x, b) == \/ x = cur /\ b = rblk
                          \/ b \in Blocks /\ x = result[b].buf
                          \/ \E w \in Workers : /\ wpc[w] \in Busy /\ wres[w].buf = x
                                                /\ wblk[w] = b
<1>0. /\ rblk \in Nat /\ next \in Nat /\ Len(queue) \in Nat /\ Blocks \subseteq Nat
      /\ next <= rblk + Len(queue) + 1 /\ Len(queue) <= Cardinality(Workers) + 2
      /\ Cardinality(Workers) \in Nat
  <2>1. Cardinality(Workers) \in Nat
    BY FS_CardinalityType, ProcessAssumption, SMTT(60)
  <2>2. /\ rblk \in Nat /\ next \in Nat /\ Len(queue) \in Nat /\ Blocks \subseteq Nat
    BY Indices, ZenonT(30)
  <2>3. SpanInv
    BY ZenonT(30) DEF MInv
  <2> QED
    BY ONLY <2>1, <2>2, <2>3, SMTT(60) DEF SpanInv, QueueCap
<1>1. ASSUME NEW w \in Workers, wres[w].buf # NoBuf
      PROVE  wpc[w] \in Busy
  BY <1>1, SMTT(60) DEF IInv, TypeOK, WorkerInv, WorkerOK, Busy
<1>2. ASSUME NEW b \in Blocks, result[b].buf # NoBuf
      PROVE  result[b] # NoResult
  BY <1>2 DEF NoResult
<1>3. ASSUME NEW w \in Workers, wpc[w] \in Busy
      PROVE  /\ wblk[w] \in Span /\ wblk[w] \in Blocks
             /\ cur # NoBuf => wblk[w] # rblk
             /\ \A v \in Workers \ {w} : wpc[v] \in Busy => wblk[v] # wblk[w]
             /\ result[wblk[w]] = NoResult
  <2>1. AtWorker(w) /\ wblk[w] \in Blocks
    BY <1>3 DEF MInv, PlaceInv, IInv, WorkerInv, WorkerOK
  <2>2. /\ rblk <= wblk[w] /\ wblk[w] < next /\ wblk[w] \in Nat
        /\ cur # NoBuf => rblk < wblk[w]
        /\ \A v \in Workers \ {w} : wpc[v] \in Busy => wblk[v] # wblk[w]
        /\ result[wblk[w]] = NoResult
    BY <1>0, <1>3, <2>1, ZenonT(30) DEF AtWorker, Passed
  <2>3. wblk[w] \in Span /\ (cur # NoBuf => wblk[w] # rblk)
    BY <1>0, <2>2, SMTT(30)
  <2> QED
    BY <2>1, <2>2, <2>3, SMTT(60)
<1>4. ASSUME NEW b \in Blocks, result[b] # NoResult
      PROVE  b \in Span /\ (cur # NoBuf => b # rblk)
  <2>1. AtResult(b)
    BY DEF MInv, PlaceInv
  <2> QED
    BY <1>0, <1>4, <2>1 DEF AtResult, Passed
<1>5. rblk \in Span
  BY <1>0
<1> HIDE DEF Span
<1>6. ASSUME NEW x \in HeldBufs PROVE \E b \in Span : Holds(x, b)
  BY <1>1, <1>2, <1>3, <1>4, <1>5, ZenonT(30) DEF HeldBufs
<1>7. ASSUME NEW x \in HeldBufs, NEW y \in HeldBufs, NEW b \in Span, Holds(x, b), Holds(y, b)
      PROVE  x = y
  <2>0. x # NoBuf /\ y # NoBuf
    BY SMTT(60) DEF HeldBufs
  <2>1. ASSUME NEW u, NEW v, u # NoBuf, v # NoBuf, u = cur, b = rblk, Holds(v, b) PROVE u = v
    BY <1>2, <1>3, <1>4, <2>1, SMTT(60)
  <2>2. ASSUME NEW u, NEW v, u # NoBuf, v # NoBuf, b \in Blocks, u = result[b].buf,
               \E w \in Workers : wpc[w] \in Busy /\ wres[w].buf = v /\ wblk[w] = b
        PROVE  u = v
    BY ONLY <1>2, <1>3, <2>2, ZenonT(30)
  <2>3. ASSUME \E w \in Workers : wpc[w] \in Busy /\ wres[w].buf = x /\ wblk[w] = b,
               \E w \in Workers : wpc[w] \in Busy /\ wres[w].buf = y /\ wblk[w] = b
        PROVE  x = y
    <3>1. PICK w \in Workers : wpc[w] \in Busy /\ wres[w].buf = x /\ wblk[w] = b
      BY <2>3, SMTT(60)
    <3>2. PICK v \in Workers : wpc[v] \in Busy /\ wres[v].buf = y /\ wblk[v] = b
      BY <2>3
    <3>3. v = w
      BY <1>3, <3>1, <3>2, SMTT(60)
    <3> QED
      BY <3>1, <3>2, <3>3, ZenonT(30)
  <2> QED
    BY <1>7, <2>0, <2>1, <2>2, <2>3, SMTT(30)
<1> HIDE DEF Holds
<1> DEFINE place == [x \in HeldBufs |-> CHOOSE b \in Span : Holds(x, b)]
<1>8. \A x \in HeldBufs : place[x] \in Span /\ Holds(x, place[x])
  BY <1>6
<1>9. place \in Injection(HeldBufs, Span)
  <2>1. place \in [HeldBufs -> Span]
    BY <1>8
  <2>2. \A x, y \in HeldBufs : place[x] = place[y] => x = y
    <3> HIDE DEF place
    <3> QED
      BY <1>7, <1>8, SMTT(60)
  <2>3. DOMAIN place = HeldBufs
    OBVIOUS
  <2> HIDE DEF place
  <2> QED
    BY <2>1, <2>2, <2>3, SMTT(60) DEF Injection, IsInjective
<1>10. IsFiniteSet(Span) /\ Cardinality(Span) = Len(queue) + 1
  <2>1. rblk \in Int /\ rblk + Len(queue) \in Int /\ ~ (rblk > rblk + Len(queue))
    BY <1>0
  <2>2. IsFiniteSet(Span) /\ Cardinality(Span) = rblk + Len(queue) - rblk + 1
    BY <2>1, FS_Interval, SMTT(60) DEF Span
  <2> QED
    BY <1>0, <2>2, SMTT(60)
<1> HIDE DEF place
<1>11. IsFiniteSet(HeldBufs) /\ Cardinality(HeldBufs) <= Cardinality(Span)
  BY <1>9, <1>10, FS_Injection
<1>12. Cardinality(HeldBufs) \in Nat
  BY <1>11, FS_CardinalityType, SMTT(60)
<1> QED
  BY <1>0, <1>10, <1>11, <1>12, SMTT(30)

(* Where a buffer in use can be.                                           *)
LEMMA LiveMember ==
  ASSUME NEW x
  PROVE  x \in LiveBufs <=> /\ x # NoBuf
                            /\ \/ \E i \in DOMAIN pool : x = pool[i]
                               \/ \E w \in Workers : x = wres[w].buf
                               \/ \E b \in Blocks : x = result[b].buf
                               \/ x = cur
BY DEF LiveBufs

LEMMA LiveMemberNext ==
  ASSUME NEW x
  PROVE  x \in LiveBufs' <=> /\ x # NoBuf
                             /\ \/ \E i \in DOMAIN pool' : x = pool'[i]
                                \/ \E w \in Workers : x = wres'[w].buf
                                \/ \E b \in Blocks : x = result'[b].buf
                                \/ x = cur'
BY SMTT(60) DEF LiveBufs

(* No more buffers are in use after a step that drops some, or takes one   *)
(* for one given up.                                                       *)
LEMMA NoMoreBuffers ==
  ASSUME NEW S, IsFiniteSet(S), NEW n \in Nat, Cardinality(S) <= n,
         NEW T, T \subseteq S \/ \E x \in S : \E y : T \subseteq (S \ {x}) \cup {y}
  PROVE  IsFiniteSet(T) /\ Cardinality(T) <= n
<1>0. Cardinality(S) \in Nat
  BY FS_CardinalityType, SMTT(60)
<1>1. ASSUME NEW U, IsFiniteSet(U), Cardinality(U) <= Cardinality(S), T \subseteq U
      PROVE  IsFiniteSet(T) /\ Cardinality(T) <= n
  <2>1. IsFiniteSet(T) /\ Cardinality(T) <= Cardinality(U)
    BY <1>1, FS_Subset, SMTT(60)
  <2>2. Cardinality(T) \in Nat /\ Cardinality(U) \in Nat
    BY <1>1, <2>1, FS_CardinalityType
  <2> QED
    BY <1>0, <1>1, <2>1, <2>2
<1>2. CASE T \subseteq S
  BY <1>0, <1>1, <1>2, SMTT(60)
<1>3. ASSUME NEW x \in S, NEW y, T \subseteq (S \ {x}) \cup {y}
      PROVE  IsFiniteSet(T) /\ Cardinality(T) <= n
  <2> DEFINE R == S \ {x}
  <2>1. IsFiniteSet(R) /\ Cardinality(R) = Cardinality(S) - 1
    BY FS_RemoveElement, SMTT(60)
  <2> HIDE DEF R
  <2>2. /\ IsFiniteSet(R \cup {y})
        /\ Cardinality(R \cup {y}) = IF y \in R THEN Cardinality(R) ELSE Cardinality(R) + 1
    BY <2>1, FS_AddElement, SMTT(60)
  <2>3. Cardinality(R \cup {y}) <= Cardinality(S)
    BY <1>0, <2>1, <2>2, SMTT(30)
  <2> QED
    BY <1>1, <1>3, <2>2, <2>3 DEF R
<1> QED
  BY <1>2, <1>3

(* A worker that finds the pool empty makes a buffer for its block; one    *)
(* that takes a pooled buffer, or replaces its own, gives one up.          *)
LEMMA MemWorker ==
  ASSUME IInv, MInv, MemInv, IInv', MInv', NEW w \in Workers, WorkerStep(w)
  PROVE  MemInv'
<1>0. /\ TypeOK /\ BufferOwnership /\ wres \in [Workers -> Results]
      /\ result \in [Blocks -> Results] /\ pool \in Seq(BufIds)
      /\ wres[w].buf \in BufIds \cup {NoBuf}
  BY ResultType, ZenonT(30) DEF IInv, TypeOK
<1>a. /\ IsFiniteSet(LiveBufs) /\ Cardinality(Workers) + 3 \in Nat
      /\ Cardinality(LiveBufs) <= Cardinality(Workers) + 3
  <2>1. Cardinality(Workers) \in Nat
    BY FS_CardinalityType, ProcessAssumption, SMTT(60)
  <2> QED
    BY <2>1 DEF MemInv, BuffersBounded
<1>b. ASSUME \/ LiveBufs' \subseteq LiveBufs
             \/ \E x \in LiveBufs : \E y : LiveBufs' \subseteq (LiveBufs \ {x}) \cup {y}
      PROVE  MemInv'
  <2>1. IsFiniteSet(LiveBufs') /\ Cardinality(LiveBufs') <= Cardinality(Workers) + 3
    BY <1>a, <1>b, NoMoreBuffers, SMTT(30)
  <2> QED
    BY <2>1 DEF MemInv, BuffersBounded
<1>1. CASE UNCHANGED <<pool, wres, result, cur>>
  BY <1>1, <1>b DEF LiveBufs
<1>2. CASE getBuf(w)
  <2>0. cur' = cur /\ result' = result
    BY <1>2 DEF getBuf
  <2>1. CASE pool = <<>>
    <3>1. pool' = <<>>
      BY ONLY <1>2, <2>1, ZenonT(30) DEF getBuf
    <3>2. LiveBufs' = HeldBufs'
      <4>1. DOMAIN pool' = {}
        BY <3>1
      <4> QED
        BY <4>1 DEF LiveBufs, HeldBufs
    <3>3. (IInv /\ MInv => /\ IsFiniteSet(HeldBufs)
                           /\ Cardinality(HeldBufs) <= Cardinality(Workers) + 3)'
      BY HeldFits, PTL
    <3> QED
      BY <3>2, <3>3 DEF MemInv, BuffersBounded
  <2>2. CASE pool # <<>>
    <3>1. pool' = Tail(pool) /\ \E b : wres' = [wres EXCEPT ![w].buf = b]
      BY ONLY <1>2, <2>2, ZenonT(30) DEF getBuf
    <3>2. PICK b : wres' = [wres EXCEPT ![w].buf = b]
      BY <3>1, ZenonT(30)
    <3>3. wres'[w].buf = b /\ \A v \in Workers \ {w} : wres'[v] = wres[v]
      BY <1>0, <3>2 DEF Results
    <3> DEFINE x == Head(pool)
    <3>4. /\ x = pool[1] /\ 1 \in DOMAIN pool
          /\ \A i \in DOMAIN pool' : /\ pool'[i] # x
                                     /\ \E j \in DOMAIN pool : pool'[i] = pool[j]
      BY <1>0, <2>2, <3>1, PoolReceive
    <3>5. x # NoBuf
      BY <1>0, <2>2, ProcessAssumption DEF NoBuf
    <3>6. x # cur /\ \A v \in Workers : wres[v].buf # x
      BY <1>0, <3>4, <3>5, SMTT(30) DEF BufferOwnership
    <3>7. \A r \in Blocks : result[r].buf # x
      BY ONLY <1>0, <3>4, <3>5, SMTT(30) DEF BufferOwnership
    <3> HIDE DEF x
    <3>8. x \in LiveBufs
      BY <3>4, <3>5, LiveMember, SMTT(60)
    <3>9. ASSUME NEW y \in LiveBufs' PROVE y \in (LiveBufs \ {x}) \cup {b}
      <4>1. /\ y # NoBuf
            /\ \/ \E i \in DOMAIN pool' : y = pool'[i]
               \/ \E v \in Workers : y = wres'[v].buf
               \/ \E r \in Blocks : y = result[r].buf
               \/ y = cur
        BY <2>0, LiveMemberNext, SMTT(60)
      <4>2. CASE y = b
        BY <4>2, SMTT(60)
      <4>3. CASE y # b
        <5>1. \/ \E j \in DOMAIN pool : y = pool[j]
              \/ \E v \in Workers : y = wres[v].buf
              \/ \E r \in Blocks : y = result[r].buf
              \/ y = cur
          BY <3>3, <3>4, <4>1, <4>3, ZenonT(30)
        <5>2. y # x
          BY <3>3, <3>4, <3>6, <3>7, <4>1, <4>3, SMTT(60)
        <5> QED
          BY <4>1, <5>1, <5>2, LiveMember, ZenonT(30)
      <4> QED
        BY ONLY <4>2, <4>3, ZenonT(30)
    <3> QED
      BY <1>b, <3>8, <3>9, SMTT(60)
  <2> QED
    BY <2>1, <2>2
<1>3. CASE Fill(w)
  <2>1. PICK b : wres' = [wres EXCEPT ![w].buf = b]
    BY <1>3, ZenonT(30) DEF Fill
  <2>2. /\ wres'[w].buf = b /\ \A v \in Workers \ {w} : wres'[v] = wres[v]
        /\ UNCHANGED <<pool, cur, result>>
    BY ONLY <1>0, <1>3, <2>1, SMTT(30) DEF Fill, Results
  <2> DEFINE x == wres[w].buf
  <2>3. x # NoBuf
    BY <1>3, ZenonT(30) DEF Fill, IInv, WorkerInv, WorkerOK
  <2>4. /\ x # cur
        /\ \A i \in DOMAIN pool : pool[i] # x
        /\ \A v \in Workers \ {w} : wres[v].buf # x
        /\ \A r \in Blocks : result[r].buf # x
    BY <1>0, <2>3, WorkerOwns, ZenonT(30)
  <2>5. x \in LiveBufs
    BY <2>3, LiveMember, SMTT(60)
  <2> HIDE DEF x
  <2>6. ASSUME NEW y \in LiveBufs' PROVE y \in (LiveBufs \ {x}) \cup {b}
    <3>1. /\ y # NoBuf
          /\ \/ \E i \in DOMAIN pool : y = pool[i]
             \/ \E v \in Workers : y = wres'[v].buf
             \/ \E r \in Blocks : y = result[r].buf
             \/ y = cur
      BY <2>2, LiveMemberNext, SMTT(60)
    <3>2. y = b \/ (y # x /\ y \in LiveBufs)
      BY <2>2, <2>4, <3>1, LiveMember
    <3> QED
      BY <3>2
  <2> QED
    BY <1>b, <2>5, <2>6
<1>4. CASE DecodeOK(w)
  <2>1. \A v \in Workers : wres'[v].buf = wres[v].buf
    BY <1>0, <1>4 DEF DecodeOK, Results
  <2>2. UNCHANGED <<pool, result, cur>>
    BY <1>4, ZenonT(30) DEF DecodeOK
  <2>3. ASSUME NEW y \in LiveBufs' PROVE y \in LiveBufs
    <3>1. /\ y # NoBuf
          /\ \/ \E i \in DOMAIN pool : y = pool[i]
             \/ \E v \in Workers : y = wres[v].buf
             \/ \E b \in Blocks : y = result[b].buf
             \/ y = cur
      BY ONLY <2>1, <2>2, LiveMemberNext, SMTT(30)
    <3> QED
      BY <3>1, LiveMember
  <2> QED
    BY <1>b, <2>3, SMTT(60)
<1>5. CASE DecodeFails(w)
  <2>1. /\ wres'[w].buf = NoBuf /\ \A v \in Workers \ {w} : wres'[v] = wres[v]
        /\ pool' = putBuf(wres[w].buf) /\ cur' = cur /\ result' = result
    BY <1>0, <1>5, SMTT(30) DEF DecodeFails
  <2>2. \A i \in DOMAIN pool' : \/ \E j \in DOMAIN pool : pool'[i] = pool[j]
                                \/ pool'[i] = wres[w].buf
    BY ONLY <1>0, <2>1, PutBufContents, SMTT(30)
  <2>3. ASSUME NEW y \in LiveBufs' PROVE y \in LiveBufs
    <3>1. /\ y # NoBuf
          /\ \/ \E i \in DOMAIN pool' : y = pool'[i]
             \/ \E v \in Workers : y = wres'[v].buf
             \/ \E b \in Blocks : y = result[b].buf
             \/ y = cur
      BY <2>1, LiveMemberNext
    <3>2. (\E i \in DOMAIN pool' : y = pool'[i])
            => (\E j \in DOMAIN pool : y = pool[j]) \/ y = wres[w].buf
      BY <2>2, ZenonT(30)
    <3>3. (\E v \in Workers : y = wres'[v].buf) => \E v \in Workers : y = wres[v].buf
      BY <2>1, <3>1, ZenonT(30)
    <3> QED
      BY ONLY <3>1, <3>2, <3>3, LiveMember, ZenonT(30)
  <2> QED
    BY <1>b, <2>3
<1>6. CASE Report(w)
  <2>1. wres'[w].buf = NoBuf /\ \A v \in Workers \ {w} : wres'[v] = wres[v]
    BY <1>0, <1>6, SMTT(60) DEF Report, NoResult
  <2>2. /\ wblk[w] \in Blocks /\ result'[wblk[w]] = wres[w]
        /\ \A r \in Blocks \ {wblk[w]} : result'[r] = result[r]
        /\ UNCHANGED <<pool, cur>>
    BY <1>0, <1>6, ZenonT(60) DEF Report, IInv, WorkerInv, WorkerOK, Busy
  <2>3. ASSUME NEW y \in LiveBufs' PROVE y \in LiveBufs
    <3>1. /\ y # NoBuf
          /\ \/ \E i \in DOMAIN pool : y = pool[i]
             \/ \E v \in Workers : y = wres'[v].buf
             \/ \E b \in Blocks : y = result'[b].buf
             \/ y = cur
      BY <2>2, LiveMemberNext, ZenonT(30)
    <3>2. (\E v \in Workers : y = wres'[v].buf) => \E v \in Workers : y = wres[v].buf
      BY <2>1, <3>1
    <3>3. (\E b \in Blocks : y = result'[b].buf)
            => y = wres[w].buf \/ \E b \in Blocks : y = result[b].buf
      BY <2>2, SMTT(60)
    <3> QED
      BY <3>1, <3>2, <3>3, LiveMember, ZenonT(30)
  <2> QED
    BY <1>b, <2>3
<1> QED
  BY <1>1, <1>2, <1>3, <1>4, <1>5, <1>6, ZenonT(30) DEF WorkerStep, DecodeStep, Handoff,
     ReadHeader, WorkerExit

(* The consumer only moves buffers, or returns them.                       *)
LEMMA MemStep == IInv /\ MInv /\ MemInv /\ IInv' /\ MInv' /\ [Next]_vars => MemInv'
<1> SUFFICES ASSUME IInv, MInv, MemInv, IInv', MInv', [Next]_vars
             PROVE  MemInv'
  BY SMTT(60)
<1>1. ASSUME LiveBufs' \subseteq LiveBufs PROVE MemInv'
  <2>1. Cardinality(Workers) \in Nat
    BY FS_CardinalityType, ProcessAssumption, SMTT(60)
  <2>2. IsFiniteSet(LiveBufs') /\ Cardinality(LiveBufs') <= Cardinality(Workers) + 3
    BY <1>1, <2>1, NoMoreBuffers, SMTT(30) DEF MemInv, BuffersBounded
  <2> QED
    BY <2>2 DEF MemInv, BuffersBounded
<1>2. CASE UNCHANGED <<pool, wres, result, cur>>
  BY <1>1, <1>2, SMTT(60) DEF LiveBufs
<1>3. CASE RetireCurrent
  <2>1. pool' = putBuf(cur) /\ cur' = NoBuf /\ UNCHANGED <<wres, result>>
    BY <1>3, ZenonT(30) DEF RetireCurrent
  <2>2. \A i \in DOMAIN pool' : (\E j \in DOMAIN pool : pool'[i] = pool[j]) \/ pool'[i] = cur
    BY <2>1, PutBufContents, ZenonT(30) DEF IInv, TypeOK
  <2>3. ASSUME NEW y \in LiveBufs' PROVE y \in LiveBufs
    <3>1. /\ y # NoBuf
          /\ \/ \E i \in DOMAIN pool' : y = pool'[i]
             \/ \E v \in Workers : y = wres[v].buf
             \/ \E b \in Blocks : y = result[b].buf
      BY <2>1, LiveMemberNext, SMTT(60)
    <3>2. (\E i \in DOMAIN pool' : y = pool'[i])
            => (\E j \in DOMAIN pool : y = pool[j]) \/ y = cur
      BY <2>2
    <3> QED
      BY <3>1, <3>2, LiveMember, ZenonT(30)
  <2> QED
    BY <1>1, <2>3, ZenonT(30)
<1>4. CASE RecvResult
  <2>1. /\ rblk \in Blocks /\ result \in [Blocks -> Results] /\ UNCHANGED <<pool, wres>>
        /\ cur' = cur \/ cur' = result[rblk].buf
        /\ result' = result \/ result' = [result EXCEPT ![rblk] = NoResult]
    BY <1>4, ZenonT(30) DEF RecvResult, IInv, PositionInv, TypeOK
  <2>2. ASSUME NEW b \in Blocks PROVE result'[b] = result[b] \/ result'[b].buf = NoBuf
    <3>1. NoResult.buf = NoBuf
      BY SMTT(60) DEF NoResult
    <3>2. result'[b] = result[b] \/ result'[b] = NoResult
      BY <2>1, ZenonT(30)
    <3> QED
      BY <3>1, <3>2, ZenonT(30)
  <2>3. ASSUME NEW y \in LiveBufs' PROVE y \in LiveBufs
    <3>1. /\ y # NoBuf
          /\ \/ \E i \in DOMAIN pool : y = pool[i]
             \/ \E v \in Workers : y = wres[v].buf
             \/ \E b \in Blocks : y = result'[b].buf
             \/ y = cur'
      BY <2>1, LiveMemberNext, SMTT(30)
    <3>2. (\E b \in Blocks : y = result'[b].buf) => \E b \in Blocks : y = result[b].buf
      BY ONLY <2>2, <3>1, ZenonT(30)
    <3>3. y = cur' => y = cur \/ \E b \in Blocks : y = result[b].buf
      BY <2>1
    <3> QED
      BY <3>1, <3>2, <3>3, LiveMember, ZenonT(30)
  <2> QED
    BY <1>1, <2>3
<1>5. CASE \E w \in Workers : WorkerStep(w)
  BY <1>5, MemWorker, SMTT(60)
<1> QED
  BY <1>2, <1>3, <1>4, <1>5, ZenonT(30) DEF Next, DispatcherStep, Enqueue, HandoffCancelled, EndDispatch,
     ConsumerStep, ReadCopy, ReadReturn, WriteToWrite, RecvQueue, StopOnError, SetErrReturn,
     Read, WriteTo, CloserStep, CloseStop, CloseLock, CloseWait, Abandon, Cleanup

LEMMA MemInit == Init => MInv /\ MemInv
<1> SUFFICES ASSUME Init PROVE MInv /\ MemInv
  BY SMTT(60)
<1>0. Cardinality(Workers) \in Nat
  BY FS_CardinalityType, ProcessAssumption, SMTT(60)
<1>1. SpanInv
  BY <1>0, SMTT(60) DEF Init, SpanInv, QueueCap, NoBlock
<1>2. PlaceInv
  BY DEF Init, PlaceInv, AtWorker, AtResult, Busy
<1>3. LiveBufs = {}
  BY SMTT(60) DEF Init, LiveBufs, NoResult
<1>4. MemInv
  BY <1>0, <1>3, FS_EmptySet DEF MemInv, BuffersBounded
<1> QED
  BY <1>1, <1>2, <1>4 DEF MInv

(* The reader never has more than Cardinality(Workers) + 3 decode buffers, *)
(* pooled ones included, for any number of workers and blocks and however  *)
(* slow its caller is: queue is the only throttle it needs.                *)
THEOREM MemoryIsBounded == Spec => []BuffersBounded
<1>1. IInv /\ MInv /\ [Next]_vars => MInv'
  <2>1. Cardinality(Workers) \in Nat
    BY FS_CardinalityType, ProcessAssumption, ZenonT(30)
  <2> QED
    BY <2>1, SpanStep, PlaceStep, ZenonT(30) DEF MInv
<1>2. MemInv => BuffersBounded
  BY DEF MemInv
<1> QED
  BY <1>1, <1>2, MemInit, MemStep, IInvInit, IInvStep, PTL DEF Spec
=============================================================================
