------------------------------ MODULE Writer2 -------------------------------
(***************************************************************************)
(* The LZMA2 writer of lzma/writer2.go with the parts of the encoder, the  *)
(* encoder dictionary and the range encoder that decide where chunks end.  *)
(* Input bytes are numbered from 0.  The coder state (probabilities, rep   *)
(* distances) is the sequence of the operations that led to it since its   *)
(* last reset, each named by the input position it starts at.              *)
(***************************************************************************)
EXTENDS Sequences, ChunkState

CONSTANTS
  MaxUncompressed,  (* maxUncompressed: input bytes in a chunk             *)
  MaxCompressed,    (* maxCompressed: bytes the limited writer takes       *)
  Margin,           (* opLenMargin                                         *)
  Ops,              (* operations: <<input bytes, range-coder bytes>>      *)
  MaxMatchLen,      (* maxMatchLen                                         *)
  DictCap, BufSize, (* of the encoder dictionary                           *)
  MaxInput,         (* bound: bytes written to the stream in all           *)
  WriteSizes        (* bound: the lengths of p in a Write                  *)

(* rangeEncoder.Close shifts five bytes out; Writer2Config.Verify requires *)
(* BufSize to hold a longest match.                                        *)
CloseLen == 5

ASSUME WriterAssumption ==
  /\ MaxUncompressed \in Nat \ {0}
  /\ MaxCompressed \in Nat /\ Margin \in Nat /\ MaxCompressed >= CloseLen + Margin
  /\ MaxMatchLen \in Nat \ {0} /\ Ops \subseteq (1 .. MaxMatchLen) \X (0 .. Margin)
  /\ DictCap \in Nat \ {0} /\ BufSize \in Nat /\ BufSize >= MaxMatchLen
  /\ MaxInput \in Nat /\ WriteSizes \subseteq 0 .. MaxInput

Nil == "nil"
Min2(a, b) == IF a < b THEN a ELSE b

VARIABLES
  werr, cstate, ctype,      (* Writer2 fields                              *)
  start, state,             (* w.start, w.encoder.state                    *)
  head, first, buffered,    (* dict.Pos(), encoder.start, dict.Buffered()  *)
  avail,                    (* rangeEncoder.Available()                    *)
  pc, call, left,           (* control, the call, bytes of p left          *)
  accepted,                 (* input bytes Write has taken in all          *)
  wire, torn,               (* chunks written; a write has failed          *)
  result                    (* what the last call returned                 *)

encVars == <<state, head, buffered, avail>>
chunkVars == <<cstate, ctype, start, first>>
ioVars == <<wire, torn>>
wvars == <<werr, chunkVars, encVars, pc, call, left, accepted, ioVars, result>>

Compressed == head - first
(* Mutant: what is buffered but not compressed is not counted.             *)
WrittenCompressed == Compressed

Written == Compressed + buffered

(* encoderDict.Len, DictLen and Available.                                 *)
RingFree == DictCap + BufSize - buffered
DictHeld == Min2(RingFree, head)
DictSpace == RingFree - Min2(head, DictCap)

WInit ==
  /\ werr = Nil /\ cstate = "S" /\ ctype = defaultChunkType("S")
  /\ start = <<>> /\ state = <<>>
  /\ head = 0 /\ first = 0 /\ buffered = 0
  /\ avail = MaxCompressed - CloseLen
  /\ pc = "idle" /\ call = "none" /\ left = 0 /\ accepted = 0
  /\ wire = <<>> /\ torn = FALSE /\ result = Nil

Return(e) == pc' = "idle" /\ call' = "none" /\ left' = 0 /\ result' = e
(* Mutant: the error is returned without being recorded.                   *)
FailUnrecorded(e) == UNCHANGED werr /\ Return(e)

Fail(e) == werr' = e /\ Return(e)

(* The three entry points: a recorded error first, then errClosed.         *)
Enter(c, n, at) ==
  /\ pc = "idle"
  /\ IF werr # Nil \/ cstate = "T"
     THEN result' = (IF werr # Nil THEN werr ELSE "closed") /\ UNCHANGED <<pc, call, left>>
     ELSE pc' = at /\ call' = c /\ left' = n /\ UNCHANGED result
  /\ UNCHANGED <<werr, chunkVars, encVars, accepted, ioVars>>

Write(n) == accepted + n <= MaxInput /\ Enter("Write", n, "fill")
Flush == Enter("Flush", 0, "flush")
Close == Enter("Close", 0, "flush")

(* Input bytes the chunk still takes.                                      *)
ChunkRoom == MaxUncompressed - Written

(* Write's loop around encoder.Write: input goes into the dictionary up to *)
(* the chunk's limit; a full dictionary is compressed first, a full chunk  *)
(* is flushed.                                                             *)
Fill ==
  LET m == ChunkRoom
      q == Min2(left, m)
      k == Min2(q, DictSpace)
  IN  /\ pc = "fill"
      /\ IF left = 0 THEN Return(Nil) /\ UNCHANGED <<buffered, accepted>>
         ELSE IF m <= 0
         THEN pc' = "panic" /\ UNCHANGED <<buffered, accepted, call, left, result>>
         ELSE /\ buffered' = buffered + k
              /\ left' = left - k /\ accepted' = accepted + k
              /\ pc' = IF k < q THEN "compress" ELSE IF k = m THEN "compressAll" ELSE "fill"
              /\ UNCHANGED <<call, result>>
      /\ UNCHANGED <<werr, chunkVars, state, head, avail, ioVars>>

(* Mutant: off by one, a full buffer of one match is never compressed.     *)
CompressFloorHigh == IF pc = "compress" THEN MaxMatchLen ELSE 0

(* encoder.compress: operations while enough is buffered.  errLimit ends   *)
(* the chunk; within encoder.Close it is ignored.                          *)
CompressFloor == IF pc = "compress" THEN MaxMatchLen - 1 ELSE 0

(* Mutant: the margin is not checked before an operation.                  *)
WriteOpUnchecked(op) ==
  /\ pc \in {"compress", "compressAll"} /\ buffered > CompressFloor
  /\ op[1] <= buffered
  /\ state' = Append(state, head)
  /\ avail' = avail - op[2]
  /\ head' = head + op[1] /\ buffered' = buffered - op[1]
  /\ UNCHANGED <<werr, chunkVars, pc, call, left, accepted, ioVars, result>>

WriteOp(op) ==
  /\ pc \in {"compress", "compressAll"} /\ buffered > CompressFloor
  /\ avail >= Margin
  /\ op[1] <= buffered
  /\ state' = Append(state, head)
  /\ avail' = avail - op[2]
  /\ head' = head + op[1] /\ buffered' = buffered - op[1]
  /\ UNCHANGED <<werr, chunkVars, pc, call, left, accepted, ioVars, result>>

CompressDone ==
  /\ \/ /\ pc = "compress" /\ buffered <= CompressFloor /\ pc' = "fill"
     \/ /\ pc = "compress" /\ buffered > CompressFloor /\ avail < Margin
        /\ pc' = "compressAll"
     \/ /\ pc = "compressAll" /\ (buffered = 0 \/ avail < Margin)
        /\ pc' = "closeEncoder"
  /\ UNCHANGED <<werr, chunkVars, encVars, call, left, accepted, ioVars, result>>

(* rangeEncoder.Close: five shifts, each refused once Available is below 1.*)
CloseEncoder ==
  /\ pc = "closeEncoder"
  /\ IF avail < CloseLen
     THEN Fail("limit")
     ELSE pc' = "header" /\ UNCHANGED <<werr, call, left, result>>
  /\ UNCHANGED <<chunkVars, encVars, accepted, ioVars>>

CompressedLen == MaxCompressed - avail

(* Mutant: whether the dictionary still holds the chunk is not asked.      *)
StoreUncompressedAlways ==
  headerLen("U") + Compressed < headerLen(ctype) + CompressedLen

(* Mutant: a chunk still in the dictionary is stored whatever its size.    *)
StoreUncompressedWhenHeld == DictHeld >= Compressed

(* writeChunk's choice; the uncompressed form needs the whole chunk to be  *)
(* still in the dictionary.                                                *)
StoreUncompressed ==
  /\ headerLen("U") + Compressed < headerLen(ctype) + CompressedLen
  /\ DictHeld >= Compressed

(* Mutant: the state the discarded operations led to is kept.              *)
NoRollback == state

(* writeUncompressedChunk rolls the coder state back to the chunk's start. *)
Rollback == start

WriteHeader ==
  /\ pc = "header"
  /\ IF StoreUncompressed
     THEN ctype' = (IF ctype = "LRND" THEN "UD" ELSE "U") /\ state' = Rollback
     ELSE UNCHANGED <<ctype, state>>
  /\ \/ pc' = "payload" /\ UNCHANGED <<werr, call, left, result, torn>>
     \/ Fail("io") /\ torn' = TRUE
  /\ UNCHANGED <<cstate, start, first, head, buffered, avail, accepted, wire>>

(* The chunk's data; CopyN stops short with ErrNoSpace when the dictionary *)
(* no longer holds it all.  The record keeps what the decoder will meet:   *)
(* the bytes, the coder state they were encoded from, the one they lead    *)
(* to, and whether a failed write cut the data short.                      *)
Chunk(isCut) ==
  [ctype |-> ctype, base |-> 0, from |-> first, to |-> head, cut |-> isCut,
   clen |-> IF ctype \in UncompressedTypes THEN Compressed ELSE CompressedLen,
   enc |-> start, post |-> state]

CopyShort == ctype \in UncompressedTypes /\ DictHeld < Compressed

WritePayload ==
  /\ pc = "payload"
  /\ \/ /\ ~CopyShort /\ wire' = Append(wire, Chunk(FALSE))
        /\ pc' = "advance" /\ UNCHANGED <<werr, call, left, result, torn>>
     \/ /\ \E e \in {"io"} \cup (IF CopyShort THEN {"noSpace"} ELSE {}) : Fail(e)
        /\ wire' = Append(wire, Chunk(TRUE)) /\ torn' = TRUE
  /\ UNCHANGED <<chunkVars, encVars, accepted>>

(* Mutant: the snapshot of the first chunk is kept.                        *)
StaleSnapshot == start

Snapshot == state

(* Mutant: the next chunk starts behind what is still buffered.            *)
ReopenLate == avail' = MaxCompressed - CloseLen /\ first' = head + buffered

Reopen == avail' = MaxCompressed - CloseLen /\ first' = head

(* The rest of flushChunk: reopen the encoder, step the chunk state and    *)
(* take the snapshot for the next chunk.                                   *)
Advance ==
  /\ pc = "advance"
  /\ Reopen
  /\ IF next(cstate, ctype) = BadChunk
     THEN Fail("chunkType") /\ UNCHANGED <<cstate, ctype, start>>
     ELSE /\ cstate' = next(cstate, ctype)
          /\ ctype' = defaultChunkType(cstate')
          /\ start' = Snapshot
          /\ pc' = IF call = "Write" THEN "fill" ELSE "flush"
          /\ UNCHANGED <<werr, call, left, result>>
  /\ UNCHANGED <<state, head, buffered, accepted, ioVars>>

(* Flush's loop, and Close's end-of-stream chunk after it.                 *)
FlushLoop ==
  /\ pc = "flush"
  /\ \/ Written > 0 /\ pc' = "compressAll" /\ UNCHANGED <<call, left, result>>
     \/ Written = 0 /\ call = "Flush" /\ Return(Nil)
     \/ Written = 0 /\ call = "Close" /\ pc' = "eos" /\ UNCHANGED <<call, left, result>>
  /\ UNCHANGED <<werr, chunkVars, encVars, accepted, ioVars>>

WriteEOS ==
  /\ pc = "eos"
  /\ \/ /\ wire' = Append(wire, [ctype |-> "EOS", base |-> 0, from |-> head, to |-> head,
                                 cut |-> FALSE, clen |-> 0, enc |-> <<>>, post |-> <<>>])
        /\ cstate' = "T" /\ Return(Nil) /\ UNCHANGED <<werr, torn>>
     \/ Fail("io") /\ torn' = TRUE /\ UNCHANGED <<cstate, wire>>
  /\ UNCHANGED <<ctype, start, first, encVars, accepted>>

WStep ==
  \/ Fill \/ CompressDone \/ CloseEncoder \/ WriteHeader \/ WritePayload
  \/ Advance \/ FlushLoop \/ WriteEOS
  \/ \E op \in Ops : WriteOp(op)
WCall == Flush \/ Close \/ \E n \in WriteSizes : Write(n)
WNext == WStep \/ WCall

WSpec == WInit /\ [][WNext]_wvars
WFairSpec == WSpec /\ WF_wvars(WStep)
-----------------------------------------------------------------------------
WTypeOK ==
  /\ werr \in {Nil, "io", "limit", "noSpace", "chunkType"}
  /\ cstate \in ChunkStates /\ ctype \in ChunkTypes
  /\ start \in Seq(Nat) /\ state \in Seq(Nat)
  /\ head \in Nat /\ first \in 0 .. head /\ buffered \in 0 .. DictCap + BufSize
  /\ avail \in 0 .. MaxCompressed
  /\ pc \in {"idle", "fill", "compress", "compressAll", "closeEncoder", "header",
             "payload", "advance", "flush", "eos", "panic"}
  /\ call \in {"none", "Write", "Flush", "Close"} /\ left \in 0 .. MaxInput
  /\ accepted \in 0 .. MaxInput /\ torn \in BOOLEAN
  /\ result \in {Nil, "io", "limit", "noSpace", "chunkType", "closed"}

(* Every chunk written fits the fields of its header: at most              *)
(* maxUncompressed bytes of input, at most maxCompressed of data, and an   *)
(* uncompressed chunk, whose size field has only the 16 bits of            *)
(* maxCompressed, never more than that, though nothing in                  *)
(* writeUncompressedChunk compares it with that limit.                     *)
ChunksFit ==
  \A i \in DOMAIN wire : wire[i].ctype # "EOS" =>
     /\ wire[i].to - wire[i].from \in 1 .. MaxUncompressed
     /\ wire[i].clen \in 1 .. MaxCompressed

(* Writer2 never panics on "maxUncompressed reached", never refuses its    *)
(* own chunk sequence, never has an uncompressed chunk's input dropped     *)
(* from the dictionary, and never lets the range coder's limit out to the  *)
(* caller: only the underlying writer makes it fail.                       *)
OnlyIOFails == pc # "panic" /\ werr \in {Nil, "io"}

(* errLimit is internal to the encoder: Writer2 turns it into a chunk      *)
(* boundary, so it never reaches a caller.                                 *)
LimitStaysInside == werr # "limit" /\ result # "limit"

(* The input covered by what has been written.                            *)
Covered == IF wire = <<>> THEN 0 ELSE wire[Len(wire)].to

(* The chunks cover the input without gap or overlap, whatever was left in *)
(* the dictionary when the range coder's limit ended a chunk.              *)
Contiguous ==
  /\ accepted = head + buffered
  /\ \A i \in DOMAIN wire : wire[i].from = IF i = 1 THEN 0 ELSE wire[i - 1].to

(* A Flush or Close that reports success has written every byte accepted   *)
(* before it, in as many chunks as that took.                              *)
FlushWritesAll ==
  [][(pc = "flush" \/ pc = "eos") /\ pc' = "idle" /\ result' = Nil
       => Covered' = accepted /\ ~torn']_wvars

(* After a failed write nothing more reaches the underlying writer, so     *)
(* what it holds is a prefix of a valid stream.                            *)
SilentAfterFailure == [][torn => wire' = wire /\ torn']_wvars

(* Every call returns: each turn of Write's and Flush's loops makes        *)
(* progress, also when the limit ends a chunk before its input is used up. *)
WCallsReturn == (pc # "idle") ~> (pc = "idle")
=============================================================================
