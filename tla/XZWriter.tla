------------------------------ MODULE XZWriter ------------------------------
(***************************************************************************)
(* The xz Writer of writer.go: one stream, split into blocks of at most    *)
(* BlockSize bytes, then the index and the footer.  Every write to the     *)
(* underlying writer may fail; input bytes are numbered from 0.            *)
(***************************************************************************)
EXTENDS XZFormat

CONSTANTS
  BlockSize,    (* WriterConfig.BlockSize                                  *)
  Flags,        (* the check, and the bytes it takes                       *)
  CheckSize,
  CLens,        (* bound: bytes the LZMA2 writer makes of a block          *)
  MaxInput,     (* bound: bytes written in all                             *)
  WriteSizes    (* bound: the lengths of p in a Write                      *)

ASSUME XZWriterAssumption ==
  /\ BlockSize \in Nat \ {0} /\ CheckSize \in Nat /\ MaxInput \in Nat
  /\ CLens \subseteq Nat \ {0} /\ WriteSizes \subseteq 0 .. MaxInput

VARIABLES
  file, torn,          (* pieces written; a write has failed               *)
  err, closed, index,  (* Writer fields                                    *)
  n, clen,             (* blockWriter.n, blockWriter.cxz.n                 *)
  pc, call, left,      (* control, the call, bytes of p left               *)
  accepted, result     (* input taken in all; what the last call returned  *)

xwvars == <<file, torn, err, closed, index, n, clen, pc, call, left, accepted, result>>

Nil == "nil"
Min2(a, b) == IF a < b THEN a ELSE b

XWInit ==
  /\ file = <<>> /\ torn = FALSE /\ err = Nil /\ closed = FALSE /\ index = <<>>
  /\ n = 0 /\ clen = 0 /\ pc = "header" /\ call = "New" /\ left = 0
  /\ accepted = 0 /\ result = Nil

Return(e) == pc' = "idle" /\ call' = "none" /\ left' = 0 /\ result' = e

(* Mutant: the error is returned without being recorded.                   *)
FailUnrecorded(e) ==
  /\ UNCHANGED err /\ torn' = TRUE
  /\ IF call = "New" THEN pc' = "none" /\ result' = e /\ UNCHANGED <<call, left>>
     ELSE Return(e)

(* setErr; a NewWriter that fails returns no Writer to call.               *)
Fail(e) ==
  /\ err' = e /\ torn' = TRUE
  /\ IF call = "New" THEN pc' = "none" /\ result' = e /\ UNCHANGED <<call, left>>
     ELSE Return(e)

(* A write to the underlying writer that fails, with none, some or all of  *)
(* the piece taken.                                                        *)
EmitFails(piece) ==
  /\ file' \in {file, Append(file, Cut(piece)), Append(file, piece)}
  /\ Fail("io")

Emit(piece, at) ==
  \/ file' = Append(file, piece) /\ pc' = at /\ UNCHANGED <<torn, err, call, left, result>>
  \/ EmitFails(piece)

WriteStreamHeader ==
  /\ pc = "header" /\ Emit(Header(Flags), "bheader")
  /\ UNCHANGED <<closed, index, n, clen, accepted>>

(* newBlockWriter, of NewWriter or of Write's next turn.                   *)
newBlockWriter ==
  /\ pc = "bheader"
  /\ n' = 0
  /\ IF call = "New"
     THEN \/ /\ file' = Append(file, BlockHeader(-1, -1)) /\ Return(Nil)
             /\ UNCHANGED <<torn, err>>
          \/ EmitFails(BlockHeader(-1, -1))
     ELSE Emit(BlockHeader(-1, -1), "copy")
  /\ UNCHANGED <<closed, index, clen, accepted>>

(* Mutant: a second Close succeeds, whatever the first one did.            *)
RefuseNilOnceClosed ==
  result' = (IF closed THEN Nil ELSE err) /\ UNCHANGED <<pc, call, left, closed>>

Refuse == result' = (IF err # Nil THEN err ELSE "closed") /\ UNCHANGED <<pc, call, left, closed>>

Write(k) ==
  /\ pc = "idle" /\ accepted + k <= MaxInput
  /\ IF err # Nil \/ closed THEN Refuse
     ELSE pc' = "copy" /\ call' = "Write" /\ left' = k /\ UNCHANGED <<result, closed>>
  /\ UNCHANGED <<file, torn, err, index, n, clen, accepted>>

Close ==
  /\ pc = "idle"
  /\ IF err # Nil \/ closed THEN Refuse
     ELSE pc' = "data" /\ call' = "Close" /\ closed' = TRUE /\ UNCHANGED <<left, result>>
  /\ UNCHANGED <<file, torn, err, index, n, clen, accepted>>

(* Mutant: the room left does not shrink as the block fills.               *)
BlockRoomWhole == BlockSize

BlockRoom == BlockSize - n

(* Mutant: a block filled exactly is closed at once.                       *)
OverflowsEarly == left >= BlockRoom

(* errNoSpace: p does not fit the block.                                   *)
Overflows == left > BlockRoom

(* blockWriter.Write: up to the block's end; the LZMA2 writer under it may *)
(* fail after taking some of it.                                           *)
Copy ==
  LET k == Min2(left, BlockRoom)
  IN  /\ pc = "copy"
      /\ \/ /\ n' = n + k /\ accepted' = accepted + k
            /\ IF Overflows THEN pc' = "data" /\ left' = left - k /\ UNCHANGED <<call, result>>
               ELSE Return(Nil)
            /\ UNCHANGED <<file, torn, err>>
         \/ /\ \E j \in 0 .. k : n' = n + j /\ accepted' = accepted + j
            /\ file' = Append(file, Cut(Data(0, accepted - n, accepted'))) /\ Fail("io")
      /\ UNCHANGED <<closed, index, clen>>

(* blockWriter.Close: the LZMA2 writer's rest, then padding and check.     *)
CloseData ==
  /\ pc = "data"
  /\ \E c \in CLens : clen' = c /\ Emit(Data(c, accepted - n, accepted), "check")
  /\ UNCHANGED <<closed, index, n, accepted>>

(* Mutant: the record counts the block's padding.                          *)
BlockRecordPadded == Record(clen + padLen(clen), CheckSize, n)

BlockRecord == Record(clen, CheckSize, n)

(* ... and closeBlockWriter's index record.                                *)
CloseBlock ==
  /\ pc = "check"
  /\ Emit(Check(clen, CheckSize), IF call = "Write" THEN "bheader" ELSE "index")
  /\ index' = IF torn' THEN index ELSE Append(index, BlockRecord)
  /\ UNCHANGED <<closed, n, clen, accepted>>

WriteIndex ==
  /\ pc = "index" /\ Emit(Index(index), "footer")
  /\ UNCHANGED <<closed, index, n, clen, accepted>>

WriteFooter ==
  LET f == Footer(Flags, IndexLen(index))
  IN  /\ pc = "footer"
      /\ \/ file' = Append(file, f) /\ Return(Nil) /\ UNCHANGED <<torn, err>>
         \/ EmitFails(f)
      /\ UNCHANGED <<closed, index, n, clen, accepted>>

XWStep ==
  \/ WriteStreamHeader \/ newBlockWriter \/ Copy \/ CloseData \/ CloseBlock
  \/ WriteIndex \/ WriteFooter
XWCall == Close \/ \E k \in WriteSizes : Write(k)
XWNext == XWStep \/ XWCall
XWSpec == XWInit /\ [][XWNext]_xwvars
-----------------------------------------------------------------------------
XWTypeOK ==
  /\ torn \in BOOLEAN /\ err \in {Nil, "io"} /\ closed \in BOOLEAN
  /\ n \in 0 .. BlockSize /\ clen \in CLens \cup {0}
  /\ pc \in {"none", "header", "bheader", "idle", "copy", "data", "check", "index", "footer"}
  /\ call \in {"New", "none", "Write", "Close"} /\ left \in 0 .. MaxInput
  /\ accepted \in 0 .. MaxInput /\ result \in {Nil, "io", "closed"}

(* Once a write has failed, no later call writes anything: "Write and      *)
(* Close return it from then on and write nothing further".                *)
WritesNothingAfterFailure == [][torn => file' = file /\ err' = err]_xwvars

(* A Writer that failed, in whatever call, never reports success again:    *)
(* not from the Close that follows a failed Write, nor from a second Close *)
(* after the first failed half way through the index.                      *)
NeverRecovers == torn /\ pc = "idle" => result # Nil

(* When Close reports success the blocks are cut as configured: all but    *)
(* the last are full, and none but the first is empty, wherever the writes *)
(* happened to end.                                                        *)
BlocksAsConfigured ==
  closed /\ pc = "idle" /\ ~torn =>
    LET last == Len(index)
    IN  /\ last > 0
        /\ \A i \in 1 .. last - 1 : index[i].size = BlockSize
        /\ last > 1 => index[last].size > 0
=============================================================================
