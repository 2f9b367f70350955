------------------------------ MODULE XZReader ------------------------------
(***************************************************************************)
(* The sequential xz Reader of reader.go over a file given as a sequence   *)
(* of pieces: streams, the padding between them, and in each stream the    *)
(* blocks, the index checked against them, and the footer.  The LZMA2      *)
(* reader under a block is Reader2's; here it hands out the block's bytes. *)
(* The caller stops at the first error.                                    *)
(***************************************************************************)
EXTENDS XZFormat

CONSTANTS
  CheckLen,            (* check size by stream flags                       *)
  MaxRead              (* bound: len(p) of a Read                          *)

VARIABLES
  input, SingleStream, (* the file's pieces; ReaderConfig.SingleStream     *)
  at,                  (* pieces consumed                                  *)
  flags,               (* streamReader.h.flags, NoStream for a nil sr      *)
  seen,                (* streamReader.index                               *)
  block, bn,           (* the piece of the current block's header; its n   *)
  rerr, rpc, want,     (* the error returned; control; bytes of p left     *)
  got                  (* bytes handed to the caller                       *)

xrvars == <<input, SingleStream, at, flags, seen, block, bn, rerr, rpc, want, got>>

NoStream == -1
NoBlock == 0
NoError == "nil"

AtEnd == at = Len(input)
piece == input[at + 1]

XRInit ==
  /\ at = 0 /\ flags = NoStream /\ seen = <<>> /\ block = NoBlock /\ bn = 0
  /\ rerr = NoError /\ rpc = "open" /\ want = 0 /\ got = <<>>

RFail(e) == rerr' = e /\ rpc' = "idle" /\ want' = 0

Read(k) ==
  /\ rpc = "idle" /\ rerr = NoError
  /\ want' = k
  /\ rpc' = IF flags = NoStream THEN "stream" ELSE "read"
  /\ UNCHANGED <<input, SingleStream, at, flags, seen, block, bn, rerr, got>>

(* newStreamReader, of NewReader (open) or between streams.                *)
FirstStream == rpc = "open"

newStreamReader ==
  /\ rpc \in {"open", "stream"} /\ ~(rpc = "stream" /\ SingleStream)
  /\ IF AtEnd THEN RFail(IF FirstStream THEN "unexpectedEOF" ELSE "EOF") /\ UNCHANGED <<at, flags>>
     ELSE IF piece.kind = "pad"
     THEN IF piece.cut \/ FirstStream THEN RFail("corrupt") /\ UNCHANGED <<at, flags>>
          ELSE at' = at + 1 /\ UNCHANGED <<flags, rerr, rpc, want>>
     ELSE IF piece.cut THEN RFail("unexpectedEOF") /\ UNCHANGED <<at, flags>>
     ELSE IF piece.kind # "header" \/ ~piece.ok THEN RFail("corrupt") /\ UNCHANGED <<at, flags>>
     ELSE /\ at' = at + 1 /\ flags' = piece.flags
          /\ rpc' = (IF FirstStream THEN "idle" ELSE "read") /\ UNCHANGED <<rerr, want>>
  /\ seen' = <<>>
  /\ UNCHANGED <<input, SingleStream, block, bn, got>>

(* Mutant: what follows the stream is not looked at.                       *)
TrailingByteIgnored ==
  /\ rpc = "stream" /\ SingleStream
  /\ RFail("EOF")
  /\ UNCHANGED <<input, SingleStream, at, flags, seen, block, bn, got>>

(* SingleStream: one byte past the stream decides.                         *)
TrailingByte ==
  /\ rpc = "stream" /\ SingleStream
  /\ RFail(IF AtEnd THEN "EOF" ELSE "corrupt")
  /\ UNCHANGED <<input, SingleStream, at, flags, seen, block, bn, got>>

(* streamReader.Read without a block: the next block's header, or the      *)
(* index indicator.                                                        *)
NextBlock ==
  /\ rpc = "read" /\ block = NoBlock
  /\ IF AtEnd THEN RFail("unexpectedEOF") /\ UNCHANGED <<at, block>>
     ELSE IF piece.kind = "index" THEN rpc' = "tail" /\ UNCHANGED <<at, block, rerr, want>>
     ELSE IF piece.cut THEN RFail("unexpectedEOF") /\ UNCHANGED <<at, block>>
     ELSE IF piece.kind # "bheader" \/ ~piece.ok THEN RFail("corrupt") /\ UNCHANGED <<at, block>>
     ELSE at' = at + 1 /\ block' = at + 1 /\ UNCHANGED <<rerr, rpc, want>>
  /\ bn' = 0
  /\ UNCHANGED <<input, SingleStream, flags, seen, got>>

(* blockReader.Read: bytes of the block, refused past the size its header  *)
(* declares ...                                                            *)
BlockLen == piece.to - piece.from
Declared == input[block]
Over(declared, actual) == declared >= 0 /\ actual > declared

(* Mutant: more than p has room for.                                       *)
FitsBlock(k) == bn + k <= BlockLen /\ (piece.cut => bn + k < BlockLen)

Fits(k) == k <= want /\ bn + k <= BlockLen /\ (piece.cut => bn + k < BlockLen)

BlockData(k) ==
  /\ rpc = "read" /\ block # NoBlock /\ ~AtEnd /\ piece.kind = "data"
  /\ Fits(k)
  /\ got' = got \o [i \in 1 .. k |-> piece.from + bn + i - 1]
  /\ bn' = bn + k
  /\ IF Over(Declared.usize, bn') THEN RFail("corrupt")
     ELSE IF k = want THEN rpc' = "idle" /\ want' = 0 /\ UNCHANGED rerr
     ELSE want' = want - k /\ UNCHANGED <<rpc, rerr>>
  /\ UNCHANGED <<input, SingleStream, at, flags, seen, block>>

(* Mutant: missing data is corruption.                                     *)
BlockCutIsCorrupt ==
  /\ rpc = "read" /\ block # NoBlock /\ (~AtEnd => piece.kind = "data" /\ piece.cut)
  /\ RFail("corrupt")
  /\ UNCHANGED <<input, SingleStream, at, flags, seen, block, bn, got>>

(* Mutant: a block with no data at all is waited for.                      *)
BlockCutInside ==
  /\ rpc = "read" /\ block # NoBlock /\ ~AtEnd /\ piece.kind = "data" /\ piece.cut
  /\ RFail("unexpectedEOF")
  /\ UNCHANGED <<input, SingleStream, at, flags, seen, block, bn, got>>

BlockCut ==
  /\ rpc = "read" /\ block # NoBlock /\ (~AtEnd => piece.kind = "data" /\ piece.cut)
  /\ RFail("unexpectedEOF")
  /\ UNCHANGED <<input, SingleStream, at, flags, seen, block, bn, got>>

BlockCorrupt ==
  /\ rpc = "read" /\ block # NoBlock /\ ~AtEnd /\ piece.kind = "data"
  /\ ~piece.ok \/ Over(Declared.csize, piece.len)
  /\ RFail("corrupt")
  /\ UNCHANGED <<input, SingleStream, at, flags, seen, block, bn, got>>

(* The padding and check the stream's flags call for.                      *)
CheckEnd == padLen(piece.len) + CheckLen[flags]

(* ... and at its end the declared sizes, padding and check.  Flags that   *)
(* claim a shorter check than the block has leave the rest of it to be     *)
(* read as a block header, which fails or runs past the end of the file.   *)
BlockEnds ==
  /\ rpc = "read" /\ block # NoBlock /\ ~AtEnd /\ piece.kind = "data"
  /\ piece.ok /\ ~piece.cut /\ bn = BlockLen
  /\ IF Over(Declared.csize, piece.len) \/ bn < Declared.usize \/ piece.len < Declared.csize
     THEN RFail("corrupt") /\ UNCHANGED <<at, seen, block>>
     ELSE IF at + 1 = Len(input) THEN RFail("unexpectedEOF") /\ UNCHANGED <<at, seen, block>>
     ELSE IF input[at + 2].cut THEN RFail("unexpectedEOF") /\ UNCHANGED <<at, seen, block>>
     ELSE IF input[at + 2].len > CheckEnd
     THEN (\E e \in {"corrupt", "unexpectedEOF"} : RFail(e)) /\ UNCHANGED <<at, seen, block>>
     ELSE IF ~input[at + 2].ok \/ input[at + 2].len < CheckEnd
     THEN RFail("corrupt") /\ UNCHANGED <<at, seen, block>>
     ELSE /\ at' = at + 2 /\ block' = NoBlock
          /\ seen' = Append(seen, Record(piece.len, CheckLen[flags], bn))
          /\ UNCHANGED <<rerr, rpc, want>>
  /\ UNCHANGED <<input, SingleStream, flags, bn, got>>

(* Mutant: only the number of records is compared.                         *)
IndexCountMatches == Len(piece.recs) = Len(seen)

IndexMatches == piece.recs = seen

(* readTail: the index against the blocks read, then the footer.  A failed *)
(* magic, CRC or reserved bit is one way for a piece not to be ok.         *)
readTail ==
  /\ rpc = "tail"
  /\ LET next == input[at + 2]
         noFooter == at + 1 = Len(input)
     IN  IF piece.ok /\ ~piece.cut /\ IndexMatches
            /\ ~noFooter /\ ~next.cut /\ next.ok
            /\ next.flags = flags /\ next.isize = piece.len
         THEN at' = at + 2 /\ flags' = NoStream /\ rpc' = "stream" /\ UNCHANGED <<rerr, want>>
         ELSE /\ RFail(IF piece.cut THEN "unexpectedEOF"
                       ELSE IF ~piece.ok \/ ~IndexMatches THEN "corrupt"
                       ELSE IF noFooter THEN "unexpectedEOF"
                       ELSE IF next.cut THEN "unexpectedEOF" ELSE "corrupt")
              /\ UNCHANGED <<at, flags>>
  /\ UNCHANGED <<input, SingleStream, seen, block, bn, got>>

XRStep ==
  \/ newStreamReader \/ TrailingByte \/ NextBlock \/ BlockCut \/ BlockCorrupt
  \/ BlockEnds \/ readTail \/ \E k \in 1 .. MaxRead : BlockData(k)
XRCall == \E k \in 1 .. MaxRead : Read(k)
=============================================================================
