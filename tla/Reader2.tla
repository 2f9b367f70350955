------------------------------ MODULE Reader2 -------------------------------
(***************************************************************************)
(* The LZMA2 reader of lzma/reader2.go over a sequence of chunks, with     *)
(* what it reuses from one chunk, and through Reset from one sequence, to  *)
(* the next: the dictionary, the decoder and its coder state.              *)
(*                                                                         *)
(* A chunk decodes to the bytes it was made from only if the decoder       *)
(* starts it in the coder state the encoder had there (c.enc) and with the *)
(* bytes the encoder had in its dictionary (c.base .. c.from - 1).         *)
(***************************************************************************)
EXTENDS Sequences, ChunkState

CONSTANTS
  Streams,   (* the chunk sequences Reset may be given                     *)
  MaxFill,   (* bound: bytes decoded before the dictionary is drained      *)
  MaxRead    (* bound: len(p) of a Read                                    *)

VARIABLES
  in, open,          (* the chunks of the sequence; whether more may come  *)
  taken,             (* chunks whose header has been read                  *)
  rcstate, rerr,     (* Reader2 fields                                     *)
  dict, unread,      (* bytes since the dictionary reset; not yet read     *)
  rstate,            (* decoder.State, NoDecoder before the first          *)
  done, good,        (* bytes of the chunk decoded; decoded as encoded     *)
  rpc, want,         (* control; bytes of p left to fill                   *)
  got                (* bytes handed to the caller from this sequence      *)

rvars == <<in, open, taken, rcstate, rerr, dict, unread, rstate, done, good,
           rpc, want, got>>

Garbage == -1
NoDecoder == <<Garbage, Garbage>>
PartState == <<Garbage>>
NoError == "nil"

chunk == in[taken]
ChunkLen(c) == c.to - c.from
Bytes(lo, hi) == [i \in 1 .. hi - lo |-> lo + i - 1]

RInit ==
  /\ taken = 0 /\ rcstate = "S" /\ rerr = NoError
  /\ dict = <<>> /\ unread = <<>> /\ rstate = NoDecoder
  /\ done = 0 /\ good = TRUE
  /\ rpc = "chunk" /\ want = 0 /\ got = <<>>

RReturn == rpc' = "idle" /\ want' = 0
RFail(e) == rerr' = e /\ RReturn

(* Reader2.Read: a recorded error is returned at once.                     *)
Read(n) ==
  /\ rpc = "idle" /\ rerr = NoError
  /\ rpc' = "read" /\ want' = n
  /\ UNCHANGED <<in, open, taken, rcstate, rerr, dict, unread, rstate, done, good, got>>

(* Mutant: the dictionary is drained past the end of p.                    *)
TakeAll == Len(unread)

Take == IF want < Len(unread) THEN want ELSE Len(unread)

(* chunkReader.Read drains the dictionary first ...                        *)
Drain ==
  LET k == Take
  IN  /\ rpc = "read" /\ k > 0
      /\ got' = got \o SubSeq(unread, 1, k)
      /\ unread' = SubSeq(unread, k + 1, Len(unread))
      /\ IF k = want THEN RReturn ELSE want' = want - k /\ UNCHANGED rpc
      /\ UNCHANGED <<in, open, taken, rcstate, rerr, dict, rstate, done, good>>

(* ... then decodes more of the chunk into it: decompress, or fill of an   *)
(* uncompressed chunk, whose data may end early.                           *)
Decoded(k) ==
  [i \in 1 .. k |-> IF good THEN chunk.from + done + i - 1 ELSE Garbage]

Decode(k) ==
  /\ rpc = "read" /\ unread = <<>>
  /\ done + k <= ChunkLen(chunk) /\ (chunk.cut => done + k < ChunkLen(chunk))
  /\ dict' = dict \o Decoded(k) /\ unread' = Decoded(k)
  /\ done' = done + k
  /\ rstate' = CASE chunk.ctype \in UncompressedTypes -> rstate
                 [] done' < ChunkLen(chunk) -> PartState
                 [] OTHER -> IF good THEN chunk.post ELSE PartState
  /\ UNCHANGED <<in, open, taken, rcstate, rerr, good, rpc, want, got>>

(* Mutant: the missing data is noticed only before the first byte.         *)
DataEndsAtStart ==
  /\ rpc = "read" /\ unread = <<>> /\ chunk.cut /\ done = 0
  /\ RFail("unexpectedEOF")
  /\ UNCHANGED <<in, open, taken, rcstate, dict, unread, rstate, done, good, got>>

DataEndsEarly ==
  /\ rpc = "read" /\ unread = <<>> /\ chunk.cut
  /\ RFail("unexpectedEOF")
  /\ UNCHANGED <<in, open, taken, rcstate, dict, unread, rstate, done, good, got>>

(* io.EOF of the chunk reader: nextChunk.  A chunk decoded from the wrong  *)
(* state does not leave the range coder at its end.                        *)
NextChunk ==
  /\ rpc = "read" /\ unread = <<>> /\ done = ChunkLen(chunk)
  /\ IF good THEN rpc' = "chunk" /\ UNCHANGED <<rerr, want>> ELSE RFail("corrupt")
  /\ UNCHANGED <<in, open, taken, rcstate, dict, unread, rstate, done, good, got>>

(* Mutant: the end of input between chunks is a clean end.                 *)
HeaderMissingIsEOF ==
  /\ rpc = "chunk" /\ taken = Len(in) /\ ~open
  /\ RFail("EOF")
  /\ UNCHANGED <<in, open, taken, rcstate, dict, unread, rstate, done, good, got>>

(* startChunk, of NewReader2 and Reset when want = 0.  A sequence that     *)
(* ends without an end-of-stream chunk is cut short.                       *)
HeaderMissing ==
  /\ rpc = "chunk" /\ taken = Len(in) /\ ~open
  /\ RFail("unexpectedEOF")
  /\ UNCHANGED <<in, open, taken, rcstate, dict, unread, rstate, done, good, got>>

ResetsDict(t) == t \in {"UD", "LRND"}
(* Mutant: a chunk that resets the coder state starts in the old one.      *)
StateForKeeps(t) == IF rstate = NoDecoder THEN <<>> ELSE rstate

StateFor(t) ==
  IF rstate = NoDecoder \/ t \in {"LR", "LRN", "LRND"} THEN <<>> ELSE rstate

(* The chunk's payload of a compressed chunk is read in full here.         *)
startChunk ==
  LET c == in[taken + 1]
      cs == next(rcstate, c.ctype)
      d == IF ResetsDict(c.ctype) THEN <<>> ELSE dict
  IN  /\ rpc = "chunk" /\ taken < Len(in)
      /\ taken' = taken + 1 /\ done' = 0
      /\ rcstate' = IF cs = BadChunk THEN rcstate ELSE cs
      /\ IF cs = BadChunk
         THEN RFail("corrupt") /\ UNCHANGED <<dict, rstate, good>>
         ELSE IF cs = "T"
         THEN RFail("EOF") /\ UNCHANGED <<dict, rstate, good>>
         ELSE IF c.ctype \in UncompressedTypes
         THEN /\ dict' = d /\ good' = TRUE
              /\ rpc' = (IF want = 0 THEN "idle" ELSE "read")
              /\ UNCHANGED <<rerr, want, rstate>>
         ELSE IF c.cut
         THEN RFail("unexpectedEOF") /\ dict' = d /\ UNCHANGED <<rstate, good>>
         ELSE /\ dict' = d /\ rstate' = StateFor(c.ctype)
              /\ good' = (rstate' = c.enc /\ d = Bytes(c.base, c.from))
              /\ rpc' = (IF want = 0 THEN "idle" ELSE "read")
              /\ UNCHANGED <<rerr, want>>
      /\ UNCHANGED <<in, open, unread, got>>

(* Reset: a fresh sequence on the same dictionary and decoder; what the    *)
(* caller did not read of the old one is dropped.                          *)
Reset ==
  /\ rpc = "idle"
  /\ in' \in Streams
  /\ taken' = 0 /\ rerr' = NoError /\ rcstate' = "S"
  /\ dict' = <<>> /\ unread' = <<>>
  /\ rpc' = "chunk" /\ want' = 0 /\ got' = <<>>
  /\ UNCHANGED <<open, rstate, done, good>>

RStep ==
  \/ Drain \/ DataEndsEarly \/ NextChunk \/ HeaderMissing
  \/ startChunk \/ \E k \in 1 .. MaxFill : Decode(k)
RCall == \E n \in 1 .. MaxRead : Read(n)
-----------------------------------------------------------------------------
RTypeOK ==
  /\ taken \in 0 .. Len(in) /\ open \in BOOLEAN
  /\ rcstate \in ChunkStates
  /\ rerr \in {NoError, "EOF", "unexpectedEOF", "corrupt"}
  /\ rpc \in {"idle", "read", "chunk"} /\ want \in 0 .. MaxRead
  /\ done \in Nat /\ good \in BOOLEAN

(* The format's rule on chunk types, stated without the automaton: a chunk *)
(* may rely only on a dictionary, and on a coder state, that the sequence  *)
(* itself has set up.                                                      *)
Legal(s, i) ==
  LET t == s[i].ctype
      set == {j \in 1 .. i - 1 : ResetsDict(s[j].ctype)}
      new == {j \in 1 .. i - 1 : /\ s[j].ctype \in {"LRN", "LRND"}
                                 /\ \A m \in j .. i - 1 : s[m].ctype # "UD"}
  IN  CASE t \in {"U", "LRN"} -> set # {}
        [] t \in {"L", "LR"} -> new # {}
        [] OTHER -> TRUE

(* The reader refuses a chunk exactly when the rule forbids it, on a       *)
(* reader fresh or reset, in whatever order the types come.                *)
RefusesExactlyIllegal ==
  rpc = "idle" /\ taken > 0 =>
    (rerr = "corrupt" <=> ~Legal(in, taken))

(* The bytes of the sequence's chunks that a correct reader delivers.      *)
DataOf(s, n) ==
  LET data[i \in 0 .. n] ==
        IF i = 0 THEN <<>> ELSE data[i - 1] \o Bytes(s[i].from, s[i].to)
  IN  data[n]

(* What a caller gets is, byte for byte and in order, the data of this     *)
(* sequence: nothing decoded from a coder state or dictionary left over    *)
(* from an earlier chunk or an earlier sequence, nothing unread from it.   *)
DeliversOwnData ==
  LET data == DataOf(in, taken)
  IN  /\ Len(got) + Len(unread) <= Len(data)
      /\ got \o unread = SubSeq(data, 1, Len(got) + Len(unread))

(* io.EOF means the sequence was delivered whole up to its end-of-stream   *)
(* chunk; a sequence cut short never ends cleanly.                         *)
CleanEndIsWhole ==
  rerr = "EOF" => /\ in[taken].ctype = "EOS" /\ got = DataOf(in, taken)
                  /\ \A i \in 1 .. taken : ~in[i].cut /\ Legal(in, i)

(* Every Read and Reset returns once the input has ended: a chunk is       *)
(* decoded to its end, never retried without progress.                     *)
RCallsReturn == (rpc # "idle") ~> (rpc = "idle")
=============================================================================
