----------------------------- MODULE MCXZReader -----------------------------
(***************************************************************************)
(* The sequential reader over every small file: one or two streams of up   *)
(* to two blocks, with padding between and after them, undamaged or with   *)
(* one thing wrong; and the parallel reader's parse of the same files.     *)
(***************************************************************************)
EXTENDS XZReader, BackwardParse, FiniteSets

CheckSizes == [f \in {0, 1} |-> 4 * f]

(* A stream of blocks given as <<compressed length, bytes>>, the bytes     *)
(* numbered from b; sizes says whether its block headers declare them.     *)
Stream(fl, bs, b, sizes) ==
  LET start[i \in 1 .. Len(bs) + 1] == IF i = 1 THEN b ELSE start[i - 1] + bs[i - 1][2]
      parts[i \in 0 .. Len(bs)] ==
        IF i = 0 THEN <<>>
        ELSE parts[i - 1] \o
             << IF sizes THEN BlockHeader(bs[i][1], bs[i][2]) ELSE BlockHeader(-1, -1),
                Data(bs[i][1], start[i], start[i + 1]), Check(bs[i][1], CheckSizes[fl]) >>
      recs == [i \in 1 .. Len(bs) |-> Record(bs[i][1], CheckSizes[fl], bs[i][2])]
  IN  <<Header(fl)>> \o parts[Len(bs)] \o <<Index(recs), Footer(fl, IndexLen(recs))>>

SomeBlocks == {<<>>, <<<<3, 2>>>>, <<<<4, 0>>>>, <<<<5, 2>>, <<4, 1>>>>}
OneStream == {Stream(fl, bs, 0, sz) : fl \in {0, 1}, bs \in SomeBlocks, sz \in BOOLEAN}
First == {Stream(fl, bs, 0, FALSE) : fl \in {0, 1}, bs \in {<<>>, <<<<5, 2>>>>}}
Second == {Stream(1, bs, 10, FALSE) : bs \in {<<>>, <<<<3, 2>>, <<6, 1>>>>}}
Groups == {<<>>, <<Padding(4)>>, <<Padding(4), Padding(4)>>}

GoodFiles == OneStream \cup {s \o p \o t : s \in First, p \in Groups, t \in Second \cup {<<>>}}

(* Cut short inside a stream: within a piece, or between two.              *)
TruncatedFiles ==
  UNION {{Append(SubSeq(f, 1, i - 1), Cut(f[i])) :
            i \in {j \in DOMAIN f : f[j].kind # "pad"}} : f \in GoodFiles}
  \cup UNION {{SubSeq(f, 1, i) : i \in {j \in DOMAIN f : f[j].kind \notin {"footer", "pad"}}} :
              f \in GoodFiles}

(* A piece replaced by one that fails its own check, ...                   *)
BadPieces ==
  UNION {{[f EXCEPT ![i] = Bad(f[i])] : i \in {j \in DOMAIN f : f[j].kind # "pad"}} :
           f \in GoodFiles}

(* ... one that passes it and disagrees with the rest, ...                 *)
Disagreeing(f, i) ==
  CASE f[i].kind \in {"header", "footer"} -> {[f EXCEPT ![i].flags = 1 - @]}
    [] f[i].kind = "bheader" ->
         {[f EXCEPT ![i].csize = f[i + 1].len + d] : d \in {-1, 1}} \cup
         {[f EXCEPT ![i].usize = f[i + 1].to - f[i + 1].from + d] :
             d \in {1} \cup {x \in {-1} : f[i + 1].to > f[i + 1].from}}
    [] OTHER -> {}

(* ... or an index that is consistent in itself and with its footer, but   *)
(* does not describe the blocks.                                           *)
Reindexed(f, i, recs) == [f EXCEPT ![i] = Index(recs), ![i + 1].isize = IndexLen(recs)]
OtherRecords(r) ==
  {Tail(r) : x \in {1} \cap {Len(r)}} \cup {<<r[2], r[1]>> : x \in {2} \cap {Len(r)}}
  \cup {Append(r, Record(3, 4, 1))}
  \cup {[r EXCEPT ![j].unpadded = @ + d] : j \in DOMAIN r, d \in {-4, -1, 1}}
  \cup {[r EXCEPT ![j].size = @ + 1] : j \in DOMAIN r}

LyingFiles ==
  UNION {UNION {Disagreeing(f, i) \cup
                (IF f[i].kind = "index"
                 THEN {Reindexed(f, i, r) : r \in OtherRecords(f[i].recs)} \cup
                      {[f EXCEPT ![i + 1].isize = @ + 4]}
                 ELSE {}) : i \in DOMAIN f} : f \in GoodFiles}

OddFiles == {<<>>, <<Padding(4)>>} \cup {<<Padding(4)>> \o f : f \in OneStream}
            \cup {Append(f, Padding(k)) : f \in OneStream, k \in {1, 2, 3}}

Files == GoodFiles \cup TruncatedFiles \cup BadPieces \cup LyingFiles \cup OddFiles

MCInit == XRInit /\ input \in Files /\ SingleStream \in BOOLEAN
MCNext == XRStep \/ XRCall
MCSpec == MCInit /\ [][MCNext]_xrvars
MCFairSpec == MCSpec /\ WF_xrvars(XRStep)
-----------------------------------------------------------------------------
XRTypeOK ==
  /\ at \in 0 .. Len(input) /\ block \in 0 .. Len(input) /\ bn \in Nat
  /\ flags \in {NoStream, 0, 1} /\ want \in 0 .. MaxRead
  /\ rerr \in {NoError, "EOF", "unexpectedEOF", "corrupt"}
  /\ rpc \in {"open", "idle", "stream", "read", "tail"}
  /\ SingleStream \in BOOLEAN

Ended == rpc = "idle" /\ rerr # NoError

(* io.EOF means a file with nothing wrong: every way of damaging one       *)
(* piece, of cutting the file short, or of making an index, a footer or a  *)
(* block header that passes its own checksum lie about the rest, is        *)
(* reported; and an undamaged file always ends in io.EOF.                  *)
EOFExactlyWhenSound == Ended /\ ~SingleStream => (rerr = "EOF" <=> input \in GoodFiles)

(* "a stream cut short is io.ErrUnexpectedEOF", never corruption and never *)
(* a clean end, wherever in the stream the file ends.                      *)
CutShortIsUnexpectedEOF ==
  Ended /\ ~SingleStream /\ input \in TruncatedFiles => rerr = "unexpectedEOF"

(* The parallel reader, which sees the file back to front and trusts the   *)
(* index for the blocks' places, accepts the files the sequential reader   *)
(* accepts and decodes them to the same data.                              *)
ParallelAgrees ==
  Ended /\ ~SingleStream =>
    /\ rerr = "EOF" <=> ParallelAccepts(input)
    /\ rerr = "EOF" => got = ParallelData(input)

(* With SingleStream the clean end is the end of the one stream: "Any byte *)
(* after the stream is then reported as corruption", zeros included.       *)
SingleStreamAlone ==
  Ended /\ SingleStream => (rerr = "EOF" <=> input \in OneStream \cup First)

(* Every Read returns.                                                     *)
ReadsReturn == (rpc # "idle") ~> (rpc = "idle")
=============================================================================
