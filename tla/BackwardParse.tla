---------------------------- MODULE BackwardParse ---------------------------
(***************************************************************************)
(* How the ParallelReader finds the blocks of a file (parseBlocks and its  *)
(* helpers, parallelreader.go): back to front by byte offsets, from the    *)
(* footers and indexes alone, and what decodeBlock then requires of each.  *)
(* Bytes read where no piece starts are garbage and parse as nothing.      *)
(***************************************************************************)
EXTENDS XZFormat

CONSTANTS
  ParCheckLen,     (* check size by stream flags                           *)
  MaxExpansion     (* maxLZMA2Expansion                                    *)

(* The offset at which piece i ends.                                       *)
EndOf(file, i) ==
  LET end[j \in 0 .. i] == IF j = 0 THEN 0 ELSE end[j - 1] + file[j].len
  IN  end[i]

(* The whole pieces of a kind that start at off and pass their own checks. *)
At(file, off, kind) ==
  {i \in DOMAIN file : /\ file[i].kind = kind /\ file[i].ok /\ ~file[i].cut
                       /\ EndOf(file, i - 1) = off}

Failed == [ok |-> FALSE, blocks |-> <<>>]
(* Mutant: the blocks are taken to lie end to end.                         *)
PaddedNot(k) == k

Padded(k) == k + padLen(k)

(* checkUncompressedSize and blocksLength: -1 for a refusal.               *)
blocksLength(recs, indexStart) ==
  LET sum[i \in 0 .. Len(recs)] ==
        IF i = 0 THEN 0
        ELSE IF sum[i - 1] < 0 \/ recs[i].unpadded <= 0
                \/ recs[i].size > recs[i].unpadded * MaxExpansion
                \/ Padded(recs[i].unpadded) > indexStart - sum[i - 1]
        THEN -1
        ELSE sum[i - 1] + Padded(recs[i].unpadded)
  IN  sum[Len(recs)]

(* parseStream: the stream whose footer ends at pos; its header's offset   *)
(* and its blocks' descriptors, in file order.                             *)
parseStream(file, pos) ==
  LET foot == At(file, pos - FooterLen, "footer")
      f == file[CHOOSE i \in foot : TRUE]
      indexStart == pos - FooterLen - f.isize
      ix == At(file, indexStart, "index")
      x == file[CHOOSE i \in ix : TRUE]
      len == blocksLength(x.recs, indexStart)
      headerPos == indexStart - len - HeaderLen
      hd == At(file, headerPos, "header")
      offset[i \in 0 .. Len(x.recs)] ==
        IF i = 0 THEN headerPos + HeaderLen ELSE offset[i - 1] + Padded(x.recs[i].unpadded)
  IN  IF pos < HeaderLen + FooterLen \/ foot = {} THEN Failed
      ELSE IF indexStart < HeaderLen \/ ix = {} THEN Failed
      ELSE IF Len(x.recs) > (indexStart - HeaderLen) \div MinBlockSize \/ x.len # f.isize THEN Failed
      ELSE IF len < 0 \/ headerPos < 0 \/ hd = {} THEN Failed
      ELSE IF file[CHOOSE i \in hd : TRUE].flags # f.flags THEN Failed
      ELSE [ok |-> TRUE, at |-> headerPos,
            blocks |-> [i \in DOMAIN x.recs |->
                          [offset |-> offset[i - 1], rec |-> x.recs[i], flags |-> f.flags]]]

(* skipStreamPadding: where the groups of four zeros before pos begin.     *)
skipStreamPadding(file, pos) ==
  LET skip[p \in 0 .. pos] ==
        IF p >= 4 /\ At(file, p - 4, "pad") # {} THEN skip[p - 4] ELSE p
  IN  skip[pos]

(* parseBlocks, with joinStreams' front-to-back order.                     *)
parseBlocks(file) ==
  LET size == EndOf(file, Len(file))
      from[pos \in 0 .. size] ==   (* the streams before pos; one follows  *)
        LET p == skipStreamPadding(file, pos)
            s == parseStream(file, p)
        IN  IF pos = 0 THEN [ok |-> TRUE, blocks |-> <<>>]
            ELSE IF pos % 4 # 0 \/ p = 0 THEN Failed
            ELSE IF ~s.ok THEN Failed
            ELSE [ok |-> from[s.at].ok, blocks |-> from[s.at].blocks \o s.blocks]
  IN  IF size = 0 THEN Failed ELSE from[size]

(* Mutant: the block's sizes are not compared with its record.             *)
RecordUnchecked(file, i, d) == TRUE

RecordHolds(file, i, d) ==
  Record(file[i + 1].len, ParCheckLen[d.flags], file[i + 1].to - file[i + 1].from) = d.rec

(* decodeBlock: the block at the descriptor's offset, within its section.  *)
BlockAt(file, d) ==
  {i \in At(file, d.offset, "bheader") :
     /\ i + 2 <= Len(file) /\ file[i + 1].kind = "data" /\ file[i + 2].kind = "check"
     /\ \A j \in {i + 1, i + 2} : file[j].ok /\ ~file[j].cut
     /\ file[i].csize \in {-1, file[i + 1].len}
     /\ file[i].usize \in {-1, file[i + 1].to - file[i + 1].from}
     /\ RecordHolds(file, i, d)}

ParallelAccepts(file) ==
  LET parsed == parseBlocks(file)
  IN  parsed.ok /\ \A i \in DOMAIN parsed.blocks : BlockAt(file, parsed.blocks[i]) # {}

ParallelData(file) ==
  LET bs == parseBlocks(file).blocks
      bytes(i) == LET d == file[1 + CHOOSE j \in BlockAt(file, bs[i]) : TRUE]
                  IN  [k \in 1 .. d.to - d.from |-> d.from + k - 1]
      upTo[i \in 0 .. Len(bs)] == IF i = 0 THEN <<>> ELSE upTo[i - 1] \o bytes(i)
  IN  upTo[Len(bs)]
=============================================================================
