----------------------------- MODULE MCReader2 ------------------------------
(***************************************************************************)
(* The LZMA2 reader on its own, over the chunk sequences an encoder may    *)
(* produce: every sequence of types up to its first illegal one, cut off   *)
(* or closed by an end-of-stream chunk.  Each chunk holds two bytes.       *)
(***************************************************************************)
EXTENDS Reader2

CONSTANTS FirstLen, ResetLen   (* bound: chunks in the first and later sequences *)

DataTypes == UncompressedTypes \cup CompressedTypes

(* The chunk sequence of types ts whose bytes are numbered from b, its     *)
(* last chunk cut short if isCut.                                          *)
Encoded(ts, b, isCut) ==
  LET n == Len(ts)
      from(i) == b + 2 * (i - 1)
      after[i \in 0 .. n] ==      (* the encoder's coder state after chunk i *)
        CASE i = 0 -> <<>>
          [] ts[i] = "L" -> Append(after[i - 1], from(i))
          [] ts[i] \in {"LR", "LRN", "LRND"} -> <<from(i)>>
          [] OTHER -> after[i - 1]
      since(i) ==                 (* where its dictionary starts           *)
        LET r == {j \in 1 .. i : ResetsDict(ts[j])}
        IN  IF r = {} THEN b ELSE from(CHOOSE j \in r : \A m \in r : m <= j)
  IN  [i \in 1 .. n |->
        [ctype |-> ts[i], base |-> since(i), from |-> from(i),
         to |-> IF ts[i] = "EOS" THEN from(i) ELSE from(i) + 2,
         cut |-> isCut /\ i = n,
         enc |-> IF ts[i] = "L" THEN after[i - 1] ELSE <<>>, post |-> after[i]]]

TypeSeqs(len) ==
  UNION {{ts \in [1 .. n -> DataTypes \cup {"EOS"}] :
             \A i \in 1 .. n - 1 :
                ts[i] # "EOS" /\ Legal([j \in 1 .. n |-> [ctype |-> ts[j]]], i)} :
         n \in 1 .. len}

SequencesFrom(len, b) ==
  {Encoded(ts, b, isCut) : ts \in TypeSeqs(len), isCut \in {FALSE}} \cup
  {Encoded(ts, b, TRUE) : ts \in {t \in TypeSeqs(len) : t[Len(t)] # "EOS"}}

LaterStreams == SequencesFrom(ResetLen, 100)

MCInit == RInit /\ in \in SequencesFrom(FirstLen, 0) /\ open = FALSE
MCNext == RStep \/ RCall \/ Reset
MCSpec == MCInit /\ [][MCNext]_rvars
MCFairSpec == MCSpec /\ WF_rvars(RStep)
=============================================================================
