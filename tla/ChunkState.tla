----------------------------- MODULE ChunkState -----------------------------
(***************************************************************************)
(* The LZMA2 chunk types and the automaton over them that both the writer  *)
(* and the reader of lzma/header2.go step through, chunk by chunk.         *)
(***************************************************************************)
EXTENDS Integers

UncompressedTypes == {"UD", "U"}
CompressedTypes == {"L", "LR", "LRN", "LRND"}
ChunkTypes == UncompressedTypes \cup CompressedTypes \cup {"EOS"}
ChunkStates == {"S", "L", "R", "U", "T"}
BadChunk == "error"

(* Mutant: any compressed chunk may follow a dictionary reset.             *)
SetsUpCoderLax(t) == t \in CompressedTypes

(* Chunks that bring their own properties and coder state.                 *)
SetsUpCoder(t) == t \in {"LRN", "LRND"}

(* chunkState.next: the state after a chunk of type t, or errChunkType.    *)
next(c, t) ==
  CASE c = "T" -> BadChunk
    [] c # "T" /\ t = "EOS" -> "T"
    [] c # "T" /\ t = "UD" -> "R"
    [] c = "S" /\ t = "LRND" -> "L"
    [] c = "L" /\ t = "U" -> "U"
    [] c = "L" /\ t \in CompressedTypes -> "L"
    [] c = "R" /\ t = "U" -> "R"
    [] c = "R" /\ SetsUpCoder(t) -> "L"
    [] c = "U" /\ t = "U" -> "U"
    [] c = "U" /\ t \in CompressedTypes -> "L"
    [] OTHER -> BadChunk

(* Mutant: no new coder state after a dictionary reset.                    *)
defaultChunkTypeLax(c) ==
  CASE c = "S" -> "LRND"
    [] c \in {"L", "U", "R"} -> "L"
    [] OTHER -> "EOS"

defaultChunkType(c) ==
  CASE c = "S" -> "LRND"
    [] c \in {"L", "U"} -> "L"
    [] c = "R" -> "LRN"
    [] OTHER -> "EOS"

headerLen(t) ==
  CASE t = "EOS" -> 1
    [] t \in UncompressedTypes -> 3
    [] t \in {"L", "LR"} -> 5
    [] OTHER -> 6
=============================================================================
