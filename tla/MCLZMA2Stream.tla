--------------------------- MODULE MCLZMA2Stream ----------------------------
(* A small instance of LZMA2Stream.                                        *)
EXTENDS LZMA2Stream
SmallOps == {<<1, 2>>, <<MaxMatchLen, 1>>}
=============================================================================
