-------------------------- MODULE MCParallelReader --------------------------
(* Small instances of ParallelReader.                                      *)
EXTENDS ParallelReader, TLC

CONSTANTS w1, w2, c1, c2

(* Three blocks of 2, 0 and 1 bytes: a block read in two parts, an empty   *)
(* block, and one that ends the file.                                      *)
Offset3 == <<0, 2, 2, 3>>
(* Five blocks, more than the queue of a single worker holds; three are    *)
(* empty.                                                                  *)
Offset5 == <<0, 1, 1, 1, 1, 2>>
Offset2 == <<0, 1, 2>>

Buffers == 1 .. Cardinality(Workers) + 6
WorkerSymmetry == Permutations(Workers)
=============================================================================
