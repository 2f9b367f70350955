----------------------------- MODULE MCWriter2 ------------------------------
(* Small instances of Writer2: a literal that takes two bytes and a        *)
(* longest match that takes one; DearOps adds a match that takes all of    *)
(* the margin.                                                             *)
EXTENDS Writer2
SmallOps == {<<1, 2>>, <<MaxMatchLen, 1>>}
DearOps == SmallOps \cup {<<MaxMatchLen, Margin>>}
=============================================================================
