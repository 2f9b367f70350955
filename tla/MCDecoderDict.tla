--------------------------- MODULE MCDecoderDict ----------------------------
(* Small instances of DecoderDict.                                         *)
EXTENDS DecoderDict
=============================================================================
