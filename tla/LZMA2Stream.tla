---------------------------- MODULE LZMA2Stream -----------------------------
(***************************************************************************)
(* The LZMA2 writer and the LZMA2 reader joined by a pipe: the reader      *)
(* takes the chunks as the writer writes them and meets the end of input   *)
(* when the writer has closed the stream or failed for good.               *)
(***************************************************************************)
EXTENDS Writer2

CONSTANTS MaxFill, MaxRead

VARIABLES taken, rcstate, rerr, dict, unread, rstate, done, good, rpc, want, got

readerVars == <<taken, rcstate, rerr, dict, unread, rstate, done, good, rpc, want, got>>
vars == <<wvars, readerVars>>

MoreToCome == ~torn /\ cstate # "T"

(* The reader's input is the writer's output.                              *)
R == INSTANCE Reader2 WITH in <- wire, open <- MoreToCome, Streams <- {}

Init == WInit /\ R!RInit
WriterStep == WNext /\ UNCHANGED readerVars
ReaderStep == UNCHANGED wvars /\ (R!RStep \/ R!RCall)
Next == WriterStep \/ ReaderStep
Spec == Init /\ [][Next]_vars
-----------------------------------------------------------------------------
(* The caller of the reader gets the writer's input, byte for byte: in     *)
(* every interleaving, with chunks stored or compressed, the decoder       *)
(* starts each chunk in the coder state and with the dictionary the        *)
(* encoder had, although the two sides never exchange either.              *)
RoundTrip == got \o unread = R!Bytes(0, Len(got) + Len(unread))

(* The reader ends cleanly only after a successful Close and with all of   *)
(* its input; after a failed writer it reports a truncated stream, and a   *)
(* sequence the writer produced is never refused as corrupt.               *)
EndsAsWritten ==
  /\ rerr = "EOF" => cstate = "T" /\ Len(got) = accepted
  /\ rerr = "unexpectedEOF" => torn
  /\ rerr # "corrupt"

(* Whenever both sides have processed the same chunks, they agree on the   *)
(* coder state and on the automaton's state.                               *)
InStep ==
  /\ good
  /\ (pc = "idle" /\ taken = Len(wire) /\ ~torn /\ taken > 0) =>
        /\ rcstate = cstate
        /\ (done = head - wire[taken].from /\ rstate # R!NoDecoder) => rstate = state
=============================================================================
