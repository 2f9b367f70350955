---------------------------- MODULE XZRoundTrip -----------------------------
(***************************************************************************)
(* The xz Writer followed by the two readers: what the writer left behind, *)
(* complete or torn by a failed write, is read by the sequential Reader    *)
(* and located by the ParallelReader's parse.                              *)
(***************************************************************************)
EXTENDS XZWriter

CONSTANTS MaxRead, MaxExpansion

VARIABLES SingleStream, at, flags, seen, block, bn, rerr, rpc, want, got

readerVars == <<SingleStream, at, flags, seen, block, bn, rerr, rpc, want, got>>
vars == <<xwvars, readerVars>>

CheckOf == [f \in {Flags} |-> CheckSize]
R == INSTANCE XZReader WITH input <- file, CheckLen <- CheckOf
P == INSTANCE BackwardParse WITH ParCheckLen <- CheckOf

WriterDone == pc = "none" \/ (pc = "idle" /\ (closed \/ torn))

Init == XWInit /\ R!XRInit /\ SingleStream \in BOOLEAN
Next == \/ XWNext /\ UNCHANGED readerVars
        \/ UNCHANGED xwvars /\ WriterDone /\ (R!XRStep \/ R!XRCall)
Spec == Init /\ [][Next]_vars
-----------------------------------------------------------------------------
Ended == rpc = "idle" /\ rerr # R!NoError

(* The footer's last byte was taken: Close succeeded, or the underlying    *)
(* writer took that byte and failed all the same.                          *)
Whole == file # <<>> /\ file[Len(file)] = Footer(Flags, IndexLen(index))

(* A stream whose Close reported success reads back: a clean end, with all *)
(* the input and nothing else.  A stream that a failed write left behind   *)
(* reads as cut short, wherever it failed, unless all of it got out.       *)
ReadsBack ==
  Ended => /\ closed /\ ~torn => Whole
           /\ IF Whole THEN rerr = "EOF" /\ got = [i \in 1 .. accepted |-> i - 1]
              ELSE rerr = "unexpectedEOF"

(* The index the writer leaves leads the parallel reader to every block,   *)
(* and no torn stream does.                                                *)
LocatesBlocks ==
  Ended => /\ P!ParallelAccepts(file) <=> Whole
           /\ Whole => P!ParallelData(file) = got
=============================================================================
