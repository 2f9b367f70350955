-------------------------- MODULE DeliveryContract --------------------------
(***************************************************************************)
(* What a reader of a whole xz file promises its caller, whatever runs     *)
(* behind it: bytes come out until there is a reason to stop, the reason   *)
(* is recorded once and never replaced, the end of data is reported only   *)
(* when everything has been delivered, and a block that cannot be decoded  *)
(* is reported exactly where it starts, with every byte before it          *)
(* delivered and none of its own.                                          *)
(***************************************************************************)
EXTENDS Naturals

CONSTANTS Total,         (* bytes in the uncompressed stream                *)
          FaultOffsets,  (* where the blocks that may fail start            *)
          FaultErrs, CallerErrs, Nil

VARIABLES sent,          (* bytes delivered so far                          *)
          outcome        (* why the stream stopped, Nil while it has not    *)

Init == sent = 0 /\ outcome = Nil

(* A call that was already running when Close recorded the close may still *)
(* deliver what it has in hand.                                            *)
Deliver ==
  /\ outcome \in {Nil, "closed"}
  /\ sent' \in sent + 1 .. Total
  /\ UNCHANGED outcome

EndOfData == outcome = Nil /\ sent = Total /\ outcome' = "EOF" /\ UNCHANGED sent

BlockFault ==
  /\ outcome = Nil /\ sent \in FaultOffsets
  /\ outcome' \in FaultErrs
  /\ UNCHANGED sent

(* The caller's writer failed, or the caller closed the reader.            *)
CallerStops == outcome = Nil /\ outcome' \in CallerErrs /\ UNCHANGED sent

Next == Deliver \/ EndOfData \/ BlockFault \/ CallerStops

Spec == Init /\ [][Next]_<<sent, outcome>>
=============================================================================
