----------------------------- MODULE FrameQueue -----------------------------
(***************************************************************************)
(* What a stream connection promises to the sync engines: messages arrive  *)
(* whole, once and in the order in which they were sent, up to the point   *)
(* where the connection ends.                                              *)
(***************************************************************************)
EXTENDS Naturals, Sequences

CONSTANT Message

VARIABLES sent, delivered

Init == sent = <<>> /\ delivered = <<>>

Send ==
  /\ \E m \in Message : sent' = Append(sent, m)
  /\ UNCHANGED delivered

Deliver ==
  /\ Len(delivered) < Len(sent)
  /\ delivered' = Append(delivered, sent[Len(delivered) + 1])
  /\ UNCHANGED sent

Spec == Init /\ [][Send \/ Deliver]_<<sent, delivered>>
=============================================================================
