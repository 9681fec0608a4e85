----------------------------- MODULE HashChain ------------------------------
(***************************************************************************)
(* What a store promises: an append-only sequence of segments.  This is    *)
(* the abstract specification that the storage backends and the            *)
(* replication protocol are shown to implement.  NumberedSpec is the       *)
(* promise of contiguous numbers; LinkedSpec adds that every segment       *)
(* carries the hash of its predecessor.                                    *)
(***************************************************************************)
EXTENDS Segment

VARIABLE chain

Init == chain = <<>>

Extend ==
  /\ Len(chain') = Len(chain) + 1
  /\ \A i \in 1..Len(chain) : chain'[i] = chain[i]

AppendNumbered ==
  /\ Extend
  /\ chain'[Len(chain')].no = Len(chain')

AppendLinked ==
  /\ AppendNumbered
  /\ chain'[Len(chain')].prev = ChainTip(chain).hash

NumberedSpec == Init /\ [][AppendNumbered]_chain

LinkedSpec == Init /\ [][AppendLinked]_chain
=============================================================================
