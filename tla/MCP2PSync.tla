----------------------------- MODULE MCP2PSync ------------------------------
(***************************************************************************)
(* P2PSync for TLC: two nodes a and b, joined by one connection.           *)
(***************************************************************************)
EXTENDS P2PSync, TLC

CONSTANTS a, b, ab, ba, r1, r2

MCHost == [e \in Engine |-> IF e = ab THEN a ELSE b]

MCPeer == [e \in Engine |-> IF e = ab THEN ba ELSE ab]

\* One writer and a reliable connection.
MCStream ==
  [ordered |-> TRUE, faults |-> {}, batches |-> (a :> {<<r1>>} @@ b :> {}),
   maxSeg |-> 3, maxCalls |-> 4]

\* Two writers and every fault.
MCDatagrams ==
  [ordered |-> FALSE, faults |-> FaultKinds,
   batches |-> (a :> {<<r1>>} @@ b :> {<<r1>>, <<r2, r1>>}),
   maxSeg |-> 2, maxCalls |-> 2]

MCSetups == {MCStream, MCDatagrams}

MCStreamOnly == {MCStream}
=============================================================================
