---------------------------- MODULE MCTcpSession ----------------------------
(***************************************************************************)
(* TcpSession for TLC: each node may have written some segments before the *)
(* first session and between sessions; appends to a store may fail.  One   *)
(* answer holds fewer segments than the server may be ahead.               *)
(***************************************************************************)
EXTENDS TcpSession, TLC

CONSTANTS srv, cli, r1

MCHost == [e \in Engine |-> IF e = Server THEN srv ELSE cli]

MCPeer == [e \in Engine |-> IF e = Server THEN Client ELSE Server]

MCSetups ==
  {[ordered |-> TRUE, faults |-> {"store"},
    batches |-> (srv :> {<<>>} @@ cli :> {<<>>, <<r1>>}),
    maxSeg |-> 3, maxCalls |-> 4 * MaxSessions]}
=============================================================================
