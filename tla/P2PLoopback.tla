---------------------------- MODULE P2PLoopback -----------------------------
(***************************************************************************)
(* Replication over a synchronous transport (p2p/sync.c with the loop_send *)
(* of tests/test_p2p_sync.c): the send callback decodes the frame and      *)
(* calls the peer's vicarl_p2p_sync_on_message at once.  The handlers of   *)
(* P2PSync, which take one step there, are here interrupted at each send,  *)
(* and re-entered before the send returns.                                 *)
(*                                                                         *)
(* Node A announces its chain to node B.  There is one chain and it is     *)
(* honest, so a segment is its number: every check of apply_segment but    *)
(* that of the expected number succeeds.                                   *)
(***************************************************************************)
EXTENDS Naturals, Sequences

CONSTANTS
  MaxTip,     \* bound: segments of A
  MaxCount,   \* bound: values of max_segments_per_request
  MaxRounds   \* bound: calls of send_tip

ASSUME LoopbackAssumption ==
  MaxTip \in Nat /\ MaxCount \in Nat \ {0} /\ MaxRounds \in Nat

VARIABLES
  tip,       \* number of segments of A
  max,       \* B's max_inflight
  local,     \* number of segments of B, and B's cached tip
  peer,      \* peer_tip_no of B
  awaiting,  \* awaiting_segments of B
  stack,     \* active calls that wait for a send to return
  ctl,       \* the call being made, the status being returned, or idle
  rounds,    \* calls of send_tip so far
  result,    \* what the last send_tip returned
  start      \* history: local when the last send_tip began

vars == <<tip, max, local, peer, awaiting, stack, ctl, rounds, result, start>>

Idle == [op |-> "idle"]
Call(msg, arg) == [op |-> msg, arg |-> arg]
Return(st) == [op |-> "return", st |-> st]

\* Frames of the stack.
SendTipFrame == [fn |-> "send_tip"]
RequestFrame == [fn |-> "request_more_if_needed"]
ServeFrame(no, sent) == [fn |-> "get_segments", no |-> no, sent |-> sent]

Push(frame) == stack' = <<frame>> \o stack
Top == Head(stack)
Pop == stack' = Tail(stack)

Init ==
  /\ tip \in 0..MaxTip
  /\ max \in 1..MaxCount
  /\ local \in 0..tip
  /\ peer = 0
  /\ awaiting = FALSE
  /\ stack = <<>>
  /\ ctl = Idle
  /\ rounds = 0
  /\ result = "OK"
  /\ start = local

\* A's ledger appends while no call is active.
Extend ==
  /\ ctl = Idle /\ tip < MaxTip
  /\ tip' = tip + 1
  /\ UNCHANGED <<max, local, peer, awaiting, stack, ctl, rounds, result, start>>

SendTip ==
  /\ ctl = Idle /\ rounds < MaxRounds
  /\ rounds' = rounds + 1
  /\ start' = local
  /\ Push(SendTipFrame)
  /\ ctl' = Call("TIP", tip)
  /\ UNCHANGED <<tip, max, local, peer, awaiting, result>>

\* A variant of RequestMore that sets the flag before the send.
RequestMoreFlagFirst(loc, pr, waiting) ==
  \/ /\ pr = 0 \/ loc >= pr \/ waiting
     /\ awaiting' = (waiting /\ loc < pr)
     /\ ctl' = Return("OK") /\ UNCHANGED stack
  \/ /\ loc < pr /\ ~waiting
     /\ awaiting' = TRUE
     /\ Push(RequestFrame)
     /\ ctl' = Call("GET_SEGMENTS", loc + 1)

\* A variant of RequestMore that asks once more at the tip.
RequestMoreAtTip(loc, pr, waiting) ==
  \/ /\ pr = 0 \/ loc > pr \/ waiting
     /\ awaiting' = (waiting /\ loc <= pr)
     /\ ctl' = Return("OK") /\ UNCHANGED stack
  \/ /\ pr # 0 /\ loc <= pr /\ ~waiting
     /\ awaiting' = waiting
     /\ Push(RequestFrame)
     /\ ctl' = Call("GET_SEGMENTS", loc + 1)

\* request_more_if_needed, at the end of a handler of B.
RequestMore(loc, pr, waiting) ==
  \/ /\ pr = 0
     /\ awaiting' = waiting /\ ctl' = Return("OK") /\ UNCHANGED stack
  \/ /\ pr # 0 /\ loc >= pr
     /\ awaiting' = FALSE /\ ctl' = Return("OK") /\ UNCHANGED stack
  \/ /\ loc < pr /\ waiting
     /\ awaiting' = waiting /\ ctl' = Return("OK") /\ UNCHANGED stack
  \/ /\ loc < pr /\ ~waiting
     /\ awaiting' = waiting
     /\ Push(RequestFrame)
     /\ ctl' = Call("GET_SEGMENTS", loc + 1)

OnTip ==
  /\ ctl.op = "TIP"
  /\ peer' = ctl.arg
  /\ RequestMore(local, ctl.arg, awaiting)
  /\ UNCHANGED <<tip, max, local, rounds, result, start>>

OnGetSegments ==
  /\ ctl.op = "GET_SEGMENTS"
  /\ \/ ctl.arg > tip /\ ctl' = Return("OK") /\ UNCHANGED stack
     \/ /\ ctl.arg <= tip
        /\ Push(ServeFrame(ctl.arg, 1))
        /\ ctl' = Call("SEGMENT", ctl.arg)
  /\ UNCHANGED <<tip, max, local, peer, awaiting, rounds, result, start>>

OnSegment ==
  /\ ctl.op = "SEGMENT"
  /\ \/ /\ ctl.arg # local + 1
        /\ ctl' = Return("INVALID_ARGUMENT")
        /\ UNCHANGED <<local, awaiting, stack>>
     \/ /\ ctl.arg = local + 1
        /\ local' = ctl.arg
        /\ RequestMore(ctl.arg, peer,
                       awaiting /\ ~(peer # 0 /\ ctl.arg >= peer))
  /\ UNCHANGED <<tip, max, peer, rounds, result, start>>

\* A send returns to the call that made it.
ReturnToRequest ==
  /\ ctl.op = "return" /\ Top = RequestFrame
  /\ awaiting' = (awaiting \/ ctl.st = "OK")
  /\ Pop
  /\ UNCHANGED <<tip, max, local, peer, ctl, rounds, result, start>>

MoreToServe(frame) == frame.no < tip /\ frame.sent < max

ReturnToServe ==
  /\ ctl.op = "return" /\ Top.fn = "get_segments"
  /\ \/ /\ ctl.st = "OK" /\ MoreToServe(Top)
        /\ stack' = <<ServeFrame(Top.no + 1, Top.sent + 1)>> \o Tail(stack)
        /\ ctl' = Call("SEGMENT", Top.no + 1)
     \/ /\ ctl.st # "OK" \/ ~MoreToServe(Top)
        /\ Pop
        /\ UNCHANGED ctl
  /\ UNCHANGED <<tip, max, local, peer, awaiting, rounds, result, start>>

ReturnToSendTip ==
  /\ ctl.op = "return" /\ Top = SendTipFrame
  /\ result' = ctl.st
  /\ Pop
  /\ ctl' = Idle
  /\ UNCHANGED <<tip, max, local, peer, awaiting, rounds, start>>

Next ==
  \/ Extend \/ SendTip \/ OnTip \/ OnGetSegments \/ OnSegment
  \/ ReturnToRequest \/ ReturnToServe \/ ReturnToSendTip

Spec == Init /\ [][Next]_vars

-----------------------------------------------------------------------------
\* Properties.

\* The first announcement brings B up to A's tip before send_tip returns,
\* however many segments one request may ask for ("Now B should have synced up
\* to tip 3", test_p2p_sync.c:118).
FirstRoundSyncs == ctl = Idle /\ rounds = 1 => local >= peer

\* Each segment B gets in one call nests a request and an answer: the depth of
\* the recursion is twice the number of segments B was behind, plus send_tip.
DepthBounded == peer > start => Len(stack) <= 2 * (peer - start) + 1

\* test_p2p_sync.c:116 asserts that send_tip returns VICARL_OK.
SendTipSucceeds == result = "OK"
=============================================================================
