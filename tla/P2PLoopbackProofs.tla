------------------------- MODULE P2PLoopbackProofs --------------------------
(***************************************************************************)
(* Proofs about replication over a synchronous transport (p2p/sync.c under *)
(* the loop_send of tests/test_p2p_sync.c), for chains of any length, any  *)
(* max_segments_per_request and any number of announcements.               *)
(*                                                                         *)
(* Each send calls the peer before it returns, so the handlers nest.       *)
(* DepthInv relates the depth of the stack to the number of segments       *)
(* fetched since send_tip was called, and FirstInv says what the calls of  *)
(* the first round find: on the way down B fetches one segment in each     *)
(* request, and when the first call returns nothing is left to fetch.      *)
(***************************************************************************)
EXTENDS P2PLoopback, SequenceTheorems, TLAPS

\* Most steps are first-order: Zenon is tried first, and then the SMT solver.
\* A step that needs numbers or sequences names the solver.
USE ZenonT(20), SMTT(30)

\* Calls that answer GET_SEGMENTS and wait for a send to return.
ServeFrames == [fn : {"get_segments"}, no : Nat, sent : Nat]

\* Calls that may be on the stack.
Frames == {SendTipFrame, RequestFrame} \cup ServeFrames

\* send_tip, and nothing else, is at the bottom of the stack.
StackOK ==
  /\ stack \in Seq(Frames)
  /\ \A i \in 1..Len(stack) : stack[i] = SendTipFrame <=> i = Len(stack)

\* The shape of the state.
TypeInv ==
  /\ tip \in Nat /\ max \in Nat /\ local \in Nat /\ peer \in Nat /\ start \in Nat
  /\ rounds \in Nat /\ awaiting \in BOOLEAN
  /\ ctl.op \in {"idle", "TIP", "GET_SEGMENTS", "SEGMENT", "return"}
  /\ ctl = Idle <=> ctl.op = "idle"
  /\ ctl.op \in {"TIP", "GET_SEGMENTS", "SEGMENT"} => ctl.arg \in Nat
  /\ StackOK

\* How deep the calls are nested, by where B's chain is.
DepthInv ==
  /\ start <= local
  /\ ctl.op = "idle" <=> Len(stack) = 0
  /\ ctl.op = "TIP" => Len(stack) = 1
  /\ ctl.op = "GET_SEGMENTS" => /\ Len(stack) <= 2 * (local - start) + 2
                                /\ local < peer
  /\ Len(stack) <= 2 * (local - start) + 3
  /\ DepthBounded

\* In the first round the chain is fetched on the way down.
FirstInv ==
  /\ rounds = 0 => ctl.op = "idle" /\ ~awaiting
  /\ rounds = 1 =>
       /\ ctl.op = "idle" => local >= peer
       /\ ctl.op = "TIP" => ctl.arg = tip /\ ~awaiting
       /\ ctl.op = "GET_SEGMENTS" =>
            peer = tip /\ ctl.arg = local + 1 /\ local < peer /\ ~awaiting
       /\ ctl.op = "SEGMENT" =>
            /\ peer = tip
            /\ \/ ctl.arg = local + 1 /\ local < peer /\ ~awaiting
               \/ local >= tip /\ ctl.arg <= tip
       /\ ctl.op = "return" => peer = tip /\ local >= peer

\* The inductive invariant.
IInv == TypeInv /\ DepthInv /\ FirstInv

-----------------------------------------------------------------------------
\* The kinds of calls on the stack can be told apart.
LEMMA FrameKinds ==
  /\ SendTipFrame \in Frames /\ RequestFrame \in Frames
  /\ RequestFrame # SendTipFrame
  /\ \A f \in ServeFrames : f \in Frames /\ f # SendTipFrame
  /\ \A f \in Frames : f.fn = "get_segments" => f \in ServeFrames
  /\ \A no \in Nat, sent \in Nat : ServeFrame(no, sent) \in ServeFrames
<1>1. /\ SendTipFrame \in Frames /\ RequestFrame \in Frames
  BY DEF Frames
<1>2. SendTipFrame.fn = "send_tip" /\ RequestFrame.fn = "request_more_if_needed"
  BY DEF SendTipFrame, RequestFrame
<1>3. \A f \in ServeFrames : f \in Frames /\ f.fn = "get_segments"
  BY DEF Frames, ServeFrames
<1>4. \A no \in Nat, sent \in Nat : ServeFrame(no, sent) \in ServeFrames
  BY DEF ServeFrame, ServeFrames
<1>5. \A f \in Frames : f.fn = "get_segments" => f \in ServeFrames
  BY <1>2 DEF Frames
<1>6. RequestFrame # SendTipFrame
  BY <1>2
<1>7. \A f \in ServeFrames : f # SendTipFrame
  BY <1>2, <1>3
<1> QED
  BY <1>1, <1>3, <1>4, <1>5, <1>6, <1>7

\* A send that calls the peer puts one call on the stack.
LEMMA PushFacts ==
  ASSUME StackOK, NEW f \in Frames, Push(f),
         f = SendTipFrame <=> Len(stack) = 0
  PROVE  StackOK' /\ Len(stack') = Len(stack) + 1 /\ Len(stack) \in Nat
<1>1. stack \in Seq(Frames) /\ stack' = <<f>> \o stack
  BY DEF StackOK, Push
<1>2. /\ <<f>> \in Seq(Frames) /\ Len(<<f>>) = 1 /\ <<f>>[1] = f
      /\ Len(stack) \in Nat
  BY <1>1
<1>3. PICK s \in Seq(Frames) : s = <<f>>
  BY <1>2
<1>4. /\ s \o stack \in Seq(Frames) /\ Len(s \o stack) = 1 + Len(stack)
      /\ \A i \in 1..(1 + Len(stack)) :
           (s \o stack)[i] = IF i <= 1 THEN s[i] ELSE stack[i - 1]
  BY SMT, <1>1, <1>2, <1>3, ConcatProperties
<1>5. /\ stack' \in Seq(Frames) /\ Len(stack') = Len(stack) + 1
      /\ stack'[1] = f
      /\ \A i \in 2..(1 + Len(stack)) : stack'[i] = stack[i - 1]
  BY SMT, <1>1, <1>2, <1>3, <1>4
<1>6. ASSUME NEW i \in 1..Len(stack')
      PROVE  stack'[i] = SendTipFrame <=> i = Len(stack')
  <2>1. CASE i = 1
    BY SMT, <1>2, <1>5, <2>1
  <2>2. CASE i # 1
    <3>1. i - 1 \in 1..Len(stack) /\ stack'[i] = stack[i - 1]
      BY SMT, <1>2, <1>5, <2>2
    <3>2. stack[i - 1] = SendTipFrame <=> i - 1 = Len(stack)
      BY <3>1 DEF StackOK
    <3> QED
      BY SMT, <1>2, <1>5, <3>1, <3>2
  <2> QED
    BY <2>1, <2>2
<1> QED
  BY <1>2, <1>5, <1>6 DEF StackOK

\* A send that returns takes one call off the stack.
LEMMA PopFacts ==
  ASSUME StackOK, Len(stack) # 0, Pop
  PROVE  /\ StackOK' /\ Len(stack') = Len(stack) - 1 /\ Len(stack) \in Nat
         /\ Top \in Frames
         /\ Top = SendTipFrame <=> Len(stack) = 1
<1>1. /\ stack \in Seq(Frames) /\ stack # <<>> /\ stack' = Tail(stack)
      /\ Len(stack) \in Nat
  BY DEF StackOK, Pop
<1>2. /\ stack' \in Seq(Frames) /\ Len(stack') = Len(stack) - 1
      /\ \A i \in 1..Len(stack') : stack'[i] = stack[i + 1]
  BY <1>1, HeadTailProperties
<1>3. Top = stack[1] /\ Top \in Frames
  BY <1>1 DEF Top
<1>4. Top = SendTipFrame <=> Len(stack) = 1
  <2>1. 1 \in 1..Len(stack)
    BY <1>1
  <2>2. stack[1] = SendTipFrame <=> 1 = Len(stack)
    BY <2>1 DEF StackOK
  <2> QED
    BY <1>3, <2>2
<1>5. ASSUME NEW i \in 1..Len(stack')
      PROVE  stack'[i] = SendTipFrame <=> i = Len(stack')
  <2>1. i + 1 \in 1..Len(stack) /\ stack'[i] = stack[i + 1]
    BY <1>1, <1>2
  <2>2. stack[i + 1] = SendTipFrame <=> i + 1 = Len(stack)
    BY <2>1 DEF StackOK
  <2>3. i + 1 = Len(stack) <=> i = Len(stack')
    BY <1>1, <1>2
  <2> QED
    BY <2>1, <2>2, <2>3
<1> QED
  BY <1>1, <1>2, <1>3, <1>4, <1>5 DEF StackOK

\* A serving frame that goes on to the next segment.
LEMMA ReplaceTopFacts ==
  ASSUME StackOK, Len(stack) # 0, NEW f \in ServeFrames,
         stack' = <<f>> \o Tail(stack), Top.fn = "get_segments"
  PROVE  StackOK' /\ Len(stack') = Len(stack) /\ Len(stack) \in Nat /\ Top \in ServeFrames
<1>1. stack \in Seq(Frames) /\ stack # <<>> /\ Len(stack) \in Nat
  BY DEF StackOK
<1>2. Top = stack[1] /\ Top \in ServeFrames
  BY <1>1, FrameKinds DEF Top
<1>3. PICK t \in Seq(Frames) : /\ t = Tail(stack) /\ Len(t) = Len(stack) - 1
                               /\ \A i \in 1..Len(t) : t[i] = stack[i + 1]
  BY ZenonT(60), <1>1, HeadTailProperties
<1>4. PICK s \in Seq(Frames) : s = <<f>> /\ Len(s) = 1 /\ s[1] = f
  <2>1. PICK e \in Frames : e = f
    BY FrameKinds
  <2>2. <<e>> \in Seq(Frames) /\ Len(<<e>>) = 1 /\ <<e>>[1] = e
    OBVIOUS
  <2> QED
    BY <2>1, <2>2
<1>5. /\ s \o t \in Seq(Frames) /\ Len(s \o t) = 1 + Len(t)
      /\ \A i \in 1..(1 + Len(t)) : (s \o t)[i] = IF i <= 1 THEN s[i] ELSE t[i - 1]
  BY SMT, <1>4, ConcatProperties
<1>6. stack' = s \o t
  BY <1>3, <1>4
<1>7. /\ stack' \in Seq(Frames) /\ Len(stack') = Len(stack) /\ stack'[1] = f
      /\ \A i \in 2..Len(stack) : stack'[i] = stack[i]
  BY SMT, <1>1, <1>3, <1>4, <1>5, <1>6
<1>8. ASSUME NEW i \in 1..Len(stack')
      PROVE  stack'[i] = SendTipFrame <=> i = Len(stack')
  <2>1. CASE i = 1
    <3>1. stack[1] # SendTipFrame /\ f # SendTipFrame
      BY <1>2, FrameKinds
    <3>2. Len(stack) # 1
      BY <1>1, <3>1 DEF StackOK
    <3> QED
      BY <1>7, <2>1, <3>1, <3>2
  <2>2. CASE i # 1
    <3>1. i \in 1..Len(stack) /\ stack'[i] = stack[i]
      BY SMT, <1>1, <1>7, <2>2
    <3>2. stack[i] = SendTipFrame <=> i = Len(stack)
      BY <3>1 DEF StackOK
    <3> QED
      BY <1>7, <3>1, <3>2
  <2> QED
    BY <2>1, <2>2
<1> QED
  BY <1>1, <1>2, <1>7, <1>8 DEF StackOK

-----------------------------------------------------------------------------
\* Calls, returns and idling can be told apart.
LEMMA CtlFacts ==
  /\ Idle.op = "idle"
  /\ \A a \in Nat, m \in {"TIP", "GET_SEGMENTS", "SEGMENT"} :
       Call(m, a).op = m /\ Call(m, a).arg = a /\ Call(m, a) # Idle
  /\ \A st : Return(st).op = "return" /\ Return(st).st = st /\ Return(st) # Idle
<1>1. Idle.op = "idle"
  BY DEF Idle
<1>2. \A a \in Nat, m \in {"TIP", "GET_SEGMENTS", "SEGMENT"} :
        Call(m, a).op = m /\ Call(m, a).arg = a
  BY DEF Call
<1>3. \A st : Return(st).op = "return" /\ Return(st).st = st
  BY DEF Return
<1> QED
  BY SMT, <1>1, <1>2, <1>3

\* The invariant holds before the first send_tip.
LEMMA InitIInv == Init => IInv
<1> SUFFICES ASSUME Init PROVE IInv
  OBVIOUS
<1>1. TypeInv
  <2>1. StackOK
    <3>1. stack = <<>> /\ <<>> \in Seq(Frames) /\ 1..Len(<<>>) = {}
      BY DEF Init
    <3> QED
      BY <3>1 DEF StackOK
  <2>2. /\ tip \in Nat /\ max \in Nat /\ local \in Nat /\ peer \in Nat
        /\ start \in Nat /\ rounds \in Nat
    BY LoopbackAssumption DEF Init
  <2>3. awaiting \in BOOLEAN
    BY DEF Init
  <2>4. ctl = Idle /\ ctl.op = "idle"
    BY CtlFacts DEF Init
  <2> QED
    BY <2>1, <2>2, <2>3, <2>4 DEF TypeInv
<1>2. DepthInv
  BY SMT, CtlFacts, LoopbackAssumption DEF Init, DepthInv, DepthBounded
<1>3. FirstInv
  BY SMT, CtlFacts DEF Init, FirstInv
<1> QED
  BY <1>1, <1>2, <1>3 DEF IInv

\* An append of A's ledger between two calls keeps the invariant.
LEMMA ExtendStep == ASSUME IInv, Extend PROVE IInv'
<1>1. TypeInv'
  BY DEF Extend, IInv, TypeInv, StackOK
<1>2. DepthInv'
  BY DEF Extend, IInv, DepthInv, DepthBounded
<1>3. FirstInv'
  BY CtlFacts DEF Extend, IInv, FirstInv
<1> QED
  BY <1>1, <1>2, <1>3 DEF IInv

\* Calling send_tip keeps the invariant.
LEMMA SendTipStep == ASSUME IInv, SendTip PROVE IInv'
<1>1. /\ ctl = Idle /\ rounds' = rounds + 1 /\ start' = local
      /\ Push(SendTipFrame) /\ ctl' = Call("TIP", tip)
      /\ UNCHANGED <<tip, max, local, peer, awaiting, result>>
  BY DEF SendTip
<1>2. TypeInv /\ DepthInv /\ FirstInv /\ ctl.op = "idle" /\ Len(stack) = 0
  BY <1>1, CtlFacts DEF IInv, DepthInv
<1>3. StackOK' /\ Len(stack') = 1
  BY <1>1, <1>2, FrameKinds, PushFacts DEF TypeInv
<1>4. ctl'.op = "TIP" /\ ctl'.arg = tip /\ ctl' # Idle
  BY <1>1, <1>2, CtlFacts DEF TypeInv
<1>5. TypeInv'
  BY SMT, <1>1, <1>2, <1>3, <1>4, CtlFacts DEF TypeInv
<1>6. DepthInv'
  BY <1>1, <1>2, <1>3, <1>4 DEF TypeInv, DepthInv, DepthBounded
<1>7. FirstInv'
  BY <1>1, <1>2, <1>4 DEF TypeInv, FirstInv
<1> QED
  BY <1>5, <1>6, <1>7 DEF IInv

\* request_more_if_needed, called in frame depth n by a handler of B.
LEMMA RequestMoreFacts ==
  ASSUME StackOK, Len(stack) # 0, NEW loc \in Nat, NEW pr \in Nat, NEW w \in BOOLEAN,
         RequestMore(loc, pr, w)
  PROVE  /\ StackOK' /\ awaiting' \in BOOLEAN /\ Len(stack) \in Nat
         /\ \/ /\ ctl' = Return("OK") /\ Len(stack') = Len(stack)
               /\ loc >= pr \/ w
            \/ /\ ctl' = Call("GET_SEGMENTS", loc + 1) /\ Len(stack') = Len(stack) + 1
               /\ loc < pr /\ ~w /\ ~awaiting'
<1>1. Len(stack) \in Nat
  BY DEF StackOK
<1>2. CASE /\ awaiting' \in BOOLEAN /\ ctl' = Return("OK") /\ UNCHANGED stack
           /\ loc >= pr \/ w
  BY <1>1, <1>2 DEF StackOK
<1>3. CASE /\ loc < pr /\ ~w /\ awaiting' = w /\ Push(RequestFrame)
           /\ ctl' = Call("GET_SEGMENTS", loc + 1)
  <2>1. StackOK' /\ Len(stack') = Len(stack) + 1
    BY <1>3, FrameKinds, PushFacts
  <2> QED
    BY <1>1, <1>3, <2>1
<1>4. CASE /\ pr = 0 \/ loc >= pr
           /\ awaiting' = w \/ awaiting' = FALSE
           /\ ctl' = Return("OK") /\ UNCHANGED stack
  <2>1. awaiting' \in BOOLEAN
    BY <1>4
  <2>2. loc >= pr
    BY <1>4
  <2> QED
    BY <1>2, <1>4, <2>1, <2>2
<1>5. CASE /\ loc < pr /\ w /\ awaiting' = w
           /\ ctl' = Return("OK") /\ UNCHANGED stack
  BY <1>2, <1>5
<1> QED
  BY <1>3, <1>4, <1>5 DEF RequestMore

\* B's handler of TIP keeps the invariant.
LEMMA OnTipStep == ASSUME IInv, OnTip PROVE IInv'
<1>1. /\ ctl.op = "TIP" /\ peer' = ctl.arg /\ RequestMore(local, ctl.arg, awaiting)
      /\ UNCHANGED <<tip, max, local, rounds, result, start>>
  BY DEF OnTip
<1>2. TypeInv /\ DepthInv /\ FirstInv /\ Len(stack) = 1 /\ ctl.arg \in Nat
  BY <1>1 DEF IInv, DepthInv, TypeInv
<1>3. /\ StackOK' /\ awaiting' \in BOOLEAN /\ Len(stack) \in Nat
      /\ \/ /\ ctl' = Return("OK") /\ Len(stack') = Len(stack)
            /\ local >= peer' \/ awaiting
         \/ /\ ctl' = Call("GET_SEGMENTS", local + 1) /\ Len(stack') = Len(stack) + 1
            /\ local < peer' /\ ~awaiting /\ ~awaiting'
  BY SMT, <1>1, <1>2, RequestMoreFacts DEF TypeInv
<1>4. CASE /\ ctl' = Return("OK") /\ Len(stack') = Len(stack)
           /\ local >= peer' \/ awaiting
  <2>1. ctl'.op = "return" /\ ctl' # Idle
    BY <1>4, CtlFacts
  <2>2. TypeInv'
    BY <1>1, <1>2, <1>3, <2>1 DEF TypeInv
  <2>3. DepthInv'
    BY <1>1, <1>2, <1>4, <2>1, <2>2 DEF TypeInv, DepthInv, DepthBounded
  <2>4. FirstInv'
    BY <1>1, <1>2, <1>4, <2>1 DEF FirstInv
  <2> QED
    BY <2>2, <2>3, <2>4 DEF IInv
<1>5. CASE /\ ctl' = Call("GET_SEGMENTS", local + 1) /\ Len(stack') = Len(stack) + 1
           /\ local < peer' /\ ~awaiting /\ ~awaiting'
  <2>1. ctl'.op = "GET_SEGMENTS" /\ ctl'.arg = local + 1 /\ ctl' # Idle /\ local + 1 \in Nat
    BY SMT, <1>2, <1>5, CtlFacts DEF TypeInv
  <2>2. TypeInv'
    BY <1>1, <1>2, <1>3, <2>1 DEF TypeInv
  <2>3. DepthInv'
    BY <1>1, <1>2, <1>5, <2>1, <2>2 DEF TypeInv, DepthInv, DepthBounded
  <2>4. FirstInv'
    BY <1>1, <1>2, <1>5, <2>1 DEF FirstInv
  <2> QED
    BY <2>2, <2>3, <2>4 DEF IInv
<1> QED
  BY <1>3, <1>4, <1>5

\* A's handler of GET_SEGMENTS keeps the invariant.
LEMMA OnGetSegmentsStep == ASSUME IInv, OnGetSegments PROVE IInv'
<1>1. /\ ctl.op = "GET_SEGMENTS"
      /\ UNCHANGED <<tip, max, local, peer, awaiting, rounds, result, start>>
  BY DEF OnGetSegments
<1>2. /\ TypeInv /\ DepthInv /\ FirstInv /\ ctl.arg \in Nat /\ StackOK
      /\ Len(stack) \in Nat /\ Len(stack) # 0
      /\ Len(stack) <= 2 * (local - start) + 2 /\ local < peer
  <2>1. TypeInv /\ DepthInv /\ FirstInv
    BY DEF IInv
  <2>2. StackOK /\ ctl.arg \in Nat
    BY <1>1, <2>1 DEF TypeInv
  <2>3. Len(stack) \in Nat
    BY <2>2 DEF StackOK
  <2>4. Len(stack) # 0 /\ Len(stack) <= 2 * (local - start) + 2 /\ local < peer
    BY <1>1, <2>1 DEF DepthInv
  <2> QED
    BY <2>1, <2>2, <2>3, <2>4
<1>3. CASE ctl.arg > tip /\ ctl' = Return("OK") /\ UNCHANGED stack
  <2>1. ctl'.op = "return" /\ ctl' # Idle
    BY <1>3, CtlFacts
  <2>2. TypeInv'
    BY <1>1, <1>2, <1>3, <2>1 DEF TypeInv, StackOK
  <2>3. DepthInv'
    BY <1>1, <1>2, <1>3, <2>1 DEF DepthInv, DepthBounded
  <2>4. FirstInv'
    BY <1>1, <1>2, <1>3, <2>1 DEF FirstInv, TypeInv
  <2> QED
    BY <2>2, <2>3, <2>4 DEF IInv
<1>4. CASE /\ ctl.arg <= tip /\ Push(ServeFrame(ctl.arg, 1))
           /\ ctl' = Call("SEGMENT", ctl.arg)
  <2>1. ctl'.op = "SEGMENT" /\ ctl'.arg = ctl.arg /\ ctl' # Idle
    BY <1>2, <1>4, CtlFacts
  <2>2. StackOK' /\ Len(stack') = Len(stack) + 1
    <3>1. PICK f \in ServeFrames : f = ServeFrame(ctl.arg, 1)
      BY <1>2, FrameKinds
    <3>2. f \in Frames /\ f # SendTipFrame /\ Push(f)
      BY <1>4, <3>1, FrameKinds
    <3> QED
      BY <1>2, <3>2, PushFacts
  <2>3. TypeInv'
    BY <1>1, <1>2, <2>1, <2>2 DEF TypeInv
  <2>4. DepthInv'
    BY <1>1, <1>2, <2>1, <2>2 DEF TypeInv, DepthInv, DepthBounded
  <2>5. FirstInv'
    BY <1>1, <1>2, <1>4, <2>1 DEF FirstInv
  <2> QED
    BY <2>3, <2>4, <2>5 DEF IInv
<1> QED
  BY <1>3, <1>4 DEF OnGetSegments

\* B's handler of SEGMENT keeps the invariant: a segment that is not the next
\* one ends the call with an error and changes nothing.
LEMMA OnSegmentStep == ASSUME IInv, OnSegment PROVE IInv'
<1>1. ctl.op = "SEGMENT" /\ UNCHANGED <<tip, max, peer, rounds, result, start>>
  BY DEF OnSegment
<1>2. /\ TypeInv /\ DepthInv /\ FirstInv /\ ctl.arg \in Nat /\ StackOK
      /\ Len(stack) \in Nat /\ Len(stack) # 0
  <2>1. TypeInv /\ DepthInv /\ FirstInv
    BY DEF IInv
  <2>2. StackOK /\ ctl.arg \in Nat
    BY <1>1, <2>1 DEF TypeInv
  <2>3. Len(stack) \in Nat
    BY <2>2 DEF StackOK
  <2>4. Len(stack) # 0
    BY <1>1, <2>1 DEF DepthInv
  <2> QED
    BY <2>1, <2>2, <2>3, <2>4
<1>3. CASE /\ ctl.arg # local + 1 /\ ctl' = Return("INVALID_ARGUMENT")
           /\ UNCHANGED <<local, awaiting, stack>>
  <2>1. ctl'.op = "return" /\ ctl' # Idle
    BY <1>3, CtlFacts
  <2>2. TypeInv'
    BY <1>1, <1>2, <1>3, <2>1 DEF TypeInv, StackOK
  <2>3. DepthInv'
    BY <1>1, <1>2, <1>3, <2>1 DEF DepthInv, DepthBounded
  <2>4. FirstInv'
    BY <1>1, <1>2, <1>3, <2>1 DEF FirstInv
  <2> QED
    BY <2>2, <2>3, <2>4 DEF IInv
<1>4. CASE /\ ctl.arg = local + 1 /\ local' = ctl.arg
           /\ RequestMore(ctl.arg, peer, awaiting /\ ~(peer # 0 /\ ctl.arg >= peer))
  <2>1. PICK w \in BOOLEAN : w <=> (awaiting /\ ~(peer # 0 /\ ctl.arg >= peer))
    OBVIOUS
  <2>2. w = (awaiting /\ ~(peer # 0 /\ ctl.arg >= peer))
    BY <2>1
  <2>3. RequestMore(local', peer, w)
    BY <1>4, <2>2
  <2>4. local' \in Nat /\ local' = local + 1 /\ peer \in Nat /\ (w => awaiting)
    BY <1>2, <1>4, <2>1 DEF TypeInv
  <2>5. /\ StackOK' /\ awaiting' \in BOOLEAN
        /\ \/ /\ ctl' = Return("OK") /\ Len(stack') = Len(stack)
              /\ local' >= peer \/ w
           \/ /\ ctl' = Call("GET_SEGMENTS", local' + 1) /\ Len(stack') = Len(stack) + 1
              /\ local' < peer /\ ~w /\ ~awaiting'
    BY <1>2, <2>3, <2>4, RequestMoreFacts
  <2>6. CASE /\ ctl' = Return("OK") /\ Len(stack') = Len(stack)
             /\ local' >= peer \/ w
    <3>1. ctl'.op = "return" /\ ctl' # Idle
      BY <2>6, CtlFacts
    <3>2. TypeInv'
      BY <1>1, <1>2, <2>4, <2>5, <3>1 DEF TypeInv
    <3>3. DepthInv'
      BY <1>1, <1>2, <2>4, <2>6, <3>1 DEF TypeInv, DepthInv, DepthBounded
    <3>4. FirstInv'
      BY <1>1, <1>2, <1>4, <2>4, <2>6, <3>1 DEF TypeInv, FirstInv
    <3> QED
      BY <3>2, <3>3, <3>4 DEF IInv
  <2>7. CASE /\ ctl' = Call("GET_SEGMENTS", local' + 1) /\ Len(stack') = Len(stack) + 1
             /\ local' < peer /\ ~w /\ ~awaiting'
    <3>1. /\ ctl'.op = "GET_SEGMENTS" /\ ctl'.arg = local' + 1 /\ ctl' # Idle
          /\ local' + 1 \in Nat
      BY SMT, <2>4, <2>7, CtlFacts
    <3>2. TypeInv'
      BY <1>1, <1>2, <2>4, <2>5, <3>1 DEF TypeInv
    <3>3. DepthInv'
      BY <1>1, <1>2, <2>4, <2>7, <3>1 DEF TypeInv, DepthInv, DepthBounded
    <3>4. FirstInv'
      BY <1>1, <1>2, <1>4, <2>4, <2>7, <3>1 DEF TypeInv, FirstInv
    <3> QED
      BY <3>2, <3>3, <3>4 DEF IInv
  <2> QED
    BY <2>5, <2>6, <2>7
<1> QED
  BY <1>3, <1>4 DEF OnSegment

\* The steps of a return: the depth goes down, B's chain stays.
LEMMA ReturnStep ==
  ASSUME IInv, ReturnToRequest \/ ReturnToServe \/ ReturnToSendTip
  PROVE  IInv'
<1>1. /\ ctl.op = "return"
      /\ UNCHANGED <<tip, max, local, peer, rounds, start>>
  BY DEF ReturnToRequest, ReturnToServe, ReturnToSendTip
<1>2. /\ TypeInv /\ DepthInv /\ FirstInv /\ StackOK
      /\ Len(stack) \in Nat /\ Len(stack) # 0 /\ ctl # Idle
  <2>1. TypeInv /\ DepthInv /\ FirstInv
    BY DEF IInv
  <2>2. StackOK /\ ctl # Idle
    BY <1>1, <2>1 DEF TypeInv
  <2>3. Len(stack) \in Nat
    BY <2>2 DEF StackOK
  <2>4. Len(stack) # 0
    BY <1>1, <2>1 DEF DepthInv
  <2> QED
    BY <2>1, <2>2, <2>3, <2>4
<1>3. CASE ReturnToRequest
  <2>1. /\ Top = RequestFrame /\ Pop /\ ctl' = ctl
        /\ awaiting' = (awaiting \/ ctl.st = "OK")
    BY <1>3 DEF ReturnToRequest
  <2>2. StackOK' /\ Len(stack') = Len(stack) - 1 /\ Len(stack) # 1
    BY <1>2, <2>1, PopFacts, FrameKinds
  <2>3. awaiting' \in BOOLEAN
    BY <2>1
  <2>4. TypeInv'
    BY <1>1, <1>2, <2>1, <2>2, <2>3 DEF TypeInv
  <2>5. DepthInv'
    BY <1>1, <1>2, <2>1, <2>2 DEF TypeInv, DepthInv, DepthBounded
  <2>6. FirstInv'
    BY <1>1, <1>2, <2>1 DEF FirstInv
  <2> QED
    BY <2>4, <2>5, <2>6 DEF IInv
<1>4. CASE ReturnToServe
  <2>1. Top.fn = "get_segments" /\ awaiting' = awaiting
    BY <1>4 DEF ReturnToServe
  <2>2. CASE Pop /\ ctl' = ctl
    <3>1. StackOK' /\ Len(stack') = Len(stack) - 1 /\ Len(stack) # 1
      <4>1. Top # SendTipFrame
        BY <2>1 DEF SendTipFrame
      <4> QED
        BY <1>2, <2>2, <4>1, PopFacts
    <3>2. TypeInv'
      BY <1>1, <1>2, <2>1, <2>2, <3>1 DEF TypeInv
    <3>3. DepthInv'
      BY <1>1, <1>2, <2>2, <3>1 DEF TypeInv, DepthInv, DepthBounded
    <3>4. FirstInv'
      BY <1>1, <1>2, <2>1, <2>2 DEF FirstInv
    <3> QED
      BY <3>2, <3>3, <3>4 DEF IInv
  <2>3. CASE /\ MoreToServe(Top)
             /\ stack' = <<ServeFrame(Top.no + 1, Top.sent + 1)>> \o Tail(stack)
             /\ ctl' = Call("SEGMENT", Top.no + 1)
    <3>1. Top \in ServeFrames
      <4>1. Top \in Frames
        BY <1>2 DEF Top, StackOK
      <4> QED
        BY <2>1, <4>1, FrameKinds
    <3>2. Top.no \in Nat /\ Top.sent \in Nat /\ Top.no < tip
      BY <2>3, <3>1 DEF ServeFrames, MoreToServe
    <3>3. PICK a \in Nat, b \in Nat : a = Top.no + 1 /\ b = Top.sent + 1
      BY <3>2
    <3>4. PICK f \in ServeFrames : f = ServeFrame(a, b)
      BY FrameKinds
    <3>5. StackOK' /\ Len(stack') = Len(stack)
      BY <1>2, <2>1, <2>3, <3>3, <3>4, ReplaceTopFacts
    <3>6. ctl'.op = "SEGMENT" /\ ctl'.arg = a /\ ctl' # Idle /\ a <= tip
      <4>1. tip \in Nat
        BY <1>2 DEF TypeInv
      <4> QED
        BY SMT, <2>3, <3>2, <3>3, <4>1, CtlFacts
    <3>7. TypeInv'
      BY <1>1, <1>2, <2>1, <3>5, <3>6 DEF TypeInv
    <3>8. DepthInv'
      BY <1>1, <1>2, <3>5, <3>6 DEF TypeInv, DepthInv, DepthBounded
    <3>9. FirstInv'
      BY <1>1, <1>2, <2>1, <3>6 DEF TypeInv, FirstInv
    <3> QED
      BY <3>7, <3>8, <3>9 DEF IInv
  <2> QED
    BY <1>4, <2>2, <2>3 DEF ReturnToServe
<1>5. CASE ReturnToSendTip
  <2>1. Top = SendTipFrame /\ Pop /\ ctl' = Idle /\ awaiting' = awaiting
    BY <1>5 DEF ReturnToSendTip
  <2>2. StackOK' /\ Len(stack') = 0
    <3>1. /\ StackOK' /\ Len(stack') = Len(stack) - 1
          /\ Top = SendTipFrame <=> Len(stack) = 1
      BY <1>2, <2>1, PopFacts
    <3>2. Len(stack) = 1
      BY <2>1, <3>1
    <3> QED
      BY <3>1, <3>2
  <2>3. ctl'.op = "idle"
    BY <2>1, CtlFacts
  <2>4. TypeInv'
    BY <1>1, <1>2, <2>1, <2>2, <2>3 DEF TypeInv
  <2>5. DepthInv'
    BY <1>1, <1>2, <2>2, <2>3 DEF TypeInv, DepthInv, DepthBounded
  <2>6. FirstInv'
    BY <1>1, <1>2, <2>1, <2>3 DEF FirstInv
  <2> QED
    BY <2>4, <2>5, <2>6 DEF IInv
<1> QED
  BY <1>3, <1>4, <1>5

\* Every step keeps the invariant.
LEMMA StepIInv == IInv /\ [Next]_vars => IInv'
<1> SUFFICES ASSUME IInv, [Next]_vars PROVE IInv'
  OBVIOUS
<1>1. CASE UNCHANGED vars
  BY <1>1 DEF vars, IInv, TypeInv, StackOK, DepthInv, DepthBounded, FirstInv
<1>2. CASE Next
  BY <1>2, ExtendStep, SendTipStep, OnTipStep, OnGetSegmentsStep, OnSegmentStep,
     ReturnStep DEF Next
<1> QED
  BY <1>1, <1>2

\* The invariant holds in every behaviour.
LEMMA IInvInvariant == Spec => []IInv
BY InitIInv, StepIInv, PTL DEF Spec

\* The first announcement brings B up to the tip of A before send_tip returns,
\* whatever max_segments_per_request is ("Now B should have synced up to tip
\* 3", test_p2p_sync.c:118).
THEOREM FirstRoundComplete == Spec => []FirstRoundSyncs
<1>1. IInv => FirstRoundSyncs
  BY CtlFacts DEF IInv, FirstInv, FirstRoundSyncs
<1> QED
  BY <1>1, IInvInvariant, PTL

\* The handlers of sync.c nest at most twice for each segment that B was behind
\* when send_tip was called, plus send_tip itself: the stack that a synchronous
\* transport needs grows with the length of the chain.
THEOREM RecursionBounded == Spec => []DepthBounded
<1>1. IInv => DepthBounded
  BY DEF IInv, DepthInv
<1> QED
  BY <1>1, IInvInvariant, PTL
=============================================================================
