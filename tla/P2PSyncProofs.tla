--------------------------- MODULE P2PSyncProofs ----------------------------
(***************************************************************************)
(* Proofs about replication (p2p/sync.c), for any nodes, engines and       *)
(* connections, any batches of records and any bounds, with every fault.   *)
(*                                                                         *)
(* The invariant IInv says what apply_segment relies on and what makes it  *)
(* right. Each store is a linked chain of segments that some ledger wrote; *)
(* each segment that a ledger wrote is at its place in that ledger's       *)
(* store; a cached tip is a segment of the chain, if perhaps not the last; *)
(* and a segment on its way to a peer is one that was written, unless it   *)
(* was damaged. The properties follow from the links alone: no two         *)
(* different segments have the same hash.                                  *)
(***************************************************************************)
EXTENDS P2PSync, ChainTheorems

\* Most steps are first-order: Zenon is tried first, and then the SMT solver.
\* A step that needs numbers or sequences names the solver.
USE ZenonT(20), SMTT(30)

USE P2PSyncAssumption

\* Putting two sequences of frames together, as the send callback does with an
\* inbox and what is sent.
LEMMA ConcatFacts ==
  ASSUME NEW s, NEW t, IsSequence(s), IsSequence(t)
  PROVE  IsSequence(s \o t) /\ Range(s \o t) = Range(s) \cup Range(t)
<1> DEFINE S == Range(s) \cup Range(t)
<1>1. s \in Seq(S) /\ t \in Seq(S)
  BY SeqMonotonic DEF IsSequence
<1> HIDE DEF S
<1>2. s \o t \in Seq(S)
  BY <1>1, ConcatProperties
<1>3. s \o t \in Seq(Range(s \o t))
  BY <1>2, SeqOfRange
<1>4. Range(s \o t) = Range(s) \cup Range(t)
  BY SMT, <1>1, RangeConcatenation
<1> QED
  BY <1>3, <1>4 DEF IsSequence

\* Taking one frame out of an inbox, as a delivery that is out of order does.
LEMMA WithoutFacts ==
  ASSUME NEW s, IsSequence(s), NEW i \in DOMAIN s
  PROVE  IsSequence(Without(s, i)) /\ Range(Without(s, i)) \subseteq Range(s)
<1> DEFINE S == Range(s)
<1>1. s \in Seq(S) /\ i \in 1..Len(s) /\ Len(s) \in Nat
  BY SequenceFacts DEF IsSequence
<1> HIDE DEF S
<1>2. SubSeq(s, 1, i - 1) \in Seq(S) /\ SubSeq(s, i + 1, Len(s)) \in Seq(S)
  BY SMT, <1>1, SubSeqProperties
<1>3. Without(s, i) \in Seq(S)
  BY <1>1, <1>2, ConcatProperties DEF Without
<1>4. Without(s, i) \in Seq(Range(Without(s, i)))
  BY <1>3, SeqOfRange
<1>5. Range(Without(s, i)) \subseteq S
  BY SMT, <1>3 DEF Range
<1> QED
  BY <1>4, <1>5 DEF IsSequence, S

\* Replacing one frame of an inbox, as the fault that damages a frame does.
LEMMA ReplaceFacts ==
  ASSUME NEW s, IsSequence(s), NEW i \in DOMAIN s, NEW x
  PROVE  IsSequence([s EXCEPT ![i] = x]) /\ Range([s EXCEPT ![i] = x]) \subseteq Range(s) \cup {x}
<1> DEFINE t == [s EXCEPT ![i] = x]
<1>1. DOMAIN t = 1..Len(s) /\ Len(s) \in Nat /\ t = [j \in 1..Len(s) |-> t[j]]
  BY SequenceFacts
<1>2. IsSequence(t)
  BY <1>1, FunctionIsSequence
<1>3. Range(t) \subseteq Range(s) \cup {x}
  BY DEF Range
<1> QED
  BY <1>2, <1>3

-----------------------------------------------------------------------------
\* The segments that any ledger wrote.
Written == UNION {flushed[n] : n \in Node}

\* A frame that can be on its way: numbers within the bounds, never a request
\* from 0, and a segment that is labelled with its own number and was written
\* by a ledger of the set W unless it was damaged.
GoodMsg(m, max, W) ==
  \/ m = HelloMsg
  \/ m = ErrorMsg
  \/ \E t : m = TipMsg(t) /\ t.no \in 0..max
  \/ \E from \in 1..max : m = GetMsg(from)
  \/ /\ m = [type |-> "SEGMENT", no |-> m.no, hash |-> m.hash, seg |-> m.seg]
     /\ m.no \in 1..max /\ IsSegment(m.seg) /\ m.seg.no = m.no
     /\ m.seg.whole => m.seg \in W

\* Every inbox is a sequence of such frames.
NetGood(q, max, W) ==
  /\ q = [e \in Engine |-> q[e]]
  /\ \A e \in Engine : IsSequence(q[e]) /\ \A m \in Range(q[e]) : GoodMsg(m, max, W)

\* What a call of the engine returns.
Statuses == {"OK", "IO", "FORMAT", "INVALID_ARGUMENT", "UNSUPPORTED"}

\* The shape of the state.
Shape ==
  /\ setup \in Setups
  /\ store = [n \in Node |-> store[n]]
  /\ flushed = [n \in Node |-> flushed[n]]
  /\ localTip = [e \in Engine |-> localTip[e]]
  /\ peerTip = [e \in Engine |-> peerTip[e]]
  /\ awaiting \in [Engine -> BOOLEAN]
  /\ status \in [Engine -> Statuses]
  /\ calls \in 0..setup.maxCalls
  /\ faults \in 0..MaxFaults

\* Each store is a linked chain of segments that were written by a ledger.
StoreInv ==
  \A n \in Node :
    /\ IsSequence(store[n]) /\ Linked(store[n]) /\ Len(store[n]) <= setup.maxSeg
    /\ \A i \in 1..Len(store[n]) : store[n][i] \in Written

\* What a ledger wrote is whole and is still at its place in the store of its
\* node: nothing in the code replaces a segment.
FlushInv ==
  \A n \in Node : \A seg \in flushed[n] :
    /\ IsSegment(seg) /\ seg.whole
    /\ seg.no \in 1..Len(store[n]) /\ store[n][seg.no] = seg

\* The tip a peer announced is within the bounds.
PeerInv == \A e \in Engine : peerTip[e].no \in 0..setup.maxSeg

\* The inductive invariant.
IInv ==
  /\ Shape /\ StoreInv /\ FlushInv /\ CacheOnChain /\ PeerInv
  /\ NetGood(net, setup.maxSeg, Written)

\* The frames that an engine sends are good.
LEMMA GoodFrames ==
  ASSUME NEW max \in Nat, NEW W
  PROVE  /\ GoodMsg(HelloMsg, max, W) /\ GoodMsg(ErrorMsg, max, W)
         /\ \A t : t.no \in 0..max => GoodMsg(TipMsg(t), max, W)
         /\ \A from \in 1..max : GoodMsg(GetMsg(from), max, W)
         /\ \A no \in 1..max, seg \in W :
              IsSegment(seg) /\ seg.no = no => GoodMsg(SegmentMsg(no, seg), max, W)
<1>1. ASSUME NEW no \in 1..max, NEW seg \in W, IsSegment(seg), seg.no = no
      PROVE  GoodMsg(SegmentMsg(no, seg), max, W)
  <2> DEFINE m == SegmentMsg(no, seg)
  <2>1. m.no = no /\ m.hash = Sha256(seg) /\ m.seg = seg
    BY DEF SegmentMsg
  <2>2. m = [type |-> "SEGMENT", no |-> m.no, hash |-> m.hash, seg |-> m.seg]
    BY <2>1 DEF SegmentMsg
  <2> HIDE DEF m
  <2>3. GoodMsg(m, max, W)
    BY <1>1, <2>1, <2>2 DEF GoodMsg
  <2> QED
    BY <2>3 DEF m
<1> QED
  BY <1>1 DEF GoodMsg

\* What the handler of each type of frame may rely on.
LEMMA TypeOfMsg ==
  ASSUME NEW max, NEW W, NEW m, GoodMsg(m, max, W)
  PROVE  /\ m.type = "TIP" => m.tip.no \in 0..max
         /\ m.type = "GET_SEGMENTS" => m.from \in 1..max /\ m.max = MaxInflight
         /\ m.type = "SEGMENT" =>
              /\ m = [type |-> "SEGMENT", no |-> m.no, hash |-> m.hash, seg |-> m.seg]
              /\ m.no \in 1..max /\ IsSegment(m.seg) /\ m.seg.no = m.no
              /\ m.seg.whole => m.seg \in W
<1>1. CASE m = HelloMsg \/ m = ErrorMsg
  BY SMT, <1>1 DEF HelloMsg, ErrorMsg
<1>2. CASE \E t : m = TipMsg(t) /\ t.no \in 0..max
  BY SMT, <1>2 DEF TipMsg
<1>3. CASE \E from \in 1..max : m = GetMsg(from)
  BY SMT, <1>3 DEF GetMsg
<1>4. CASE /\ m = [type |-> "SEGMENT", no |-> m.no, hash |-> m.hash, seg |-> m.seg]
           /\ m.no \in 1..max /\ IsSegment(m.seg) /\ m.seg.no = m.no
           /\ m.seg.whole => m.seg \in W
  <2>1. m.type = "SEGMENT"
    BY <1>4
  <2> QED
    BY <1>4, <2>1
<1> QED
  BY <1>1, <1>2, <1>3, <1>4 DEF GoodMsg

\* Sending good frames keeps the inboxes good.
LEMMA SendGood ==
  ASSUME NEW max, NEW W, NEW q, NetGood(q, max, W), NEW e \in Engine, NEW out,
         IsSequence(out), \A m \in Range(out) : GoodMsg(m, max, W)
  PROVE  NetGood(Send(q, e, out), max, W)
<1> DEFINE p == Peer[e]
<1>1. p \in Engine
  OBVIOUS
<1>2. Send(q, e, out) = [q EXCEPT ![p] = q[p] \o out]
  BY DEF Send
<1> HIDE DEF p
<1>3. IsSequence(q[p] \o out) /\ Range(q[p] \o out) = Range(q[p]) \cup Range(out)
  BY <1>1, ConcatFacts DEF NetGood
<1>4. \A m \in Range(q[p] \o out) : GoodMsg(m, max, W)
  BY <1>1, <1>3 DEF NetGood
<1> QED
  BY <1>1, <1>2, <1>3, <1>4 DEF NetGood

\* A single frame as a sequence.
LEMMA OneFrame ==
  ASSUME NEW m
  PROVE  IsSequence(<<m>>) /\ Range(<<m>>) = {m}
<1>1. <<m>> = Append(<<>>, m)
  OBVIOUS
<1>2. Range(<<>>) = {}
  BY SMT DEF Range
<1>3. IsSequence(<<>>)
  BY EmptySequence
<1>4. IsSequence(Append(<<>>, m)) /\ Range(Append(<<>>, m)) = Range(<<>>) \cup {m}
  BY <1>3, AppendFacts
<1> QED
  BY <1>1, <1>2, <1>4

\* Replacing one inbox by good frames keeps the inboxes good.
LEMMA QueueGood ==
  ASSUME NEW max, NEW W, NEW q, NetGood(q, max, W), NEW e \in Engine, NEW s,
         IsSequence(s), \A m \in Range(s) : GoodMsg(m, max, W)
  PROVE  NetGood([q EXCEPT ![e] = s], max, W)
BY DEF NetGood

\* The invariant holds after vicarl_p2p_sync_init on stores that are empty.
LEMMA InitIInv == Init => IInv
<1> SUFFICES ASSUME Init PROVE IInv
  OBVIOUS
<1>1. setup \in Setups /\ setup.maxSeg \in Nat /\ setup.maxCalls \in Nat
  BY DEF Init
<1>2. Shape
  BY SMT, <1>1 DEF Init, Shape, Statuses
<1>3. StoreInv
  <2>1. \A n \in Node : store[n] = <<>>
    BY DEF Init
  <2>2. Len(<<>>) = 0 /\ IsSequence(<<>>)
    BY EmptySequence
  <2>3. Linked(<<>>)
    BY SMT, <2>2 DEF Linked
  <2> QED
    BY SMTT(30), <1>1, <2>1, <2>2, <2>3 DEF StoreInv
<1>4. FlushInv
  BY DEF Init, FlushInv
<1>5. CacheOnChain
  BY DEF Init, CacheOnChain, NoTip, PrevOf
<1>6. PeerInv
  BY SMT, <1>1 DEF Init, PeerInv, NoTip
<1>7. NetGood(net, setup.maxSeg, Written)
  <2>1. Range(<<>>) = {}
    BY SMT DEF Range
  <2> QED
    BY <2>1, EmptySequence DEF Init, NetGood
<1> QED
  BY <1>2, <1>3, <1>4, <1>5, <1>6, <1>7 DEF IInv

\* A store that grows by one linked segment.
Grows(n, seg) ==
  /\ seg.no = Len(store[n]) + 1 /\ seg.prev = ChainTip(store[n]).hash
  /\ seg.no <= setup.maxSeg
  /\ store' = [store EXCEPT ![n] = Append(@, seg)]

\* When the store of node n grows by one segment that is linked to its tip,
\* every store continues what it was.
LEMMA StoreGrows ==
  ASSUME IInv, NEW n \in Node, NEW seg, Grows(n, seg)
  PROVE  /\ store' = [m \in Node |-> store'[m]]
         /\ Len(store'[n]) = Len(store[n]) + 1
         /\ store'[n][seg.no] = seg
         /\ \A m \in Node :
              /\ Continues(store'[m], store[m])
              /\ Len(store'[m]) <= setup.maxSeg
              /\ m # n => store'[m] = store[m]
<1>1. /\ store' = [m \in Node |-> store'[m]] /\ store'[n] = Append(store[n], seg)
      /\ \A m \in Node \ {n} : store'[m] = store[m]
  BY DEF IInv, Shape, Grows
<1>2. \A m \in Node : IsSequence(store[m]) /\ Linked(store[m])
                      /\ Len(store[m]) <= setup.maxSeg
  BY DEF IInv, StoreInv
<1>3. /\ Continues(store'[n], store[n]) /\ Len(store'[n]) = Len(store[n]) + 1
      /\ store'[n][seg.no] = seg
  BY <1>1, <1>2, AppendContinues DEF Grows
<1>4. \A m \in Node \ {n} : Continues(store'[m], store[m])
  BY <1>1, <1>2, ContinuesItself
<1>5. Len(store'[n]) <= setup.maxSeg
  BY <1>3 DEF Grows
<1> QED
  BY <1>1, <1>2, <1>3, <1>4, <1>5

\* The numbers the engine compares, those of its cached tip and of the tip of
\* its store, are within the bounds.
LEMMA BoundsAreNumbers ==
  ASSUME IInv
  PROVE  /\ setup.maxSeg \in Nat /\ setup.maxCalls \in Nat /\ setup \in Setups
         /\ \A e \in Engine :
              /\ localTip[e].no \in 0..setup.maxSeg
              /\ StoreTip(e).no = Len(store[Host[e]])
              /\ StoreTip(e).hash = PrevOf(store[Host[e]], Len(store[Host[e]]) + 1)
              /\ StoreTip(e).no \in 0..setup.maxSeg
<1>1. setup.maxSeg \in Nat /\ setup.maxCalls \in Nat /\ setup \in Setups
  BY DEF IInv, Shape
<1>2. ASSUME NEW e \in Engine
      PROVE  /\ localTip[e].no \in 0..setup.maxSeg
             /\ StoreTip(e).no = Len(store[Host[e]])
             /\ StoreTip(e).hash = PrevOf(store[Host[e]], Len(store[Host[e]]) + 1)
             /\ StoreTip(e).no \in 0..setup.maxSeg
  <2>1. /\ Host[e] \in Node /\ IsSequence(store[Host[e]])
        /\ Len(store[Host[e]]) <= setup.maxSeg
    BY DEF IInv, StoreInv
  <2>2. Len(store[Host[e]]) \in Nat
    BY <2>1, SequenceFacts
  <2>3. localTip[e].no \in 0..Len(store[Host[e]])
    BY DEF IInv, CacheOnChain
  <2>4. /\ StoreTip(e).no = Len(store[Host[e]])
        /\ StoreTip(e).hash = PrevOf(store[Host[e]], Len(store[Host[e]]) + 1)
    BY <2>1, ChainTipFacts DEF StoreTip
  <2> QED
    BY SMTT(30), <1>1, <2>1, <2>2, <2>3, <2>4
<1> QED
  BY <1>1, <1>2

\* Steps that leave the stores alone and set cached tips only from a store.
LEMMA StoresUntouched ==
  ASSUME IInv, UNCHANGED <<setup, store, flushed>>,
         awaiting' \in [Engine -> BOOLEAN], status' \in [Engine -> Statuses],
         calls' \in 0..setup.maxCalls, faults' \in 0..MaxFaults,
         NEW e \in Engine,
         localTip' = localTip \/ localTip' = [localTip EXCEPT ![e] = StoreTip(e)],
         peerTip' = [g \in Engine |-> peerTip'[g]], PeerInv',
         NetGood(net', setup.maxSeg, Written)
  PROVE  IInv'
<1>1. Shape'
  BY DEF IInv, Shape
<1>2. Written' = Written
  BY SMT DEF Written
<1>3. StoreInv' /\ FlushInv'
  BY <1>2 DEF IInv, StoreInv, FlushInv
<1>4. CacheOnChain'
  <2>1. ASSUME NEW g \in Engine
        PROVE  localTip'[g] = localTip[g] \/ localTip'[g] = StoreTip(g)
    BY SMT DEF IInv, Shape
  <2>2. \A g \in Engine : Len(store[Host[g]]) \in Nat
    BY SequenceFacts DEF IInv, StoreInv
  <2> QED
    BY SMTT(30), <2>1, <2>2, BoundsAreNumbers DEF IInv, CacheOnChain
<1> QED
  BY <1>1, <1>2, <1>3, <1>4 DEF IInv

\* Recording what a call returned.
LEMMA ReturnsStatus ==
  ASSUME IInv, NEW e \in Engine, NEW st \in Statuses, Return(e, st)
  PROVE  status' \in [Engine -> Statuses]
BY DEF IInv, Shape, Return

\* The bound on faults is kept.
LEMMA FaultCount ==
  ASSUME IInv, UNCHANGED faults \/ \E kind \in FaultKinds : Fault(kind)
  PROVE  faults' \in 0..MaxFaults
BY SMT DEF IInv, Shape, Fault

\* request_more_if_needed sends at most one request, and that one is good: it
\* starts one above the local tip, and only when the peer is ahead.
LEMMA RequestMoreFacts ==
  ASSUME IInv, NEW e \in Engine, NEW q, NetGood(q, setup.maxSeg, Written),
         NEW local, local.no \in 0..setup.maxSeg,
         NEW peer, peer.no \in 0..setup.maxSeg, NEW waiting \in BOOLEAN,
         RequestMore(e, q, local, peer, waiting)
  PROVE  /\ NetGood(net', setup.maxSeg, Written)
         /\ awaiting' \in [Engine -> BOOLEAN]
         /\ status' \in [Engine -> Statuses]
         /\ faults' \in 0..MaxFaults
<1>1. setup.maxSeg \in Nat
  BY BoundsAreNumbers
<1>2. awaiting' \in [Engine -> BOOLEAN]
  <2>1. \E b \in BOOLEAN : awaiting' = [awaiting EXCEPT ![e] = b]
    BY DEF RequestMore
  <2> QED
    BY <2>1 DEF IInv, Shape
<1>3. status' \in [Engine -> Statuses] /\ faults' \in 0..MaxFaults
  <2>1. Return(e, "OK") \/ Return(e, "IO")
    BY DEF RequestMore
  <2>2. UNCHANGED faults \/ Fault("send")
    BY DEF RequestMore
  <2>3. "OK" \in Statuses /\ "IO" \in Statuses /\ "send" \in FaultKinds
    BY DEF Statuses, FaultKinds
  <2> QED
    BY <2>1, <2>2, <2>3, ReturnsStatus, FaultCount
<1>4. NetGood(net', setup.maxSeg, Written)
  <2>1. net' = q \/ (Asks(local, peer, waiting)
                     /\ net' = Send(q, e, <<GetMsg(local.no + 1)>>))
    BY DEF RequestMore
  <2>2. ASSUME Asks(local, peer, waiting)
        PROVE  NetGood(Send(q, e, <<GetMsg(local.no + 1)>>), setup.maxSeg, Written)
    <3>1. local.no + 1 \in 1..setup.maxSeg
      BY SMTT(30), <1>1, <2>2 DEF Asks
    <3>2. GoodMsg(GetMsg(local.no + 1), setup.maxSeg, Written)
      BY <1>1, <3>1, GoodFrames
    <3> QED
      BY SMT, <3>2, OneFrame, SendGood
  <2> QED
    BY <2>1, <2>2
<1> QED
  BY <1>2, <1>3, <1>4

\* Steps that append a segment to a store.
LEMMA StoreAppended ==
  ASSUME IInv, NEW n \in Node, NEW seg, Grows(n, seg),
         seg \in Written', setup' = setup, Written \subseteq Written',
         \A m \in Node : \A x \in flushed'[m] :
           x \in flushed[m] \/ (x = seg /\ m = n /\ IsSegment(seg) /\ seg.whole),
         \A e \in Engine :
           \/ localTip'[e] = localTip[e]
           \/ Host[e] = n /\ localTip'[e] = TipOf(seg)
  PROVE  StoreInv' /\ FlushInv' /\ CacheOnChain'
<1>1. /\ Len(store'[n]) = Len(store[n]) + 1 /\ store'[n][seg.no] = seg
      /\ \A m \in Node : /\ Continues(store'[m], store[m])
                         /\ Len(store'[m]) <= setup.maxSeg
                         /\ m # n => store'[m] = store[m]
  BY SMT, StoreGrows
<1>0. seg.no = Len(store[n]) + 1
  BY DEF Grows
<1>2. \A m \in Node : /\ IsSequence(store'[m]) /\ Linked(store'[m])
                      /\ Len(store[m]) \in Nat /\ Len(store'[m]) \in Nat
                      /\ Len(store[m]) <= Len(store'[m])
  BY <1>1, SequenceFacts DEF IInv, StoreInv, Continues
<1>3. StoreInv'
  <2> SUFFICES ASSUME NEW m \in Node, NEW i \in 1..Len(store'[m])
               PROVE  store'[m][i] \in Written'
    BY <1>1, <1>2 DEF StoreInv
  <2>1. CASE i \in 1..Len(store[m])
    <3>1. store'[m][i] = store[m][i]
      BY <1>1, <2>1 DEF Continues
    <3> QED
      BY <2>1, <3>1 DEF IInv, StoreInv
  <2>2. CASE m = n /\ i = seg.no
    BY <1>1, <2>2
  <2>3. i \in 1..Len(store[m]) \/ (m = n /\ i = seg.no)
    BY SMT, <1>0, <1>1, <1>2
  <2> QED
    BY <2>1, <2>2, <2>3
<1>4. FlushInv'
  <2> SUFFICES ASSUME NEW m \in Node, NEW x \in flushed'[m]
               PROVE  /\ IsSegment(x) /\ x.whole
                      /\ x.no \in 1..Len(store'[m]) /\ store'[m][x.no] = x
    BY DEF FlushInv
  <2>1. CASE x \in flushed[m]
    <3>1. /\ IsSegment(x) /\ x.whole
          /\ x.no \in 1..Len(store[m]) /\ store[m][x.no] = x
      BY <2>1 DEF IInv, FlushInv
    <3>2. Len(store[m]) <= Len(store'[m]) /\ store'[m][x.no] = store[m][x.no]
      BY SMT, <1>1, <3>1 DEF Continues
    <3> QED
      BY SMT, <1>2, <3>1, <3>2
  <2>2. CASE x = seg /\ m = n /\ IsSegment(seg) /\ seg.whole
    BY SMT, <1>0, <1>1, <1>2, <2>2
  <2> QED
    BY <2>1, <2>2
<1>5. CacheOnChain'
  <2> SUFFICES ASSUME NEW e \in Engine
               PROVE  /\ localTip'[e].no \in 0..Len(store'[Host[e]])
                      /\ localTip'[e].hash = PrevOf(store'[Host[e]], localTip'[e].no + 1)
    BY DEF CacheOnChain
  <2>0. Host[e] \in Node
    OBVIOUS
  <2>1. CASE localTip'[e] = localTip[e]
    <3>1. /\ localTip[e].no \in 0..Len(store[Host[e]])
          /\ localTip[e].hash = PrevOf(store[Host[e]], localTip[e].no + 1)
      BY DEF IInv, CacheOnChain
    <3>2. localTip[e].no + 1 \in 1..(Len(store[Host[e]]) + 1)
      BY SMTT(30), <1>2, <2>0, <3>1
    <3>3. PrevOf(store'[Host[e]], localTip[e].no + 1) = PrevOf(store[Host[e]], localTip[e].no + 1)
      BY SMTT(30), <1>1, <2>0, <3>2 DEF Continues
    <3>4. localTip[e].no \in 0..Len(store'[Host[e]])
      BY SMT, <1>2, <2>0, <3>1
    <3> QED
      BY <2>1, <3>1, <3>3, <3>4
  <2>2. CASE Host[e] = n /\ localTip'[e] = TipOf(seg)
    <3>1. localTip'[e].no = seg.no /\ localTip'[e].hash = Sha256(seg)
      BY SMT, <2>2 DEF TipOf
    <3>2. seg.no \in Nat /\ seg.no # 0 /\ seg.no = Len(store'[n])
      BY SMTT(30), <1>0, <1>1, <1>2
    <3>3. PrevOf(store'[n], seg.no + 1) = Sha256(seg)
      BY SMT, <1>1, <3>2 DEF PrevOf
    <3> QED
      BY SMTT(30), <2>2, <3>1, <3>2, <3>3
  <2> QED
    BY <2>1, <2>2
<1> QED
  BY <1>3, <1>4, <1>5

\* A flush of the ledger keeps the invariant: the segment it appends is linked
\* to the tip of the store, not to the cached tip of an engine.
LEMMA FlushStep ==
  ASSUME IInv, NEW n \in Node, LedgerFlush(n)
  PROVE  IInv'
<1> DEFINE c == store[n]
<1>1. PICK recs \in setup.batches[n] :
        LET seg == SegmentEncode(Len(c) + 1, ChainTip(c).hash, recs,
                                 MerkleRoot(recs), FALSE)
        IN  /\ store' = [store EXCEPT ![n] = Append(@, seg)]
            /\ flushed' = [flushed EXCEPT ![n] = @ \cup {seg}]
  BY DEF LedgerFlush
<1> DEFINE root == MerkleRoot(recs)
           seg == SegmentEncode(Len(c) + 1, ChainTip(c).hash, recs, root, FALSE)
<1> HIDE DEF root, seg
<1>2. /\ store' = [store EXCEPT ![n] = Append(@, seg)]
      /\ flushed' = [flushed EXCEPT ![n] = @ \cup {seg}]
  BY <1>1 DEF root, seg
<1>3. /\ seg.no = Len(c) + 1 /\ seg.prev = ChainTip(c).hash
      /\ IsSegment(seg) /\ seg.whole
  <2>1. seg = SegmentEncode(Len(c) + 1, ChainTip(c).hash, recs, root, FALSE)
    BY DEF seg
  <2> QED
    BY <2>1 DEF SegmentEncode, IsSegment
<1>4. /\ Len(c) < setup.maxSeg
      /\ UNCHANGED <<setup, localTip, peerTip, awaiting, status, net, calls, faults>>
  BY DEF LedgerFlush
<1>5. Len(c) \in Nat /\ setup.maxSeg \in Nat
  BY BoundsAreNumbers, SequenceFacts DEF IInv, StoreInv
<1>6. seg.no <= setup.maxSeg
  BY SMTT(30), <1>3, <1>4, <1>5
<1>7. /\ flushed' = [m \in Node |-> flushed'[m]]
      /\ \A m \in Node : flushed[m] \subseteq flushed'[m]
      /\ \A m \in Node : \A x \in flushed'[m] : x \in flushed[m] \/ (x = seg /\ m = n)
      /\ seg \in flushed'[n]
  <2>1. flushed = [m \in Node |-> flushed[m]]
    BY DEF IInv, Shape
  <2>2. flushed'[n] = flushed[n] \cup {seg} /\ \A m \in Node \ {n} : flushed'[m] = flushed[m]
    BY <1>2, <2>1
  <2> QED
    BY <1>2, <2>1, <2>2
<1>8. seg \in Written' /\ Written \subseteq Written'
  BY SMTT(30), <1>7 DEF Written
<1>9. StoreInv' /\ FlushInv' /\ CacheOnChain'
  <2>1. Grows(n, seg)
    BY <1>2, <1>3, <1>6 DEF Grows
  <2> QED
    BY <1>3, <1>4, <1>7, <1>8, <2>1, StoreAppended
<1>10. Shape'
  BY <1>2, <1>4, <1>7 DEF IInv, Shape
<1>11. PeerInv'
  BY <1>4 DEF IInv, PeerInv
<1>12. NetGood(net, setup.maxSeg, Written')
  BY <1>8 DEF IInv, NetGood, GoodMsg
<1> QED
  BY <1>4, <1>9, <1>10, <1>11, <1>12 DEF IInv

\* The network without the frame that is being handled.
LEMMA FrameTaken ==
  ASSUME IInv, NEW e \in Engine, NEW i \in DOMAIN net[e]
  PROVE  /\ NetGood([net EXCEPT ![e] = Without(@, i)], setup.maxSeg, Written)
         /\ GoodMsg(net[e][i], setup.maxSeg, Written)
<1>1. /\ NetGood(net, setup.maxSeg, Written) /\ IsSequence(net[e])
      /\ \A m \in Range(net[e]) : GoodMsg(m, setup.maxSeg, Written)
  BY DEF IInv, NetGood
<1>2. /\ IsSequence(Without(net[e], i))
      /\ \A m \in Range(Without(net[e], i)) : GoodMsg(m, setup.maxSeg, Written)
  BY <1>1, WithoutFacts
<1>3. NetGood([net EXCEPT ![e] = Without(net[e], i)], setup.maxSeg, Written)
  BY <1>1, <1>2, QueueGood
<1>4. net[e][i] \in Range(net[e])
  BY DEF Range
<1> QED
  BY <1>1, <1>3, <1>4

\* The segments that answer a request, read from the store, are good frames.
LEMMA AnswerGood ==
  ASSUME IInv, NEW e \in Engine, NEW from \in 1..setup.maxSeg, NEW len \in Nat,
         len = 0 \/ from + len - 1 <= Len(store[Host[e]])
  PROVE  LET out == Answer(store[Host[e]], from, len)
         IN  /\ IsSequence(out)
             /\ \A m \in Range(out) : GoodMsg(m, setup.maxSeg, Written)
<1> DEFINE c == store[Host[e]]
           out == Answer(c, from, len)
<1>1. Host[e] \in Node /\ IsSequence(c) /\ Linked(c) /\ Len(c) <= setup.maxSeg
      /\ \A i \in 1..Len(c) : c[i] \in Written
  BY DEF IInv, StoreInv
<1>2. Len(c) \in Nat /\ setup.maxSeg \in Nat
  BY <1>1, SequenceFacts, BoundsAreNumbers
<1>3. out = [j \in 1..len |-> SegmentMsg(from + j - 1, c[from + j - 1])]
  BY DEF Answer
<1>4. DOMAIN out = 1..len /\ out = [j \in 1..len |-> out[j]]
  BY <1>3
<1>5. IsSequence(out)
  <2> HIDE DEF out
  <2> QED
    BY <1>4, FunctionIsSequence
<1>6. ASSUME NEW m \in Range(out) PROVE GoodMsg(m, setup.maxSeg, Written)
  <2>1. PICK j \in 1..len : m = SegmentMsg(from + j - 1, c[from + j - 1])
    BY <1>3, <1>6 DEF Range
  <2> DEFINE no == from + j - 1
             seg == c[no]
  <2>2. no \in 1..Len(c) /\ no \in 1..setup.maxSeg
    BY SMT, <1>1, <1>2
  <2> HIDE DEF no, seg
  <2>3. seg \in Written /\ seg.no = no
    BY <1>1, <2>2 DEF Linked, seg
  <2>4. IsSegment(seg)
    BY <2>3 DEF IInv, FlushInv, Written
  <2>5. m = SegmentMsg(no, seg)
    BY <2>1 DEF no, seg
  <2> QED
    BY <1>2, <2>2, <2>3, <2>4, <2>5, GoodFrames
<1> QED
  BY <1>5, <1>6

\* Answering GET_SEGMENTS (on_message, sync.c) keeps the invariant, also when
\* reading or sending fails part of the way.
LEMMA GetSegmentsStep ==
  ASSUME IInv, NEW e \in Engine, NEW m, GoodMsg(m, setup.maxSeg, Written),
         NEW q, NetGood(q, setup.maxSeg, Written), OnGetSegments(e, m, q)
  PROVE  IInv'
<1> DEFINE c == store[Host[e]]
           from == OrDefault(m.from, 1)
           len == AnswerLen(StoreTip(e), from, OrDefault(m.max, 128))
<1>1. m.from \in 1..setup.maxSeg /\ m.max = MaxInflight
  BY TypeOfMsg DEF OnGetSegments
<1>2. setup.maxSeg \in Nat /\ StoreTip(e).no = Len(c) /\ Len(c) \in Nat
  BY BoundsAreNumbers, SequenceFacts DEF IInv, StoreInv
<1>3. from \in 1..setup.maxSeg /\ OrDefault(m.max, 128) \in Nat
  BY SMT, <1>1, <1>2 DEF OrDefault
<1>4. \/ net' = Send(q, e, Answer(c, from, len))
      \/ \E sent \in 0..(len - 1) : net' = Send(q, e, Answer(c, from, sent))
  BY DEF OnGetSegments
<1>5. Return(e, "OK") \/ Return(e, "IO")
  BY DEF OnGetSegments
<1>6. UNCHANGED faults \/ Fault("send")
  BY DEF OnGetSegments
<1>7. /\ localTip' = [localTip EXCEPT ![e] = StoreTip(e)]
      /\ UNCHANGED <<setup, store, peerTip, awaiting, calls, flushed>>
  BY DEF OnGetSegments
<1> HIDE DEF from
<1>8. len \in Nat /\ (len = 0 \/ from + len - 1 <= Len(c))
  BY <1>2, <1>3 DEF AnswerLen
<1> HIDE DEF len
<1>9. PICK sent \in 0..len : net' = Send(q, e, Answer(c, from, sent))
  BY SMT, <1>4, <1>8
<1>10. sent \in Nat /\ (sent = 0 \/ from + sent - 1 <= Len(c))
  BY <1>2, <1>3, <1>8
<1>11. NetGood(net', setup.maxSeg, Written)
  <2>1. /\ IsSequence(Answer(c, from, sent))
        /\ \A x \in Range(Answer(c, from, sent)) : GoodMsg(x, setup.maxSeg, Written)
    BY <1>3, <1>10, AnswerGood
  <2> QED
    BY <1>9, <2>1, SendGood
<1>12. status' \in [Engine -> Statuses] /\ faults' \in 0..MaxFaults
  BY <1>5, <1>6, ReturnsStatus, FaultCount DEF Statuses, FaultKinds
<1>13. PeerInv' /\ peerTip' = [g \in Engine |-> peerTip'[g]]
  BY <1>7 DEF IInv, PeerInv, Shape
<1>14. awaiting' \in [Engine -> BOOLEAN] /\ calls' \in 0..setup.maxCalls
  BY <1>7 DEF IInv, Shape
<1> QED
  BY <1>7, <1>11, <1>12, <1>13, <1>14, StoresUntouched

\* What apply_segment has established when it accepts a segment.
LEMMA AcceptedLinks ==
  ASSUME IInv, NEW e \in Engine, NEW m, ApplyStatus(e, m) = "OK"
  PROVE  /\ m.seg.whole
         /\ m.seg.no = Len(store[Host[e]]) + 1
         /\ m.seg.prev = ChainTip(store[Host[e]]).hash
<1> DEFINE c == store[Host[e]]
<1>1. /\ SegmentVerify(m.seg) = "OK" /\ m.seg.no = m.no
      /\ m.no = localTip[e].no + 1 /\ m.seg.prev = localTip[e].hash
      /\ StoreAppendStatus(Host[e], m.seg) = "OK"
  BY DEF ApplyStatus
<1>2. m.seg.whole
  BY <1>1 DEF SegmentVerify, SegmentDecodes
<1>3. m.seg.no = Len(c) + 1
  BY <1>1 DEF StoreAppendStatus
<1>4. /\ localTip[e].no \in 0..Len(c) /\ Len(c) \in Nat
      /\ localTip[e].hash = PrevOf(c, localTip[e].no + 1)
      /\ ChainTip(c).hash = PrevOf(c, Len(c) + 1)
  BY BoundsAreNumbers, SequenceFacts DEF IInv, StoreInv, CacheOnChain, StoreTip
<1>5. localTip[e].no = Len(c)
  BY <1>1, <1>3, <1>4
<1> QED
  BY <1>1, <1>2, <1>3, <1>4, <1>5

\* Accepting a segment (apply_segment and what follows it) keeps the invariant.
\* The check of the link against the cached tip, together with the check of the
\* number by the store, makes the new segment continue the chain.
LEMMA AcceptedStep ==
  ASSUME IInv, NEW e \in Engine, NEW m, GoodMsg(m, setup.maxSeg, Written),
         NEW q, NetGood(q, setup.maxSeg, Written), OnSegmentAccepted(e, m, q)
  PROVE  IInv'
<1> DEFINE n == Host[e]
           seg == m.seg
<1>1. /\ m.type = "SEGMENT" /\ ApplyStatus(e, m) = "OK"
      /\ store' = [store EXCEPT ![n] = Append(@, seg)]
      /\ localTip' = [localTip EXCEPT ![e] = TipOf(seg)]
      /\ UNCHANGED <<setup, peerTip, calls, flushed>>
  BY DEF OnSegmentAccepted
<1>2. n \in Node /\ Written' = Written
  BY <1>1 DEF Written
<1>3. /\ seg.whole /\ seg.no = Len(store[n]) + 1
      /\ seg.prev = ChainTip(store[n]).hash
  BY <1>1, AcceptedLinks
<1>4. seg \in Written /\ seg.no \in 1..setup.maxSeg
  BY <1>1, <1>3, TypeOfMsg
<1>5. Grows(n, seg)
  BY <1>1, <1>3, <1>4, BoundsAreNumbers DEF Grows
<1>6. localTip' = [g \in Engine |-> localTip'[g]]
      /\ localTip'[e] = TipOf(seg) /\ \A g \in Engine \ {e} : localTip'[g] = localTip[g]
  BY <1>1 DEF IInv, Shape
<1>7. RequestMore(e, q, TipOf(seg), peerTip[e],
                  awaiting[e] /\ ~CaughtUp(TipOf(seg), peerTip[e]))
  BY DEF OnSegmentAccepted
<1>8. TipOf(seg).no \in 0..setup.maxSeg /\ peerTip[e].no \in 0..setup.maxSeg
  BY SMT, <1>4, BoundsAreNumbers DEF TipOf, IInv, PeerInv
<1> HIDE DEF n, seg
<1>9. StoreInv' /\ FlushInv' /\ CacheOnChain'
  BY <1>1, <1>2, <1>4, <1>5, <1>6, StoreAppended DEF n
<1>11. /\ NetGood(net', setup.maxSeg, Written)
       /\ awaiting' \in [Engine -> BOOLEAN]
       /\ status' \in [Engine -> Statuses]
       /\ faults' \in 0..MaxFaults
  <2> DEFINE w == awaiting[e] /\ ~CaughtUp(TipOf(seg), peerTip[e])
  <2>1. w \in BOOLEAN /\ RequestMore(e, q, TipOf(seg), peerTip[e], w)
    BY <1>7
  <2> HIDE DEF w
  <2> QED
    BY SMTT(30), <1>8, <2>1, RequestMoreFacts
<1>12. store' = [k \in Node |-> store'[k]]
  BY <1>2, <1>5, StoreGrows
<1>13. Shape'
  BY <1>1, <1>6, <1>11, <1>12 DEF IInv, Shape
<1>14. PeerInv'
  BY <1>1 DEF IInv, PeerInv
<1> QED
  BY <1>1, <1>2, <1>9, <1>11, <1>13, <1>14 DEF IInv

\* What apply_segment returns.
LEMMA VerifyStatus ==
  ASSUME NEW e, NEW m
  PROVE  ApplyStatus(e, m) \in Statuses
<1>1. SegmentVerify(m.seg) \in Statuses
  BY DEF SegmentVerify, Statuses
<1>2. StoreAppendStatus(Host[e], m.seg) \in Statuses
  BY DEF StoreAppendStatus, Statuses
<1>3. "FORMAT" \in Statuses /\ "INVALID_ARGUMENT" \in Statuses
  BY DEF Statuses
<1> QED
  BY <1>1, <1>2, <1>3 DEF ApplyStatus

\* Handling any frame (vicarl_p2p_sync_on_message) keeps the invariant.
LEMMA DeliverStep ==
  ASSUME IInv, NEW e \in Engine, Deliver(e)
  PROVE  IInv'
<1>1. PICK i \in Arrives(e) :
        LET m == net[e][i]
            q == [net EXCEPT ![e] = Without(@, i)]
        IN  \/ OnHello(e, m, q) \/ OnError(e, m, q) \/ OnTip(e, m, q)
            \/ OnGetSegments(e, m, q)
            \/ OnSegmentAccepted(e, m, q) \/ OnSegmentRejected(e, m, q)
  BY DEF Deliver
<1> DEFINE m == net[e][i]
           q == [net EXCEPT ![e] = Without(@, i)]
<1>2. i \in DOMAIN net[e]
  BY <1>1 DEF Arrives
<1>3. GoodMsg(m, setup.maxSeg, Written) /\ NetGood(q, setup.maxSeg, Written)
  BY <1>2, FrameTaken
<1>4. \/ OnHello(e, m, q) \/ OnError(e, m, q) \/ OnTip(e, m, q)
      \/ OnGetSegments(e, m, q)
      \/ OnSegmentAccepted(e, m, q) \/ OnSegmentRejected(e, m, q)
  BY <1>1
<1> HIDE DEF m, q
<1>5. CASE OnHello(e, m, q) \/ OnError(e, m, q) \/ OnSegmentRejected(e, m, q)
  <2>1. /\ UNCHANGED <<setup, store, localTip, peerTip, awaiting, calls, flushed>>
        /\ net' = q
    BY <1>5 DEF OnHello, OnError, OnSegmentRejected
  <2>2. Return(e, "OK") \/ Return(e, "IO") \/ Return(e, ApplyStatus(e, m))
    BY <1>5 DEF OnHello, OnError, OnSegmentRejected
  <2>3. UNCHANGED faults \/ Fault("store")
    BY <1>5 DEF OnHello, OnError, OnSegmentRejected
  <2>4. "OK" \in Statuses /\ "IO" \in Statuses /\ ApplyStatus(e, m) \in Statuses
        /\ "store" \in FaultKinds
    BY VerifyStatus DEF Statuses, FaultKinds
  <2>5. status' \in [Engine -> Statuses] /\ faults' \in 0..MaxFaults
    BY <2>2, <2>3, <2>4, ReturnsStatus, FaultCount
  <2>6. PeerInv' /\ peerTip' = [g \in Engine |-> peerTip'[g]]
    BY <2>1 DEF IInv, PeerInv, Shape
  <2>7. awaiting' \in [Engine -> BOOLEAN] /\ calls' \in 0..setup.maxCalls
    BY <2>1 DEF IInv, Shape
  <2> QED
    BY <1>3, <2>1, <2>5, <2>6, <2>7, StoresUntouched
<1>6. CASE OnTip(e, m, q)
  <2>1. /\ m.type = "TIP" /\ peerTip' = [peerTip EXCEPT ![e] = m.tip]
        /\ RequestMore(e, q, localTip[e], m.tip, awaiting[e])
        /\ UNCHANGED <<setup, store, localTip, calls, flushed>>
    BY <1>6 DEF OnTip
  <2>2. m.tip.no \in 0..setup.maxSeg /\ localTip[e].no \in 0..setup.maxSeg
        /\ awaiting[e] \in BOOLEAN
    BY <1>3, <2>1, TypeOfMsg, BoundsAreNumbers DEF IInv, Shape
  <2>3. /\ NetGood(net', setup.maxSeg, Written)
        /\ awaiting' \in [Engine -> BOOLEAN]
        /\ status' \in [Engine -> Statuses]
        /\ faults' \in 0..MaxFaults
    BY SMTT(30), <1>3, <2>1, <2>2, RequestMoreFacts
  <2>4. PeerInv' /\ peerTip' = [g \in Engine |-> peerTip'[g]]
    BY <2>1, <2>2 DEF IInv, PeerInv, Shape
  <2>5. calls' \in 0..setup.maxCalls
    BY <2>1 DEF IInv, Shape
  <2> QED
    BY <2>1, <2>3, <2>4, <2>5, StoresUntouched
<1>7. CASE OnGetSegments(e, m, q)
  BY <1>3, <1>7, GetSegmentsStep
<1>8. CASE OnSegmentAccepted(e, m, q)
  BY <1>3, <1>8, AcceptedStep
<1> QED
  BY <1>4, <1>5, <1>6, <1>7, <1>8

\* send_hello and send_tip keep the invariant; send_tip refreshes the cache.
LEMMA SendStep ==
  ASSUME IInv, NEW e \in Engine, SendHello(e) \/ SendTip(e)
  PROVE  IInv'
<1>1. \E m : /\ GoodMsg(m, setup.maxSeg, Written)
             /\ net' = Send(net, e, <<m>>) \/ net' = net
  <2>0. GoodMsg(HelloMsg, setup.maxSeg, Written)
    BY BoundsAreNumbers, GoodFrames
  <2>1. CASE SendHello(e)
    BY <2>0, <2>1 DEF SendHello
  <2>2. CASE SendTip(e)
    <3>1. GoodMsg(TipMsg(StoreTip(e)), setup.maxSeg, Written)
      <4> DEFINE t == StoreTip(e)
      <4>1. t.no \in 0..setup.maxSeg /\ setup.maxSeg \in Nat
        BY BoundsAreNumbers
      <4> HIDE DEF t
      <4>2. GoodMsg(TipMsg(t), setup.maxSeg, Written)
        BY <4>1, GoodFrames
      <4> QED
        BY <4>2 DEF t
    <3> QED
      BY <2>2, <3>1 DEF SendTip
  <2> QED
    BY <2>1, <2>2
<1>2. NetGood(net', setup.maxSeg, Written)
  <2>1. NetGood(net, setup.maxSeg, Written)
    BY DEF IInv
  <2> QED
    BY SMT, <1>1, <2>1, OneFrame, SendGood
<1>3. /\ UNCHANGED <<setup, store, peerTip, awaiting, flushed>>
      /\ localTip' = localTip \/ localTip' = [localTip EXCEPT ![e] = StoreTip(e)]
      /\ calls < setup.maxCalls /\ calls' = calls + 1
  BY DEF SendHello, SendTip
<1>4. Return(e, "OK") \/ Return(e, "IO")
  BY DEF SendHello, SendTip
<1>5. UNCHANGED faults \/ Fault("send")
  BY DEF SendHello, SendTip
<1>6. status' \in [Engine -> Statuses] /\ faults' \in 0..MaxFaults
  BY <1>4, <1>5, ReturnsStatus, FaultCount DEF Statuses, FaultKinds
<1>7. PeerInv' /\ peerTip' = [g \in Engine |-> peerTip'[g]]
  BY <1>3 DEF IInv, PeerInv, Shape
<1>8. awaiting' \in [Engine -> BOOLEAN] /\ calls' \in 0..setup.maxCalls
  BY SMTT(30), <1>3, BoundsAreNumbers DEF IInv, Shape
<1> QED
  BY <1>2, <1>3, <1>6, <1>7, <1>8, StoresUntouched

\* Destroying an engine and initialising it again keeps the invariant: the new
\* cache is the tip of the store.
LEMMA RestartStep ==
  ASSUME IInv, NEW e \in Engine, Restart(e)
  PROVE  IInv'
<1>1. /\ UNCHANGED <<setup, store, net, calls, flushed>>
      /\ localTip' = [localTip EXCEPT ![e] = StoreTip(e)]
      /\ peerTip' = [peerTip EXCEPT ![e] = NoTip]
      /\ awaiting' = [awaiting EXCEPT ![e] = FALSE]
      /\ Return(e, "OK") /\ Fault("restart")
  BY DEF Restart
<1>2. status' \in [Engine -> Statuses] /\ faults' \in 0..MaxFaults
  BY <1>1, ReturnsStatus, FaultCount DEF Statuses, FaultKinds
<1>3. PeerInv' /\ peerTip' = [g \in Engine |-> peerTip'[g]]
  <2>1. NoTip.no = 0 /\ setup.maxSeg \in Nat
    BY BoundsAreNumbers DEF NoTip
  <2> QED
    BY SMT, <1>1, <2>1 DEF IInv, PeerInv, Shape
<1>4. awaiting' \in [Engine -> BOOLEAN] /\ calls' \in 0..setup.maxCalls
  BY <1>1 DEF IInv, Shape
<1>5. NetGood(net', setup.maxSeg, Written)
  BY <1>1 DEF IInv
<1> QED
  BY <1>1, <1>2, <1>3, <1>4, <1>5, StoresUntouched

\* A damaged segment frame is good: it no longer claims to be what was written.
LEMMA DamagedGood ==
  ASSUME NEW max \in Nat, NEW W, NEW m, GoodMsg(m, max, W), m.type = "SEGMENT"
  PROVE  GoodMsg(Damaged(m), max, W)
<1> DEFINE t == Truncated(m.seg)
           d == [m EXCEPT !.seg = t]
<1>1. /\ m = [type |-> "SEGMENT", no |-> m.no, hash |-> m.hash, seg |-> m.seg]
      /\ m.no \in 1..max /\ IsSegment(m.seg) /\ m.seg.no = m.no
  BY SMT, TypeOfMsg
<1>2. IsSegment(t) /\ ~t.whole /\ t.no = m.no
  BY <1>1, TruncatedFacts
<1> HIDE DEF t
<1>3. d.no = m.no /\ d.hash = m.hash /\ d.seg = t
  BY <1>1
<1>4. d = [type |-> "SEGMENT", no |-> d.no, hash |-> d.hash, seg |-> d.seg]
  BY SMTT(30), <1>1, <1>3
<1> HIDE DEF d
<1>5. GoodMsg(d, max, W)
  BY <1>1, <1>2, <1>3, <1>4 DEF GoodMsg
<1> QED
  BY <1>5 DEF d, t, Damaged

\* Losing, repeating or damaging a frame keeps the invariant.
LEMMA NetworkFaultStep ==
  ASSUME IInv, NEW e \in Engine, NetworkFault(e)
  PROVE  IInv'
<1>1. /\ UNCHANGED <<setup, store, localTip, peerTip, awaiting, status, calls, flushed>>
      /\ \E kind \in FaultKinds : Fault(kind)
  BY DEF NetworkFault, FaultKinds
<1>2. /\ IsSequence(net[e]) /\ NetGood(net, setup.maxSeg, Written)
      /\ \A m \in Range(net[e]) : GoodMsg(m, setup.maxSeg, Written)
      /\ setup.maxSeg \in Nat
  BY BoundsAreNumbers DEF IInv, NetGood
<1>3. \A i \in DOMAIN net[e] : net[e][i] \in Range(net[e])
  BY DEF Range
<1>4. PICK s : /\ net' = [net EXCEPT ![e] = s] /\ IsSequence(s)
               /\ \A m \in Range(s) : GoodMsg(m, setup.maxSeg, Written)
  <2>1. ASSUME NEW i \in DOMAIN net[e], net' = [net EXCEPT ![e] = Without(@, i)]
        PROVE  \E s : /\ net' = [net EXCEPT ![e] = s] /\ IsSequence(s)
                      /\ \A m \in Range(s) : GoodMsg(m, setup.maxSeg, Written)
    BY <1>2, <2>1, WithoutFacts
  <2>2. ASSUME NEW i \in DOMAIN net[e], net' = [net EXCEPT ![e] = Append(@, @[i])]
        PROVE  \E s : /\ net' = [net EXCEPT ![e] = s] /\ IsSequence(s)
                      /\ \A m \in Range(s) : GoodMsg(m, setup.maxSeg, Written)
    <3> DEFINE s == Append(net[e], net[e][i])
    <3>1. net' = [net EXCEPT ![e] = s]
      BY <2>2
    <3>2. IsSequence(s) /\ Range(s) = Range(net[e]) \cup {net[e][i]}
      BY <1>2, AppendFacts
    <3> HIDE DEF s
    <3> QED
      BY <1>2, <1>3, <3>1, <3>2
  <2>3. ASSUME NEW i \in DOMAIN net[e], net[e][i].type = "SEGMENT",
               net' = [net EXCEPT ![e][i] = Damaged(@)]
        PROVE  \E s : /\ net' = [net EXCEPT ![e] = s] /\ IsSequence(s)
                      /\ \A m \in Range(s) : GoodMsg(m, setup.maxSeg, Written)
    <3> DEFINE m == net[e][i]
               d == Damaged(m)
               s == [net[e] EXCEPT ![i] = d]
    <3>1. net' = [net EXCEPT ![e] = s]
      BY <2>3
    <3>2. GoodMsg(d, setup.maxSeg, Written)
      <4>1. GoodMsg(m, setup.maxSeg, Written) /\ m.type = "SEGMENT"
        BY <1>2, <1>3, <2>3
      <4> HIDE DEF m
      <4> QED
        BY <1>2, <4>1, DamagedGood
    <3> HIDE DEF d
    <3>3. IsSequence(s) /\ Range(s) \subseteq Range(net[e]) \cup {d}
      BY <1>2, ReplaceFacts
    <3> HIDE DEF s
    <3> QED
      BY <1>2, <3>1, <3>2, <3>3
  <2>4. ASSUME net' = [net EXCEPT ![e] = Append(@, ErrorMsg)]
        PROVE  \E s : /\ net' = [net EXCEPT ![e] = s] /\ IsSequence(s)
                      /\ \A m \in Range(s) : GoodMsg(m, setup.maxSeg, Written)
    <3> DEFINE s == Append(net[e], ErrorMsg)
    <3>1. net' = [net EXCEPT ![e] = s]
      BY <2>4
    <3>2. IsSequence(s) /\ Range(s) = Range(net[e]) \cup {ErrorMsg}
      BY <1>2, AppendFacts
    <3>3. GoodMsg(ErrorMsg, setup.maxSeg, Written)
      BY <1>2, GoodFrames
    <3> HIDE DEF s
    <3> QED
      BY <1>2, <3>1, <3>2, <3>3
  <2> QED
    BY <2>1, <2>2, <2>3, <2>4 DEF NetworkFault
<1>5. NetGood(net', setup.maxSeg, Written)
  BY <1>2, <1>4, QueueGood
<1>6. faults' \in 0..MaxFaults
  BY <1>1, FaultCount
<1>7. PeerInv' /\ peerTip' = [g \in Engine |-> peerTip'[g]]
  BY <1>1 DEF IInv, PeerInv, Shape
<1>8. awaiting' \in [Engine -> BOOLEAN] /\ calls' \in 0..setup.maxCalls
      /\ status' \in [Engine -> Statuses]
  BY <1>1 DEF IInv, Shape
<1> QED
  BY <1>1, <1>5, <1>6, <1>7, <1>8, StoresUntouched

\* Every step keeps the invariant.
LEMMA StepIInv == IInv /\ [Next]_vars => IInv'
<1> SUFFICES ASSUME IInv, [Next]_vars PROVE IInv'
  OBVIOUS
<1>1. CASE UNCHANGED vars
  <2>1. UNCHANGED <<setup, store, localTip, peerTip, awaiting, status, net, calls,
                    faults, flushed>>
    BY <1>1 DEF vars
  <2>2. Written' = Written
    BY <2>1 DEF Written
  <2>3. Shape' /\ PeerInv'
    BY <2>1 DEF IInv, Shape, PeerInv
  <2>4. StoreInv' /\ FlushInv' /\ CacheOnChain'
    BY <2>1, <2>2 DEF IInv, StoreInv, FlushInv, CacheOnChain
  <2> QED
    BY <2>1, <2>2, <2>3, <2>4 DEF IInv
<1>2. ASSUME NEW e \in Engine,
             SendHello(e) \/ SendTip(e) \/ Deliver(e) \/ Restart(e) \/ NetworkFault(e)
      PROVE  IInv'
  BY <1>2, SendStep, DeliverStep, RestartStep, NetworkFaultStep
<1>3. ASSUME NEW n \in Node, LedgerFlush(n) PROVE IInv'
  BY <1>3, FlushStep
<1> QED
  BY <1>1, <1>2, <1>3 DEF Next

\* The invariant holds in every behaviour.
LEMMA IInvInvariant == Spec => []IInv
BY InitIInv, StepIInv, PTL DEF Spec

-----------------------------------------------------------------------------
\* The state keeps its shape; a request never asks from number 0, and an answer
\* of on_message is labelled with the number it holds.
THEOREM TypesCorrect == Spec => []TypeOK
<1>1. IInv => TypeOK
  <2> SUFFICES ASSUME IInv PROVE TypeOK
    OBVIOUS
  <2>1. \A n \in Node : Len(store[n]) \in 0..setup.maxSeg
    BY SMT, SequenceFacts, BoundsAreNumbers DEF IInv, StoreInv
  <2>2. ASSUME NEW e \in Engine, NEW i \in DOMAIN net[e]
        PROVE  /\ net[e][i].type = "GET_SEGMENTS" => net[e][i].from \in 1..setup.maxSeg
               /\ net[e][i].type = "SEGMENT" =>
                    net[e][i].no \in 1..setup.maxSeg /\ net[e][i].seg.no = net[e][i].no
    <3> DEFINE m == net[e][i]
    <3>1. GoodMsg(m, setup.maxSeg, Written)
      BY FrameTaken
    <3> HIDE DEF m
    <3>2. /\ m.type = "GET_SEGMENTS" => m.from \in 1..setup.maxSeg
          /\ m.type = "SEGMENT" => m.no \in 1..setup.maxSeg /\ m.seg.no = m.no
      BY SMTT(30), <3>1, TypeOfMsg
    <3> QED
      BY <3>2 DEF m
  <2> QED
    BY <2>1, <2>2 DEF TypeOK, IInv, Shape, Statuses
<1> QED
  BY IInvInvariant, <1>1, PTL

\* The tip that an engine caches may be stale, because the ledger and other
\* engines append to the same store, but it is always a segment of the store
\* with its hash. This is what apply_segment checks a received segment against.
THEOREM CacheNeverWrong == Spec => []CacheOnChain
<1>1. IInv => CacheOnChain
  BY DEF IInv
<1> QED
  BY IInvInvariant, <1>1, PTL

\* With one writer, every segment of a store is one that this writer flushed,
\* and is at its place in the writer's store.
LEMMA PrefixInv == IInv => ReplicaPrefix
<1> SUFFICES ASSUME IInv, NEW w \in Node, \A m \in Node \ {w} : flushed[m] = {},
                    NEW n \in Node, NEW i \in 1..Len(store[n])
             PROVE  i <= Len(store[w]) /\ store[n][i] = store[w][i]
  BY DEF ReplicaPrefix
<1>1. store[n][i] \in Written /\ store[n][i].no = i
  BY DEF IInv, StoreInv, Linked
<1>2. store[n][i] \in flushed[w]
  BY SMTT(30), <1>1 DEF Written
<1>3. Len(store[w]) \in Nat
  BY SequenceFacts DEF IInv, StoreInv
<1> QED
  BY SMT, <1>1, <1>2, <1>3 DEF IInv, FlushInv

\* As long as one node's ledger writes, every store is a prefix of that node's,
\* however frames are lost, repeated, reordered or damaged, and however calls
\* fail and engines restart.
THEOREM OneWriterPrefixes == Spec => []ReplicaPrefix
BY IInvInvariant, PrefixInv, PTL

\* Two stores that hold the same segment at some place agree on everything
\* before it, also when histories have forked: the check of the link in
\* apply_segment makes a segment stand for its whole past.
THEOREM AgreementReachesBack == Spec => []SameTipSameHistory
<1>1. IInv => SameTipSameHistory
  <2> SUFFICES ASSUME IInv, NEW m \in Node, NEW n \in Node,
                      NEW k \in 1..Len(store[m]), k <= Len(store[n]),
                      store[m][k] = store[n][k]
               PROVE  \A i \in 1..k : store[m][i] = store[n][i]
    BY SMT DEF SameTipSameHistory
  <2>1. /\ IsSequence(store[m]) /\ IsSequence(store[n])
        /\ Linked(store[m]) /\ Linked(store[n])
    BY DEF IInv, StoreInv
  <2> QED
    BY SMTT(30), <2>1, LinkedAgree
<1> QED
  BY IInvInvariant, <1>1, PTL

\* Each store implements the abstract store: it starts empty, and a step of any
\* engine or ledger leaves it alone or appends one linked segment.
THEOREM StoresRefineChain == Spec => StoresImplementHashChain
<1>1. Init => \A n \in Node : Chain(n)!Init
  BY SMT DEF Init, Chain!Init
<1>2. IInv /\ [Next]_vars =>
        [\A n \in Node : Chain(n)!AppendLinked \/ UNCHANGED store[n]]_store
  <2> SUFFICES ASSUME IInv, [Next]_vars, store' # store, NEW k \in Node,
                      store'[k] # store[k]
               PROVE  Chain(k)!AppendLinked
    OBVIOUS
  <2>0. \E n \in Node : \E seg : Grows(n, seg)
    <3>1. CASE \E n \in Node : LedgerFlush(n)
      <4>0. PICK n \in Node : LedgerFlush(n)
        BY <3>1
      <4>1. PICK recs \in setup.batches[n] :
              LET c == store[n]
                  seg == SegmentEncode(Len(c) + 1, ChainTip(c).hash, recs,
                                       MerkleRoot(recs), FALSE)
              IN  /\ Len(c) < setup.maxSeg
                  /\ store' = [store EXCEPT ![n] = Append(@, seg)]
        BY <4>0 DEF LedgerFlush
      <4> DEFINE c == store[n]
                 root == MerkleRoot(recs)
                 seg == SegmentEncode(Len(c) + 1, ChainTip(c).hash, recs, root, FALSE)
      <4> HIDE DEF root
      <4>2. Len(c) < setup.maxSeg /\ store' = [store EXCEPT ![n] = Append(@, seg)]
        BY <4>1 DEF root
      <4>3. seg.no = Len(c) + 1 /\ seg.prev = ChainTip(c).hash
        BY DEF SegmentEncode
      <4> HIDE DEF seg
      <4>4. Len(c) \in Nat /\ setup.maxSeg \in Nat
        BY SequenceFacts, BoundsAreNumbers DEF IInv, StoreInv
      <4>5. Grows(n, seg)
        BY SMT, <4>2, <4>3, <4>4 DEF Grows
      <4> QED
        BY <4>5
    <3>2. CASE \E e \in Engine : Deliver(e)
      <4>1. PICK e \in Engine : Deliver(e)
        BY <3>2
      <4>2. PICK i \in DOMAIN net[e] : \E q : OnSegmentAccepted(e, net[e][i], q)
        BY <4>1 DEF Deliver, Arrives, OnHello, OnError, OnTip, OnGetSegments,
                    OnSegmentRejected
      <4> DEFINE m == net[e][i]
      <4>3. GoodMsg(m, setup.maxSeg, Written)
        BY FrameTaken
      <4> HIDE DEF m
      <4>4. /\ ApplyStatus(e, m) = "OK" /\ m.type = "SEGMENT"
            /\ store' = [store EXCEPT ![Host[e]] = Append(@, m.seg)]
        BY <4>2 DEF OnSegmentAccepted, m
      <4>5. /\ m.seg.no = Len(store[Host[e]]) + 1
            /\ m.seg.prev = ChainTip(store[Host[e]]).hash
            /\ m.seg.no \in 1..setup.maxSeg
        BY SMT, <4>3, <4>4, AcceptedLinks, TypeOfMsg
      <4>6. Grows(Host[e], m.seg) /\ Host[e] \in Node
        BY SMTT(30), <4>4, <4>5, BoundsAreNumbers DEF Grows
      <4> QED
        BY <4>6
    <3> QED
      BY <3>1, <3>2 DEF Next, vars, SendHello, SendTip, Restart, NetworkFault
  <2>n. PICK n \in Node : \E seg : Grows(n, seg)
    BY <2>0
  <2>1. PICK seg : Grows(n, seg)
    BY <2>n
  <2>2. /\ Len(store'[n]) = Len(store[n]) + 1 /\ store'[n][seg.no] = seg
        /\ Continues(store'[n], store[n]) /\ k = n
    BY <2>1, StoreGrows
  <2>3. seg.no = Len(store[n]) + 1 /\ seg.prev = ChainTip(store[n]).hash
    BY <2>1 DEF Grows
  <2>4. Chain(n)!Extend
    BY <2>2 DEF Chain!Extend, Continues
  <2>5. Chain(n)!ChainTip(store[n]).hash = ChainTip(store[n]).hash
    BY DEF ChainTip, NoTip, Sha256, ZeroHash,
           Chain!ChainTip, Chain!NoTip, Chain!Sha256, Chain!ZeroHash
  <2> QED
    BY <2>2, <2>3, <2>4, <2>5 DEF Chain!AppendLinked, Chain!AppendNumbered
<1> QED
  BY IInvInvariant, <1>1, <1>2, PTL DEF Spec, StoresImplementHashChain

-----------------------------------------------------------------------------
\* Frames on an ordered connection: those that can reach a writer, and the
\* answers to a request.

\* What is left of an inbox when its first frame is taken.
LEMMA ShiftFacts ==
  ASSUME NEW s, IsSequence(s), Len(s) # 0
  PROVE  /\ IsSequence(Without(s, 1))
         /\ Len(Without(s, 1)) = Len(s) - 1
         /\ \A i \in 1..(Len(s) - 1) : Without(s, 1)[i] = s[i + 1]
<1> DEFINE S == Range(s)
<1>1. s \in Seq(S) /\ Len(s) \in Nat \ {0} /\ DOMAIN s = 1..Len(s)
  BY SequenceFacts DEF IsSequence
<1> HIDE DEF S
<1>2. IsSequence(Without(s, 1))
  BY SMT, <1>1, WithoutFacts
<1>3. Without(s, 1) = <<>> \o SubSeq(s, 2, Len(s))
  BY <1>1 DEF Without
<1>4. /\ SubSeq(s, 2, Len(s)) \in Seq(S)
      /\ Len(SubSeq(s, 2, Len(s))) = Len(s) - 1
      /\ \A i \in 1..(Len(s) - 1) : SubSeq(s, 2, Len(s))[i] = s[i + 1]
  BY SMT, <1>1, SubSeqProperties
<1>5. Without(s, 1) = SubSeq(s, 2, Len(s))
  BY <1>3, <1>4, ConcatEmptySeq
<1> QED
  BY <1>2, <1>4, <1>5

\* What an inbox is after frames have been sent to it.
LEMMA JoinFacts ==
  ASSUME NEW s, NEW t, IsSequence(s), IsSequence(t)
  PROVE  /\ IsSequence(s \o t)
         /\ Len(s \o t) = Len(s) + Len(t)
         /\ \A i \in 1..Len(s) : (s \o t)[i] = s[i]
         /\ \A i \in 1..Len(t) : (s \o t)[Len(s) + i] = t[i]
<1> DEFINE S == Range(s) \cup Range(t)
<1>1. s \in Seq(S) /\ t \in Seq(S)
  BY SeqMonotonic DEF IsSequence
<1>2. IsSequence(s \o t)
  BY ConcatFacts
<1> HIDE DEF S
<1>3. Len(s) \in Nat /\ Len(t) \in Nat
  BY SequenceFacts
<1> QED
  BY <1>1, <1>2, <1>3

\* One more frame.
LEMMA JoinOne ==
  ASSUME NEW s, NEW m, IsSequence(s)
  PROVE  /\ IsSequence(s \o <<m>>)
         /\ Len(s \o <<m>>) = Len(s) + 1
         /\ \A i \in 1..Len(s) : (s \o <<m>>)[i] = s[i]
         /\ (s \o <<m>>)[Len(s) + 1] = m
<1>1. IsSequence(<<m>>) /\ Len(<<m>>) = 1 /\ <<m>>[1] = m /\ 1 \in 1..1
  BY SMT, OneFrame
<1> QED
  BY SMT, <1>1, JoinFacts

\* Frames to the writer, when the reader has n segments: announcements of at
\* most n, and at most one request, for the next segment.
ToWriter(s, n) ==
  \A i \in 1..Len(s) :
    \/ s[i] = HelloMsg
    \/ \E t : s[i] = TipMsg(t) /\ t.no \in 0..n
    \/ /\ s[i] = GetMsg(n + 1)
       /\ \A k \in 1..Len(s) : s[k].type = "GET_SEGMENTS" => k = i

\* No request is on its way.
NoRequest(s) == \A i \in 1..Len(s) : s[i].type # "GET_SEGMENTS"

\* Answers to the reader: the frames at j + 1..j + k, and no others, are the
\* next k segments of chain c after n.
Answers(s, c, n, j, k) ==
  /\ j + k <= Len(s)
  /\ \A i \in 1..Len(s) : s[i].type = "SEGMENT" <=> i \in (j + 1)..(j + k)
  /\ \A i \in (j + 1)..(j + k) : s[i] = SegmentMsg(n + i - j, c[n + i - j])

\* The types of the frames.
LEMMA FrameTypes ==
  /\ HelloMsg.type = "HELLO"
  /\ \A t : TipMsg(t).type = "TIP" /\ TipMsg(t).tip = t
  /\ \A n : /\ GetMsg(n).type = "GET_SEGMENTS" /\ GetMsg(n).from = n
            /\ GetMsg(n).max = MaxInflight
  /\ \A n, seg : /\ SegmentMsg(n, seg).type = "SEGMENT" /\ SegmentMsg(n, seg).no = n
                 /\ SegmentMsg(n, seg).hash = Sha256(seg)
                 /\ SegmentMsg(n, seg).seg = seg
BY DEF HelloMsg, TipMsg, GetMsg, SegmentMsg

\* The writer takes a frame: when that is the request, no other one follows.
LEMMA ToWriterShift ==
  ASSUME NEW s, IsSequence(s), Len(s) # 0, NEW n \in Nat, ToWriter(s, n)
  PROVE  /\ ToWriter(Without(s, 1), n)
         /\ NoRequest(s) => NoRequest(Without(s, 1))
         /\ s[1].type = "GET_SEGMENTS" => NoRequest(Without(s, 1))
<1> DEFINE t == Without(s, 1)
<1>1. Len(s) \in Nat /\ Len(t) = Len(s) - 1 /\ \A i \in 1..Len(t) : t[i] = s[i + 1]
  BY ShiftFacts, SequenceFacts
<1> HIDE DEF t
<1>2. ASSUME NEW i \in 1..Len(t)
      PROVE  \/ t[i] = HelloMsg
             \/ \E x : t[i] = TipMsg(x) /\ x.no \in 0..n
             \/ /\ t[i] = GetMsg(n + 1)
                /\ \A k \in 1..Len(t) : t[k].type = "GET_SEGMENTS" => k = i
  <2>1. i + 1 \in 1..Len(s) /\ t[i] = s[i + 1]
    BY SMT, <1>1
  <2>2. CASE s[i + 1] = GetMsg(n + 1)
             /\ \A k \in 1..Len(s) : s[k].type = "GET_SEGMENTS" => k = i + 1
    <3>1. ASSUME NEW k \in 1..Len(t), t[k].type = "GET_SEGMENTS" PROVE k = i
      BY SMTT(30), <1>1, <2>2, <3>1
    <3> QED
      BY <2>1, <2>2, <3>1
  <2> QED
    BY <2>1, <2>2 DEF ToWriter
<1>3. NoRequest(s) => NoRequest(t)
  BY SMTT(30), <1>1 DEF NoRequest
<1>4. s[1].type = "GET_SEGMENTS" => NoRequest(t)
  <2> SUFFICES ASSUME s[1].type = "GET_SEGMENTS", NEW i \in 1..Len(t),
                      t[i].type = "GET_SEGMENTS"
               PROVE  FALSE
    BY DEF NoRequest
  <2>1. i + 1 \in 1..Len(s) /\ 1 \in 1..Len(s) /\ s[i + 1].type = "GET_SEGMENTS"
    BY SMT, <1>1
  <2>2. \A k \in 1..Len(s) : s[k].type = "GET_SEGMENTS" => k = 1
    BY <2>1, FrameTypes DEF ToWriter
  <2> QED
    BY SMT, <2>1, <2>2
<1> QED
  BY <1>2, <1>3, <1>4 DEF t, ToWriter

\* The reader sends a frame: a request, only when there is none on its way.
LEMMA ToWriterJoin ==
  ASSUME NEW s, IsSequence(s), NEW n \in Nat, ToWriter(s, n), NEW m,
         \/ m = HelloMsg
         \/ \E t : m = TipMsg(t) /\ t.no \in 0..n
         \/ m = GetMsg(n + 1) /\ NoRequest(s)
  PROVE  /\ ToWriter(s \o <<m>>, n)
         /\ NoRequest(s) /\ m.type # "GET_SEGMENTS" => NoRequest(s \o <<m>>)
<1> DEFINE u == s \o <<m>>
<1>1. /\ Len(s) \in Nat /\ Len(u) = Len(s) + 1
      /\ \A i \in 1..Len(s) : u[i] = s[i]
      /\ u[Len(s) + 1] = m
  BY SMTT(30), JoinOne, SequenceFacts
<1> HIDE DEF u
<1>2. NoRequest(s) /\ m.type # "GET_SEGMENTS" => NoRequest(u)
  BY SMT, <1>1 DEF NoRequest
<1>3. ASSUME NEW i \in 1..Len(u)
      PROVE  \/ u[i] = HelloMsg
             \/ \E x : u[i] = TipMsg(x) /\ x.no \in 0..n
             \/ /\ u[i] = GetMsg(n + 1)
                /\ \A k \in 1..Len(u) : u[k].type = "GET_SEGMENTS" => k = i
  <2>1. CASE i = Len(s) + 1
    <3>1. u[i] = m
      BY <1>1, <2>1
    <3>2. CASE m = GetMsg(n + 1) /\ NoRequest(s)
      <4>1. \A k \in 1..Len(u) : u[k].type = "GET_SEGMENTS" => k = i
        BY SMT, <1>1, <2>1, <3>2 DEF NoRequest
      <4> QED
        BY <3>1, <3>2, <4>1
    <3> QED
      BY <3>1, <3>2
  <2>2. CASE i # Len(s) + 1
    <3>1. i \in 1..Len(s) /\ u[i] = s[i]
      BY SMT, <1>1, <2>2
    <3>2. CASE s[i] = GetMsg(n + 1)
               /\ \A k \in 1..Len(s) : s[k].type = "GET_SEGMENTS" => k = i
      <4>1. ~NoRequest(s)
        BY SMT, <3>1, <3>2, FrameTypes DEF NoRequest
      <4>2. m.type # "GET_SEGMENTS"
        BY <4>1, FrameTypes
      <4>3. \A k \in 1..Len(u) : u[k].type = "GET_SEGMENTS" => k = i
        BY SMT, <1>1, <3>2, <4>2
      <4> QED
        BY <3>1, <3>2, <4>3
    <3> QED
      BY <3>1, <3>2 DEF ToWriter
  <2> QED
    BY <2>1, <2>2
<1> QED
  BY <1>2, <1>3 DEF ToWriter, u

\* The reader's chain grows while no request is on its way.
LEMMA ToWriterGrows ==
  ASSUME NEW s, IsSequence(s), NEW n \in Nat, ToWriter(s, n), NoRequest(s)
  PROVE  ToWriter(s, n + 1)
<1>1. ASSUME NEW i \in 1..Len(s)
      PROVE  s[i] = HelloMsg \/ \E t : s[i] = TipMsg(t) /\ t.no \in 0..(n + 1)
  <2>1. s[i] # GetMsg(n + 1)
    BY FrameTypes DEF NoRequest
  <2>2. s[i] = HelloMsg \/ \E t : s[i] = TipMsg(t) /\ t.no \in 0..n
    BY <2>1 DEF ToWriter
  <2>3. \A t : t.no \in 0..n => t.no \in 0..(n + 1)
    OBVIOUS
  <2> QED
    BY <2>2, <2>3
<1> QED
  BY <1>1 DEF ToWriter

\* The answer to a request follows, when there was none before.
LEMMA AnswersSent ==
  ASSUME NEW s, IsSequence(s), NEW c, NEW n \in Nat, NEW j \in Nat,
         Answers(s, c, n, j, 0), NEW len \in Nat
  PROVE  /\ IsSequence(Answer(c, n + 1, len))
         /\ Answers(s \o Answer(c, n + 1, len), c, n, Len(s), len)
         /\ \A i \in 1..Len(Answer(c, n + 1, len)) :
              Answer(c, n + 1, len)[i].type = "SEGMENT"
<1> DEFINE t == Answer(c, n + 1, len)
           u == s \o t
<1>1. /\ t = [i \in 1..len |-> t[i]]
      /\ \A i \in 1..len : t[i] = SegmentMsg(n + i, c[n + i])
  <2>1. \A i \in 1..len : n + 1 + i - 1 = n + i
    OBVIOUS
  <2> QED
    BY <2>1 DEF Answer
<1> HIDE DEF t
<1>2. IsSequence(t) /\ Len(t) = len
  BY <1>1, FunctionIsSequence
<1>3. \A i \in 1..len : t[i].type = "SEGMENT"
  BY SMT, <1>1, FrameTypes
<1>4. /\ Len(s) \in Nat /\ Len(u) = Len(s) + len
      /\ \A i \in 1..Len(s) : u[i] = s[i]
      /\ \A i \in 1..len : u[Len(s) + i] = t[i]
  <2>1. /\ Len(s \o t) = Len(s) + Len(t)
        /\ \A i \in 1..Len(s) : (s \o t)[i] = s[i]
        /\ \A i \in 1..Len(t) : (s \o t)[Len(s) + i] = t[i]
    BY SMTT(30), <1>2, JoinFacts
  <2>2. Len(s) \in Nat
    BY SequenceFacts
  <2> QED
    BY <1>2, <2>1, <2>2
<1> HIDE DEF u
<1>5. ASSUME NEW i \in (Len(s) + 1)..(Len(s) + len)
      PROVE  u[i] = SegmentMsg(n + i - Len(s), c[n + i - Len(s)])
  <2>1. PICK d \in 1..len : i = Len(s) + d
    <3>1. i - Len(s) \in 1..len /\ i = Len(s) + (i - Len(s))
      BY SMT, <1>4
    <3> QED
      BY <3>1
  <2>2. n + i - Len(s) = n + d
    BY SMT, <1>4, <2>1
  <2> QED
    BY <1>1, <1>4, <2>1, <2>2
<1>6. ASSUME NEW i \in 1..Len(u)
      PROVE  u[i].type = "SEGMENT" <=> i \in (Len(s) + 1)..(Len(s) + len)
  <2>1. CASE i \in 1..Len(s)
    BY SMT, <1>4, <2>1 DEF Answers
  <2>2. CASE i \notin 1..Len(s)
    <3>1. i \in (Len(s) + 1)..(Len(s) + len)
      BY SMTT(30), <1>4, <2>2
    <3> QED
      BY SMT, <1>5, <3>1, FrameTypes
  <2> QED
    BY <2>1, <2>2
<1>7. Answers(u, c, n, Len(s), len)
  BY SMT, <1>4, <1>5, <1>6 DEF Answers
<1> QED
  BY <1>2, <1>3, <1>7 DEF t, u

-----------------------------------------------------------------------------
\* Two parties, of whom at most one writes.

\* Two parties and one connection between them.
TwoParties ==
  /\ \A e \in Engine : /\ Peer[e] # e /\ Peer[Peer[e]] = e
                       /\ Host[Peer[e]] # Host[e]
  /\ \A d, e \in Engine : d = e \/ d = Peer[e]
  /\ \A n \in Node : \E e \in Engine : Host[e] = n

\* Ledgers flush records that decode (Ledger.AppendRecord takes no others).
BatchesDecode ==
  \A s \in Setups : \A n \in Node : \A recs \in s.batches[n] :
    \A i \in 1..Len(recs) : RecordDecodes(recs[i])

\* What ledgers wrote verifies.
WrittenVerifies == \A seg \in Written : SegmentVerify(seg) = "OK"

\* An engine whose ledger has written nothing.
Reader(e) == e \in Engine /\ flushed[Host[e]] = {}

\* The numbers and sequences of a conversation.
LEMMA ConversationTypes ==
  ASSUME IInv, TwoParties, NEW e \in Engine
  PROVE  /\ Peer[e] \in Engine /\ Host[e] \in Node /\ Host[Peer[e]] \in Node
         /\ Peer[e] # e /\ Peer[Peer[e]] = e /\ Host[Peer[e]] # Host[e]
         /\ \A d \in Engine : d = e \/ d = Peer[e]
         /\ Len(store[Host[e]]) \in Nat /\ Len(store[Host[Peer[e]]]) \in Nat
         /\ localTip[e].no \in Nat /\ peerTip[e].no \in Nat
         /\ localTip[Peer[e]].no \in 0..Len(store[Host[Peer[e]]])
         /\ peerTip[Peer[e]].no \in Nat
         /\ IsSequence(net[e]) /\ IsSequence(net[Peer[e]])
         /\ net = [d \in Engine |-> net[d]]
         /\ awaiting \in [Engine -> BOOLEAN] /\ setup \in Setups
<1>1. /\ Peer[e] \in Engine /\ Host[e] \in Node /\ Host[Peer[e]] \in Node
      /\ Peer[e] # e /\ Peer[Peer[e]] = e /\ Host[Peer[e]] # Host[e]
      /\ \A d \in Engine : d = e \/ d = Peer[e]
  BY P2PSyncAssumption DEF TwoParties
<1>2. \A n \in Node : Len(store[n]) \in Nat
  BY SequenceFacts DEF IInv, StoreInv
<1>3. setup.maxSeg \in Nat
  BY BoundsAreNumbers
<1>4. \A d \in Engine : /\ localTip[d].no \in 0..Len(store[Host[d]])
                        /\ peerTip[d].no \in 0..setup.maxSeg
                        /\ IsSequence(net[d])
  BY DEF IInv, CacheOnChain, PeerInv, NetGood
<1>5. /\ net = [d \in Engine |-> net[d]]
      /\ awaiting \in [Engine -> BOOLEAN] /\ setup \in Setups
  BY DEF IInv, NetGood, Shape
<1> QED
  BY SMT, <1>1, <1>2, <1>3, <1>4, <1>5

\* The reader's chain is the beginning of the writer's.
LEMMA ReaderBehind ==
  ASSUME IInv, TwoParties, NEW e \in Engine, Reader(e)
  PROVE  \A i \in 1..Len(store[Host[e]]) :
           /\ i <= Len(store[Host[Peer[e]]])
           /\ store[Host[e]][i] = store[Host[Peer[e]]][i]
<1>1. \A m \in Node \ {Host[Peer[e]]} : flushed[m] = {}
  BY SMTT(30) DEF TwoParties, Reader
<1>2. Host[e] \in Node /\ Host[Peer[e]] \in Node
  BY ConversationTypes
<1>3. ReplicaPrefix
  BY PrefixInv
<1> QED
  BY <1>1, <1>2, <1>3 DEF ReplicaPrefix

\* The next segment that reaches a reader is accepted.
LEMMA NextAccepted ==
  ASSUME IInv, TwoParties, WrittenVerifies, NEW e \in Engine, Reader(e),
         localTip[e].no = Len(store[Host[e]]), NEW m,
         NEW next \in Nat, next = Len(store[Host[e]]) + 1,
         next <= Len(store[Host[Peer[e]]]),
         m = SegmentMsg(next, store[Host[Peer[e]]][next])
  PROVE  ApplyStatus(e, m) = "OK"
<1> DEFINE p == Peer[e]
           n == Len(store[Host[e]])
           c == store[Host[p]]
           seg == c[next]
<1>1. /\ p \in Engine /\ Host[p] \in Node /\ Host[e] \in Node
      /\ n \in Nat /\ Len(c) \in Nat
  BY ConversationTypes
<1>2. m.hash = Sha256(seg) /\ m.no = next /\ m.seg = seg
  <2>1. m = SegmentMsg(next, seg)
    OBVIOUS
  <2> HIDE DEF seg
  <2> QED
    BY <2>1 DEF SegmentMsg
<1>3. seg.no = next /\ seg.prev = PrevOf(c, next) /\ seg \in Written
  <2>1. next \in 1..Len(c)
    BY <1>1
  <2> QED
    BY <1>1, <2>1 DEF IInv, StoreInv, Linked
<1>4. PrevOf(c, next) = PrevOf(store[Host[e]], next)
  <2>1. CASE n = 0
    BY <2>1 DEF PrevOf
  <2>2. CASE n # 0
    <3>1. n \in 1..Len(store[Host[e]]) /\ next - 1 = n /\ next # 1
      BY <1>1, <2>2
    <3>2. store[Host[e]][n] = c[n]
      BY <3>1, ReaderBehind
    <3> QED
      BY <3>1, <3>2 DEF PrevOf
  <2> QED
    BY <2>1, <2>2
<1>5. /\ localTip[e].no = n /\ localTip[e].hash = PrevOf(store[Host[e]], next)
      /\ ChainTip(store[Host[e]]).hash = PrevOf(store[Host[e]], next)
  <2>1. localTip[e].no = n
    OBVIOUS
  <2>2. localTip[e].hash = PrevOf(store[Host[e]], localTip[e].no + 1)
    BY DEF IInv, CacheOnChain
  <2>3. StoreTip(e).hash = PrevOf(store[Host[e]], n + 1)
    BY BoundsAreNumbers
  <2> QED
    BY <2>1, <2>2, <2>3 DEF StoreTip
<1>6. SegmentVerify(seg) = "OK"
  BY <1>3 DEF WrittenVerifies
<1>7. StoreAppendStatus(Host[e], seg) = "OK"
  BY <1>3, <1>4, <1>5 DEF StoreAppendStatus
<1> HIDE DEF seg, n, c, p
<1> QED
  BY <1>2, <1>3, <1>4, <1>5, <1>6, <1>7 DEF ApplyStatus, n

\* The first frame of an inbox is handled, and it is taken out.
LEMMA FirstDelivered ==
  ASSUME IInv, setup.ordered, NEW e \in Engine, Deliver(e)
  PROVE  /\ Len(net[e]) # 0
         /\ LET m == net[e][1]
                q == [net EXCEPT ![e] = Without(net[e], 1)]
            IN  \/ OnHello(e, m, q) \/ OnError(e, m, q) \/ OnTip(e, m, q)
                \/ OnGetSegments(e, m, q)
                \/ OnSegmentAccepted(e, m, q) \/ OnSegmentRejected(e, m, q)
<1>1. IsSequence(net[e])
  BY DEF IInv, NetGood
<1>2. DOMAIN net[e] = 1..Len(net[e]) /\ Len(net[e]) \in Nat
  BY <1>1, SequenceFacts
<1>3. Arrives(e) \subseteq {1} /\ Arrives(e) \subseteq 1..Len(net[e])
  BY <1>2 DEF Arrives
<1>4. PICK i \in Arrives(e) :
        LET m == net[e][i]
            q == [net EXCEPT ![e] = Without(@, i)]
        IN  \/ OnHello(e, m, q) \/ OnError(e, m, q) \/ OnTip(e, m, q)
            \/ OnGetSegments(e, m, q)
            \/ OnSegmentAccepted(e, m, q) \/ OnSegmentRejected(e, m, q)
  BY DEF Deliver
<1>5. i = 1 /\ Len(net[e]) # 0
  BY SMTT(30), <1>2, <1>3
<1> QED
  BY <1>4, <1>5

\* Only a ledger adds to what was written; the engines copy.
LEMMA OnlyLedgersWrite ==
  ASSUME [Next]_vars
  PROVE  UNCHANGED <<setup, flushed>> \/ \E n \in Node : LedgerFlush(n)
<1>1. ASSUME NEW e \in Engine, SendHello(e) \/ SendTip(e) \/ Restart(e) \/ NetworkFault(e)
      PROVE  UNCHANGED <<setup, flushed>>
  BY <1>1 DEF SendHello, SendTip, Restart, NetworkFault
<1>2. ASSUME NEW e \in Engine, NEW m, NEW q,
             \/ OnHello(e, m, q) \/ OnError(e, m, q) \/ OnTip(e, m, q)
             \/ OnGetSegments(e, m, q)
             \/ OnSegmentAccepted(e, m, q) \/ OnSegmentRejected(e, m, q)
      PROVE  UNCHANGED <<setup, flushed>>
  BY <1>2 DEF OnHello, OnError, OnTip, OnGetSegments, OnSegmentAccepted,
              OnSegmentRejected
<1>3. ASSUME NEW e \in Engine, Deliver(e)
      PROVE  UNCHANGED <<setup, flushed>>
  BY <1>2, <1>3 DEF Deliver
<1>4. CASE UNCHANGED vars
  BY <1>4 DEF vars
<1> QED
  BY <1>1, <1>3, <1>4 DEF Next

\* Before the first step nothing is written.
LEMMA WrittenVerifiesInit == Init => WrittenVerifies
BY SMT DEF Init, WrittenVerifies, Written

\* vicarl_ledger_flush writes only segments that vicarl_segment_verify accepts.
LEMMA WrittenVerifiesStep ==
  ASSUME IInv, WrittenVerifies, BatchesDecode, [Next]_vars
  PROVE  WrittenVerifies'
<1>1. CASE UNCHANGED flushed
  BY <1>1 DEF WrittenVerifies, Written
<1>2. CASE \E n \in Node : LedgerFlush(n)
  <2>1. PICK n \in Node : LedgerFlush(n)
    BY <1>2
  <2>2. PICK recs \in setup.batches[n] : \E seg :
          /\ seg = SegmentEncode(Len(store[n]) + 1, ChainTip(store[n]).hash, recs,
                                 MerkleRoot(recs), FALSE)
          /\ flushed' = [flushed EXCEPT ![n] = @ \cup {seg}]
    BY <2>1 DEF LedgerFlush
  <2>3. PICK seg :
          /\ seg = SegmentEncode(Len(store[n]) + 1, ChainTip(store[n]).hash, recs,
                                 MerkleRoot(recs), FALSE)
          /\ flushed' = [flushed EXCEPT ![n] = @ \cup {seg}]
    BY <2>2
  <2>4. \A i \in 1..Len(recs) : RecordDecodes(recs[i])
    BY <2>2 DEF BatchesDecode, IInv, Shape
  <2>5. SegmentVerify(seg) = "OK"
    BY <2>3, <2>4, EncodedVerifies
  <2>6. flushed = [m \in Node |-> flushed[m]]
    BY DEF IInv, Shape
  <2>7. \A m \in Node : flushed'[m] \subseteq flushed[m] \cup {seg}
    BY <2>3, <2>6
  <2> QED
    BY <2>5, <2>7 DEF WrittenVerifies, Written
<1>3. UNCHANGED flushed \/ \E n \in Node : LedgerFlush(n)
  BY OnlyLedgersWrite
<1> QED
  BY <1>1, <1>2, <1>3

\* History never shrinks, and the kind of connection does not change.
LEMMA HistoryKept ==
  ASSUME IInv, [Next]_vars
  PROVE  setup' = setup /\ \A n \in Node : flushed[n] \subseteq flushed'[n]
<1>1. CASE \E n \in Node : LedgerFlush(n)
  <2>1. PICK n \in Node : LedgerFlush(n)
    BY <1>1
  <2>2. PICK seg : /\ flushed' = [flushed EXCEPT ![n] = @ \cup {seg}]
                   /\ setup' = setup
    BY <2>1 DEF LedgerFlush
  <2>3. flushed = [m \in Node |-> flushed[m]]
    BY DEF IInv, Shape
  <2> QED
    BY <2>2, <2>3
<1>2. UNCHANGED <<setup, flushed>> \/ \E n \in Node : LedgerFlush(n)
  BY OnlyLedgersWrite
<1> QED
  BY <1>1, <1>2

\* While one of the two has written nothing, there is a reader.
LEMMA SomeReader ==
  ASSUME TwoParties, ~Forked
  PROVE  \E e \in Engine : Reader(e)
BY SMTT(30) DEF TwoParties, Forked, Reader
=============================================================================
