------------------------------ MODULE P2PSync -------------------------------
(***************************************************************************)
(* Replication (p2p/sync.c).  A sync engine serves one connection of a     *)
(* node: it caches its store's tip and the peer's, asks for the segments   *)
(* it lacks, one request at a time, and answers the peer's requests.  Each *)
(* call of vicarl_p2p_sync_on_message is one step; the send callback puts  *)
(* a frame into the peer's inbox.                                          *)
(*                                                                         *)
(* A node's store is used by all its engines and by its ledger, so an      *)
(* engine's cached tip goes stale between its calls.  A connection is      *)
(* ordered or not, and may lose, repeat or damage frames; calls of send    *)
(* and of the store may fail; an engine may be destroyed and initialised   *)
(* anew.                                                                   *)
(***************************************************************************)
EXTENDS Segment

CONSTANTS
  Node, Engine,
  Host,         \* engine -> the node whose store it is bound to
  Peer,         \* engine -> the engine at the other end of its connection
  MaxInflight,  \* option max_segments_per_request
  LinkChecked,  \* nodes whose store checks the link too (SQLite; the log does not)
  Setups,       \* the surroundings considered, see the variable setup
  MaxFaults     \* bound: number of faults

FaultKinds ==
  {"lose", "repeat", "damage", "error", "send", "store", "restart"}

ASSUME P2PSyncAssumption ==
  /\ Host \in [Engine -> Node] /\ Peer \in [Engine -> Engine]
  /\ MaxInflight \in Nat \ {0}
  /\ LinkChecked \subseteq Node
  /\ \A s \in Setups :
       /\ s.ordered \in BOOLEAN /\ s.faults \subseteq FaultKinds
       /\ s.batches \in [Node -> SUBSET Seq(Record)]
       /\ s.maxSeg \in Nat /\ s.maxCalls \in Nat
  /\ MaxFaults \in Nat

VARIABLES
  setup,     \* ordered: frames arrive in the order they were sent;
             \* faults: which faults may happen;
             \* batches: what each node's ledger may flush as one segment;
             \* maxSeg, maxCalls: bounds
  store,     \* node -> its segments
  localTip,  \* engine -> cached tip of its store
  peerTip,   \* engine -> last tip the peer announced
  awaiting,  \* engine -> awaiting_segments
  status,    \* engine -> what its last call returned
  net,       \* engine -> frames on their way to it
  calls,     \* number of send_hello and send_tip calls so far
  faults,    \* number of faults so far
  flushed    \* history: node -> the segments its ledger wrote

vars == <<setup, store, localTip, peerTip, awaiting, status, net, calls,
          faults, flushed>>

\* Frames.
HelloMsg == [type |-> "HELLO"]
ErrorMsg == [type |-> "ERROR"]
TipMsg(t) == [type |-> "TIP", tip |-> t]

\* A variant of GetMsg that asks from the tip, not from its successor.
GetMsgFromTip(from) ==
  [type |-> "GET_SEGMENTS", from |-> from - 1, max |-> MaxInflight]

GetMsg(from) == [type |-> "GET_SEGMENTS", from |-> from, max |-> MaxInflight]
SegmentMsg(no, seg) ==
  [type |-> "SEGMENT", no |-> no, hash |-> Sha256(seg), seg |-> seg]

Init ==
  /\ setup \in Setups
  /\ store = [n \in Node |-> <<>>]
  /\ localTip = [e \in Engine |-> NoTip]
  /\ peerTip = [e \in Engine |-> NoTip]
  /\ awaiting = [e \in Engine |-> FALSE]
  /\ status = [e \in Engine |-> "OK"]
  /\ net = [e \in Engine |-> <<>>]
  /\ calls = 0
  /\ faults = 0
  /\ flushed = [n \in Node |-> {}]

Fault(kind) ==
  /\ kind \in setup.faults
  /\ faults < MaxFaults
  /\ faults' = faults + 1

StoreTip(e) == ChainTip(store[Host[e]])

\* send_msg, into the queues q.
Send(q, e, out) == [q EXCEPT ![Peer[e]] = @ \o out]

Return(e, st) == status' = [status EXCEPT ![e] = st]

-----------------------------------------------------------------------------
\* vicarl_p2p_sync_send_hello and vicarl_p2p_sync_send_tip; the latter
\* refreshes the cached tip first.
SendHello(e) ==
  /\ calls < setup.maxCalls
  /\ calls' = calls + 1
  /\ \/ net' = Send(net, e, <<HelloMsg>>) /\ Return(e, "OK") /\ UNCHANGED faults
     \/ Fault("send") /\ Return(e, "IO") /\ UNCHANGED net
  /\ UNCHANGED <<setup, store, localTip, peerTip, awaiting, flushed>>

SendTip(e) ==
  /\ calls < setup.maxCalls
  /\ calls' = calls + 1
  /\ localTip' = [localTip EXCEPT ![e] = StoreTip(e)]
  /\ \/ /\ net' = Send(net, e, <<TipMsg(StoreTip(e))>>)
        /\ Return(e, "OK")
        /\ UNCHANGED faults
     \/ Fault("send") /\ Return(e, "IO") /\ UNCHANGED net
  /\ UNCHANGED <<setup, store, peerTip, awaiting, flushed>>

\* request_more_if_needed, for the tips and the flag as the caller has set
\* them; q is the network without the frame being handled.  The flag is set
\* only after send has succeeded.
CaughtUp(local, peer) == peer # NoTip /\ local.no >= peer.no

\* A variant of Asks that does not look at the flag.
AsksAlways(local, peer, waiting) == peer # NoTip /\ local.no < peer.no

Asks(local, peer, waiting) ==
  peer # NoTip /\ local.no < peer.no /\ ~waiting

RequestMore(e, q, local, peer, waiting) ==
  \/ /\ ~Asks(local, peer, waiting)
     /\ awaiting' = [awaiting EXCEPT ![e] = waiting /\ ~CaughtUp(local, peer)]
     /\ net' = q
     /\ Return(e, "OK")
     /\ UNCHANGED faults
  \/ /\ Asks(local, peer, waiting)
     /\ awaiting' = [awaiting EXCEPT ![e] = TRUE]
     /\ net' = Send(q, e, <<GetMsg(local.no + 1)>>)
     /\ Return(e, "OK")
     /\ UNCHANGED faults
  \/ /\ Asks(local, peer, waiting)
     /\ Fault("send")
     /\ awaiting' = [awaiting EXCEPT ![e] = waiting]
     /\ net' = q
     /\ Return(e, "IO")

OnHello(e, m, q) ==
  /\ m.type = "HELLO"
  /\ net' = q
  /\ Return(e, "OK")
  /\ UNCHANGED <<setup, store, localTip, peerTip, awaiting, calls, faults, flushed>>

OnError(e, m, q) ==
  /\ m.type = "ERROR"
  /\ net' = q
  /\ Return(e, "IO")
  /\ UNCHANGED <<setup, store, localTip, peerTip, awaiting, calls, faults, flushed>>

OnTip(e, m, q) ==
  /\ m.type = "TIP"
  /\ peerTip' = [peerTip EXCEPT ![e] = m.tip]
  /\ RequestMore(e, q, localTip[e], m.tip, awaiting[e])
  /\ UNCHANGED <<setup, store, localTip, calls, flushed>>

OrDefault(x, default) == IF x = 0 THEN default ELSE x

\* A variant of AnswerLen that stops before the tip.
AnswerLenShort(tip, from, max) ==
  IF from > tip.no THEN 0
  ELSE IF tip.no - from < max THEN tip.no - from ELSE max

\* How many segments answer a request for max from number from.
AnswerLen(tip, from, max) ==
  IF from > tip.no THEN 0
  ELSE IF tip.no - from + 1 < max THEN tip.no - from + 1 ELSE max

Answer(c, from, len) ==
  [j \in 1..len |-> SegmentMsg(from + j - 1, c[from + j - 1])]

\* The loop over the segments ends early when a send fails.
OnGetSegments(e, m, q) ==
  /\ m.type = "GET_SEGMENTS"
  /\ localTip' = [localTip EXCEPT ![e] = StoreTip(e)]
  /\ LET from == OrDefault(m.from, 1)
         len == AnswerLen(StoreTip(e), from, OrDefault(m.max, 128))
         c == store[Host[e]]
     IN  \/ /\ net' = Send(q, e, Answer(c, from, len))
            /\ Return(e, "OK")
            /\ UNCHANGED faults
         \/ \E sent \in 0..(len - 1) :
              /\ Fault("send")
              /\ net' = Send(q, e, Answer(c, from, sent))
              /\ Return(e, "IO")
  /\ UNCHANGED <<setup, store, peerTip, awaiting, calls, flushed>>

\* A variant of StoreAppendStatus that trusts the caller.
StoreAppendStatusTrusting(n, seg) == "OK"

\* The backend's own checks, against the real tip of the store.
StoreAppendStatus(n, seg) ==
  IF seg.no # Len(store[n]) + 1 THEN "INVALID_ARGUMENT"
  ELSE IF n \in LinkChecked /\ seg.prev # ChainTip(store[n]).hash THEN "FORMAT"
  ELSE "OK"

\* A variant of ApplyStatus that trusts the transport for the link.
ApplyStatusUnlinked(e, m) ==
  IF m.hash # Sha256(m.seg) THEN "FORMAT"
  ELSE IF SegmentVerify(m.seg) # "OK" THEN SegmentVerify(m.seg)
  ELSE IF m.seg.no # m.no THEN "FORMAT"
  ELSE IF m.no # localTip[e].no + 1 THEN "INVALID_ARGUMENT"
  ELSE StoreAppendStatus(Host[e], m.seg)

\* A variant of ApplyStatus that does not look into the segment.
ApplyStatusUnverified(e, m) ==
  IF m.seg.no # m.no THEN "FORMAT"
  ELSE IF m.no # localTip[e].no + 1 THEN "INVALID_ARGUMENT"
  ELSE IF m.seg.prev # localTip[e].hash THEN "FORMAT"
  ELSE StoreAppendStatus(Host[e], m.seg)

\* apply_segment: the checks in the order of the code, the cached tip among
\* them, and then those of the store.
ApplyStatus(e, m) ==
  IF m.hash # Sha256(m.seg) THEN "FORMAT"
  ELSE IF SegmentVerify(m.seg) # "OK" THEN SegmentVerify(m.seg)
  ELSE IF m.seg.no # m.no THEN "FORMAT"
  ELSE IF m.no # localTip[e].no + 1 THEN "INVALID_ARGUMENT"
  ELSE IF m.seg.prev # localTip[e].hash THEN "FORMAT"
  ELSE StoreAppendStatus(Host[e], m.seg)

OnSegmentAccepted(e, m, q) ==
  /\ m.type = "SEGMENT"
  /\ ApplyStatus(e, m) = "OK"
  /\ store' = [store EXCEPT ![Host[e]] = Append(@, m.seg)]
  /\ localTip' = [localTip EXCEPT ![e] = TipOf(m.seg)]
  /\ RequestMore(e, q, TipOf(m.seg), peerTip[e],
                 awaiting[e] /\ ~CaughtUp(TipOf(m.seg), peerTip[e]))
  /\ UNCHANGED <<setup, peerTip, calls, flushed>>

OnSegmentRejected(e, m, q) ==
  /\ m.type = "SEGMENT"
  /\ \/ /\ ApplyStatus(e, m) # "OK"
        /\ Return(e, ApplyStatus(e, m))
        /\ UNCHANGED faults
     \/ /\ ApplyStatus(e, m) = "OK"
        /\ Fault("store")
        /\ Return(e, "IO")
  /\ net' = q
  /\ UNCHANGED <<setup, store, localTip, peerTip, awaiting, calls, flushed>>

\* The frames s without frame i.
Without(s, i) == SubSeq(s, 1, i - 1) \o SubSeq(s, i + 1, Len(s))

\* The transport hands a frame to the engine.
Arrives(e) == IF setup.ordered THEN {1} \cap DOMAIN net[e] ELSE DOMAIN net[e]

Deliver(e) ==
  \E i \in Arrives(e) :
    LET m == net[e][i]
        q == [net EXCEPT ![e] = Without(@, i)]
    IN  \/ OnHello(e, m, q) \/ OnError(e, m, q) \/ OnTip(e, m, q)
        \/ OnGetSegments(e, m, q)
        \/ OnSegmentAccepted(e, m, q) \/ OnSegmentRejected(e, m, q)

-----------------------------------------------------------------------------
\* The node's ledger flushes a segment of its own (Ledger.FlushOk).
LedgerFlush(n) ==
  /\ Len(store[n]) < setup.maxSeg
  /\ \E recs \in setup.batches[n] :
       LET c == store[n]
           seg == SegmentEncode(Len(c) + 1, ChainTip(c).hash, recs,
                                MerkleRoot(recs), FALSE)
       IN  /\ store' = [store EXCEPT ![n] = Append(@, seg)]
           /\ flushed' = [flushed EXCEPT ![n] = @ \cup {seg}]
  /\ UNCHANGED <<setup, localTip, peerTip, awaiting, status, net, calls, faults>>

\* refresh_local_tip through vicarl_p2p_sync_init.
Restart(e) ==
  /\ Fault("restart")
  /\ localTip' = [localTip EXCEPT ![e] = StoreTip(e)]
  /\ peerTip' = [peerTip EXCEPT ![e] = NoTip]
  /\ awaiting' = [awaiting EXCEPT ![e] = FALSE]
  /\ Return(e, "OK")
  /\ UNCHANGED <<setup, store, net, calls, flushed>>

\* A SEGMENT frame whose payload ends early.
Damaged(m) == [m EXCEPT !.seg = Truncated(@)]

\* What the network and a peer of another make may do to the frames.
NetworkFault(e) ==
  /\ \/ /\ Fault("lose")
        /\ \E i \in DOMAIN net[e] : net' = [net EXCEPT ![e] = Without(@, i)]
     \/ /\ Fault("repeat")
        /\ \E i \in DOMAIN net[e] : net' = [net EXCEPT ![e] = Append(@, @[i])]
     \/ /\ Fault("damage")
        /\ \E i \in DOMAIN net[e] :
             /\ net[e][i].type = "SEGMENT"
             /\ net' = [net EXCEPT ![e][i] = Damaged(@)]
     \/ /\ Fault("error")
        /\ net' = [net EXCEPT ![e] = Append(@, ErrorMsg)]
  /\ UNCHANGED <<setup, store, localTip, peerTip, awaiting, status, calls, flushed>>

Next ==
  \/ \E e \in Engine :
       SendHello(e) \/ SendTip(e) \/ Deliver(e) \/ Restart(e) \/ NetworkFault(e)
  \/ \E n \in Node : LedgerFlush(n)

Spec == Init /\ [][Next]_vars

\* The transport keeps handing over frames (the read loops of the examples).
FairSpec == Spec /\ \A e \in Engine : WF_vars(Deliver(e))

-----------------------------------------------------------------------------
\* Properties.

\* The shape of the state; a request never asks from number 0, which the peer
\* would take for 1, and an answer is labelled with the number it holds.
TypeOK ==
  /\ awaiting \in [Engine -> BOOLEAN]
  /\ status \in [Engine -> {"OK", "IO", "FORMAT", "INVALID_ARGUMENT", "UNSUPPORTED"}]
  /\ calls \in 0..setup.maxCalls /\ faults \in 0..MaxFaults
  /\ \A n \in Node : Len(store[n]) \in 0..setup.maxSeg
  /\ \A e \in Engine : \A i \in DOMAIN net[e] :
       LET m == net[e][i] IN
         /\ m.type = "GET_SEGMENTS" => m.from \in 1..setup.maxSeg
         /\ m.type = "SEGMENT" => m.no \in 1..setup.maxSeg /\ m.seg.no = m.no

\* An engine's cached tip may be stale but is never wrong: it is a segment of
\* its store, with its hash.  apply_segment checks the link against this cache.
CacheOnChain ==
  \A e \in Engine :
    LET c == store[Host[e]] IN
      /\ localTip[e].no \in 0..Len(c)
      /\ localTip[e].hash = PrevOf(c, localTip[e].no + 1)

\* As long as one node writes, every replica is a prefix of its chain, whatever
\* is lost, repeated, reordered, damaged or restarted.
ReplicaPrefix ==
  \A w \in Node : (\A m \in Node \ {w} : flushed[m] = {}) =>
    \A n \in Node :
      \A i \in 1..Len(store[n]) : i <= Len(store[w]) /\ store[n][i] = store[w][i]

\* Two stores that agree on a segment agree on everything before it, forks and
\* all.
SameTipSameHistory ==
  \A m, n \in Node :
    \A k \in 1..Len(store[m]) :
      k <= Len(store[n]) /\ store[m][k] = store[n][k]
        => \A i \in 1..k : store[m][i] = store[n][i]

\* A store never changes or drops a segment, and grows by one linked segment
\* at a time: each implements the abstract store.
Chain(n) == INSTANCE HashChain WITH chain <- store[n]

StoresImplementHashChain ==
  /\ \A n \in Node : Chain(n)!Init
  /\ [][\A n \in Node : Chain(n)!AppendLinked \/ UNCHANGED store[n]]_store

\* On a reliable connection to the only writer no call fails: requests and
\* answers never overlap so that a segment arrives twice or out of turn.
Reliable == setup.ordered /\ setup.faults = {}

Forked == \A n \in Node : flushed[n] # {}

NothingRejected ==
  Reliable /\ ~Forked => \A e \in Engine : status[e] = "OK"

\* Announced segments arrive over a reliable connection ("After accepting one
\* segment, request more if still behind", sync.c:372), unless the histories
\* fork.
Behind(e) == Len(store[Host[e]]) < peerTip[e].no

CatchesUp ==
  \A e \in Engine : (Reliable /\ Behind(e)) ~> (Forked \/ ~Behind(e))
=============================================================================
