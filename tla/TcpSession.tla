----------------------------- MODULE TcpSession -----------------------------
(***************************************************************************)
(* The two programs that replicate a store over TCP                        *)
(* (examples/ex_p2p_tcp_server.c, ex_p2p_tcp_client.c).  Each opens its    *)
(* store, initialises a sync engine, sends HELLO and TIP and then hands    *)
(* every frame it receives to the engine.  The server goes on until the    *)
(* client is gone; the client also leaves once it has as many segments as  *)
(* the server announced.                                                   *)
(*                                                                         *)
(* The engines are those of P2PSync.  Their send callback blocks: of the   *)
(* frames in net[e], the first sent[e] are in the socket and the others    *)
(* are still with the peer of e, which does nothing else until they are    *)
(* written.  TcpStream is about the bytes of one such connection.  TCP     *)
(* keeps the order, and a send that fails ends the program (Disconnected), *)
(* so the faults of P2PSync that remain are those of the stores.           *)
(***************************************************************************)
EXTENDS P2PSync

CONSTANTS
  Client, Server,  \* the two engines
  SocketFrames,    \* how many frames a socket takes before send blocks
  MaxSessions,     \* bound: connections, one after the other
  MaxKills         \* bound: processes killed

ASSUME TcpSessionAssumption ==
  /\ Engine = {Client, Server} /\ Client # Server
  /\ Peer[Client] = Server /\ Peer[Server] = Client
  /\ Node = {Host[Client], Host[Server]} /\ Host[Client] # Host[Server]
  /\ \A s \in Setups : s.ordered /\ s.faults \subseteq {"store"}
  /\ SocketFrames \in Nat \ {0}
  /\ MaxSessions \in Nat /\ MaxKills \in Nat

VARIABLES
  pc,        \* engine -> where its program is
  sent,      \* engine -> frames of net[engine] that are in the socket
  havePeerTip,  \* have_peer_tip of the client
  sessions,  \* connections so far
  kills,     \* processes killed so far
  disturbed, \* history: this session saw a kill or a failing store
  announced  \* history: the server's segments when the session began

sessionVars ==
  <<pc, sent, havePeerTip, sessions, kills, disturbed, announced>>

allVars == <<vars, sessionVars>>

SessionInit ==
  /\ Init
  /\ pc = [e \in Engine |-> "off"]
  /\ sent = [e \in Engine |-> 0]
  /\ havePeerTip = FALSE
  /\ sessions = 0 /\ kills = 0
  /\ disturbed = FALSE
  /\ announced = 0

Blocked(e) == sent[Peer[e]] < Len(net[Peer[e]])

Goto(e, l) == pc' = [pc EXCEPT ![e] = l]

\* Between sessions the stores grow; the server's program seeds an empty one.
Grow(n) ==
  /\ \A e \in Engine : pc[e] = "off"
  /\ LedgerFlush(n)
  /\ UNCHANGED sessionVars

\* connect and accept, and vicarl_p2p_sync_init at both ends.
Connect ==
  /\ \A e \in Engine : pc[e] = "off"
  /\ sessions < MaxSessions
  /\ sessions' = sessions + 1
  /\ localTip' = [e \in Engine |-> StoreTip(e)]
  /\ peerTip' = [e \in Engine |-> NoTip]
  /\ awaiting' = [e \in Engine |-> FALSE]
  /\ status' = [e \in Engine |-> "OK"]
  /\ net' = [e \in Engine |-> <<>>]
  /\ sent' = [e \in Engine |-> 0]
  /\ pc' = [e \in Engine |-> "hello"]
  /\ havePeerTip' = FALSE
  /\ disturbed' = FALSE
  /\ announced' = Len(store[Host[Server]])
  /\ UNCHANGED <<setup, store, calls, faults, flushed, kills>>

\* The socket takes one more of the frames that e is sending.
Transmit(e) ==
  /\ Blocked(e)
  /\ sent[Peer[e]] < SocketFrames
  /\ sent' = [sent EXCEPT ![Peer[e]] = @ + 1]
  /\ UNCHANGED <<vars, pc, havePeerTip, sessions, kills, disturbed, announced>>

StartHello(e) ==
  /\ pc[e] = "hello"
  /\ SendHello(e)
  /\ Goto(e, "tip")
  /\ UNCHANGED <<sent, havePeerTip, sessions, kills, disturbed, announced>>

\* A variant that does not announce an empty store.
StartTipIfAny(e) ==
  /\ pc[e] = "tip" /\ ~Blocked(e)
  /\ IF StoreTip(e) = NoTip THEN UNCHANGED vars ELSE SendTip(e)
  /\ Goto(e, "receive")
  /\ UNCHANGED <<sent, havePeerTip, sessions, kills, disturbed, announced>>

StartTip(e) ==
  /\ pc[e] = "tip" /\ ~Blocked(e)
  /\ SendTip(e)
  /\ Goto(e, "receive")
  /\ UNCHANGED <<sent, havePeerTip, sessions, kills, disturbed, announced>>

\* One frame from the socket, through the engine; its sends block.
Receive(e) ==
  /\ pc[e] = "receive" /\ ~Blocked(e)
  /\ sent[e] > 0
  /\ havePeerTip' = (havePeerTip \/ (e = Client /\ net[e][1].type = "TIP"))
  /\ Deliver(e)
  /\ sent' = [sent EXCEPT ![e] = @ - 1]
  /\ disturbed' = (disturbed \/ faults' # faults)
  /\ Goto(e, "received")
  /\ UNCHANGED <<sessions, kills, announced>>

-----------------------------------------------------------------------------
\* A program ends, and with it its end of the connection.  What it left in the
\* socket reaches the peer or, when the connection is reset, is lost from some
\* frame on.
End(e) ==
  /\ Goto(e, "off")
  /\ \E k \in 0..sent[Peer[e]] :
       /\ net' = [net EXCEPT ![e] = <<>>, ![Peer[e]] = SubSeq(@, 1, k)]
       /\ sent' = [sent EXCEPT ![e] = 0, ![Peer[e]] = k]
  /\ UNCHANGED <<setup, store, localTip, peerTip, awaiting, status, calls,
                 faults, flushed, havePeerTip, sessions, announced>>

\* Variants of SyncComplete: one segment early, and only at the very tip.
SyncCompleteEarly(e) ==
  e = Client /\ havePeerTip /\ Len(store[Host[e]]) + 1 >= peerTip[e].no

SyncCompleteExact(e) ==
  e = Client /\ havePeerTip /\ Len(store[Host[e]]) = peerTip[e].no

\* "sync complete": the client has as many segments as the peer announced.
SyncComplete(e) ==
  e = Client /\ havePeerTip /\ Len(store[Host[e]]) >= peerTip[e].no

\* After on_message has returned: leave, or go on receiving.
Leave(e) ==
  /\ pc[e] = "received" /\ ~Blocked(e)
  /\ status[e] # "OK" \/ SyncComplete(e)
  /\ End(e)
  /\ UNCHANGED <<kills, disturbed>>

Again(e) ==
  /\ pc[e] = "received" /\ ~Blocked(e)
  /\ status[e] = "OK" /\ ~SyncComplete(e)
  /\ Goto(e, "receive")
  /\ UNCHANGED <<vars, sent, havePeerTip, sessions, kills, disturbed, announced>>

\* The peer is gone: recv finds no more frames, or send fails.
Disconnected(e) ==
  /\ pc[e] # "off" /\ pc[Peer[e]] = "off"
  /\ Blocked(e) \/ (pc[e] = "receive" /\ sent[e] = 0)
  /\ End(e)
  /\ UNCHANGED <<kills, disturbed>>

Kill(e) ==
  /\ pc[e] # "off"
  /\ kills < MaxKills
  /\ kills' = kills + 1
  /\ disturbed' = TRUE
  /\ End(e)

Run(e) ==
  Transmit(e) \/ StartHello(e) \/ StartTip(e) \/ Receive(e) \/ Leave(e)
  \/ Again(e) \/ Disconnected(e)

SessionNext ==
  \/ Connect
  \/ \E n \in Node : Grow(n)
  \/ \E e \in Engine : Run(e) \/ Kill(e)

\* Each program keeps running, and its blocking calls return when they can.
SessionSpec ==
  SessionInit /\ [][SessionNext]_allVars /\ \A e \in Engine : WF_allVars(Run(e))

-----------------------------------------------------------------------------
\* Properties.

\* After a session in which nobody was killed and no append failed, the client
\* has every segment the server had, whatever earlier sessions left behind,
\* unless both nodes have written segments of their own (a fork ends the session
\* with an error): an engine that was waiting for segments when its session
\* broke off does not keep waiting in the next one.
UndisturbedSyncs ==
  (\A e \in Engine : pc[e] = "off") /\ ~disturbed /\ ~Forked
    => Len(store[Host[Client]]) >= announced

\* The server's store never changes while it serves: a client that is ahead
\* leaves on the server's TIP, before it answers the server's request.
ServerOnlyServes ==
  [][store'[Host[Server]] # store[Host[Server]] => pc[Server] = "off"]_allVars

\* What the server is ahead when the session begins fits into one answer.
OneRequestCovers == announced <= Len(store[Host[Client]]) + MaxInflight

\* A session in which the client needs no second request ends: the programs do
\* not wait for each other for ever, be it with full sockets or for a frame that
\* never comes, and whoever of them is killed or fails.  With a larger lead both
\* wait: awaiting_segments stays set after the last segment of the first answer
\* (sync.c:97, 201), so the client never asks again and the server has nothing
\* more to send.
SessionEnds ==
  \A e \in Engine : (pc[e] = "hello" /\ OneRequestCovers) ~> (pc[e] = "off")
=============================================================================
