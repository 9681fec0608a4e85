----------------------------- MODULE TcpStream ------------------------------
(***************************************************************************)
(* One direction of a TCP connection, byte by byte                         *)
(* (examples/p2p_tcp_common.h).  send_frame writes the length of a frame,  *)
(* big endian, and the frame; recv_frame reads the length and then as many *)
(* bytes; each send and recv of the socket moves some bytes, not all that  *)
(* it was asked for.  Either end may go away at any byte.                  *)
(***************************************************************************)
EXTENDS Wire, Layout

CONSTANTS
  Message,    \* the messages that are sent
  LengthLen,  \* bytes of the length before a frame (4 in the code)
  Capacity,   \* bytes the socket holds
  MaxSent     \* bound: messages sent

ASSUME TcpStreamAssumption ==
  /\ \A m \in Message : m.type \in DOMAIN PayloadLayout
  /\ LengthLen \in Nat \ {0} /\ Capacity \in Nat \ {0} /\ MaxSent \in Nat

VARIABLES
  sent,       \* messages given to send_frame
  out,        \* bytes that write_all has still to write
  wire,       \* bytes in the socket
  want,       \* bytes that the current read_all is to read
  body,       \* it reads the frame, not its length
  got,        \* what it has read so far
  delivered,  \* decoded messages
  writer,     \* the sending program is alive
  reader      \* the receiving one: "open", or why it left its loop

vars == <<sent, out, wire, want, body, got, delivered, writer, reader>>

Init ==
  /\ sent = <<>> /\ delivered = <<>>
  /\ out = <<>> /\ wire = <<>> /\ got = <<>>
  /\ want = LengthLen
  /\ body = FALSE
  /\ writer = TRUE
  /\ reader = "open"

\* htonl and ntohl.  (The variant leaves the bytes in the host's order.)
LengthBytesLittle(n) ==
  [i \in 1..LengthLen |-> (n \div (2 * Group) ^ (i - 1)) % (2 * Group)]

LengthBytes(n) ==
  [i \in 1..LengthLen |-> (n \div (2 * Group) ^ (LengthLen - i)) % (2 * Group)]

LengthOf(s) == FoldLeft(LAMBDA n, byte : 2 * Group * n + byte, 0, s)

\* The ways to write number v: the shortest, which the writer uses, and those
\* with leading zero groups, which a peer of another make may use and the reader
\* takes as well.
Continued(groups) ==
  [i \in DOMAIN groups |-> groups[i] + IF i < Len(groups) THEN Group ELSE 0]

VarintForms(v) ==
  {Continued(g) : g \in {h \in UNION {[1..n -> 0..(Group - 1)] : n \in 1..MaxBytes} :
                           GroupsValue(h) = v}}

FramesOf ==
  [m \in Message |->
     {WireEncode(m)} \cup
     IF m.type = TIP
     THEN {Frame(TIP, form \o m.vals[2]) : form \in VarintForms(m.vals[1])}
     ELSE {}]

-----------------------------------------------------------------------------
\* send_frame; write_all returns once everything is written.
SendFrame(m) ==
  /\ writer /\ out = <<>>
  /\ Len(sent) < MaxSent
  /\ sent' = Append(sent, m)
  /\ \E f \in FramesOf[m] : out' = LengthBytes(Len(f)) \o f
  /\ UNCHANGED <<wire, want, body, got, delivered, writer, reader>>

\* Send(2) takes at least one byte.
Write ==
  /\ writer /\ reader = "open"
  /\ \E n \in 1..Len(out) :
       /\ Len(wire) + n <= Capacity
       /\ wire' = wire \o SubSeq(out, 1, n)
       /\ out' = SubSeq(out, n + 1, Len(out))
  /\ UNCHANGED <<sent, want, body, got, delivered, writer, reader>>

\* What the receiving loop does with what a read_all has read.
Partial(s) ==
  /\ Len(s) < want
  /\ got' = s
  /\ UNCHANGED <<want, body, delivered, reader>>

LengthRead(s) ==
  /\ Len(s) = want /\ ~body
  /\ got' = <<>>
  /\ IF LengthOf(s) > 0
     THEN want' = LengthOf(s) /\ body' = TRUE /\ UNCHANGED reader
     ELSE reader' = "FORMAT" /\ UNCHANGED <<want, body>>
  /\ UNCHANGED delivered

FrameRead(s) ==
  /\ Len(s) = want /\ body
  /\ got' = <<>> /\ want' = LengthLen /\ body' = FALSE
  /\ \/ /\ \E m \in WireDecode(s) : delivered' = Append(delivered, m)
        /\ UNCHANGED reader
     \/ /\ WireDecode(s) = {}
        /\ reader' = "FORMAT"
        /\ UNCHANGED delivered

Read ==
  /\ reader = "open"
  /\ \E n \in 1..Len(wire) :
       /\ n <= want - Len(got)
       /\ wire' = SubSeq(wire, n + 1, Len(wire))
       /\ LET s == got \o SubSeq(wire, 1, n)
          IN  Partial(s) \/ LengthRead(s) \/ FrameRead(s)
  /\ UNCHANGED <<sent, out, writer>>

-----------------------------------------------------------------------------
\* The sending program ends or is killed; when the connection is reset, bytes
\* on their way are lost.
WriterEnds ==
  /\ writer
  /\ writer' = FALSE
  /\ out' = <<>>
  /\ \E n \in 0..Len(wire) : wire' = SubSeq(wire, 1, n)
  /\ UNCHANGED <<sent, want, body, got, delivered, reader>>

\* recv returns 0: the loop ends, whatever has been read of the next frame.
EndOfStream ==
  /\ reader = "open" /\ ~writer /\ wire = <<>>
  /\ reader' = "disconnected"
  /\ UNCHANGED <<sent, out, wire, want, body, got, delivered, writer>>

ReaderEnds ==
  /\ reader = "open"
  /\ reader' = "ended"
  /\ UNCHANGED <<sent, out, wire, want, body, got, delivered, writer>>

\* send fails once the reader is gone.
WriteFails ==
  /\ writer /\ out # <<>> /\ reader # "open"
  /\ out' = <<>> /\ writer' = FALSE
  /\ UNCHANGED <<sent, wire, want, body, got, delivered, reader>>

Next ==
  \/ \E m \in Message : SendFrame(m)
  \/ Write \/ Read \/ WriterEnds \/ EndOfStream \/ ReaderEnds \/ WriteFails

Spec == Init /\ [][Next]_vars

\* write_all and read_all are loops, and the socket hands on what it holds.
FairSpec == Spec /\ WF_vars(Write) /\ WF_vars(Read)

-----------------------------------------------------------------------------
\* Properties.

\* However the bytes are split up by the socket and wherever the connection
\* breaks, the messages delivered are the messages sent, in order and without
\* a gap.  A number arrives as the same number with however many leading zero
\* groups it travels.
Queue == INSTANCE FrameQueue

ImplementsFrameQueue == Queue!Spec

\* The receiver never sees a frame that does not decode: a connection that
\* breaks in the middle of a frame is a disconnection and nothing else, and
\* numbers of every width and with leading zero groups are read.
NothingMalformed == reader # "FORMAT"

\* A segment, and each record in it, decodes to what was encoded, and no part
\* of it that is cut off decodes to anything: a file or a row that came out
\* short is always noticed.
TruncatedNeverDecodes ==
  \A i \in 1..Len(delivered) : delivered[i].type = SEGMENT =>
    LET bytes == delivered[i].vals[3]
    IN  /\ \A seg \in SegmentDecode(bytes) :
             /\ SegmentEncode(seg) = bytes
             /\ \A j \in 1..Len(seg.recs) :
                  /\ \E rec \in RecordDecode(seg.recs[j]) :
                       RecordEncode(rec) = seg.recs[j]
                  /\ \A k \in 0..(Len(seg.recs[j]) - 1) :
                       RecordDecode(SubSeq(seg.recs[j], 1, k)) = {}
        /\ SegmentDecode(bytes) # {}
        /\ \A k \in 0..(Len(bytes) - 1) :
             SegmentDecode(SubSeq(bytes, 1, k)) = {}

\* A message that was sent arrives unless one of the programs ends.
Arrives ==
  \A k \in 1..MaxSent :
    (Len(sent) >= k) ~> (Len(delivered) >= k \/ ~writer \/ reader # "open")
=============================================================================
