------------------------- MODULE P2PReliableProofs --------------------------
(***************************************************************************)
(* Proofs about replication (p2p/sync.c) over an ordered connection        *)
(* without faults, between two parties of whom at most one writes: no call *)
(* of the engine fails.                                                    *)
(*                                                                         *)
(* The engine has no window and no sequence numbers for requests, only the *)
(* flag awaiting_segments, and it clears the flag when it has caught up    *)
(* with the last tip it heard of, while answers may still be on their way. *)
(* Conversation says why the answers to two requests nevertheless never    *)
(* overlap. At most one request is on its way, and none while answers are; *)
(* the answers on their way are the next segments, one after the other;    *)
(* and when the reader no longer waits although answers are on their way,  *)
(* they come before every announcement that could make it ask again.       *)
(***************************************************************************)
EXTENDS P2PSyncProofs

\* Most steps are first-order: Zenon is tried first, and then the SMT solver.
\* A step that needs numbers or sequences names the solver.
USE ZenonT(20), SMTT(30)

USE P2PSyncAssumption

\* Announcements to the reader: no smaller than what it has heard before, and
\* no larger than the writer's chain.
Announced(s, known, len) ==
  \A i \in 1..Len(s) :
    /\ s[i].type \in {"HELLO", "TIP", "SEGMENT"}
    /\ s[i].type = "TIP" =>
         /\ s[i].tip.no \in known..len
         /\ \A k \in 1..Len(s) :
              k < i /\ s[k].type = "TIP" => s[k].tip.no <= s[i].tip.no

-----------------------------------------------------------------------------
\* The reader takes a frame, and what a TIP announces is what it knows.
LEMMA AnnouncedShift ==
  ASSUME NEW s, IsSequence(s), Len(s) # 0, NEW known \in Nat, NEW len \in Nat,
         Announced(s, known, len), NEW next \in Nat,
         IF s[1].type = "TIP" THEN next = s[1].tip.no ELSE next = known
  PROVE  Announced(Without(s, 1), next, len)
<1> DEFINE t == Without(s, 1)
<1>1. Len(s) \in Nat /\ Len(t) = Len(s) - 1 /\ \A i \in 1..Len(t) : t[i] = s[i + 1]
  BY ShiftFacts, SequenceFacts
<1> HIDE DEF t
<1>2. ASSUME NEW i \in 1..Len(t)
      PROVE  /\ t[i].type \in {"HELLO", "TIP", "SEGMENT"}
             /\ t[i].type = "TIP" =>
                  /\ t[i].tip.no \in next..len
                  /\ \A k \in 1..Len(t) :
                       k < i /\ t[k].type = "TIP" => t[k].tip.no <= t[i].tip.no
  <2>1. i + 1 \in 1..Len(s) /\ t[i] = s[i + 1] /\ 1 \in 1..Len(s) /\ 1 < i + 1
    BY SMTT(30), <1>1
  <2>2. t[i].type \in {"HELLO", "TIP", "SEGMENT"}
    BY <2>1 DEF Announced
  <2>3. ASSUME t[i].type = "TIP"
        PROVE  /\ t[i].tip.no \in known..len
               /\ \A k \in 1..Len(s) :
                    k < i + 1 /\ s[k].type = "TIP" => s[k].tip.no <= t[i].tip.no
    BY <2>1, <2>3 DEF Announced
  <2>4. ASSUME t[i].type = "TIP" PROVE t[i].tip.no \in next..len
    <3>1. CASE s[1].type = "TIP"
      BY SMTT(30), <2>1, <2>3, <2>4, <3>1
    <3>2. CASE s[1].type # "TIP"
      BY <2>3, <2>4, <3>2
    <3> QED
      BY <3>1, <3>2
  <2>5. ASSUME t[i].type = "TIP", NEW k \in 1..Len(t), k < i, t[k].type = "TIP"
        PROVE  t[k].tip.no <= t[i].tip.no
    <3>1. k + 1 \in 1..Len(s) /\ t[k] = s[k + 1] /\ k + 1 < i + 1
      BY SMTT(30), <1>1, <2>5
    <3> QED
      BY <2>3, <2>5, <3>1
  <2> QED
    BY <2>2, <2>4, <2>5
<1> QED
  BY <1>2 DEF Announced, t

\* Frames that are no announcements follow.
LEMMA AnnouncedJoin ==
  ASSUME NEW s, IsSequence(s), NEW t, IsSequence(t),
         NEW known \in Nat, NEW len \in Nat, Announced(s, known, len),
         \A i \in 1..Len(t) : t[i].type \in {"HELLO", "SEGMENT"}
  PROVE  Announced(s \o t, known, len)
<1> DEFINE u == s \o t
<1>1. /\ Len(s) \in Nat /\ Len(t) \in Nat /\ Len(u) = Len(s) + Len(t)
      /\ \A i \in 1..Len(s) : u[i] = s[i]
      /\ \A i \in 1..Len(t) : u[Len(s) + i] = t[i]
  BY SMTT(30), JoinFacts, SequenceFacts
<1> HIDE DEF u
<1>2. ASSUME NEW i \in 1..Len(u), i \notin 1..Len(s)
      PROVE  u[i].type \in {"HELLO", "SEGMENT"}
  <2>1. i - Len(s) \in 1..Len(t) /\ i = Len(s) + (i - Len(s))
    BY SMT, <1>1, <1>2
  <2>2. u[i] = t[i - Len(s)]
    BY <1>1, <2>1
  <2> QED
    BY <2>1, <2>2
<1>3. ASSUME NEW i \in 1..Len(u)
      PROVE  /\ u[i].type \in {"HELLO", "TIP", "SEGMENT"}
             /\ u[i].type = "TIP" =>
                  /\ u[i].tip.no \in known..len
                  /\ \A k \in 1..Len(u) :
                       k < i /\ u[k].type = "TIP" => u[k].tip.no <= u[i].tip.no
  <2>1. CASE i \notin 1..Len(s)
    BY <1>2, <2>1
  <2>2. CASE i \in 1..Len(s)
    <3>1. /\ u[i].type \in {"HELLO", "TIP", "SEGMENT"}
          /\ u[i].type = "TIP" =>
               /\ u[i].tip.no \in known..len
               /\ \A k \in 1..Len(s) :
                    k < i /\ s[k].type = "TIP" => s[k].tip.no <= u[i].tip.no
      BY <1>1, <2>2 DEF Announced
    <3> QED
      BY <1>1, <1>2, <2>2, <3>1
  <2> QED
    BY <2>1, <2>2
<1> QED
  BY <1>3 DEF Announced, u

\* An announcement of all of the writer's chain follows.
LEMMA AnnouncedTip ==
  ASSUME NEW s, IsSequence(s), NEW known \in Nat, NEW len \in Nat, known <= len,
         Announced(s, known, len), NEW t, t.no = len
  PROVE  Announced(s \o <<TipMsg(t)>>, known, len)
<1> DEFINE m == TipMsg(t)
           u == s \o <<m>>
<1>0. m.type = "TIP" /\ m.tip.no = len
  BY FrameTypes
<1> HIDE DEF m
<1>1. /\ Len(s) \in Nat /\ Len(u) = Len(s) + 1
      /\ \A i \in 1..Len(s) : u[i] = s[i]
      /\ u[Len(s) + 1] = m
  BY SMT, JoinOne, SequenceFacts
<1> HIDE DEF u
<1>2. ASSUME NEW i \in 1..Len(s), s[i].type = "TIP"
      PROVE  s[i].tip.no \in known..len
  BY <1>2 DEF Announced
<1>3. ASSUME NEW i \in 1..Len(u)
      PROVE  /\ u[i].type \in {"HELLO", "TIP", "SEGMENT"}
             /\ u[i].type = "TIP" =>
                  /\ u[i].tip.no \in known..len
                  /\ \A k \in 1..Len(u) :
                       k < i /\ u[k].type = "TIP" => u[k].tip.no <= u[i].tip.no
  <2>1. CASE i = Len(s) + 1
    BY SMTT(30), <1>0, <1>1, <1>2, <2>1
  <2>2. CASE i # Len(s) + 1
    <3>1. i \in 1..Len(s) /\ u[i] = s[i]
      BY SMTT(30), <1>1, <2>2
    <3>2. \A k \in 1..Len(u) : k < i => k \in 1..Len(s) /\ u[k] = s[k]
      BY SMT, <1>1, <3>1
    <3> QED
      BY <3>1, <3>2 DEF Announced
  <2> QED
    BY <2>1, <2>2
<1> QED
  BY <1>3 DEF Announced, u, m

\* The writer's chain grows.
LEMMA AnnouncedGrows ==
  ASSUME NEW s, NEW known \in Nat, NEW len \in Nat, Announced(s, known, len),
         NEW more \in Nat, len <= more
  PROVE  Announced(s, known, more)
BY SMTT(30) DEF Announced

-----------------------------------------------------------------------------
\* A frame that is no answer is taken: what is before the answers gets shorter.
LEMMA AnswersShift ==
  ASSUME NEW s, IsSequence(s), Len(s) # 0, NEW c, NEW n \in Nat, NEW j \in Nat,
         NEW k \in Nat, Answers(s, c, n, j, k), s[1].type # "SEGMENT"
  PROVE  /\ k > 0 => j > 0
         /\ \E i \in Nat : Answers(Without(s, 1), c, n, i, k)
<1> DEFINE t == Without(s, 1)
<1>1. Len(s) \in Nat /\ Len(t) = Len(s) - 1 /\ \A i \in 1..Len(t) : t[i] = s[i + 1]
  BY ShiftFacts, SequenceFacts
<1> HIDE DEF t
<1>2. k > 0 => j > 0
  BY SMTT(30), <1>1 DEF Answers
<1>3. CASE j = 0
  <2>1. k = 0
    BY <1>2, <1>3
  <2>2. Answers(t, c, n, 0, k)
    BY SMTT(30), <1>1, <1>3, <2>1 DEF Answers
  <2> QED
    BY <1>2, <2>2 DEF t
<1>4. CASE j # 0
  <2>1. PICK h \in Nat : j = h + 1
    BY <1>4
  <2>2. h + k <= Len(t)
    BY SMT, <1>1, <2>1 DEF Answers
  <2>3. ASSUME NEW i \in 1..Len(t)
        PROVE  t[i].type = "SEGMENT" <=> i \in (h + 1)..(h + k)
    <3>1. /\ i + 1 \in 1..Len(s)
          /\ i + 1 \in (j + 1)..(j + k) <=> i \in (h + 1)..(h + k)
      BY SMT, <1>1, <2>1
    <3>2. s[i + 1].type = "SEGMENT" <=> i + 1 \in (j + 1)..(j + k)
      BY <3>1 DEF Answers
    <3> QED
      BY <1>1, <3>1, <3>2
  <2>4. ASSUME NEW i \in (h + 1)..(h + k)
        PROVE  t[i] = SegmentMsg(n + i - h, c[n + i - h])
    <3>1. i + 1 \in (j + 1)..(j + k) /\ i \in 1..Len(t)
          /\ n + (i + 1) - j = n + i - h
      BY <2>1, <2>2
    <3>2. s[i + 1] = SegmentMsg(n + (i + 1) - j, c[n + (i + 1) - j])
      BY <3>1 DEF Answers
    <3> QED
      BY <1>1, <3>1, <3>2
  <2>5. Answers(t, c, n, h, k)
    BY <2>2, <2>3, <2>4 DEF Answers
  <2> QED
    BY <1>2, <2>5 DEF t
<1> QED
  BY <1>3, <1>4

\* The first frame is an answer: it is the next segment, and the others follow.
LEMMA AnswersTaken ==
  ASSUME NEW s, IsSequence(s), Len(s) # 0, NEW c, NEW n \in Nat, NEW j \in Nat,
         NEW k \in Nat, Answers(s, c, n, j, k), s[1].type = "SEGMENT"
  PROVE  /\ j = 0 /\ k > 0
         /\ s[1] = SegmentMsg(n + 1, c[n + 1])
         /\ Answers(Without(s, 1), c, n + 1, 0, k - 1)
<1> DEFINE t == Without(s, 1)
<1>1. Len(s) \in Nat /\ Len(t) = Len(s) - 1 /\ \A i \in 1..Len(t) : t[i] = s[i + 1]
  BY ShiftFacts, SequenceFacts
<1> HIDE DEF t
<1>2. j = 0 /\ k > 0
  BY SMT, <1>1 DEF Answers
<1>3. \A i \in 1..k : s[i] = SegmentMsg(n + i, c[n + i])
  <2> TAKE i \in 1..k
  <2>1. i \in (j + 1)..(j + k) /\ n + i - j = n + i
    BY <1>2
  <2> QED
    BY <2>1 DEF Answers
<1>4. s[1] = SegmentMsg(n + 1, c[n + 1])
  BY SMT, <1>2, <1>3
<1>5. PICK h \in Nat : k = h + 1
  BY <1>2
<1>6. h <= Len(t)
  BY SMT, <1>1, <1>2, <1>5 DEF Answers
<1>7. \A i \in 1..Len(t) : t[i].type = "SEGMENT" <=> i \in 1..h
  BY SMTT(30), <1>1, <1>2, <1>5 DEF Answers
<1>8. ASSUME NEW i \in 1..h
      PROVE  t[i] = SegmentMsg(n + 1 + i, c[n + 1 + i])
  <2>1. i + 1 \in 1..k /\ i \in 1..Len(t) /\ n + (i + 1) = n + 1 + i
    BY SMT, <1>1, <1>5, <1>6
  <2>2. s[i + 1] = SegmentMsg(n + (i + 1), c[n + (i + 1)])
    BY <1>3, <2>1
  <2> QED
    BY <1>1, <2>1, <2>2
<1>9. Answers(t, c, n + 1, 0, h)
  <2>1. ASSUME NEW i \in (0 + 1)..(0 + h)
        PROVE  t[i] = SegmentMsg(n + 1 + i - 0, c[n + 1 + i - 0])
    BY SMT, <1>8
  <2> QED
    BY SMT, <1>6, <1>7, <2>1 DEF Answers
<1> QED
  BY <1>2, <1>4, <1>5, <1>9 DEF t

\* A frame that is no answer follows.
LEMMA AnswersJoin ==
  ASSUME NEW s, IsSequence(s), NEW c, NEW n \in Nat, NEW j \in Nat, NEW k \in Nat,
         Answers(s, c, n, j, k), NEW m, m.type # "SEGMENT"
  PROVE  Answers(s \o <<m>>, c, n, j, k)
<1> DEFINE u == s \o <<m>>
<1>1. /\ Len(s) \in Nat /\ Len(u) = Len(s) + 1
      /\ \A i \in 1..Len(s) : u[i] = s[i]
      /\ u[Len(s) + 1] = m
  BY SMT, JoinOne, SequenceFacts
<1> HIDE DEF u
<1>2. j + k <= Len(s)
  BY DEF Answers
<1>3. ASSUME NEW i \in 1..Len(u)
      PROVE  u[i].type = "SEGMENT" <=> i \in (j + 1)..(j + k)
  BY SMTT(30), <1>1, <1>2 DEF Answers
<1>4. ASSUME NEW i \in (j + 1)..(j + k)
      PROVE  u[i] = SegmentMsg(n + i - j, c[n + i - j])
  <2>1. i \in 1..Len(s)
    BY SMT, <1>1, <1>2
  <2> QED
    BY <1>1, <2>1 DEF Answers
<1> QED
  BY SMT, <1>1, <1>2, <1>3, <1>4 DEF Answers, u

\* The writer's chain grows.
LEMMA AnswersGrow ==
  ASSUME NEW s, NEW c, NEW n \in Nat, NEW j \in Nat, NEW k \in Nat,
         Answers(s, c, n, j, k), NEW d, \A i \in 1..(n + k) : d[i] = c[i]
  PROVE  Answers(s, d, n, j, k)
<1>1. ASSUME NEW i \in (j + 1)..(j + k)
      PROVE  s[i] = SegmentMsg(n + i - j, d[n + i - j])
  <2>1. n + i - j \in 1..(n + k)
    BY SMTT(30)
  <2> QED
    BY <2>1 DEF Answers
<1> QED
  BY <1>1 DEF Answers

-----------------------------------------------------------------------------
\* The conversation between a reader e, whose ledger has written nothing, and
\* its peer.
Conversation(e) ==
  LET p == Peer[e]
      n == Len(store[Host[e]])
      c == store[Host[p]]
  IN  /\ localTip[e].no = n
      /\ ~awaiting[p] /\ peerTip[p].no <= n
      /\ peerTip[e].no <= Len(c)
      /\ awaiting[e] => n < peerTip[e].no
      /\ ToWriter(net[p], n)
      /\ awaiting[e] \/ NoRequest(net[p])
      /\ Announced(net[e], peerTip[e].no, Len(c))
      /\ \E j, k \in Nat :
           /\ Answers(net[e], c, n, j, k)
           /\ n + k <= localTip[p].no
           /\ k > 0 => NoRequest(net[p])
           /\ k > 0 /\ ~awaiting[e] => j = 0 /\ peerTip[e].no <= n

\* The invariant for reliable connections.
RInv ==
  Reliable => /\ \A e \in Engine : Reader(e) => Conversation(e)
              /\ Forked \/ \A e \in Engine : status[e] = "OK"

-----------------------------------------------------------------------------
\* On a reliable connection no fault happens.
LEMMA NoFault ==
  ASSUME Reliable, NEW kind
  PROVE  ~Fault(kind)
BY DEF Reliable, Fault

\* A call that returns OK, or no call at all.
StatusKept == UNCHANGED status \/ \E d \in Engine : Return(d, "OK")

\* The reader handles a HELLO.
LEMMA ReaderHello ==
  ASSUME IInv, TwoParties, NEW e \in Engine, Conversation(e), Len(net[e]) # 0,
         NEW q, q = [net EXCEPT ![e] = Without(net[e], 1)],
         OnHello(e, net[e][1], q)
  PROVE  Conversation(e)' /\ StatusKept
<1> DEFINE p == Peer[e]
           n == Len(store[Host[e]])
           c == store[Host[p]]
           s == net[e]
           known == peerTip[e].no
<1>1. /\ p \in Engine /\ p # e /\ n \in Nat /\ Len(c) \in Nat /\ known \in Nat
      /\ IsSequence(s) /\ net = [d \in Engine |-> net[d]]
  BY ConversationTypes
<1>2. /\ s[1].type = "HELLO" /\ net' = q /\ Return(e, "OK")
      /\ UNCHANGED <<store, localTip, peerTip, awaiting>>
  BY DEF OnHello
<1>3. net'[e] = Without(s, 1) /\ net'[p] = net[p]
  BY <1>1, <1>2
<1>4. /\ localTip[e].no = n /\ ~awaiting[p] /\ peerTip[p].no <= n
      /\ known <= Len(c) /\ (awaiting[e] => n < known)
      /\ ToWriter(net[p], n) /\ (awaiting[e] \/ NoRequest(net[p]))
      /\ Announced(s, known, Len(c))
  BY DEF Conversation
<1>5. PICK j, k \in Nat :
        /\ Answers(s, c, n, j, k)
        /\ n + k <= localTip[p].no
        /\ k > 0 => NoRequest(net[p])
        /\ k > 0 /\ ~awaiting[e] => j = 0 /\ known <= n
  BY DEF Conversation
<1> HIDE DEF p, n, c, s, known
<1>6. Announced(net'[e], known, Len(c))
  <2>1. Announced(Without(s, 1), known, Len(c))
    BY <1>1, <1>2, <1>4, AnnouncedShift DEF s
  <2> QED
    BY <1>3, <2>1
<1>7. (k > 0 => j > 0) /\ \E i \in Nat : Answers(Without(s, 1), c, n, i, k)
  BY <1>1, <1>2, <1>5, AnswersShift DEF s
<1>8. PICK i \in Nat : Answers(net'[e], c, n, i, k)
  BY <1>3, <1>7
<1>9. k > 0 /\ ~awaiting[e] => i = 0 /\ known <= n
  BY <1>5, <1>7
<1>10. Conversation(e)'
  BY <1>2, <1>3, <1>4, <1>5, <1>6, <1>8, <1>9 DEF Conversation, p, n, c, s, known
<1> QED
  BY <1>2, <1>10 DEF StatusKept

\* The reader handles a TIP: it asks when it is behind and does not wait, and
\* then no answer is on its way.
LEMMA ReaderTip ==
  ASSUME IInv, TwoParties, Reliable, NEW e \in Engine, Conversation(e),
         Len(net[e]) # 0, NEW q, q = [net EXCEPT ![e] = Without(net[e], 1)],
         OnTip(e, net[e][1], q)
  PROVE  Conversation(e)' /\ StatusKept
<1> DEFINE p == Peer[e]
           n == Len(store[Host[e]])
           c == store[Host[p]]
           s == net[e]
           known == peerTip[e].no
           tip == net[e][1].tip
<1>1. /\ p \in Engine /\ p # e /\ n \in Nat /\ Len(c) \in Nat /\ known \in Nat
      /\ IsSequence(s) /\ IsSequence(net[p]) /\ net = [d \in Engine |-> net[d]]
      /\ awaiting \in [Engine -> BOOLEAN]
  BY ConversationTypes
<1>2. /\ s[1].type = "TIP" /\ peerTip' = [peerTip EXCEPT ![e] = tip]
      /\ RequestMore(e, q, localTip[e], tip, awaiting[e])
      /\ UNCHANGED <<store, localTip>>
  BY DEF OnTip
<1>3. q[e] = Without(s, 1) /\ q[p] = net[p] /\ q = [d \in Engine |-> q[d]]
  BY <1>1
<1>4. /\ localTip[e].no = n /\ ~awaiting[p] /\ peerTip[p].no <= n
      /\ known <= Len(c) /\ (awaiting[e] => n < known)
      /\ ToWriter(net[p], n) /\ (awaiting[e] \/ NoRequest(net[p]))
      /\ Announced(s, known, Len(c))
  BY DEF Conversation
<1>5. PICK j, k \in Nat :
        /\ Answers(s, c, n, j, k)
        /\ n + k <= localTip[p].no
        /\ k > 0 => NoRequest(net[p])
        /\ k > 0 /\ ~awaiting[e] => j = 0 /\ known <= n
  BY DEF Conversation
<1>6. peerTip'[e] = tip /\ peerTip'[p] = peerTip[p]
  BY <1>1, <1>2 DEF IInv, Shape
<1> HIDE DEF p, n, c, s, known
<1>7. tip.no \in known..Len(c) /\ tip.no \in Nat
  <2>1. 1 \in 1..Len(s)
    BY SMT, <1>1, SequenceFacts DEF s
  <2>2. s[1].tip.no \in known..Len(c)
    BY <1>2, <1>4, <2>1 DEF Announced
  <2> QED
    BY SMTT(30), <1>1, <2>2 DEF s
<1>8. Announced(q[e], tip.no, Len(c))
  <2>1. PICK x \in Nat : x = s[1].tip.no
    BY <1>7 DEF s
  <2>2. Announced(Without(s, 1), x, Len(c))
    BY <1>1, <1>2, <1>4, <2>1, AnnouncedShift DEF s
  <2> QED
    BY <1>3, <2>1, <2>2 DEF s
<1>9. (k > 0 => j > 0) /\ \E i \in Nat : Answers(Without(s, 1), c, n, i, k)
  BY <1>1, <1>2, <1>5, AnswersShift DEF s
<1>10. PICK i \in Nat : Answers(q[e], c, n, i, k)
  BY <1>3, <1>9
<1>11. k > 0 => awaiting[e]
  BY <1>5, <1>9
<1> HIDE DEF tip
<1>12. CASE ~Asks(localTip[e], tip, awaiting[e])
  <2>1. /\ awaiting' = [awaiting EXCEPT ![e] = awaiting[e] /\ ~CaughtUp(localTip[e], tip)]
        /\ net' = q /\ Return(e, "OK")
    BY <1>2, <1>12, NoFault DEF RequestMore
  <2>2. awaiting'[p] = awaiting[p] /\ (awaiting'[e] <=> awaiting[e])
    <3>1. awaiting[e] => ~CaughtUp(localTip[e], tip)
      BY SMT, <1>1, <1>4, <1>7 DEF CaughtUp
    <3> QED
      BY <1>1, <2>1, <3>1
  <2>3. awaiting'[e] => n < tip.no
    BY SMTT(30), <1>1, <1>4, <1>7, <2>2
  <2>4. Conversation(e)'
    <3>1. /\ localTip'[e].no = n /\ ~awaiting'[p] /\ peerTip'[p].no <= n
          /\ peerTip'[e].no <= Len(c) /\ (awaiting'[e] => n < peerTip'[e].no)
          /\ ToWriter(net'[p], n) /\ (awaiting'[e] \/ NoRequest(net'[p]))
          /\ Announced(net'[e], peerTip'[e].no, Len(c))
      <4>1. ~awaiting'[p] /\ (awaiting'[e] \/ NoRequest(net'[p]))
        BY <1>3, <1>4, <2>1, <2>2, Zenon
      <4>2. localTip'[e].no = n /\ peerTip'[p].no <= n /\ peerTip'[e].no <= Len(c)
        BY SMTT(30), <1>1, <1>2, <1>4, <1>6, <1>7
      <4>3. ToWriter(net'[p], n) /\ Announced(net'[e], peerTip'[e].no, Len(c))
        BY <1>3, <1>4, <1>6, <1>8, <2>1
      <4> QED
        BY <1>6, <2>3, <4>1, <4>2, <4>3
    <3>2. /\ Answers(net'[e], c, n, i, k) /\ n + k <= localTip'[p].no
          /\ k > 0 => NoRequest(net'[p])
          /\ k > 0 /\ ~awaiting'[e] => i = 0 /\ peerTip'[e].no <= n
      BY <1>2, <1>3, <1>5, <1>10, <1>11, <2>1, <2>2
    <3> QED
      BY <1>2, <3>1, <3>2 DEF Conversation, p, n, c
  <2> QED
    BY <2>1, <2>4 DEF StatusKept
<1>13. CASE Asks(localTip[e], tip, awaiting[e])
  <2>1. /\ awaiting' = [awaiting EXCEPT ![e] = TRUE]
        /\ net' = Send(q, e, <<GetMsg(n + 1)>>) /\ Return(e, "OK")
    BY <1>2, <1>4, <1>13, NoFault DEF RequestMore
  <2>2. awaiting'[p] = awaiting[p] /\ awaiting'[e]
    BY <1>1, <2>1
  <2>3. ~awaiting[e] /\ n < tip.no
    BY <1>4, <1>13 DEF Asks
  <2>4. k = 0 /\ NoRequest(net[p])
    BY <1>4, <1>11, <2>3
  <2>5. net'[e] = q[e] /\ net'[p] = net[p] \o <<GetMsg(n + 1)>>
    BY <1>1, <1>3, <2>1 DEF Send, p
  <2>6. ToWriter(net'[p], n)
    BY SMTT(30), <1>1, <1>4, <2>4, <2>5, ToWriterJoin
  <2>7. Conversation(e)'
    <3>1. /\ localTip'[e].no = n /\ ~awaiting'[p] /\ peerTip'[p].no <= n
          /\ peerTip'[e].no <= Len(c) /\ (awaiting'[e] => n < peerTip'[e].no)
          /\ ToWriter(net'[p], n) /\ (awaiting'[e] \/ NoRequest(net'[p]))
          /\ Announced(net'[e], peerTip'[e].no, Len(c))
      BY SMTT(30), <1>1, <1>2, <1>4, <1>6, <1>7, <1>8, <2>2, <2>3, <2>5, <2>6
    <3>2. /\ Answers(net'[e], c, n, i, k) /\ n + k <= localTip'[p].no
          /\ k > 0 => NoRequest(net'[p])
          /\ k > 0 /\ ~awaiting'[e] => i = 0 /\ peerTip'[e].no <= n
      BY SMTT(30), <1>2, <1>5, <1>10, <2>4, <2>5
    <3> QED
      BY <1>2, <3>1, <3>2 DEF Conversation, p, n, c
  <2> QED
    BY <2>1, <2>7 DEF StatusKept
<1> QED
  BY <1>12, <1>13

\* The reader handles a SEGMENT: it is the next one, and is accepted; no new
\* request is sent while answers to the last one are on their way.
LEMMA ReaderSegment ==
  ASSUME IInv, TwoParties, WrittenVerifies, Reliable, NEW e \in Engine, Reader(e),
         Conversation(e), Len(net[e]) # 0, net[e][1].type = "SEGMENT",
         NEW q, q = [net EXCEPT ![e] = Without(net[e], 1)],
         OnSegmentAccepted(e, net[e][1], q) \/ OnSegmentRejected(e, net[e][1], q)
  PROVE  Conversation(e)' /\ StatusKept
<1> DEFINE p == Peer[e]
           n == Len(store[Host[e]])
           c == store[Host[p]]
           s == net[e]
           known == peerTip[e].no
           seg == c[n + 1]
<1>1. /\ p \in Engine /\ p # e /\ n \in Nat /\ Len(c) \in Nat /\ known \in Nat
      /\ IsSequence(s) /\ IsSequence(net[p]) /\ net = [d \in Engine |-> net[d]]
      /\ awaiting \in [Engine -> BOOLEAN] /\ localTip[p].no \in 0..Len(c)
      /\ Host[p] # Host[e] /\ Host[e] \in Node /\ Host[p] \in Node
  BY ConversationTypes
<1>2. /\ localTip[e].no = n /\ ~awaiting[p] /\ peerTip[p].no <= n
      /\ known <= Len(c) /\ (awaiting[e] => n < known)
      /\ ToWriter(net[p], n) /\ (awaiting[e] \/ NoRequest(net[p]))
      /\ Announced(s, known, Len(c))
  BY DEF Conversation
<1>3. PICK j, k \in Nat :
        /\ Answers(s, c, n, j, k)
        /\ n + k <= localTip[p].no
        /\ k > 0 => NoRequest(net[p])
        /\ k > 0 /\ ~awaiting[e] => j = 0 /\ known <= n
  BY DEF Conversation
<1>4. /\ j = 0 /\ k > 0
      /\ s[1] = SegmentMsg(n + 1, seg)
      /\ Answers(Without(s, 1), c, n + 1, 0, k - 1)
  <2> HIDE DEF c, n, s
  <2> QED
    BY <1>1, <1>3, AnswersTaken DEF s
<1>5. ApplyStatus(e, s[1]) = "OK"
  <2>1. PICK next \in Nat : next = n + 1
    BY SMTT(30), <1>1
  <2>2. next <= Len(c)
    BY SMTT(30), <1>1, <1>3, <1>4, <2>1
  <2>3. s[1] = SegmentMsg(next, c[next])
    BY <1>4, <2>1
  <2>4. localTip[e].no = Len(store[Host[e]])
    BY DEF Conversation
  <2> QED
    BY <2>1, <2>2, <2>3, <2>4, NextAccepted
<1>6. seg.no = n + 1 /\ s[1].seg = seg
  <2>1. n + 1 \in 1..Len(c)
    BY SMTT(30), <1>1, <1>3, <1>4
  <2>2. seg.no = n + 1
    BY <1>1, <2>1 DEF IInv, StoreInv, Linked
  <2>3. s[1].seg = seg
    <3> HIDE DEF s, n, c, seg
    <3> QED
      BY SMT, <1>4, FrameTypes
  <2> QED
    BY <2>2, <2>3
<1>7. OnSegmentAccepted(e, s[1], q)
  BY <1>5, NoFault DEF OnSegmentRejected
<1>8. /\ store' = [store EXCEPT ![Host[e]] = Append(@, seg)]
      /\ localTip' = [localTip EXCEPT ![e] = TipOf(seg)]
      /\ RequestMore(e, q, TipOf(seg), peerTip[e],
                     awaiting[e] /\ ~CaughtUp(TipOf(seg), peerTip[e]))
      /\ UNCHANGED peerTip
  BY <1>6, <1>7 DEF OnSegmentAccepted
<1>9. q[e] = Without(s, 1) /\ q[p] = net[p]
  BY <1>1
<1>10. /\ Len(store'[Host[e]]) = n + 1 /\ store'[Host[p]] = c
       /\ localTip'[e].no = n + 1 /\ localTip'[p] = localTip[p]
  <2>1. IsSequence(store[Host[e]]) /\ store = [d \in Node |-> store[d]]
        /\ localTip = [d \in Engine |-> localTip[d]]
    BY <1>1 DEF IInv, StoreInv, Shape
  <2>2. Len(Append(store[Host[e]], seg)) = n + 1
    BY SMTT(30), <2>1, AppendFacts
  <2>3. store'[Host[e]] = Append(store[Host[e]], seg) /\ store'[Host[p]] = c
    BY <1>1, <1>8, <2>1
  <2>4. localTip'[e] = TipOf(seg) /\ localTip'[p] = localTip[p]
    BY <1>1, <1>8, <2>1
  <2>5. TipOf(seg).no = n + 1
    BY <1>6 DEF TipOf
  <2> QED
    BY <2>2, <2>3, <2>4, <2>5
<1>11. TipOf(seg).no = n + 1
  BY <1>6 DEF TipOf
<1>12. peerTip[e] = NoTip => known = 0
  BY DEF NoTip
<1> DEFINE tip == TipOf(seg)
           w == awaiting[e] /\ ~CaughtUp(tip, peerTip[e])
<1>13. RequestMore(e, q, tip, peerTip[e], w) /\ tip.no = n + 1
  BY <1>8, <1>11
<1> HIDE DEF p, n, c, s, known, seg, tip
<1>14. ~Asks(tip, peerTip[e], w)
  <2> SUFFICES ASSUME peerTip[e] # NoTip, n + 1 < known, ~w PROVE FALSE
    BY <1>13 DEF Asks, known
  <2>1. ~CaughtUp(tip, peerTip[e])
    BY SMT, <1>1, <1>13 DEF CaughtUp, known
  <2>2. ~awaiting[e]
    BY <2>1
  <2> QED
    BY SMTT(30), <1>1, <1>3, <1>4, <2>2
<1>15. /\ awaiting' = [awaiting EXCEPT ![e] = w /\ ~CaughtUp(tip, peerTip[e])]
       /\ net' = q /\ Return(e, "OK")
  BY <1>13, <1>14, NoFault DEF RequestMore
<1>16. awaiting'[p] = awaiting[p] /\ (awaiting'[e] <=> w)
  BY <1>1, <1>15
<1>17. awaiting'[e] => n + 1 < known
  <2> SUFFICES ASSUME awaiting'[e] PROVE n + 1 < known
    OBVIOUS
  <2>1. awaiting[e] /\ ~CaughtUp(tip, peerTip[e])
    BY <1>16
  <2>2. n < known /\ known # 0
    BY SMTT(30), <1>1, <1>2, <2>1
  <2>3. peerTip[e] # NoTip
    BY <1>12, <2>2
  <2>4. ~(n + 1 >= known)
    BY <1>13, <2>1, <2>3 DEF CaughtUp, known
  <2> QED
    BY SMT, <1>1, <2>4
<1>18. ~awaiting'[e] => known <= n + 1
  <2> SUFFICES ASSUME ~awaiting'[e] PROVE known <= n + 1
    OBVIOUS
  <2>1. CASE ~awaiting[e]
    BY SMTT(30), <1>1, <1>3, <1>4, <2>1
  <2>2. CASE awaiting[e]
    <3>1. CaughtUp(tip, peerTip[e])
      BY <1>16, <2>2
    <3>2. n + 1 >= known
      BY <1>13, <3>1 DEF CaughtUp, known
    <3> QED
      BY <1>1, <3>2
  <2> QED
    BY <2>1, <2>2
<1>19. ToWriter(net[p], n + 1) /\ NoRequest(net[p])
  BY <1>1, <1>2, <1>3, <1>4, ToWriterGrows
<1>20. Announced(Without(s, 1), known, Len(c))
  BY <1>1, <1>2, AnnouncedShift DEF s
<1>21. PICK h \in Nat : k = h + 1
  BY <1>4
<1>22. peerTip[p].no \in Nat
  BY ConversationTypes DEF p
<1>23. /\ localTip'[e].no = n + 1 /\ ~awaiting'[p] /\ peerTip'[p].no <= n + 1
       /\ peerTip'[e].no <= Len(c) /\ (awaiting'[e] => n + 1 < peerTip'[e].no)
       /\ ToWriter(net'[p], n + 1) /\ (awaiting'[e] \/ NoRequest(net'[p]))
       /\ Announced(net'[e], peerTip'[e].no, Len(c))
  <2>1. ~awaiting'[p] /\ NoRequest(net'[p])
    BY <1>2, <1>9, <1>10, <1>15, <1>16, <1>17, <1>19, Zenon
  <2>2. localTip'[e].no = n + 1 /\ peerTip'[p].no <= n + 1 /\ peerTip'[e].no <= Len(c)
    BY SMTT(30), <1>1, <1>2, <1>8, <1>9, <1>10, <1>15, <1>22 DEF known
  <2>3. ToWriter(net'[p], n + 1) /\ Announced(net'[e], peerTip'[e].no, Len(c))
    BY <1>8, <1>9, <1>10, <1>15, <1>19, <1>20 DEF known
  <2>4. awaiting'[e] => n + 1 < peerTip'[e].no
    BY <1>1, <1>8, <1>9, <1>10, <1>15, <1>16, <1>17 DEF known
  <2> QED
    BY <2>1, <2>2, <2>3, <2>4
<1>24. /\ Answers(net'[e], c, n + 1, 0, h) /\ n + 1 + h <= localTip'[p].no
       /\ h > 0 => NoRequest(net'[p])
       /\ h > 0 /\ ~awaiting'[e] => 0 = 0 /\ peerTip'[e].no <= n + 1
  <2>1. k - 1 = h /\ n + 1 + h = n + k
    BY SMTT(30), <1>1, <1>21
  <2> QED
    BY <1>3, <1>4, <1>8, <1>9, <1>10, <1>15, <1>18, <1>19, <2>1 DEF known
<1>25. Conversation(e)'
  BY <1>10, <1>23, <1>24 DEF Conversation, p
<1> QED
  BY <1>15, <1>25 DEF StatusKept

-----------------------------------------------------------------------------
\* The writer handles HELLO or TIP: it is never behind the reader, so it never
\* asks.
LEMMA WriterHelloTip ==
  ASSUME IInv, TwoParties, Reliable, NEW e \in Engine, Conversation(e),
         Len(net[Peer[e]]) # 0,
         NEW q, q = [net EXCEPT ![Peer[e]] = Without(net[Peer[e]], 1)],
         \/ OnHello(Peer[e], net[Peer[e]][1], q)
         \/ OnTip(Peer[e], net[Peer[e]][1], q)
  PROVE  Conversation(e)' /\ StatusKept
<1> DEFINE p == Peer[e]
           n == Len(store[Host[e]])
           c == store[Host[p]]
           s == net[p]
           tip == net[p][1].tip
<1>1. /\ p \in Engine /\ p # e /\ n \in Nat /\ Len(c) \in Nat
      /\ IsSequence(s) /\ net = [d \in Engine |-> net[d]]
      /\ awaiting \in [Engine -> BOOLEAN] /\ localTip[p].no \in 0..Len(c)
  BY ConversationTypes
<1>2. /\ localTip[e].no = n /\ ~awaiting[p] /\ peerTip[p].no <= n
      /\ peerTip[e].no <= Len(c) /\ (awaiting[e] => n < peerTip[e].no)
      /\ ToWriter(s, n) /\ (awaiting[e] \/ NoRequest(s))
      /\ Announced(net[e], peerTip[e].no, Len(c))
  BY DEF Conversation
<1>3. PICK j, k \in Nat :
        /\ Answers(net[e], c, n, j, k)
        /\ n + k <= localTip[p].no
        /\ k > 0 => NoRequest(s)
        /\ k > 0 /\ ~awaiting[e] => j = 0 /\ peerTip[e].no <= n
  BY DEF Conversation
<1>4. q[p] = Without(s, 1) /\ q[e] = net[e]
  BY <1>1
<1>5. UNCHANGED <<store, localTip>>
  BY DEF OnHello, OnTip
<1> HIDE DEF n, c, s
<1>6. /\ ToWriter(Without(s, 1), n)
      /\ NoRequest(s) => NoRequest(Without(s, 1))
  BY <1>1, <1>2, ToWriterShift DEF s
<1>7. /\ net' = q /\ peerTip'[p].no <= n /\ peerTip'[e] = peerTip[e]
      /\ ~awaiting'[p] /\ (awaiting'[e] <=> awaiting[e]) /\ Return(p, "OK")
  <2>1. CASE OnHello(p, s[1], q)
    BY <1>2, <2>1 DEF OnHello
  <2>2. CASE OnTip(p, s[1], q)
    <3>1. /\ s[1].type = "TIP" /\ peerTip' = [peerTip EXCEPT ![p] = tip]
          /\ RequestMore(p, q, localTip[p], tip, awaiting[p])
      BY <2>2 DEF OnTip, s
    <3>2. tip.no \in 0..n
      <4>1. 1 \in 1..Len(s)
        BY SMTT(30), <1>1, SequenceFacts DEF s
      <4>2. s[1] # HelloMsg /\ s[1] # GetMsg(n + 1)
        BY <3>1, FrameTypes
      <4>3. PICK t : s[1] = TipMsg(t) /\ t.no \in 0..n
        BY <1>2, <4>1, <4>2 DEF ToWriter
      <4> QED
        BY SMT, <4>3, FrameTypes DEF s
    <3> HIDE DEF tip
    <3>3. ~Asks(localTip[p], tip, awaiting[p])
      BY SMT, <1>1, <1>3, <3>2 DEF Asks
    <3>4. /\ awaiting' = [awaiting EXCEPT ![p] = awaiting[p] /\ ~CaughtUp(localTip[p], tip)]
          /\ net' = q /\ Return(p, "OK")
      BY <3>1, <3>3, NoFault DEF RequestMore
    <3>5. ~awaiting'[p] /\ awaiting'[e] = awaiting[e]
      BY <1>1, <1>2, <3>4
    <3>6. peerTip'[p] = tip /\ peerTip'[e] = peerTip[e]
      BY <1>1, <3>1 DEF IInv, Shape
    <3>7. peerTip'[p].no <= n
      BY SMT, <1>1, <3>2, <3>6
    <3> QED
      BY <3>4, <3>5, <3>6, <3>7
  <2> QED
    BY <2>1, <2>2 DEF s
<1>8. Conversation(e)'
  <2>1. /\ localTip'[e].no = n /\ ~awaiting'[p] /\ peerTip'[p].no <= n
        /\ peerTip'[e].no <= Len(c) /\ (awaiting'[e] => n < peerTip'[e].no)
        /\ ToWriter(net'[p], n) /\ (awaiting'[e] \/ NoRequest(net'[p]))
        /\ Announced(net'[e], peerTip'[e].no, Len(c))
    BY <1>2, <1>4, <1>5, <1>6, <1>7
  <2>2. /\ Answers(net'[e], c, n, j, k) /\ n + k <= localTip'[p].no
        /\ k > 0 => NoRequest(net'[p])
        /\ k > 0 /\ ~awaiting'[e] => j = 0 /\ peerTip'[e].no <= n
    BY <1>3, <1>4, <1>5, <1>6, <1>7
  <2> QED
    BY <1>5, <2>1, <2>2 DEF Conversation, n, c
<1> QED
  BY <1>1, <1>7, <1>8 DEF StatusKept

\* The writer answers the request: no earlier answer is on its way any more.
LEMMA WriterAnswers ==
  ASSUME IInv, TwoParties, Reliable, NEW e \in Engine, Conversation(e),
         Len(net[Peer[e]]) # 0,
         NEW q, q = [net EXCEPT ![Peer[e]] = Without(net[Peer[e]], 1)],
         OnGetSegments(Peer[e], net[Peer[e]][1], q)
  PROVE  Conversation(e)' /\ StatusKept
<1> DEFINE p == Peer[e]
           n == Len(store[Host[e]])
           c == store[Host[p]]
           s == net[p]
           len == AnswerLen(StoreTip(p), n + 1, MaxInflight)
<1>1. /\ p \in Engine /\ p # e /\ n \in Nat /\ Len(c) \in Nat /\ Peer[p] = e
      /\ IsSequence(s) /\ IsSequence(net[e]) /\ net = [d \in Engine |-> net[d]]
      /\ localTip[p].no \in 0..Len(c) /\ peerTip[e].no \in Nat
  BY ConversationTypes
<1>2. /\ localTip[e].no = n /\ ~awaiting[p] /\ peerTip[p].no <= n
      /\ peerTip[e].no <= Len(c) /\ (awaiting[e] => n < peerTip[e].no)
      /\ ToWriter(s, n) /\ (awaiting[e] \/ NoRequest(s))
      /\ Announced(net[e], peerTip[e].no, Len(c))
  BY DEF Conversation
<1>3. PICK j, k \in Nat :
        /\ Answers(net[e], c, n, j, k)
        /\ n + k <= localTip[p].no
        /\ k > 0 => NoRequest(s)
        /\ k > 0 /\ ~awaiting[e] => j = 0 /\ peerTip[e].no <= n
  BY DEF Conversation
<1>4. q[p] = Without(s, 1) /\ q[e] = net[e] /\ q = [d \in Engine |-> q[d]]
  BY <1>1
<1>5. StoreTip(p).no = Len(c)
  BY <1>1, BoundsAreNumbers
<1>6. s[1].type = "GET_SEGMENTS" /\ 1 \in 1..Len(s)
  <2>1. Len(s) \in Nat
    BY <1>1, SequenceFacts
  <2>2. s[1].type = "GET_SEGMENTS"
    BY DEF OnGetSegments
  <2> QED
    BY <2>1, <2>2
<1>7. s[1] = GetMsg(n + 1) /\ ~NoRequest(s)
  <2> HIDE DEF s, n
  <2>1. s[1] # HelloMsg /\ \A t : s[1] # TipMsg(t)
    BY <1>6, FrameTypes
  <2> QED
    BY <1>2, <1>6, <2>1 DEF ToWriter, NoRequest
<1>8. OrDefault(s[1].from, 1) = n + 1 /\ OrDefault(s[1].max, 128) = MaxInflight
  <2>1. s[1].from = n + 1 /\ s[1].max = MaxInflight
    BY SMTT(30), <1>7, FrameTypes
  <2>2. n + 1 # 0 /\ MaxInflight # 0
    BY SMTT(30), <1>1, P2PSyncAssumption
  <2> QED
    BY <2>1, <2>2 DEF OrDefault
<1>9. /\ net' = Send(q, p, Answer(c, n + 1, len)) /\ Return(p, "OK")
      /\ localTip' = [localTip EXCEPT ![p] = StoreTip(p)]
      /\ UNCHANGED <<store, peerTip, awaiting>>
  BY <1>8, NoFault DEF OnGetSegments
<1>10. k = 0 /\ awaiting[e]
  <2> HIDE DEF n, c, s, p, len
  <2> QED
    BY <1>2, <1>3, <1>7
<1>11. len \in Nat /\ n + len <= Len(c)
  <2>1. n <= Len(c)
    BY SMTT(30), <1>1, <1>3
  <2>2. MaxInflight \in Nat
    BY P2PSyncAssumption
  <2>3. len = IF n + 1 > Len(c) THEN 0
              ELSE IF Len(c) - (n + 1) + 1 < MaxInflight THEN Len(c) - (n + 1) + 1
              ELSE MaxInflight
    BY <1>5 DEF AnswerLen
  <2> HIDE DEF n, c, len
  <2> QED
    BY SMTT(30), <1>1, <2>1, <2>2, <2>3
<1>12. localTip'[p].no = Len(c) /\ localTip'[e] = localTip[e]
  BY <1>1, <1>5, <1>9 DEF IInv, Shape
<1> HIDE DEF n, c, s, len, p
<1>13. /\ ToWriter(Without(s, 1), n) /\ NoRequest(Without(s, 1))
  BY <1>1, <1>2, <1>6, ToWriterShift DEF s, p
<1>14. PICK out : out = Answer(c, n + 1, len)
  OBVIOUS
<1>15. net'[e] = net[e] \o out /\ net'[p] = Without(s, 1)
  BY <1>1, <1>4, <1>9, <1>14 DEF Send
<1>16. /\ IsSequence(out) /\ Answers(net[e] \o out, c, n, Len(net[e]), len)
       /\ \A i \in 1..Len(out) : out[i].type = "SEGMENT"
  BY ZenonT(60), <1>1, <1>3, <1>10, <1>11, <1>14, AnswersSent
<1>17. Announced(net[e] \o out, peerTip[e].no, Len(c))
  BY <1>1, <1>2, <1>16, AnnouncedJoin
<1>18. Len(net[e]) \in Nat
  BY <1>1, SequenceFacts
<1>19. Conversation(e)'
  <2>1. /\ localTip'[e].no = n /\ ~awaiting'[p] /\ peerTip'[p].no <= n
        /\ peerTip'[e].no <= Len(c) /\ (awaiting'[e] => n < peerTip'[e].no)
        /\ ToWriter(net'[p], n) /\ (awaiting'[e] \/ NoRequest(net'[p]))
        /\ Announced(net'[e], peerTip'[e].no, Len(c))
    BY <1>2, <1>9, <1>12, <1>13, <1>15, <1>17
  <2>2. /\ Answers(net'[e], c, n, Len(net[e]), len) /\ n + len <= localTip'[p].no
        /\ len > 0 => NoRequest(net'[p])
        /\ len > 0 /\ ~awaiting'[e] => Len(net[e]) = 0 /\ peerTip'[e].no <= n
    BY <1>9, <1>10, <1>11, <1>12, <1>13, <1>15, <1>16
  <2> QED
    BY <1>9, <1>11, <1>18, <2>1, <2>2 DEF Conversation, n, c, p
<1> QED
  BY <1>1, <1>9, <1>19 DEF StatusKept

-----------------------------------------------------------------------------
\* Either side announces itself or its tip.
LEMMA SendKeeps ==
  ASSUME IInv, TwoParties, Reliable, NEW e \in Engine, Conversation(e),
         NEW d \in Engine, SendHello(d) \/ SendTip(d)
  PROVE  Conversation(e)' /\ StatusKept
<1> DEFINE p == Peer[e]
           n == Len(store[Host[e]])
           c == store[Host[p]]
<1>1. /\ p \in Engine /\ p # e /\ n \in Nat /\ Len(c) \in Nat /\ Peer[p] = e
      /\ IsSequence(net[p]) /\ IsSequence(net[e]) /\ net = [g \in Engine |-> net[g]]
      /\ localTip[p].no \in 0..Len(c) /\ peerTip[e].no \in Nat
      /\ d = e \/ d = p
  BY ConversationTypes
<1>2. /\ localTip[e].no = n /\ ~awaiting[p] /\ peerTip[p].no <= n
      /\ peerTip[e].no <= Len(c) /\ (awaiting[e] => n < peerTip[e].no)
      /\ ToWriter(net[p], n) /\ (awaiting[e] \/ NoRequest(net[p]))
      /\ Announced(net[e], peerTip[e].no, Len(c))
  BY DEF Conversation
<1>3. PICK j, k \in Nat :
        /\ Answers(net[e], c, n, j, k)
        /\ n + k <= localTip[p].no
        /\ k > 0 => NoRequest(net[p])
        /\ k > 0 /\ ~awaiting[e] => j = 0 /\ peerTip[e].no <= n
  BY DEF Conversation
<1>4. StoreTip(e).no = n /\ StoreTip(p).no = Len(c)
  BY <1>1, BoundsAreNumbers
<1>5. PICK m : /\ net' = Send(net, d, <<m>>)
               /\ m = HelloMsg \/ m = TipMsg(StoreTip(d))
  BY NoFault DEF SendHello, SendTip
<1>6. /\ UNCHANGED <<store, peerTip, awaiting>> /\ Return(d, "OK")
      /\ localTip' = localTip \/ localTip' = [localTip EXCEPT ![d] = StoreTip(d)]
  BY NoFault DEF SendHello, SendTip
<1>7. localTip'[e].no = n /\ n + k <= localTip'[p].no
  <2>1. localTip = [g \in Engine |-> localTip[g]]
    BY DEF IInv, Shape
  <2>2. CASE localTip' = localTip
    BY <1>2, <1>3, <2>2
  <2>3. CASE localTip' = [localTip EXCEPT ![d] = StoreTip(d)]
    <3>1. localTip'[d] = StoreTip(d) /\ \A g \in Engine \ {d} : localTip'[g] = localTip[g]
      BY <2>1, <2>3
    <3>2. CASE d = e
      BY <1>1, <1>2, <1>3, <1>4, <3>1, <3>2
    <3>3. CASE d = p
      <4>1. localTip'[e] = localTip[e] /\ localTip'[p].no = Len(c)
        BY <1>1, <1>4, <3>1, <3>3
      <4> HIDE DEF p, n, c
      <4> QED
        BY SMTT(30), <1>1, <1>2, <1>3, <4>1
    <3> QED
      BY <1>1, <3>2, <3>3
  <2> QED
    BY <1>6, <2>2, <2>3
<1>8. m.type # "SEGMENT" /\ m.type # "GET_SEGMENTS"
  BY <1>5, FrameTypes
<1> HIDE DEF p, n, c
<1>9. CASE d = e
  <2>1. net'[p] = net[p] \o <<m>> /\ net'[e] = net[e]
    BY <1>1, <1>5, <1>9 DEF Send, p
  <2>2. m = HelloMsg \/ \E t : m = TipMsg(t) /\ t.no \in 0..n
    BY SMTT(30), <1>1, <1>4, <1>5, <1>9
  <2>3. ToWriter(net'[p], n) /\ (NoRequest(net[p]) => NoRequest(net'[p]))
    BY SMTT(30), <1>1, <1>2, <1>8, <2>1, <2>2, ToWriterJoin
  <2>4. /\ localTip'[e].no = n /\ ~awaiting'[p] /\ peerTip'[p].no <= n
        /\ peerTip'[e].no <= Len(c) /\ (awaiting'[e] => n < peerTip'[e].no)
        /\ ToWriter(net'[p], n) /\ (awaiting'[e] \/ NoRequest(net'[p]))
        /\ Announced(net'[e], peerTip'[e].no, Len(c))
    BY <1>2, <1>6, <1>7, <2>1, <2>3
  <2>5. /\ Answers(net'[e], c, n, j, k) /\ n + k <= localTip'[p].no
        /\ k > 0 => NoRequest(net'[p])
        /\ k > 0 /\ ~awaiting'[e] => j = 0 /\ peerTip'[e].no <= n
    BY <1>3, <1>6, <1>7, <2>1, <2>3
  <2> QED
    BY <1>6, <2>4, <2>5 DEF Conversation, n, c, p, StatusKept
<1>10. CASE d = p
  <2>1. net'[e] = net[e] \o <<m>> /\ net'[p] = net[p]
    BY <1>1, <1>5, <1>10 DEF Send
  <2>2. Announced(net'[e], peerTip[e].no, Len(c))
    <3>1. CASE m = HelloMsg
      <4>1. IsSequence(<<m>>) /\ \A i \in 1..Len(<<m>>) : <<m>>[i].type \in {"HELLO", "SEGMENT"}
        BY SMTT(30), <3>1, OneFrame, FrameTypes
      <4> QED
        BY SMTT(30), <1>1, <1>2, <2>1, <4>1, AnnouncedJoin
    <3>2. CASE m = TipMsg(StoreTip(d))
      <4>1. PICK t : t = StoreTip(d)
        OBVIOUS
      <4>2. t.no = Len(c) /\ m = TipMsg(t)
        BY <1>4, <1>10, <3>2, <4>1
      <4> QED
        BY SMTT(30), <1>1, <1>2, <2>1, <4>2, AnnouncedTip
    <3> QED
      BY <1>5, <3>1, <3>2
  <2>3. Answers(net'[e], c, n, j, k)
    BY SMT, <1>1, <1>3, <1>8, <2>1, AnswersJoin
  <2>4. /\ localTip'[e].no = n /\ ~awaiting'[p] /\ peerTip'[p].no <= n
        /\ peerTip'[e].no <= Len(c) /\ (awaiting'[e] => n < peerTip'[e].no)
        /\ ToWriter(net'[p], n) /\ (awaiting'[e] \/ NoRequest(net'[p]))
        /\ Announced(net'[e], peerTip'[e].no, Len(c))
    BY <1>2, <1>6, <1>7, <2>1, <2>2
  <2>5. /\ Answers(net'[e], c, n, j, k) /\ n + k <= localTip'[p].no
        /\ k > 0 => NoRequest(net'[p])
        /\ k > 0 /\ ~awaiting'[e] => j = 0 /\ peerTip'[e].no <= n
    BY <1>3, <1>6, <1>7, <2>1, <2>3
  <2> QED
    BY <1>6, <2>4, <2>5 DEF Conversation, n, c, p, StatusKept
<1> QED
  BY <1>1, <1>9, <1>10

\* The writer's ledger flushes a segment.
LEMMA FlushKeeps ==
  ASSUME IInv, TwoParties, NEW e \in Engine, Conversation(e),
         LedgerFlush(Host[Peer[e]])
  PROVE  Conversation(e)' /\ StatusKept
<1> DEFINE p == Peer[e]
           n == Len(store[Host[e]])
           c == store[Host[p]]
<1>1. /\ p \in Engine /\ n \in Nat /\ Len(c) \in Nat
      /\ Host[p] # Host[e] /\ Host[e] \in Node /\ Host[p] \in Node
      /\ localTip[p].no \in 0..Len(c) /\ peerTip[e].no \in Nat
  BY ConversationTypes
<1>2. /\ localTip[e].no = n /\ ~awaiting[p] /\ peerTip[p].no <= n
      /\ peerTip[e].no <= Len(c) /\ (awaiting[e] => n < peerTip[e].no)
      /\ ToWriter(net[p], n) /\ (awaiting[e] \/ NoRequest(net[p]))
      /\ Announced(net[e], peerTip[e].no, Len(c))
  BY DEF Conversation
<1>3. PICK j, k \in Nat :
        /\ Answers(net[e], c, n, j, k)
        /\ n + k <= localTip[p].no
        /\ k > 0 => NoRequest(net[p])
        /\ k > 0 /\ ~awaiting[e] => j = 0 /\ peerTip[e].no <= n
  BY DEF Conversation
<1>4. PICK seg : store' = [store EXCEPT ![Host[p]] = Append(c, seg)]
  BY DEF LedgerFlush
<1>5. UNCHANGED <<localTip, peerTip, awaiting, status, net>>
  BY DEF LedgerFlush
<1>6. IsSequence(c) /\ store = [g \in Node |-> store[g]]
  BY <1>1 DEF IInv, StoreInv, Shape
<1>7. store'[Host[p]] = Append(c, seg) /\ store'[Host[e]] = store[Host[e]]
  BY <1>1, <1>4, <1>6
<1> HIDE DEF p, n, c
<1>8. PICK d : d = Append(c, seg)
  OBVIOUS
<1>9. Len(d) = Len(c) + 1 /\ \A i \in 1..Len(c) : d[i] = c[i]
  BY SMTT(30), <1>6, <1>8, AppendFacts
<1>10. Announced(net[e], peerTip[e].no, Len(d))
  <2>1. PICK more \in Nat : more = Len(d) /\ Len(c) <= more
    BY SMT, <1>1, <1>9
  <2>2. Announced(net[e], peerTip[e].no, more)
    BY <1>1, <1>2, <2>1, AnnouncedGrows
  <2> QED
    BY <2>1, <2>2
<1>11. Answers(net[e], d, n, j, k)
  <2>1. \A i \in 1..(n + k) : d[i] = c[i]
    BY SMTT(30), <1>1, <1>3, <1>9
  <2> QED
    BY <1>1, <1>3, <2>1, AnswersGrow
<1>12. peerTip[e].no <= Len(d)
  BY SMT, <1>1, <1>2, <1>9
<1>13. Conversation(e)'
  <2>1. /\ localTip'[e].no = n /\ ~awaiting'[p] /\ peerTip'[p].no <= n
        /\ peerTip'[e].no <= Len(d) /\ (awaiting'[e] => n < peerTip'[e].no)
        /\ ToWriter(net'[p], n) /\ (awaiting'[e] \/ NoRequest(net'[p]))
        /\ Announced(net'[e], peerTip'[e].no, Len(d))
    BY <1>2, <1>5, <1>10, <1>12
  <2>2. /\ Answers(net'[e], d, n, j, k) /\ n + k <= localTip'[p].no
        /\ k > 0 => NoRequest(net'[p])
        /\ k > 0 /\ ~awaiting'[e] => j = 0 /\ peerTip'[e].no <= n
    BY <1>3, <1>5, <1>11
  <2> QED
    BY <1>7, <1>8, <2>1, <2>2 DEF Conversation, n, p
<1> QED
  BY <1>5, <1>13 DEF StatusKept

-----------------------------------------------------------------------------
\* The conversation goes on, whatever either side does next.
LEMMA ConversationStep ==
  ASSUME IInv, WrittenVerifies, TwoParties, Reliable, NEW e \in Engine, Reader(e),
         Conversation(e), Next
  PROVE  StatusKept /\ (Reader(e)' => Conversation(e)')
<1>1. /\ Peer[e] \in Engine /\ \A d \in Engine : d = e \/ d = Peer[e]
      /\ Host[e] \in Node /\ Host[Peer[e]] \in Node
      /\ \A n \in Node : n = Host[e] \/ n = Host[Peer[e]]
      /\ IsSequence(net[e]) /\ IsSequence(net[Peer[e]])
  BY SMTT(30), ConversationTypes DEF TwoParties
<1>2. ASSUME NEW d \in Engine, SendHello(d) \/ SendTip(d)
      PROVE  StatusKept /\ Conversation(e)'
  BY <1>2, SendKeeps
<1>3. ASSUME Deliver(e)
      PROVE  StatusKept /\ Conversation(e)'
  <2>1. PICK m : m = net[e][1]
    OBVIOUS
  <2>2. PICK q : q = [net EXCEPT ![e] = Without(net[e], 1)]
    OBVIOUS
  <2>3. /\ Len(net[e]) # 0
        /\ \/ OnHello(e, m, q) \/ OnError(e, m, q) \/ OnTip(e, m, q)
           \/ OnGetSegments(e, m, q)
           \/ OnSegmentAccepted(e, m, q) \/ OnSegmentRejected(e, m, q)
    BY <1>3, <2>1, <2>2, FirstDelivered DEF Reliable
  <2>4. m.type \in {"HELLO", "TIP", "SEGMENT"}
    <3>1. 1 \in 1..Len(net[e])
      BY SMTT(30), <1>1, <2>3, SequenceFacts
    <3> QED
      BY <2>1, <3>1 DEF Conversation, Announced
  <2>5. ~OnError(e, m, q) /\ ~OnGetSegments(e, m, q)
    BY <2>4 DEF OnError, OnGetSegments
  <2>6. CASE OnHello(e, m, q)
    BY <2>1, <2>2, <2>3, <2>6, ReaderHello
  <2>7. CASE OnTip(e, m, q)
    BY <2>1, <2>2, <2>3, <2>7, ReaderTip
  <2>8. CASE OnSegmentAccepted(e, m, q) \/ OnSegmentRejected(e, m, q)
    <3>1. m.type = "SEGMENT"
      BY <2>8 DEF OnSegmentAccepted, OnSegmentRejected
    <3> QED
      BY <2>1, <2>2, <2>3, <2>8, <3>1, ReaderSegment
  <2> QED
    BY <2>3, <2>5, <2>6, <2>7, <2>8
<1>4. ASSUME Deliver(Peer[e])
      PROVE  StatusKept /\ Conversation(e)'
  <2>0. PICK p \in Engine : p = Peer[e]
    BY <1>1
  <2>1. PICK m : m = net[p][1]
    OBVIOUS
  <2>2. PICK q : q = [net EXCEPT ![p] = Without(net[p], 1)]
    OBVIOUS
  <2>3. /\ Len(net[p]) # 0
        /\ \/ OnHello(p, m, q) \/ OnError(p, m, q) \/ OnTip(p, m, q)
           \/ OnGetSegments(p, m, q)
           \/ OnSegmentAccepted(p, m, q) \/ OnSegmentRejected(p, m, q)
    BY <1>4, <2>0, <2>1, <2>2, FirstDelivered DEF Reliable
  <2>4. m.type \in {"HELLO", "TIP", "GET_SEGMENTS"}
    <3>1. 1 \in 1..Len(net[p])
      BY SMTT(30), <1>1, <2>0, <2>3, SequenceFacts
    <3>2. ToWriter(net[p], Len(store[Host[e]]))
      BY <2>0 DEF Conversation
    <3>3. \/ m = HelloMsg \/ (\E t : m = TipMsg(t))
          \/ m = GetMsg(Len(store[Host[e]]) + 1)
      BY <2>1, <3>1, <3>2 DEF ToWriter
    <3> QED
      BY SMT, <3>3, FrameTypes
  <2>5. /\ ~OnError(p, m, q) /\ ~OnSegmentAccepted(p, m, q)
        /\ ~OnSegmentRejected(p, m, q)
    BY <2>4 DEF OnError, OnSegmentAccepted, OnSegmentRejected
  <2>6. CASE OnHello(p, m, q) \/ OnTip(p, m, q)
    BY <2>0, <2>1, <2>2, <2>3, <2>6, WriterHelloTip
  <2>7. CASE OnGetSegments(p, m, q)
    BY <2>0, <2>1, <2>2, <2>3, <2>7, WriterAnswers
  <2> QED
    BY <2>3, <2>5, <2>6, <2>7
<1>5. ASSUME NEW d \in Engine
      PROVE  ~Restart(d) /\ ~NetworkFault(d)
  BY NoFault DEF Restart, NetworkFault
<1>6. ASSUME LedgerFlush(Host[e])
      PROVE  StatusKept /\ ~Reader(e)'
  <2>1. /\ status' = status
        /\ \E seg : flushed' = [flushed EXCEPT ![Host[e]] = @ \cup {seg}]
    BY <1>6 DEF LedgerFlush
  <2>2. flushed = [n \in Node |-> flushed[n]]
    BY DEF IInv, Shape
  <2>3. flushed'[Host[e]] # {}
    BY SMT, <1>1, <2>1, <2>2
  <2> QED
    BY <2>1, <2>3 DEF StatusKept, Reader
<1>7. ASSUME LedgerFlush(Host[Peer[e]])
      PROVE  StatusKept /\ Conversation(e)'
  BY <1>7, FlushKeeps
<1>8. CASE \E d \in Engine :
             SendHello(d) \/ SendTip(d) \/ Deliver(d) \/ Restart(d) \/ NetworkFault(d)
  BY <1>1, <1>2, <1>3, <1>4, <1>5, <1>8
<1>9. CASE \E n \in Node : LedgerFlush(n)
  BY <1>1, <1>6, <1>7, <1>9
<1> QED
  BY <1>8, <1>9 DEF Next

\* The conversations go on, and as long as there is a reader no call fails.
LEMMA RInvStep ==
  ASSUME IInv, WrittenVerifies, TwoParties, RInv, [Next]_vars
  PROVE  RInv'
<1>1. setup' = setup /\ \A n \in Node : flushed[n] \subseteq flushed'[n]
  BY HistoryKept
<1> SUFFICES ASSUME Reliable'
             PROVE  /\ \A e \in Engine : Reader(e)' => Conversation(e)'
                    /\ Forked' \/ \A e \in Engine : status'[e] = "OK"
  BY DEF RInv
<1>2. Reliable
  BY <1>1 DEF Reliable
<1>3. /\ \A e \in Engine : Reader(e) => Conversation(e)
      /\ Forked \/ \A e \in Engine : status[e] = "OK"
  BY <1>2 DEF RInv
<1>4. ASSUME NEW e \in Engine, Reader(e)
      PROVE  StatusKept /\ (Reader(e)' => Conversation(e)')
  <2>1. CASE Next
    BY <1>2, <1>3, <1>4, <2>1, ConversationStep
  <2>2. CASE UNCHANGED vars
    <3>1. UNCHANGED <<store, localTip, peerTip, awaiting, status, net>>
      BY <2>2 DEF vars
    <3>2. Conversation(e)' <=> Conversation(e)
      BY <3>1 DEF Conversation
    <3> QED
      BY <1>3, <1>4, <3>1, <3>2 DEF StatusKept
  <2> QED
    BY <2>1, <2>2
<1>5. \A e \in Engine : Reader(e)' => Reader(e)
  <2>1. \A e \in Engine : Host[e] \in Node
    BY P2PSyncAssumption
  <2> QED
    BY <1>1, <2>1 DEF Reader
<1>6. \A e \in Engine : Reader(e)' => Conversation(e)'
  BY <1>4, <1>5
<1>7. CASE Forked
  BY <1>1, <1>6, <1>7 DEF Forked
<1>8. CASE ~Forked
  <2>1. StatusKept
    BY <1>4, <1>8, SomeReader
  <2>2. \A e \in Engine : status[e] = "OK"
    BY <1>3, <1>8
  <2>3. status \in [Engine -> Statuses]
    BY DEF IInv, Shape
  <2>4. \A e \in Engine : status'[e] = "OK"
    BY <2>1, <2>2, <2>3 DEF StatusKept, Return
  <2> QED
    BY <1>6, <2>4
<1> QED
  BY <1>7, <1>8

\* No frame is on its way when the engines have been initialised.
LEMMA RInvInit ==
  ASSUME Init
  PROVE  RInv
<1>1. ASSUME NEW e \in Engine
      PROVE  Conversation(e)
  <2> DEFINE p == Peer[e]
             n == Len(store[Host[e]])
             c == store[Host[p]]
  <2>1. p \in Engine /\ Host[e] \in Node /\ Host[p] \in Node
    BY P2PSyncAssumption
  <2>2. c = <<>> /\ n = 0 /\ Len(c) = 0
    BY <2>1 DEF Init
  <2>3. /\ net[e] = <<>> /\ net[p] = <<>> /\ localTip[e].no = 0 /\ localTip[p].no = 0
        /\ peerTip[e].no = 0 /\ peerTip[p].no = 0 /\ ~awaiting[e] /\ ~awaiting[p]
    BY <2>1 DEF Init, NoTip
  <2>4. 1..Len(<<>>) = {} /\ Len(<<>>) = 0
    OBVIOUS
  <2> HIDE DEF p, n, c
  <2>5. ToWriter(net[p], n) /\ NoRequest(net[p]) /\ Announced(net[e], peerTip[e].no, Len(c))
    BY <2>3, <2>4 DEF ToWriter, NoRequest, Announced
  <2>6. Answers(net[e], c, n, 0, 0)
    BY SMTT(30), <2>3, <2>4 DEF Answers
  <2>7. /\ localTip[e].no = n /\ ~awaiting[p] /\ peerTip[p].no <= n
        /\ peerTip[e].no <= Len(c) /\ (awaiting[e] => n < peerTip[e].no)
        /\ ToWriter(net[p], n) /\ (awaiting[e] \/ NoRequest(net[p]))
        /\ Announced(net[e], peerTip[e].no, Len(c))
    BY <2>2, <2>3, <2>5
  <2>8. \E j, k \in Nat :
          /\ Answers(net[e], c, n, j, k)
          /\ n + k <= localTip[p].no
          /\ k > 0 => NoRequest(net[p])
          /\ k > 0 /\ ~awaiting[e] => j = 0 /\ peerTip[e].no <= n
    <3>1. n + 0 <= localTip[p].no /\ ~(0 > 0) /\ 0 \in Nat
      BY <2>2, <2>3
    <3> QED
      BY <2>6, <3>1
  <2> QED
    BY <2>7, <2>8 DEF Conversation, n, c, p
<1>2. \A e \in Engine : status[e] = "OK"
  BY DEF Init
<1> QED
  BY <1>1, <1>2 DEF RInv

\* On an ordered connection without faults, between two parties of whom one
\* writes, no call of the sync engine fails: requests and answers never overlap
\* so that a segment would reach apply_segment twice or out of turn.
THEOREM ReliableNeverRejects ==
  ASSUME TwoParties, BatchesDecode
  PROVE  Spec => []NothingRejected
<1>1. Init => WrittenVerifies /\ RInv
  BY WrittenVerifiesInit, RInvInit
<1>2. IInv /\ WrittenVerifies /\ RInv /\ [Next]_vars => WrittenVerifies' /\ RInv'
  BY WrittenVerifiesStep, RInvStep
<1>3. RInv => NothingRejected
  BY DEF RInv, NothingRejected
<1> QED
  BY <1>1, <1>2, <1>3, IInvInvariant, PTL DEF Spec
=============================================================================
