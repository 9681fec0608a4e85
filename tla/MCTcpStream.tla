---------------------------- MODULE MCTcpStream -----------------------------
(***************************************************************************)
(* TcpStream for TLC: bytes with 3 bits of a number, numbers of 7 bits, so *)
(* that numbers take up to 3 bytes and the third has bits beyond the       *)
(* width, as the tenth byte of a 64-bit number has.                        *)
(***************************************************************************)
EXTENDS TcpStream

MCSize == [magic |-> 1, u8 |-> 1, hash |-> 1, sig |-> 2]

Rec(ns, seq, sig) ==
  RecordEncode([fields |-> <<ns, <<>>, <<5>>, seq, 9, <<>>>>, sig |-> sig])

Seg(recs, sig) ==
  SegmentEncode([no |-> 1, prev |-> <<0>>, root |-> <<4>>, ts |-> 70,
                 recs |-> recs, sig |-> sig])

MCMessage ==
  {[type |-> HELLO, vals |-> <<1, 18, <<15>>>>]}
  \cup {[type |-> TIP, vals |-> <<n, <<n % 2>>>>] : n \in {0, 7, 127}}
  \cup {[type |-> GET_SEGMENTS, vals |-> <<8, 64>>]}
  \cup {[type |-> SEGMENT, vals |-> <<1, <<6>>, seg>>] :
          seg \in {Seg(<<>>, <<3, 3>>),
                   Seg(<<Rec(<<>>, 63, <<8, 8>>), Rec(<<1>>, 64, <<>>)>>, <<>>)}}
  \cup {[type |-> ERROR, vals |-> <<2, <<>>>>]}
=============================================================================
