-------------------------------- MODULE Wire --------------------------------
(***************************************************************************)
(* Frames of the replication protocol (p2p/wire.c).  A message is its type *)
(* number and the values of its fields.                                    *)
(***************************************************************************)
EXTENDS Codec

HELLO == 1
TIP == 2
GET_SEGMENTS == 3
SEGMENT == 4
ERROR == 5

PayloadLayout ==
  <<<<"u16", "u16", "hash">>,
    <<"var", "hash">>,
    <<"var", "var">>,
    <<"var", "hash", "ld">>,
    <<"var", "ld">>>>

WireMagic == [i \in 1..Size["magic"] |-> 3]

HeaderLayout == <<"magic", "u8", "u8">>

\* A frame around a payload of the given type.
Frame(type, payload) ==
  PutFields(HeaderLayout, <<WireMagic, <<type>>, <<0>>>>) \o PutLdbytes(payload)

WireEncode(m) == Frame(m.type, PutFields(PayloadLayout[m.type], m.vals))

PayloadDecode(type, s) ==
  {[type |-> type, vals |-> p.vals] :
     p \in Complete(GetFields(PayloadLayout[type], Reader(s)))}

\* The decoded message, or nothing.
WireDecode(s) ==
  UNION {PayloadDecode(h.vals[2][1], h.vals[4]) :
           h \in {q \in Complete(GetFields(HeaderLayout \o <<"ld">>, Reader(s))) :
                   /\ q.vals[1] = WireMagic
                   /\ q.vals[2][1] \in DOMAIN PayloadLayout}}
=============================================================================
