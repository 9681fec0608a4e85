------------------------------ MODULE Segment -------------------------------
(***************************************************************************)
(* The data model: encoded records (model/record.c) and encoded segments   *)
(* (model/segment.c).                                                      *)
(*                                                                         *)
(* An encoded record is an element of Record; of its bytes only two facts  *)
(* matter to the rest of the system, whether they decode and whether they  *)
(* carry a signature.  An encoded segment is a record with the header      *)
(* fields; the header's record_count is the length of recs.  whole = FALSE *)
(* stands for a strict prefix of the encoding: the format is               *)
(* self-delimiting, so such bytes never decode.  The timestamp of the      *)
(* header is left out: nothing reads it back.                              *)
(***************************************************************************)
EXTENDS Merkle

CONSTANTS
  Record,     \* byte strings offered to the library as encoded records
  Signed,     \* those that decode and carry a signature
  Malformed   \* those that vicarl_record_decode rejects

ASSUME RecordAssumption ==
  /\ Signed \subseteq Record
  /\ Malformed \subseteq Record
  /\ Signed \cap Malformed = {}

RecordDecodes(r) == r \notin Malformed

RecordHasSignature(r) == r \in Signed

RecordId(r) == Sha256(r)

\* A mutually recursive pair of types (a digest holds the bytes it was made
\* from) has no set of its own here; modules that need one say what they use.
SegmentEncode(no, prev, recs, root, sig) ==
  [no |-> no, prev |-> prev, recs |-> recs, root |-> root, sig |-> sig,
   whole |-> TRUE]

Truncated(seg) == [seg EXCEPT !.whole = FALSE]

SegmentDecodes(seg) == seg.whole

\* Decode, decode every record, compare a non-zero merkle root, and refuse a
\* segment signature, for which there is no crypto backend.
SegmentVerify(seg) ==
  IF \/ ~SegmentDecodes(seg)
     \/ \E i \in 1..Len(seg.recs) : ~RecordDecodes(seg.recs[i])
     \/ seg.root # ZeroHash /\ seg.root # MerkleRoot(seg.recs)
  THEN "FORMAT"
  ELSE IF seg.sig THEN "UNSUPPORTED" ELSE "OK"

-----------------------------------------------------------------------------
\* Tips: segment number and hash.  The C code keeps a has_tip flag beside
\* them; it is set exactly when the number is not 0.
NoTip == [no |-> 0, hash |-> ZeroHash]

\* A variant of TipOf that takes the wrong one of the two hashes at hand.
TipOfPrev(seg) == [no |-> seg.no, hash |-> seg.prev]

TipOf(seg) == [no |-> seg.no, hash |-> Sha256(seg)]

\* The tip of a chain; its hash is what the next segment must carry.
ChainTip(c) ==
  IF c = <<>> THEN NoTip ELSE [no |-> Len(c), hash |-> Sha256(c[Len(c)])]

\* The hash that segment i of chain c must carry.
PrevOf(c, i) == IF i = 1 THEN ZeroHash ELSE Sha256(c[i - 1])

Linked(c) ==
  \A i \in 1..Len(c) : c[i].no = i /\ c[i].prev = PrevOf(c, i)
=============================================================================
