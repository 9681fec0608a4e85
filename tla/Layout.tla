------------------------------- MODULE Layout -------------------------------
(***************************************************************************)
(* The byte layout of records (model/record.c) and segments                *)
(* (model/segment.c).  A record is its fields (namespace, schema, author,  *)
(* seq, timestamp, payload) and its signature, a segment its number,       *)
(* previous hash, root, timestamp, encoded records and signature; no       *)
(* signature is the empty sequence.                                        *)
(***************************************************************************)
EXTENDS Codec

RecMagic == [i \in 1..Size["magic"] |-> 1]

SegMagic == [i \in 1..Size["magic"] |-> 2]

Flags(sig) == IF sig = <<>> THEN <<0>> ELSE <<1>>

\* The signature, if the flags announce one.
GetSig(r) ==
  IF r.vals[2][1] % 2 = 1 THEN Get("sig", r)
  ELSE {[r EXCEPT !.vals = Append(@, <<>>)]}

RecordLayout == <<"magic", "u8", "ld", "ld", "hash", "var", "var", "ld">>

RecordEncode(rec) ==
  PutFields(RecordLayout, <<RecMagic, Flags(rec.sig)>> \o rec.fields) \o rec.sig

\* The decoded record, or nothing.
RecordDecode(s) ==
  {[fields |-> SubSeq(r.vals, 3, 8), sig |-> r.vals[9]] :
     r \in {q \in Complete(UNION {GetSig(f) : f \in GetFields(RecordLayout, Reader(s))}) :
             q.vals[1] = RecMagic}}

SegmentLayout == <<"magic", "u8", "var", "hash", "var", "hash", "var">>

Records(n) == [i \in 1..n |-> "ld"]

SegmentEncode(seg) ==
  PutFields(SegmentLayout \o Records(Len(seg.recs)),
            <<SegMagic, Flags(seg.sig), seg.no, seg.prev, Len(seg.recs),
              seg.root, seg.ts>> \o seg.recs)
  \o seg.sig

\* A variant of GetRecords that is content with fewer records.
GetRecordsFewer(h) ==
  UNION {GetSig(r) : r \in UNION {GetFields(Records(n), h) : n \in 0..h.vals[5]}}

\* The records that the header h announces, and the signature.
GetRecords(h) == UNION {GetSig(r) : r \in GetFields(Records(h.vals[5]), h)}

\* The decoded segment, or nothing.
SegmentDecode(s) ==
  {[no |-> r.vals[3], prev |-> r.vals[4], root |-> r.vals[6], ts |-> r.vals[7],
    recs |-> SubSeq(r.vals, 8, Len(r.vals) - 1), sig |-> Last(r.vals)] :
     r \in {q \in Complete(UNION {GetRecords(h) : h \in GetFields(SegmentLayout, Reader(s))}) :
             q.vals[1] = SegMagic}}
=============================================================================
