------------------------------- MODULE Codec --------------------------------
(***************************************************************************)
(* The byte codec (core/codec.c): a writer that appends fields and a       *)
(* reader that takes them off the front, failing once and for all at the   *)
(* first field that is not there.                                          *)
(*                                                                         *)
(* The sizes are parameters.  In the code a byte carries GroupBits = 7     *)
(* bits of a number and a continuation bit, and numbers have Width = 64    *)
(* bits, which is not a multiple of 7.  Memory is taken to suffice.        *)
(***************************************************************************)
EXTENDS Integers, SequencesExt

CONSTANTS
  GroupBits, Width,
  Size  \* lengths of the fixed fields: magic, u8, hash, sig

ASSUME CodecAssumption ==
  /\ GroupBits \in Nat \ {0} /\ Width \in Nat \ {0}
  /\ Size \in [{"magic", "u8", "hash", "sig"} -> Nat \ {0}]

Group == 2 ^ GroupBits

Byte == 0..(2 * Group - 1)

Number == 0..(2 ^ Width - 1)

\* VICARL_VARINT_MAX_BYTES_U64, rounded up
MaxBytes == (Width + GroupBits - 1) \div GroupBits

-----------------------------------------------------------------------------
\* The writer.
PutVaru64[v \in Number] ==
  IF v < Group THEN <<v>> ELSE <<(v % Group) + Group>> \o PutVaru64[v \div Group]

PutLdbytes(s) == PutVaru64[Len(s)] \o s

PutU16le(v) == <<v % (2 * Group), v \div (2 * Group)>>

Put(kind, v) ==
  CASE kind = "var" -> PutVaru64[v]
    [] kind = "ld"  -> PutLdbytes(v)
    [] kind = "u16" -> PutU16le(v)
    [] OTHER        -> v

PutFields(layout, vals) ==
  FlattenSeq([i \in DOMAIN layout |-> Put(layout[i], vals[i])])

-----------------------------------------------------------------------------
\* The reader: the values read so far and the bytes that remain.  Reading a
\* field gives the set of readers it can leave: one, or none if the field is
\* not there (FORMAT).
Reader(s) == [vals |-> <<>>, rest |-> s]

\* The reader r after value v, which took n bytes.
Took(r, n, v) ==
  {[vals |-> Append(r.vals, v), rest |-> SubSeq(r.rest, n + 1, Len(r.rest))]}

GetBytes(r, n) ==
  IF Len(r.rest) < n THEN {} ELSE Took(r, n, SubSeq(r.rest, 1, n))

\* The number that groups spell, least significant first.
GroupsValue(s) ==
  FoldRight(LAMBDA byte, high : (byte % Group) + Group * high, s, 0)

\* A variant that shifts the groups in an integer of half the width.
VarintValueNarrow(s) == GroupsValue(s) % (2 ^ (Width \div 2))

\* What is shifted out of the width is lost.  The code's own test for that looks
\* at shifts of at least the width, which MaxBytes groups never reach.
VarintValue(s) == GroupsValue(s) % (2 ^ Width)

Overflows(s) ==
  \E i \in DOMAIN s : GroupBits * (i - 1) >= Width /\ s[i] % Group # 0

\* A variant of VarintEnds that gives up one byte too early.
VarintEndsEarly(s) == {i \in DOMAIN s : i < MaxBytes /\ s[i] < Group}

\* Where a number at the front of s can end; it ends at the first such place.
VarintEnds(s) == {i \in DOMAIN s : i <= MaxBytes /\ s[i] < Group}

GetVaru64(r) ==
  LET ends == VarintEnds(r.rest)
      groups == SubSeq(r.rest, 1, Min(ends))
  IN  IF ends = {} \/ Overflows(groups) THEN {}
      ELSE Took(r, Len(groups), VarintValue(groups))

GetLdbytes(r) ==
  UNION {GetBytes([q EXCEPT !.vals = r.vals], Last(q.vals)) : q \in GetVaru64(r)}

GetU16le(r) ==
  IF Len(r.rest) < 2 THEN {}
  ELSE Took(r, 2, r.rest[1] + 2 * Group * r.rest[2])

Get(kind, r) ==
  CASE kind = "var" -> GetVaru64(r)
    [] kind = "ld"  -> GetLdbytes(r)
    [] kind = "u16" -> GetU16le(r)
    [] OTHER        -> GetBytes(r, Size[kind])

GetFields(layout, r) ==
  FoldLeft(LAMBDA readers, kind : UNION {Get(kind, q) : q \in readers}, {r}, layout)

\* Of some readers, those that read everything (no trailing bytes).
Complete(readers) == {r \in readers : r.rest = <<>>}
=============================================================================
