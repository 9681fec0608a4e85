------------------------------- MODULE Ledger -------------------------------
(***************************************************************************)
(* The ledger (ledger/ledger.c): records are checked and buffered; a full  *)
(* buffer, or a call of flush, turns the buffer into one segment on top of *)
(* the store's tip; verify walks the chain from the first segment to the   *)
(* tip.                                                                    *)
(*                                                                         *)
(* The store is the abstract one of HashChain plus the tip its handle      *)
(* remembers; its append takes effect or fails without effect (LogStore    *)
(* and SqliteStore say when that is so).  vicarl_ledger_store hands the    *)
(* same store to others, so segments of another origin, such as those of   *)
(* the sync engine, land in it between the ledger's own calls.  A SQLite   *)
(* database may also be written by other processes, of which the handle    *)
(* learns nothing.                                                         *)
(***************************************************************************)
EXTENDS Segment, SequencesExt

CONSTANTS
  TargetRecords,  \* option segment_target_records
  TargetBytes,    \* option segment_target_bytes
  RecordLen,      \* length in bytes of each record
  Options,        \* the other options: store_kind, record index, merkle, signed
  Foreign,        \* record sequences of segments that others append
  MaxAccepted,    \* bound: records accepted
  MaxSeg,         \* bound: segments in the store
  MaxDamaged      \* bound: damaged segments

ASSUME LedgerAssumption ==
  /\ TargetRecords \in Nat \ {0} /\ TargetBytes \in Nat \ {0}
  /\ RecordLen \in [Record -> Nat]
  /\ Options \subseteq [kind : {"LOG", "SQLITE"}, indexed : BOOLEAN,
                        merkle : BOOLEAN, signed : BOOLEAN]
  /\ Foreign \subseteq Seq(Record)
  /\ MaxAccepted \in Nat /\ MaxSeg \in Nat /\ MaxDamaged \in Nat

VARIABLES
  opt,       \* the options the ledger is opened with
  opened,    \* the ledger is open
  buf,       \* records accepted and not yet in a segment
  store,     \* the stored segments, as their bytes are now
  tip,       \* the tip the store handle remembers
  index,     \* the records whose ids are keys of the database's record index
  status,    \* what the last call returned
  failing,   \* history: the last append or flush tried to flush and failed
  accepted,  \* history: records taken into the buffer, less those close dropped
  own,       \* history: numbers of the segments this ledger flushed
  written    \* history: the segments as they were appended

vars ==
  <<opt, opened, buf, store, tip, index, status, failing, accepted, own, written>>

Init ==
  /\ opt \in Options
  /\ opened = FALSE
  /\ buf = <<>>
  /\ store = <<>>
  /\ tip = NoTip
  /\ index = {}
  /\ status = "OK"
  /\ failing = FALSE
  /\ accepted = <<>>
  /\ own = {}
  /\ written = <<>>

\* The records of this ledger's segments, in order.
FlushedRecords ==
  FlattenSeq([i \in 1..Len(written) |-> IF i \in own THEN written[i].recs ELSE <<>>])

\* Opening looks for the tip.  The log backend hashes the last file's bytes;
\* SQLite reads the hash column.
OpenedTip == IF opt.kind = "SQLITE" THEN ChainTip(written) ELSE ChainTip(store)

Open ==
  /\ ~opened
  /\ opened' = TRUE
  /\ tip' = OpenedTip
  /\ status' = "OK"
  /\ UNCHANGED <<opt, buf, store, index, failing, accepted, own, written>>

\* vicarl_ledger_close frees the buffer without flushing it; a crash does the
\* same.
Close ==
  /\ opened
  /\ opened' = FALSE
  /\ buf' = <<>>
  /\ tip' = NoTip
  /\ accepted' = FlushedRecords
  /\ failing' = FALSE
  /\ UNCHANGED <<opt, store, index, status, own, written>>

-----------------------------------------------------------------------------
\* vicarl_ledger_flush of buffer b.  Any failure (memory, encoding, the store)
\* leaves the buffer as it is.  (The variant before NewSegment leaves the
\* predecessor's hash zero.)
NewSegmentUnlinked(b) ==
  SegmentEncode(tip.no + 1, ZeroHash, b,
                IF opt.merkle THEN MerkleRoot(b) ELSE ZeroHash, FALSE)

NewSegment(b) ==
  SegmentEncode(tip.no + 1, tip.hash, b,
                IF opt.merkle THEN MerkleRoot(b) ELSE ZeroHash, FALSE)

\* This handle has the record index on.  Another process on the same database
\* may have it on or off.
Indexing == opt.kind = "SQLITE" /\ opt.indexed

Fresh(recs) == IsInjective(recs) /\ Range(recs) \cap index = {}

\* A variant without the primary key of the records table.
StoreAcceptsRepeats(seg, indexing) == seg.no = Len(written) + 1

\* What the store does not refuse: a number that is not taken and, from a handle
\* with the index on, records that are not in it yet.
StoreAccepts(seg, indexing) ==
  /\ seg.no = Len(written) + 1
  /\ indexing => Fresh(seg.recs)

IndexRows(seg, indexing) == index \cup (IF indexing THEN Range(seg.recs) ELSE {})

\* A variant that leaves the remembered tip behind.
AppendToStoreOldTip(seg) ==
  /\ StoreAccepts(seg, Indexing)
  /\ Len(store) < MaxSeg
  /\ store' = Append(store, seg)
  /\ written' = Append(written, seg)
  /\ index' = IndexRows(seg, Indexing)
  /\ tip' = tip

AppendToStore(seg) ==
  /\ StoreAccepts(seg, Indexing)
  /\ Len(store) < MaxSeg
  /\ store' = Append(store, seg)
  /\ written' = Append(written, seg)
  /\ index' = IndexRows(seg, Indexing)
  /\ tip' = TipOf(seg)

ClearBuffer(b) == <<>>

\* A variant that clears the buffer before it knows the outcome.
KeepBufferNot(b) == <<>>

KeepBuffer(b) == b

FlushOk(b) ==
  /\ AppendToStore(NewSegment(b))
  /\ buf' = ClearBuffer(b)
  /\ own' = own \cup {tip.no + 1}
  /\ status' = "OK"
  /\ failing' = FALSE

FlushFails(b) ==
  /\ buf' = KeepBuffer(b)
  /\ status' = "IO"
  /\ failing' = TRUE
  /\ UNCHANGED <<store, tip, index, own, written>>

Flush ==
  /\ opened
  /\ \/ /\ buf = <<>>
        /\ status' = "OK"
        /\ UNCHANGED <<buf, store, tip, index, failing, own, written>>
     \/ buf # <<>> /\ FlushOk(buf)
     \/ buf # <<>> /\ FlushFails(buf)
  /\ UNCHANGED <<opt, opened, accepted>>

BufBytes(b) == FoldLeft(LAMBDA sum, r : sum + RecordLen[r], 0, b)

\* A variant of Full that is true once, when the buffer gets to its target.
FullAtTarget(b) == Len(b) = TargetRecords \/ BufBytes(b) = TargetBytes

Full(b) == Len(b) >= TargetRecords \/ BufBytes(b) >= TargetBytes

\* A variant of Policy that does not look at the signature.
PolicyUnchecked(r) == RecordDecodes(r)

Policy(r) == RecordDecodes(r) /\ (opt.signed => RecordHasSignature(r))

\* vicarl_ledger_append_record: the record is in the buffer before the
\* automatic flush, whose status is then the status of the call.
AppendRecord(r) ==
  /\ opened
  /\ Len(accepted) < MaxAccepted
  /\ Policy(r)
  /\ accepted' = Append(accepted, r)
  /\ LET b == Append(buf, r)
     IN  \/ /\ ~Full(b)
            /\ buf' = b
            /\ status' = "OK"
            /\ failing' = FALSE
            /\ UNCHANGED <<store, tip, index, own, written>>
         \/ Full(b) /\ FlushOk(b)
         \/ Full(b) /\ FlushFails(b)
  /\ UNCHANGED <<opt, opened>>

AppendRecordRejected(r) ==
  /\ opened
  /\ ~Policy(r)
  /\ status' = IF RecordDecodes(r) THEN "CRYPTO" ELSE "FORMAT"
  /\ UNCHANGED <<opt, opened, buf, store, tip, index, failing, accepted, own, written>>

-----------------------------------------------------------------------------
\* Another user of the store appends a segment that decodes, verifies and
\* follows the tip.  Its records are not checked against this ledger's policy.
ForeignAppend(recs) ==
  /\ opened
  /\ LET seg == SegmentEncode(tip.no + 1, tip.hash, recs, MerkleRoot(recs), FALSE)
     IN  SegmentVerify(seg) = "OK" /\ AppendToStore(seg)
  /\ UNCHANGED <<opt, opened, buf, status, failing, accepted, own>>

\* Another process commits to the same database (SqliteStore.Commit); this
\* handle keeps the tip it has.
OtherProcessAppend(recs) ==
  /\ opt.kind = "SQLITE"
  /\ Len(store) < MaxSeg
  /\ LET t == ChainTip(written)
         seg == SegmentEncode(t.no + 1, t.hash, recs, MerkleRoot(recs), FALSE)
     IN  /\ SegmentVerify(seg) = "OK"
         /\ \E indexing \in BOOLEAN : /\ StoreAccepts(seg, indexing)
                                     /\ index' = IndexRows(seg, indexing)
         /\ store' = Append(store, seg)
         /\ written' = Append(written, seg)
  /\ UNCHANGED <<opt, opened, buf, tip, status, failing, accepted, own>>

\* The medium loses the end of a segment, or alters a record in it; chance does
\* not restore it.
DamagedForms(seg) ==
  {Truncated(seg)} \cup
  {[seg EXCEPT !.recs = [@ EXCEPT ![i] = r]] :
     i \in 1..Len(seg.recs), r \in {x \in Record : RecordDecodes(x)}}

Damage ==
  /\ Cardinality({i \in 1..Len(store) : store[i] # written[i]}) < MaxDamaged
  /\ \E i \in 1..Len(store) : \E seg \in DamagedForms(store[i]) :
       /\ seg # written[i]
       /\ store' = [store EXCEPT ![i] = seg]
  /\ UNCHANGED <<opt, opened, buf, tip, index, status, failing, accepted, own, written>>

\* vicarl_ledger_verify: the checks on one segment, in the order of the code,
\* and the first failure on the way from segment 1 to the tip.
UnsignedIn(seg) == \E i \in 1..Len(seg.recs) : ~RecordHasSignature(seg.recs[i])

\* A variant without the comparison with the predecessor's hash.
VerifySegmentUnlinked(c, no) ==
  IF SegmentVerify(c[no]) # "OK" THEN SegmentVerify(c[no])
  ELSE IF c[no].no # no THEN "FORMAT"
  ELSE IF opt.signed /\ UnsignedIn(c[no]) THEN "CRYPTO"
  ELSE IF no = tip.no /\ tip.hash # Sha256(c[no]) THEN "FORMAT"
  ELSE "OK"

VerifySegment(c, no) ==
  IF SegmentVerify(c[no]) # "OK" THEN SegmentVerify(c[no])
  ELSE IF c[no].no # no \/ c[no].prev # PrevOf(c, no) THEN "FORMAT"
  ELSE IF opt.signed /\ UnsignedIn(c[no]) THEN "CRYPTO"
  ELSE IF no = tip.no /\ tip.hash # Sha256(c[no]) THEN "FORMAT"
  ELSE "OK"

Verify ==
  LET wrong == {n \in 1..tip.no : VerifySegment(store, n) # "OK"}
  IN  IF wrong = {} THEN "OK"
      ELSE VerifySegment(store, CHOOSE n \in wrong : \A m \in wrong : n <= m)

VerifyCall ==
  /\ opened
  /\ status' = Verify
  /\ UNCHANGED <<opt, opened, buf, store, tip, index, failing, accepted, own, written>>

Next ==
  \/ Open \/ Close \/ Flush \/ Damage \/ VerifyCall
  \/ \E r \in Record : AppendRecord(r) \/ AppendRecordRejected(r)
  \/ \E recs \in Foreign : ForeignAppend(recs) \/ OtherProcessAppend(recs)

Spec == Init /\ [][Next]_vars

-----------------------------------------------------------------------------
\* Properties.

\* The shape of the state; the tip of the store handle is behind the store only
\* where another process can write.
TypeOK ==
  /\ buf \in Seq(Record) /\ accepted \in Seq(Record)
  /\ status \in {"OK", "IO", "CRYPTO", "FORMAT", "UNSUPPORTED"}
  /\ Len(store) = Len(written)
  /\ own \subseteq 1..Len(written)
  /\ tip.no <= Len(store)
  /\ opened /\ opt.kind = "LOG" => tip.no = Len(store)
  /\ ~opened => buf = <<>>

\* Every record taken into the buffer is, once and in order, in this ledger's
\* segments or still in the buffer: failed flushes, retries, automatic and
\* explicit flushes and other users' segments neither lose nor repeat one.
\* This includes the record of an append_record that returned the error of its
\* flush.
AcceptedOnce == accepted = FlushedRecords \o buf

\* Every segment this ledger wrote obeys its own policy and verifies alone.
OwnSegmentsVerify ==
  \A i \in own : /\ SegmentVerify(written[i]) = "OK"
                 /\ opt.signed => ~UnsignedIn(written[i])

\* The buffer is at or past one of its targets only if the last append or flush
\* tried to flush it and failed: an append that fills it flushes it, and after a
\* failure every append tries again (ledger.c:331).
FullOnlyWhileFailing ==
  Len(buf) >= TargetRecords \/ BufBytes(buf) >= TargetBytes => failing

\* Two things make every later flush of an open SQLite ledger fail: a segment
\* of another process, after which the number of the next segment is always
\* taken, and a buffered record that the index already has.  Neither goes away
\* by trying again, and the records accepted after it wait behind it; only
\* closing, which drops the buffer, ends it.
Blocked ==
  /\ opened /\ opt.kind = "SQLITE"
  /\ \/ tip.no < Len(written)
     \/ Indexing /\ ~Fresh(buf)

BlockedUntilClosed ==
  [][Blocked /\ opened' => Blocked' /\ own' = own /\ IsPrefix(buf, buf')]_vars

\* verify accepts an undamaged store, unless the signature policy is on and
\* somebody else appended unsigned records.
UndamagedVerifies ==
  opened /\ store = written =>
    \/ Verify = "OK"
    \/ /\ opt.signed /\ Verify = "CRYPTO"
       /\ \E i \in (1..Len(store)) \ own : UnsignedIn(store[i])

\* verify notices that segment i is not what was appended as long as its hash
\* is remembered: by its successor, or by the handle when it is the last.  (The
\* log backend, reopened, takes the last file as it is, and a segment appended
\* then is linked to the damaged bytes.)  SQLite's hash column remembers every
\* hash, also after the ledger was closed and reopened.  Segments beyond the tip
\* of a handle that another process has overtaken are not looked at.
Remembered(i) ==
  IF i < tip.no THEN written[i + 1].prev = Sha256(written[i])
                ELSE tip = TipOf(written[i])

DamageNoticed ==
  opened /\ (\E i \in 1..tip.no :
               /\ store[i] # written[i]
               /\ Remembered(i) \/ opt.kind = "SQLITE")
    => Verify # "OK"

\* What is appended, as seen by the store, is a linked chain as long as the
\* bytes it is linked to are the ones that were written.
Chain == INSTANCE HashChain WITH chain <- written

ImplementsHashChain ==
  /\ Chain!NumberedSpec
  /\ [][store = written => Chain!AppendLinked]_written
=============================================================================
