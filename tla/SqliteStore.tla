---------------------------- MODULE SqliteStore -----------------------------
(***************************************************************************)
(* The SQLite backend (store/store_sqlite.c): a table of segments, keyed   *)
(* by number, and an optional table of records, keyed by record id.  An    *)
(* append checks number and link against the tip that the handle           *)
(* remembers, and only then opens a write transaction.  Another handle     *)
(* (another process) may commit in between, so the check can be stale; the *)
(* primary key of the table is what then stops the append.                 *)
(***************************************************************************)
EXTENDS Segment, FiniteSets

CONSTANTS
  Handle,   \* open store objects on the same database file
  Indexed,  \* those opened with enable_record_index
  Batch,    \* record sequences that callers put into segments
  MaxSeg,   \* bound: highest segment number offered to append
  None      \* stands for no handle

ASSUME SqliteStoreAssumption ==
  /\ Indexed \subseteq Handle
  /\ Batch \subseteq Seq(Record)
  /\ MaxSeg \in Nat
  /\ None \notin Handle

VARIABLES
  segments,  \* committed rows: segment_no -> [hash, bytes]
  records,   \* committed rows: record_id -> [no, idx, bytes]
  writer,    \* the handle inside BEGIN IMMEDIATE, or None
  work,      \* that transaction's image of the two tables
  pc,        \* where each handle is in its current call
  tip,       \* the tip each handle remembers
  cur,       \* the segment each handle is appending
  status,    \* what the last call of each handle returned
  committer  \* history: segment_no -> the handle whose COMMIT added the row

vars == <<segments, records, writer, work, pc, tip, cur, status, committer>>

NoSegment == SegmentEncode(0, ZeroHash, <<>>, ZeroHash, FALSE)

Put(table, key, row) ==
  [k \in DOMAIN table \cup {key} |-> IF k = key THEN row ELSE table[k]]

Row(seg) == [hash |-> Sha256(seg), bytes |-> seg]

Image == [segments |-> segments, records |-> records]

Init ==
  /\ segments = <<>>
  /\ records = <<>>
  /\ writer = None
  /\ work = Image
  /\ pc = [h \in Handle |-> "closed"]
  /\ tip = [h \in Handle |-> NoTip]
  /\ cur = [h \in Handle |-> NoSegment]
  /\ status = [h \in Handle |-> "OK"]
  /\ committer = <<>>

\* load_tip: the committed row with the highest number.
LoadTip ==
  IF DOMAIN segments = {} THEN {NoTip}
  ELSE {[no |-> n, hash |-> segments[n].hash] :
          n \in {k \in DOMAIN segments : \A m \in DOMAIN segments : m <= k}}

Open(h) ==
  /\ pc[h] = "closed"
  /\ \E t \in LoadTip : tip' = [tip EXCEPT ![h] = t]
  /\ pc' = [pc EXCEPT ![h] = "idle"]
  /\ status' = [status EXCEPT ![h] = "OK"]
  /\ UNCHANGED <<segments, records, writer, work, cur, committer>>

Close(h) ==
  /\ pc[h] = "idle"
  /\ pc' = [pc EXCEPT ![h] = "closed"]
  /\ tip' = [tip EXCEPT ![h] = NoTip]
  /\ UNCHANGED <<segments, records, writer, work, cur, status, committer>>

-----------------------------------------------------------------------------
\* sqlite_append_segment.  Callers build on some tip they have seen: the one
\* this handle reports, or an older or newer one of the chain.
Offer ==
  {SegmentEncode(no, prev, recs, ZeroHash, FALSE) :
     no \in 1..MaxSeg,
     prev \in {ZeroHash} \cup {segments[n].hash : n \in DOMAIN segments},
     recs \in Batch}

\* A variant that checks the number but, as the log backend, not the link.
CheckNumberOnly(h, seg) ==
  IF seg.no # tip[h].no + 1 THEN "INVALID_ARGUMENT" ELSE "OK"

\* The two checks against the remembered tip.  NoTip has hash zero, so that one
\* comparison stands for the genesis case too.
Check(h, seg) ==
  IF seg.no # tip[h].no + 1 THEN "INVALID_ARGUMENT"
  ELSE IF seg.prev # tip[h].hash THEN "FORMAT"
  ELSE "OK"

AppendRejected(h) ==
  /\ pc[h] = "idle"
  /\ \E seg \in Offer :
       /\ Check(h, seg) # "OK"
       /\ status' = [status EXCEPT ![h] = Check(h, seg)]
  /\ UNCHANGED <<segments, records, writer, work, pc, tip, cur, committer>>

AppendChecked(h) ==
  /\ pc[h] = "idle"
  /\ \E seg \in Offer :
       /\ Check(h, seg) = "OK"
       /\ cur' = [cur EXCEPT ![h] = seg]
  /\ pc' = [pc EXCEPT ![h] = "checked"]
  /\ UNCHANGED <<segments, records, writer, work, tip, status, committer>>

\* BEGIN IMMEDIATE takes the write lock and sees the latest commit.
Begin(h) ==
  /\ pc[h] = "checked" /\ writer = None
  /\ writer' = h
  /\ work' = Image
  /\ pc' = [pc EXCEPT ![h] = "begun"]
  /\ UNCHANGED <<segments, records, tip, cur, status, committer>>

\* A variant of Abort without the ROLLBACK.
AbortNoRollback(h, st) ==
  /\ status' = [status EXCEPT ![h] = st]
  /\ pc' = [pc EXCEPT ![h] = "idle"]
  /\ UNCHANGED <<segments, records, writer, work, tip, cur, committer>>

\* A variant that moves the remembered tip on the way out of a failed call.
AbortMovesTip(h, st) ==
  /\ status' = [status EXCEPT ![h] = st]
  /\ pc' = [pc EXCEPT ![h] = "idle"]
  /\ writer' = IF writer = h THEN None ELSE writer
  /\ tip' = [tip EXCEPT ![h] = TipOf(cur[h])]
  /\ UNCHANGED <<segments, records, work, cur, committer>>

\* The call ends with an error; a transaction it had open is rolled back.
Abort(h, st) ==
  /\ status' = [status EXCEPT ![h] = st]
  /\ pc' = [pc EXCEPT ![h] = "idle"]
  /\ writer' = IF writer = h THEN None ELSE writer
  /\ UNCHANGED <<segments, records, work, tip, cur, committer>>

\* The lock is not free within the busy timeout.
BeginBusy(h) == pc[h] = "checked" /\ writer # None /\ Abort(h, "IO")

\* A variant with INSERT OR REPLACE.
NeverConflicts(h) == FALSE

\* PRIMARY KEY(segment_no).
SegmentConflict(h) == cur[h].no \in DOMAIN work.segments

InsertSegmentFails(h) == pc[h] = "begun" /\ SegmentConflict(h) /\ Abort(h, "IO")

InsertSegment(h) ==
  /\ pc[h] = "begun" /\ ~SegmentConflict(h)
  /\ work' = [work EXCEPT !.segments = Put(@, cur[h].no, Row(cur[h]))]
  /\ pc' = [pc EXCEPT ![h] = IF h \in Indexed THEN "indexing" ELSE "prepared"]
  /\ UNCHANGED <<segments, records, writer, tip, cur, status, committer>>

\* insert_records_indexed stops at the first record that does not decode, or
\* whose id is already a key of the table: in an earlier segment, or earlier
\* in this one.
Undecodable(h, i) == ~RecordDecodes(cur[h].recs[i])

DuplicateRecord(h, i) ==
  \/ RecordId(cur[h].recs[i]) \in DOMAIN work.records
  \/ \E j \in 1..(i - 1) : cur[h].recs[j] = cur[h].recs[i]

BadRecord(h, i) == Undecodable(h, i) \/ DuplicateRecord(h, i)

InsertRecordsFails(h) ==
  /\ pc[h] = "indexing"
  /\ \E i \in 1..Len(cur[h].recs) :
       /\ BadRecord(h, i)
       /\ \A j \in 1..(i - 1) : ~BadRecord(h, j)
       /\ Abort(h, IF Undecodable(h, i) THEN "FORMAT" ELSE "IO")

\* Variants of IndexEntries: one uses the number of the tip, not of the segment;
\* one stops before the last record.
IndexEntriesOldNo(seg) ==
  {[id |-> RecordId(seg.recs[i]),
    row |-> [no |-> seg.no - 1, idx |-> i, bytes |-> seg.recs[i]]] :
     i \in 1..Len(seg.recs)}

IndexEntriesButLast(seg) ==
  {[id |-> RecordId(seg.recs[i]),
    row |-> [no |-> seg.no, idx |-> i, bytes |-> seg.recs[i]]] :
     i \in 1..(Len(seg.recs) - 1)}

IndexEntries(seg) ==
  {[id |-> RecordId(seg.recs[i]),
    row |-> [no |-> seg.no, idx |-> i, bytes |-> seg.recs[i]]] :
     i \in 1..Len(seg.recs)}

PutAll(table, entries) ==
  [id \in DOMAIN table \cup {e.id : e \in entries} |->
     IF \E e \in entries : e.id = id
     THEN (CHOOSE e \in entries : e.id = id).row
     ELSE table[id]]

InsertRecords(h) ==
  /\ pc[h] = "indexing"
  /\ \A i \in 1..Len(cur[h].recs) : ~BadRecord(h, i)
  /\ work' = [work EXCEPT !.records = PutAll(@, IndexEntries(cur[h]))]
  /\ pc' = [pc EXCEPT ![h] = "prepared"]
  /\ UNCHANGED <<segments, records, writer, tip, cur, status, committer>>

\* Any statement of the transaction may fail; the code rolls back.
StepFails(h) == pc[h] \in {"begun", "indexing", "prepared"} /\ Abort(h, "IO")

Commit(h) ==
  /\ pc[h] = "prepared"
  /\ segments' = work.segments
  /\ records' = work.records
  /\ writer' = None
  /\ pc' = [pc EXCEPT ![h] = "committed"]
  /\ committer' = Put(committer, cur[h].no, h)
  /\ UNCHANGED <<work, tip, cur, status>>

NewTip(h) == TipOf(cur[h])

Finish(h) ==
  /\ pc[h] = "committed"
  /\ tip' = [tip EXCEPT ![h] = NewTip(h)]
  /\ status' = [status EXCEPT ![h] = "OK"]
  /\ pc' = [pc EXCEPT ![h] = "idle"]
  /\ UNCHANGED <<segments, records, writer, work, cur, committer>>

\* The process dies; SQLite's recovery undoes its transaction.
Kill(h) ==
  /\ pc[h] # "closed"
  /\ pc' = [pc EXCEPT ![h] = "closed"]
  /\ tip' = [tip EXCEPT ![h] = NoTip]
  /\ writer' = IF writer = h THEN None ELSE writer
  /\ UNCHANGED <<segments, records, work, cur, status, committer>>

\* sqlite_get_record.
GetRecord(h, id) ==
  IF h \notin Indexed THEN "UNSUPPORTED"
  ELSE IF id \in DOMAIN records THEN records[id].bytes ELSE "NOT_FOUND"

Step(h) ==
  \/ Begin(h) \/ BeginBusy(h)
  \/ InsertSegment(h) \/ InsertSegmentFails(h)
  \/ InsertRecords(h) \/ InsertRecordsFails(h)
  \/ StepFails(h) \/ Commit(h) \/ Finish(h)

Next ==
  \E h \in Handle :
    \/ Open(h) \/ Close(h) \/ AppendRejected(h) \/ AppendChecked(h)
    \/ Step(h) \/ Kill(h)

Spec == Init /\ [][Next]_vars

-----------------------------------------------------------------------------
\* Properties.

\* The shape of the state: what the write lock and the call positions have to
\* do with each other.  No call returns with the database locked.
TypeOK ==
  /\ DOMAIN segments \subseteq 1..MaxSeg
  /\ writer \in Handle \cup {None}
  /\ pc \in [Handle -> {"closed", "idle", "checked", "begun", "indexing",
                        "prepared", "committed"}]
  /\ \A h \in Handle :
       (writer = h) <=> pc[h] \in {"begun", "indexing", "prepared"}

\* The committed table is a hash chain without gaps, whichever handles appended
\* and however stale the tips were that they checked against.
TableIsChain ==
  \A n \in DOMAIN segments :
    /\ segments[n].hash = Sha256(segments[n].bytes)
    /\ segments[n].bytes.no = n
    /\ IF n = 1
       THEN segments[n].bytes.prev = ZeroHash
       ELSE /\ n - 1 \in DOMAIN segments
            /\ segments[n].bytes.prev = segments[n - 1].hash

\* The tip a handle remembers (sqlite_tip) may be stale but is never wrong: it
\* is a committed segment with its hash.
TipOnChain ==
  \A h \in Handle :
    \/ tip[h] = NoTip
    \/ /\ tip[h].no \in DOMAIN segments
       /\ tip[h].hash = segments[tip[h].no].hash

\* Append-only: a committed row is never changed or removed.
AppendOnly ==
  [][\A n \in DOMAIN segments :
       n \in DOMAIN segments' /\ segments'[n] = segments[n]]_segments

\* A row of the record index is right: it names a committed segment and the
\* place in it where the record with that id is.
IndexSound ==
  \A id \in DOMAIN records :
    LET row == records[id] IN
      /\ row.no \in DOMAIN segments
      /\ row.idx \in 1..Len(segments[row.no].bytes.recs)
      /\ segments[row.no].bytes.recs[row.idx] = row.bytes
      /\ RecordId(row.bytes) = id

\* The committed table implements the abstract store.
Committed == [n \in 1..Cardinality(DOMAIN segments) |-> segments[n].bytes]

Chain == INSTANCE HashChain WITH chain <- Committed

ImplementsHashChain == Chain!LinkedSpec
=============================================================================
