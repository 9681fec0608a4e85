---------------------------- MODULE SqliteQuery -----------------------------
(***************************************************************************)
(* The reading half of the SQLite backend: read_segment, iter_segments and *)
(* query_records (store/store_sqlite.c).  Each is one SELECT, which sees   *)
(* one committed state however long the caller's callback takes.  A query  *)
(* reads the record index; the same question can be answered, slowly, by   *)
(* reading every segment, and that is what the index is compared with.     *)
(***************************************************************************)
EXTENDS SqliteStore, SequencesExt

CONSTANTS
  Meta,     \* Record -> [namespace, schema, author, time]: decoded metadata
  Filters,  \* filters that callers pass; "" and 0 mean any
  Half      \* 2^63, scaled: times and bounds are below twice this

ASSUME SqliteQueryAssumption ==
  /\ DOMAIN Meta = Record
  /\ \A r \in Record : Meta[r].time \in 0..(2 * Half - 1)
  /\ \A f \in Filters : {f.from, f.to} \subseteq 0..(2 * Half - 1)

\* sqlite_read_segment.
ReadSegment(no) ==
  IF no \in DOMAIN segments THEN segments[no].bytes ELSE "NOT_FOUND"

\* sqlite_iter_segments: what the callback is given, in order.
IterSegments(from) ==
  SetToSortSeq({[no |-> n, hash |-> segments[n].hash] :
                  n \in {k \in DOMAIN segments : k >= from}},
               LAMBDA a, b : a.no < b.no)

\* Times are bound and compared as SQLite integers, which are signed.
AsInt64(t) == IF t >= Half THEN t - 2 * Half ELSE t

\* The WHERE clause: one conjunct for each field that the filter sets.
Matches(row, f) ==
  LET meta == Meta[row.bytes] IN
    /\ f.namespace \in {"", meta.namespace}
    /\ f.schema \in {"", meta.schema}
    /\ f.author \in {"", meta.author}
    /\ f.from = 0 \/ AsInt64(meta.time) >= AsInt64(f.from)
    /\ f.to = 0 \/ AsInt64(meta.time) <= AsInt64(f.to)

\* ORDER BY segment_no, idx_in_segment.
Before(a, b) == a.no < b.no \/ (a.no = b.no /\ a.idx < b.idx)

Limited(rows, limit) ==
  IF limit = 0 \/ limit >= Len(rows) THEN rows ELSE SubSeq(rows, 1, limit)

\* sqlite_query_records; the callback returns an error at row stop, if there
\* is such a row, and that ends the query.
QueryRecords(h, f, stop) ==
  IF h \notin Indexed THEN [status |-> "UNSUPPORTED", rows |-> <<>>]
  ELSE LET found == {records[id] : id \in {k \in DOMAIN records : Matches(records[k], f)}}
           rows == Limited(SetToSortSeq(found, Before), f.limit)
       IN IF stop \in 1..Len(rows)
          THEN [status |-> "STOPPED", rows |-> SubSeq(rows, 1, stop)]
          ELSE [status |-> "OK", rows |-> rows]

-----------------------------------------------------------------------------
\* Properties.

\* The records of the segments that iteration reports, in chain order, read
\* from the segments themselves.  A segment committed by a handle without the
\* index is passed over, because nothing indexes it later; one committed by a
\* handle with the index is read whatever the index holds of it.
IndexedSegment(no) == committer[no] \in Indexed

Scan ==
  FlattenSeq([k \in 1..Len(IterSegments(1)) |->
    LET no == IterSegments(1)[k].no
        recs == ReadSegment(no).recs
    IN IF IndexedSegment(no)
       THEN [i \in 1..Len(recs) |-> [no |-> no, idx |-> i, bytes |-> recs[i]]]
       ELSE <<>>])

\* What a caller means by a filter, with times as the unsigned numbers they are.
Wanted(r, f) ==
  /\ f.namespace # "" => Meta[r].namespace = f.namespace
  /\ f.schema # "" => Meta[r].schema = f.schema
  /\ f.author # "" => Meta[r].author = f.author
  /\ Meta[r].time >= f.from
  /\ f.to # 0 => Meta[r].time <= f.to

\* A query of the index (sqlite_query_records) finds exactly the records, and
\* in the order, that reading the whole chain would find, up to its limit or to
\* the callback's error, and get_record returns each of them: a segment and its
\* index rows are committed together or not at all.  This holds between any two
\* calls of the handle while others append, fail and die, for bounds and times
\* below 2^63.
QueryMatchesScan ==
  \A h \in Indexed, f \in Filters, stop \in 0..2 :
    LET wanted == SelectSeq(Scan, LAMBDA row : Wanted(row.bytes, f))
        answer == QueryRecords(h, f, stop)
    IN (/\ pc[h] = "idle"
        /\ {f.from, f.to} \cup {Meta[r].time : r \in Record} \subseteq 0..(Half - 1))
       => /\ IsPrefix(answer.rows, wanted)
          /\ answer.status = "OK" => answer.rows = Limited(wanted, f.limit)
          /\ \A k \in 1..Len(answer.rows) :
               GetRecord(h, RecordId(answer.rows[k].bytes)) = answer.rows[k].bytes
=============================================================================
