------------------------- MODULE SqliteStoreProofs --------------------------
(***************************************************************************)
(* Proofs about SqliteStore, for any number of handles, any records and    *)
(* any bound on the numbers: the committed table is always a hash chain,   *)
(* the remembered tips are always points of it, and no committed row is    *)
(* ever changed.                                                           *)
(*                                                                         *)
(* The argument.  The check of an append is made against a tip that may be *)
(* stale when the transaction starts.  Still, what was checked remains     *)
(* true: the segment carries the number and the hash that follow a         *)
(* committed row, and committed rows do not change.  If the row with its   *)
(* number exists by now, the primary key stops the insert.  If it does     *)
(* not, the write lock keeps it so until the commit, and the new row       *)
(* follows the row it was checked against.                                 *)
(***************************************************************************)
EXTENDS SqliteStore, ChainTheorems, FiniteSetTheorems

\* Most steps are first-order: Zenon is tried first, and then the SMT solver.
\* A step that needs numbers or sequences names the solver.
USE ZenonT(20), SMTT(30)

\* Places in sqlite_append_segment between BEGIN and COMMIT.
InTx == {"begun", "indexing", "prepared"}

\* What the check established, and what a transaction under way has done.
CallInv(h) ==
  /\ pc[h] \in {"checked", "begun", "indexing", "prepared"} =>
       /\ cur[h].no \in 1..MaxSeg
       /\ cur[h].no = tip[h].no + 1
       /\ cur[h].prev = tip[h].hash
  /\ pc[h] = "begun" => work.segments = segments
  /\ pc[h] \in {"indexing", "prepared"} =>
       /\ cur[h].no \notin DOMAIN segments
       /\ work.segments = Put(segments, cur[h].no, Row(cur[h]))
  /\ pc[h] = "committed" =>
       /\ cur[h].no \in DOMAIN segments
       /\ segments[cur[h].no] = Row(cur[h])

\* The shape of the state.
Shape ==
  /\ TypeOK
  /\ DOMAIN work = {"segments", "records"}
  /\ DOMAIN tip = Handle
  /\ DOMAIN cur = Handle

\* The inductive invariant.
IInv == Shape /\ TableIsChain /\ TipOnChain /\ \A h \in Handle : CallInv(h)

\* Initially the table is empty and no handle is open.
LEMMA InitIInv == Init => IInv
<1> SUFFICES ASSUME Init PROVE IInv
  OBVIOUS
<1>1. DOMAIN segments = {}
  BY DEF Init
<1>2. Shape
  BY <1>1, SqliteStoreAssumption DEF Init, Shape, TypeOK, Image
<1>3. TableIsChain
  BY <1>1 DEF TableIsChain
<1>4. TipOnChain
  BY DEF Init, TipOnChain
<1>5. \A h \in Handle : CallInv(h)
  BY DEF Init, CallInv
<1> QED
  BY <1>2, <1>3, <1>4, <1>5 DEF IInv

\* Every step keeps the invariant.  One case per action; where the action moves
\* one handle only, the other handles' CallInv is split off as g # h.
LEMMA StepIInv == IInv /\ [Next]_vars => IInv'
<1> SUFFICES ASSUME IInv, [Next]_vars PROVE IInv'
  OBVIOUS
<1> USE SqliteStoreAssumption
<1>1. CASE UNCHANGED vars
  BY <1>1 DEF vars, IInv, Shape, TypeOK, TableIsChain, TipOnChain, CallInv
<1>2. CASE Next
  <2>1. PICK h \in Handle :
          \/ Open(h) \/ Close(h) \/ AppendRejected(h) \/ AppendChecked(h)
          \/ Step(h) \/ Kill(h)
    BY <1>2 DEF Next
  <2>2. CASE Open(h)
    <3>1. PICK t \in LoadTip : tip' = [tip EXCEPT ![h] = t]
      BY <2>2 DEF Open
    <3>2. \/ t = NoTip
          \/ t.no \in DOMAIN segments /\ t.hash = segments[t.no].hash
      BY <3>1 DEF LoadTip
    <3>3. Shape'
      BY <2>2, <3>1 DEF Open, IInv, Shape, TypeOK
    <3>4. TableIsChain'
      BY <2>2 DEF Open, IInv, TableIsChain
    <3>5. TipOnChain'
      BY <2>2, <3>1, <3>2 DEF Open, IInv, Shape, TypeOK, TipOnChain
    <3>6. \A g \in Handle : CallInv(g)'
      BY <2>2, <3>1 DEF Open, IInv, Shape, TypeOK, CallInv
    <3> QED
      BY <3>3, <3>4, <3>5, <3>6 DEF IInv
  <2>3. CASE Close(h)
    <3>1. Shape'
      BY <2>3 DEF Close, IInv, Shape, TypeOK
    <3>2. TableIsChain'
      BY <2>3 DEF Close, IInv, TableIsChain
    <3>3. TipOnChain'
      BY <2>3 DEF Close, IInv, Shape, TipOnChain
    <3>4. \A g \in Handle : CallInv(g)'
      BY <2>3 DEF Close, IInv, Shape, TypeOK, CallInv
    <3> QED
      BY <3>1, <3>2, <3>3, <3>4 DEF IInv
  <2>4. CASE AppendRejected(h)
    BY <2>4 DEF AppendRejected, IInv, Shape, TypeOK, TableIsChain, TipOnChain,
                CallInv
  <2>5. CASE AppendChecked(h)
    <3>1. PICK seg \in Offer :
            Check(h, seg) = "OK" /\ cur' = [cur EXCEPT ![h] = seg]
      BY <2>5 DEF AppendChecked
    <3>2. seg.no \in 1..MaxSeg
      BY <3>1 DEF Offer, SegmentEncode
    <3>3. seg.no = tip[h].no + 1 /\ seg.prev = tip[h].hash
      BY <3>1 DEF Check
    <3>4. Shape'
      BY <2>5, <3>1 DEF AppendChecked, IInv, Shape, TypeOK
    <3>5. TableIsChain' /\ TipOnChain'
      BY <2>5 DEF AppendChecked, IInv, TableIsChain, TipOnChain
    <3>6. \A g \in Handle : CallInv(g)'
      BY <2>5, <3>1, <3>2, <3>3
      DEF AppendChecked, IInv, Shape, TypeOK, CallInv
    <3> QED
      BY <3>4, <3>5, <3>6 DEF IInv
  <2>6. CASE Begin(h)
    <3>1. Shape'
      BY <2>6 DEF Begin, IInv, Shape, TypeOK, Image
    <3>2. TableIsChain' /\ TipOnChain'
      BY <2>6 DEF Begin, IInv, TableIsChain, TipOnChain
    <3>3. \A g \in Handle : CallInv(g)'
      BY <2>6 DEF Begin, IInv, Shape, TypeOK, CallInv, Image
    <3> QED
      BY <3>1, <3>2, <3>3 DEF IInv
  <2>7. ASSUME NEW st, pc[h] # "closed", Abort(h, st) PROVE IInv'
    <3>1. Shape'
      BY <2>7 DEF Abort, IInv, Shape, TypeOK
    <3>2. TableIsChain' /\ TipOnChain'
      BY <2>7 DEF Abort, IInv, TableIsChain, TipOnChain
    <3>3. \A g \in Handle : CallInv(g)'
      BY <2>7 DEF Abort, IInv, Shape, TypeOK, CallInv
    <3> QED
      BY <3>1, <3>2, <3>3 DEF IInv
  <2>8. CASE BeginBusy(h) \/ InsertSegmentFails(h) \/ StepFails(h)
    BY <2>7, <2>8 DEF BeginBusy, InsertSegmentFails, StepFails
  <2>9. CASE InsertRecordsFails(h)
    <3>1. PICK i \in 1..Len(cur[h].recs) :
            Abort(h, IF Undecodable(h, i) THEN "FORMAT" ELSE "IO")
      BY <2>9 DEF InsertRecordsFails
    <3> QED
      BY <2>7, <2>9, <3>1 DEF InsertRecordsFails
  <2>10. CASE InsertSegment(h)
    <3>1. work'.segments = Put(segments, cur[h].no, Row(cur[h]))
      BY <2>10 DEF InsertSegment, IInv, Shape, CallInv
    <3>2. cur[h].no \notin DOMAIN segments
      BY <2>10 DEF InsertSegment, SegmentConflict, IInv, CallInv
    <3>3. Shape'
      BY <2>10 DEF InsertSegment, IInv, Shape, TypeOK
    <3>4. TableIsChain' /\ TipOnChain'
      BY <2>10 DEF InsertSegment, IInv, TableIsChain, TipOnChain
    <3>5. \A g \in Handle : CallInv(g)'
      <4>1. segments' = segments /\ cur' = cur /\ tip' = tip
        BY <2>10 DEF InsertSegment
      <4>2. CallInv(h)'
        <5>1. CallInv(h) /\ pc[h] = "begun"
          BY <2>10 DEF InsertSegment, IInv
        <5>2. pc'[h] \in {"indexing", "prepared"}
          BY <2>10 DEF InsertSegment, IInv, Shape, TypeOK
        <5>3. work'.segments = Put(segments', cur'[h].no, Row(cur'[h]))
          BY <3>1, <4>1
        <5> QED
          BY <3>2, <4>1, <5>1, <5>2, <5>3 DEF CallInv
      <4>3. ASSUME NEW g \in Handle \ {h} PROVE CallInv(g)'
        <5>1. pc'[g] = pc[g] /\ pc[g] \notin InTx
          BY <2>10 DEF InsertSegment, IInv, Shape, TypeOK, InTx
        <5> QED
          BY <4>1, <5>1 DEF IInv, CallInv, InTx
      <4> QED
        BY <4>2, <4>3
    <3> QED
      BY <3>3, <3>4, <3>5 DEF IInv
  <2>11. CASE InsertRecords(h)
    <3>1. work'.segments = work.segments
      BY <2>11 DEF InsertRecords, IInv, Shape
    <3>2. Shape'
      BY <2>11 DEF InsertRecords, IInv, Shape, TypeOK
    <3>3. TableIsChain' /\ TipOnChain'
      BY <2>11 DEF InsertRecords, IInv, TableIsChain, TipOnChain
    <3>4. \A g \in Handle : CallInv(g)'
      <4>1. segments' = segments /\ cur' = cur /\ tip' = tip
        BY <2>11 DEF InsertRecords
      <4>2. CallInv(h)'
        <5>1. CallInv(h) /\ pc[h] = "indexing"
          BY <2>11 DEF InsertRecords, IInv
        <5>2. pc'[h] \in {"indexing", "prepared"}
          BY <2>11 DEF InsertRecords, IInv, Shape, TypeOK
        <5>3. work'.segments = Put(segments', cur'[h].no, Row(cur'[h]))
          BY <3>1, <4>1, <5>1 DEF CallInv
        <5> QED
          BY <4>1, <5>1, <5>2, <5>3 DEF CallInv
      <4>3. ASSUME NEW g \in Handle \ {h} PROVE CallInv(g)'
        <5>1. pc'[g] = pc[g] /\ pc[g] \notin InTx
          BY <2>11 DEF InsertRecords, IInv, Shape, TypeOK, InTx
        <5> QED
          BY <4>1, <5>1 DEF IInv, CallInv, InTx
      <4> QED
        BY <4>2, <4>3
    <3> QED
      BY <3>2, <3>3, <3>4 DEF IInv
  <2>12. CASE Commit(h)
    <3> DEFINE k == cur[h].no
    <3>1. /\ k \in 1..MaxSeg /\ k \notin DOMAIN segments
          /\ k = tip[h].no + 1 /\ cur[h].prev = tip[h].hash
          /\ segments' = Put(segments, k, Row(cur[h]))
      BY <2>12 DEF Commit, IInv, CallInv
    <3>2. /\ DOMAIN segments' = DOMAIN segments \cup {k}
          /\ segments'[k] = Row(cur[h])
          /\ \A n \in DOMAIN segments : segments'[n] = segments[n]
      BY <3>1 DEF Put
    <3>3. Shape'
      BY <2>12, <3>1, <3>2 DEF Commit, IInv, Shape, TypeOK
    <3>4. TableIsChain'
      <4>1. \/ k = 1 /\ cur[h].prev = ZeroHash
            \/ k # 1 /\ k - 1 \in DOMAIN segments
                     /\ cur[h].prev = segments[k - 1].hash
        BY SMTT(30), <3>1 DEF IInv, Shape, TypeOK, TipOnChain, NoTip
      <4> QED
        BY SMT, <3>1, <3>2, <4>1 DEF IInv, Shape, TypeOK, TableIsChain, Row
    <3>5. TipOnChain'
      BY <2>12, <3>2 DEF Commit, IInv, TipOnChain
    <3>6. \A g \in Handle : CallInv(g)'
      BY SMT, <2>12, <3>2 DEF Commit, IInv, Shape, TypeOK, CallInv
    <3> QED
      BY <3>3, <3>4, <3>5, <3>6 DEF IInv
  <2>13. CASE Finish(h)
    <3>1. Shape'
      BY <2>13 DEF Finish, IInv, Shape, TypeOK
    <3>2. TableIsChain'
      BY <2>13 DEF Finish, IInv, TableIsChain
    <3>3. TipOnChain'
      <4>1. tip' = [tip EXCEPT ![h] = TipOf(cur[h])] /\ segments' = segments
        BY <2>13 DEF Finish, NewTip
      <4>2. /\ cur[h].no \in DOMAIN segments
            /\ segments[cur[h].no].hash = Sha256(cur[h])
        <5>1. pc[h] = "committed" /\ CallInv(h)
          BY <2>13 DEF Finish, IInv
        <5>2. cur[h].no \in DOMAIN segments /\ segments[cur[h].no] = Row(cur[h])
          BY <5>1 DEF CallInv
        <5> QED
          BY <5>2 DEF Row
      <4> QED
        BY <4>1, <4>2 DEF IInv, Shape, TipOnChain, TipOf
    <3>4. \A g \in Handle : CallInv(g)'
      BY <2>13 DEF Finish, IInv, Shape, TypeOK, CallInv
    <3> QED
      BY <3>1, <3>2, <3>3, <3>4 DEF IInv
  <2>14. CASE Kill(h)
    <3>1. Shape'
      BY <2>14 DEF Kill, IInv, Shape, TypeOK
    <3>2. TableIsChain'
      BY <2>14 DEF Kill, IInv, TableIsChain
    <3>3. TipOnChain'
      BY <2>14 DEF Kill, IInv, Shape, TipOnChain
    <3>4. \A g \in Handle : CallInv(g)'
      BY <2>14 DEF Kill, IInv, Shape, TypeOK, CallInv
    <3> QED
      BY <3>1, <3>2, <3>3, <3>4 DEF IInv
  <2> QED
    BY <2>1, <2>2, <2>3, <2>4, <2>5, <2>6, <2>8, <2>9, <2>10, <2>11, <2>12,
       <2>13, <2>14 DEF Step
<1> QED
  BY <1>1, <1>2

\* The invariant holds in every behaviour.
LEMMA IInvInvariant == Spec => []IInv
BY InitIInv, StepIInv, PTL DEF Spec

\* No call of the store returns with the database locked, and the lock has one
\* holder, inside its transaction.
THEOREM TypeCorrect == Spec => []TypeOK
<1>1. IInv => TypeOK
  BY DEF IInv, Shape
<1> QED
  BY IInvInvariant, <1>1, PTL

\* The committed table is a hash chain without gaps for any set of handles,
\* although each checks its appends against a tip that may be stale.
THEOREM ChainIntact == Spec => []TableIsChain
<1>1. IInv => TableIsChain
  BY DEF IInv
<1> QED
  BY IInvInvariant, <1>1, PTL

\* A handle's remembered tip is always a committed segment with its hash.
THEOREM TipsValid == Spec => []TipOnChain
<1>1. IInv => TipOnChain
  BY DEF IInv
<1> QED
  BY IInvInvariant, <1>1, PTL

\* No step changes or removes a committed row.
THEOREM RowsPermanent == Spec => AppendOnly
<1> DEFINE Kept == \A n \in DOMAIN segments :
                     n \in DOMAIN segments' /\ segments'[n] = segments[n]
<1>1. IInv /\ [Next]_vars => [Kept]_segments
  <2> SUFFICES ASSUME IInv, [Next]_vars, segments' # segments PROVE Kept
    OBVIOUS
  <2>1. PICK h \in Handle : Commit(h)
    BY DEF vars, Next, Open, Close, AppendRejected, AppendChecked, Step, Begin,
           BeginBusy, InsertSegment, InsertSegmentFails, InsertRecords,
           InsertRecordsFails, StepFails, Finish, Kill, Abort
  <2>2. segments' = Put(segments, cur[h].no, Row(cur[h]))
        /\ cur[h].no \notin DOMAIN segments
    BY <2>1 DEF Commit, IInv, CallInv
  <2> QED
    BY <2>2 DEF Put
<1> QED
  BY IInvInvariant, <1>1, PTL DEF Spec, AppendOnly
-----------------------------------------------------------------------------
\* The second layer, on top of IInv: the record index, and numbers without a
\* gap, which the refinement needs.

\* A table of records that is right about a table of segments.
Sound(recs, segs) ==
  \A id \in DOMAIN recs :
    /\ recs[id].no \in DOMAIN segs
    /\ recs[id].idx \in 1..Len(segs[recs[id].no].bytes.recs)
    /\ segs[recs[id].no].bytes.recs[recs[id].idx] = recs[id].bytes
    /\ RecordId(recs[id].bytes) = id

\* The committed numbers are 1..k.
Contiguous == \E k \in 0..MaxSeg : DOMAIN segments = 1..k

\* A transaction starts with the committed index, and its own rows are right
\* about its own image of the segments.
IndexInv ==
  /\ Contiguous
  /\ Sound(records, segments)
  /\ \A h \in Handle :
       /\ pc[h] \in {"begun", "indexing"} => work.records = records
       /\ pc[h] = "prepared" => Sound(work.records, work.segments)

\* Rows stay right when the table of segments gains a row.
LEMMA SoundExtends ==
  ASSUME NEW recs, NEW segs, NEW no, NEW row, Sound(recs, segs),
         no \notin DOMAIN segs
  PROVE  Sound(recs, Put(segs, no, row))
<1> DEFINE new == Put(segs, no, row)
<1>1. DOMAIN new = DOMAIN segs \cup {no} /\ \A n \in DOMAIN segs : new[n] = segs[n]
  BY DEF Put
<1> HIDE DEF new
<1>2. Sound(recs, new)
  BY <1>1 DEF Sound
<1> QED
  BY <1>2 DEF new

\* The rows that insert_records_indexed adds for a segment are right about a
\* table that has the segment.
LEMMA SoundInsert ==
  ASSUME NEW recs, NEW segs, Sound(recs, segs), NEW seg,
         seg.no \in DOMAIN segs, segs[seg.no] = Row(seg)
  PROVE  Sound(PutAll(recs, IndexEntries(seg)), segs)
<1> DEFINE entries == IndexEntries(seg)
           new == PutAll(recs, entries)
<1>1. ASSUME NEW e \in entries
      PROVE  /\ e.row.no = seg.no /\ e.row.idx \in 1..Len(seg.recs)
             /\ e.row.bytes = seg.recs[e.row.idx]
             /\ RecordId(e.row.bytes) = e.id
  BY DEF IndexEntries
<1>2. segs[seg.no].bytes = seg
  BY DEF Row
<1>3. DOMAIN new = DOMAIN recs \cup {e.id : e \in entries}
  BY DEF PutAll
<1>4. ASSUME NEW id \in DOMAIN new
      PROVE  \/ \E e \in entries : e.id = id /\ new[id] = e.row
             \/ id \in DOMAIN recs /\ new[id] = recs[id]
  <2> HIDE DEF entries
  <2>1. CASE \E e \in entries : e.id = id
    <3>1. new[id] = (CHOOSE e \in entries : e.id = id).row
      BY <2>1 DEF PutAll
    <3> QED
      BY <2>1, <3>1
  <2>2. CASE ~ \E e \in entries : e.id = id
    BY <1>3, <2>2 DEF PutAll
  <2> QED
    BY <2>1, <2>2
<1> HIDE DEF new, entries
<1>5. ASSUME NEW id \in DOMAIN new
      PROVE  /\ new[id].no \in DOMAIN segs
             /\ new[id].idx \in 1..Len(segs[new[id].no].bytes.recs)
             /\ segs[new[id].no].bytes.recs[new[id].idx] = new[id].bytes
             /\ RecordId(new[id].bytes) = id
  <2>1. CASE id \in DOMAIN recs /\ new[id] = recs[id]
    BY <2>1 DEF Sound
  <2>2. ASSUME NEW e \in entries, e.id = id, new[id] = e.row
        PROVE  /\ new[id].no \in DOMAIN segs
               /\ new[id].idx \in 1..Len(segs[new[id].no].bytes.recs)
               /\ segs[new[id].no].bytes.recs[new[id].idx] = new[id].bytes
               /\ RecordId(new[id].bytes) = id
    BY <1>1, <1>2, <2>2
  <2> QED
    BY <1>4, <2>1, <2>2
<1>6. Sound(new, segs)
  BY <1>5 DEF Sound
<1> QED
  BY <1>6 DEF new, entries

\* The index of an empty database is right.
LEMMA InitIndexInv == Init => IndexInv
<1> SUFFICES ASSUME Init PROVE IndexInv
  OBVIOUS
<1>1. DOMAIN segments = {} /\ DOMAIN records = {}
  BY DEF Init
<1>2. Contiguous
  BY <1>1, SqliteStoreAssumption DEF Contiguous
<1> QED
  BY <1>1, <1>2 DEF Init, IndexInv, Sound

\* Every step keeps the second layer: only three actions touch the tables.
LEMMA StepIndexInv == IInv /\ IndexInv /\ [Next]_vars => IndexInv'
<1> SUFFICES ASSUME IInv, IndexInv, [Next]_vars PROVE IndexInv'
  OBVIOUS
<1> USE SqliteStoreAssumption
<1>1. CASE UNCHANGED vars
  BY <1>1 DEF vars, IndexInv, Contiguous, Sound
<1>2. ASSUME UNCHANGED <<segments, records, work>>,
             \A g \in Handle : pc'[g] \in {"begun", "indexing", "prepared"}
                                 => pc'[g] = pc[g]
      PROVE  IndexInv'
  BY <1>2 DEF IndexInv, Contiguous, Sound
<1>3. ASSUME NEW h \in Handle,
             \/ Open(h) \/ Close(h) \/ AppendRejected(h) \/ AppendChecked(h)
             \/ BeginBusy(h) \/ InsertSegmentFails(h) \/ InsertRecordsFails(h)
             \/ StepFails(h) \/ Finish(h) \/ Kill(h)
      PROVE  IndexInv'
  <2>1. UNCHANGED <<segments, records, work>>
    BY <1>3 DEF Open, Close, AppendRejected, AppendChecked, BeginBusy,
                InsertSegmentFails, InsertRecordsFails, StepFails, Abort,
                Finish, Kill
  <2>2. \/ pc' = pc \/ pc' = [pc EXCEPT ![h] = "idle"]
        \/ pc' = [pc EXCEPT ![h] = "closed"] \/ pc' = [pc EXCEPT ![h] = "checked"]
    BY <1>3 DEF Open, Close, AppendRejected, AppendChecked, BeginBusy,
                InsertSegmentFails, InsertRecordsFails, StepFails, Abort,
                Finish, Kill
  <2> QED
    BY <1>2, <2>1, <2>2 DEF IInv, Shape, TypeOK
<1>4. ASSUME NEW h \in Handle, Begin(h) PROVE IndexInv'
  <2>1. work'.records = records /\ UNCHANGED <<segments, records>>
    BY <1>4 DEF Begin, Image
  <2>2. \A g \in Handle : pc'[g] \in {"begun", "indexing"} \/ pc'[g] = pc[g]
    BY <1>4 DEF Begin, IInv, Shape, TypeOK
  <2>3. \A g \in Handle : pc[g] # "prepared"
    BY <1>4 DEF Begin, IInv, Shape, TypeOK
  <2> QED
    BY <2>1, <2>2, <2>3 DEF IndexInv, Contiguous, Sound
<1>5. ASSUME NEW h \in Handle, InsertSegment(h) PROVE IndexInv'
  <2>1. /\ pc[h] = "begun" /\ CallInv(h)
        /\ work.segments = segments /\ work.records = records
    BY <1>5 DEF InsertSegment, IInv, CallInv, IndexInv
  <2>2. cur[h].no \notin DOMAIN segments
    BY <1>5, <2>1 DEF InsertSegment, SegmentConflict
  <2>3. /\ work'.segments = Put(segments, cur[h].no, Row(cur[h]))
        /\ work'.records = records
        /\ UNCHANGED <<segments, records>>
    BY <1>5, <2>1 DEF InsertSegment, IInv, Shape
  <2>4. Sound(work'.records, work'.segments)
    BY <2>2, <2>3, SoundExtends DEF IndexInv
  <2>5. \A g \in Handle \ {h} : pc'[g] \notin {"begun", "indexing", "prepared"}
    BY <1>5 DEF InsertSegment, IInv, Shape, TypeOK
  <2>6. Contiguous' /\ Sound(records', segments')
    BY <2>3 DEF IndexInv, Contiguous, Sound
  <2>7. pc'[h] \in {"indexing", "prepared"}
    BY <1>5 DEF InsertSegment, IInv, Shape, TypeOK
  <2> QED
    BY <2>3, <2>4, <2>5, <2>6, <2>7 DEF IndexInv
<1>6. ASSUME NEW h \in Handle, InsertRecords(h) PROVE IndexInv'
  <2>1. /\ pc[h] = "indexing" /\ CallInv(h)
        /\ work.records = records
    BY <1>6 DEF InsertRecords, IInv, IndexInv
  <2>2. /\ cur[h].no \notin DOMAIN segments
        /\ work.segments = Put(segments, cur[h].no, Row(cur[h]))
    BY <2>1 DEF CallInv
  <2>3. /\ work'.segments = work.segments
        /\ work'.records = PutAll(records, IndexEntries(cur[h]))
        /\ UNCHANGED <<segments, records>>
    BY <1>6, <2>1 DEF InsertRecords, IInv, Shape
  <2>4. Sound(records, work.segments)
    BY <2>2, SoundExtends DEF IndexInv
  <2>5. cur[h].no \in DOMAIN work.segments /\ work.segments[cur[h].no] = Row(cur[h])
    BY <2>2 DEF Put
  <2>6. Sound(work'.records, work'.segments)
    BY <2>3, <2>4, <2>5, SoundInsert
  <2>7. \A g \in Handle \ {h} : pc'[g] \notin {"begun", "indexing", "prepared"}
    BY <1>6 DEF InsertRecords, IInv, Shape, TypeOK
  <2>8. pc'[h] = "prepared"
    BY <1>6 DEF InsertRecords, IInv, Shape, TypeOK
  <2>9. Contiguous' /\ Sound(records', segments')
    BY <2>3 DEF IndexInv, Contiguous, Sound
  <2> QED
    BY <2>6, <2>7, <2>8, <2>9 DEF IndexInv
<1>7. ASSUME NEW h \in Handle, Commit(h) PROVE IndexInv'
  <2>1. /\ pc[h] = "prepared" /\ CallInv(h)
        /\ segments' = work.segments /\ records' = work.records
    BY <1>7 DEF Commit, IInv
  <2>2. Sound(records', segments')
    BY <2>1 DEF IndexInv
  <2>3. Contiguous'
    <3>1. PICK k \in 0..MaxSeg : DOMAIN segments = 1..k
      BY DEF IndexInv, Contiguous
    <3>2. /\ cur[h].no \in 1..MaxSeg /\ cur[h].no = tip[h].no + 1
          /\ cur[h].no \notin DOMAIN segments
          /\ segments' = Put(segments, cur[h].no, Row(cur[h]))
      BY <2>1 DEF CallInv
    <3>3. tip[h].no \in 0..k
      BY SMTT(30), <3>1 DEF IInv, TipOnChain, NoTip
    <3>4. cur[h].no = k + 1
      BY <3>1, <3>2, <3>3
    <3>5. DOMAIN segments' = DOMAIN segments \cup {cur[h].no}
      BY <3>2 DEF Put
    <3>6. k \in Nat /\ k + 1 \in 0..MaxSeg
      BY <3>2, <3>4
    <3>7. DOMAIN segments' = 1..(k + 1)
      BY SMTT(30), <3>1, <3>4, <3>5, <3>6
    <3> QED
      BY <3>6, <3>7 DEF Contiguous
  <2>4. \A g \in Handle : pc'[g] \notin {"begun", "indexing", "prepared"}
    BY <1>7 DEF Commit, IInv, Shape, TypeOK
  <2> QED
    BY <2>2, <2>3, <2>4 DEF IndexInv
<1> QED
  BY <1>1, <1>3, <1>4, <1>5, <1>6, <1>7 DEF Next, Step

\* The index and the segments agree in every behaviour, at each commit.
LEMMA IndexInvInvariant == Spec => [](IInv /\ IndexInv)
<1>1. Init => IInv /\ IndexInv
  BY InitIInv, InitIndexInv
<1>2. IInv /\ IndexInv /\ [Next]_vars => (IInv /\ IndexInv)'
  BY StepIInv, StepIndexInv
<1> QED
  BY <1>1, <1>2, PTL DEF Spec

\* Every row of the record index names a committed segment and the place in it
\* where its record is: index rows are committed with their segment or not at
\* all.
THEOREM IndexRight == Spec => []IndexSound
<1>1. IInv /\ IndexInv => IndexSound
  BY DEF IndexInv, Sound, IndexSound
<1> QED
  BY IndexInvInvariant, <1>1, PTL

\* The committed table implements the append-only hash chain: a commit appends
\* one segment with the next number and the hash of its predecessor, and no
\* other step changes what is committed.
THEOREM CommitsRefineChain == Spec => ImplementsHashChain
<1>1. Init => Chain!Init
  <2> SUFFICES ASSUME Init PROVE Committed = <<>>
    BY DEF Chain!Init
  <2>1. DOMAIN segments = {}
    BY DEF Init
  <2>2. Cardinality(DOMAIN segments) = 0
    BY <2>1, FS_EmptySet
  <2>3. Committed = [n \in 1..0 |-> segments[n].bytes]
    BY <2>2 DEF Committed
  <2> QED
    BY <2>3
<1>2. IInv /\ IndexInv /\ IndexInv' /\ [Next]_vars => [Chain!AppendLinked]_Committed
  <2> SUFFICES ASSUME IInv, IndexInv, IndexInv', [Next]_vars, Committed' # Committed
               PROVE  Chain!AppendLinked
    OBVIOUS
  <2>1. segments' # segments
    BY DEF Committed
  <2>2. PICK h \in Handle : Commit(h)
    BY <2>1 DEF vars, Next, Open, Close, AppendRejected, AppendChecked, Step, Begin,
           BeginBusy, InsertSegment, InsertSegmentFails, InsertRecords,
           InsertRecordsFails, StepFails, Finish, Kill, Abort
  <2>3. PICK k \in 0..MaxSeg : DOMAIN segments = 1..k
    BY DEF IndexInv, Contiguous
  <2>4. /\ cur[h].no \in 1..MaxSeg /\ cur[h].no = tip[h].no + 1
        /\ cur[h].prev = tip[h].hash
        /\ cur[h].no \notin DOMAIN segments
        /\ segments' = Put(segments, cur[h].no, Row(cur[h]))
    BY <2>2 DEF Commit, IInv, CallInv
  <2>5. cur[h].no = k + 1
    BY SMTT(30), <2>3, <2>4 DEF IInv, TipOnChain, NoTip
  <2>6. /\ DOMAIN segments' = 1..(k + 1)
        /\ \A n \in 1..k : segments'[n] = segments[n]
        /\ segments'[k + 1] = Row(cur[h])
    <3>1. DOMAIN segments' = DOMAIN segments \cup {k + 1}
      BY <2>4, <2>5 DEF Put
    <3>2. DOMAIN segments' = 1..(k + 1)
      BY <2>3, <3>1
    <3> QED
      BY <2>3, <2>4, <2>5, <3>2 DEF Put
  <2>7. Cardinality(DOMAIN segments) = k /\ Cardinality(DOMAIN segments') = k + 1
    BY SMT, <2>3, <2>6, FS_Interval, SqliteStoreAssumption
  <2>8. /\ Committed = [n \in 1..k |-> segments[n].bytes]
        /\ Committed' = [n \in 1..(k + 1) |-> segments'[n].bytes]
    BY <2>7 DEF Committed
  <2>9. IsSequence(Committed) /\ Len(Committed) = k /\ Len(Committed') = k + 1
    <3>1. k \in Nat /\ k + 1 \in Nat
      BY SqliteStoreAssumption
    <3> QED
      BY SMT, <2>8, <3>1, FunctionIsSequence
  <2>10. Committed'[k + 1] = cur[h]
    BY SMTT(30), <2>6, <2>8, SqliteStoreAssumption DEF Row
  <2>11. cur[h].prev = ChainTip(Committed).hash
    <3>1. ChainTip(Committed).hash = PrevOf(Committed, k + 1)
      BY <2>9, ChainTipFacts
    <3>2. CASE k = 0
      BY SMTT(30), <2>3, <2>4, <2>5, <3>1, <3>2 DEF IInv, TipOnChain, NoTip, PrevOf
    <3>3. CASE k # 0
      <4>1. k \in DOMAIN segments /\ tip[h].no = k
        BY SMT, <2>3, <2>4, <2>5, <3>3, SqliteStoreAssumption DEF IInv, TipOnChain, NoTip
      <4>2. tip[h].hash = Sha256(segments[k].bytes)
        BY SMT, <3>3, <4>1 DEF IInv, TipOnChain, NoTip, TableIsChain
      <4>3. PrevOf(Committed, k + 1) = Sha256(Committed[k])
        BY <3>3, SqliteStoreAssumption DEF PrevOf
      <4> QED
        BY <2>3, <2>4, <2>8, <3>1, <4>1, <4>2, <4>3
    <3> QED
      BY <3>2, <3>3
  <2>12. Chain!Extend
    BY SMT, <2>3, <2>6, <2>8, <2>9 DEF Chain!Extend
  <2> QED
    <3>1. Chain!ChainTip(Committed).hash = ChainTip(Committed).hash
      BY DEF ChainTip, NoTip, Sha256, ZeroHash,
             Chain!ChainTip, Chain!NoTip, Chain!Sha256, Chain!ZeroHash
    <3> QED
      BY <2>4, <2>5, <2>9, <2>10, <2>11, <2>12, <3>1
      DEF Chain!AppendLinked, Chain!AppendNumbered
<1> QED
  BY IndexInvInvariant, <1>1, <1>2, PTL DEF Spec, ImplementsHashChain, Chain!LinkedSpec
=============================================================================
