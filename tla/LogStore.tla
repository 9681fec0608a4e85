------------------------------ MODULE LogStore ------------------------------
(***************************************************************************)
(* The log backend (store/store_log.c): one file per segment in a          *)
(* directory.  An append writes seg_<no>.tmp, optionally fsyncs it, closes *)
(* it and renames it to seg_<no>.vcs; opening scans the directory for the  *)
(* highest number.  Each of those system calls is a step of its own, so    *)
(* that the process can be killed, or the machine lose power, between any  *)
(* two of them.                                                            *)
(*                                                                         *)
(* Several handles (processes) may have the directory open.  As the README *)
(* demands, calls are serialised from outside: an append starts only when  *)
(* no other one is under way.  What a handle remembers of the tip between  *)
(* its calls is its own.                                                   *)
(***************************************************************************)
EXTENDS Segment

CONSTANTS
  Handle,         \* open store objects on the same directory
  Batch,          \* record sequences that callers put into segments
  MaxSeg,         \* bound: highest segment number offered to append
  Faults          \* which of "io", "fclose", "kill", "power" may happen

ASSUME LogStoreAssumption ==
  /\ Batch \subseteq Seq(Record)
  /\ MaxSeg \in Nat
  /\ Faults \subseteq {"io", "fclose", "kill", "power"}

VARIABLES
  files,   \* seg_<no>.vcs: number -> [seg, synced], for the files that exist
  tmp,     \* seg_<no>.tmp: likewise
  pc,      \* where each handle is in its current call
  tip,     \* the tip each handle remembers (tip_no, tip_hash, has_tip)
  cur,     \* the segment each handle is appending
  status,  \* what the last call of each handle returned
  fsync,   \* the store option fsync_on_commit, the same for all handles
  acked,   \* history, since power was last lost: number -> the segment last
           \* acknowledged under it
  outage   \* history: power was lost at least once

vars == <<files, tmp, pc, tip, cur, status, fsync, acked, outage>>

\* Directory operations (external: the file system).
Put(dir, no, file) ==
  [n \in DOMAIN dir \cup {no} |-> IF n = no THEN file ELSE dir[n]]

Remove(dir, no) == [n \in DOMAIN dir \ {no} |-> dir[n]]

NoSegment == SegmentEncode(0, ZeroHash, <<>>, ZeroHash, FALSE)

\* scan_tip: the highest number that names a published file, 0 if none does.
ScanTip ==
  IF DOMAIN files = {} THEN 0
  ELSE CHOOSE n \in DOMAIN files : \A m \in DOMAIN files : m <= n

\* What vicarl_store_open_log keeps: the number found by the scan and the hash
\* of whatever bytes that file holds.  Nothing is verified.
LoadTip ==
  IF ScanTip = 0 THEN NoTip
  ELSE [no |-> ScanTip, hash |-> Sha256(files[ScanTip].seg)]

Quiet == \A h \in Handle : pc[h] \in {"closed", "idle"}

Init ==
  /\ files = <<>>
  /\ tmp = <<>>
  /\ pc = [h \in Handle |-> "closed"]
  /\ tip = [h \in Handle |-> NoTip]
  /\ cur = [h \in Handle |-> NoSegment]
  /\ status = [h \in Handle |-> "OK"]
  /\ fsync \in BOOLEAN
  /\ acked = <<>>
  /\ outage = FALSE

\* A variant that takes the last file to be torn and removes it.
OpenDropsLast(h) ==
  /\ pc[h] = "closed" /\ Quiet
  /\ files' = Remove(files, ScanTip)
  /\ pc' = [pc EXCEPT ![h] = "idle"]
  /\ tip' = [tip EXCEPT ![h] = LoadTip']
  /\ status' = [status EXCEPT ![h] = "OK"]
  /\ UNCHANGED <<tmp, cur, acked, fsync, outage>>

Open(h) ==
  /\ pc[h] = "closed" /\ Quiet
  /\ pc' = [pc EXCEPT ![h] = "idle"]
  /\ tip' = [tip EXCEPT ![h] = LoadTip]
  /\ status' = [status EXCEPT ![h] = "OK"]
  /\ UNCHANGED <<files, tmp, cur, acked, fsync, outage>>

Close(h) ==
  /\ pc[h] = "idle"
  /\ pc' = [pc EXCEPT ![h] = "closed"]
  /\ tip' = [tip EXCEPT ![h] = NoTip]
  /\ UNCHANGED <<files, tmp, cur, status, acked, fsync, outage>>

-----------------------------------------------------------------------------
\* log_append_segment.  Unlike the SQLite backend it checks neither the link nor
\* that the bytes decode: of a segment it reads magic and number.  The link is
\* the callers' part, and both of them keep it: ledger flush takes the hash of
\* the tip that this handle reports, and sync refuses a segment without it.
Offer(h) ==
  {SegmentEncode(no, tip[h].hash, recs, ZeroHash, FALSE) :
     no \in 1..MaxSeg, recs \in Batch}

Expected(h) == tip[h].no + 1

\* peek_segment_no: the number, or nothing if the bytes (NoSegment stands for
\* them) have no magic or no number.
PeekSegmentNo(bytes) == IF bytes = NoSegment THEN {} ELSE {bytes.no}

Check(h, bytes) ==
  IF PeekSegmentNo(bytes) = {} THEN "FORMAT"
  ELSE IF PeekSegmentNo(bytes) # {Expected(h)} THEN "INVALID_ARGUMENT"
  ELSE "OK"

AppendRejected(h) ==
  /\ pc[h] = "idle" /\ Quiet
  /\ \E bytes \in Offer(h) \cup {NoSegment} :
       /\ Check(h, bytes) # "OK"
       /\ status' = [status EXCEPT ![h] = Check(h, bytes)]
  /\ UNCHANGED <<files, tmp, pc, tip, cur, acked, fsync, outage>>

\* fopen(tmp, "wb") creates or empties the temporary file.
AppendOpenTmp(h) ==
  /\ pc[h] = "idle" /\ Quiet
  /\ \E seg \in Offer(h) :
       /\ Check(h, seg) = "OK"
       /\ tmp' = Put(tmp, seg.no, [seg |-> Truncated(seg), synced |-> FALSE])
       /\ cur' = [cur EXCEPT ![h] = seg]
  /\ pc' = [pc EXCEPT ![h] = "opened"]
  /\ UNCHANGED <<files, tip, status, acked, fsync, outage>>

\* fopen fails, or memory runs out before it: nothing has been touched.
AppendOpenFails(h) ==
  /\ "io" \in Faults
  /\ pc[h] = "idle" /\ Quiet
  /\ status' = [status EXCEPT ![h] = "IO"]
  /\ UNCHANGED <<files, tmp, pc, tip, cur, acked, fsync, outage>>

\* fwrite: the bytes are in the stream's buffer; the file is still short.
AppendWrite(h) ==
  /\ pc[h] = "opened"
  /\ pc' = [pc EXCEPT ![h] = "written"]
  /\ UNCHANGED <<files, tmp, tip, cur, status, acked, fsync, outage>>

\* A variant of NeedsFsync that ignores the option.
SkippedFsync == FALSE

NeedsFsync == fsync

\* fsync_file: fflush, then fsync.
AppendFsync(h) ==
  /\ pc[h] = "written" /\ NeedsFsync
  /\ tmp' = Put(tmp, cur[h].no, [seg |-> cur[h], synced |-> TRUE])
  /\ pc' = [pc EXCEPT ![h] = "synced"]
  /\ UNCHANGED <<files, tip, cur, status, acked, fsync, outage>>

\* fclose, whose result is not looked at: when its flush fails, the short
\* file goes on to be published.
FlushOutcomes(seg) ==
  {seg} \cup (IF "fclose" \in Faults THEN {Truncated(seg)} ELSE {})

AppendClose(h) ==
  /\ \/ /\ pc[h] = "synced"
        /\ tmp' = tmp
     \/ /\ pc[h] = "written" /\ ~NeedsFsync
        /\ \E seg \in FlushOutcomes(cur[h]) :
             tmp' = Put(tmp, cur[h].no, [seg |-> seg, synced |-> FALSE])
  /\ pc' = [pc EXCEPT ![h] = "fclosed"]
  /\ UNCHANGED <<files, tip, cur, status, acked, fsync, outage>>

\* rename(tmp, final) replaces whatever file has the final name.
AppendRename(h) ==
  /\ pc[h] = "fclosed"
  /\ files' = Put(files, cur[h].no, tmp[cur[h].no])
  /\ tmp' = Remove(tmp, cur[h].no)
  /\ pc' = [pc EXCEPT ![h] = "renamed"]
  /\ UNCHANGED <<tip, cur, status, acked, fsync, outage>>

\* A variant of AppendFail that reports a failed rename as a success.
AppendFailAcks(h) ==
  /\ "io" \in Faults
  /\ pc[h] = "fclosed"
  /\ tmp' = Remove(tmp, cur[h].no)
  /\ acked' = Put(acked, cur[h].no, cur[h])
  /\ status' = [status EXCEPT ![h] = "OK"]
  /\ pc' = [pc EXCEPT ![h] = "idle"]
  /\ UNCHANGED <<files, tip, cur, fsync, outage>>

\* fwrite, fsync_file or rename fails: the temporary file is removed and the
\* error returned.
AppendFail(h) ==
  /\ "io" \in Faults
  /\ \/ pc[h] \in {"opened", "fclosed"}
     \/ pc[h] = "written" /\ NeedsFsync
  /\ tmp' = Remove(tmp, cur[h].no)
  /\ status' = [status EXCEPT ![h] = "IO"]
  /\ pc' = [pc EXCEPT ![h] = "idle"]
  /\ UNCHANGED <<files, tip, cur, acked, fsync, outage>>

\* A variant that forgets to move the remembered tip.
OldTip(h) == tip[h]

NewTip(h) == TipOf(cur[h])

AppendFinish(h) ==
  /\ pc[h] = "renamed"
  /\ tip' = [tip EXCEPT ![h] = NewTip(h)]
  /\ status' = [status EXCEPT ![h] = "OK"]
  /\ acked' = Put(acked, cur[h].no, cur[h])
  /\ pc' = [pc EXCEPT ![h] = "idle"]
  /\ UNCHANGED <<files, tmp, cur, fsync, outage>>

\* A variant of IterStatus whose loop runs one past the tip.
IterStatusPastTip(h, from) ==
  IF \A n \in (IF from = 0 THEN 1 ELSE from)..(tip[h].no + 1) : n \in DOMAIN files
  THEN "OK" ELSE "IO"

\* log_iter_segments visits from..tip_no and stops at the first read that
\* fails; log_read_segment fails when there is no such file.
IterStatus(h, from) ==
  IF \A n \in (IF from = 0 THEN 1 ELSE from)..tip[h].no : n \in DOMAIN files
  THEN "OK" ELSE "IO"

-----------------------------------------------------------------------------
\* The process dies: what was in its stream buffers never reaches the file.
Kill(h) ==
  /\ "kill" \in Faults
  /\ pc[h] # "closed"
  /\ pc' = [pc EXCEPT ![h] = "closed"]
  /\ tip' = [tip EXCEPT ![h] = NoTip]
  /\ cur' = [cur EXCEPT ![h] = NoSegment]
  /\ UNCHANGED <<files, tmp, status, acked, fsync, outage>>

\* The machine stops (external).  The directory is never fsynced, so the most
\* recent renames may be undone, in the order of the journal; a file whose data
\* was not fsynced may come back short.
PowerLoss ==
  /\ "power" \in Faults
  /\ \E kept \in 0..ScanTip :
       LET left == {n \in DOMAIN files : n <= kept}
       IN  \E short \in SUBSET {n \in left : ~files[n].synced} :
             files' = [n \in left |->
                         [seg |-> IF n \in short THEN Truncated(files[n].seg)
                                                 ELSE files[n].seg,
                          synced |-> TRUE]]
  /\ tmp' = <<>>
  /\ pc' = [h \in Handle |-> "closed"]
  /\ tip' = [h \in Handle |-> NoTip]
  /\ cur' = [h \in Handle |-> NoSegment]
  /\ status' = [h \in Handle |-> "OK"]
  /\ acked' = <<>>
  /\ outage' = TRUE
  /\ UNCHANGED fsync

Next ==
  \/ \E h \in Handle :
       \/ Open(h) \/ Close(h)
       \/ AppendRejected(h) \/ AppendOpenTmp(h) \/ AppendWrite(h)
       \/ AppendFsync(h) \/ AppendClose(h) \/ AppendRename(h) \/ AppendFinish(h)
       \/ AppendOpenFails(h) \/ AppendFail(h) \/ Kill(h)
  \/ PowerLoss

Spec == Init /\ [][Next]_vars

-----------------------------------------------------------------------------
\* Properties.

\* The published files as a chain; a hole shows as a segment numbered 0.
Published ==
  [n \in 1..ScanTip |-> IF n \in DOMAIN files THEN files[n].seg ELSE NoSegment]

\* store_log.c:539 "Atomic-ish publish": whatever fails and wherever the
\* process is killed, the directory is a hash chain 1, 2, 3, ... of whole
\* segments, so that what the next open finds can be verified and extended.
\* With fsync_on_commit this is so after a loss of power too.
DirectoryIsChain ==
  fsync \/ ~outage =>
    (\A n \in DOMAIN files : files[n].seg.whole) /\ Linked(Published)

\* Between calls, the tip a handle remembers (log_tip) is the tip of the
\* directory, after failed calls, kills and outages as well.
HandleTipFresh ==
  \A h \in Handle : pc[h] = "idle" => tip[h] = ChainTip(Published)

\* What append acknowledged since power was last lost is what a later read
\* returns.  (The directory is not fsynced, so that an outage may undo an
\* acknowledged rename even with fsync_on_commit.)
AckedKept ==
  \A n \in DOMAIN acked : n \in DOMAIN files /\ files[n].seg = acked[n]

\* log_iter_segments relies on contiguous numbers ("We enforce contiguous
\* segments on append"): from every start it reads to the remembered tip
\* without an error.
IterReadsEverySegment ==
  \A h \in Handle : pc[h] # "closed" =>
    \A from \in 0..MaxSeg : IterStatus(h, from) = "OK"

\* Append-only: no step changes or removes a published segment.
AppendOnly ==
  [][\A n \in DOMAIN files :
       n \in DOMAIN files' /\ files'[n].seg = files[n].seg]_files

\* The directory implements the abstract store, seen at each rename, until
\* power is lost.
Chain == INSTANCE HashChain WITH chain <- Published

ImplementsHashChain ==
  Chain!Init /\ [][outage' \/ Chain!AppendLinked]_Published
=============================================================================
