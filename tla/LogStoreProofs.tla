--------------------------- MODULE LogStoreProofs ---------------------------
(***************************************************************************)
(* Proofs about the log backend, for any batches and any bound on the      *)
(* numbers.  They come in two layers.                                      *)
(*                                                                         *)
(* GapFree needs nothing but the specification: with any number of handles *)
(* and every fault, the file numbers are 1..k and no handle is ahead of    *)
(* them.                                                                   *)
(*                                                                         *)
(* ChainInv is about contents, and needs the two things that the code      *)
(* leaves to its surroundings: that a handle is not open while another one *)
(* is (a handle never looks at the directory again after it was opened),   *)
(* and that the fclose whose result is ignored does not fail.  Without     *)
(* either, the directory need not be a chain.                              *)
(***************************************************************************)
EXTENDS LogStore, ChainTheorems

\* Most steps are first-order: Zenon is tried first, and then the SMT solver.
\* A step that needs numbers or sequences names the solver.
USE ZenonT(20), SMTT(30)

\* A call of log_append_segment is under way.
InCall(h) == pc[h] \in {"opened", "written", "synced", "fclosed", "renamed"}

\* What scan_tip finds in a directory with the numbers 1..k.
LEMMA HighestOfInterval ==
  ASSUME NEW k \in Nat
  PROVE  (IF 1..k = {} THEN 0
          ELSE CHOOSE n \in 1..k : \A m \in 1..k : m <= n) = k
<1>1. CASE k = 0
  BY <1>1
<1>2. CASE k # 0
  <2>1. k \in 1..k /\ \A m \in 1..k : m <= k
    BY <1>2
  <2>2. \A n \in 1..k : (\A m \in 1..k : m <= n) => n = k
    BY <2>1
  <2> QED
    BY <2>1, <2>2
<1> QED
  BY <1>1, <1>2

-----------------------------------------------------------------------------
\* Layer 1: the numbers have no gap, no handle remembers a tip beyond the
\* directory's, and an append under way is for the number after its handle's
\* tip, so that its rename either replaces a file or adds the next number.
GapFree ==
  /\ pc \in [Handle -> {"closed", "idle", "opened", "written", "synced",
                        "fclosed", "renamed"}]
  /\ tip = [h \in Handle |-> tip[h]]
  /\ cur = [h \in Handle |-> cur[h]]
  /\ ScanTip \in 0..MaxSeg
  /\ DOMAIN files = 1..ScanTip
  /\ \A h \in Handle :
       /\ tip[h].no \in 0..ScanTip
       /\ InCall(h) => cur[h].no = tip[h].no + 1 /\ cur[h].no \in 1..MaxSeg
       /\ pc[h] = "renamed" => cur[h].no \in 1..ScanTip

\* An empty directory has no gap.
LEMMA InitGapFree == Init => GapFree
<1> SUFFICES ASSUME Init PROVE GapFree
  OBVIOUS
<1>1. DOMAIN files = 1..0
  BY DEF Init
<1>2. ScanTip = 0
  BY <1>1, HighestOfInterval DEF ScanTip
<1> QED
  BY <1>1, <1>2, LogStoreAssumption DEF Init, GapFree, InCall, NoTip

\* vicarl_store_open_log remembers the highest number there is.
LEMMA LoadTipNo == GapFree => LoadTip.no = ScanTip
  BY LogStoreAssumption DEF GapFree, LoadTip, NoTip

\* Every step keeps GapFree; the two that change the directory are the rename
\* and the loss of power, which undoes a suffix of the renames.
LEMMA StepGapFree == GapFree /\ [Next]_vars => GapFree'
<1> SUFFICES ASSUME GapFree, [Next]_vars PROVE GapFree'
  OBVIOUS
<1> USE LogStoreAssumption
<1>0. ASSUME files' = files PROVE ScanTip' = ScanTip /\ DOMAIN files' = 1..ScanTip'
  <2>1. ScanTip' = ScanTip
    BY <1>0 DEF ScanTip
  <2> QED
    BY <1>0, <2>1 DEF GapFree
<1>1. CASE UNCHANGED vars
  <2>1. UNCHANGED <<files, pc, tip, cur>>
    BY <1>1 DEF vars
  <2> QED
    BY <1>0, <2>1 DEF GapFree, InCall
<1>2. ASSUME NEW h \in Handle, Open(h) PROVE GapFree'
  BY SMT, <1>0, <1>2, LoadTipNo DEF Open, GapFree, InCall
<1>3. ASSUME NEW h \in Handle, Close(h) PROVE GapFree'
  BY SMT, <1>0, <1>3 DEF Close, GapFree, InCall, NoTip
<1>4. ASSUME NEW h \in Handle, AppendRejected(h) \/ AppendOpenFails(h) PROVE GapFree'
  BY <1>0, <1>4 DEF AppendRejected, AppendOpenFails, GapFree, InCall
<1>5. ASSUME NEW h \in Handle, AppendOpenTmp(h) PROVE GapFree'
  <2>1. PICK seg \in Offer(h) : seg.no = Expected(h) /\ cur' = [cur EXCEPT ![h] = seg]
    BY <1>5 DEF AppendOpenTmp, Check, PeekSegmentNo
  <2>2. seg.no \in 1..MaxSeg
    BY <2>1 DEF Offer, SegmentEncode
  <2> QED
    BY <1>0, <1>5, <2>1, <2>2 DEF AppendOpenTmp, Expected, GapFree, InCall
<1>6. ASSUME NEW h \in Handle, AppendWrite(h) \/ AppendFsync(h) \/ AppendClose(h)
      PROVE GapFree'
  <2>1. UNCHANGED <<files, tip, cur>> /\ InCall(h)
    BY <1>6 DEF AppendWrite, AppendFsync, AppendClose, InCall
  <2>2. \/ pc' = [pc EXCEPT ![h] = "written"] \/ pc' = [pc EXCEPT ![h] = "synced"]
        \/ pc' = [pc EXCEPT ![h] = "fclosed"]
    BY <1>6 DEF AppendWrite, AppendFsync, AppendClose
  <2>3. PICK l \in {"written", "synced", "fclosed"} : pc' = [pc EXCEPT ![h] = l]
    BY <2>2
  <2>4. /\ pc' \in [Handle -> {"closed", "idle", "opened", "written", "synced",
                               "fclosed", "renamed"}]
        /\ pc'[h] = l /\ \A d \in Handle \ {h} : pc'[d] = pc[d]
    BY <2>3 DEF GapFree
  <2>5. ASSUME NEW d \in Handle
        PROVE  (InCall(d)' => InCall(d)) /\ (pc'[d] = "renamed" => pc[d] = "renamed")
    BY <2>1, <2>4 DEF InCall
  <2>6. ScanTip' = ScanTip
    BY <2>1 DEF ScanTip
  <2> QED
    BY <2>1, <2>4, <2>5, <2>6 DEF GapFree
<1>7. ASSUME NEW h \in Handle, AppendRename(h) PROVE GapFree'
  <2>1. /\ cur[h].no = tip[h].no + 1 /\ cur[h].no \in 1..MaxSeg
        /\ tip[h].no \in 0..ScanTip /\ ScanTip \in 0..MaxSeg
        /\ DOMAIN files = 1..ScanTip
    BY <1>7 DEF AppendRename, GapFree, InCall
  <2>2. DOMAIN files' = DOMAIN files \cup {cur[h].no}
    BY <1>7 DEF AppendRename, Put
  <2>3. PICK k \in 0..MaxSeg : DOMAIN files' = 1..k /\ ScanTip <= k /\ cur[h].no <= k
    <3>1. CASE cur[h].no <= ScanTip
      <4>1. DOMAIN files' = 1..ScanTip
        BY SMT, <2>1, <2>2, <3>1
      <4> QED
        BY <2>1, <3>1, <4>1
    <3>2. CASE ~(cur[h].no <= ScanTip)
      <4>0. ScanTip \in Nat /\ cur[h].no = ScanTip + 1
        BY <2>1, <3>2
      <4>1. DOMAIN files' = 1..(ScanTip + 1)
        BY <2>1, <2>2, <4>0
      <4> QED
        BY <2>1, <4>0, <4>1
    <3> QED
      BY <3>1, <3>2
  <2>4. ScanTip' = k
    BY <2>3, HighestOfInterval DEF ScanTip
  <2> QED
    BY SMT, <1>7, <2>1, <2>3, <2>4 DEF AppendRename, GapFree, InCall
<1>8. ASSUME NEW h \in Handle, AppendFinish(h) PROVE GapFree'
  <2>1. tip' = [tip EXCEPT ![h] = [no |-> cur[h].no, hash |-> Sha256(cur[h])]]
    BY <1>8 DEF AppendFinish, NewTip, TipOf
  <2>2. \A g \in Handle : tip'[g].no \in 0..ScanTip
    BY SMT, <1>8, <2>1 DEF AppendFinish, GapFree
  <2> QED
    BY <1>0, <1>8, <2>1, <2>2 DEF AppendFinish, GapFree, InCall
<1>9. ASSUME NEW h \in Handle, AppendFail(h) PROVE GapFree'
  BY <1>0, <1>9 DEF AppendFail, GapFree, InCall
<1>10. ASSUME NEW h \in Handle, Kill(h) PROVE GapFree'
  <2>1. /\ pc' = [pc EXCEPT ![h] = "closed"] /\ files' = files
        /\ tip' = [tip EXCEPT ![h] = [no |-> 0, hash |-> ZeroHash]]
        /\ cur' = [cur EXCEPT ![h] = NoSegment]
    BY <1>10 DEF Kill, NoTip
  <2>2. \A g \in Handle : tip'[g].no \in 0..ScanTip
    <3>1. \A g \in Handle : tip'[g].no = 0 \/ tip'[g] = tip[g]
      BY <2>1 DEF GapFree
    <3>2. 0 \in 0..ScanTip /\ \A g \in Handle : tip[g].no \in 0..ScanTip
      BY SMT DEF GapFree
    <3> QED
      BY <3>1, <3>2
  <2>3. \A g \in Handle \ {h} : pc'[g] = pc[g] /\ tip'[g] = tip[g] /\ cur'[g] = cur[g]
    BY <2>1 DEF GapFree
  <2>4. /\ pc'[h] = "closed"
        /\ pc' \in [Handle -> {"closed", "idle", "opened", "written", "synced",
                              "fclosed", "renamed"}]
        /\ tip' = [g \in Handle |-> tip'[g]] /\ cur' = [g \in Handle |-> cur'[g]]
    BY <2>1 DEF GapFree
  <2> QED
    BY <1>0, <2>1, <2>2, <2>3, <2>4 DEF GapFree, InCall
<1>11. CASE PowerLoss
  <2>1. PICK kept \in 0..ScanTip : DOMAIN files' = {n \in DOMAIN files : n <= kept}
    BY <1>11 DEF PowerLoss
  <2>2. kept \in 0..MaxSeg /\ kept \in Nat
    BY SMT, <2>1 DEF GapFree
  <2>3. DOMAIN files' = 1..kept
    BY SMT, <2>1, <2>2 DEF GapFree
  <2>4. ScanTip' = kept
    BY SMT, <2>2, <2>3, HighestOfInterval DEF ScanTip
  <2> QED
    BY SMT, <1>11, <2>2, <2>3, <2>4 DEF PowerLoss, GapFree, InCall, NoTip
<1> QED
  BY <1>1, <1>2, <1>3, <1>4, <1>5, <1>6, <1>7, <1>8, <1>9, <1>10, <1>11 DEF Next

\* GapFree is an invariant.
LEMMA GapFreeInvariant == Spec => []GapFree
<1> QED
  BY InitGapFree, StepGapFree, PTL DEF Spec

\* log_iter_segments reads from every start to the remembered tip without an
\* error: with any number of handles, after every fault of the model.
THEOREM IterationComplete == Spec => []IterReadsEverySegment
<1>1. GapFree => IterReadsEverySegment
  BY SMT, LogStoreAssumption DEF GapFree, IterReadsEverySegment, IterStatus
<1> QED
  BY GapFreeInvariant, <1>1, PTL

-----------------------------------------------------------------------------
\* Layer 2: one handle open at a time, and no failing fclose.

\* No two handles are open at the same time.
OneOpen == \A g, h \in Handle : pc[g] # "closed" /\ pc[h] # "closed" => g = h

\* The fclose at store_log.c:537, whose result is not looked at, does not fail.
FlushKept == "fclose" \notin Faults

\* How far the append of handle h has come.  Up to the rename its handle's tip
\* is the directory's; the temporary file is whole, and synced if it has to be,
\* before it gets its final name.
CallInv(h) ==
  /\ pc[h] \notin {"closed", "renamed"} => tip[h] = LoadTip
  /\ InCall(h) => /\ IsSegment(cur[h]) /\ cur[h].whole
                  /\ cur[h].prev = tip[h].hash
  /\ pc[h] = "synced" => fsync /\ tmp[cur[h].no] = [seg |-> cur[h], synced |-> TRUE]
  /\ pc[h] = "fclosed" => tmp[cur[h].no] = [seg |-> cur[h], synced |-> fsync]
  /\ pc[h] = "renamed" => cur[h].no = ScanTip /\ files[ScanTip].seg = cur[h]

\* With fsync_on_commit, or before the first loss of power, the files are linked
\* and whole.  The tips and the acknowledged segments are right in any case.
ChainInv ==
  /\ fsync \in BOOLEAN /\ outage \in BOOLEAN
  /\ \A n \in DOMAIN files : IsSegment(files[n].seg)
  /\ fsync => \A n \in DOMAIN files : files[n].synced
  /\ fsync \/ ~outage =>
       \A n \in DOMAIN files :
         /\ files[n].seg.whole /\ files[n].seg.no = n
         /\ files[n].seg.prev =
              IF n = 1 THEN ZeroHash ELSE Sha256(files[n - 1].seg)
  /\ AckedKept
  /\ \A h \in Handle : CallInv(h)

\* An empty directory satisfies it.
LEMMA InitChainInv == Init => ChainInv
<1> SUFFICES ASSUME Init PROVE ChainInv
  OBVIOUS
<1>1. DOMAIN files = {} /\ DOMAIN acked = {}
  BY DEF Init
<1> QED
  BY <1>1 DEF Init, ChainInv, CallInv, InCall, AckedKept

\* Every step keeps it while no second handle is open.
LEMMA StepChainInv ==
  ASSUME FlushKept
  PROVE  GapFree /\ ChainInv /\ OneOpen /\ [Next]_vars => ChainInv'
<1> SUFFICES ASSUME GapFree, ChainInv, OneOpen, [Next]_vars PROVE ChainInv'
  OBVIOUS
<1> USE LogStoreAssumption
<1>0. ASSUME files' = files PROVE ScanTip' = ScanTip /\ LoadTip' = LoadTip
  BY <1>0 DEF ScanTip, LoadTip
<1>a. ASSUME UNCHANGED <<files, fsync, outage, acked>>,
             \A g \in Handle : CallInv(g)'
      PROVE  ChainInv'
  BY <1>a DEF ChainInv, AckedKept
<1>b. ASSUME NEW g \in Handle, UNCHANGED <<files, fsync, tmp>>,
             pc'[g] = pc[g], tip'[g] = tip[g], cur'[g] = cur[g]
      PROVE  CallInv(g)'
  BY SMTT(30), <1>0, <1>b DEF ChainInv, CallInv, InCall
<1>c. ASSUME NEW h \in Handle, pc[h] # "closed", NEW g \in Handle, g # h
      PROVE  pc[g] = "closed"
  BY <1>c DEF OneOpen, GapFree
<1>e. \A h \in Handle : CallInv(h)
  BY DEF ChainInv
<1>d. ASSUME NEW g \in Handle, pc'[g] = "closed" PROVE CallInv(g)'
  BY <1>d DEF CallInv, InCall
<1>1. CASE UNCHANGED vars
  <2>1. UNCHANGED <<files, tmp, pc, tip, cur, fsync, acked, outage>>
    BY <1>1 DEF vars
  <2> QED
    BY <1>a, <1>b, <2>1
<1>2. ASSUME NEW h \in Handle, Open(h) PROVE ChainInv'
  <2>1. CallInv(h)'
    BY <1>0, <1>2 DEF Open, GapFree, CallInv, InCall
  <2>2. \A g \in Handle \ {h} : CallInv(g)'
    BY <1>2, <1>b DEF Open, GapFree
  <2> QED
    BY <1>2, <1>a, <2>1, <2>2 DEF Open
<1>3. ASSUME NEW h \in Handle, Close(h) PROVE ChainInv'
  <2>1. CallInv(h)'
    BY <1>d, <1>3 DEF Close, GapFree
  <2>2. \A g \in Handle \ {h} : CallInv(g)'
    BY <1>3, <1>b DEF Close, GapFree
  <2> QED
    BY <1>3, <1>a, <2>1, <2>2 DEF Close
<1>4. ASSUME NEW h \in Handle, AppendRejected(h) \/ AppendOpenFails(h) PROVE ChainInv'
  BY <1>4, <1>a, <1>b DEF AppendRejected, AppendOpenFails
<1>5. ASSUME NEW h \in Handle, AppendOpenTmp(h) PROVE ChainInv'
  <2>1. PICK seg \in Offer(h) : cur' = [cur EXCEPT ![h] = seg]
    BY <1>5 DEF AppendOpenTmp
  <2>2. IsSegment(seg) /\ seg.whole /\ seg.prev = tip[h].hash
    BY <2>1 DEF Offer, SegmentEncode, IsSegment
  <2>3. CallInv(h)'
    BY <1>0, <1>5, <2>1, <2>2 DEF AppendOpenTmp, GapFree, ChainInv, CallInv, InCall
  <2>4. \A g \in Handle \ {h} : CallInv(g)'
    BY <1>5, <1>c, <1>d DEF AppendOpenTmp, GapFree
  <2> QED
    BY <1>5, <1>a, <2>3, <2>4 DEF AppendOpenTmp
<1>6. ASSUME NEW h \in Handle, AppendWrite(h) \/ AppendFsync(h) \/ AppendClose(h)
      PROVE ChainInv'
  <2>1. UNCHANGED <<files, tip, cur, fsync, acked, outage>> /\ InCall(h)
    BY <1>6 DEF AppendWrite, AppendFsync, AppendClose, InCall
  <2>2. \A g \in Handle \ {h} : CallInv(g)'
    BY <1>6, <1>c, <1>d DEF AppendWrite, AppendFsync, AppendClose, GapFree
  <2>3. CASE AppendWrite(h)
    <3>1. CallInv(h)'
      BY ZenonT(60), <1>0, <1>e, <2>1, <2>3 DEF AppendWrite, GapFree, CallInv, InCall
    <3> QED
      BY <1>a, <2>1, <2>2, <3>1
  <2>4. CASE AppendFsync(h)
    <3>1. tmp'[cur[h].no] = [seg |-> cur[h], synced |-> TRUE]
      BY <2>4 DEF AppendFsync, Put
    <3>2. CallInv(h)'
      BY SMTT(30), <1>0, <1>e, <2>1, <2>4, <3>1 DEF AppendFsync, NeedsFsync, GapFree, CallInv, InCall
    <3> QED
      BY <1>a, <2>1, <2>2, <3>2
  <2>5. CASE AppendClose(h)
    <3>1. tmp'[cur[h].no] = [seg |-> cur[h], synced |-> fsync]
      <4>1. CASE pc[h] = "synced" /\ tmp' = tmp
        <5>1. fsync = TRUE
          BY <4>1, <1>e DEF ChainInv, CallInv
        <5> QED
          BY <4>1, <5>1, <1>e DEF CallInv
      <4>2. CASE /\ ~NeedsFsync
                 /\ \E seg \in FlushOutcomes(cur[h]) :
                      tmp' = Put(tmp, cur[h].no, [seg |-> seg, synced |-> FALSE])
        <5>1. fsync = FALSE
          BY <4>2 DEF NeedsFsync, ChainInv
        <5>2. tmp' = Put(tmp, cur[h].no, [seg |-> cur[h], synced |-> FALSE])
          BY <4>2 DEF FlushOutcomes, FlushKept
        <5> QED
          BY <5>1, <5>2 DEF Put
      <4> QED
        BY <2>5, <4>1, <4>2 DEF AppendClose
    <3>2. CallInv(h)'
      BY ZenonT(60), <1>0, <1>e, <2>1, <2>5, <3>1 DEF AppendClose, GapFree, CallInv, InCall
    <3> QED
      BY <1>a, <2>1, <2>2, <3>2
  <2> QED
    BY <1>6, <2>3, <2>4, <2>5
<1>7. ASSUME NEW h \in Handle, AppendRename(h) PROVE ChainInv'
  <2> DEFINE k == ScanTip
             seg == cur[h]
  <2>1. /\ k \in Nat /\ DOMAIN files = 1..k
        /\ seg.no = k + 1 /\ seg.prev = LoadTip.hash
        /\ IsSegment(seg) /\ seg.whole
        /\ tmp[seg.no] = [seg |-> seg, synced |-> fsync]
    <3>1. pc[h] = "fclosed" /\ CallInv(h)
      BY <1>7, <1>e DEF AppendRename
    <3>2. /\ tip[h] = LoadTip /\ IsSegment(seg) /\ seg.whole
          /\ seg.prev = tip[h].hash
          /\ tmp[seg.no] = [seg |-> seg, synced |-> fsync]
      BY <3>1 DEF CallInv, InCall
    <3>3. k \in Nat /\ DOMAIN files = 1..k /\ seg.no = tip[h].no + 1
      BY SMTT(30), <3>1 DEF GapFree, InCall
    <3> QED
      BY <3>2, <3>3, LoadTipNo
  <2>2. /\ files' = Put(files, seg.no, tmp[seg.no])
        /\ pc' = [pc EXCEPT ![h] = "renamed"]
        /\ UNCHANGED <<tip, cur, fsync, acked, outage>>
    BY <1>7 DEF AppendRename
  <2> HIDE DEF k, seg
  <2>3. DOMAIN files' = DOMAIN files \cup {k + 1}
    BY <2>1, <2>2 DEF Put
  <2>4. DOMAIN files' = 1..(k + 1)
    BY <2>1, <2>3
  <2>5. ScanTip' = k + 1
    <3>1. k + 1 \in Nat
      BY <2>1
    <3> QED
      BY SMTT(30), <2>4, <3>1, HighestOfInterval DEF ScanTip
  <2>6. /\ \A n \in 1..k : files'[n] = files[n]
        /\ files'[k + 1] = [seg |-> seg, synced |-> fsync]
    BY <2>1, <2>2 DEF Put
  <2>7. \A n \in DOMAIN files' : n \in 1..k \/ n = k + 1
    BY <2>1, <2>4
  <2>8. seg.prev = IF k = 0 THEN ZeroHash ELSE Sha256(files[k].seg)
    BY <2>1 DEF LoadTip, NoTip, k
  <2>9. \A n \in DOMAIN files' : IsSegment(files'[n].seg)
    BY SMTT(30), <2>1, <2>6, <2>7 DEF ChainInv
  <2>10. fsync' => \A n \in DOMAIN files' : files'[n].synced
    <3> SUFFICES ASSUME fsync', NEW n \in DOMAIN files' PROVE files'[n].synced
      OBVIOUS
    <3>1. fsync = TRUE
      BY <2>2 DEF ChainInv
    <3>2. CASE n \in 1..k
      BY <2>1, <2>6, <3>1, <3>2 DEF ChainInv
    <3>3. CASE n = k + 1
      BY <2>6, <3>1, <3>3
    <3> QED
      BY <2>7, <3>2, <3>3
  <2>11. ASSUME (fsync \/ ~outage)', NEW n \in DOMAIN files'
         PROVE  /\ files'[n].seg.whole /\ files'[n].seg.no = n
                /\ files'[n].seg.prev =
                     IF n = 1 THEN ZeroHash ELSE Sha256(files'[n - 1].seg)
    <3>1. CASE n \in 1..k
      <4>1. /\ files[n].seg.whole /\ files[n].seg.no = n
            /\ files[n].seg.prev =
                  IF n = 1 THEN ZeroHash ELSE Sha256(files[n - 1].seg)
        BY <2>1, <2>2, <2>11, <3>1 DEF ChainInv
      <4>2. files'[n] = files[n] /\ (n # 1 => files'[n - 1] = files[n - 1])
        BY SMTT(30), <2>1, <2>6, <3>1
      <4> QED
        BY <4>1, <4>2
    <3>2. CASE n = k + 1
      <4>1. n # 1 => files'[n - 1] = files[k] /\ k # 0
        BY SMTT(30), <2>1, <2>6, <3>2
      <4> QED
        BY SMTT(30), <2>1, <2>6, <2>8, <3>2, <4>1
    <3> QED
      BY <2>7, <3>1, <3>2
  <2>12. AckedKept'
    BY SMTT(30), <2>1, <2>2, <2>4, <2>6 DEF ChainInv, AckedKept
  <2>13. CallInv(h)'
    <3>1. pc'[h] = "renamed" /\ cur'[h] = seg /\ tip'[h] = tip[h]
      BY <2>2 DEF GapFree, seg
    <3>2. seg.prev = tip[h].hash
      BY <1>7, <1>e DEF AppendRename, CallInv, InCall, seg
    <3> QED
      BY SMTT(30), <2>1, <2>5, <2>6, <3>1, <3>2 DEF CallInv, InCall
  <2>14. \A g \in Handle \ {h} : CallInv(g)'
    BY <1>7, <1>c, <1>d DEF AppendRename, GapFree
  <2>15. fsync' \in BOOLEAN /\ outage' \in BOOLEAN
    BY <2>2 DEF ChainInv
  <2> QED
    BY <2>9, <2>10, <2>11, <2>12, <2>13, <2>14, <2>15 DEF ChainInv
<1>8. ASSUME NEW h \in Handle, AppendFinish(h) PROVE ChainInv'
  <2>1. /\ tip' = [tip EXCEPT ![h] = [no |-> cur[h].no, hash |-> Sha256(cur[h])]]
        /\ pc' = [pc EXCEPT ![h] = "idle"]
        /\ UNCHANGED <<files, cur, tmp, fsync, outage>>
    BY <1>8 DEF AppendFinish, NewTip, TipOf
  <2>2. cur[h].no = ScanTip /\ files[ScanTip].seg = cur[h] /\ ScanTip # 0
    <3>1. pc[h] = "renamed" /\ CallInv(h)
      BY <1>8, <1>e DEF AppendFinish
    <3>2. cur[h].no = ScanTip /\ files[ScanTip].seg = cur[h]
      BY <3>1 DEF CallInv
    <3> QED
      BY SMTT(30), <3>1, <3>2 DEF GapFree
  <2>3. tip'[h] = LoadTip'
    BY <1>0, <2>1, <2>2 DEF LoadTip, GapFree
  <2>4. CallInv(h)'
    BY <2>1, <2>3 DEF GapFree, CallInv, InCall
  <2>5. \A g \in Handle \ {h} : CallInv(g)'
    BY <2>1, <1>b DEF GapFree
  <2>6. AckedKept'
    <3>1. acked' = Put(acked, cur[h].no, cur[h])
      BY <1>8 DEF AppendFinish
    <3>2. DOMAIN acked' = DOMAIN acked \cup {cur[h].no}
      BY <3>1 DEF Put
    <3>3. \A n \in DOMAIN acked' : acked'[n] = IF n = cur[h].no THEN cur[h] ELSE acked[n]
      BY <3>1 DEF Put
    <3>4. cur[h].no \in DOMAIN files
      BY SMTT(30), <2>2 DEF GapFree
    <3> QED
      BY SMTT(30), <2>1, <2>2, <3>2, <3>3, <3>4 DEF AckedKept, ChainInv
  <2> QED
    BY <2>1, <2>4, <2>5, <2>6 DEF ChainInv
<1>9. ASSUME NEW h \in Handle, AppendFail(h) PROVE ChainInv'
  <2>1. /\ UNCHANGED <<files, tip, cur, fsync, acked, outage>>
        /\ pc' = [pc EXCEPT ![h] = "idle"]
        /\ pc[h] \in {"opened", "fclosed", "written"}
    BY <1>9 DEF AppendFail
  <2>2. CallInv(h)'
    BY ZenonT(60), <1>0, <2>1 DEF GapFree, ChainInv, CallInv, InCall
  <2>3. \A g \in Handle \ {h} : CallInv(g)'
    BY <2>1, <1>c, <1>d DEF GapFree
  <2> QED
    BY <1>a, <2>1, <2>2, <2>3
<1>10. ASSUME NEW h \in Handle, Kill(h) PROVE ChainInv'
  <2>1. CallInv(h)'
    BY <1>d, <1>10 DEF Kill, GapFree
  <2>2. \A g \in Handle \ {h} : CallInv(g)'
    BY <1>10, <1>b DEF Kill, GapFree
  <2> QED
    BY <1>10, <1>a, <2>1, <2>2 DEF Kill
<1>11. CASE PowerLoss
  <2>1. PICK kept \in 0..ScanTip, short \in SUBSET DOMAIN files :
          /\ \A n \in short : ~files[n].synced
          /\ files' = [n \in {m \in DOMAIN files : m <= kept} |->
                         [seg |-> IF n \in short THEN Truncated(files[n].seg)
                                                 ELSE files[n].seg,
                          synced |-> TRUE]]
    BY <1>11 DEF PowerLoss
  <2>2. /\ pc' = [h \in Handle |-> "closed"] /\ acked' = <<>>
        /\ outage' = TRUE /\ fsync' = fsync
    BY <1>11 DEF PowerLoss
  <2>3. \A n \in DOMAIN files' :
          /\ n \in DOMAIN files /\ files'[n].synced
          /\ files'[n].seg = IF n \in short THEN Truncated(files[n].seg) ELSE files[n].seg
    BY <2>1
  <2>4. \A n \in DOMAIN files' : IsSegment(files'[n].seg)
    BY SMT, <2>3, TruncatedFacts DEF ChainInv
  <2>5. ASSUME fsync, NEW n \in DOMAIN files'
        PROVE  /\ files'[n].seg.whole /\ files'[n].seg.no = n
               /\ files'[n].seg.prev =
                    IF n = 1 THEN ZeroHash ELSE Sha256(files'[n - 1].seg)
    <3>1. \A m \in DOMAIN files' : files'[m].seg = files[m].seg
      BY <2>1, <2>3, <2>5 DEF ChainInv
    <3>2. n # 1 => n - 1 \in DOMAIN files'
      BY SMT, <2>1, <2>3 DEF GapFree
    <3> QED
      BY SMTT(30), <2>3, <2>5, <3>1, <3>2 DEF ChainInv
  <2>6. \A h \in Handle : CallInv(h)'
    BY <2>2, <1>d
  <2>7. AckedKept'
    BY <2>2 DEF AckedKept
  <2>8. fsync' \in BOOLEAN /\ outage' \in BOOLEAN
    BY <2>2 DEF ChainInv
  <2> QED
    BY <2>2, <2>3, <2>4, <2>5, <2>6, <2>7, <2>8 DEF ChainInv
<1> QED
  BY <1>1, <1>2, <1>3, <1>4, <1>5, <1>6, <1>7, <1>8, <1>9, <1>10, <1>11 DEF Next

\* Both layers are invariant as long as no two handles are open at once.
LEMMA ChainInvInvariant ==
  ASSUME FlushKept
  PROVE  Spec /\ []OneOpen => [](GapFree /\ ChainInv)
<1>1. Init => GapFree /\ ChainInv
  BY InitGapFree, InitChainInv
<1>2. (GapFree /\ ChainInv) /\ OneOpen /\ [Next]_vars => (GapFree /\ ChainInv)'
  BY StepGapFree, StepChainInv
<1> QED
  BY <1>1, <1>2, PTL DEF Spec

\* The published segments as a sequence, whose tip is what an open would load.
LEMMA PublishedFacts ==
  ASSUME GapFree
  PROVE  /\ IsSequence(Published) /\ Len(Published) = ScanTip
         /\ Published = [n \in 1..ScanTip |-> files[n].seg]
         /\ ChainTip(Published) = LoadTip
<1>1. Published = [n \in 1..ScanTip |-> files[n].seg]
  BY DEF GapFree, Published
<1>2. ScanTip \in Nat
  BY SMT, LogStoreAssumption DEF GapFree
<1>3. IsSequence(Published) /\ Len(Published) = ScanTip
  BY SMT, <1>1, <1>2, FunctionIsSequence
<1>4. Published = <<>> <=> ScanTip = 0
  BY <1>1, <1>2, <1>3
<1> QED
  BY <1>1, <1>2, <1>3, <1>4 DEF ChainTip, LoadTip

\* The directory is a hash chain of whole segments whatever fails and wherever
\* the process is killed, and with fsync_on_commit after a loss of power as well.
THEOREM DirectorySafe ==
  ASSUME FlushKept
  PROVE  Spec /\ []OneOpen => []DirectoryIsChain
<1>1. GapFree /\ ChainInv => DirectoryIsChain
  <2> SUFFICES ASSUME GapFree, ChainInv, fsync \/ ~outage
               PROVE  (\A n \in DOMAIN files : files[n].seg.whole) /\ Linked(Published)
    BY DEF DirectoryIsChain
  <2>1. /\ Len(Published) = ScanTip
        /\ Published = [n \in 1..ScanTip |-> files[n].seg]
        /\ DOMAIN files = 1..ScanTip
    BY PublishedFacts DEF GapFree
  <2>2. \A n \in 1..ScanTip :
          /\ files[n].seg.whole /\ files[n].seg.no = n
          /\ files[n].seg.prev =
               IF n = 1 THEN ZeroHash ELSE Sha256(files[n - 1].seg)
    BY <2>1 DEF ChainInv
  <2>3. \A n \in 1..ScanTip : PrevOf(Published, n) =
               IF n = 1 THEN ZeroHash ELSE Sha256(files[n - 1].seg)
    BY SMT, <2>1, LogStoreAssumption DEF PrevOf, GapFree
  <2> QED
    BY SMT, <2>1, <2>2, <2>3 DEF Linked
<1> QED
  BY ChainInvInvariant, <1>1, PTL

\* What log_append_segment acknowledged is what a later read returns, until power
\* is lost.
THEOREM AcknowledgedKept ==
  ASSUME FlushKept
  PROVE  Spec /\ []OneOpen => []AckedKept
<1>1. GapFree /\ ChainInv => AckedKept
  BY DEF ChainInv
<1> QED
  BY ChainInvInvariant, <1>1, PTL

\* Between its calls a handle's remembered tip is the tip of the directory, after
\* failed appends too.
THEOREM RememberedTipFresh ==
  ASSUME FlushKept
  PROVE  Spec /\ []OneOpen => []HandleTipFresh
<1>1. GapFree /\ ChainInv => HandleTipFresh
  BY PublishedFacts DEF ChainInv, CallInv, HandleTipFresh
<1> QED
  BY ChainInvInvariant, <1>1, PTL

\* The directory implements the append-only hash chain, each rename being one
\* append, until power is lost.
THEOREM DirectoryRefinesChain ==
  ASSUME FlushKept
  PROVE  Spec /\ []OneOpen => ImplementsHashChain
<1>1. Init => Chain!Init
  <2> SUFFICES ASSUME Init PROVE Published = <<>>
    BY DEF Chain!Init
  <2>1. ScanTip = 0
    BY DEF Init, ScanTip
  <2> QED
    BY <2>1 DEF Published
<1>2. /\ GapFree /\ ChainInv /\ GapFree' /\ [Next]_vars
      => [outage' \/ Chain!AppendLinked]_Published
  <2> SUFFICES ASSUME GapFree, ChainInv, GapFree', [Next]_vars,
                      Published' # Published, ~outage'
               PROVE  Chain!AppendLinked
    OBVIOUS
  <2> DEFINE k == ScanTip
  <2>1. files' # files
    BY DEF Published, ScanTip
  <2>2. PICK h \in Handle : AppendRename(h)
    BY <2>1 DEF vars, Next, Open, Close, AppendRejected, AppendOpenTmp, AppendWrite,
           AppendFsync, AppendClose, AppendFinish, AppendOpenFails, AppendFail,
           Kill, PowerLoss
  <2>3. /\ k \in Nat /\ DOMAIN files = 1..k
        /\ cur[h].no = k + 1 /\ cur[h].prev = LoadTip.hash
        /\ tmp[cur[h].no] = [seg |-> cur[h], synced |-> fsync]
    <3>1. pc[h] = "fclosed" /\ CallInv(h)
      BY <2>2 DEF AppendRename, ChainInv
    <3>2. /\ tip[h] = LoadTip /\ cur[h].prev = tip[h].hash
          /\ tmp[cur[h].no] = [seg |-> cur[h], synced |-> fsync]
      BY <3>1 DEF CallInv, InCall
    <3>3. k \in Nat /\ DOMAIN files = 1..k /\ cur[h].no = tip[h].no + 1
      BY SMT, <3>1, LogStoreAssumption DEF GapFree, InCall
    <3> QED
      BY <3>2, <3>3, LoadTipNo
  <2>4. files' = Put(files, k + 1, tmp[k + 1])
    BY <2>2, <2>3 DEF AppendRename
  <2> HIDE DEF k
  <2>5. DOMAIN files' = DOMAIN files \cup {k + 1}
    BY <2>4 DEF Put
  <2>6. DOMAIN files' = 1..(k + 1)
    BY <2>3, <2>5
  <2>7. ScanTip' = k + 1
    BY SMTT(30), <2>3, <2>6, HighestOfInterval DEF ScanTip
  <2>8. /\ \A n \in 1..k : files'[n] = files[n]
        /\ files'[k + 1].seg = cur[h]
    <3>1. \A n \in 1..k : n \in DOMAIN files /\ n # k + 1
      BY <2>3
    <3>2. \A n \in 1..k : files'[n] = files[n]
      BY <2>4, <3>1 DEF Put
    <3>3. files'[k + 1] = tmp[k + 1]
      BY <2>4 DEF Put
    <3>4. tmp[k + 1].seg = cur[h]
      BY <2>3
    <3> QED
      BY <3>2, <3>3, <3>4
  <2>9. Published = [n \in 1..k |-> files[n].seg] /\ Len(Published) = k
    BY PublishedFacts DEF k
  <2>10. Published' = [n \in 1..(k + 1) |-> files'[n].seg]
    BY <2>6, <2>7 DEF Published
  <2>11. Len(Published') = k + 1
    BY <2>3, <2>10, FunctionIsSequence
  <2>12. Chain!Extend
    BY SMT, <2>3, <2>8, <2>9, <2>10, <2>11 DEF Chain!Extend
  <2>13. Chain!ChainTip(Published).hash = LoadTip.hash
    <3>1. Chain!ChainTip(Published) = ChainTip(Published)
      BY DEF ChainTip, NoTip, Sha256, ZeroHash,
             Chain!ChainTip, Chain!NoTip, Chain!Sha256, Chain!ZeroHash
    <3> QED
      BY <3>1, PublishedFacts
  <2> QED
    BY SMT, <2>3, <2>8, <2>10, <2>11, <2>12, <2>13
    DEF Chain!AppendLinked, Chain!AppendNumbered
<1> QED
  BY GapFreeInvariant, ChainInvInvariant, <1>1, <1>2, PTL DEF Spec, ImplementsHashChain
=============================================================================
