---------------------------- MODULE LedgerProofs ----------------------------
(***************************************************************************)
(* Proofs about the ledger (ledger/ledger.c), for any records, policies    *)
(* and targets, over both backends, with failing stores, other users of    *)
(* the store, damage and reopening.                                        *)
(*                                                                         *)
(* Three things are needed beyond the properties themselves. The records   *)
(* of the flushed segments, one after the other, are the value of a        *)
(* recursive function of the library; the first lemmas show what appending *)
(* a segment does to it. IInv says that each segment verifies alone, that  *)
(* the buffer obeys the policy, and where the tip of the handle is. And    *)
(* the chain is linked as long as what the handle links to can be trusted  *)
(* (Trusted): the log backend reads the last file again when it is opened, *)
(* the SQLite backend its hash column.                                     *)
(***************************************************************************)
EXTENDS Ledger, ChainTheorems

\* Most steps are first-order: Zenon is tried first, and then the SMT solver.
\* A step that needs numbers or sequences names the solver.
USE ZenonT(20), SMTT(30)

\* The byte count of an empty buffer.
LEMMA NoBytes == BufBytes(<<>>) = 0
<1> DEFINE Def(f) == f = [s \in SUBSET {} |->
                            IF s = {} THEN 0
                            ELSE LET x == Max(s)
                                 IN  f[s \ {x}] + RecordLen[<<>>[x]]]
<1>1. DOMAIN <<>> = {}
  BY SMTT(30)
<1>2. BufBytes(<<>>) = (CHOOSE f : Def(f))[{}]
  BY <1>1 DEF BufBytes, FoldLeft, MapThenFoldSet
<1>3. Def([s \in SUBSET {} |-> 0])
  OBVIOUS
<1>4. Def(CHOOSE f : Def(f))
  BY <1>3
<1> QED
  BY <1>2, <1>4

\* FlattenSeq, unfolded.
Flatten(s, n, f) ==
  f = [i \in 1..n |-> IF i = 1 THEN s[i] ELSE f[i - 1] \o s[i]]

\* The function by which the library defines FlattenSeq exists.
LEMMA FlattenExists ==
  ASSUME NEW s, NEW n \in Nat
  PROVE  \E f : Flatten(s, n, f)
<1> DEFINE T == {k \in Nat : \E f : Flatten(s, k, f)}
<1>1. 0 \in T
  <2>1. Flatten(s, 0, <<>>)
    BY SMT DEF Flatten
  <2> QED
    BY <2>1
<1>2. ASSUME NEW k \in T PROVE k + 1 \in T
  <2>1. PICK f : Flatten(s, k, f)
    OBVIOUS
  <2> DEFINE g == [i \in 1..(k + 1) |->
                     IF i = 1 THEN s[i] ELSE f[i - 1] \o s[i]]
  <2>0. \A i \in 1..k : f[i] = IF i = 1 THEN s[i] ELSE f[i - 1] \o s[i]
    BY <2>1 DEF Flatten
  <2>2. \A i \in 1..k : g[i] = f[i]
    BY SMTT(30), <2>0
  <2>3. \A i \in 1..(k + 1) : i # 1 => i - 1 \in 1..k
    BY SMT
  <2>4. Flatten(s, k + 1, g)
    BY <2>2, <2>3 DEF Flatten
  <2> QED
    BY SMTT(30), <2>4
<1>3. T = Nat
  BY <1>1, <1>2, SetInduction
<1> QED
  BY <1>3

\* Its values are sequences over the same set as the parts.
LEMMA FlattenTyped ==
  ASSUME NEW R, NEW s, NEW n \in Nat, \A i \in 1..n : s[i] \in Seq(R),
         NEW f, Flatten(s, n, f)
  PROVE  \A i \in 1..n : f[i] \in Seq(R)
<1> DEFINE T == {k \in Nat : k + 1 <= n => f[k + 1] \in Seq(R)}
<1>0. \A i \in 1..n : f[i] = IF i = 1 THEN s[i] ELSE f[i - 1] \o s[i]
  BY DEF Flatten
<1>1. 0 \in T
  BY SMT, <1>0
<1>2. ASSUME NEW k \in T PROVE k + 1 \in T
  <2> SUFFICES ASSUME k + 2 <= n PROVE f[k + 2] \in Seq(R)
    BY SMT
  <2>0. k + 2 \in 1..n /\ k + 2 # 1 /\ (k + 2) - 1 = k + 1
    BY SMT
  <2>1. f[k + 2] = f[k + 1] \o s[k + 2]
    BY <1>0, <2>0
  <2>2. f[k + 1] \in Seq(R) /\ s[k + 2] \in Seq(R)
    BY SMTT(30)
  <2> QED
    BY <2>1, <2>2, ConcatProperties
<1>3. T = Nat
  BY <1>1, <1>2, SetInduction
<1>4. ASSUME NEW i \in 1..n PROVE f[i] \in Seq(R)
  <2>1. i - 1 \in Nat /\ (i - 1) + 1 = i /\ i <= n
    BY SMTT(30)
  <2>2. i - 1 \in T
    BY <1>3, <2>1
  <2> QED
    BY <2>1, <2>2
<1> QED
  BY <1>4

\* Two unfoldings of sequences that agree up to n agree up to n.
LEMMA FlattenAgree ==
  ASSUME NEW s, NEW t, NEW m \in Nat, NEW n \in Nat, m <= n,
         \A i \in 1..m : s[i] = t[i],
         NEW f, Flatten(s, m, f), NEW g, Flatten(t, n, g)
  PROVE  \A i \in 1..m : f[i] = g[i]
<1> DEFINE T == {k \in Nat : k + 1 <= m => f[k + 1] = g[k + 1]}
<1>0. /\ \A i \in 1..m : f[i] = IF i = 1 THEN s[i] ELSE f[i - 1] \o s[i]
      /\ \A i \in 1..n : g[i] = IF i = 1 THEN t[i] ELSE g[i - 1] \o t[i]
  BY DEF Flatten
<1>1. 0 \in T
  BY SMTT(30), <1>0
<1>2. ASSUME NEW k \in T PROVE k + 1 \in T
  <2> SUFFICES ASSUME k + 2 <= m PROVE f[k + 2] = g[k + 2]
    BY SMTT(30)
  <2>0. /\ k + 2 \in 1..m /\ k + 2 \in 1..n
        /\ k + 2 # 1 /\ (k + 2) - 1 = k + 1
    BY SMT
  <2>1. f[k + 2] = f[k + 1] \o s[k + 2] /\ g[k + 2] = g[k + 1] \o t[k + 2]
    BY <1>0, <2>0
  <2>2. f[k + 1] = g[k + 1] /\ s[k + 2] = t[k + 2]
    BY SMTT(30)
  <2> QED
    BY <2>1, <2>2
<1>3. T = Nat
  BY <1>1, <1>2, SetInduction
<1>4. ASSUME NEW i \in 1..m PROVE f[i] = g[i]
  <2>1. i - 1 \in Nat /\ (i - 1) + 1 = i /\ i <= m
    BY SMTT(30)
  <2>2. i - 1 \in T
    BY <1>3, <2>1
  <2> QED
    BY <2>1, <2>2
<1> QED
  BY <1>4

\* FlattenSeq is the last value of that function.
LEMMA FlattenUnfold ==
  ASSUME NEW s, IsSequence(s), Len(s) # 0
  PROVE  \E f : Flatten(s, Len(s), f) /\ FlattenSeq(s) = f[Len(s)]
<1> DEFINE F == CHOOSE f : f = [i \in 1..Len(s) |->
                                  IF i = 1 THEN s[i] ELSE f[i - 1] \o s[i]]
<1>1. Len(s) \in Nat
  BY SequenceFacts
<1>2. FlattenSeq(s) = F[Len(s)]
  BY DEF FlattenSeq
<1>3. Flatten(s, Len(s), F)
  BY <1>1, FlattenExists DEF Flatten
<1> QED
  BY <1>2, <1>3

\* The records of a sequence of batches are records.
LEMMA FlattenSeqTyped ==
  ASSUME NEW R, NEW s, IsSequence(s), \A i \in 1..Len(s) : s[i] \in Seq(R)
  PROVE  FlattenSeq(s) \in Seq(R)
<1>1. Len(s) \in Nat
  BY SequenceFacts
<1>2. CASE Len(s) = 0
  <2>1. s = <<>>
    BY SMTT(30), <1>2 DEF IsSequence
  <2> QED
    BY SMT, <1>2, <2>1 DEF FlattenSeq
<1>3. CASE Len(s) # 0
  <2>1. PICK f : Flatten(s, Len(s), f) /\ FlattenSeq(s) = f[Len(s)]
    BY <1>3, FlattenUnfold
  <2> QED
    BY SMTT(30), <1>1, <1>3, <2>1, FlattenTyped
<1> QED
  BY <1>2, <1>3

\* One more batch adds its records at the end: what a flush does to the list of
\* flushed records.
LEMMA FlattenSeqAppend ==
  ASSUME NEW R, NEW s, IsSequence(s), \A i \in 1..Len(s) : s[i] \in Seq(R),
         NEW t, IsSequence(t), Len(t) = Len(s) + 1, t[Len(t)] \in Seq(R),
         \A i \in 1..Len(s) : t[i] = s[i]
  PROVE  FlattenSeq(t) = FlattenSeq(s) \o t[Len(t)]
<1> DEFINE n == Len(s)
           x == t[Len(t)]
<1>1. n \in Nat
  BY SequenceFacts
<1>2. PICK g : Flatten(t, n + 1, g) /\ FlattenSeq(t) = g[n + 1]
  BY SMTT(30), <1>1, FlattenUnfold
<1> HIDE DEF n, x
<1>3. g[n + 1] = IF n = 0 THEN x ELSE g[n] \o x
  <2>1. \A i \in 1..(n + 1) : g[i] = IF i = 1 THEN t[i] ELSE g[i - 1] \o t[i]
    BY <1>2 DEF Flatten
  <2>2. n + 1 \in 1..(n + 1) /\ (n + 1) - 1 = n /\ t[n + 1] = x
    BY SMTT(30), <1>1 DEF n, x
  <2> QED
    BY SMTT(30), <1>1, <2>1, <2>2
<1>4. CASE n = 0
  <2>1. s = <<>>
    BY SMTT(30), <1>4 DEF IsSequence, n
  <2>2. FlattenSeq(s) = <<>>
    BY <1>4, <2>1 DEF FlattenSeq, n
  <2>3. <<>> \o x = x
    BY ConcatEmptySeq DEF x
  <2> QED
    BY <1>2, <1>3, <1>4, <2>2, <2>3 DEF x
<1>5. CASE n # 0
  <2>1. PICK f : Flatten(s, n, f) /\ FlattenSeq(s) = f[n]
    BY <1>5, FlattenUnfold DEF n
  <2>2. \A i \in 1..n : f[i] = g[i]
    <3>1. PICK k \in Nat : k = n + 1
      BY SMT, <1>1
    <3>2. n <= k /\ (\A i \in 1..n : s[i] = t[i]) /\ Flatten(t, k, g)
      BY SMTT(30), <1>1, <1>2, <3>1 DEF n
    <3> QED
      BY SMTT(30), <1>1, <2>1, <3>2, FlattenAgree
  <2>3. n \in 1..n
    BY SMT, <1>1, <1>5
  <2> QED
    BY <1>2, <1>3, <1>5, <2>1, <2>2, <2>3 DEF x
<1> QED
  BY <1>4, <1>5

-----------------------------------------------------------------------------
\* What the ledger encodes, and what others append, is a segment without a
\* signature.
LEMMA EncodedUnsigned ==
  ASSUME NEW no, NEW prev, NEW recs, NEW root, NEW seg,
         seg = SegmentEncode(no, prev, recs, root, FALSE)
  PROVE  IsSegment(seg) /\ seg.no = no /\ seg.prev = prev /\ seg.recs = recs
<1>1. PICK v \in BOOLEAN : v = FALSE /\ seg = SegmentEncode(no, prev, recs, root, v)
  BY Zenon
<1> QED
  BY SMT, <1>1 DEF SegmentEncode, IsSegment

-----------------------------------------------------------------------------
\* A buffer as append_record leaves it: every record passed the policy.
Policed(b) == b \in Seq(Record) /\ \A i \in 1..Len(b) : Policy(b[i])

\* What a caller of the ledger sees.
CallInv ==
  /\ opt \in Options
  /\ opened \in BOOLEAN
  /\ status \in {"OK", "IO", "CRYPTO", "FORMAT", "UNSUPPORTED"}
  /\ Policed(buf)
  /\ ~opened => buf = <<>>

\* A segment that was appended as number i: it verifies alone.
Stored(seg, i) ==
  /\ IsSegment(seg)
  /\ seg.no = i
  /\ seg.recs \in Seq(Record)
  /\ SegmentVerify(seg) = "OK"

\* What is in the store, and what was written to it. Damage changes the bytes
\* of a segment, not how many segments there are.
StoreInv ==
  /\ IsSequence(written) /\ IsSequence(store)
  /\ Len(store) = Len(written)
  /\ own \subseteq 1..Len(written)
  /\ \A i \in 1..Len(written) :
       /\ Stored(written[i], i)
       /\ IsSegment(store[i])
       /\ store[i].prev = written[i].prev
  /\ opt.signed => \A i \in own : ~UnsignedIn(written[i])

\* The tip of the handle is never ahead of the store; only another process
\* using the same SQLite file can leave it behind.
TipInv ==
  /\ tip.no \in 0..Len(written)
  /\ opened /\ opt.kind = "LOG" => tip.no = Len(written)

\* What the handle links to is what was written: nothing is damaged, or the
\* backend has a hash column.
Trusted == store = written \/ opt.kind = "SQLITE"

\* As long as that is so, what was written is a linked chain and the tip of the
\* handle is one of its segments.
LinkInv ==
  Trusted => /\ Linked(written)
             /\ opened => tip.hash = PrevOf(written, tip.no + 1)

\* The inductive invariant.
IInv ==
  /\ CallInv /\ StoreInv /\ TipInv /\ LinkInv
  /\ AcceptedOnce
  /\ FullOnlyWhileFailing

\* The flushed records are a sequence of records.
LEMMA FlushedTyped ==
  ASSUME StoreInv
  PROVE  FlushedRecords \in Seq(Record)
<1> DEFINE S == [i \in 1..Len(written) |->
                   IF i \in own THEN written[i].recs ELSE <<>>]
<1>1. Len(written) \in Nat /\ S = [i \in 1..Len(written) |-> S[i]]
  BY SequenceFacts DEF StoreInv
<1>2. \A i \in 1..Len(written) : S[i] \in Seq(Record)
  BY SMTT(30) DEF StoreInv, Stored
<1> HIDE DEF S
<1>3. IsSequence(S) /\ Len(S) = Len(written)
  BY <1>1, FunctionIsSequence
<1>4. FlattenSeq(S) \in Seq(Record)
  BY <1>2, <1>3, FlattenSeqTyped
<1> QED
  BY <1>4 DEF S, FlushedRecords

\* A segment is appended to the store.
Grows(seg) ==
  /\ store' = Append(store, seg)
  /\ written' = Append(written, seg)
  /\ UNCHANGED <<opt, opened>>

\* What that does to the two sequences.
LEMMA GrowFacts ==
  ASSUME StoreInv, NEW seg, Grows(seg)
  PROVE  /\ Len(written) \in Nat
         /\ IsSequence(written') /\ IsSequence(store')
         /\ Len(written') = Len(written) + 1
         /\ Len(store') = Len(written) + 1
         /\ \A i \in 1..Len(written) : /\ written'[i] = written[i]
                                       /\ store'[i] = store[i]
         /\ written'[Len(written) + 1] = seg
         /\ store'[Len(written) + 1] = seg
BY SMTT(30), SequenceFacts, AppendFacts DEF StoreInv, Grows

\* A segment of the ledger adds its records to the flushed ones; one of
\* somebody else adds nothing.
LEMMA FlushedGrows ==
  ASSUME StoreInv, NEW seg, Grows(seg), Stored(seg, Len(written) + 1)
  PROVE  /\ own' = own => FlushedRecords' = FlushedRecords
         /\ own' = own \cup {Len(written) + 1} =>
              FlushedRecords' = FlushedRecords \o seg.recs
<1> DEFINE n == Len(written)
           S == [i \in 1..Len(written) |->
                   IF i \in own THEN written[i].recs ELSE <<>>]
           T == [i \in 1..Len(written') |->
                   IF i \in own' THEN written'[i].recs ELSE <<>>]
           x == T[n + 1]
<1>1. /\ n \in Nat /\ Len(written') = n + 1
      /\ S = [i \in 1..n |-> S[i]] /\ T = [i \in 1..(n + 1) |-> T[i]]
  BY GrowFacts
<1>2. \A i \in 1..n : S[i] \in Seq(Record)
  BY SMT DEF StoreInv, Stored
<1>3. n + 1 \notin own
  BY SMTT(30), <1>1 DEF StoreInv
<1> SUFFICES ASSUME own' = own \/ own' = own \cup {n + 1}
             PROVE  /\ own' = own => FlushedRecords' = FlushedRecords
                    /\ own' = own \cup {n + 1} =>
                         FlushedRecords' = FlushedRecords \o seg.recs
  OBVIOUS
<1>4. \A i \in 1..n : T[i] = S[i]
  BY SMTT(30), <1>1, <1>3, GrowFacts
<1>5. /\ own' = own => x = <<>>
      /\ own' = own \cup {n + 1} => x = seg.recs
  BY SMTT(30), <1>1, <1>3, GrowFacts
<1>7. FlushedRecords = FlattenSeq(S) /\ FlushedRecords' = FlattenSeq(T)
  BY DEF FlushedRecords
<1> HIDE DEF n, S, T, x
<1>6. x \in Seq(Record)
  <2>1. seg.recs \in Seq(Record) /\ <<>> \in Seq(Record)
    BY SMTT(30) DEF Stored
  <2> QED
    BY <1>5, <2>1
<1>8. IsSequence(S) /\ Len(S) = n /\ IsSequence(T) /\ Len(T) = n + 1
  <2>1. PICK k \in Nat : k = n + 1
    BY SMT, <1>1
  <2> QED
    BY <1>1, <2>1, FunctionIsSequence
<1>9. FlattenSeq(T) = FlattenSeq(S) \o x
  <2>1. T[Len(T)] = x
    BY <1>8 DEF x
  <2> QED
    BY <1>2, <1>4, <1>6, <1>8, <2>1, FlattenSeqAppend
<1>10. FlattenSeq(S) \o <<>> = FlattenSeq(S)
  BY <1>2, <1>8, FlattenSeqTyped, ConcatEmptySeq
<1> QED
  BY <1>5, <1>7, <1>9, <1>10 DEF n

\* An appended segment that verifies keeps StoreInv.
LEMMA GrowStore ==
  ASSUME StoreInv, NEW seg, Grows(seg), Stored(seg, Len(written) + 1),
         \/ own' = own
         \/ /\ own' = own \cup {Len(written) + 1}
            /\ opt.signed => ~UnsignedIn(seg)
  PROVE  StoreInv'
<1> DEFINE n == Len(written)
<1>1. /\ n \in Nat
      /\ IsSequence(written') /\ IsSequence(store')
      /\ Len(written') = n + 1 /\ Len(store') = n + 1
      /\ \A i \in 1..n : written'[i] = written[i] /\ store'[i] = store[i]
      /\ written'[n + 1] = seg /\ store'[n + 1] = seg
  BY GrowFacts
<1>2. own' \subseteq 1..(n + 1)
  <2>1. own \subseteq 1..n /\ 1..n \subseteq 1..(n + 1) /\ n + 1 \in 1..(n + 1)
    BY SMT, <1>1 DEF StoreInv
  <2> QED
    BY <2>1
<1>3. ASSUME NEW i \in 1..(n + 1)
      PROVE  /\ Stored(written'[i], i)
             /\ IsSegment(store'[i])
             /\ store'[i].prev = written'[i].prev
  <2>1. CASE i = n + 1
    BY <1>1, <2>1 DEF Stored
  <2>2. CASE i \in 1..n
    BY <1>1, <2>2 DEF StoreInv
  <2> QED
    BY SMTT(30), <1>1, <2>1, <2>2
<1>4. ASSUME opt'.signed, NEW i \in own' PROVE ~UnsignedIn(written'[i])
  <2>1. opt.signed
    BY <1>4 DEF Grows
  <2>2. CASE i = n + 1
    <3>1. n + 1 \notin own
      BY SMTT(30), <1>1 DEF StoreInv
    <3> QED
      BY <1>1, <1>4, <2>1, <2>2, <3>1
  <2>3. CASE i \in own
    BY <1>1, <2>1, <2>3 DEF StoreInv
  <2> QED
    BY <1>4, <2>2, <2>3
<1> HIDE DEF n
<1> QED
  BY <1>1, <1>2, <1>3, <1>4 DEF StoreInv, Stored, UnsignedIn

\* A segment that is linked to the tip keeps LinkInv.
LEMMA GrowLinks ==
  ASSUME StoreInv, TipInv, LinkInv, NEW seg, Grows(seg),
         seg.no = Len(written) + 1,
         Trusted => seg.prev = ChainTip(written).hash,
         tip' = tip \/ tip' = TipOf(seg)
  PROVE  LinkInv'
<1> DEFINE n == Len(written)
<1>1. /\ n \in Nat
      /\ IsSequence(written) /\ IsSequence(store) /\ Len(store) = n
      /\ IsSequence(written') /\ IsSequence(store')
      /\ Len(written') = n + 1 /\ Len(store') = n + 1
      /\ \A i \in 1..n : written'[i] = written[i] /\ store'[i] = store[i]
      /\ written'[n + 1] = seg
  BY GrowFacts DEF StoreInv
<1>2. Trusted' => Trusted
  <2>1. ASSUME store' = written' PROVE store = written
    BY <1>1, <2>1, SequencesEqual
  <2> QED
    BY <2>1 DEF Trusted, Grows
<1> SUFFICES ASSUME Trusted'
             PROVE  /\ Linked(written')
                    /\ opened' => tip'.hash = PrevOf(written', tip'.no + 1)
  BY DEF LinkInv
<1>3. Trusted /\ Linked(written) /\ seg.prev = ChainTip(written).hash
  BY <1>2 DEF LinkInv
<1>4. Continues(written', written)
  BY <1>1, <1>3, AppendContinues DEF Grows
<1>5. ASSUME opened', tip' = tip PROVE tip'.hash = PrevOf(written', tip'.no + 1)
  <2>1. tip.no + 1 \in 1..(Len(written) + 1)
    BY SMTT(30), <1>1 DEF TipInv
  <2>2. tip.hash = PrevOf(written, tip.no + 1)
    BY <1>3, <1>5 DEF LinkInv, Grows
  <2> QED
    BY <1>4, <1>5, <2>1, <2>2 DEF Continues
<1>6. ASSUME tip' = TipOf(seg) PROVE tip'.hash = PrevOf(written', tip'.no + 1)
  BY SMTT(30), <1>1, <1>6 DEF TipOf, PrevOf
<1> QED
  BY <1>4, <1>5, <1>6 DEF Continues

-----------------------------------------------------------------------------
\* The two outcomes of a flush.
LEMMA FlushOkStep ==
  ASSUME IInv, opened, NEW b, Policed(b), FlushOk(b),
         accepted' = FlushedRecords \o b, UNCHANGED <<opt, opened>>
  PROVE  IInv'
<1> DEFINE seg == NewSegment(b)
           root == IF opt.merkle THEN MerkleRoot(b) ELSE ZeroHash
           n == Len(written)
<1>1. seg = SegmentEncode(tip.no + 1, tip.hash, b, root, FALSE)
  BY DEF NewSegment
<1>2. /\ StoreAccepts(seg, Indexing) /\ Grows(seg) /\ tip' = TipOf(seg)
      /\ buf' = <<>> /\ own' = own \cup {tip.no + 1} /\ status' = "OK"
      /\ opt' = opt /\ opened' = opened
  BY DEF FlushOk, AppendToStore, Grows, ClearBuffer
<1>3. root = ZeroHash \/ root = MerkleRoot(b)
  OBVIOUS
<1>4. \A i \in 1..Len(b) : /\ RecordDecodes(b[i])
                           /\ opt.signed => RecordHasSignature(b[i])
  BY DEF Policed, Policy
<1> HIDE DEF seg, root
<1>5. IsSegment(seg) /\ seg.no = tip.no + 1 /\ seg.prev = tip.hash /\ seg.recs = b
  BY <1>1 DEF SegmentEncode, IsSegment
<1>6. SegmentVerify(seg) = "OK"
  BY <1>1, <1>3, <1>4, EncodedVerifies
<1>7. seg.no = n + 1 /\ n \in Nat /\ tip.no = n
  <2>1. seg.no = n + 1
    BY <1>2 DEF StoreAccepts
  <2>2. n \in Nat /\ tip.no \in Nat
    BY SMTT(30), SequenceFacts DEF IInv, StoreInv, TipInv
  <2> QED
    BY SMTT(30), <1>5, <2>1, <2>2
<1>8. Stored(seg, n + 1)
  BY <1>5, <1>6, <1>7 DEF Stored, Policed
<1>9. opt.signed => ~UnsignedIn(seg)
  BY <1>4, <1>5 DEF UnsignedIn
<1>10. own' = own \cup {n + 1}
  BY <1>2, <1>7
<1>11. StoreInv /\ TipInv /\ LinkInv /\ CallInv
  BY DEF IInv
<1>12. StoreInv'
  BY <1>2, <1>8, <1>9, <1>10, <1>11, GrowStore
<1>13. Trusted => seg.prev = ChainTip(written).hash
  <2>1. ChainTip(written).hash = PrevOf(written, n + 1)
    BY <1>11, ChainTipFacts DEF StoreInv
  <2> QED
    BY <1>5, <1>7, <1>11, <2>1 DEF LinkInv
<1>14. LinkInv'
  BY <1>2, <1>7, <1>11, <1>13, GrowLinks
<1>15. TipInv'
  <2>1. Len(written') = n + 1
    BY <1>2, <1>11, GrowFacts
  <2>2. tip'.no = n + 1
    BY <1>2, <1>7 DEF TipOf
  <2> QED
    BY SMTT(30), <1>7, <2>1, <2>2 DEF TipInv
<1>16. CallInv'
  BY SMTT(30), <1>2, <1>11 DEF CallInv, Policed
<1>17. AcceptedOnce'
  <2>1. FlushedRecords' = FlushedRecords \o b
    BY <1>2, <1>5, <1>8, <1>10, <1>11, FlushedGrows
  <2>2. FlushedRecords \in Seq(Record)
    BY <1>11, FlushedTyped
  <2>3. (FlushedRecords \o b) \o <<>> = FlushedRecords \o b
    BY <2>2, ConcatProperties, ConcatEmptySeq DEF Policed
  <2> QED
    BY <1>2, <2>1, <2>3 DEF AcceptedOnce
<1>18. FullOnlyWhileFailing'
  <2>1. BufBytes(buf)' = 0
    BY <1>2, NoBytes
  <2> QED
    BY SMTT(30), <1>2, <2>1, LedgerAssumption DEF FullOnlyWhileFailing
<1> QED
  BY <1>12, <1>14, <1>15, <1>16, <1>17, <1>18 DEF IInv

\* The store and the tip are left as they are.
LEMMA StoreKept ==
  ASSUME StoreInv, TipInv, LinkInv, UNCHANGED <<opt, opened, store, tip, own, written>>
  PROVE  StoreInv' /\ TipInv' /\ LinkInv' /\ FlushedRecords' = FlushedRecords
<1>1. StoreInv'
  BY DEF StoreInv, Stored, UnsignedIn
<1>2. TipInv'
  BY DEF TipInv
<1>3. LinkInv'
  BY DEF LinkInv, Trusted, Linked, PrevOf
<1>4. FlushedRecords' = FlushedRecords
  BY DEF FlushedRecords
<1> QED
  BY <1>1, <1>2, <1>3, <1>4

\* Taking a record into the buffer, or keeping the buffer after a flush that
\* failed, keeps the invariant.
LEMMA BufferStep ==
  ASSUME IInv, UNCHANGED <<opt, opened, store, tip, own, written>>, opened,
         NEW b, Policed(b), buf' = b, accepted' = FlushedRecords \o b,
         status' \in {"OK", "IO"}, ~Full(b) \/ failing'
  PROVE  IInv'
<1>1. StoreInv' /\ TipInv' /\ LinkInv' /\ FlushedRecords' = FlushedRecords
  BY StoreKept DEF IInv
<1>2. CallInv'
  BY DEF IInv, CallInv, Policed, Policy
<1>3. AcceptedOnce'
  BY <1>1 DEF AcceptedOnce
<1>4. FullOnlyWhileFailing'
  BY DEF FullOnlyWhileFailing, Full
<1> QED
  BY <1>1, <1>2, <1>3, <1>4 DEF IInv

\* vicarl_ledger_flush keeps the invariant.
LEMMA FlushStep ==
  ASSUME IInv, Flush
  PROVE  IInv'
<1>1. opened /\ UNCHANGED <<opt, opened, accepted>>
  BY DEF Flush
<1>2. Policed(buf) /\ accepted = FlushedRecords \o buf
  BY DEF IInv, CallInv, AcceptedOnce
<1>3. CASE buf = <<>> /\ status' = "OK"
           /\ UNCHANGED <<buf, store, tip, failing, own, written>>
  <2>1. ~Full(buf) \/ failing'
    BY <1>3 DEF IInv, FullOnlyWhileFailing, Full
  <2> QED
    BY <1>1, <1>2, <1>3, <2>1, BufferStep
<1>4. CASE FlushOk(buf)
  BY <1>1, <1>2, <1>4, FlushOkStep
<1>5. CASE FlushFails(buf)
  BY <1>1, <1>2, <1>5, BufferStep DEF FlushFails, KeepBuffer
<1> QED
  BY <1>3, <1>4, <1>5 DEF Flush

\* vicarl_ledger_append_record keeps the invariant: it checks the policy, takes
\* the record, and flushes when a target is reached.
LEMMA AppendRecordStep ==
  ASSUME IInv, NEW r \in Record, AppendRecord(r)
  PROVE  IInv'
<1> DEFINE b == Append(buf, r)
<1>1. opened /\ Policy(r) /\ accepted' = Append(accepted, r)
      /\ UNCHANGED <<opt, opened>>
  BY DEF AppendRecord
<1>2. Policed(buf) /\ accepted = FlushedRecords \o buf
      /\ FlushedRecords \in Seq(Record)
  BY FlushedTyped DEF IInv, CallInv, AcceptedOnce
<1>3. accepted' = FlushedRecords \o b
  <2>1. buf \in Seq(Record)
    BY <1>2 DEF Policed
  <2>2. Append(FlushedRecords \o buf, r) = FlushedRecords \o Append(buf, r)
    <3>1. PICK f \in Seq(Record) : f = FlushedRecords
      BY <1>2
    <3>2. PICK t \in Seq(Record) : t = buf
      BY <2>1
    <3>3. Append(f \o t, r) = f \o Append(t, r)
      BY SMTT(30)
    <3> QED
      BY <3>1, <3>2, <3>3
  <2> QED
    BY <1>1, <1>2, <2>2
<1>4. Policed(b)
  <2>1. b \in Seq(Record) /\ Len(b) = Len(buf) + 1 /\ Len(buf) \in Nat
        /\ (\A i \in 1..Len(buf) : b[i] = buf[i]) /\ b[Len(buf) + 1] = r
    BY SMT, <1>2 DEF Policed
  <2> HIDE DEF b
  <2>2. ASSUME NEW i \in 1..Len(b) PROVE Policy(b[i])
    <3>1. CASE i = Len(buf) + 1
      BY <1>1, <2>1, <3>1
    <3>2. CASE i \in 1..Len(buf)
      BY <1>2, <2>1, <3>2 DEF Policed
    <3> QED
      BY SMTT(30), <2>1, <3>1, <3>2
  <2> QED
    BY <2>1, <2>2 DEF Policed
<1> HIDE DEF b
<1>5. \/ ~Full(b) /\ buf' = b /\ status' = "OK"
         /\ UNCHANGED <<store, tip, own, written>>
      \/ FlushOk(b)
      \/ FlushFails(b)
  BY DEF AppendRecord, b
<1>6. CASE ~Full(b) /\ buf' = b /\ status' = "OK"
           /\ UNCHANGED <<store, tip, own, written>>
  BY <1>1, <1>3, <1>4, <1>6, BufferStep
<1>7. CASE FlushOk(b)
  BY <1>1, <1>3, <1>4, <1>7, FlushOkStep
<1>8. CASE FlushFails(b)
  BY <1>1, <1>3, <1>4, <1>8, BufferStep DEF FlushFails, KeepBuffer
<1> QED
  BY <1>5, <1>6, <1>7, <1>8

-----------------------------------------------------------------------------
\* Opening keeps the invariant; the tip is what the backend finds.
LEMMA OpenStep ==
  ASSUME IInv, Open
  PROVE  IInv'
<1>1. /\ ~opened /\ opened' = TRUE /\ tip' = OpenedTip /\ status' = "OK"
      /\ UNCHANGED <<opt, buf, store, failing, accepted, own, written>>
  BY DEF Open
<1>2. CallInv /\ StoreInv /\ TipInv /\ LinkInv
  BY DEF IInv
<1>3. StoreInv'
  BY <1>1, <1>2 DEF StoreInv, Stored, UnsignedIn
<1>4. /\ IsSequence(store) /\ IsSequence(written)
      /\ Len(store) = Len(written) /\ Len(written) \in Nat
  BY <1>2, SequenceFacts DEF StoreInv
<1>5. tip'.no = Len(written)
  BY <1>1, <1>4, ChainTipFacts DEF OpenedTip
<1>6. TipInv'
  BY SMTT(30), <1>1, <1>4, <1>5 DEF TipInv
<1>7. LinkInv'
  <2> SUFFICES ASSUME Trusted'
               PROVE  Linked(written)' /\ (tip.hash = PrevOf(written, tip.no + 1))'
    BY DEF LinkInv
  <2>1. Trusted /\ Linked(written)
    BY <1>1, <1>2 DEF Trusted, LinkInv
  <2>2. tip' = ChainTip(written)
    BY <1>1, <2>1 DEF OpenedTip, Trusted
  <2>3. tip'.hash = PrevOf(written, Len(written) + 1)
    BY <1>4, <2>2, ChainTipFacts
  <2> QED
    BY <1>1, <1>5, <2>1, <2>3
<1>8. CallInv'
  BY <1>1, <1>2 DEF CallInv, Policed, Policy
<1>9. AcceptedOnce'
  BY <1>1 DEF IInv, AcceptedOnce, FlushedRecords
<1>10. FullOnlyWhileFailing'
  BY <1>1 DEF IInv, FullOnlyWhileFailing
<1> QED
  BY <1>3, <1>6, <1>7, <1>8, <1>9, <1>10 DEF IInv

\* Closing keeps the invariant: it drops the buffer, and the records in it are
\* no longer counted as accepted.
LEMMA CloseStep ==
  ASSUME IInv, Close
  PROVE  IInv'
<1>1. /\ opened' = FALSE /\ buf' = <<>> /\ tip' = NoTip
      /\ accepted' = FlushedRecords /\ failing' = FALSE
      /\ UNCHANGED <<opt, store, status, own, written>>
  BY DEF Close
<1>2. CallInv /\ StoreInv /\ TipInv /\ LinkInv
  BY DEF IInv
<1>3. StoreInv'
  BY <1>1, <1>2 DEF StoreInv, Stored, UnsignedIn
<1>4. TipInv'
  BY SMTT(30), <1>1, <1>2, SequenceFacts DEF TipInv, NoTip, StoreInv
<1>5. LinkInv'
  BY <1>1, <1>2 DEF LinkInv, Trusted
<1>6. CallInv'
  <2>1. Policed(buf)'
    BY SMTT(30), <1>1 DEF Policed
  <2>2. opened' \in BOOLEAN
    BY <1>1
  <2> QED
    BY <1>1, <1>2, <2>1, <2>2 DEF CallInv
<1>7. AcceptedOnce'
  <2>1. FlushedRecords' = FlushedRecords
    BY <1>1 DEF FlushedRecords
  <2>2. FlushedRecords \o <<>> = FlushedRecords
    BY <1>2, FlushedTyped, ConcatEmptySeq
  <2> QED
    BY <1>1, <2>1, <2>2 DEF AcceptedOnce
<1>8. FullOnlyWhileFailing'
  <2>1. BufBytes(buf)' = 0
    BY <1>1, NoBytes
  <2> QED
    BY SMTT(30), <1>1, <2>1, LedgerAssumption DEF FullOnlyWhileFailing
<1> QED
  BY <1>3, <1>4, <1>5, <1>6, <1>7, <1>8 DEF IInv

\* Calls that change at most the status.
LEMMA StatusStep ==
  ASSUME IInv, status' \in {"OK", "IO", "CRYPTO", "FORMAT", "UNSUPPORTED"},
         UNCHANGED <<opt, opened, buf, store, tip, failing, accepted, own, written>>
  PROVE  IInv'
<1>1. StoreInv' /\ TipInv' /\ LinkInv' /\ FlushedRecords' = FlushedRecords
  BY StoreKept DEF IInv
<1>2. CallInv'
  BY DEF IInv, CallInv, Policed, Policy
<1>3. AcceptedOnce'
  BY <1>1 DEF IInv, AcceptedOnce
<1>4. FullOnlyWhileFailing'
  BY DEF IInv, FullOnlyWhileFailing
<1> QED
  BY <1>1, <1>2, <1>3, <1>4 DEF IInv

\* What vicarl_ledger_verify returns.
LEMMA VerifyStatus ==
  Verify \in {"OK", "IO", "CRYPTO", "FORMAT", "UNSUPPORTED"}
<1>1. \A seg : SegmentVerify(seg) \in {"OK", "FORMAT", "UNSUPPORTED"}
  BY DEF SegmentVerify
<1>2. \A n : VerifySegment(store, n) \in {"OK", "CRYPTO", "FORMAT", "UNSUPPORTED"}
  BY <1>1 DEF VerifySegment
<1> QED
  BY <1>2 DEF Verify

\* Segments of others, by whichever way they come into the store.
LEMMA OthersStep ==
  ASSUME IInv, NEW recs \in Foreign, NEW t,
         NEW seg, seg = SegmentEncode(t.no + 1, t.hash, recs, MerkleRoot(recs), FALSE),
         SegmentVerify(seg) = "OK", seg.no = Len(written) + 1, Grows(seg),
         UNCHANGED <<buf, status, failing, accepted, own>>,
         Trusted => t.hash = PrevOf(written, Len(written) + 1),
         \/ tip' = TipOf(seg)
         \/ tip' = tip /\ opt.kind = "SQLITE"
  PROVE  IInv'
<1>1. CallInv /\ StoreInv /\ TipInv /\ LinkInv
  BY DEF IInv
<1>2. IsSegment(seg) /\ seg.prev = t.hash /\ seg.recs = recs
  BY DEF SegmentEncode, IsSegment
<1>3. seg.no = Len(written) + 1
  OBVIOUS
<1>4. Stored(seg, Len(written) + 1)
  BY <1>2, <1>3, LedgerAssumption DEF Stored
<1>5. StoreInv'
  BY <1>1, <1>4, GrowStore
<1>6. Trusted => seg.prev = ChainTip(written).hash
  BY <1>1, <1>2, ChainTipFacts DEF StoreInv
<1>7. LinkInv'
  BY <1>1, <1>3, <1>6, GrowLinks
<1>8. FlushedRecords' = FlushedRecords
  BY <1>1, <1>4, FlushedGrows
<1>9. TipInv'
  <2>1. Len(written') = Len(written) + 1 /\ Len(written) \in Nat
    BY <1>1, GrowFacts
  <2>2. opt' = opt
    BY DEF Grows
  <2>3. CASE tip' = TipOf(seg)
    BY SMT, <1>3, <2>1, <2>3 DEF TipInv, TipOf
  <2>4. CASE tip' = tip /\ opt.kind = "SQLITE"
    BY SMTT(30), <1>1, <2>1, <2>2, <2>4 DEF TipInv
  <2> QED
    BY <2>3, <2>4
<1>10. CallInv'
  BY <1>1 DEF CallInv, Policed, Policy, Grows
<1>11. AcceptedOnce'
  BY <1>8 DEF IInv, AcceptedOnce
<1>12. FullOnlyWhileFailing'
  BY DEF IInv, FullOnlyWhileFailing
<1> QED
  BY <1>5, <1>7, <1>9, <1>10, <1>11, <1>12 DEF IInv

\* A segment that arrives through the same store handle keeps the invariant.
LEMMA ForeignStep ==
  ASSUME IInv, NEW recs \in Foreign, ForeignAppend(recs)
  PROVE  IInv'
<1> DEFINE seg == SegmentEncode(tip.no + 1, tip.hash, recs, MerkleRoot(recs), FALSE)
<1>1. /\ opened /\ SegmentVerify(seg) = "OK" /\ seg.no = Len(written) + 1
      /\ Grows(seg) /\ tip' = TipOf(seg)
      /\ UNCHANGED <<buf, status, failing, accepted, own>>
  BY DEF ForeignAppend, AppendToStore, StoreAccepts, Grows
<1>2. tip.no = Len(written)
  <2>1. tip.no + 1 = Len(written) + 1
    BY <1>1 DEF SegmentEncode
  <2>2. tip.no \in Nat /\ Len(written) \in Nat
    BY SMTT(30), SequenceFacts DEF IInv, TipInv, StoreInv
  <2> QED
    BY SMTT(30), <2>1, <2>2
<1>3. Trusted => tip.hash = PrevOf(written, Len(written) + 1)
  BY <1>1, <1>2 DEF IInv, LinkInv
<1>4. PICK s : s = seg
  OBVIOUS
<1> HIDE DEF seg
<1>5. /\ SegmentVerify(s) = "OK" /\ s.no = Len(written) + 1 /\ Grows(s)
      /\ tip' = TipOf(s)
  BY <1>1, <1>4
<1>6. s = SegmentEncode(tip.no + 1, tip.hash, recs, MerkleRoot(recs), FALSE)
  BY <1>4 DEF seg
<1> QED
  BY <1>1, <1>3, <1>5, <1>6, OthersStep

\* A segment of another process keeps the invariant; the handle does not notice
\* it.
LEMMA OtherProcessStep ==
  ASSUME IInv, NEW recs \in Foreign, OtherProcessAppend(recs)
  PROVE  IInv'
<1> DEFINE t == ChainTip(written)
           seg == SegmentEncode(t.no + 1, t.hash, recs, MerkleRoot(recs), FALSE)
<1>1. /\ opt.kind = "SQLITE" /\ SegmentVerify(seg) = "OK"
      /\ seg.no = Len(written) + 1 /\ Grows(seg) /\ tip' = tip
      /\ UNCHANGED <<buf, status, failing, accepted, own>>
  BY DEF OtherProcessAppend, StoreAccepts, Grows
<1>2. t.hash = PrevOf(written, Len(written) + 1)
  BY ChainTipFacts DEF IInv, StoreInv
<1>3. PICK s : s = seg
  OBVIOUS
<1> HIDE DEF seg
<1>4. SegmentVerify(s) = "OK" /\ s.no = Len(written) + 1 /\ Grows(s)
  BY <1>1, <1>3
<1>5. s = SegmentEncode(t.no + 1, t.hash, recs, MerkleRoot(recs), FALSE)
  BY <1>3 DEF seg
<1> HIDE DEF t
<1> QED
  BY <1>1, <1>2, <1>4, <1>5, OthersStep

\* Damage keeps the header fields that the chain rests on.
LEMMA DamagedFacts ==
  ASSUME NEW seg, IsSegment(seg), NEW d \in DamagedForms(seg)
  PROVE  IsSegment(d) /\ d.prev = seg.prev
<1>1. CASE d = Truncated(seg)
  BY <1>1, TruncatedFacts
<1>2. ASSUME NEW rs, d = [seg EXCEPT !.recs = rs]
      PROVE  IsSegment(d) /\ d.prev = seg.prev
  <2> DEFINE a == seg.no  b == seg.prev  c == seg.recs  e == seg.root
             f == seg.sig  g == seg.whole
  <2> HIDE DEF a, b, c, e, f, g
  <2>1. seg = [no |-> a, prev |-> b, recs |-> c, root |-> e, sig |-> f, whole |-> g]
    BY DEF IsSegment, a, b, c, e, f, g
  <2>2. d = [no |-> a, prev |-> b, recs |-> rs, root |-> e, sig |-> f, whole |-> g]
    BY <1>2, <2>1
  <2> QED
    BY <2>1, <2>2 DEF IsSegment
<1> QED
  BY SMTT(30), <1>1, <1>2 DEF DamagedForms

\* Damage to a stored segment keeps the invariant: nothing is said of stored
\* bytes but their place in the chain.
LEMMA DamageStep ==
  ASSUME IInv, Damage
  PROVE  IInv'
<1>0. PICK i \in 1..Len(store) : \E d \in DamagedForms(store[i]) :
        d # written[i] /\ store' = [store EXCEPT ![i] = d]
  BY DEF Damage
<1>1. PICK d \in DamagedForms(store[i]) :
        d # written[i] /\ store' = [store EXCEPT ![i] = d]
  BY <1>0
<1>2. UNCHANGED <<opt, opened, buf, tip, status, failing, accepted, own, written>>
  BY DEF Damage
<1>3. CallInv /\ StoreInv /\ TipInv /\ LinkInv
  BY DEF IInv
<1> DEFINE n == Len(written)
<1>4. /\ n \in Nat /\ Len(store) = n /\ i \in 1..n
      /\ DOMAIN store = 1..n
  BY <1>3, SequenceFacts DEF StoreInv
<1> HIDE DEF n
<1>5. store' = [j \in 1..n |-> IF j = i THEN d ELSE store[j]]
  BY <1>1, <1>4
<1>6. IsSequence(store') /\ Len(store') = n
  <2>1. store' = [j \in 1..n |-> store'[j]]
    BY <1>5
  <2> QED
    BY <1>4, <2>1, FunctionIsSequence
<1>7. store'[i] = d /\ \A j \in 1..n : j # i => store'[j] = store[j]
  BY <1>4, <1>5
<1>8. IsSegment(d) /\ d.prev = store[i].prev
  BY <1>1, <1>3, <1>4, DamagedFacts DEF StoreInv, n
<1>9. \A j \in 1..n : IsSegment(store'[j]) /\ store'[j].prev = written[j].prev
  BY <1>3, <1>4, <1>7, <1>8 DEF StoreInv, n
<1>10. StoreInv'
  BY <1>2, <1>3, <1>6, <1>9 DEF StoreInv, Stored, UnsignedIn, n
<1>11. store' # written
  BY <1>1, <1>7
<1>12. LinkInv'
  BY <1>2, <1>3, <1>11 DEF LinkInv, Trusted
<1>13. TipInv'
  BY <1>2, <1>3 DEF TipInv
<1>14. CallInv'
  BY <1>2, <1>3 DEF CallInv, Policed, Policy
<1>15. AcceptedOnce'
  BY <1>2 DEF IInv, AcceptedOnce, FlushedRecords
<1>16. FullOnlyWhileFailing'
  BY <1>2 DEF IInv, FullOnlyWhileFailing
<1> QED
  BY <1>10, <1>12, <1>13, <1>14, <1>15, <1>16 DEF IInv

-----------------------------------------------------------------------------
\* The invariant holds before the ledger is opened.
LEMMA InitIInv == Init => IInv
<1> SUFFICES ASSUME Init PROVE IInv
  OBVIOUS
<1>1. /\ opt \in Options /\ opened = FALSE /\ buf = <<>> /\ store = <<>>
      /\ tip = NoTip /\ status = "OK" /\ accepted = <<>> /\ own = {}
      /\ written = <<>>
  BY DEF Init
<1>2. Len(<<>>) = 0 /\ IsSequence(<<>>) /\ 1..0 = {}
  BY SMTT(30), EmptySequence
<1>3. StoreInv
  BY <1>1, <1>2 DEF StoreInv
<1>4. TipInv /\ LinkInv
  BY SMTT(30), <1>1, <1>2 DEF TipInv, LinkInv, NoTip, Linked
<1>5. CallInv
  <2>1. Policed(buf)
    BY SMTT(30), <1>1, <1>2 DEF Policed
  <2>2. opened \in BOOLEAN
    BY <1>1
  <2> QED
    BY <1>1, <2>1, <2>2 DEF CallInv
<1>6. AcceptedOnce
  <2>1. FlushedRecords = <<>>
    <3>1. [i \in 1..Len(written) |->
             IF i \in own THEN written[i].recs ELSE <<>>] = <<>>
      BY SMTT(30), <1>1
    <3> QED
      BY <3>1, <1>2 DEF FlushedRecords, FlattenSeq
  <2> QED
    BY SMTT(30), <1>1, <2>1 DEF AcceptedOnce
<1>7. FullOnlyWhileFailing
  BY SMTT(30), <1>1, <1>2, NoBytes, LedgerAssumption DEF FullOnlyWhileFailing
<1> QED
  BY <1>3, <1>4, <1>5, <1>6, <1>7 DEF IInv

\* Every step keeps the invariant.
LEMMA StepIInv == IInv /\ [Next]_vars => IInv'
<1> SUFFICES ASSUME IInv, [Next]_vars PROVE IInv'
  OBVIOUS
<1>1. CASE Open
  BY <1>1, OpenStep
<1>2. CASE Close
  BY <1>2, CloseStep
<1>3. CASE Flush
  BY <1>3, FlushStep
<1>4. CASE Damage
  BY <1>4, DamageStep
<1>5. CASE VerifyCall
  BY <1>5, VerifyStatus, StatusStep DEF VerifyCall
<1>6. ASSUME NEW r \in Record, AppendRecord(r) PROVE IInv'
  BY <1>6, AppendRecordStep
<1>7. ASSUME NEW r \in Record, AppendRecordRejected(r) PROVE IInv'
  <2>1. /\ status' \in {"CRYPTO", "FORMAT"}
        /\ UNCHANGED <<opt, opened, buf, store, tip, failing, accepted, own, written>>
    BY <1>7 DEF AppendRecordRejected
  <2> QED
    BY <2>1, StatusStep
<1>8. ASSUME NEW recs \in Foreign, ForeignAppend(recs) PROVE IInv'
  BY <1>8, ForeignStep
<1>9. ASSUME NEW recs \in Foreign, OtherProcessAppend(recs) PROVE IInv'
  BY <1>9, OtherProcessStep
<1>10. CASE UNCHANGED vars
  BY <1>10, StatusStep DEF vars, IInv, CallInv
<1> QED
  BY <1>1, <1>2, <1>3, <1>4, <1>5, <1>6, <1>7, <1>8, <1>9, <1>10 DEF Next

\* The invariant holds in every behaviour.
LEMMA IInvInvariant == Spec => []IInv
BY InitIInv, StepIInv, PTL DEF Spec

-----------------------------------------------------------------------------
\* The state keeps its shape, and the tip of the handle is behind the store
\* only for a SQLite store that another process can write to.
THEOREM TypesCorrect == Spec => []TypeOK
<1>1. IInv => TypeOK
  <2> SUFFICES ASSUME IInv PROVE TypeOK
    OBVIOUS
  <2>1. CallInv /\ StoreInv /\ TipInv /\ accepted = FlushedRecords \o buf
    BY DEF IInv, AcceptedOnce
  <2>2. accepted \in Seq(Record)
    BY <2>1, FlushedTyped, ConcatProperties DEF CallInv, Policed
  <2>3. /\ Len(store) = Len(written) /\ own \subseteq 1..Len(written)
        /\ Len(written) \in Nat
    BY <2>1, SequenceFacts DEF StoreInv
  <2>4. /\ tip.no <= Len(store)
        /\ opened /\ opt.kind = "LOG" => tip.no = Len(store)
    BY SMTT(30), <2>1, <2>3 DEF TipInv
  <2> QED
    BY <2>1, <2>2, <2>3, <2>4 DEF TypeOK, CallInv, Policed
<1> QED
  BY <1>1, IInvInvariant, PTL

\* Every record that append_record took into the buffer is, once and in order,
\* in the ledger's segments or still in the buffer: failed flushes, retries and
\* other users of the store neither lose nor repeat one.
THEOREM RecordsKeptOnce == Spec => []AcceptedOnce
<1>1. IInv => AcceptedOnce
  BY DEF IInv
<1> QED
  BY <1>1, IInvInvariant, PTL

\* Every segment the ledger wrote verifies alone and obeys its signature
\* policy, also those written by a flush that was retried.
THEOREM OwnSegmentsSound == Spec => []OwnSegmentsVerify
<1>1. IInv => OwnSegmentsVerify
  BY DEF IInv, StoreInv, Stored, OwnSegmentsVerify
<1> QED
  BY <1>1, IInvInvariant, PTL

\* The buffer is at or past one of its targets only if the last append or flush
\* tried to flush it and failed: append_record flushes as soon as a target is
\* reached, and tries again each time while it stays reached (ledger.c:331).
THEOREM TargetsRespected == Spec => []FullOnlyWhileFailing
<1>1. IInv => FullOnlyWhileFailing
  BY DEF IInv
<1> QED
  BY <1>1, IInvInvariant, PTL

-----------------------------------------------------------------------------
\* What verify returns is what one of the segments, if any, fails with.
LEMMA VerifyFacts ==
  ASSUME tip.no \in Nat
  PROVE  \/ /\ Verify = "OK"
            /\ \A n \in 1..tip.no : VerifySegment(store, n) = "OK"
         \/ \E n \in 1..tip.no : /\ VerifySegment(store, n) # "OK"
                                 /\ Verify = VerifySegment(store, n)
<1> DEFINE wrong == {n \in 1..tip.no : VerifySegment(store, n) # "OK"}
           first == CHOOSE n \in wrong : \A m \in wrong : n <= m
<1>1. Verify = IF wrong = {} THEN "OK" ELSE VerifySegment(store, first)
  BY DEF Verify
<1>2. CASE wrong = {}
  BY <1>1, <1>2
<1>3. CASE wrong # {}
  <2>1. wrong \in SUBSET Nat
    BY SMTT(30)
  <2> HIDE DEF wrong
  <2>2. \E n \in wrong : \A m \in wrong : n <= m
    BY <1>3, <2>1, LeastNumber
  <2>3. first \in wrong
    BY <2>2
  <2>4. Verify = VerifySegment(store, first)
    BY <1>1, <1>3
  <2> HIDE DEF first
  <2> QED
    BY <2>3, <2>4 DEF wrong
<1> QED
  BY <1>2, <1>3

\* vicarl_ledger_verify accepts every undamaged store, except for unsigned
\* records that somebody else appended when the signature policy is on.
THEOREM UndamagedAccepted == Spec => []UndamagedVerifies
<1>1. IInv => UndamagedVerifies
  <2> SUFFICES ASSUME IInv, opened, store = written
               PROVE  \/ Verify = "OK"
                      \/ /\ opt.signed /\ Verify = "CRYPTO"
                         /\ \E i \in (1..Len(store)) \ own : UnsignedIn(store[i])
    BY DEF UndamagedVerifies
  <2>1. StoreInv /\ TipInv /\ LinkInv
    BY DEF IInv
  <2>2. Linked(written) /\ tip.hash = PrevOf(written, tip.no + 1)
    BY <2>1 DEF LinkInv, Trusted
  <2>3. Len(written) \in Nat /\ tip.no \in Nat /\ tip.no <= Len(written)
    BY SMTT(30), <2>1, SequenceFacts DEF StoreInv, TipInv
  <2>4. ASSUME NEW n \in 1..tip.no, VerifySegment(store, n) # "OK"
        PROVE  /\ opt.signed /\ VerifySegment(store, n) = "CRYPTO"
               /\ \E i \in (1..Len(store)) \ own : UnsignedIn(store[i])
    <3>1. n \in 1..Len(store) /\ n \in 1..Len(written)
      BY SMTT(30), <2>3
    <3>2. SegmentVerify(store[n]) = "OK" /\ store[n].no = n
      BY <2>1, <3>1 DEF StoreInv, Stored
    <3>3. store[n].prev = PrevOf(store, n)
      BY <2>2, <3>1 DEF Linked
    <3>4. n = tip.no => tip.hash = Sha256(store[n])
      BY SMTT(30), <2>2, <2>3 DEF PrevOf
    <3>5. opt.signed /\ UnsignedIn(store[n]) /\ VerifySegment(store, n) = "CRYPTO"
      BY <2>4, <3>2, <3>3, <3>4 DEF VerifySegment
    <3>6. n \notin own
      BY <2>1, <3>5 DEF StoreInv
    <3> QED
      BY <3>1, <3>5, <3>6
  <2> QED
    BY <2>3, <2>4, VerifyFacts
<1> QED
  BY <1>1, IInvInvariant, PTL

\* vicarl_ledger_verify reports a segment that is not what was appended
\* whenever its hash is remembered: by its successor, by the tip of the handle,
\* or by the hash column of SQLite.
THEOREM DamageFound == Spec => []DamageNoticed
<1>1. IInv => DamageNoticed
  <2> SUFFICES ASSUME IInv, opened, NEW i \in 1..tip.no, store[i] # written[i],
                      Remembered(i) \/ opt.kind = "SQLITE", Verify = "OK"
               PROVE  FALSE
    BY DEF DamageNoticed
  <2>1. StoreInv /\ TipInv /\ LinkInv
    BY DEF IInv
  <2>2. Len(written) \in Nat /\ tip.no \in Nat /\ tip.no <= Len(written)
    BY SMTT(30), <2>1, SequenceFacts DEF StoreInv, TipInv
  <2>3. \A n \in 1..tip.no : VerifySegment(store, n) = "OK"
    BY <2>2, VerifyFacts
  <2>4. ASSUME NEW n \in 1..tip.no
        PROVE  /\ store[n].prev = PrevOf(store, n)
               /\ n = tip.no => tip.hash = Sha256(store[n])
    <3>1. VerifySegment(store, n) = "OK"
      BY <2>3
    <3> QED
      BY <3>1 DEF VerifySegment
  <2>5. CASE i < tip.no
    <3>1. i + 1 \in 1..tip.no /\ i + 1 \in 1..Len(written) /\ (i + 1) - 1 = i /\ i + 1 # 1
      BY SMTT(30), <2>2, <2>5
    <3>2. written[i + 1].prev = Sha256(written[i])
      <4>1. CASE Remembered(i)
        BY <2>5, <4>1 DEF Remembered
      <4>2. CASE opt.kind = "SQLITE"
        <5>1. Linked(written)
          BY <2>1, <4>2 DEF LinkInv, Trusted
        <5> QED
          BY <3>1, <5>1 DEF Linked, PrevOf
      <4> QED
        BY <4>1, <4>2
    <3>3. store[i + 1].prev = Sha256(store[i])
      BY <2>4, <3>1 DEF PrevOf
    <3>4. store[i + 1].prev = written[i + 1].prev
      BY <2>1, <3>1 DEF StoreInv
    <3> QED
      BY <3>2, <3>3, <3>4, HashFacts
  <2>6. CASE i = tip.no
    <3>1. tip.hash = Sha256(written[i])
      <4>1. CASE Remembered(i)
        BY SMT, <2>2, <2>6, <4>1 DEF Remembered, TipOf
      <4>2. CASE opt.kind = "SQLITE"
        <5>1. tip.hash = PrevOf(written, tip.no + 1)
          BY <2>1, <4>2 DEF LinkInv, Trusted
        <5> QED
          BY SMTT(30), <2>2, <2>6, <5>1 DEF PrevOf
      <4> QED
        BY <4>1, <4>2
    <3>2. tip.hash = Sha256(store[i])
      BY <2>4, <2>6
    <3> QED
      BY <3>1, <3>2, HashFacts
  <2> QED
    BY SMTT(30), <2>2, <2>5, <2>6
<1> QED
  BY <1>1, IInvInvariant, PTL

-----------------------------------------------------------------------------
\* A buffer that the index refuses is refused with one more record, and after
\* more segments.
LEMMA RefusedLonger ==
  ASSUME NEW b \in Seq(Record), NEW r \in Record, Fresh(Append(b, r))
  PROVE  Fresh(b)
<1> DEFINE c == Append(b, r)
<1>1. /\ Len(b) \in Nat /\ DOMAIN b = 1..Len(b) /\ DOMAIN c = 1..(Len(b) + 1)
      /\ \A i \in 1..Len(b) : c[i] = b[i]
  BY SMTT(30)
<1>2. IsInjective(c) /\ Range(c) \cap index = {}
  BY DEF Fresh
<1> HIDE DEF c
<1>3. DOMAIN b \subseteq DOMAIN c
  BY SMTT(30), <1>1
<1>4. IsInjective(b)
  BY <1>1, <1>2, <1>3 DEF IsInjective
<1>5. Range(b) \subseteq Range(c)
  BY <1>1, <1>3 DEF Range
<1> QED
  BY <1>2, <1>4, <1>5 DEF Fresh

\* A buffer that the record index refuses is refused also after the index has
\* grown.
LEMMA RefusedLater ==
  ASSUME index \subseteq index', buf' = buf, Fresh(buf)'
  PROVE  Fresh(buf)
<1>1. IsInjective(buf)' /\ (Range(buf) \cap index)' = {}
  BY DEF Fresh
<1>2. IsInjective(buf) /\ Range(buf) \cap index' = {}
  BY <1>1
<1> QED
  BY <1>2 DEF Fresh

\* The buffer begins with what it had.
LEMMA PrefixFacts ==
  ASSUME NEW b \in Seq(Record), NEW r \in Record
  PROVE  IsPrefix(b, b) /\ IsPrefix(b, Append(b, r))
<1>1. IsPrefix(b, b)
  BY SMT DEF IsPrefix
<1>2. /\ Len(b) <= Len(Append(b, r))
      /\ \A i \in 1..Len(b) : Append(b, r)[i] = b[i]
  BY SMTT(30)
<1>3. SubSeq(b, 1, Len(b)) = SubSeq(Append(b, r), 1, Len(b))
  BY SMT, <1>2
<1> QED
  BY <1>1, <1>2, <1>3 DEF IsPrefix

\* A blocked ledger cannot flush.
LEMMA BlockedNoFlush ==
  ASSUME IInv, Blocked, NEW b, FlushOk(b),
         \/ b = buf
         \/ \E r \in Record : b = Append(buf, r)
  PROVE  FALSE
<1> DEFINE seg == NewSegment(b)
<1>1. StoreAccepts(seg, Indexing)
  BY DEF FlushOk, AppendToStore
<1>2. seg.no = tip.no + 1 /\ seg.recs = b
  BY DEF NewSegment, SegmentEncode
<1> HIDE DEF seg
<1>3. tip.no = Len(written)
  <2>1. tip.no \in Nat /\ Len(written) \in Nat
    BY SMTT(30), SequenceFacts DEF IInv, StoreInv, TipInv
  <2>2. seg.no = Len(written) + 1
    BY <1>1 DEF StoreAccepts
  <2> QED
    BY SMTT(30), <1>2, <2>1, <2>2
<1>4. Indexing /\ ~Fresh(buf)
  <2>1. ~(tip.no < Len(written))
    BY SMTT(30), <1>3, SequenceFacts DEF IInv, StoreInv
  <2> QED
    BY <2>1 DEF Blocked
<1>5. Fresh(b)
  BY <1>1, <1>2, <1>4 DEF StoreAccepts
<1>6. buf \in Seq(Record)
  BY DEF IInv, CallInv, Policed
<1> QED
  BY <1>4, <1>5, <1>6, RefusedLonger

\* A blocked ledger whose buffer is kept or grows stays blocked.
LEMMA BlockedKept ==
  ASSUME IInv, Blocked, UNCHANGED <<opt, opened, tip, index, written, own>>,
         \/ buf' = buf
         \/ \E r \in Record : buf' = Append(buf, r)
  PROVE  Blocked' /\ IsPrefix(buf, buf')
<1>1. buf \in Seq(Record)
  BY DEF IInv, CallInv, Policed
<1>2. IsPrefix(buf, buf')
  <2>1. CASE buf' = buf
    <3>1. IsPrefix(buf, buf)
      BY SMTT(30), <1>1 DEF IsPrefix
    <3> QED
      BY <2>1, <3>1
  <2>2. ASSUME NEW r \in Record, buf' = Append(buf, r) PROVE IsPrefix(buf, buf')
    BY <1>1, <2>2, PrefixFacts
  <2> QED
    BY <2>1, <2>2
<1>3. ~Fresh(buf) => ~Fresh(buf')
  BY <1>1, RefusedLonger
<1>4. Fresh(buf)' <=> Fresh(buf')
  BY DEF Fresh
<1> QED
  BY <1>2, <1>3, <1>4 DEF Blocked, Indexing

\* Segments of others do not free it.
LEMMA BlockedBehind ==
  ASSUME IInv, Blocked, NEW seg, Grows(seg), seg.no = Len(written) + 1,
         index \subseteq index', buf' = buf,
         \/ tip' = tip
         \/ tip' = TipOf(seg) /\ seg.no = tip.no + 1
  PROVE  Blocked' /\ IsPrefix(buf, buf')
<1>1. StoreInv /\ TipInv /\ opened' = opened /\ opt' = opt
  BY DEF IInv, Grows
<1>2. /\ Len(written) \in Nat /\ Len(written') = Len(written) + 1
      /\ tip.no \in Nat /\ tip.no <= Len(written)
  BY SMTT(30), <1>1, GrowFacts DEF TipInv
<1>3. IsPrefix(buf, buf')
  <2>1. IsPrefix(buf, buf)
    BY SMTT(30) DEF IsPrefix, IInv, CallInv, Policed
  <2> QED
    BY <2>1
<1>4. CASE tip' = tip
  <2>1. tip'.no < Len(written')
    BY SMTT(30), <1>2, <1>4
  <2> QED
    BY <1>1, <1>3, <2>1 DEF Blocked
<1>5. CASE tip' = TipOf(seg) /\ seg.no = tip.no + 1
  <2>1. ~(tip.no < Len(written))
    BY SMTT(30), <1>2, <1>5
  <2>2. Indexing /\ ~Fresh(buf)
    BY <2>1 DEF Blocked
  <2>3. ~Fresh(buf)'
    BY <2>2, RefusedLater
  <2> QED
    BY <1>1, <1>3, <2>2, <2>3 DEF Blocked, Indexing
<1> QED
  BY <1>4, <1>5

\* Once a segment of another process has taken the next number, or a buffered
\* record is in the index already, no flush of the open ledger succeeds again:
\* it writes nothing, and the buffer only grows, until it is closed.
THEOREM BlockedStays == Spec => BlockedUntilClosed
<1> DEFINE Stays == Blocked /\ opened' => Blocked' /\ own' = own /\ IsPrefix(buf, buf')
<1>1. IInv /\ [Next]_vars => [Stays]_vars
  <2> SUFFICES ASSUME IInv, Next, Blocked, opened'
               PROVE  Blocked' /\ own' = own /\ IsPrefix(buf, buf')
    OBVIOUS
  <2>1. CASE Open
    BY <2>1 DEF Open, Blocked
  <2>2. CASE Close
    BY <2>2 DEF Close
  <2>3. CASE Flush
    <3>1. ~FlushOk(buf)
      BY BlockedNoFlush
    <3>2. UNCHANGED <<opt, opened, buf, tip, index, written, own>>
      BY <2>3, <3>1 DEF Flush, FlushFails, KeepBuffer
    <3> QED
      BY <3>2, BlockedKept
  <2>4. CASE Damage
    <3>1. UNCHANGED <<opt, opened, buf, tip, index, written, own>>
      BY <2>4 DEF Damage
    <3> QED
      BY <3>1, BlockedKept
  <2>5. CASE VerifyCall
    <3>1. UNCHANGED <<opt, opened, buf, tip, index, written, own>>
      BY <2>5 DEF VerifyCall
    <3> QED
      BY <3>1, BlockedKept
  <2>6. ASSUME NEW r \in Record, AppendRecord(r)
        PROVE  Blocked' /\ own' = own /\ IsPrefix(buf, buf')
    <3>1. ~FlushOk(Append(buf, r))
      BY BlockedNoFlush
    <3>2. UNCHANGED <<opt, opened, tip, index, written, own>> /\ buf' = Append(buf, r)
      BY <2>6, <3>1 DEF AppendRecord, FlushFails, KeepBuffer
    <3> QED
      BY <3>2, BlockedKept
  <2>7. ASSUME NEW r \in Record, AppendRecordRejected(r)
        PROVE  Blocked' /\ own' = own /\ IsPrefix(buf, buf')
    <3>1. UNCHANGED <<opt, opened, buf, tip, index, written, own>>
      BY <2>7 DEF AppendRecordRejected
    <3> QED
      BY <3>1, BlockedKept
  <2>8. ASSUME NEW recs \in Foreign, ForeignAppend(recs)
        PROVE  Blocked' /\ own' = own /\ IsPrefix(buf, buf')
    <3>1. PICK seg : seg = SegmentEncode(tip.no + 1, tip.hash, recs, MerkleRoot(recs), FALSE)
      OBVIOUS
    <3>2. /\ Grows(seg) /\ seg.no = Len(written) + 1 /\ index \subseteq index'
          /\ tip' = TipOf(seg) /\ buf' = buf /\ own' = own
      BY <2>8, <3>1 DEF ForeignAppend, AppendToStore, StoreAccepts, IndexRows, Grows
    <3>3. seg.no = tip.no + 1
      BY <3>1 DEF SegmentEncode
    <3> QED
      BY <3>2, <3>3, BlockedBehind
  <2>9. ASSUME NEW recs \in Foreign, OtherProcessAppend(recs)
        PROVE  Blocked' /\ own' = own /\ IsPrefix(buf, buf')
    <3>1. PICK seg : /\ Grows(seg) /\ seg.no = Len(written) + 1
                     /\ index \subseteq index'
                     /\ tip' = tip /\ buf' = buf /\ own' = own
      BY <2>9 DEF OtherProcessAppend, StoreAccepts, IndexRows, Grows
    <3> QED
      BY <3>1, BlockedBehind
  <2> QED
    BY <2>1, <2>2, <2>3, <2>4, <2>5, <2>6, <2>7, <2>8, <2>9 DEF Next
<1> QED
  BY <1>1, IInvInvariant, PTL DEF Spec, BlockedUntilClosed

-----------------------------------------------------------------------------
\* What one append does to the chain of written segments.
LEMMA AppendExtends ==
  ASSUME StoreInv, NEW seg, Grows(seg), seg.no = Len(written) + 1,
         store = written => seg.prev = ChainTip(written).hash
  PROVE  /\ Chain!AppendNumbered
         /\ store = written => Chain!AppendLinked
<1>1. /\ Len(written) \in Nat /\ Len(written') = Len(written) + 1
      /\ \A i \in 1..Len(written) : written'[i] = written[i]
      /\ written'[Len(written')] = seg
  BY GrowFacts
<1>2. Chain!AppendNumbered
  BY <1>1 DEF Chain!AppendNumbered, Chain!Extend
<1> QED
  BY <1>1, <1>2 DEF Chain!AppendLinked, Chain!ChainTip, Chain!NoTip, Chain!Sha256,
                    Chain!ZeroHash, ChainTip, NoTip, Sha256, ZeroHash

\* What is appended on the tip that the handle remembers.
LEMMA OnTip ==
  ASSUME IInv, opened, NEW seg, seg.no = tip.no + 1, seg.prev = tip.hash,
         StoreAccepts(seg, Indexing)
  PROVE  /\ seg.no = Len(written) + 1
         /\ store = written => seg.prev = ChainTip(written).hash
<1>1. StoreInv /\ TipInv /\ LinkInv /\ seg.no = Len(written) + 1
  BY DEF IInv, StoreAccepts
<1>2. tip.no = Len(written)
  <2>1. tip.no \in Nat /\ Len(written) \in Nat
    BY SMTT(30), <1>1, SequenceFacts DEF StoreInv, TipInv
  <2> QED
    BY SMTT(30), <1>1, <2>1
<1>3. ChainTip(written).hash = PrevOf(written, Len(written) + 1)
  BY <1>1, ChainTipFacts DEF StoreInv
<1>4. store = written => tip.hash = PrevOf(written, tip.no + 1)
  BY <1>1 DEF LinkInv, Trusted
<1> QED
  BY <1>1, <1>2, <1>3, <1>4

\* What is appended implements the abstract store: contiguous numbers always,
\* and linked segments as long as the stored bytes are the ones that were
\* written.
THEOREM AppendsRefineChain == Spec => ImplementsHashChain
<1>1. Init => Chain!Init
  BY DEF Init, Chain!Init
<1>2. IInv /\ [Next]_vars =>
        /\ [Chain!AppendNumbered]_written
        /\ [store = written => Chain!AppendLinked]_written
  <2> SUFFICES ASSUME IInv, [Next]_vars
               PROVE  \/ written' = written
                      \/ /\ Chain!AppendNumbered
                         /\ store = written => Chain!AppendLinked
    OBVIOUS
  <2>1. StoreInv
    BY DEF IInv
  <2>2. ASSUME NEW b, opened, UNCHANGED <<opt, opened>>, FlushOk(b)
        PROVE  /\ Chain!AppendNumbered
               /\ store = written => Chain!AppendLinked
    <3>1. PICK seg : seg = NewSegment(b)
      OBVIOUS
    <3>2. seg.no = tip.no + 1 /\ seg.prev = tip.hash
      BY <3>1 DEF NewSegment, SegmentEncode
    <3>3. Grows(seg) /\ StoreAccepts(seg, Indexing)
      BY <2>2, <3>1 DEF FlushOk, AppendToStore, Grows
    <3> QED
      BY <2>1, <2>2, <3>2, <3>3, OnTip, AppendExtends
  <2>3. CASE Open \/ Close \/ Damage \/ VerifyCall \/ UNCHANGED vars
    BY <2>3 DEF Open, Close, Damage, VerifyCall, vars
  <2>4. CASE Flush
    BY <2>2, <2>4 DEF Flush, FlushFails
  <2>5. ASSUME NEW r \in Record, AppendRecord(r) \/ AppendRecordRejected(r)
        PROVE  \/ written' = written
               \/ /\ Chain!AppendNumbered
                  /\ store = written => Chain!AppendLinked
    <3>1. CASE AppendRecord(r)
      BY <2>2, <3>1 DEF AppendRecord, FlushFails
    <3>2. CASE AppendRecordRejected(r)
      BY <3>2 DEF AppendRecordRejected
    <3> QED
      BY <2>5, <3>1, <3>2
  <2>6. ASSUME NEW recs \in Foreign, ForeignAppend(recs)
        PROVE  /\ Chain!AppendNumbered
               /\ store = written => Chain!AppendLinked
    <3>1. PICK seg : seg = SegmentEncode(tip.no + 1, tip.hash, recs, MerkleRoot(recs), FALSE)
      OBVIOUS
    <3>2. opened /\ Grows(seg) /\ StoreAccepts(seg, Indexing)
      BY <2>6, <3>1 DEF ForeignAppend, AppendToStore, Grows
    <3>3. seg.no = tip.no + 1 /\ seg.prev = tip.hash
      BY <3>1 DEF SegmentEncode
    <3> QED
      BY <2>1, <3>2, <3>3, OnTip, AppendExtends
  <2>7. ASSUME NEW recs \in Foreign, OtherProcessAppend(recs)
        PROVE  /\ Chain!AppendNumbered
               /\ store = written => Chain!AppendLinked
    <3>1. PICK t : t = ChainTip(written)
      OBVIOUS
    <3>2. PICK seg : seg = SegmentEncode(t.no + 1, t.hash, recs, MerkleRoot(recs), FALSE)
      OBVIOUS
    <3>3. Grows(seg) /\ seg.no = Len(written) + 1
      BY <2>7, <3>1, <3>2 DEF OtherProcessAppend, StoreAccepts, Grows
    <3>4. seg.prev = ChainTip(written).hash
      BY <3>1, <3>2 DEF SegmentEncode
    <3> QED
      BY <2>1, <3>3, <3>4, AppendExtends
  <2> QED
    BY <2>3, <2>4, <2>5, <2>6, <2>7 DEF Next
<1> QED
  BY <1>1, <1>2, IInvInvariant, PTL DEF Spec, ImplementsHashChain, Chain!NumberedSpec
=============================================================================
