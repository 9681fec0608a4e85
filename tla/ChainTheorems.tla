--------------------------- MODULE ChainTheorems ----------------------------
(***************************************************************************)
(* Facts that the proofs about the components share: induction over the    *)
(* natural numbers, sequences of any elements, and chains of segments.     *)
(*                                                                         *)
(* The induction theorems of the library take a predicate as a parameter,  *)
(* which the first-order provers cannot instantiate.  Induction is stated  *)
(* here about a set of numbers instead, to be used with {n \in Nat :       *)
(* P(n)}.                                                                  *)
(***************************************************************************)
EXTENDS Segment, SequenceTheorems, WellFoundedInduction, TLAPS

\* Most steps are first-order: Zenon is tried first, and then the SMT solver.
\* A step that needs numbers or sequences names the solver.
USE ZenonT(20), SMTT(30)

\* Every non-empty set of natural numbers has a least element.
LEMMA LeastNumber ==
  ASSUME NEW T \in SUBSET Nat, T # {}
  PROVE  \E m \in T : \A n \in T : m <= n
<1> DEFINE R == {p \in Nat \X Nat : p[1] < p[2]}
<1>1. IsWellFoundedOn(R, Nat)
  BY NatLessThanWellFounded DEF OpToRel
<1>2. PICK m \in T : \A n \in T : <<n, m>> \notin R
  BY <1>1, WFMin
<1>3. ASSUME NEW n \in T PROVE m <= n
  <2>1. <<n, m>> \in Nat \X Nat /\ <<n, m>>[1] = n /\ <<n, m>>[2] = m
    OBVIOUS
  <2>2. ~(n < m)
    BY <1>2, <2>1
  <2> QED
    BY <2>2
<1> QED
  BY <1>3

\* Induction: a set of numbers that has 0 and is closed under successor.
LEMMA SetInduction ==
  ASSUME NEW T \in SUBSET Nat, 0 \in T, \A n \in T : n + 1 \in T
  PROVE  T = Nat
<1> SUFFICES ASSUME T # Nat PROVE FALSE
  OBVIOUS
<1>1. PICK m \in Nat \ T : \A n \in Nat \ T : m <= n
  BY LeastNumber
<1>2. m # 0 /\ m - 1 \in Nat
  BY SMT, <1>1
<1>3. m - 1 \in T
  BY SMT, <1>1, <1>2
<1> QED
  BY SMT, <1>1, <1>2, <1>3

-----------------------------------------------------------------------------
\* A sequence, of whatever elements.  (Segments hold digests, which hold
\* segments; there is no set of all of them.)
IsSequence(s) == s \in Seq(Range(s))

\* Its length is a number, and it is the function of its elements.
LEMMA SequenceFacts ==
  ASSUME NEW s, IsSequence(s)
  PROVE  /\ Len(s) \in Nat
         /\ DOMAIN s = 1..Len(s)
         /\ s = [i \in 1..Len(s) |-> s[i]]
BY LenProperties DEF IsSequence

\* A function on 1..n is a sequence of length n.
LEMMA FunctionIsSequence ==
  ASSUME NEW s, NEW n \in Nat, s = [i \in 1..n |-> s[i]]
  PROVE  IsSequence(s) /\ Len(s) = n
<1>1. s \in [1..n -> Range(s)]
  BY DEF Range
<1> QED
  BY <1>1 DEF IsSequence

\* The chain of a store that nothing was appended to.
LEMMA EmptySequence == IsSequence(<<>>) /\ Len(<<>>) = 0
BY DEF IsSequence

\* Sequences are equal that have the same elements.
LEMMA SequencesEqual ==
  ASSUME NEW s, NEW t, IsSequence(s), IsSequence(t), Len(s) = Len(t),
         \A i \in 1..Len(s) : s[i] = t[i]
  PROVE  s = t
<1>1. s = [i \in 1..Len(s) |-> s[i]] /\ t = [i \in 1..Len(t) |-> t[i]]
  BY SequenceFacts
<1> QED
  BY <1>1

\* What Append returns.
LEMMA AppendFacts ==
  ASSUME NEW s, IsSequence(s), NEW e
  PROVE  /\ IsSequence(Append(s, e))
         /\ Len(Append(s, e)) = Len(s) + 1
         /\ \A i \in 1..Len(s) : Append(s, e)[i] = s[i]
         /\ Append(s, e)[Len(s) + 1] = e
         /\ Range(Append(s, e)) = Range(s) \cup {e}
<1> DEFINE S == Range(s) \cup {e}
<1>1. s \in Seq(S)
  BY SeqMonotonic DEF IsSequence
<1>2. e \in S
  OBVIOUS
<1> HIDE DEF S
<1>3. /\ Append(s, e) \in Seq(S)
      /\ Len(Append(s, e)) = Len(s) + 1
      /\ \A i \in 1..Len(s) : Append(s, e)[i] = s[i]
      /\ Append(s, e)[Len(s) + 1] = e
  BY SMT, <1>1, <1>2, AppendProperties
<1>4. Append(s, e) \in Seq(Range(Append(s, e)))
  BY <1>3, SeqOfRange
<1>5. Range(Append(s, e)) = Range(s) \cup {e}
  BY SMT, <1>1, <1>2, <1>3 DEF Range
<1> QED
  BY <1>3, <1>4, <1>5 DEF IsSequence

-----------------------------------------------------------------------------
\* SHA-256 is taken to be injective and never to give the zero digest.
LEMMA HashFacts ==
  ASSUME NEW x, NEW y
  PROVE  /\ Sha256(x) = Sha256(y) => x = y
         /\ Sha256(x) # ZeroHash
BY DEF Sha256, ZeroHash

\* The hash that a chain's tip holds is the one its next segment must carry.
LEMMA ChainTipFacts ==
  ASSUME NEW c, IsSequence(c)
  PROVE  /\ ChainTip(c).no = Len(c)
         /\ ChainTip(c).hash = PrevOf(c, Len(c) + 1)
<1>1. Len(c) \in Nat /\ (c = <<>> <=> Len(c) = 0)
  BY DEF IsSequence
<1> QED
  BY <1>1 DEF ChainTip, NoTip, PrevOf

\* A linked chain stays linked when a segment with the next number and the hash
\* of the tip is appended.
LEMMA AppendLinks ==
  ASSUME NEW c, IsSequence(c), Linked(c), NEW seg,
         seg.no = Len(c) + 1, seg.prev = ChainTip(c).hash
  PROVE  Linked(Append(c, seg))
<1> DEFINE d == Append(c, seg)
<1>1. /\ Len(d) = Len(c) + 1 /\ Len(c) \in Nat
      /\ \A i \in 1..Len(c) : d[i] = c[i]
      /\ d[Len(c) + 1] = seg
  BY SMT, AppendFacts, SequenceFacts
<1>2. seg.prev = PrevOf(c, Len(c) + 1)
  BY ChainTipFacts
<1> HIDE DEF d
<1>3. ASSUME NEW i \in 1..Len(d) PROVE d[i].no = i /\ d[i].prev = PrevOf(d, i)
  <2>1. PrevOf(d, i) = PrevOf(c, i)
    BY SMT, <1>1 DEF PrevOf
  <2>2. CASE i = Len(c) + 1
    BY <1>1, <1>2, <2>1, <2>2
  <2>3. CASE i \in 1..Len(c)
    BY <1>1, <2>1, <2>3 DEF Linked
  <2> QED
    BY <1>1, <2>2, <2>3
<1> QED
  BY <1>3 DEF Linked, d

\* Chain d is chain c, or c with more segments behind it.
Continues(d, c) ==
  /\ IsSequence(d) /\ Linked(d) /\ Len(c) <= Len(d)
  /\ \A i \in 1..Len(c) : d[i] = c[i]
  /\ \A j \in 1..(Len(c) + 1) : PrevOf(d, j) = PrevOf(c, j)

\* A linked chain continues itself.
LEMMA ContinuesItself ==
  ASSUME NEW c, IsSequence(c), Linked(c)
  PROVE  Continues(c, c)
BY SequenceFacts DEF Continues

\* An appended segment with the next number and the hash of the tip continues a
\* linked chain.
LEMMA AppendContinues ==
  ASSUME NEW c, IsSequence(c), Linked(c), NEW seg,
         seg.no = Len(c) + 1, seg.prev = ChainTip(c).hash
  PROVE  /\ Continues(Append(c, seg), c)
         /\ Len(Append(c, seg)) = Len(c) + 1
         /\ Append(c, seg)[seg.no] = seg
<1> DEFINE d == Append(c, seg)
<1>1. /\ IsSequence(d) /\ Len(d) = Len(c) + 1 /\ Len(c) \in Nat
      /\ \A i \in 1..Len(c) : d[i] = c[i]
      /\ d[seg.no] = seg
  BY SMT, AppendFacts, SequenceFacts
<1>2. Linked(d)
  BY AppendLinks
<1> HIDE DEF d
<1>3. \A j \in 1..(Len(c) + 1) : PrevOf(d, j) = PrevOf(c, j)
  BY SMT, <1>1 DEF PrevOf
<1>4. Continues(d, c)
  BY <1>1, <1>2, <1>3 DEF Continues
<1> QED
  BY <1>1, <1>4 DEF d

\* Two linked chains that agree on a segment agree on all before it: each hash
\* fixes its predecessor.
LEMMA LinkedAgree ==
  ASSUME NEW c, NEW d, IsSequence(c), IsSequence(d), Linked(c), Linked(d),
         NEW k \in 1..Len(c), k <= Len(d), c[k] = d[k]
  PROVE  \A i \in 1..k : c[i] = d[i]
<1> DEFINE T == {n \in Nat : n < k => c[k - n] = d[k - n]}
<1>0. Len(c) \in Nat /\ Len(d) \in Nat /\ k \in Nat
  BY SMT, SequenceFacts
<1>1. 0 \in T
  BY <1>0
<1>2. ASSUME NEW n \in T PROVE n + 1 \in T
  <2> SUFFICES ASSUME n + 1 < k PROVE c[k - (n + 1)] = d[k - (n + 1)]
    OBVIOUS
  <2> DEFINE j == k - n
  <2>1. j \in 2..k /\ j \in 1..Len(c) /\ j \in 1..Len(d) /\ k - (n + 1) = j - 1
    BY <1>0
  <2>2. c[j] = d[j]
    BY <1>0
  <2> HIDE DEF j
  <2>3. c[j].prev = PrevOf(c, j) /\ d[j].prev = PrevOf(d, j)
    BY <2>1 DEF Linked
  <2>4. Sha256(c[j - 1]) = Sha256(d[j - 1])
    BY <2>1, <2>2, <2>3 DEF PrevOf
  <2> QED
    BY <2>1, <2>4, HashFacts
<1>3. T = Nat
  BY <1>1, <1>2, SetInduction
<1>4. ASSUME NEW i \in 1..k PROVE c[i] = d[i]
  <2>1. k - i \in Nat /\ k - i < k /\ k - (k - i) = i
    BY <1>0
  <2>2. k - i \in T
    BY <1>3, <2>1
  <2> QED
    BY <2>1, <2>2
<1> QED
  BY <1>4

-----------------------------------------------------------------------------
\* The shape of what SegmentEncode returns, and of its strict prefixes.
IsSegment(seg) ==
  seg = [no |-> seg.no, prev |-> seg.prev, recs |-> seg.recs, root |-> seg.root,
         sig |-> seg.sig, whole |-> seg.whole]

\* Replacing one field of such a record.
LEMMA SetWhole ==
  ASSUME NEW a, NEW b, NEW c, NEW d, NEW e, NEW f, NEW v
  PROVE  [[no |-> a, prev |-> b, recs |-> c, root |-> d, sig |-> e, whole |-> f]
            EXCEPT !.whole = v]
         = [no |-> a, prev |-> b, recs |-> c, root |-> d, sig |-> e, whole |-> v]
OBVIOUS

\* A truncated segment keeps its fields but does not decode.
LEMMA TruncatedFacts ==
  ASSUME NEW seg, IsSegment(seg)
  PROVE  /\ IsSegment(Truncated(seg)) /\ ~Truncated(seg).whole
         /\ Truncated(seg).no = seg.no /\ Truncated(seg).prev = seg.prev
         /\ Truncated(seg).recs = seg.recs
<1> DEFINE a == seg.no  b == seg.prev  c == seg.recs  d == seg.root
           e == seg.sig  f == seg.whole
<1> HIDE DEF a, b, c, d, e, f
<1>1. seg = [no |-> a, prev |-> b, recs |-> c, root |-> d, sig |-> e, whole |-> f]
  BY DEF IsSegment, a, b, c, d, e, f
<1>2. PICK v \in BOOLEAN : v = FALSE /\ Truncated(seg) = [seg EXCEPT !.whole = v]
  BY Zenon DEF Truncated
<1>3. Truncated(seg) = [no |-> a, prev |-> b, recs |-> c, root |-> d,
                        sig |-> e, whole |-> v]
  BY <1>1, <1>2, SetWhole
<1>4. Truncated(seg).whole = FALSE
  BY <1>2, <1>3
<1>5. IsSegment(Truncated(seg))
  BY <1>3 DEF IsSegment
<1> QED
  BY <1>3, <1>4, <1>5 DEF a, b, c

\* segment_verify accepts a segment as the ledger encodes it, when each of its
\* records decodes and the root is absent or the right one.
LEMMA EncodedVerifies ==
  ASSUME NEW no, NEW prev, NEW recs, NEW root, NEW seg,
         seg = SegmentEncode(no, prev, recs, root, FALSE),
         \A i \in 1..Len(recs) : RecordDecodes(recs[i]),
         root = ZeroHash \/ root = MerkleRoot(recs)
  PROVE  SegmentVerify(seg) = "OK"
<1>1. /\ seg.whole = TRUE /\ seg.sig = FALSE /\ seg.recs = recs
      /\ seg.root = root
  BY DEF SegmentEncode
<1> QED
  BY <1>1 DEF SegmentVerify, SegmentDecodes
=============================================================================
