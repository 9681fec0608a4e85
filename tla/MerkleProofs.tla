---------------------------- MODULE MerkleProofs ----------------------------
(***************************************************************************)
(* Proofs about the Merkle tree of a segment (model/merkle.c), for record  *)
(* sequences of any length.                                                *)
(*                                                                         *)
(* The model writes the three loops of the code as recursive functions:    *)
(* the one that halves the number of nodes (the height), the one that      *)
(* replaces a level by its parents (the root) and the one that climbs a    *)
(* proof. For each of them the function is shown to exist and to be        *)
(* unique, and then its equation may be used. Induction is over the set of *)
(* numbers for which a fact holds.                                         *)
(*                                                                         *)
(* The last part shows that no two record sequences of the same length     *)
(* have the same root, from nothing but that different inputs have         *)
(* different hashes.                                                       *)
(***************************************************************************)
EXTENDS MerkleBuild, ChainTheorems

\* Most steps are first-order: Zenon is tried first, and then the SMT solver.
\* A step that needs numbers or sequences names the solver.
USE ZenonT(20), SMTT(30)

-----------------------------------------------------------------------------
\* Heights.  The loop that halves the number of nodes.
Halving(n, f) ==
  f = [k \in 0..n |-> IF k <= 1 THEN 0 ELSE f[(k + 1) \div 2] + 1]

\* Half of a number above 1, rounded up, is smaller and not 0: the loop ends.
LEMMA Halved ==
  ASSUME NEW k \in Nat, k > 1
  PROVE  (k + 1) \div 2 \in Nat /\ (k + 1) \div 2 >= 1 /\ (k + 1) \div 2 < k
OBVIOUS

\* The equation of the loop.
LEMMA HalvingStep ==
  ASSUME NEW n \in Nat, NEW f, Halving(n, f)
  PROVE  \A k \in 0..n : f[k] = IF k <= 1 THEN 0 ELSE f[(k + 1) \div 2] + 1
BY DEF Halving

\* The function that the loop computes exists.
LEMMA HalvingExists ==
  ASSUME NEW n \in Nat
  PROVE  \E f : Halving(n, f)
<1> DEFINE T == {k \in Nat : \E f : Halving(k, f)}
<1>1. 0 \in T
  <2> DEFINE f == [k \in 0..0 |-> 0]
  <2>1. Halving(0, f)
    BY DEF Halving
  <2> QED
    BY <2>1
<1>2. ASSUME NEW k \in T PROVE k + 1 \in T
  <2>1. PICK f : Halving(k, f)
    OBVIOUS
  <2> DEFINE g == [i \in 0..(k + 1) |->
                     IF i <= 1 THEN 0 ELSE f[(i + 1) \div 2] + 1]
  <2>2. \A i \in 0..k : g[i] = f[i]
    BY SMT, <2>1, HalvingStep
  <2>3. \A i \in 0..(k + 1) : i > 1 => (i + 1) \div 2 \in 0..k
    BY SMT, Halved
  <2>5. \A i \in 0..(k + 1) : i > 1 => g[(i + 1) \div 2] = f[(i + 1) \div 2]
    BY <2>2, <2>3
  <2>4. \A i \in 0..(k + 1) : g[i] = IF i <= 1 THEN 0 ELSE f[(i + 1) \div 2] + 1
    OBVIOUS
  <2>6. g = [i \in 0..(k + 1) |-> g[i]]
    OBVIOUS
  <2> HIDE DEF g
  <2>8. \A i \in 0..(k + 1) : g[i] = IF i <= 1 THEN 0 ELSE g[(i + 1) \div 2] + 1
    BY SMT, <2>4, <2>5
  <2>7. Halving(k + 1, g)
    BY <2>6, <2>8 DEF Halving
  <2> QED
    BY <2>7
<1>3. T = Nat
  BY <1>1, <1>2, SetInduction
<1> QED
  BY <1>3

\* It is unique, whatever the number it is started with.
LEMMA HalvingAgree ==
  ASSUME NEW m \in Nat, NEW n \in Nat, m <= n,
         NEW f, Halving(m, f), NEW g, Halving(n, g)
  PROVE  \A i \in 0..m : f[i] = g[i] /\ f[i] \in Nat
<1> DEFINE T == {k \in Nat : \A i \in 0..k : i <= m => f[i] = g[i] /\ f[i] \in Nat}
<1>0. /\ \A k \in 0..m : f[k] = IF k <= 1 THEN 0 ELSE f[(k + 1) \div 2] + 1
      /\ \A k \in 0..n : g[k] = IF k <= 1 THEN 0 ELSE g[(k + 1) \div 2] + 1
  BY SMT, HalvingStep
<1>1. 0 \in T
  BY SMT, <1>0
<1>2. ASSUME NEW k \in T PROVE k + 1 \in T
  <2> SUFFICES ASSUME k + 1 <= m PROVE f[k + 1] = g[k + 1] /\ f[k + 1] \in Nat
    BY SMT
  <2>1. k + 1 \in 0..m /\ k + 1 \in 0..n /\ k \in Nat
    OBVIOUS
  <2>2. CASE k + 1 <= 1
    BY SMT, <1>0, <2>1, <2>2
  <2>3. CASE k + 1 > 1
    <3> DEFINE j == ((k + 1) + 1) \div 2
    <3>1. j \in Nat /\ j < k + 1
      BY SMT, <2>1, <2>3, Halved
    <3>2. f[k + 1] = f[j] + 1 /\ g[k + 1] = g[j] + 1
      BY SMT, <1>0, <2>1, <2>3
    <3> HIDE DEF j
    <3>3. f[j] = g[j] /\ f[j] \in Nat
      BY <3>1
    <3> QED
      BY SMT, <3>2, <3>3
  <2> QED
    BY SMT, <2>1, <2>2, <2>3
<1>3. T = Nat
  BY <1>1, <1>2, SetInduction
<1>4. ASSUME NEW i \in 0..m PROVE f[i] = g[i] /\ f[i] \in Nat
  <2>1. i \in T /\ i \in 0..i /\ i <= m
    BY SMT, <1>3
  <2> QED
    BY <2>1
<1> QED
  BY <1>4

\* The height of n nodes can be read off the function for any larger number.
LEMMA HeightIs ==
  ASSUME NEW n \in Nat, NEW m \in Nat, n <= m, NEW f, Halving(m, f)
  PROVE  MerkleHeight(n) = f[n] /\ MerkleHeight(n) \in Nat
<1> DEFINE g == CHOOSE g : g = [k \in 0..n |-> IF k <= 1 THEN 0
                                               ELSE g[(k + 1) \div 2] + 1]
<1>1. MerkleHeight(n) = g[n]
  BY DEF MerkleHeight
<1>2. Halving(n, g)
  BY HalvingExists DEF Halving
<1> HIDE DEF g
<1>3. g[n] = f[n] /\ g[n] \in Nat
  BY SMT, <1>2, HalvingAgree
<1> QED
  BY <1>1, <1>3

\* One node has height 0, and a level is one higher than its parents.
LEMMA HeightFacts ==
  ASSUME NEW n \in Nat
  PROVE  /\ MerkleHeight(n) \in Nat
         /\ n <= 1 => MerkleHeight(n) = 0
         /\ n > 1 => MerkleHeight(n) = MerkleHeight((n + 1) \div 2) + 1
<1>1. PICK f : Halving(n, f)
  BY HalvingExists
<1>2. MerkleHeight(n) = f[n] /\ MerkleHeight(n) \in Nat
  BY <1>1, HeightIs
<1>3. f[n] = IF n <= 1 THEN 0 ELSE f[(n + 1) \div 2] + 1
  BY SMT, <1>1, HalvingStep
<1>4. ASSUME n > 1 PROVE MerkleHeight((n + 1) \div 2) = f[(n + 1) \div 2]
  <2>1. PICK h \in Nat : h = (n + 1) \div 2 /\ h <= n
    BY SMT, <1>4, Halved
  <2>2. MerkleHeight(h) = f[h]
    BY <1>1, <2>1, HeightIs
  <2> QED
    BY <2>1, <2>2
<1> QED
  BY <1>2, <1>3, <1>4

-----------------------------------------------------------------------------
\* Digests.
IsDigest(x) == x = <<x[1]>>

\* Hashes are digests.
LEMMA Sha256IsDigest ==
  ASSUME NEW x
  PROVE  IsDigest(Sha256(x)) /\ \A l, r : IsDigest(HashConcat(l, r))
BY DEF IsDigest, Sha256, HashConcat

\* Two nodes have the same hash only when their children have.
LEMMA HashConcatInjective ==
  ASSUME NEW a, NEW b, NEW c, NEW d, IsDigest(a), IsDigest(b), IsDigest(c), IsDigest(d),
         HashConcat(a, b) = HashConcat(c, d)
  PROVE  a = c /\ b = d
<1>1. a \o b = c \o d
  BY DEF HashConcat, Sha256
<1>2. ASSUME NEW x, NEW y, IsDigest(x), IsDigest(y)
      PROVE  (x \o y)[1] = x[1] /\ (x \o y)[2] = y[1]
  <2>1. PICK p, q : x = <<p>> /\ y = <<q>>
    BY <1>2 DEF IsDigest
  <2>2. <<p>> \in Seq({p, q}) /\ <<q>> \in Seq({p, q})
    OBVIOUS
  <2>3. Len(<<p>>) = 1 /\ Len(<<q>>) = 1 /\ <<p>>[1] = p /\ <<q>>[1] = q
    OBVIOUS
  <2>4. (<<p>> \o <<q>>)[1] = p /\ (<<p>> \o <<q>>)[2] = q
    BY SMT, <2>2, <2>3, ConcatProperties
  <2> QED
    BY <2>1, <2>3, <2>4
<1>3. a[1] = c[1] /\ b[1] = d[1]
  BY SMTT(30), <1>1, <1>2
<1> QED
  BY <1>3 DEF IsDigest

\* A level of the tree: digests, at least one.
IsLevel(l) == IsSequence(l) /\ Len(l) >= 1 /\ \A i \in 1..Len(l) : IsDigest(l[i])

\* The leaves are the hashes of the records.
LEMMA LeafFacts ==
  ASSUME NEW rs, IsSequence(rs), Len(rs) >= 1
  PROVE  /\ IsLevel(LeafLevel(rs)) /\ Len(LeafLevel(rs)) = Len(rs)
         /\ \A i \in 1..Len(rs) : LeafLevel(rs)[i] = Sha256(rs[i])
<1> DEFINE l == LeafLevel(rs)
<1>1. Len(rs) \in Nat
  BY SequenceFacts
<1>2. l = [i \in 1..Len(rs) |-> l[i]] /\ \A i \in 1..Len(rs) : l[i] = Sha256(rs[i])
  BY DEF LeafLevel
<1> HIDE DEF l
<1>3. IsSequence(l) /\ Len(l) = Len(rs)
  BY <1>1, <1>2, FunctionIsSequence
<1>4. \A i \in 1..Len(rs) : IsDigest(l[i])
  BY <1>2, Sha256IsDigest
<1> QED
  BY <1>2, <1>3, <1>4 DEF IsLevel, l

\* The pass of the loop over one level: pairs are hashed, and a last node
\* without a partner is paired with itself.
LEMMA ParentFacts ==
  ASSUME NEW a, IsLevel(a)
  PROVE  /\ Len(a) \in Nat /\ (Len(a) + 1) \div 2 \in Nat
         /\ IsLevel(ParentLevel(a)) /\ Len(ParentLevel(a)) = (Len(a) + 1) \div 2
         /\ \A i \in 1..((Len(a) + 1) \div 2) :
              ParentLevel(a)[i] =
                HashConcat(a[2 * i - 1],
                           IF 2 * i <= Len(a) THEN a[2 * i] ELSE a[2 * i - 1])
<1> DEFINE p == ParentLevel(a)
           m == (Len(a) + 1) \div 2
<1>1. Len(a) \in Nat /\ m \in Nat /\ m >= 1
  BY SequenceFacts DEF IsLevel
<1>2. /\ p = [i \in 1..m |-> p[i]]
      /\ \A i \in 1..m : p[i] = HashConcat(a[2 * i - 1],
                           IF 2 * i <= Len(a) THEN a[2 * i] ELSE a[2 * i - 1])
  BY DEF ParentLevel
<1> HIDE DEF p, m
<1>3. IsSequence(p) /\ Len(p) = m
  BY <1>1, <1>2, FunctionIsSequence
<1>4. \A i \in 1..m : IsDigest(p[i])
  BY <1>2, Sha256IsDigest
<1> QED
  BY <1>1, <1>2, <1>3, <1>4 DEF IsLevel, p, m

\* Two levels of the same length with the same parents are the same.
LEMMA ParentInjective ==
  ASSUME NEW a, NEW b, IsLevel(a), IsLevel(b), Len(a) = Len(b),
         ParentLevel(a) = ParentLevel(b)
  PROVE  a = b
<1> DEFINE n == Len(a)
           L(c, i) == c[2 * i - 1]
           R(c, i) == IF 2 * i <= n THEN c[2 * i] ELSE c[2 * i - 1]
<1>1. n \in Nat
  BY ParentFacts
<1>2. \A i \in 1..((n + 1) \div 2) : HashConcat(L(a, i), R(a, i)) = HashConcat(L(b, i), R(b, i))
  BY ParentFacts
<1>3. ASSUME NEW i \in 1..((n + 1) \div 2)
      PROVE  L(a, i) = L(b, i) /\ R(a, i) = R(b, i)
  <2>1. 2 * i - 1 \in 1..n /\ (2 * i <= n => 2 * i \in 1..n)
    BY <1>1
  <2>2. /\ IsDigest(L(a, i)) /\ IsDigest(L(b, i))
        /\ IsDigest(R(a, i)) /\ IsDigest(R(b, i))
    BY <2>1 DEF IsLevel
  <2>3. HashConcat(L(a, i), R(a, i)) = HashConcat(L(b, i), R(b, i))
    BY <1>2
  <2> HIDE DEF L, R
  <2> QED
    BY <2>2, <2>3, HashConcatInjective
<1>4. ASSUME NEW j \in 1..n PROVE a[j] = b[j]
  <2>1. PICK i \in 1..((n + 1) \div 2) : j = 2 * i - 1 \/ j = 2 * i
    <3>1. (j + 1) \div 2 \in 1..((n + 1) \div 2)
      BY <1>1
    <3>2. j = 2 * ((j + 1) \div 2) - 1 \/ j = 2 * ((j + 1) \div 2)
      OBVIOUS
    <3> QED
      BY <3>1, <3>2
  <2> QED
    BY <1>1, <1>3, <2>1
<1> QED
  BY <1>4, SequencesEqual DEF IsLevel

-----------------------------------------------------------------------------
\* The levels from the leaves up to height h.
Levels(rs, h, f) ==
  f = [k \in 0..h |-> IF k = 0 THEN LeafLevel(rs) ELSE ParentLevel(f[k - 1])]

\* The equations of the levels.
LEMMA LevelsStep ==
  ASSUME NEW rs, NEW h \in Nat, NEW f, Levels(rs, h, f)
  PROVE  /\ f[0] = LeafLevel(rs)
         /\ \A k \in 0..h : k + 1 <= h => f[k + 1] = ParentLevel(f[k])
<1>1. \A k \in 0..h : f[k] = IF k = 0 THEN LeafLevel(rs) ELSE ParentLevel(f[k - 1])
  BY DEF Levels
<1>2. f[0] = LeafLevel(rs)
  BY <1>1
<1>3. ASSUME NEW k \in 0..h, k + 1 <= h PROVE f[k + 1] = ParentLevel(f[k])
  <2>1. k + 1 \in 0..h /\ k + 1 # 0 /\ (k + 1) - 1 = k
    BY <1>3
  <2> QED
    BY <1>1, <2>1
<1> QED
  BY <1>2, <1>3

\* The equation of one level.
LEMMA LevelUp ==
  ASSUME NEW rs, NEW h \in Nat, NEW f, Levels(rs, h, f),
         NEW k \in 0..h, k + 1 <= h
  PROVE  f[k + 1] = ParentLevel(f[k])
<1>1. \A i \in 0..h : f[i] = IF i = 0 THEN LeafLevel(rs) ELSE ParentLevel(f[i - 1])
  BY DEF Levels
<1>2. k + 1 \in 0..h /\ k + 1 # 0 /\ (k + 1) - 1 = k
  OBVIOUS
<1> QED
  BY <1>1, <1>2

\* One more pass.
LEMMA LevelsExtend ==
  ASSUME NEW rs, NEW h \in Nat, NEW f, Levels(rs, h, f)
  PROVE  \E g : Levels(rs, h + 1, g) /\ \A k \in 0..h : g[k] = f[k]
<1> DEFINE g == [k \in 0..(h + 1) |->
                   IF k = 0 THEN LeafLevel(rs) ELSE ParentLevel(f[k - 1])]
<1>1. \A k \in 0..h : f[k] = IF k = 0 THEN LeafLevel(rs) ELSE ParentLevel(f[k - 1])
  BY DEF Levels
<1>2. \A k \in 0..h : g[k] = f[k]
  BY <1>1
<1>3. \A k \in 0..(h + 1) : k # 0 => k - 1 \in 0..h
  OBVIOUS
<1>4. Levels(rs, h + 1, g)
  BY <1>2, <1>3 DEF Levels
<1> QED
  BY <1>2, <1>4

\* The levels of a tree exist.
LEMMA LevelsExist ==
  ASSUME NEW rs, NEW h \in Nat
  PROVE  \E f : Levels(rs, h, f)
<1> DEFINE T == {k \in Nat : \E f : Levels(rs, k, f)}
<1>1. 0 \in T
  <2> DEFINE f == [k \in 0..0 |-> LeafLevel(rs)]
  <2>1. Levels(rs, 0, f)
    BY DEF Levels
  <2> QED
    BY <2>1
<1>2. ASSUME NEW k \in T PROVE k + 1 \in T
  <2>1. PICK f : Levels(rs, k, f)
    OBVIOUS
  <2> QED
    BY <2>1, LevelsExtend
<1>3. T = Nat
  BY <1>1, <1>2, SetInduction
<1> QED
  BY <1>3

\* They are unique.
LEMMA LevelsAgree ==
  ASSUME NEW rs, NEW h \in Nat, NEW f, Levels(rs, h, f), NEW g, Levels(rs, h, g)
  PROVE  \A k \in 0..h : f[k] = g[k]
<1> DEFINE T == {k \in Nat : k <= h => f[k] = g[k]}
<1>1. 0 \in T
  BY LevelsStep
<1>2. ASSUME NEW k \in T PROVE k + 1 \in T
  <2> SUFFICES ASSUME k + 1 <= h PROVE f[k + 1] = g[k + 1]
    OBVIOUS
  <2>1. k \in 0..h /\ f[k] = g[k]
    OBVIOUS
  <2>2. f[k + 1] = ParentLevel(f[k]) /\ g[k + 1] = ParentLevel(g[k])
    BY SMT, <2>1, LevelsStep
  <2> QED
    BY <2>1, <2>2
<1>3. T = Nat
  BY <1>1, <1>2, SetInduction
<1>4. ASSUME NEW k \in 0..h PROVE f[k] = g[k]
  <2>1. k \in T /\ k <= h
    BY <1>3
  <2> QED
    BY <2>1
<1> QED
  BY <1>4

\* What the levels of a tree look like: the one of height k has k less to go.
LEMMA LevelsShape ==
  ASSUME NEW rs, IsSequence(rs), Len(rs) >= 1,
         NEW h \in Nat, h <= MerkleHeight(Len(rs)), NEW f, Levels(rs, h, f)
  PROVE  \A k \in 0..h : /\ IsLevel(f[k])
                         /\ MerkleHeight(Len(f[k])) + k = MerkleHeight(Len(rs))
<1> DEFINE H == MerkleHeight(Len(rs))
           Good(k) == IsLevel(f[k]) /\ MerkleHeight(Len(f[k])) + k = H
           T == {k \in Nat : k <= h => Good(k)}
<1>0. Len(rs) \in Nat /\ H \in Nat
  BY SequenceFacts, HeightFacts
<1> HIDE DEF H
<1>1. 0 \in T
  <2>1. f[0] = LeafLevel(rs)
    BY LevelsStep
  <2>2. IsLevel(f[0]) /\ Len(f[0]) = Len(rs)
    BY <2>1, LeafFacts
  <2> QED
    BY <1>0, <2>2 DEF H
<1>2. ASSUME NEW k \in T PROVE k + 1 \in T
  <2> SUFFICES ASSUME k + 1 <= h PROVE Good(k + 1)
    OBVIOUS
  <2>1. k \in 0..h /\ Good(k)
    OBVIOUS
  <2>2. f[k + 1] = ParentLevel(f[k])
    BY SMT, <2>1, LevelUp
  <2> DEFINE n == Len(f[k])
  <2>3. /\ n \in Nat /\ IsLevel(f[k + 1]) /\ Len(f[k + 1]) = (n + 1) \div 2
    BY <2>1, <2>2, ParentFacts
  <2>4. MerkleHeight(n) + k = H /\ MerkleHeight(n) \in Nat
    BY <2>1, <2>3, HeightFacts
  <2> HIDE DEF n, Good
  <2>5. n > 1
    <3>1. MerkleHeight(n) # 0
      BY <1>0, <2>4 DEF H
    <3> QED
      BY SMT, <2>3, <3>1, HeightFacts
  <2>6. MerkleHeight(n) = MerkleHeight((n + 1) \div 2) + 1
    BY <2>3, <2>5, HeightFacts
  <2>7. MerkleHeight((n + 1) \div 2) \in Nat
    <3>1. PICK m \in Nat : m = (n + 1) \div 2
      BY <2>3
    <3> QED
      BY <3>1, HeightFacts
  <2>8. MerkleHeight((n + 1) \div 2) + (k + 1) = H
    BY <2>4, <2>6, <2>7
  <2> QED
    BY <2>3, <2>8 DEF Good
<1>3. T = Nat
  <2> HIDE DEF Good
  <2> QED
    BY <1>1, <1>2, SetInduction
<1>4. ASSUME NEW k \in 0..h PROVE Good(k)
  <2>1. k \in T /\ k <= h
    BY <1>3
  <2> QED
    BY <2>1
<1> QED
  BY <1>4 DEF H

\* merkle_root returns the first node of the level at the height of the tree.
LEMMA RootFacts ==
  ASSUME NEW rs, IsSequence(rs), Len(rs) >= 1
  PROVE  \E f : /\ Levels(rs, MerkleHeight(Len(rs)), f)
                /\ MerkleRoot(rs) = f[MerkleHeight(Len(rs))][1]
<1> DEFINE H == MerkleHeight(Len(rs))
           g == CHOOSE g : g = [k \in 0..H |-> IF k = 0 THEN LeafLevel(rs)
                                               ELSE ParentLevel(g[k - 1])]
<1>1. H \in Nat /\ rs # <<>>
  BY SequenceFacts, HeightFacts
<1>2. MerkleRoot(rs) = g[H][1]
  BY <1>1 DEF MerkleRoot
<1> HIDE DEF H
<1>3. Levels(rs, H, g)
  BY ZenonT(60), <1>1, LevelsExist DEF Levels
<1> QED
  BY <1>2, <1>3 DEF H

-----------------------------------------------------------------------------
\* The loop of proof_verify.
Climbs(rec, p, n, f) ==
  f = [i \in 0..n |->
         IF i = 0 THEN Sha256(rec)
         ELSE IF p[i].is_left THEN HashConcat(p[i].sibling, f[i - 1])
                              ELSE HashConcat(f[i - 1], p[i].sibling)]

\* One step of merkle_proof_verify.
Climbed(step, cur) ==
  IF step.is_left THEN HashConcat(step.sibling, cur) ELSE HashConcat(cur, step.sibling)

\* The equation of the function that proof_verify computes.
LEMMA ClimbsIff ==
  ASSUME NEW rec, NEW p, NEW n, NEW f
  PROVE  Climbs(rec, p, n, f) <=>
           f = [i \in 0..n |-> IF i = 0 THEN Sha256(rec) ELSE Climbed(p[i], f[i - 1])]
BY DEF Climbs, Climbed

\* The same, by cases.
LEMMA ClimbsStep ==
  ASSUME NEW rec, NEW p, NEW n \in Nat, NEW f, Climbs(rec, p, n, f)
  PROVE  /\ f[0] = Sha256(rec)
         /\ \A i \in 0..n : i + 1 <= n => f[i + 1] = Climbed(p[i + 1], f[i])
<1>1. \A i \in 0..n : f[i] = IF i = 0 THEN Sha256(rec) ELSE Climbed(p[i], f[i - 1])
  BY ClimbsIff
<1>2. f[0] = Sha256(rec)
  BY <1>1
<1>3. ASSUME NEW i \in 0..n, i + 1 <= n PROVE f[i + 1] = Climbed(p[i + 1], f[i])
  <2>1. i + 1 \in 0..n /\ i + 1 # 0 /\ (i + 1) - 1 = i
    BY <1>3
  <2> QED
    BY <1>1, <2>1
<1> QED
  BY <1>2, <1>3

\* The equation of one proof step.
LEMMA ClimbUp ==
  ASSUME NEW rec, NEW p, NEW n \in Nat, NEW f, Climbs(rec, p, n, f),
         NEW i \in 0..n, i + 1 <= n
  PROVE  f[i + 1] = Climbed(p[i + 1], f[i])
<1>1. \A k \in 0..n : f[k] = IF k = 0 THEN Sha256(rec) ELSE Climbed(p[k], f[k - 1])
  BY ClimbsIff
<1>2. i + 1 \in 0..n /\ i + 1 # 0 /\ (i + 1) - 1 = i
  OBVIOUS
<1> QED
  BY <1>1, <1>2

\* The function exists.
LEMMA ClimbsExist ==
  ASSUME NEW rec, NEW p, NEW n \in Nat
  PROVE  \E f : Climbs(rec, p, n, f)
<1> DEFINE T == {k \in Nat : \E f : Climbs(rec, p, k, f)}
<1>1. 0 \in T
  <2> DEFINE f == [k \in 0..0 |-> Sha256(rec)]
  <2>1. f = [i \in 0..0 |-> IF i = 0 THEN Sha256(rec) ELSE Climbed(p[i], f[i - 1])]
    OBVIOUS
  <2> HIDE DEF f
  <2> QED
    BY <2>1, ClimbsIff
<1>2. ASSUME NEW k \in T PROVE k + 1 \in T
  <2>1. PICK f : Climbs(rec, p, k, f)
    OBVIOUS
  <2> DEFINE g == [i \in 0..(k + 1) |->
                     IF i = 0 THEN Sha256(rec) ELSE Climbed(p[i], f[i - 1])]
  <2>2. \A i \in 0..k : f[i] = IF i = 0 THEN Sha256(rec) ELSE Climbed(p[i], f[i - 1])
    BY <2>1, ClimbsIff
  <2>3. \A i \in 0..k : g[i] = f[i]
    BY <2>2
  <2>4. \A i \in 0..(k + 1) : i # 0 => i - 1 \in 0..k
    OBVIOUS
  <2>5. g = [i \in 0..(k + 1) |->
               IF i = 0 THEN Sha256(rec) ELSE Climbed(p[i], g[i - 1])]
    BY <2>3, <2>4
  <2> HIDE DEF g
  <2> QED
    BY SMTT(30), <2>5, ClimbsIff
<1>3. T = Nat
  BY <1>1, <1>2, SetInduction
<1> QED
  BY <1>3

\* It depends only on the steps of the proof that it has taken.
LEMMA ClimbsAgree ==
  ASSUME NEW rec, NEW p, NEW q, NEW m \in Nat, NEW n \in Nat, m <= n,
         \A i \in 1..m : p[i] = q[i],
         NEW f, Climbs(rec, p, m, f), NEW g, Climbs(rec, q, n, g)
  PROVE  \A i \in 0..m : f[i] = g[i]
<1> DEFINE T == {k \in Nat : k <= m => f[k] = g[k]}
<1>1. 0 \in T
  <2>1. f[0] = Sha256(rec) /\ g[0] = Sha256(rec)
    BY ClimbsStep
  <2> QED
    BY <2>1
<1>2. ASSUME NEW k \in T PROVE k + 1 \in T
  <2> SUFFICES ASSUME k + 1 <= m PROVE f[k + 1] = g[k + 1]
    OBVIOUS
  <2>1. k \in 0..m /\ k \in 0..n /\ k + 1 <= n /\ k + 1 \in 1..m /\ f[k] = g[k]
    OBVIOUS
  <2>2. f[k + 1] = Climbed(p[k + 1], f[k]) /\ g[k + 1] = Climbed(q[k + 1], g[k])
    BY SMTT(30), <2>1, ClimbsStep
  <2>3. p[k + 1] = q[k + 1]
    BY <2>1
  <2> QED
    BY <2>1, <2>2, <2>3
<1>3. T = Nat
  BY <1>1, <1>2, SetInduction
<1>4. ASSUME NEW k \in 0..m PROVE f[k] = g[k]
  <2>1. k \in T /\ k <= m
    BY <1>3
  <2> QED
    BY <2>1
<1> QED
  BY <1>4

\* Climb is the last value of that function.
LEMMA ClimbUnfold ==
  ASSUME NEW rec, NEW p, IsSequence(p)
  PROVE  \E f : Climbs(rec, p, Len(p), f) /\ Climb(rec, p) = f[Len(p)]
<1> DEFINE Is(g) == g =
             [i \in 0..Len(p) |->
                IF i = 0 THEN Sha256(rec)
                ELSE IF p[i].is_left THEN HashConcat(p[i].sibling, g[i - 1])
                                     ELSE HashConcat(g[i - 1], p[i].sibling)]
           c == CHOOSE g : Is(g)
<1>1. Len(p) \in Nat
  BY SequenceFacts
<1>2. Climb(rec, p) = c[Len(p)]
  BY DEF Climb
<1>4. \E g : Climbs(rec, p, Len(p), g)
  BY <1>1, ClimbsExist
<1>5. \A g : Climbs(rec, p, Len(p), g) <=> Is(g)
  BY Zenon DEF Climbs
<1> HIDE DEF Is
<1>6. Is(c)
  BY <1>4, <1>5
<1>3. Climbs(rec, p, Len(p), c)
  BY <1>5, <1>6
<1> QED
  BY <1>2, <1>3

\* An empty proof leads to the leaf.
LEMMA ClimbEmpty ==
  ASSUME NEW rec
  PROVE  Climb(rec, <<>>) = Sha256(rec)
<1>1. IsSequence(<<>>) /\ Len(<<>>) = 0
  BY EmptySequence
<1>2. PICK p : p = <<>>
  OBVIOUS
<1>3. PICK f : Climbs(rec, p, 0, f) /\ Climb(rec, p) = f[0]
  BY <1>1, <1>2, ClimbUnfold
<1> QED
  BY <1>2, <1>3, ClimbsStep

\* One more proof step leads one level up.
LEMMA ClimbAppend ==
  ASSUME NEW rec, NEW p, IsSequence(p), NEW step
  PROVE  Climb(rec, Append(p, step)) = Climbed(step, Climb(rec, p))
<1> DEFINE n == Len(p)
           q == Append(p, step)
<1>1. /\ n \in Nat /\ n + 1 \in Nat /\ n <= n + 1
      /\ IsSequence(q) /\ Len(q) = n + 1
      /\ \A i \in 1..n : p[i] = q[i]
      /\ q[n + 1] = step
  BY SMT, SequenceFacts, AppendFacts
<1> HIDE DEF q
<1>2. PICK f : Climbs(rec, p, n, f) /\ Climb(rec, p) = f[n]
  BY ClimbUnfold
<1>3. PICK g : Climbs(rec, q, n + 1, g) /\ Climb(rec, q) = g[n + 1]
  BY <1>1, ClimbUnfold
<1> HIDE DEF n
<1>4. \A i \in 0..n : f[i] = g[i]
  <2>1. PICK m \in Nat : m = n + 1
    BY <1>1
  <2> QED
    BY SMT, <1>1, <1>2, <1>3, <2>1, ClimbsAgree
<1>5. g[n + 1] = Climbed(q[n + 1], g[n])
  <2>1. PICK m \in Nat : m = n + 1
    BY <1>1
  <2>2. n \in 0..m /\ n + 1 <= m
    BY <1>1, <2>1
  <2>3. Climbs(rec, q, m, g)
    BY <1>3, <2>1
  <2> QED
    BY SMT, <2>2, <2>3, ClimbUp
<1>6. f[n] = g[n]
  BY <1>1, <1>4
<1> QED
  BY <1>1, <1>2, <1>3, <1>5, <1>6 DEF q

-----------------------------------------------------------------------------
\* The state of the loop.
IInv ==
  /\ IsSequence(recs) /\ index \in 1..Len(recs)
  /\ IsSequence(proof)
  /\ Len(proof) <= MerkleHeight(Len(recs))
  /\ \E f : Levels(recs, Len(proof), f) /\ level = f[Len(proof)]
  /\ idx \in 1..Len(level)
  /\ ProofLeadsToLevel

\* The invariant holds before the first pass.
LEMMA InitIInv == Init => IInv
<1> SUFFICES ASSUME Init PROVE IInv
  OBVIOUS
<1>1. PICK n \in 1..MaxLeaves : recs \in [1..n -> Record] /\ index \in 1..n
  BY DEF Init
<1>2. level = LeafLevel(recs) /\ idx = index /\ proof = <<>>
  BY DEF Init
<1>3. n \in Nat /\ n >= 1
  BY MerkleBuildAssumption
<1>4. IsSequence(recs) /\ Len(recs) = n
  <2>1. recs = [i \in 1..n |-> recs[i]]
    BY <1>1
  <2> QED
    BY <1>3, <2>1, FunctionIsSequence
<1>5. IsSequence(proof) /\ Len(proof) = 0
  BY <1>2, EmptySequence
<1>6. PICK f : Levels(recs, 0, f)
  BY LevelsExist
<1>7. level = f[0]
  BY <1>2, <1>6, LevelsStep
<1>8. /\ Len(level) = n
      /\ \A i \in 1..n : level[i] = Sha256(recs[i])
  BY <1>2, <1>3, <1>4, LeafFacts
<1>9. ProofLeadsToLevel
  BY <1>1, <1>2, <1>8, ClimbEmpty DEF ProofLeadsToLevel
<1>10. Len(proof) <= MerkleHeight(Len(recs))
  BY SMT, <1>3, <1>4, <1>5, HeightFacts
<1> QED
  BY <1>1, <1>2, <1>4, <1>5, <1>6, <1>7, <1>8, <1>9, <1>10 DEF IInv

\* One level up, the proof leads to the parent.
LEMMA ClimbToParent ==
  ASSUME NEW a, IsLevel(a), NEW i \in 1..Len(a)
  PROVE  /\ ParentIndex(i) \in 1..Len(ParentLevel(a))
         /\ Climbed(ProofStep(a, i), a[i]) = ParentLevel(a)[ParentIndex(i)]
<1> DEFINE n == Len(a)
           j == ParentIndex(i)
           m == (n + 1) \div 2
<1>1. n \in Nat /\ m \in Nat /\ Len(ParentLevel(a)) = m
  BY ParentFacts
<1>2. j \in 1..m /\ j = (i + 1) \div 2
  BY <1>1 DEF ParentIndex
<1>3. ParentLevel(a)[j] = HashConcat(a[2 * j - 1],
                            IF 2 * j <= n THEN a[2 * j] ELSE a[2 * j - 1])
  BY <1>2, ParentFacts
<1> HIDE DEF j, n, m
<1>4. CASE i % 2 = 1
  <2>1. 2 * j - 1 = i /\ 2 * j = i + 1
    BY <1>2, <1>4
  <2>2. Climbed(ProofStep(a, i), a[i]) =
          HashConcat(a[i], IF i + 1 <= n THEN a[i + 1] ELSE a[i])
    BY <1>4 DEF ProofStep, Climbed, n
  <2> QED
    BY <1>1, <1>2, <1>3, <2>1, <2>2 DEF j
<1>5. CASE i % 2 # 1
  <2>1. 2 * j - 1 = i - 1 /\ 2 * j = i /\ i <= n
    BY <1>2, <1>5 DEF n
  <2>2. Climbed(ProofStep(a, i), a[i]) = HashConcat(a[i - 1], a[i])
    BY <1>5 DEF ProofStep, Climbed
  <2> QED
    BY <1>1, <1>2, <1>3, <2>1, <2>2 DEF j
<1> QED
  BY <1>4, <1>5

\* Each pass of merkle_proof_build keeps the invariant.
LEMMA StepIInv == IInv /\ [Next]_vars => IInv'
<1> SUFFICES ASSUME IInv, [Next]_vars PROVE IInv'
  OBVIOUS
<1>1. CASE UNCHANGED vars
  BY <1>1 DEF vars, IInv, ProofLeadsToLevel
<1>2. CASE Next
  <2> DEFINE n == Len(proof)
             H == MerkleHeight(Len(recs))
  <2>1. /\ Len(level) > 1
        /\ proof' = Append(proof, ProofStep(level, idx))
        /\ level' = ParentLevel(level) /\ idx' = ParentIndex(idx)
        /\ recs' = recs /\ index' = index
    BY <1>2 DEF Next, BuildLevel
  <2>2. /\ IsSequence(recs) /\ index \in 1..Len(recs) /\ IsSequence(proof)
        /\ n <= H /\ idx \in 1..Len(level)
    BY DEF IInv
  <2>3. n \in Nat /\ Len(recs) \in Nat /\ H \in Nat /\ Len(recs) >= 1
    BY <2>2, SequenceFacts, HeightFacts
  <2>4. PICK f : Levels(recs, n, f) /\ level = f[n]
    BY DEF IInv
  <2>5. IsSequence(proof') /\ Len(proof') = n + 1
    BY <2>1, <2>2, AppendFacts
  <2> HIDE DEF n, H
  <2>6. IsLevel(level) /\ MerkleHeight(Len(level)) + n = H
    BY SMT, <2>2, <2>3, <2>4, LevelsShape DEF H
  <2>7. n + 1 <= H
    <3>1. Len(level) \in Nat /\ (Len(level) + 1) \div 2 \in Nat
      BY <2>6, ParentFacts
    <3>2. MerkleHeight(Len(level)) = MerkleHeight((Len(level) + 1) \div 2) + 1
      BY <2>1, <3>1, HeightFacts
    <3>3. MerkleHeight((Len(level) + 1) \div 2) \in Nat
      BY <3>1, HeightFacts
    <3> QED
      BY <2>3, <2>6, <3>2, <3>3
  <2>8. PICK g : Levels(recs, n + 1, g) /\ \A k \in 0..n : g[k] = f[k]
    BY SMTT(30), <2>3, <2>4, LevelsExtend
  <2>9. level' = g[n + 1]
    <3>1. PICK m \in Nat : m = n + 1
      BY <2>3
    <3>2. n \in 0..m /\ n + 1 <= m /\ g[n] = f[n]
      BY <2>3, <2>8, <3>1
    <3>3. Levels(recs, m, g)
      BY <2>8, <3>1, Zenon
    <3>4. g[n + 1] = ParentLevel(g[n])
      BY <3>2, <3>3, LevelUp
    <3> QED
      BY <2>1, <2>4, <3>2, <3>4
  <2>10. idx' \in 1..Len(level')
    BY <2>1, <2>2, <2>6, ClimbToParent
  <2>11. ProofLeadsToLevel'
    <3>1. Climb(recs[index], proof) = level[idx]
      BY DEF IInv, ProofLeadsToLevel
    <3>2. Climb(recs[index], proof') = Climbed(ProofStep(level, idx), level[idx])
      BY <2>1, <2>2, <3>1, ClimbAppend
    <3>3. Climbed(ProofStep(level, idx), level[idx]) = level'[idx']
      BY <2>1, <2>2, <2>6, ClimbToParent
    <3> QED
      BY <2>1, <3>2, <3>3 DEF ProofLeadsToLevel
  <2> QED
    BY <2>1, <2>2, <2>5, <2>7, <2>8, <2>9, <2>10, <2>11 DEF IInv, H
<1> QED
  BY <1>1, <1>2

\* The invariant holds in every behaviour.
LEMMA IInvInvariant == Spec => []IInv
BY InitIInv, StepIInv, PTL DEF Spec

\* The loop invariant of merkle_proof_build: the steps written so far lead from
\* the record to its ancestor in the level in the buffer.
THEOREM ProofInvariant == Spec => []ProofLeadsToLevel
<1>1. IInv => ProofLeadsToLevel
  BY DEF IInv
<1> QED
  BY <1>1, IInvInvariant, PTL

\* merkle_proof_verify accepts the proof that merkle_proof_build makes, for
\* every record of a segment with any number of records, against the root that
\* merkle_root computes, and the proof has the length that proof_verify
\* expects.
THEOREM ProofsAccepted == Spec => []ProofVerifies
<1>1. IInv => ProofVerifies
  <2> SUFFICES ASSUME IInv, Len(level) = 1
               PROVE  MerkleProofVerify(recs[index], index, Len(recs), proof, MerkleRoot(recs))
    BY DEF ProofVerifies
  <2> DEFINE n == Len(proof)
             H == MerkleHeight(Len(recs))
  <2>1. /\ IsSequence(recs) /\ index \in 1..Len(recs) /\ IsSequence(proof)
        /\ n <= H /\ idx \in 1..Len(level) /\ Climb(recs[index], proof) = level[idx]
    BY DEF IInv, ProofLeadsToLevel
  <2>2. n \in Nat /\ Len(recs) \in Nat /\ H \in Nat /\ Len(recs) >= 1
    BY SMT, <2>1, SequenceFacts, HeightFacts
  <2>3. PICK f : Levels(recs, n, f) /\ level = f[n]
    BY DEF IInv
  <2> HIDE DEF n, H
  <2>4. MerkleHeight(Len(level)) + n = H
    <3>1. \A k \in 0..n : MerkleHeight(Len(f[k])) + k = H
      BY SMT, <2>1, <2>2, <2>3, LevelsShape DEF H
    <3>2. n \in 0..n
      BY <2>2
    <3>3. MerkleHeight(Len(f[n])) + n = H
      BY <3>1, <3>2
    <3> QED
      BY <2>3, <3>3
  <2>5. n = H
    <3>1. MerkleHeight(Len(level)) = 0
      BY SMT, HeightFacts
    <3> QED
      BY <2>2, <2>4, <3>1
  <2>6. PICK g : Levels(recs, H, g) /\ MerkleRoot(recs) = g[H][1]
    BY <2>1, <2>2, RootFacts DEF H
  <2>7. f[n] = g[H]
    BY SMT, <2>2, <2>3, <2>5, <2>6, LevelsAgree
  <2>8. idx = 1
    BY <2>1
  <2> QED
    BY <2>1, <2>3, <2>5, <2>6, <2>7, <2>8 DEF MerkleProofVerify, H, n
<1> QED
  BY <1>1, IInvInvariant, PTL

\* Two trees of the same width with the same root are the same tree.
LEMMA RootInjective ==
  ASSUME NEW a, NEW b, IsSequence(a), IsSequence(b), Len(a) >= 1, Len(a) = Len(b),
         MerkleRoot(a) = MerkleRoot(b)
  PROVE  a = b
<1> DEFINE H == MerkleHeight(Len(a))
<1>1. Len(a) \in Nat /\ H \in Nat
  BY SequenceFacts, HeightFacts
<1>2. PICK f : Levels(a, H, f) /\ MerkleRoot(a) = f[H][1]
  BY RootFacts
<1>3. PICK g : Levels(b, H, g) /\ MerkleRoot(b) = g[H][1]
  BY RootFacts
<1>4. \A k \in 0..H : /\ IsLevel(f[k]) /\ IsLevel(g[k])
                      /\ MerkleHeight(Len(f[k])) + k = H
                      /\ MerkleHeight(Len(g[k])) + k = H
  BY SMT, <1>1, <1>2, <1>3, LevelsShape
<1> HIDE DEF H
<1>5. ASSUME NEW k \in 0..H, k + 1 <= H
      PROVE  f[k + 1] = ParentLevel(f[k])
  <2>1. Levels(a, H, f)
    BY <1>2
  <2> QED
    BY <1>1, <1>5, <2>1, LevelUp
<1>6. ASSUME NEW k \in 0..H, k + 1 <= H
      PROVE  g[k + 1] = ParentLevel(g[k])
  <2>1. Levels(b, H, g)
    BY <1>3
  <2> QED
    BY <1>1, <1>6, <2>1, LevelUp
<1>7. \A k \in 0..H : Len(f[k]) = Len(g[k])
  <2> DEFINE T == {k \in Nat : k <= H => Len(f[k]) = Len(g[k])}
  <2>1. 0 \in T
    <3>1. f[0] = LeafLevel(a) /\ g[0] = LeafLevel(b)
      BY <1>1, <1>2, <1>3, LevelsStep
    <3> QED
      BY <3>1, LeafFacts
  <2>2. ASSUME NEW k \in T PROVE k + 1 \in T
    <3> SUFFICES ASSUME k + 1 <= H PROVE Len(f[k + 1]) = Len(g[k + 1])
      OBVIOUS
    <3>1. k \in 0..H /\ Len(f[k]) = Len(g[k])
      BY <1>1
    <3>2. f[k + 1] = ParentLevel(f[k]) /\ g[k + 1] = ParentLevel(g[k])
      BY <1>5, <1>6, <3>1
    <3> QED
      BY <1>4, <3>1, <3>2, ParentFacts
  <2>3. T = Nat
    BY <2>1, <2>2, SetInduction
  <2>4. ASSUME NEW k \in 0..H PROVE Len(f[k]) = Len(g[k])
    <3>1. k \in T /\ k <= H
      BY SMT, <1>1, <2>3
    <3> QED
      BY <3>1
  <2> QED
    BY <2>4
<1>8. f[H] = g[H]
  <2>1. H \in 0..H
    BY <1>1
  <2>2. /\ IsLevel(f[H]) /\ IsLevel(g[H]) /\ Len(f[H]) = Len(g[H])
        /\ MerkleHeight(Len(f[H])) + H = H
    BY <1>4, <1>7, <2>1
  <2>3. PICK w \in Nat : w = Len(f[H]) /\ w >= 1
    BY <2>2, SequenceFacts DEF IsLevel
  <2>4. Len(f[H]) = 1
    <3>1. ASSUME w > 1 PROVE FALSE
      <4>1. PICK m \in Nat : m = (w + 1) \div 2
        BY <3>1
      <4>2. MerkleHeight(w) = MerkleHeight(m) + 1
        BY <3>1, <4>1, HeightFacts
      <4>3. MerkleHeight(m) \in Nat
        BY HeightFacts
      <4>4. MerkleHeight(w) + H = H
        BY <2>2, <2>3
      <4> QED
        BY <1>1, <4>2, <4>3, <4>4
    <3>2. w = 1
      <4>1. w >= 1 /\ ~(w > 1)
        BY <2>3, <3>1
      <4> QED
        BY <4>1
    <3> QED
      BY <2>3, <3>2
  <2>5. f[H][1] = g[H][1]
    BY <1>2, <1>3
  <2>6. \A i \in 1..Len(f[H]) : f[H][i] = g[H][i]
    BY <2>4, <2>5
  <2> QED
    BY <2>2, <2>6, SequencesEqual DEF IsLevel
<1>9. f[0] = g[0]
  <2> DEFINE T == {k \in Nat : k <= H => f[H - k] = g[H - k]}
  <2>1. 0 \in T
    BY <1>1, <1>8
  <2>2. ASSUME NEW k \in T PROVE k + 1 \in T
    <3> SUFFICES ASSUME k + 1 <= H PROVE f[H - (k + 1)] = g[H - (k + 1)]
      OBVIOUS
    <3>1. PICK j \in 0..H : j = H - (k + 1) /\ j + 1 = H - k /\ j + 1 <= H
      BY <1>1
    <3>2. f[j + 1] = g[j + 1]
      BY <1>1, <3>1
    <3> HIDE DEF T
    <3>3. f[j + 1] = ParentLevel(f[j])
      BY <1>5, <3>1
    <3>4. g[j + 1] = ParentLevel(g[j])
      BY <1>6, <3>1
    <3>5. f[j] = g[j]
      BY ZenonT(60), <1>4, <1>7, <3>2, <3>3, <3>4, ParentInjective
    <3> QED
      BY <3>1, <3>5
  <2>3. T = Nat
    BY <2>1, <2>2, SetInduction
  <2>4. H \in T
    BY <1>1, <2>3
  <2>5. H <= H /\ H - H = 0
    BY SMT, <1>1
  <2>6. f[H - H] = g[H - H]
    BY Zenon, <2>4, <2>5
  <2> QED
    BY Zenon, <2>5, <2>6
<1>10. LeafLevel(a) = LeafLevel(b)
  BY SMT, <1>1, <1>2, <1>3, <1>9, LevelsStep
<1>11. \A i \in 1..Len(a) : Sha256(a[i]) = Sha256(b[i])
  BY <1>10, LeafFacts
<1>12. \A i \in 1..Len(a) : a[i] = b[i]
  BY <1>11, HashFacts
<1> QED
  BY <1>12, SequencesEqual

\* The root that merkle_root computes determines the records, among sequences
\* of the same length.
THEOREM RootIdentifies == Spec => []RootDeterminesRecords
<1>1. IInv => RootDeterminesRecords
  <2> SUFFICES ASSUME IInv, NEW other \in [1..Len(recs) -> Record],
                      MerkleRoot(other) = MerkleRoot(recs)
               PROVE  other = recs
    BY DEF RootDeterminesRecords
  <2>1. IsSequence(recs) /\ Len(recs) \in Nat /\ Len(recs) >= 1
    BY SequenceFacts DEF IInv
  <2>2. IsSequence(other) /\ Len(other) = Len(recs)
    <3>1. other = [i \in 1..Len(recs) |-> other[i]]
      OBVIOUS
    <3> QED
      BY <2>1, <3>1, FunctionIsSequence
  <2> QED
    BY <2>1, <2>2, RootInjective
<1> QED
  BY <1>1, IInvInvariant, PTL
=============================================================================
