------------------------------- MODULE Merkle -------------------------------
(***************************************************************************)
(* SHA-256 (core/hash.c) and the merkle tree over encoded records          *)
(* (model/merkle.c), as pure operators.                                    *)
(*                                                                         *)
(* Byte strings are abstract values.  The digest of a byte string is the   *)
(* one-element sequence that holds it, so digests are equal exactly when   *)
(* the hashed bytes are: SHA-256 is taken to be free of collisions.  The   *)
(* all-zero digest is the empty sequence, which no byte string hashes to.  *)
(***************************************************************************)
EXTENDS Naturals, Sequences

ZeroHash == <<>>

Sha256(bytes) == <<bytes>>

\* A variant of HashConcat that copies the left digest into both halves.
HashConcatLeft(left, right) == Sha256(left \o left)

\* The digest of two digests laid side by side in a 64-byte buffer.
HashConcat(left, right) == Sha256(left \o right)

LeafLevel(recs) == [i \in 1..Len(recs) |-> Sha256(recs[i])]

\* A variant of ParentLevel that pairs the odd node with its left neighbour.
ParentLevelShifted(level) ==
  [i \in 1..((Len(level) + 1) \div 2) |->
     IF 2 * i <= Len(level) THEN HashConcat(level[2 * i - 1], level[2 * i])
     ELSE HashConcat(level[2 * i - 2], level[2 * i - 1])]

\* One pass of the reduction loop.  The last node of an odd level is its own
\* right sibling.  (C index 2i is TLA+ index 2i-1.)
ParentLevel(level) ==
  [i \in 1..((Len(level) + 1) \div 2) |->
     HashConcat(level[2 * i - 1],
                IF 2 * i <= Len(level) THEN level[2 * i] ELSE level[2 * i - 1])]

\* How often the loop halves a level of n nodes before one is left.
MerkleHeight(n) ==
  LET need[count \in 0..n] ==
        IF count <= 1 THEN 0 ELSE need[(count + 1) \div 2] + 1
  IN  need[n]

MerkleRoot(recs) ==
  LET level[k \in 0..MerkleHeight(Len(recs))] ==
        IF k = 0 THEN LeafLevel(recs) ELSE ParentLevel(level[k - 1])
  IN  IF recs = <<>> THEN ZeroHash ELSE level[MerkleHeight(Len(recs))][1]

-----------------------------------------------------------------------------
\* A variant of ProofStep that forgets that an odd level has no last sibling:
\* the node to the left is taken again.
ProofStepLeft(level, idx) ==
  IF idx % 2 = 1 /\ idx + 1 <= Len(level)
  THEN [sibling |-> level[idx + 1], is_left |-> FALSE]
  ELSE [sibling |-> level[idx - 1], is_left |-> TRUE]

\* A proof is the sequence of siblings from the leaf to the root; is_left says
\* that the sibling stands on the left.  idx is the 1-based position of the
\* node at this level.
ProofStep(level, idx) ==
  IF idx % 2 = 1
  THEN [sibling |-> IF idx + 1 <= Len(level) THEN level[idx + 1] ELSE level[idx],
        is_left |-> FALSE]
  ELSE [sibling |-> level[idx - 1], is_left |-> TRUE]

\* The hash that the loop of merkle_proof_verify holds after all proof steps.
Climb(rec, proof) ==
  LET cur[i \in 0..Len(proof)] ==
        IF i = 0 THEN Sha256(rec)
        ELSE IF proof[i].is_left THEN HashConcat(proof[i].sibling, cur[i - 1])
                                 ELSE HashConcat(cur[i - 1], proof[i].sibling)
  IN  cur[Len(proof)]

\* A variant of MerkleProofVerify that takes the last index to be out of range.
MerkleProofVerifyShort(rec, index, n, proof, expectedRoot) ==
  /\ index \in 1..(n - 1)
  /\ Len(proof) = MerkleHeight(n)
  /\ Climb(rec, proof) = expectedRoot

\* index is only checked to be in range; the sides are taken from the proof.
MerkleProofVerify(rec, index, n, proof, expectedRoot) ==
  /\ index \in 1..n
  /\ Len(proof) = MerkleHeight(n)
  /\ Climb(rec, proof) = expectedRoot
=============================================================================
