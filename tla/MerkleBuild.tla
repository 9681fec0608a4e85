---------------------------- MODULE MerkleBuild -----------------------------
(***************************************************************************)
(* The loop of vicarl__merkle_proof_build (model/merkle.c), one level of   *)
(* the tree per step; vicarl__merkle_root runs the same reduction without  *)
(* the proof.  The result is compared with a tree defined from the root    *)
(* down, and with what vicarl__merkle_proof_verify accepts.                *)
(***************************************************************************)
EXTENDS Segment

CONSTANT MaxLeaves  \* bound: records in a tree

ASSUME MerkleBuildAssumption == MaxLeaves \in Nat

VARIABLES
  recs,   \* the records
  index,  \* the record the proof is for (from 1)
  level,  \* digests of the current level
  idx,    \* position of the record's ancestor in it (from 1)
  proof   \* the proof so far

vars == <<recs, index, level, idx, proof>>

Init ==
  /\ \E n \in 1..MaxLeaves : recs \in [1..n -> Record] /\ index \in 1..n
  /\ level = LeafLevel(recs)
  /\ idx = index
  /\ proof = <<>>

ParentIndex(i) == (i + 1) \div 2

BuildLevel ==
  /\ Len(level) > 1
  /\ proof' = Append(proof, ProofStep(level, idx))
  /\ level' = ParentLevel(level)
  /\ idx' = ParentIndex(idx)
  /\ UNCHANGED <<recs, index>>

Next == BuildLevel

Spec == Init /\ [][Next]_vars

-----------------------------------------------------------------------------
\* The reference: the node i (from 0) of height k over n leaves, whose right
\* child is its left child when the level below has no further node.
Width(n, k) == (n + 2^k - 1) \div 2^k

TreeNode(rs, height, pos) ==
  LET node[k \in Nat, i \in Nat] ==
        IF k = 0 THEN Sha256(rs[i + 1])
        ELSE HashConcat(node[k - 1, 2 * i],
                        IF 2 * i + 1 < Width(Len(rs), k - 1)
                        THEN node[k - 1, 2 * i + 1] ELSE node[k - 1, 2 * i])
  IN  node[height, pos]

\* Properties.

\* After each pass the buffer holds the level of the tree of that height, all of
\* it and nothing else.
LevelOfTree ==
  /\ Len(level) = Width(Len(recs), Len(proof))
  /\ \A i \in 1..Len(level) : level[i] = TreeNode(recs, Len(proof), i - 1)

\* The proof so far leads from the record to its ancestor in the level: the
\* loop invariant that makes proof_verify reach the root.
ProofLeadsToLevel == Climb(recs[index], proof) = level[idx]

\* When the loop ends, proof_verify accepts the proof against the root that
\* merkle_root computes, and its length is the one proof_verify derives.
ProofVerifies ==
  Len(level) = 1 =>
    MerkleProofVerify(recs[index], index, Len(recs), proof, MerkleRoot(recs))

\* Among record sequences of one length the root determines the records.  (Not
\* across lengths: an odd level repeats its last node; the segment header holds
\* the record count.)
RootDeterminesRecords ==
  \A other \in [1..Len(recs) -> Record] :
    MerkleRoot(other) = MerkleRoot(recs) => other = recs
=============================================================================
