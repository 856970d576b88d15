------------------------------ MODULE MerkleTree ------------------------------
(***************************************************************************)
(* The Merkle tree of a block's withdrawals: the committer computes its    *)
(* root (merkelize), the claimer a proof of one leaf (merkle_proof), the   *)
(* bridge contract recomputes the root from the leaf, its index and the    *)
(* proof (_verifyWithdrawProof).  Three programs that must agree on how a  *)
(* level with an odd number of nodes is paired.                            *)
(*                                                                         *)
(* keccak of two hashes is the pair of them.  A step is one iteration of a *)
(* loop.                                                                   *)
(***************************************************************************)
EXTENDS Integers, Sequences, FiniteSets, Functions

\* The hashes of withdrawals: a block has the first few of them.  They differ, because each
\* holds the hash of its transaction
CONSTANT Hashes

ASSUME MerkleAssumption == Hashes \in Seq(Range(Hashes)) /\ IsInjective(Hashes)

VARIABLES
    leaves,  \* hashes of the block's withdrawals, in block order
    index,   \* withdrawalLogIndex, from 0: the withdrawal that is claimed
    phase,   \* which of the three programs runs
    data,    \* merkelize, merkle_proof: the current level
    root,    \* the root the committer publishes
    target,  \* merkle_proof: target_hash; contract: withdrawalLeaf
    proof,   \* merkle_proof: the siblings; contract: those not yet used
    claim,   \* contract: the leaf hashed from the caller's arguments, and withdrawalLogIndex
    place    \* contract: withdrawalLogIndex as the loop halves it

treeVars == <<leaves, index, phase, data, root, target, proof, claim, place>>

TreeInit ==
    /\ leaves \in {SubSeq(Hashes, 1, n) : n \in 1 .. Len(Hashes)}
    /\ index \in 0 .. Len(leaves) - 1
    /\ phase = "merkelize"
    /\ data = leaves
    /\ root = <<>>
    /\ target = leaves[index + 1]
    /\ proof = <<>>
    /\ claim = [leaf |-> target, index |-> index]
    /\ place = index

Keccak(left, right) == <<left, right>>

\* chunks(2): their number, and the two nodes of chunk i
Chunks == 1 .. (Len(data) + 1) \div 2
LeftOf(i) == data[2 * i - 1]

\* Faulty variant: an odd node is paired with the first node of the level
RightOfWraps(i) == IF 2 * i <= Len(data) THEN data[2 * i] ELSE data[1]

\* A node without a right neighbour is its own
RightOf(i) == IF 2 * i <= Len(data) THEN data[2 * i] ELSE LeftOf(i)

NextLevel == [i \in Chunks |-> Keccak(LeftOf(i), RightOf(i))]

\* while data.len() > 1 || first: a single leaf is hashed once too
Merkelize ==
    /\ phase = "merkelize"
    /\ data' = NextLevel
    /\ IF Len(NextLevel) > 1
       THEN UNCHANGED <<phase, root>>
       ELSE root' = NextLevel[1] /\ phase' = "restart"
    /\ UNCHANGED <<leaves, index, target, proof, claim, place>>

\* get_withdraw_merkle_proof collects the leaves again
ProofStart ==
    /\ phase = "restart"
    /\ phase' = "prove"
    /\ data' = leaves
    /\ UNCHANGED <<leaves, index, root, target, proof, claim, place>>

\* Faulty variant: the sibling is always the right node
SiblingRight(i) == RightOf(i)

\* The node pushed for the chunk that holds the target
Sibling(i) == IF LeftOf(i) = target THEN RightOf(i) ELSE LeftOf(i)

\* A set of chunks as the loop meets them
AsMet(S) ==
    CHOOSE s \in [1 .. Cardinality(S) -> S] :
        \A i, j \in 1 .. Cardinality(S) : i < j => s[i] < s[j]

MerkleProof ==
    /\ phase = "prove"
    /\ data' = NextLevel
    /\ LET hits == AsMet({i \in Chunks : target \in {LeftOf(i), RightOf(i)}})
       IN  /\ proof' = proof \o [h \in DOMAIN hits |-> Sibling(hits[h])]
           /\ target' = IF hits = <<>> THEN target ELSE NextLevel[hits[Len(hits)]]
    /\ IF Len(NextLevel) > 1 THEN UNCHANGED phase ELSE phase' = "claim"
    /\ UNCHANGED <<leaves, index, root, claim, place>>

\* claimWithdrawal with the proof: of the withdrawal it was made for, or of any other
\* one at any index
ClaimStart ==
    /\ phase = "claim"
    /\ phase' = "verify"
    /\ \E leaf \in Range(Hashes), i \in 0 .. 2 * Len(Hashes) :
          claim' = [leaf |-> leaf, index |-> i] /\ target' = leaf /\ place' = i
    /\ UNCHANGED <<leaves, index, data, root, proof>>

VerifyWithdrawProof ==
    /\ phase = "verify"
    /\ proof # <<>>
    /\ target' = IF place % 2 = 0 THEN Keccak(target, Head(proof)) ELSE Keccak(Head(proof), target)
    /\ place' = place \div 2
    /\ proof' = Tail(proof)
    /\ phase' = IF Tail(proof) = <<>> THEN "done" ELSE phase
    /\ UNCHANGED <<leaves, index, data, root, claim>>

TreeNext == Merkelize \/ ProofStart \/ MerkleProof \/ ClaimStart \/ VerifyWithdrawProof

TreeSpec == TreeInit /\ [][TreeNext]_treeVars

----------------------------------------------------------------------------
(* Properties *)

(***************************************************************************)
(* The proof made for a withdrawal leads the contract to the root the      *)
(* committer published: every withdrawal of a block can be claimed,        *)
(* wherever it is among an odd or even number of others (merkelize,        *)
(* merkle_proof, _verifyWithdrawProof).                                    *)
(***************************************************************************)
ClaimAccepted ==
    /\ phase \in {"claim", "verify"} => proof # <<>>
    /\ phase = "done" /\ claim = [leaf |-> leaves[index + 1], index |-> index] => target = root

(***************************************************************************)
(* A proof serves the withdrawal it was made for and no other one, at any  *)
(* index (merkle_proof, _verifyWithdrawProof).                             *)
(***************************************************************************)
ProofOfOne == phase = "done" /\ target = root => claim.leaf = leaves[index + 1]

(***************************************************************************)
(* A withdrawal proof serves its own withdrawal, and only that one         *)
(* (CommonBridge.claimWithdrawal).                                         *)
(***************************************************************************)
ProofsServe == ClaimAccepted /\ ProofOfOne

==============================================================================
