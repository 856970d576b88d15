----------------------------- MODULE L1Contracts -----------------------------
(***************************************************************************)
(* The two L1 contracts of the L2: OnChainProposer, to which the sequencer *)
(* commits and verifies blocks, and CommonBridge, which holds the queue of *)
(* deposits and pays withdrawals.  A call is one step or it reverts; what  *)
(* a call requires is a predicate of its own, which the gas estimation of  *)
(* the sender evaluates too.                                               *)
(*                                                                         *)
(* Hashes are modelled by what they are the hash of: the versioned hash of *)
(* deposit logs by their sequence, a Merkle root by the sequence of its    *)
(* leaves, the zero hash by the empty sequence.  Every deposit and every   *)
(* withdrawal moves one unit.                                              *)
(***************************************************************************)
EXTENDS Integers, Sequences, FiniteSets, Functions

CONSTANTS
    MaxBlocks,     \* bound on the L2 blocks after genesis
    MaxDeposits,   \* bound on the deposits
    Withdrawals,   \* L2 withdrawal transactions
    None

ASSUME ContractsAssumption ==
    /\ MaxBlocks \in Nat
    /\ MaxDeposits \in Nat
    /\ None \notin Seq(Nat)

VARIABLES
    depositLogs,           \* CommonBridge: ids of the deposits not yet removed, in order
    depositId,             \* CommonBridge: id of the next deposit
    blockWithdrawalsLogs,  \* CommonBridge: block -> published withdrawals
    paid,                  \* CommonBridge: withdrawal -> payments made for it
    claimedWithdrawals,    \* CommonBridge: withdrawals marked as claimed
    balance,               \* CommonBridge: what the contract holds
    blockCommitments,      \* OnChainProposer: block -> deposits of its commitment, or None
    lastCommittedBlock,    \* OnChainProposer
    lastVerifiedBlock      \* OnChainProposer

bridge == <<depositLogs, depositId, blockWithdrawalsLogs, paid, claimedWithdrawals, balance>>
proposer == <<blockCommitments, lastCommittedBlock, lastVerifiedBlock>>
contracts == <<bridge, proposer>>

Numbers == 0 .. MaxBlocks
Ids == 0 .. MaxDeposits - 1

\* 0xFFFFFFFFFFFFFFFF, whose successor counts as 0
NoneCommitted == -1

ContractsInit ==
    /\ depositLogs = <<>>
    /\ depositId = 0
    /\ blockWithdrawalsLogs = [n \in Numbers |-> <<>>]
    /\ paid = [w \in Withdrawals |-> 0]
    /\ claimedWithdrawals = {}
    /\ balance = 0
    /\ blockCommitments = [n \in Numbers |-> None]
    /\ lastCommittedBlock = NoneCommitted
    /\ lastVerifiedBlock = 0

ContractsTypeOK ==
    /\ depositLogs \in Seq(Ids)
    /\ depositId \in 0 .. MaxDeposits
    /\ blockWithdrawalsLogs \in [Numbers -> Seq(Withdrawals)]
    /\ paid \in [Withdrawals -> Nat]
    /\ claimedWithdrawals \subseteq Withdrawals
    /\ balance \in Nat
    /\ blockCommitments \in [Numbers -> Seq(Ids) \cup {None}]
    /\ lastCommittedBlock \in Numbers \cup {NoneCommitted}
    /\ lastVerifiedBlock \in Numbers

(***************************************************************************)
(* CommonBridge.deposit: queue the deposit's log and emit the event the    *)
(* watcher looks for.                                                      *)
(***************************************************************************)
Deposit ==
    /\ depositId < MaxDeposits
    /\ depositLogs' = Append(depositLogs, depositId)
    /\ depositId' = depositId + 1
    /\ balance' = balance + 1
    /\ UNCHANGED <<blockWithdrawalsLogs, paid, claimedWithdrawals, proposer>>

\* CommonBridge.getDepositLogsVersionedHash: the first k logs, or it reverts
HasDepositLogs(k) == k > 0 /\ k <= Len(depositLogs)

GetDepositLogs(k) == SubSeq(depositLogs, 1, k)

\* A commitment without deposits has the zero hash, which is not compared
AreFirst(deposits) ==
    deposits # <<>> => /\ HasDepositLogs(Len(deposits))
                       /\ GetDepositLogs(Len(deposits)) = deposits

\* Faulty variant: the deposit logs of the commitment are not compared
CommitRequiresNoLogs(n, withdrawals, deposits) ==
    /\ n = lastCommittedBlock + 1
    /\ blockCommitments[n] = None
    /\ withdrawals # <<>> => blockWithdrawalsLogs[n] = <<>>

\* The requires of OnChainProposer.commit and of publishWithdrawals
CommitRequires(n, withdrawals, deposits) ==
    /\ n = lastCommittedBlock + 1
    /\ blockCommitments[n] = None
    /\ AreFirst(deposits)
    /\ withdrawals # <<>> => blockWithdrawalsLogs[n] = <<>>

\* OnChainProposer.commit, with the publishWithdrawals it calls
Commit(n, withdrawals, deposits) ==
    /\ CommitRequires(n, withdrawals, deposits)
    /\ blockWithdrawalsLogs' =
           [blockWithdrawalsLogs EXCEPT ![n] = IF withdrawals = <<>> THEN @ ELSE withdrawals]
    /\ blockCommitments' = [blockCommitments EXCEPT ![n] = deposits]
    /\ lastCommittedBlock' = n
    /\ UNCHANGED <<depositLogs, depositId, paid, claimedWithdrawals, balance, lastVerifiedBlock>>

(***************************************************************************)
(* The requires of OnChainProposer.verify and of removeDepositLogs.  The   *)
(* zkVM verifier, another contract, accepts the proofs the prover makes.   *)
(***************************************************************************)
VerifyRequires(n) ==
    /\ n = lastVerifiedBlock + 1
    /\ blockCommitments[n] # None
    /\ Len(blockCommitments[n]) <= Len(depositLogs)

\* CommonBridge.removeDepositLogs: shift the queue by k
DepositLogsAfter(k) == SubSeq(depositLogs, k + 1, Len(depositLogs))

\* Faulty variant: the commitment of the block itself is deleted
VerifyDeletesOwn(n) ==
    /\ VerifyRequires(n)
    /\ lastVerifiedBlock' = n
    /\ depositLogs' = DepositLogsAfter(Len(blockCommitments[n]))
    /\ blockCommitments' = [blockCommitments EXCEPT ![n] = None]
    /\ UNCHANGED <<depositId, blockWithdrawalsLogs, paid, claimedWithdrawals, balance,
                   lastCommittedBlock>>

\* OnChainProposer.verify, with the removeDepositLogs it calls
Verify(n) ==
    /\ VerifyRequires(n)
    /\ lastVerifiedBlock' = n
    /\ depositLogs' = DepositLogsAfter(Len(blockCommitments[n]))
    /\ blockCommitments' = [blockCommitments EXCEPT ![n - 1] = None]
    /\ UNCHANGED <<depositId, blockWithdrawalsLogs, paid, claimedWithdrawals, balance,
                   lastCommittedBlock>>

\* Faulty variant: a committed block is enough
ClaimRequiresCommitted(w, n) ==
    /\ w \in Range(blockWithdrawalsLogs[n])
    /\ w \notin claimedWithdrawals
    /\ balance >= 1

\* Faulty variant: the withdrawal may have been claimed before
ClaimRequiresAgain(w, n) ==
    /\ w \in Range(blockWithdrawalsLogs[n])
    /\ n <= lastVerifiedBlock
    /\ balance >= 1

(***************************************************************************)
(* The requires of CommonBridge.claimWithdrawal; a Merkle proof exists     *)
(* exactly for the published withdrawals.                                  *)
(***************************************************************************)
ClaimRequires(w, n) ==
    /\ w \in Range(blockWithdrawalsLogs[n])
    /\ n <= lastVerifiedBlock
    /\ w \notin claimedWithdrawals
    /\ balance >= 1

\* CommonBridge.claimWithdrawal
ClaimWithdrawal(w, n) ==
    /\ ClaimRequires(w, n)
    /\ balance' = balance - 1
    /\ paid' = [paid EXCEPT ![w] = @ + 1]
    /\ claimedWithdrawals' = claimedWithdrawals \cup {w}
    /\ UNCHANGED <<depositLogs, depositId, blockWithdrawalsLogs, proposer>>

==============================================================================
