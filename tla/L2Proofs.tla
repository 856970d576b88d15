------------------------------- MODULE L2Proofs -------------------------------
(***************************************************************************)
(* What holds of the L2 sequencer and its contracts for every number of    *)
(* blocks, deposits, withdrawals and restarts, and whatever goes wrong.    *)
(*                                                                         *)
(* Inv is inductive; it gives the type invariant, the window of            *)
(* commitments the contract keeps, and that withdrawals are paid once and  *)
(* only when final.                                                        *)
(***************************************************************************)
EXTENDS L2Proposer, SequenceTheorems, TLAPS

\* Where the tasks and the contracts stand with respect to the chain
Progress ==
    /\ lastCommittedBlock <= LatestBlock
    /\ lastVerifiedBlock <= lastCommittedBlock
         \/ (lastVerifiedBlock = 0 /\ lastCommittedBlock = NoneCommitted)
    /\ payload # None => LatestBlock < MaxBlocks

\* What the committer works on and has sent is in the chain
CommitterOK ==
    /\ committer.block <= LatestBlock
    /\ commitTx # None => commitTx <= LatestBlock

\* What waits to be verified is committed, and main_logic_dev's first read is not overtaken
ProverOK ==
    /\ verifyTx # None => verifyTx <= lastCommittedBlock
    /\ prover.at = "compare" => /\ lastVerifiedBlock <= prover.block
                                /\ verifyTx # None => verifyTx <= prover.block

\* process_logs has a log to look at
WatcherOK == watcher.at \in {"pending", "process"} => watcher.logs # <<>>

\* Published withdrawals are those of the chain's blocks
Published ==
    \A n \in Numbers, w \in Withdrawals :
        w \in Range(blockWithdrawalsLogs[n]) =>
            n \in 1 .. LatestBlock /\ w \in Range(chain[n].withdrawals)

\* A payment and the claimed mark go together, and the block is verified
PaymentOK(w) ==
    /\ paid[w] = IF w \in claimedWithdrawals THEN 1 ELSE 0
    /\ w \in claimedWithdrawals =>
           \E n \in 1 .. LatestBlock : n <= lastVerifiedBlock /\ w \in Range(chain[n].withdrawals)

Payments == \A w \in Withdrawals : PaymentOK(w)

Inv ==
    /\ TypeOK
    /\ Progress
    /\ CommitterOK
    /\ ProverOK
    /\ WatcherOK
    /\ CommitmentWindow
    /\ Published
    /\ Payments

-----------------------------------------------------------------------------
\* Functions on an initial segment of the numbers are sequences
LEMMA SegmentIsSeq ==
    ASSUME NEW S, NEW n \in Nat, NEW f \in [1 .. n -> S]
    PROVE  f \in Seq(S) /\ Len(f) = n /\ DOMAIN f = 1 .. n
  <1>1. f \in Seq(S)
    BY SeqDef
  <1> QED
    BY <1>1, LenProperties

\* The events of a range of L1 blocks are ids of deposits
LEMMA EventsInType ==
    ASSUME NEW from \in Nat, NEW to \in Nat, from <= to, to <= MaxDeposits
    PROVE  /\ EventsIn(from, to) \in Seq(Ids)
           /\ Len(EventsIn(from, to)) = to - from
           /\ \A i \in 1 .. to - from : EventsIn(from, to)[i] = from + i - 1
  <1>1. EventsIn(from, to) \in [1 .. to - from -> Ids]
    BY ContractsAssumption DEF EventsIn, Ids
  <1>2. to - from \in Nat
    OBVIOUS
  <1> QED
    BY Zenon, <1>1, <1>2, SegmentIsSeq DEF EventsIn

\* What the block producer's and the contracts' numbers are
LEMMA NumberFacts ==
    ASSUME TypeOK
    PROVE  /\ LatestBlock \in Nat /\ LatestBlock <= MaxBlocks
           /\ MaxBlocks \in Nat /\ MaxDeposits \in Nat
           /\ lastVerifiedBlock \in Nat /\ lastVerifiedBlock <= MaxBlocks
           /\ lastCommittedBlock \in Int /\ lastCommittedBlock <= MaxBlocks
           /\ -1 <= lastCommittedBlock
  <1>1. chain \in Seq(Blocks) /\ LatestBlock <= MaxBlocks
    BY DEF TypeOK
  <1>2. LatestBlock \in Nat
    BY <1>1, LenProperties DEF LatestBlock
  <1>3. lastVerifiedBlock \in Numbers /\ lastCommittedBlock \in Numbers \cup {NoneCommitted}
    BY DEF TypeOK, ContractsTypeOK
  <1> QED
    BY <1>1, <1>2, <1>3, ContractsAssumption DEF Numbers, NoneCommitted

\* The blocks of the chain, and genesis
LEMMA L2BlockType ==
    ASSUME TypeOK, NEW n \in 0 .. LatestBlock
    PROVE  /\ L2Block(n) \in Blocks
           /\ BlockDeposits(n) \in Seq(Ids)
           /\ BlockWithdrawals(n) \in Seq(Withdrawals)
  <1>1. Genesis \in Blocks
    BY EmptySeq DEF Genesis, Blocks
  <1>2. ASSUME n # 0 PROVE chain[n] \in Blocks
    <2>1. n \in 1 .. Len(chain)
      BY <1>2, NumberFacts DEF LatestBlock
    <2> QED
      BY <2>1, ElementOfSeq DEF TypeOK
  <1>3. L2Block(n) \in Blocks
    BY <1>1, <1>2 DEF L2Block
  <1> QED
    BY <1>3 DEF Blocks, BlockDeposits, BlockWithdrawals

LEMMA InitInv == Init => Inv
  <1> SUFFICES ASSUME Init PROVE Inv
    OBVIOUS
  <1>1. <<>> \in Seq(Ids) /\ <<>> \in Seq(Withdrawals) /\ <<>> \in Seq(Blocks) /\ Len(<<>>) = 0
    BY EmptySeq
  <1>2. ContractsTypeOK
    BY <1>1, ContractsAssumption DEF Init, ContractsInit, ContractsTypeOK, Numbers
  <1>3. TypeOK
    BY <1>1, <1>2, ContractsAssumption, ProposerAssumption
    DEF Init, TypeOK, LatestBlock, FreshWatcher, Idle, Numbers
  <1>4. Progress /\ CommitterOK /\ ProverOK /\ WatcherOK
    BY <1>1, ContractsAssumption
    DEF Init, ContractsInit, Progress, CommitterOK, ProverOK, WatcherOK, LatestBlock, NoneCommitted,
        FreshWatcher, Idle
  <1>5. CommitmentWindow
    BY DEF Init, ContractsInit, CommitmentWindow, NoneCommitted, Numbers
  <1>6. Published
    BY DEF Init, ContractsInit, Published, Range
  <1>7. Payments
    BY DEF Init, ContractsInit, Payments, PaymentOK
  <1> QED
    BY <1>3, <1>4, <1>5, <1>6, <1>7 DEF Inv

-----------------------------------------------------------------------------
\* The types of what only the L2 process and the L1 transport hold
ProcessTypeOK ==
    /\ devMode \in BOOLEAN
    /\ chain \in Seq(Blocks) /\ LatestBlock <= MaxBlocks
    /\ pool \in [deposits : SUBSET Ids, withdrawals : SUBSET Withdrawals]
    /\ payload \in Blocks \cup {None}
    /\ restarts \in 0 .. MaxRestarts

TaskTypeOK ==
    /\ watcher \in [at : {"fetch", "pending", "process"}, last : 0 .. MaxDeposits,
                    logs : Seq(Ids), pending : Seq(Ids)]
    /\ committer \in [at : {"idle", "send", "wait"}, block : Numbers]
    /\ prover \in [at : {"idle", "compare", "submit", "wait"}, block : Numbers]
    /\ commitTx \in Numbers \cup {None}
    /\ verifyTx \in Numbers \cup {None}

LEMMA TypeParts == TypeOK <=> ContractsTypeOK /\ ProcessTypeOK /\ TaskTypeOK
  BY DEF TypeOK, ProcessTypeOK, TaskTypeOK

\* A step of the contracts that succeeds keeps their types
LEMMA ContractsType ==
    ASSUME TypeOK,
           \/ Deposit
           \/ \E w \in Withdrawals, n \in Numbers : ClaimWithdrawal(w, n)
           \/ \E n \in Numbers : n <= LatestBlock /\ Commit(n, BlockWithdrawals(n), BlockDeposits(n))
           \/ \E n \in Numbers : Verify(n)
           \/ UNCHANGED contracts
    PROVE  ContractsTypeOK'
  <1> USE ContractsAssumption
  <1>0. ContractsTypeOK
    BY DEF TypeOK
  <1>1. CASE Deposit
    <2>1. depositId \in Ids /\ depositId' \in 0 .. MaxDeposits
      BY <1>0, <1>1 DEF Deposit, ContractsTypeOK, Ids
    <2>2. depositLogs' \in Seq(Ids)
      BY <1>0, <1>1, <2>1, AppendProperties DEF Deposit, ContractsTypeOK
    <2> QED
      BY <1>0, <1>1, <2>1, <2>2 DEF Deposit, ContractsTypeOK, proposer
  <1>2. ASSUME NEW w \in Withdrawals, NEW n \in Numbers, ClaimWithdrawal(w, n)
        PROVE  ContractsTypeOK'
    <2>1. balance - 1 \in Nat
      BY <1>0, <1>2 DEF ClaimWithdrawal, ClaimRequires, ContractsTypeOK
    <2>2. paid' \in [Withdrawals -> Nat]
      BY <1>0, <1>2 DEF ClaimWithdrawal, ContractsTypeOK
    <2> QED
      BY <1>0, <1>2, <2>1, <2>2 DEF ClaimWithdrawal, ContractsTypeOK, proposer
  <1>3. ASSUME NEW n \in Numbers, n <= LatestBlock, Commit(n, BlockWithdrawals(n), BlockDeposits(n))
        PROVE  ContractsTypeOK'
    <2>1. n \in 0 .. LatestBlock
      BY <1>3, NumberFacts DEF Numbers
    <2>2. BlockDeposits(n) \in Seq(Ids) /\ BlockWithdrawals(n) \in Seq(Withdrawals)
      BY <2>1, L2BlockType
    <2> QED
      BY <1>0, <1>3, <2>2 DEF Commit, ContractsTypeOK
  <1>4. ASSUME NEW n \in Numbers, Verify(n)
        PROVE  ContractsTypeOK'
    <2>1. blockCommitments[n] \in Seq(Ids) /\ depositLogs \in Seq(Ids)
      BY <1>0, <1>4 DEF Verify, VerifyRequires, ContractsTypeOK
    <2>2. Len(blockCommitments[n]) \in Nat /\ Len(depositLogs) \in Nat
      BY <2>1, LenProperties
    <2>3. \A i \in Len(blockCommitments[n]) + 1 .. Len(depositLogs) : depositLogs[i] \in Ids
      BY <2>1, <2>2, ElementOfSeq
    <2>4. DepositLogsAfter(Len(blockCommitments[n])) \in Seq(Ids)
      BY <2>1, <2>2, <2>3, SubSeqProperties DEF DepositLogsAfter
    <2>5. n - 1 \in Numbers
      BY <1>0, <1>4 DEF Verify, VerifyRequires, ContractsTypeOK, Numbers
    <2>6. blockCommitments' \in [Numbers -> Seq(Ids) \cup {None}]
      BY <1>0, <1>4, <2>5 DEF Verify, ContractsTypeOK
    <2> QED
      BY <1>0, <1>4, <2>4, <2>6 DEF Verify, ContractsTypeOK
  <1>5. CASE UNCHANGED contracts
    BY <1>0, <1>5 DEF contracts, bridge, proposer, ContractsTypeOK
  <1> QED
    BY <1>1, <1>2, <1>3, <1>4, <1>5

\* The contracts move only by their own calls
LEMMA ContractsMove ==
    ASSUME Inv, [Next]_vars
    PROVE  \/ Deposit
           \/ \E w \in Withdrawals, n \in Numbers : ClaimWithdrawal(w, n)
           \/ \E n \in Numbers : /\ n <= LatestBlock /\ n = commitTx
                                 /\ Commit(n, BlockWithdrawals(n), BlockDeposits(n))
           \/ \E n \in Numbers : n = verifyTx /\ verifyTx # None /\ Verify(n)
           \/ UNCHANGED contracts
  <1>1. CASE MineCommit
    BY <1>1 DEF MineCommit, Inv, CommitterOK, TypeOK
  <1>2. CASE MineVerify
    BY <1>2 DEF MineVerify, Inv, TypeOK
  <1>3. CASE L1Deposit
    BY <1>3 DEF L1Deposit
  <1>4. CASE \E w \in Withdrawals : Claim(w)
    BY <1>4, Zenon DEF Claim
  <1>5. CASE (\E w \in Withdrawals : RequestWithdrawal(w)) \/ WatcherStep \/ AbandonLogs
    BY Zenon, <1>5 DEF RequestWithdrawal, WatcherStep, GetLogs, GetPendingLogs, ProcessLog, AbandonLogs,
                WatcherUnchanged
  <1>6. CASE ProducerStep \/ ImportFails
    BY <1>6 DEF ProducerStep, BuildPayload, ImportPayload, ImportFails
  <1>7. CASE CommitterStep \/ CommitterFails
    BY <1>7 DEF CommitterStep, ReadLastCommitted, SendCommitment, CommitMined, CommitterFails,
                CommitterUnchanged
  <1>8. CASE ProverStep \/ ProverFails
    BY <1>8 DEF ProverStep, RequestInput, DevReadCommitted, DevReadVerified, SendProof, ProofMined,
                ProverFails, ProverUnchanged
  <1>9. CASE Restart
    BY <1>9 DEF Restart
  <1>10. CASE UNCHANGED vars
    BY <1>10 DEF vars
  <1> QED
    BY <1>1, <1>2, <1>3, <1>4, <1>5, <1>6, <1>7, <1>8, <1>9, <1>10 DEF Next

\* Steps that touch neither the chain, the mempool nor the payload
QuietStep ==
    \/ L1Deposit \/ (\E w \in Withdrawals : Claim(w))
    \/ GetLogs \/ GetPendingLogs \/ AbandonLogs
    \/ CommitterStep \/ CommitterFails \/ ProverStep \/ ProverFails
    \/ MineCommit \/ MineVerify \/ UNCHANGED vars

LEMMA StepKinds ==
    [Next]_vars <=> \/ QuietStep \/ (\E w \in Withdrawals : RequestWithdrawal(w)) \/ ProcessLog
                    \/ BuildPayload \/ ImportPayload \/ ImportFails \/ Restart
  BY DEF Next, QuietStep, WatcherStep, ProducerStep

LEMMA QuietUnchanged ==
    ASSUME QuietStep
    PROVE  UNCHANGED <<devMode, chain, pool, restarts, payload>>
  <1>1. CASE L1Deposit \/ (\E w \in Withdrawals : Claim(w))
    BY <1>1, Zenon DEF L1Deposit, Claim, l2, tasks
  <1>2. CASE GetLogs \/ GetPendingLogs \/ AbandonLogs
    BY Zenon, <1>2 DEF GetLogs, GetPendingLogs, AbandonLogs, WatcherUnchanged, l2
  <1>3. CASE CommitterStep \/ CommitterFails
    BY <1>3 DEF CommitterStep, ReadLastCommitted, SendCommitment, CommitMined, CommitterFails,
                CommitterUnchanged, l2
  <1>4. CASE ProverStep \/ ProverFails
    BY <1>4 DEF ProverStep, RequestInput, DevReadCommitted, DevReadVerified, SendProof, ProofMined,
                ProverFails, ProverUnchanged, l2
  <1>5. CASE MineCommit \/ MineVerify
    BY <1>5 DEF MineCommit, MineVerify, l2, tasks
  <1>6. CASE UNCHANGED vars
    BY <1>6 DEF vars, l2, tasks
  <1> QED
    BY <1>1, <1>2, <1>3, <1>4, <1>5, <1>6 DEF QuietStep

\* A payload is made of mint transactions and withdrawals of the mempool
LEMMA BuildPayloadFills ==
    ASSUME TypeOK, BuildPayload
    PROVE  \E ids \in SUBSET pool.deposits, mints \in Seq(pool.deposits), burns \in Seq(pool.withdrawals) :
              Fill(ids, mints, burns) /\ Range(mints) \subseteq ids
  <1>1. PICK ids \in Affordable, k \in 0 .. BlockCapacity :
        \E l \in 0 .. BlockCapacity - k :
        \E mints \in [1 .. k -> ids], burns \in [1 .. l -> pool.withdrawals] : Fill(ids, mints, burns)
    BY DEF BuildPayload
  <1>2. PICK l \in 0 .. BlockCapacity - k :
        \E mints \in [1 .. k -> ids], burns \in [1 .. l -> pool.withdrawals] : Fill(ids, mints, burns)
    BY <1>1
  <1>3. PICK mints \in [1 .. k -> ids], burns \in [1 .. l -> pool.withdrawals] : Fill(ids, mints, burns)
    BY <1>2
  <1>4. ids \subseteq pool.deposits
    BY DEF Affordable
  <1>5. k \in Nat /\ l \in Nat
    BY ProposerAssumption
  <1>6. mints \in Seq(ids) /\ burns \in Seq(pool.withdrawals)
    BY <1>5, SegmentIsSeq
  <1>7. mints \in Seq(pool.deposits)
    BY <1>4, <1>6, SeqMonotonic
  <1>8. Range(mints) \subseteq ids
    BY DEF Range
  <1> QED
    BY <1>3, <1>4, <1>6, <1>7, <1>8

LEMMA BuildPayloadType ==
    ASSUME TypeOK, BuildPayload
    PROVE  payload' \in Blocks /\ pool' \in [deposits : SUBSET Ids, withdrawals : SUBSET Withdrawals]
  <1>1. pool.deposits \subseteq Ids /\ pool.withdrawals \subseteq Withdrawals
    BY DEF TypeOK
  <1>2. PICK ids \in SUBSET pool.deposits, mints \in Seq(pool.deposits), burns \in Seq(pool.withdrawals) :
              Fill(ids, mints, burns)
    BY BuildPayloadFills
  <1>3. mints \in Seq(Ids) /\ burns \in Seq(Withdrawals)
    BY <1>1, SeqMonotonic
  <1>4. PICK d \in BOOLEAN : payload' = [deposits |-> mints, withdrawals |-> burns, diffable |-> d]
    BY Zenon, <1>2 DEF Fill
  <1>5. pool' = [deposits |-> pool.deposits \ Range(mints), withdrawals |-> pool.withdrawals \ Range(burns)]
    BY <1>2 DEF Fill
  <1> QED
    BY <1>1, <1>3, <1>4, <1>5 DEF Blocks

LEMMA ProcessType ==
    ASSUME Inv, [Next]_vars
    PROVE  ProcessTypeOK'
  <1>0. TypeOK /\ ProcessTypeOK /\ TaskTypeOK
    BY TypeParts DEF Inv
  <1>1. CASE QuietStep
    BY <1>0, <1>1, QuietUnchanged DEF ProcessTypeOK, LatestBlock
  <1>2. ASSUME NEW w \in Withdrawals, RequestWithdrawal(w) PROVE ProcessTypeOK'
    BY <1>0, <1>2 DEF RequestWithdrawal, ProcessTypeOK, LatestBlock, tasks
  <1>3. CASE ProcessLog
    <2>1. watcher.logs \in Seq(Ids) /\ watcher.logs # <<>>
      BY <1>0, <1>3 DEF TaskTypeOK, Inv, WatcherOK, ProcessLog
    <2>2. Head(watcher.logs) \in Ids
      BY <2>1, HeadTailProperties
    <2> QED
      BY <1>0, <1>3, <2>2 DEF ProcessLog, ProcessTypeOK, LatestBlock
  <1>4. CASE BuildPayload
    <2>1. UNCHANGED <<devMode, chain, restarts>>
      BY <1>4 DEF BuildPayload
    <2> QED
      BY <1>0, <1>4, <2>1, BuildPayloadType DEF ProcessTypeOK, LatestBlock
  <1>5. CASE ImportPayload
    <2>1. payload \in Blocks /\ LatestBlock < MaxBlocks /\ chain \in Seq(Blocks)
      BY <1>0, <1>5 DEF ImportPayload, Inv, Progress, ProcessTypeOK
    <2>2. Append(chain, payload) \in Seq(Blocks) /\ Len(Append(chain, payload)) = Len(chain) + 1
      BY <2>1, AppendProperties
    <2>3. LatestBlock' <= MaxBlocks
      BY <1>0, <1>5, <2>1, <2>2, NumberFacts DEF ImportPayload, LatestBlock
    <2> QED
      BY <1>0, <1>5, <2>2, <2>3 DEF ImportPayload, ProcessTypeOK
  <1>6. CASE ImportFails
    BY <1>0, <1>6 DEF ImportFails, ProcessTypeOK, LatestBlock, l2
  <1>7. CASE Restart
    BY <1>0, <1>7, ProposerAssumption DEF Restart, ProcessTypeOK, LatestBlock
  <1> QED
    BY <1>1, <1>2, <1>3, <1>4, <1>5, <1>6, <1>7, StepKinds

-----------------------------------------------------------------------------
\* The end of the range of logs the watcher asks for
LEMMA NewLastBlockFacts ==
    ASSUME TypeOK, watcher.last < depositId
    PROVE  /\ NewLastBlock \in 0 .. MaxDeposits
           /\ watcher.last < NewLastBlock
           /\ NewLastBlock <= depositId
           /\ watcher.last \in Nat
  <1>1. watcher.last \in 0 .. MaxDeposits /\ depositId \in 0 .. MaxDeposits
    BY DEF TypeOK, ContractsTypeOK
  <1>2. MaxBlockStep \in Nat \ {0} /\ MaxDeposits \in Nat
    BY ContractsAssumption, ProposerAssumption
  <1> QED
    BY <1>1, <1>2 DEF NewLastBlock, Least

WatcherTypeOK ==
    /\ watcher \in [at : {"fetch", "pending", "process"}, last : 0 .. MaxDeposits,
                    logs : Seq(Ids), pending : Seq(Ids)]
    /\ WatcherOK

LEMMA WatcherType ==
    ASSUME Inv, [Next]_vars
    PROVE  WatcherTypeOK'
  <1>0. TypeOK /\ WatcherTypeOK /\ depositLogs \in Seq(Ids)
    BY TypeParts, Zenon DEF Inv, WatcherTypeOK, TaskTypeOK, ContractsTypeOK
  <1>e. <<>> \in Seq(Ids)
    BY EmptySeq
  <1>1. CASE GetLogs
    <2>1. PICK logs \in {EventsIn(watcher.last, NewLastBlock)} \cup (IF "rpc" \in Faults THEN {<<>>} ELSE {}) :
             watcher' = [watcher EXCEPT !.last = NewLastBlock, !.logs = logs,
                                        !.at = IF logs = <<>> THEN "fetch" ELSE "pending"]
      BY Zenon, <1>1 DEF GetLogs
    <2>2. watcher.last < depositId
      BY <1>1 DEF GetLogs
    <2>3. EventsIn(watcher.last, NewLastBlock) \in Seq(Ids)
      <3>1. /\ watcher.last \in Nat /\ NewLastBlock \in Nat
            /\ watcher.last <= NewLastBlock /\ NewLastBlock <= MaxDeposits
        BY <1>0, <2>2, NewLastBlockFacts, ContractsAssumption
      <3> QED
        BY Zenon, <3>1, EventsInType
    <2>4. logs \in Seq(Ids)
      BY Zenon, <1>e, <2>1, <2>3
    <2>5. NewLastBlock \in 0 .. MaxDeposits
      BY <1>0, <2>2, NewLastBlockFacts
    <2>6. watcher.pending \in Seq(Ids)
      BY <1>0 DEF WatcherTypeOK
    <2>7. watcher' = [at |-> IF logs = <<>> THEN "fetch" ELSE "pending", last |-> NewLastBlock,
                      logs |-> logs, pending |-> watcher.pending]
      BY Zenon, <1>0, <2>1 DEF WatcherTypeOK
    <2> QED
      BY Zenon, <2>4, <2>5, <2>6, <2>7 DEF WatcherTypeOK, WatcherOK
  <1>2. CASE GetPendingLogs
    BY Zenon, <1>0, <1>2 DEF GetPendingLogs, WatcherTypeOK, WatcherOK
  <1>3. CASE AbandonLogs
    BY Zenon, <1>0, <1>e, <1>3 DEF AbandonLogs, WatcherTypeOK, WatcherOK
  <1>4. CASE ProcessLog
    <2>1. watcher.logs \in Seq(Ids) /\ watcher.logs # <<>>
      BY <1>0, <1>4 DEF WatcherTypeOK, WatcherOK, ProcessLog
    <2>2. Tail(watcher.logs) \in Seq(Ids) /\ Len(Tail(watcher.logs)) = Len(watcher.logs) - 1
      BY <2>1, HeadTailProperties
    <2>3. Len(watcher.logs) # 1 => Tail(watcher.logs) # <<>>
      <3>1. Len(watcher.logs) \in Nat
        BY <2>1, LenProperties
      <3>2. ASSUME Tail(watcher.logs) = <<>> PROVE Len(watcher.logs) = 1
        <4>1. Len(Tail(watcher.logs)) = 0
          BY Zenon, <3>2, EmptySeq
        <4> QED
          BY <2>2, <3>1, <4>1
      <3> QED
        BY <3>2
    <2>4. CASE Len(watcher.logs) = 1
      <3>1. watcher' = [watcher EXCEPT !.logs = <<>>, !.pending = <<>>, !.at = "fetch"]
        BY <1>4, <2>4 DEF ProcessLog, NextLog
      <3> QED
        BY Zenon, <1>0, <1>e, <3>1 DEF WatcherTypeOK, WatcherOK
    <2>5. CASE Len(watcher.logs) # 1
      <3>1. watcher' = [watcher EXCEPT !.logs = Tail(@)]
        BY <1>4, <2>5 DEF ProcessLog, NextLog
      <3> QED
        BY Zenon, <1>0, <2>2, <2>3, <2>5, <3>1 DEF WatcherTypeOK, WatcherOK
    <2> QED
      BY <2>4, <2>5
  <1>5. CASE Restart
    BY <1>0, <1>e, <1>5, ContractsAssumption DEF Restart, FreshWatcher, WatcherTypeOK, WatcherOK
  <1>6. CASE UNCHANGED watcher
    BY <1>0, <1>6 DEF WatcherTypeOK, WatcherOK
  <1>7. CASE L1Deposit \/ (\E w \in Withdrawals : RequestWithdrawal(w) \/ Claim(w))
    BY <1>6, <1>7 DEF L1Deposit, RequestWithdrawal, Claim, tasks
  <1>8. CASE ProducerStep \/ ImportFails
    BY <1>6, <1>8 DEF ProducerStep, BuildPayload, ImportPayload, ImportFails
  <1>9. CASE CommitterStep \/ CommitterFails
    BY <1>6, <1>9 DEF CommitterStep, ReadLastCommitted, SendCommitment, CommitMined, CommitterFails,
                CommitterUnchanged
  <1>10. CASE ProverStep \/ ProverFails
    BY <1>6, <1>10 DEF ProverStep, RequestInput, DevReadCommitted, DevReadVerified, SendProof,
                ProofMined, ProverFails, ProverUnchanged
  <1>11. CASE MineCommit \/ MineVerify
    BY <1>6, <1>11 DEF MineCommit, MineVerify, tasks
  <1>12. CASE UNCHANGED vars
    BY <1>6, <1>12 DEF vars, tasks
  <1> QED
    BY <1>1, <1>2, <1>3, <1>4, <1>5, <1>7, <1>8, <1>9, <1>10, <1>11, <1>12 DEF Next, WatcherStep

-----------------------------------------------------------------------------
\* The chain only grows, by a block at a time
LEMMA ChainGrows ==
    ASSUME Inv, [Next]_vars
    PROVE  /\ \/ UNCHANGED chain
              \/ ImportPayload /\ payload \in Blocks /\ chain' = Append(chain, payload)
           /\ LatestBlock' \in Nat
           /\ LatestBlock <= LatestBlock'
           /\ \A n \in 1 .. LatestBlock : n \in 1 .. LatestBlock' /\ chain'[n] = chain[n]
  <1>0. TypeOK /\ ProcessTypeOK
    BY TypeParts DEF Inv
  <1>1. \/ UNCHANGED chain
        \/ ImportPayload /\ payload \in Blocks /\ chain' = Append(chain, payload)
    <2>1. CASE ImportPayload
      BY <1>0, <2>1 DEF ImportPayload, ProcessTypeOK
    <2>2. CASE BuildPayload \/ ImportFails \/ Restart
      BY <2>2 DEF BuildPayload, ImportFails, Restart, l2
    <2>3. CASE (\E w \in Withdrawals : RequestWithdrawal(w)) \/ ProcessLog
      BY <2>3 DEF RequestWithdrawal, ProcessLog
    <2> QED
      BY <2>1, <2>2, <2>3, StepKinds, QuietUnchanged
  <1>2. chain \in Seq(Blocks) /\ Len(chain) \in Nat
    BY <1>0, LenProperties DEF ProcessTypeOK
  <1>3. CASE UNCHANGED chain
    BY <1>1, <1>2, <1>3 DEF LatestBlock
  <1>4. CASE payload \in Blocks /\ chain' = Append(chain, payload)
    <2>1. Len(chain') = Len(chain) + 1 /\ \A n \in 1 .. Len(chain) : chain'[n] = chain[n]
      BY <1>2, <1>4, AppendProperties
    <2> QED
      BY <1>1, <1>2, <2>1 DEF LatestBlock
  <1> QED
    BY <1>1, <1>3, <1>4

\* The block producer stops at the bound, and the contracts follow the chain
CommitterTypeOK ==
    /\ committer \in [at : {"idle", "send", "wait"}, block : Numbers]
    /\ commitTx \in Numbers \cup {None}
    /\ CommitterOK

LEMMA CommitterUnmoved ==
    ASSUME [Next]_vars
    PROVE  CommitterStep \/ CommitterFails \/ MineCommit \/ Restart \/ UNCHANGED <<committer, commitTx>>
  <1>1. CASE L1Deposit \/ (\E w \in Withdrawals : RequestWithdrawal(w) \/ Claim(w))
    BY <1>1, Zenon DEF L1Deposit, RequestWithdrawal, Claim, tasks
  <1>2. CASE WatcherStep \/ AbandonLogs
    BY Zenon, <1>2 DEF WatcherStep, GetLogs, GetPendingLogs, ProcessLog, AbandonLogs, WatcherUnchanged
  <1>3. CASE ProducerStep \/ ImportFails
    BY <1>3 DEF ProducerStep, BuildPayload, ImportPayload, ImportFails
  <1>4. CASE ProverStep \/ ProverFails
    BY <1>4 DEF ProverStep, RequestInput, DevReadCommitted, DevReadVerified, SendProof, ProofMined,
                ProverFails, ProverUnchanged
  <1>5. CASE MineVerify \/ UNCHANGED vars
    BY <1>5 DEF MineVerify, vars, tasks
  <1> QED
    BY <1>1, <1>2, <1>3, <1>4, <1>5 DEF Next

LEMMA CommitterType ==
    ASSUME Inv, [Next]_vars
    PROVE  CommitterTypeOK'
  <1>0. TypeOK /\ CommitterTypeOK
    BY DEF Inv, TypeOK, CommitterTypeOK
  <1>1. Numbers \subseteq Nat /\ 0 \in Numbers
    BY ContractsAssumption DEF Numbers
  <1>2. LatestBlock \in Nat /\ LatestBlock' \in Nat /\ LatestBlock <= LatestBlock'
    BY <1>0, NumberFacts, ChainGrows
  <1>3. committer.block \in Nat /\ (commitTx # None => commitTx \in Nat)
    BY Zenon, <1>0, <1>1 DEF CommitterTypeOK
  <1>4. CASE UNCHANGED <<committer, commitTx>>
    BY <1>0, <1>2, <1>3, <1>4 DEF CommitterTypeOK, CommitterOK
  <1>5. CASE committer' = Idle /\ (UNCHANGED commitTx \/ commitTx' = None)
    BY <1>0, <1>1, <1>2, <1>3, <1>5 DEF CommitterTypeOK, CommitterOK, Idle
  <1>6. CASE ReadLastCommitted
    <2>1. lastCommittedBlock + 1 \in Numbers /\ lastCommittedBlock + 1 <= LatestBlock
      BY <1>0, <1>6, NumberFacts DEF ReadLastCommitted, Numbers
    <2>2. committer' = [at |-> "send", block |-> lastCommittedBlock + 1] /\ UNCHANGED commitTx
      BY <1>6 DEF ReadLastCommitted
    <2>3. lastCommittedBlock + 1 <= LatestBlock'
      BY <1>0, <1>2, <2>1, NumberFacts
    <2> QED
      BY <1>0, <1>2, <1>3, <2>1, <2>2, <2>3 DEF CommitterTypeOK, CommitterOK
  <1>7. CASE SendCommitment
    <2>1. CASE commitTx' = committer.block /\ committer' = [committer EXCEPT !.at = "wait"]
      <3>1. committer.block <= LatestBlock'
        BY <1>0, <1>2, <1>3 DEF CommitterTypeOK, CommitterOK
      <3> QED
        BY <1>0, <2>1, <3>1 DEF CommitterTypeOK, CommitterOK
    <2> QED
      BY <1>5, <1>7, <2>1 DEF SendCommitment
  <1>8. CASE CommitMined \/ CommitterFails \/ Restart
    BY <1>5, <1>8 DEF CommitMined, CommitterFails, Restart
  <1>9. CASE MineCommit
    <2>1. commitTx' = None /\ UNCHANGED committer
      BY <1>9 DEF MineCommit, tasks
    <2> QED
      BY <1>0, <1>2, <1>3, <2>1 DEF CommitterTypeOK, CommitterOK
  <1> QED
    BY <1>4, <1>6, <1>7, <1>8, <1>9, CommitterUnmoved DEF CommitterStep

-----------------------------------------------------------------------------
\* The deposits of a commitment are not the mark of a missing one
LEMMA DepositsNotNone ==
    ASSUME TypeOK, NEW n \in 0 .. LatestBlock
    PROVE  BlockDeposits(n) # None
  <1>1. Ids \subseteq Nat
    BY ContractsAssumption DEF Ids
  <1>2. BlockDeposits(n) \in Seq(Nat)
    BY Zenon, <1>1, L2BlockType, SeqMonotonic
  <1> QED
    BY <1>2, ContractsAssumption

\* A block that verify accepts is committed
LEMMA VerifiesCommitted ==
    ASSUME Inv, NEW n \in Numbers, VerifyRequires(n)
    PROVE  /\ n = lastVerifiedBlock + 1
           /\ n <= lastCommittedBlock
           /\ lastVerifiedBlock \in Numbers
  <1>1. n \in lastVerifiedBlock .. lastCommittedBlock
    BY DEF Inv, CommitmentWindow, VerifyRequires
  <1>2. TypeOK
    BY DEF Inv
  <1> QED
    BY <1>1, <1>2, NumberFacts DEF VerifyRequires, Numbers

\* commit and verify move the ends of the window, and nothing else does
LEMMA WindowMoves ==
    ASSUME Inv, [Next]_vars
    PROVE  CommitmentWindow' /\ Progress'
  <1>0. TypeOK
    BY DEF Inv
  <1>a. /\ LatestBlock \in Nat /\ LatestBlock' \in Nat /\ LatestBlock <= LatestBlock'
        /\ lastVerifiedBlock \in Nat /\ lastCommittedBlock \in Int /\ -1 <= lastCommittedBlock
    BY <1>0, NumberFacts, ChainGrows
  <1>p. (payload # None => LatestBlock < MaxBlocks)'
    <2>1. ProcessTypeOK' /\ MaxBlocks \in Nat
      BY ProcessType, ContractsAssumption
    <2>2. CASE UNCHANGED <<chain, payload>>
      BY <2>2 DEF Inv, Progress, LatestBlock
    <2>3. CASE payload' = None
      BY <2>3
    <2>4. CASE BuildPayload
      BY <2>4 DEF BuildPayload, LatestBlock
    <2>5. CASE (\E w \in Withdrawals : RequestWithdrawal(w)) \/ ProcessLog
      BY <2>2, <2>5 DEF RequestWithdrawal, ProcessLog, tasks
    <2>6. CASE ImportPayload \/ ImportFails \/ Restart
      BY <2>3, <2>6 DEF ImportPayload, ImportFails, Restart
    <2> QED
      BY <2>2, <2>4, <2>5, <2>6, StepKinds, QuietUnchanged
  <1>1. CASE UNCHANGED proposer
    <2>1. CommitmentWindow'
      BY <1>1 DEF proposer, Inv, CommitmentWindow
    <2>2. Progress'
      BY <1>1, <1>a, <1>p DEF proposer, Inv, Progress
    <2> QED
      BY <2>1, <2>2
  <1>2. CASE Deposit \/ (\E w \in Withdrawals, n \in Numbers : ClaimWithdrawal(w, n))
    BY <1>1, <1>2 DEF Deposit, ClaimWithdrawal
  <1>3. ASSUME NEW n \in Numbers, n <= LatestBlock, Commit(n, BlockWithdrawals(n), BlockDeposits(n))
        PROVE  CommitmentWindow' /\ Progress'
    <2>1. n = lastCommittedBlock + 1 /\ lastCommittedBlock' = n /\ UNCHANGED lastVerifiedBlock
      BY <1>3 DEF Commit, CommitRequires
    <2>2. n \in 0 .. LatestBlock
      BY <1>3, <1>a DEF Numbers
    <2>3. BlockDeposits(n) # None
      BY <1>0, <2>2, DepositsNotNone
    <2>4. blockCommitments' = [blockCommitments EXCEPT ![n] = BlockDeposits(n)]
      BY <1>3 DEF Commit
    <2>5. lastVerifiedBlock <= n
      BY <1>a, <2>1 DEF Inv, Progress, NoneCommitted
    <2>6. CommitmentWindow'
      <3>1. SUFFICES ASSUME NEW m \in Numbers
                     PROVE  blockCommitments'[m] # None <=> m \in lastVerifiedBlock .. n
        BY <2>1 DEF CommitmentWindow
      <3>2. blockCommitments[m] # None <=> m \in lastVerifiedBlock .. lastCommittedBlock
        BY DEF Inv, CommitmentWindow
      <3>3. blockCommitments'[m] = IF m = n THEN BlockDeposits(n) ELSE blockCommitments[m]
        BY <1>0, <2>4 DEF TypeOK, ContractsTypeOK
      <3>4. m \in Int
        BY DEF Numbers
      <3> QED
        BY <1>a, <2>1, <2>3, <2>5, <3>2, <3>3, <3>4
    <2>7. Progress'
      BY <1>3, <1>a, <1>p, <2>1, <2>5 DEF Progress
    <2> QED
      BY <2>6, <2>7
  <1>4. ASSUME NEW n \in Numbers, Verify(n)
        PROVE  CommitmentWindow' /\ Progress'
    <2>1. n = lastVerifiedBlock + 1 /\ n <= lastCommittedBlock /\ lastVerifiedBlock \in Numbers
      BY <1>4, VerifiesCommitted DEF Verify
    <2>2. lastVerifiedBlock' = n /\ UNCHANGED lastCommittedBlock
      BY <1>4 DEF Verify
    <2>3. blockCommitments' = [blockCommitments EXCEPT ![lastVerifiedBlock] = None]
      <3>1. n - 1 = lastVerifiedBlock
        BY <1>a, <2>1
      <3> QED
        BY Zenon, <1>4, <3>1 DEF Verify
    <2>4. CommitmentWindow'
      <3>1. SUFFICES ASSUME NEW m \in Numbers
                     PROVE  blockCommitments'[m] # None <=> m \in n .. lastCommittedBlock
        BY <2>2 DEF CommitmentWindow
      <3>2. blockCommitments[m] # None <=> m \in lastVerifiedBlock .. lastCommittedBlock
        BY DEF Inv, CommitmentWindow
      <3>3. blockCommitments'[m] = IF m = lastVerifiedBlock THEN None ELSE blockCommitments[m]
        BY <1>0, <2>3 DEF TypeOK, ContractsTypeOK
      <3>4. m \in Int
        BY DEF Numbers
      <3> QED
        BY <1>a, <2>1, <3>2, <3>3, <3>4
    <2>5. Progress'
      BY <1>a, <1>p, <2>1, <2>2 DEF Inv, Progress
    <2> QED
      BY <2>4, <2>5
  <1>5. CASE UNCHANGED contracts
    BY <1>1, <1>5 DEF contracts
  <1> QED
    BY <1>2, <1>3, <1>4, <1>5, ContractsMove

-----------------------------------------------------------------------------
ProverTypeOK ==
    /\ prover \in [at : {"idle", "compare", "submit", "wait"}, block : Numbers]
    /\ verifyTx \in Numbers \cup {None}
    /\ ProverOK

LEMMA ProverUnmoved ==
    ASSUME [Next]_vars
    PROVE  ProverStep \/ ProverFails \/ MineVerify \/ Restart \/ UNCHANGED <<prover, verifyTx>>
  <1>1. CASE L1Deposit \/ (\E w \in Withdrawals : RequestWithdrawal(w) \/ Claim(w))
    BY <1>1, Zenon DEF L1Deposit, RequestWithdrawal, Claim, tasks
  <1>2. CASE WatcherStep \/ AbandonLogs
    BY Zenon, <1>2 DEF WatcherStep, GetLogs, GetPendingLogs, ProcessLog, AbandonLogs, WatcherUnchanged
  <1>3. CASE ProducerStep \/ ImportFails
    BY <1>3 DEF ProducerStep, BuildPayload, ImportPayload, ImportFails
  <1>4. CASE CommitterStep \/ CommitterFails
    BY <1>4 DEF CommitterStep, ReadLastCommitted, SendCommitment, CommitMined, CommitterFails,
                CommitterUnchanged
  <1>5. CASE MineCommit \/ UNCHANGED vars
    BY <1>5 DEF MineCommit, vars, tasks
  <1> QED
    BY <1>1, <1>2, <1>3, <1>4, <1>5 DEF Next

\* The last committed block never goes back, and only a verification moves the last verified one
LEMMA CommittedGrows ==
    ASSUME Inv, [Next]_vars
    PROVE  /\ lastCommittedBlock \in Int /\ lastCommittedBlock' \in Int
           /\ lastCommittedBlock <= lastCommittedBlock'
           /\ \/ UNCHANGED lastVerifiedBlock
              \/ /\ verifyTx \in Numbers /\ verifyTx # None
                 /\ Verify(verifyTx) /\ lastVerifiedBlock' = verifyTx
  <1>0. TypeOK
    BY DEF Inv
  <1>1. lastCommittedBlock \in Int
    BY <1>0, NumberFacts
  <1>2. CASE Deposit \/ (\E w \in Withdrawals, n \in Numbers : ClaimWithdrawal(w, n))
    BY <1>1, <1>2 DEF Deposit, ClaimWithdrawal, proposer
  <1>3. ASSUME NEW n \in Numbers, Commit(n, BlockWithdrawals(n), BlockDeposits(n))
        PROVE  lastCommittedBlock' = lastCommittedBlock + 1 /\ UNCHANGED lastVerifiedBlock
    BY <1>3 DEF Commit, CommitRequires
  <1>4. ASSUME NEW n \in Numbers, n = verifyTx, Verify(n)
        PROVE  UNCHANGED lastCommittedBlock /\ Verify(verifyTx) /\ lastVerifiedBlock' = verifyTx
    BY <1>4 DEF Verify
  <1>5. CASE UNCHANGED contracts
    BY <1>1, <1>5 DEF contracts, proposer
  <1> QED
    BY <1>1, <1>2, <1>3, <1>4, <1>5, ContractsMove

LEMMA ProverType ==
    ASSUME Inv, [Next]_vars
    PROVE  ProverTypeOK'
  <1>0. TypeOK /\ ProverTypeOK
    BY DEF Inv, TypeOK, ProverTypeOK
  <1>1. Numbers \subseteq Nat /\ 0 \in Numbers
    BY ContractsAssumption DEF Numbers
  <1>2. /\ lastCommittedBlock \in Int /\ lastCommittedBlock' \in Int
        /\ lastCommittedBlock <= lastCommittedBlock'
    BY CommittedGrows
  <1>3. /\ prover.block \in Nat /\ lastVerifiedBlock \in Nat
        /\ verifyTx # None => verifyTx \in Nat /\ verifyTx <= lastCommittedBlock'
    <2>1. prover.block \in Nat /\ lastVerifiedBlock \in Nat
      BY Zenon, <1>0, <1>1, NumberFacts DEF ProverTypeOK
    <2>2. verifyTx # None => verifyTx \in Nat /\ verifyTx <= lastCommittedBlock
      BY <1>0, <1>1 DEF ProverTypeOK, ProverOK
    <2> QED
      BY <1>2, <2>1, <2>2
  <1>4. CASE UNCHANGED <<prover, verifyTx>>
    <2>1. prover.at = "compare" => lastVerifiedBlock' <= prover.block
      BY <1>0, CommittedGrows DEF ProverTypeOK, ProverOK
    <2> QED
      BY <1>0, <1>3, <1>4, <2>1 DEF ProverTypeOK, ProverOK
  <1>5. CASE prover' = Idle /\ UNCHANGED verifyTx
    BY <1>0, <1>1, <1>3, <1>5 DEF ProverTypeOK, ProverOK, Idle
  <1>6. CASE RequestInput
    <2>1. lastVerifiedBlock + 1 \in Numbers
      BY <1>0, <1>6, NumberFacts DEF RequestInput, Numbers
    <2>2. prover' = [at |-> "submit", block |-> lastVerifiedBlock + 1] /\ UNCHANGED verifyTx
      BY <1>6 DEF RequestInput
    <2> QED
      BY <1>0, <1>3, <2>1, <2>2 DEF ProverTypeOK, ProverOK
  <1>7. CASE DevReadCommitted
    <2>1. lastCommittedBlock \in Numbers /\ lastVerifiedBlock <= lastCommittedBlock
      BY <1>0, <1>7 DEF DevReadCommitted, TypeOK, ContractsTypeOK, Inv, Progress
    <2>2. /\ prover' = [at |-> "compare", block |-> lastCommittedBlock]
          /\ UNCHANGED <<verifyTx, lastVerifiedBlock>>
      BY <1>7 DEF DevReadCommitted, ProverUnchanged, contracts, proposer
    <2> QED
      BY <1>0, <1>3, <2>1, <2>2 DEF ProverTypeOK, ProverOK
  <1>8. CASE DevReadVerified
    <2>1. CASE prover.block # lastVerifiedBlock
      <3>1. lastVerifiedBlock <= prover.block /\ prover.block \in Numbers
        BY <1>0, <1>8 DEF DevReadVerified, ProverTypeOK, ProverOK
      <3>2. lastVerifiedBlock + 1 \in Numbers
        BY <1>3, <2>1, <3>1, ContractsAssumption DEF Numbers
      <3>3. prover' = [at |-> "submit", block |-> lastVerifiedBlock + 1] /\ UNCHANGED verifyTx
        BY <1>8, <2>1 DEF DevReadVerified
      <3> QED
        BY <1>0, <1>3, <3>2, <3>3 DEF ProverTypeOK, ProverOK
    <2> QED
      BY <1>5, <1>8, <2>1 DEF DevReadVerified
  <1>9. CASE SendProof
    <2>1. CASE VerifyRequires(prover.block)
      <3>1. prover.block \in Numbers /\ prover.block <= lastCommittedBlock
        BY <1>0, <2>1, VerifiesCommitted DEF ProverTypeOK
      <3>2. verifyTx' = prover.block /\ prover' = [prover EXCEPT !.at = "wait"]
        BY <1>9, <2>1 DEF SendProof
      <3>3. prover.block <= lastCommittedBlock'
        BY <1>2, <1>3, <3>1
      <3> QED
        BY <1>0, <3>1, <3>2, <3>3 DEF ProverTypeOK, ProverOK
    <2> QED
      BY <1>5, <1>9, <2>1 DEF SendProof
  <1>10. CASE ProofMined \/ ProverFails
    BY <1>5, <1>10 DEF ProofMined, ProverFails
  <1>11. CASE MineVerify
    <2>1. verifyTx' = None /\ UNCHANGED prover
      BY <1>11 DEF MineVerify, tasks
    <2>2. prover.at = "compare" => lastVerifiedBlock' <= prover.block
      BY <1>0, <1>11, CommittedGrows DEF MineVerify, ProverTypeOK, ProverOK
    <2> QED
      BY <1>0, <1>3, <2>1, <2>2 DEF ProverTypeOK, ProverOK
  <1>12. CASE Restart
    <2>1. CASE prover' = prover /\ prover.at = "submit" /\ UNCHANGED verifyTx
      BY <1>0, <1>3, <2>1 DEF ProverTypeOK, ProverOK
    <2> QED
      BY <1>5, <1>12, <2>1 DEF Restart
  <1> QED
    BY <1>4, <1>6, <1>7, <1>8, <1>9, <1>10, <1>11, <1>12, ProverUnmoved DEF ProverStep

-----------------------------------------------------------------------------
\* Only commit publishes withdrawals, and it publishes those of the block
LEMMA PublishedKept ==
    ASSUME Inv, [Next]_vars
    PROVE  Published'
  <1>0. TypeOK
    BY DEF Inv
  <1>1. \A n \in 1 .. LatestBlock : n \in 1 .. LatestBlock' /\ chain'[n] = chain[n]
    BY ChainGrows
  <1>2. CASE UNCHANGED blockWithdrawalsLogs
    BY <1>1, <1>2 DEF Inv, Published
  <1>3. CASE Deposit \/ (\E w \in Withdrawals, n \in Numbers : ClaimWithdrawal(w, n))
    BY <1>2, <1>3 DEF Deposit, ClaimWithdrawal
  <1>4. ASSUME NEW n \in Numbers, n <= LatestBlock, Commit(n, BlockWithdrawals(n), BlockDeposits(n))
        PROVE  Published'
    <2>1. SUFFICES ASSUME NEW m \in Numbers, NEW w \in Withdrawals,
                          w \in Range(blockWithdrawalsLogs'[m])
                   PROVE  m \in 1 .. LatestBlock /\ w \in Range(chain[m].withdrawals)
      BY <1>1 DEF Published
    <2>2. \/ blockWithdrawalsLogs'[m] = blockWithdrawalsLogs[m]
          \/ m = n /\ BlockWithdrawals(n) # <<>> /\ blockWithdrawalsLogs'[m] = BlockWithdrawals(n)
      BY <1>0, <1>4 DEF Commit, TypeOK, ContractsTypeOK
    <2>3. CASE blockWithdrawalsLogs'[m] = blockWithdrawalsLogs[m]
      BY <2>1, <2>3 DEF Inv, Published
    <2>4. CASE m = n /\ BlockWithdrawals(n) # <<>> /\ blockWithdrawalsLogs'[m] = BlockWithdrawals(n)
      <3>1. n # 0
        BY <2>4 DEF BlockWithdrawals, L2Block, Genesis
      <3>2. n \in 1 .. LatestBlock
        BY <1>0, <1>4, <3>1, NumberFacts DEF Numbers
      <3>3. BlockWithdrawals(n) = chain[n].withdrawals
        BY <3>1 DEF BlockWithdrawals, L2Block
      <3> QED
        BY <2>1, <2>4, <3>2, <3>3
    <2> QED
      BY <2>2, <2>3, <2>4
  <1>5. ASSUME NEW n \in Numbers, Verify(n) PROVE Published'
    BY <1>2, <1>5 DEF Verify
  <1>6. CASE UNCHANGED contracts
    BY <1>2, <1>6 DEF contracts, bridge
  <1> QED
    BY <1>3, <1>4, <1>5, <1>6, ContractsMove

\* A withdrawal is paid and marked in one step, and a verified block stays verified
LEMMA PaymentsKept ==
    ASSUME Inv, [Next]_vars
    PROVE  Payments'
  <1>0. TypeOK
    BY DEF Inv
  <1>1. \A n \in 1 .. LatestBlock : n \in 1 .. LatestBlock' /\ chain'[n] = chain[n]
    BY ChainGrows
  <1>2. lastVerifiedBlock \in Nat
    BY <1>0, NumberFacts
  <1>3. lastVerifiedBlock' \in Nat /\ lastVerifiedBlock <= lastVerifiedBlock'
    <2>1. ASSUME verifyTx \in Numbers, Verify(verifyTx)
          PROVE  lastVerifiedBlock' = lastVerifiedBlock + 1
      BY <2>1 DEF Verify, VerifyRequires
    <2> QED
      BY <1>2, <2>1, CommittedGrows
  <1>4. LatestBlock \in Nat
    BY <1>0, NumberFacts
  <1>5. ASSUME NEW w \in Withdrawals, UNCHANGED paid, UNCHANGED claimedWithdrawals
        PROVE  PaymentOK(w)'
    <2>1. PaymentOK(w)
      BY DEF Inv, Payments
    <2>2. ASSUME w \in claimedWithdrawals
          PROVE  \E n \in 1 .. LatestBlock' : n <= lastVerifiedBlock' /\ w \in Range(chain'[n].withdrawals)
      <3>1. PICK n \in 1 .. LatestBlock : n <= lastVerifiedBlock /\ w \in Range(chain[n].withdrawals)
        BY <2>1, <2>2 DEF PaymentOK
      <3>2. n <= lastVerifiedBlock'
        BY <1>2, <1>3, <3>1
      <3> QED
        BY <1>1, <3>1, <3>2
    <2> QED
      BY <1>5, <2>1, <2>2 DEF PaymentOK
  <1>6. CASE Deposit
    BY <1>5, <1>6 DEF Deposit, Payments
  <1>7. ASSUME NEW w \in Withdrawals, NEW n \in Numbers, ClaimWithdrawal(w, n)
        PROVE  Payments'
    <2>1. /\ w \in Range(blockWithdrawalsLogs[n]) /\ n <= lastVerifiedBlock
          /\ w \notin claimedWithdrawals
      BY <1>7 DEF ClaimWithdrawal, ClaimRequires
    <2>2. n \in 1 .. LatestBlock /\ w \in Range(chain[n].withdrawals)
      BY <2>1 DEF Inv, Published
    <2>3. UNCHANGED lastVerifiedBlock
      BY <1>7 DEF ClaimWithdrawal, proposer
    <2>4. claimedWithdrawals' = claimedWithdrawals \cup {w} /\ paid' = [paid EXCEPT ![w] = @ + 1]
      BY <1>7 DEF ClaimWithdrawal
    <2>5. paid \in [Withdrawals -> Nat]
      BY <1>0 DEF TypeOK, ContractsTypeOK
    <2>6. ASSUME NEW v \in Withdrawals PROVE PaymentOK(v)'
      <3>1. PaymentOK(v)
        BY DEF Inv, Payments
      <3>2. CASE v = w
        <4>1. paid[w] = 0
          BY <2>1, <3>1, <3>2 DEF PaymentOK
        <4>2. paid'[w] = 1 /\ w \in claimedWithdrawals'
          BY <2>4, <2>5, <4>1
        <4>3. n \in 1 .. LatestBlock' /\ n <= lastVerifiedBlock' /\ w \in Range(chain'[n].withdrawals)
          BY <1>1, <2>1, <2>2, <2>3
        <4> QED
          BY <3>2, <4>2, <4>3 DEF PaymentOK
      <3>3. CASE v # w
        <4>1. paid'[v] = paid[v] /\ (v \in claimedWithdrawals' <=> v \in claimedWithdrawals)
          BY <2>4, <2>5, <3>3
        <4>2. ASSUME v \in claimedWithdrawals
              PROVE  \E k \in 1 .. LatestBlock' : k <= lastVerifiedBlock' /\ v \in Range(chain'[k].withdrawals)
          <5>1. PICK k \in 1 .. LatestBlock : k <= lastVerifiedBlock /\ v \in Range(chain[k].withdrawals)
            BY <3>1, <4>2 DEF PaymentOK
          <5> QED
            BY <1>1, <2>3, <5>1
        <4> QED
          BY <3>1, <4>1, <4>2 DEF PaymentOK
      <3> QED
        BY <3>2, <3>3
    <2> QED
      BY <2>6 DEF Payments
  <1>8. ASSUME NEW n \in Numbers, Commit(n, BlockWithdrawals(n), BlockDeposits(n)) \/ Verify(n)
        PROVE  Payments'
    BY <1>5, <1>8 DEF Commit, Verify, Payments
  <1>9. CASE UNCHANGED contracts
    BY <1>5, <1>9 DEF contracts, bridge, Payments
  <1> QED
    BY <1>6, <1>7, <1>8, <1>9, ContractsMove

-----------------------------------------------------------------------------
LEMMA NextInv ==
    ASSUME Inv, [Next]_vars
    PROVE  Inv'
  <1>1. ContractsTypeOK'
    BY ContractsMove, ContractsType DEF Inv
  <1>2. TypeOK'
    BY <1>1, ProcessType, WatcherType, CommitterType, ProverType
    DEF TypeOK, ProcessTypeOK, WatcherTypeOK, CommitterTypeOK, ProverTypeOK
  <1> QED
    BY <1>2, WindowMoves, WatcherType, CommitterType, ProverType, PublishedKept, PaymentsKept
    DEF Inv, WatcherTypeOK, CommitterTypeOK, ProverTypeOK

\* The invariant holds in every reachable state, whatever fails or restarts
THEOREM InvHolds == Spec => []Inv
  BY InitInv, NextInv, PTL DEF Spec

\* Every variable of the sequencer and of the contracts keeps its type: the watcher stays in
\* the range of L1 blocks, the tasks work on blocks that exist
THEOREM TypeHolds == Spec => []TypeOK
  <1>1. Inv => TypeOK
    BY DEF Inv
  <1> QED
    BY <1>1, InvHolds, PTL

\* OnChainProposer keeps the commitments from the last verified to the last committed block
\* and no others, for any number of blocks and whatever the sequencer lost or sent twice
THEOREM WindowHolds == Spec => []CommitmentWindow
  <1>1. Inv => CommitmentWindow
    BY DEF Inv
  <1> QED
    BY <1>1, InvHolds, PTL

\* CommonBridge pays a withdrawal once, and only when the block that burned the money is
\* verified
THEOREM PaidOnce == Spec => []PaidOnceWhenFinal
  <1>1. Inv => PaidOnceWhenFinal
    <2>1. SUFFICES ASSUME Inv, NEW w \in Withdrawals, paid[w] > 0
                   PROVE  /\ paid[w] = 1
                          /\ \E n \in 1 .. lastVerifiedBlock : w \in Range(BlockWithdrawals(n))
      BY DEF PaidOnceWhenFinal
    <2>2. paid[w] = 1 /\ w \in claimedWithdrawals
      BY <2>1 DEF Inv, Payments, PaymentOK
    <2>3. PICK n \in 1 .. LatestBlock : n <= lastVerifiedBlock /\ w \in Range(chain[n].withdrawals)
      BY <2>1, <2>2 DEF Inv, Payments, PaymentOK
    <2>4. lastVerifiedBlock \in Nat /\ LatestBlock \in Nat
      BY <2>1, NumberFacts DEF Inv
    <2>5. n \in 1 .. lastVerifiedBlock
      BY <2>3, <2>4
    <2>6. BlockWithdrawals(n) = chain[n].withdrawals
      BY <2>5 DEF BlockWithdrawals, L2Block
    <2> QED
      BY <2>2, <2>3, <2>5, <2>6
  <1> QED
    BY <1>1, InvHolds, PTL

==============================================================================
