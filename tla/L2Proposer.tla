------------------------------ MODULE L2Proposer ------------------------------
(***************************************************************************)
(* The L2 sequencer process around the L1 contracts: the watcher turns     *)
(* deposit events into mint transactions, the block producer builds blocks *)
(* from the mempool, the committer sends them to L1, the prover server has *)
(* them verified.  Each is a task with a loop of its own; they share the   *)
(* store and the contracts and nothing else.                               *)
(*                                                                         *)
(* The L1 is external: block k of it carries deposit k - 1, and a sender   *)
(* has at most one transaction waiting there, because the nonce is always  *)
(* the latest one: a second send replaces the first.  A sender that gives  *)
(* up waiting leaves its transaction behind.                               *)
(***************************************************************************)
EXTENDS L1Contracts

CONSTANTS
    MaxBlockStep,   \* L1 blocks per request for logs
    BlockCapacity,  \* privileged transactions that fit into a block's gas limit
    MaxRestarts,    \* bound on the restarts of the process
    Faults          \* what may go wrong, see FaultKinds

\* rpc: a request fails or times out; pool: the mempool refuses a mint transaction;
\* fee: the base fee rises above a mint transaction's price; import: a built payload is
\* not imported; diff: a block's transactions change the storage of an account and nothing
\* else of it; restart: the process stops and starts again
FaultKinds == {"rpc", "pool", "fee", "import", "diff", "restart"}

ASSUME ProposerAssumption ==
    /\ MaxBlockStep \in Nat \ {0}
    /\ BlockCapacity \in Nat \ {0}
    /\ MaxRestarts \in Nat
    /\ Faults \subseteq FaultKinds

VARIABLES
    devMode,    \* prover server: verify without a prover client
    chain,      \* canonical L2 blocks after genesis, by number
    pool,       \* mempool: mint transactions by deposit id, and withdrawals
    payload,    \* block producer: the block built and not yet imported, or None
    watcher,    \* L1Watcher: last_block_fetched and the locals of process_logs
    committer,  \* Committer: position in main_logic and block_number_to_fetch
    prover,     \* ProverServer: position and block number
    commitTx,   \* L1: number of the block in the waiting commit transaction, or None
    verifyTx,   \* L1: the same for the verify transaction
    restarts    \* restarts so far

tasks == <<payload, watcher, committer, prover>>
l2 == <<devMode, chain, pool, restarts>>
vars == <<contracts, l2, tasks, commitTx, verifyTx>>

Genesis == [deposits |-> <<>>, withdrawals |-> <<>>, diffable |-> TRUE]
L2Block(n) == IF n = 0 THEN Genesis ELSE chain[n]
LatestBlock == Len(chain)

\* get_block_deposits and get_block_withdrawals, in block order
BlockDeposits(n) == L2Block(n).deposits
BlockWithdrawals(n) == L2Block(n).withdrawals

\* diffable: prepare_state_diff finds the account info of every update
Blocks == [deposits : Seq(Ids), withdrawals : Seq(Withdrawals), diffable : BOOLEAN]

\* new_from_config: the L1 block the contract was initialized in
FreshWatcher == [at |-> "fetch", last |-> 0, logs |-> <<>>, pending |-> <<>>]
Idle == [at |-> "idle", block |-> 0]

Init ==
    /\ ContractsInit
    /\ devMode \in BOOLEAN
    /\ chain = <<>>
    /\ pool = [deposits |-> {}, withdrawals |-> {}]
    /\ payload = None
    /\ watcher = FreshWatcher
    /\ committer = Idle
    /\ prover = Idle
    /\ commitTx = None
    /\ verifyTx = None
    /\ restarts = 0

----------------------------------------------------------------------------
(* Users *)

L1Deposit == Deposit /\ UNCHANGED <<l2, tasks, commitTx, verifyTx>>

Included == UNION {Range(BlockWithdrawals(n)) : n \in 1 .. LatestBlock}

\* A withdrawal transaction reaches the mempool
RequestWithdrawal(w) ==
    /\ w \notin Included /\ w \notin pool.withdrawals
    /\ payload # None => w \notin Range(payload.withdrawals)
    /\ pool' = [pool EXCEPT !.withdrawals = @ \cup {w}]
    /\ UNCHANGED <<contracts, devMode, chain, restarts, tasks, commitTx, verifyTx>>

Claim(w) ==
    /\ \E n \in Numbers : ClaimWithdrawal(w, n)
    /\ UNCHANGED <<l2, tasks, commitTx, verifyTx>>

----------------------------------------------------------------------------
(* L1Watcher::main_logic *)

WatcherUnchanged ==
    UNCHANGED <<contracts, l2, payload, committer, prover, commitTx, verifyTx>>

Least(a, b) == IF a <= b THEN a ELSE b

\* Faulty variant: the range starts at the last block of the previous one
EventsInInclusive(from, to) ==
    LET first == IF from = 0 THEN 0 ELSE from - 1 IN [i \in 1 .. to - first |-> first + i - 1]

\* The deposits whose events are in L1 blocks from + 1 .. to
EventsIn(from, to) == [i \in 1 .. to - from |-> from + i - 1]

\* get_logs: the end of the next range
NewLastBlock == Least(watcher.last + MaxBlockStep, depositId)

\* get_logs: when the request fails the range is skipped
GetLogs ==
    /\ watcher.at = "fetch"
    /\ watcher.last < depositId
    /\ \E logs \in {EventsIn(watcher.last, NewLastBlock)}
                      \cup (IF "rpc" \in Faults THEN {<<>>} ELSE {}) :
          watcher' = [watcher EXCEPT !.last = NewLastBlock, !.logs = logs,
                                     !.at = IF logs = <<>> THEN "fetch" ELSE "pending"]
    /\ WatcherUnchanged

\* get_pending_deposit_logs
GetPendingLogs ==
    /\ watcher.at = "pending"
    /\ watcher' = [watcher EXCEPT !.pending = depositLogs, !.at = "process"]
    /\ WatcherUnchanged

\* main_logic returns the error and run starts it again: the logs are gone
AbandonLogs ==
    /\ "rpc" \in Faults
    /\ watcher.at \in {"pending", "process"}
    /\ watcher' = [watcher EXCEPT !.logs = <<>>, !.pending = <<>>, !.at = "fetch"]
    /\ WatcherUnchanged

\* Faulty variant: a log that is done ends the loop
NextLogReturns == watcher' = [watcher EXCEPT !.logs = <<>>, !.pending = <<>>, !.at = "fetch"]

NextLog ==
    IF Len(watcher.logs) = 1
    THEN watcher' = [watcher EXCEPT !.logs = <<>>, !.pending = <<>>, !.at = "fetch"]
    ELSE watcher' = [watcher EXCEPT !.logs = Tail(@)]

\* process_logs, one log: skip it, add its mint transaction, or go on without it
ProcessLog ==
    /\ watcher.at = "process"
    /\ NextLog
    /\ LET id == Head(watcher.logs) IN
       \/ /\ id \notin Range(watcher.pending)
          /\ UNCHANGED pool
       \/ /\ id \in Range(watcher.pending)
          /\ pool' = [pool EXCEPT !.deposits = @ \cup {id}]
       \/ /\ id \in Range(watcher.pending)
          /\ "pool" \in Faults
          /\ UNCHANGED pool
    /\ UNCHANGED <<contracts, devMode, chain, restarts, payload, committer, prover,
                   commitTx, verifyTx>>

----------------------------------------------------------------------------
(* Block producer: engine_getPayload, then engine_newPayload and fork choice *)

\* How many entries the lists have together, counted by their places
Count(lists) == Cardinality(UNION {{n} \X DOMAIN lists[n] : n \in DOMAIN lists})

Minted == Count([n \in 1 .. LatestBlock |-> chain[n].deposits])
Burned == Count([n \in 1 .. LatestBlock |-> chain[n].withdrawals])

\* fetch_mempool_transactions: mint transactions the base fee leaves in
Affordable == IF "fee" \in Faults THEN SUBSET pool.deposits ELSE {pool.deposits}

\* Faulty variant: mint transactions in any order
QueueYieldsAny(mints, ids, room) ==
    /\ Len(mints) = Least(room, Cardinality(ids))
    /\ IsInjective(mints)

\* Mint transactions have one sender, so the queue yields them by nonce, the deposit id,
\* as long as there is room
QueueYields(mints, ids, room) ==
    /\ Len(mints) = Least(room, Cardinality(ids))
    /\ \A i, j \in DOMAIN mints : i < j => mints[i] < mints[j]
    /\ \A i \in DOMAIN mints, id \in ids \ Range(mints) : mints[i] < id

(***************************************************************************)
(* fill_transactions: what is put into the payload leaves the mempool.     *)
(* Withdrawals pay the price their senders chose, so any of them may be in *)
(* and before the mint transactions; they burn money that was minted.      *)
(***************************************************************************)
Fill(ids, mints, burns) ==
    /\ QueueYields(mints, ids, BlockCapacity - Len(burns))
    /\ IsInjective(burns)
    /\ Burned + Len(burns) <= Minted + Len(mints)
    /\ \E d \in {TRUE} \cup (IF "diff" \in Faults THEN {FALSE} ELSE {}) :
          payload' = [deposits |-> mints, withdrawals |-> burns, diffable |-> d]
    /\ pool' = [deposits |-> pool.deposits \ Range(mints),
                withdrawals |-> pool.withdrawals \ Range(burns)]

BuildPayload ==
    /\ payload = None
    /\ LatestBlock < MaxBlocks
    /\ \E ids \in Affordable, k \in 0 .. BlockCapacity :
       \E l \in 0 .. BlockCapacity - k :
       \E mints \in [1 .. k -> ids], burns \in [1 .. l -> pool.withdrawals] : Fill(ids, mints, burns)
    /\ UNCHANGED <<contracts, devMode, chain, restarts, watcher, committer, prover,
                   commitTx, verifyTx>>

ImportPayload ==
    /\ payload # None
    /\ chain' = Append(chain, payload)
    /\ payload' = None
    /\ UNCHANGED <<contracts, devMode, pool, restarts, watcher, committer, prover,
                   commitTx, verifyTx>>

\* start_block_producer tries again with a new payload
ImportFails ==
    /\ "import" \in Faults
    /\ payload # None
    /\ payload' = None
    /\ UNCHANGED <<contracts, l2, watcher, committer, prover, commitTx, verifyTx>>

----------------------------------------------------------------------------
(* Committer::main_logic *)

CommitterUnchanged == UNCHANGED <<contracts, l2, payload, watcher, prover, verifyTx>>

ReadLastCommitted ==
    /\ committer.at = "idle"
    /\ lastCommittedBlock + 1 <= LatestBlock
    /\ committer' = [at |-> "send", block |-> lastCommittedBlock + 1]
    /\ UNCHANGED commitTx
    /\ CommitterUnchanged

CommitAccepted(n) == CommitRequires(n, BlockWithdrawals(n), BlockDeposits(n))

\* prepare_state_diff fails on an update without account info; send_commitment fails when
\* the gas estimation, which runs the call, sees it revert
SendCommitment ==
    /\ committer.at = "send"
    /\ IF L2Block(committer.block).diffable /\ CommitAccepted(committer.block)
       THEN /\ commitTx' = committer.block
            /\ committer' = [committer EXCEPT !.at = "wait"]
       ELSE committer' = Idle /\ UNCHANGED commitTx
    /\ CommitterUnchanged

\* The receipt is there, whatever its status
CommitMined ==
    /\ committer.at = "wait"
    /\ commitTx = None
    /\ committer' = Idle
    /\ UNCHANGED commitTx
    /\ CommitterUnchanged

\* A failed request, or no receipt after the last retry
CommitterFails ==
    /\ "rpc" \in Faults
    /\ committer.at \in {"send", "wait"}
    /\ committer' = Idle
    /\ UNCHANGED commitTx
    /\ CommitterUnchanged

----------------------------------------------------------------------------
(* ProverServer::main_logic_dev, or a prover client and handle_connection *)

ProverUnchanged == UNCHANGED <<contracts, l2, payload, watcher, committer, commitTx>>

\* The client's Request: the block after the last verified one, if there is one
RequestInput ==
    /\ ~devMode
    /\ prover.at = "idle"
    /\ lastVerifiedBlock + 1 <= LatestBlock
    /\ prover' = [at |-> "submit", block |-> lastVerifiedBlock + 1]
    /\ UNCHANGED verifyTx
    /\ ProverUnchanged

\* main_logic_dev: the first of its two reads
DevReadCommitted ==
    /\ devMode
    /\ prover.at = "idle"
    /\ lastCommittedBlock # NoneCommitted
    /\ prover' = [at |-> "compare", block |-> lastCommittedBlock]
    /\ UNCHANGED verifyTx
    /\ ProverUnchanged

DevReadVerified ==
    /\ prover.at = "compare"
    /\ prover' = IF prover.block = lastVerifiedBlock
                 THEN Idle
                 ELSE [at |-> "submit", block |-> lastVerifiedBlock + 1]
    /\ UNCHANGED verifyTx
    /\ ProverUnchanged

\* send_proof; the client has its acknowledgement already
SendProof ==
    /\ prover.at = "submit"
    /\ IF VerifyRequires(prover.block)
       THEN /\ verifyTx' = prover.block
            /\ prover' = [prover EXCEPT !.at = "wait"]
       ELSE prover' = Idle /\ UNCHANGED verifyTx
    /\ ProverUnchanged

ProofMined ==
    /\ prover.at = "wait"
    /\ verifyTx = None
    /\ prover' = Idle
    /\ UNCHANGED verifyTx
    /\ ProverUnchanged

\* A failed request, a failed proof, or no receipt after the last retry
ProverFails ==
    /\ "rpc" \in Faults
    /\ prover.at # "idle"
    /\ prover' = Idle
    /\ UNCHANGED verifyTx
    /\ ProverUnchanged

----------------------------------------------------------------------------
(* L1, and the process as a whole *)

\* The waiting commit transaction is mined; a call that reverts changes nothing
MineCommit ==
    /\ commitTx # None
    /\ \/ Commit(commitTx, BlockWithdrawals(commitTx), BlockDeposits(commitTx))
       \/ ~CommitAccepted(commitTx) /\ UNCHANGED contracts
    /\ commitTx' = None
    /\ UNCHANGED <<l2, tasks, verifyTx>>

MineVerify ==
    /\ verifyTx # None
    /\ \/ Verify(verifyTx)
       \/ ~VerifyRequires(verifyTx) /\ UNCHANGED contracts
    /\ verifyTx' = None
    /\ UNCHANGED <<l2, tasks, commitTx>>

(***************************************************************************)
(* The mempool and the tasks are in memory, the chain is not.  The prover  *)
(* client is another process and may still submit its proof.               *)
(***************************************************************************)
Restart ==
    /\ "restart" \in Faults
    /\ restarts < MaxRestarts
    /\ restarts' = restarts + 1
    /\ pool' = [deposits |-> {}, withdrawals |-> {}]
    /\ payload' = None
    /\ watcher' = FreshWatcher
    /\ committer' = Idle
    /\ prover' \in {Idle} \cup (IF ~devMode /\ prover.at = "submit" THEN {prover} ELSE {})
    /\ UNCHANGED <<contracts, devMode, chain, commitTx, verifyTx>>

WatcherStep == GetLogs \/ GetPendingLogs \/ ProcessLog
ProducerStep == BuildPayload \/ ImportPayload
CommitterStep == ReadLastCommitted \/ SendCommitment \/ CommitMined
ProverStep == RequestInput \/ DevReadCommitted \/ DevReadVerified \/ SendProof \/ ProofMined

Next ==
    \/ L1Deposit
    \/ \E w \in Withdrawals : RequestWithdrawal(w) \/ Claim(w)
    \/ WatcherStep \/ AbandonLogs
    \/ ProducerStep \/ ImportFails
    \/ CommitterStep \/ CommitterFails
    \/ ProverStep \/ ProverFails
    \/ MineCommit \/ MineVerify
    \/ Restart

Spec == Init /\ [][Next]_vars

\* Each task loops forever, and L1 mines what it is sent
Fairness ==
    /\ WF_vars(WatcherStep)
    /\ WF_vars(ProducerStep)
    /\ WF_vars(CommitterStep)
    /\ WF_vars(ProverStep)
    /\ WF_vars(MineCommit)
    /\ WF_vars(MineVerify)

FairSpec == Spec /\ Fairness

----------------------------------------------------------------------------
(* Properties *)

TypeOK ==
    /\ ContractsTypeOK
    /\ devMode \in BOOLEAN
    /\ chain \in Seq(Blocks) /\ LatestBlock <= MaxBlocks
    /\ pool \in [deposits : SUBSET Ids, withdrawals : SUBSET Withdrawals]
    /\ payload \in Blocks \cup {None}
    /\ watcher \in [at : {"fetch", "pending", "process"}, last : 0 .. MaxDeposits,
                    logs : Seq(Ids), pending : Seq(Ids)]
    /\ committer \in [at : {"idle", "send", "wait"}, block : Numbers]
    /\ prover \in [at : {"idle", "compare", "submit", "wait"}, block : Numbers]
    /\ commitTx \in Numbers \cup {None}
    /\ verifyTx \in Numbers \cup {None}
    /\ restarts \in 0 .. MaxRestarts

\* The deposits minted in the blocks up to n
MintedUpTo(n) == UNION {Range(BlockDeposits(m)) : m \in 1 .. n}

(***************************************************************************)
(* The contract keeps commitments of exactly the blocks from the last      *)
(* verified to the last committed one, so the block after the last         *)
(* verified one can be verified as soon as it is committed, whatever the   *)
(* sequencer lost, sent late or sent twice (OnChainProposer commit and     *)
(* verify).                                                                *)
(***************************************************************************)
CommitmentWindow ==
    \A n \in Numbers : blockCommitments[n] # None <=> n \in lastVerifiedBlock .. lastCommittedBlock

(***************************************************************************)
(* A withdrawal is paid at most once, and only when the L2 block that      *)
(* burned the money is verified (CommonBridge.claimWithdrawal,             *)
(* Committer::get_block_withdrawals).                                      *)
(***************************************************************************)
PaidOnceWhenFinal ==
    \A w \in Withdrawals :
        paid[w] > 0 => /\ paid[w] = 1
                       /\ \E n \in 1 .. lastVerifiedBlock : w \in Range(BlockWithdrawals(n))

(***************************************************************************)
(* Every mint transaction stands for one deposit: no deposit is minted     *)
(* twice (L1Watcher::process_logs, get_logs, fill_transactions).           *)
(***************************************************************************)
MintedOnce ==
    \A m, n \in 1 .. LatestBlock :
        \A i \in DOMAIN chain[m].deposits, j \in DOMAIN chain[n].deposits :
            chain[m].deposits[i] = chain[n].deposits[j] => m = n /\ i = j

(***************************************************************************)
(* The deposits of a block that is committed and not verified are the      *)
(* first of the queue: verify, which removes as many logs as the block has *)
(* deposits, removes these ones and never reverts                          *)
(* (OnChainProposer.commit, CommonBridge.removeDepositLogs).               *)
(***************************************************************************)
CommittedDepositsFirst ==
    \A n \in lastVerifiedBlock + 1 .. lastCommittedBlock :
        AreFirst(BlockDeposits(n))

(***************************************************************************)
(* A deposit that left the queue was minted in a verified block            *)
(* (CommonBridge.removeDepositLogs).                                       *)
(***************************************************************************)
RemovedWereMinted ==
    \A id \in 0 .. depositId - 1 :
        id \in Range(depositLogs) \/ id \in MintedUpTo(lastVerifiedBlock)

(***************************************************************************)
(* The bridge's queue and the L2 stay in step: what waits for verification *)
(* is at its front, and what left it was minted (commit, verify,           *)
(* removeDepositLogs).                                                     *)
(***************************************************************************)
DepositsInOrder == CommittedDepositsFirst /\ RemovedWereMinted

(***************************************************************************)
(* The bridge can pay every withdrawal the L2 has burned money for         *)
(* (CommonBridge balance, mint and burn in crates/vm/mods.rs).             *)
(***************************************************************************)
Solvent == balance >= Cardinality(Included \ claimedWithdrawals)

(***************************************************************************)
(* Every L2 block is committed and verified in the end                     *)
(* (Committer::main_logic, ProverServer).                                  *)
(***************************************************************************)
BlocksVerified == \A n \in 1 .. MaxBlocks : LatestBlock >= n ~> lastVerifiedBlock >= n

(***************************************************************************)
(* The mint transaction of every deposit reaches the mempool               *)
(* (L1Watcher::main_logic).                                                *)
(***************************************************************************)
DepositsInserted ==
    \A id \in Ids : depositId > id ~> (id \in pool.deposits \/ id \in MintedUpTo(LatestBlock))

==============================================================================
