------------------------------ MODULE Producer ------------------------------
(***************************************************************************)
(* Block production in the dev node: users submit transactions to the      *)
(* mempool; the producer (blockchain/dev/block_producer.rs) drives the     *)
(* Engine API over HTTP with forkchoiceUpdated, getPayload and newPayload, *)
(* whose requests and answers may be lost; getPayload's handler fills the  *)
(* payload from the mempool (blockchain/payload.rs) transaction by         *)
(* transaction, and goes on when its client has given up waiting.          *)
(* newPayload and the fork choice are one step each: their steps against   *)
(* the store are the subject of EngineApi.  A block's hash is its place in *)
(* the sequence of stored blocks.                                          *)
(***************************************************************************)
EXTENDS TxPool

CONSTANTS Handlers,        \* getPayload requests the node serves at a time
          GenesisHeader, GenesisAccounts,
          Withdrawals,     \* what the payload attributes pay out to accounts
          Waiting,         \* sequences of transactions admitted before the producer starts
          Eip155Block,     \* first block with replay protection
          max_tries,
          MaxProduced, MaxLead, MaxLosses, MaxSubmits   \* bounds of the instance

VARIABLES archive,    \* stored blocks
          canonicalHead,  \* the canonical head
          pool,       \* transaction |-> time it entered
          bundles,    \* transaction |-> its blobs bundle
          arrivals,   \* transactions that entered so far
          sub,        \* transaction |-> progress of its submission
          submits,    \* submissions so far
          payloads,   \* payload id |-> payload
          job,        \* handler |-> the payload it is filling
          prod,       \* the producer
          clock, losses

poolVars == <<pool, bundles, arrivals, sub, submits>>
chainVars == <<archive, canonicalHead>>
producerVars == <<archive, canonicalHead, pool, bundles, arrivals, sub, submits, payloads, job, prod, clock, losses>>

NoEntries == [x \in {} |-> x]
Idle == [stage |-> "idle"]
Block(header, txs, withdrawals, accounts, receipts) ==
    [header |-> header, txs |-> txs, withdrawals |-> withdrawals,
     state_root |-> accounts, receipts_root |-> receipts]
NoWithdrawals == [s \in Senders |-> 0]

ProducerInit ==
    /\ archive = <<Block(GenesisHeader, <<>>, NoWithdrawals, GenesisAccounts, <<>>)>>
    /\ canonicalHead = 1
    /\ \E waiting \in Waiting :
          LET ts == Range(waiting)
          IN  /\ pool = [t \in ts |-> CHOOSE i \in DOMAIN waiting : waiting[i] = t]
              /\ bundles = [t \in {u \in ts : is_blob(u)} |-> blob_versioned_hashes(t)]
              /\ arrivals = Len(waiting)
              /\ sub = [t \in Txs |-> IF t \in ts THEN "done" ELSE "new"]
    /\ submits = 0
    /\ payloads = NoEntries
    /\ job = [h \in Handlers |-> Idle]
    /\ prod = [pc |-> "fcu", head |-> 1, tries |-> 0]
    /\ clock = GenesisHeader.timestamp + 1 /\ losses = 0

---------------------------------------------------------------------------
(* eth_sendRawTransaction.                                                 *)

Put(f, x, v) == [y \in DOMAIN f \cup {x} |-> IF y = x THEN v ELSE f[y]]
Without(f, x) == [y \in DOMAIN f \ {x} |-> f[y]]

\* The checks of add_transaction and add_blob_transaction, against the head of
\* this moment.
SubmitTransaction(t, bundle) ==
    /\ sub[t] \in {"new", "refused", "done"}
    /\ submits < MaxSubmits
    /\ is_blob(t) \/ bundle = <<>>
    /\ submits' = submits + 1
    /\ sub' = [sub EXCEPT ![t] =
                  IF /\ is_blob(t) => validate_bundle(t, bundle)
                     /\ validate_transaction(t, archive[canonicalHead].header, archive[canonicalHead].state_root)
                  THEN "checked" ELSE "refused"]
    /\ UNCHANGED <<chainVars, pool, bundles, arrivals, payloads, job, prod, clock, losses>>

\* add_transaction_to_pool; an older copy of the same transaction is replaced.
AddTransactionToPool(t) ==
    /\ sub[t] = "checked"
    /\ pool' = Put(pool, t, arrivals + 1)
    /\ arrivals' = arrivals + 1
    /\ sub' = [sub EXCEPT ![t] = IF is_blob(t) THEN "pooled" ELSE "done"]
    /\ UNCHANGED <<chainVars, bundles, submits, payloads, job, prod, clock, losses>>

\* add_blobs_bundle_to_pool, under a lock of its own.
AddBlobsBundleToPool(t) ==
    /\ sub[t] = "pooled"
    /\ bundles' = Put(bundles, t, blob_versioned_hashes(t))
    /\ sub' = [sub EXCEPT ![t] = "done"]
    /\ UNCHANGED <<chainVars, pool, arrivals, submits, payloads, job, prod, clock, losses>>

---------------------------------------------------------------------------
(* engine_getPayload: filling a payload.                                   *)

BaseFee(h) == job[h].block.header.base_fee_per_gas

\* build_execution_payload_response finds the payload not completed; build_payload
\* sets its context up and applies the withdrawals.
StartBuild(id) ==
    LET block == payloads[id].block
    IN  [stage |-> "plain", id |-> id, block |-> block,
         remaining_gas |-> block.header.gas_limit,
         accounts |-> process_withdrawals(block.withdrawals, block.state_root),
         bundle |-> <<>>, current |-> <<>>, time |-> NoEntries, plain_txs |-> NoEntries, blob_txs |-> NoEntries]

\* The two filter_transactions calls of fetch_mempool_transactions.
FetchTransactions(h, only_blobs) ==
    LET header == job[h].block.header
        queue == filter_transactions(pool, only_blobs, BaseFee(h),
                     calculate_base_fee_per_blob_gas(header.excess_blob_gas))
        \* the copies in the queue keep their times
        time == [t \in DOMAIN job[h].time \cup DOMAIN pool |->
                    IF t \in DOMAIN job[h].time THEN job[h].time[t] ELSE pool[t]]
    IN  /\ job' = [job EXCEPT ![h] =
               IF only_blobs THEN [@ EXCEPT !.stage = "fill", !.blob_txs = queue, !.time = time]
               ELSE [@ EXCEPT !.stage = "blob", !.plain_txs = queue, !.time = time]]
        /\ UNCHANGED <<chainVars, poolVars, payloads, prod, clock, losses>>

FetchPlain(h) == job[h].stage = "plain" /\ FetchTransactions(h, FALSE)
FetchBlob(h) == job[h].stage = "blob" /\ FetchTransactions(h, TRUE)

\* The blob queue as the loop leaves it: cleared once the block is full of blobs.
BlobQueue(j) == IF Len(j.bundle) * GAS_PER_BLOB >= MAX_BLOB_GAS_PER_BLOCK THEN NoEntries ELSE j.blob_txs

NextTransaction(j) ==
    IF j.remaining_gas < TX_GAS_COST THEN <<>>
    ELSE next_head(j.plain_txs, BlobQueue(j), j.time, j.block.header.base_fee_per_gas)

\* Drop the sender from the queue its transaction came from.
PopSender(j, t) ==
    IF is_blob(t) THEN [j EXCEPT !.blob_txs = pop(@, t)] ELSE [j EXCEPT !.plain_txs = pop(@, t)]

\* Mutant of BlobsFit: each bundle is measured alone.
BlobsFitAlone(j, t) ==
    is_blob(t) => t \in DOMAIN bundles /\ Len(bundles[t]) * GAS_PER_BLOB <= MAX_BLOB_GAS_PER_BLOCK

\* apply_blob_transaction's checks: the bundle is in the pool, and fits.
BlobsFit(j, t) ==
    is_blob(t) =>
        /\ t \in DOMAIN bundles
        /\ (Len(j.bundle) + Len(bundles[t])) * GAS_PER_BLOB <= MAX_BLOB_GAS_PER_BLOCK

\* apply_transaction: gas, receipt, and for a blob transaction the blob gas and
\* the bundle are added to the context.
Applied(j, t) ==
    LET remaining == Larger(j.remaining_gas - Tx[t].gas_used, 0)
        bundle == IF is_blob(t) THEN bundles[t] ELSE <<>>
        header == j.block.header
    IN  [j EXCEPT !.stage = "remove", !.current = <<t>>,
                  !.remaining_gas = remaining,
                  !.accounts = After(t, header, @),
                  !.bundle = @ \o bundle,
                  !.block = [@ EXCEPT
                      !.header.blob_gas_used = @ + Len(bundle) * GAS_PER_BLOB,
                      !.txs = Append(@, t),
                      !.receipts_root = Append(@, Receipt(t, header.gas_limit - remaining))],
                  !.plain_txs = IF is_blob(t) THEN @ ELSE shift(@, t),
                  !.blob_txs = IF is_blob(t) THEN shift(@, t) ELSE @]

\* One turn of fill_transactions' loop, up to the mempool's lock: the head is
\* skipped with its sender, dropped as replay-protected, or applied.
FillTransaction(h) ==
    /\ job[h].stage = "fill"
    /\ NextTransaction(job[h]) # <<>>
    /\ LET j == [job[h] EXCEPT !.blob_txs = BlobQueue(job[h])]
           t == NextTransaction(job[h])[1]
       IN  job' = [job EXCEPT ![h] =
               IF j.remaining_gas < Tx[t].gas_limit THEN PopSender(j, t)
               ELSE IF Tx[t].protected /\ j.block.header.number < Eip155Block
               THEN [PopSender(j, t) EXCEPT !.stage = "remove", !.current = <<t>>]
               ELSE IF ~BlobsFit(j, t) \/ ~Executable(t, j.block.header, j.accounts)
               THEN PopSender(j, t)
               ELSE Applied(j, t)]
    /\ UNCHANGED <<chainVars, poolVars, payloads, prod, clock, losses>>

\* remove_transaction_from_pool: the bundle goes with its transaction.
RemoveTransaction(h) ==
    /\ job[h].stage = "remove"
    /\ LET t == job[h].current[1]
       IN  /\ pool' = Without(pool, t)
           /\ bundles' = IF t \in DOMAIN pool THEN Without(bundles, t) ELSE bundles
    /\ job' = [job EXCEPT ![h].stage = "fill", ![h].current = <<>>]
    /\ UNCHANGED <<chainVars, arrivals, sub, submits, payloads, prod, clock, losses>>

\* finalize_payload.
Finalized(j) ==
    [j.block EXCEPT !.header.gas_used = j.block.header.gas_limit - j.remaining_gas,
                    !.state_root = j.accounts]

\* The loop ends, the payload is finalized and stored as completed, and the answer
\* goes to the client if it still waits for this handler.
FinishBuild(h) ==
    /\ job[h].stage = "fill"
    /\ NextTransaction(job[h]) = <<>>
    /\ LET payload == [block |-> Finalized(job[h]), bundle |-> job[h].bundle, completed |-> TRUE]
       IN  /\ payloads' = Put(payloads, job[h].id, payload)
           /\ prod' = IF prod.pc = "wait" /\ prod.handler = h
                      THEN [pc |-> "new", head |-> prod.head, tries |-> prod.tries, reply |-> payload]
                      ELSE prod
    /\ job' = [job EXCEPT ![h] = Idle]
    /\ UNCHANGED <<chainVars, poolVars, clock, losses>>

---------------------------------------------------------------------------
(* engine_newPayloadV3 on the node's own payload.                          *)

\* from_block and into_block: the base fee of a payload is not optional.
AsReceived(block) ==
    [block EXCEPT !.header.base_fee_per_gas = <<UnwrapOr(@, 0)>>]

\* execute_block: every transaction in order, then the withdrawals; the first
\* that cannot run fails the block.
execute_block(block, accounts) ==
    LET Run(state, t) ==
            IF ~state.ok \/ ~Executable(t, block.header, state.accounts) THEN [state EXCEPT !.ok = FALSE]
            ELSE [ok |-> TRUE, accounts |-> After(t, block.header, state.accounts),
                  gas |-> state.gas + Tx[t].gas_used,
                  receipts |-> Append(state.receipts, Receipt(t, state.gas + Tx[t].gas_used))]
        end == FoldLeft(Run, [ok |-> TRUE, accounts |-> accounts, gas |-> 0, receipts |-> <<>>],
                        block.txs)
    IN  [end EXCEPT !.accounts = process_withdrawals(block.withdrawals, @)]

\* validate_gas_used looks at the last receipt, so a block without any passes.
validate_gas_used(receipts, header) ==
    receipts = <<>> \/ Last(receipts).cumulative_gas_used = header.gas_used

verify_blob_gas_usage(block) ==
    LET blob_gas == Len(FlattenSeq([i \in DOMAIN block.txs |-> blob_versioned_hashes(block.txs[i])]))
                      * GAS_PER_BLOB
    IN  blob_gas <= MAX_BLOB_GAS_PER_BLOCK /\ block.header.blob_gas_used = blob_gas

\* add_block on a block whose parent is stored.
AddBlockAccepts(block) ==
    LET parent == archive[block.header.parent_hash]
        result == execute_block(block, parent.state_root)
    IN  /\ validate_block_header(block.header, parent.header, block.header.parent_hash)
        /\ validate_cancun_header_fields(block.header, parent.header)
        /\ verify_blob_gas_usage(block)
        /\ result.ok
        /\ validate_gas_used(result.receipts, block.header)
        /\ result.accounts = block.state_root
        /\ result.receipts = block.receipts_root

\* The answer to newPayload: a status, and the latest valid hash if there is one.
\* 0 stands for the hash the payload gets once it is stored.
NewPayloadStatus(payload) ==
    LET block == AsReceived(payload.block)
        hashes == FlattenSeq([i \in DOMAIN block.txs |-> blob_versioned_hashes(block.txs[i])])
        known == {i \in DOMAIN archive : archive[i] = block}
    IN  IF block # payload.block \/ payload.bundle # hashes
        THEN [status |-> "INVALID", latest_valid_hash |-> <<>>]
        ELSE IF known # {} THEN [status |-> "VALID", latest_valid_hash |-> <<CHOOSE i \in known : TRUE>>]
        ELSE IF AddBlockAccepts(block)
        THEN [status |-> "VALID", latest_valid_hash |-> <<0>>]
        ELSE [status |-> "INVALID", latest_valid_hash |-> <<block.header.parent_hash>>]

---------------------------------------------------------------------------
(* The producer's loop.  A call fails when its request or its answer is    *)
(* lost; a failed call costs a try, and tries are never given back.        *)

\* The loop's head: out of tries, the producer returns.
Again(tries) ==
    IF tries < max_tries THEN [pc |-> "fcu", head |-> prod.head, tries |-> tries]
    ELSE [pc |-> "stopped", head |-> prod.head, tries |-> tries]

Lose == losses < MaxLosses /\ losses' = losses + 1

\* A request that never reaches the node, whichever it is.
LoseRequest ==
    /\ prod.pc \in {"fcu", "get", "new"}
    /\ Lose
    /\ prod' = Again(prod.tries + 1)
    /\ UNCHANGED <<chainVars, poolVars, payloads, job, clock>>

\* build_payload's identifier: the arguments that differ between two payloads.
PayloadId(withdrawals) == [parent |-> prod.head, timestamp |-> clock, withdrawals |-> withdrawals]

\* create_payload: an empty block on the head, with the state of its parent.
create_payload(id) ==
    [block |-> Block(create_header(archive[id.parent].header, id.parent, id.timestamp), <<>>,
                     id.withdrawals, archive[id.parent].state_root, <<>>),
     bundle |-> <<>>, completed |-> FALSE]

\* forkchoiceUpdated: the head becomes canonical, and a fresh payload is stored
\* under its identifier, in place of what was there.  The timestamp is checked
\* after the fork choice took effect.
ForkchoiceUpdated(withdrawals, heard) ==
    LET id == PayloadId(withdrawals)
        valid == clock > archive[prod.head].header.timestamp
    IN  /\ prod.pc = "fcu"
        /\ archive[prod.head].header.number < MaxProduced
        /\ canonicalHead' = prod.head
        /\ payloads' = IF valid THEN Put(payloads, id, create_payload(id)) ELSE payloads
        /\ prod' = IF valid /\ heard
                   THEN [pc |-> "get", head |-> prod.head, tries |-> prod.tries, id |-> id]
                   ELSE Again(prod.tries + 1)
        /\ IF heard THEN UNCHANGED losses ELSE Lose
        /\ UNCHANGED <<archive, poolVars, job, clock>>

\* getPayload: a completed payload is answered at once, another one is filled
\* by a handler: the first that is free, since they are all alike.
GetPayload(h) ==
    /\ prod.pc = "get"
    /\ job[h] = Idle /\ \A g \in Handlers : job[g] = Idle => g >= h
    /\ IF payloads[prod.id].completed
       THEN /\ prod' = [pc |-> "new", head |-> prod.head, tries |-> prod.tries,
                        reply |-> payloads[prod.id]]
            /\ UNCHANGED job
       ELSE /\ prod' = [pc |-> "wait", head |-> prod.head, tries |-> prod.tries, handler |-> h]
            /\ job' = [job EXCEPT ![h] = StartBuild(prod.id)]
    /\ UNCHANGED <<chainVars, poolVars, payloads, clock, losses>>

\* The connection breaks while the payload is being filled.
GiveUpPayload ==
    /\ prod.pc = "wait"
    /\ Lose
    /\ prod' = Again(prod.tries + 1)
    /\ UNCHANGED <<chainVars, poolVars, payloads, job, clock>>

\* The latest valid hash the producer reads from an answer.
ValidHash(answer) ==
    IF answer.latest_valid_hash = <<0>> THEN Len(archive) + 1 ELSE answer.latest_valid_hash[1]

\* newPayload: an accepted block is stored; the latest valid hash of the answer
\* becomes the producer's head, whatever the status.
SubmitPayload(heard) ==
    /\ prod.pc = "new"
    /\ LET answer == NewPayloadStatus(prod.reply)
           stored == answer.latest_valid_hash = <<0>>
       IN  /\ archive' = IF stored THEN Append(archive, AsReceived(prod.reply.block)) ELSE archive
           /\ prod' = IF heard /\ answer.latest_valid_hash # <<>>
                      THEN [pc |-> "sleep", head |-> ValidHash(answer), tries |-> prod.tries]
                      ELSE Again(prod.tries + 1)
    /\ IF heard THEN UNCHANGED losses ELSE Lose
    /\ UNCHANGED <<canonicalHead, poolVars, payloads, job, clock>>

\* Mutant of WakeUp: the producer does not wait for the next second.
WakeUpAtOnce ==
    /\ prod.pc = "sleep"
    /\ prod' = Again(prod.tries)
    /\ UNCHANGED <<chainVars, poolVars, payloads, job, clock, losses>>

\* The sleep of a second between two blocks.
WakeUp ==
    /\ prod.pc = "sleep"
    /\ clock > archive[prod.head].header.timestamp
    /\ prod' = Again(prod.tries)
    /\ UNCHANGED <<chainVars, poolVars, payloads, job, clock, losses>>

\* Time passes.  Only the producer looks at the clock, at the head of its loop and
\* in its sleep, so a tick at another moment would be seen no earlier.
Tick ==
    /\ clock < archive[prod.head].header.timestamp + MaxLead
    /\ prod.pc \in {"fcu", "sleep"}
    /\ clock' = clock + 1
    /\ UNCHANGED <<chainVars, poolVars, payloads, job, prod, losses>>

Serve ==
    \/ \E h \in Handlers : \/ FetchPlain(h) \/ FetchBlob(h) \/ FillTransaction(h)
                           \/ RemoveTransaction(h) \/ FinishBuild(h) \/ GetPayload(h)
    \/ \E t \in Txs : AddTransactionToPool(t) \/ AddBlobsBundleToPool(t)
    \/ \E w \in Withdrawals : ForkchoiceUpdated(w, TRUE)
    \/ SubmitPayload(TRUE)
    \/ WakeUp
    \/ Tick

Fail ==
    \/ LoseRequest
    \/ GiveUpPayload
    \/ SubmitPayload(FALSE)
    \/ \E w \in Withdrawals : ForkchoiceUpdated(w, FALSE)

Submit == \E t \in Txs : \E bundle \in {blob_versioned_hashes(t), <<>>} : SubmitTransaction(t, bundle)

ProducerNext == Serve \/ Fail \/ Submit

ProducerSpec == ProducerInit /\ [][ProducerNext]_producerVars

\* When Serve is enabled: a handler at work always has a next step.
CanServe ==
    \/ \E h \in Handlers : job[h] # Idle
    \/ \E t \in Txs : sub[t] \in {"checked", "pooled"}
    \/ prod.pc = "get" /\ \E h \in Handlers : job[h] = Idle
    \/ prod.pc = "fcu" /\ archive[prod.head].header.number < MaxProduced
    \/ prod.pc \in {"new", "sleep"}
    \/ prod.pc = "fcu" /\ clock < archive[prod.head].header.timestamp + MaxLead

\* Weak fairness of Serve, its enabling condition written out: the node's threads
\* and the producer keep running; users need not submit and calls need not fail.
ProducerFairness == []<>~CanServe \/ []<><<Serve>>_producerVars

---------------------------------------------------------------------------
(* Properties.                                                             *)

\* The shape of the state.
ProducerTypeOK ==
    /\ canonicalHead \in DOMAIN archive /\ prod.head \in DOMAIN archive
    /\ DOMAIN pool \subseteq Txs /\ DOMAIN bundles \subseteq Txs
    /\ \A t \in Txs : sub[t] \in {"new", "checked", "pooled", "done", "refused"}
    /\ prod.pc \in {"fcu", "get", "wait", "new", "sleep", "stopped"}
    /\ prod.tries \in 0..max_tries
    /\ losses \in 0..MaxLosses

\* A payload the node built is one the node accepts: whatever was in the mempool,
\* whichever handlers filled payloads side by side and whatever entered or left
\* the pool meanwhile, newPayload answers VALID to a completed payload with the
\* blob hashes of the bundle that came with it.  build_payload and add_block are
\* separate code for the same rules.  They differ in one: the builder pays the
\* withdrawals out before the transactions, execute_block after them, so that a
\* payload with withdrawals is refused when its transactions cannot run without those.
OwnPayloadValid ==
    \A id \in DOMAIN payloads :
        payloads[id].completed =>
            \/ NewPayloadStatus(payloads[id]).status = "VALID"
            \/ /\ id.withdrawals # NoWithdrawals
               /\ ~execute_block(payloads[id].block, archive[id.parent].state_root).ok

RECURSIVE Ancestry(_)
Ancestry(b) == IF b = 1 THEN {1} ELSE {b} \cup Ancestry(archive[b].header.parent_hash)
Within(t, block) == \E i \in DOMAIN block.txs : block.txs[i] = t

\* No payload so far paid withdrawals out.
NoPayouts == \A id \in DOMAIN payloads : id.withdrawals = NoWithdrawals

\* As long as no call failed and no payload pays withdrawals out (one of those may be
\* refused), a transaction the node acknowledged is never lost:
\* it waits in the mempool, or it is in the payload the producer is about to
\* submit, or in the producer's chain.  fill_transactions takes it out of the
\* pool long before the block is stored.
AcknowledgedKept ==
    losses = 0 /\ NoPayouts =>
        \A t \in Txs : sub[t] = "done" =>
            \/ t \in DOMAIN pool
            \/ \E h \in Handlers : job[h] # Idle /\ Within(t, job[h].block)
            \/ prod.pc = "new" /\ Within(t, prod.reply.block)
            \/ \E b \in Ancestry(prod.head) : Within(t, archive[b])

\* What the producer's node never does: build what it refuses, or lose what it took.
ProducerSound == ProducerTypeOK /\ OwnPayloadValid /\ AcknowledgedKept

\* Refuted: OwnPayloadValid for all withdrawals.  A sender who can pay for a second
\* transaction only with what the block pays out to them gets it into the payload, and
\* the node refuses the block: its transactions run before the payout.
OwnPayloadAlwaysValid ==
    \A id \in DOMAIN payloads :
        payloads[id].completed => NewPayloadStatus(payloads[id]).status = "VALID"

\* Refuted: a blob transaction in the pool has its bundle.  The transaction is put
\* in first, under a lock of its own.
BundlePresent == \A t \in DOMAIN pool : is_blob(t) => t \in DOMAIN bundles

\* Refuted: a bundle in the pool has its transaction.  A payload may take the
\* transaction out before its bundle is put in.
NoBundleLeft ==
    \A t \in DOMAIN bundles : sub[t] = "done" => t \in DOMAIN pool

\* Refuted: AcknowledgedKept when a call fails.  The transactions of a payload
\* that is given up are in no pool any more.
AcknowledgedKeptAlways ==
    \A t \in Txs : sub[t] = "done" =>
        \/ t \in DOMAIN pool
        \/ \E h \in Handlers : job[h] # Idle /\ Within(t, job[h].block)
        \/ \E id \in DOMAIN payloads : Within(t, payloads[id].block)
        \/ \E b \in DOMAIN archive : Within(t, archive[b])
=============================================================================
