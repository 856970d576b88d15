------------------------------- MODULE TxPool -------------------------------
(***************************************************************************)
(* Transactions waiting to be included: the rules by which the mempool     *)
(* admits and filters them (blockchain/mempool.rs), their fees             *)
(* (common/types/transaction.rs) and the queue the payload builder takes   *)
(* them from (blockchain/payload.rs).  A pool is a function from the       *)
(* transactions in it to the time they entered; times are distinct.        *)
(* A transaction is a record of what the rules look at; its execution by   *)
(* REVM is external and known from two fields, the gas it uses and whether *)
(* it succeeds.                                                            *)
(***************************************************************************)
EXTENDS HeaderRules, FiniteSets, SequencesExt, FiniteSetsExt

CONSTANTS Txs,      \* transaction hashes
          Tx,       \* their contents
          Senders

MAX_INITCODE_SIZE == 49152

is_blob(t) == Tx[t].type = "EIP4844"
is_dynamic(t) == Tx[t].type \in {"EIP1559", "EIP4844"}
blob_versioned_hashes(t) == IF is_blob(t) THEN Tx[t].blobs ELSE <<>>

\* Legacy and EIP-2930 transactions have one price for both caps.
gas_fee_cap(t) == Tx[t].max_fee_per_gas
gas_tip_cap(t) == IF is_dynamic(t) THEN Tx[t].max_priority_fee ELSE Tx[t].max_fee_per_gas

\* The tip left above the base fee, none when the fee cap is below it.
effective_gas_tip(t, base_fee) ==
    IF base_fee = <<>> THEN <<gas_tip_cap(t)>>
    ELSE IF gas_fee_cap(t) < base_fee[1] THEN <<>>
    ELSE <<Smaller(gas_fee_cap(t) - base_fee[1], gas_tip_cap(t))>>

\* The most a transaction may cost, the fee of its blobs left out.
cost_without_base_fee(t) == gas_fee_cap(t) * Tx[t].gas_limit + Tx[t].value

transaction_intrinsic_gas(t) ==
    LET tx == Tx[t]
        size == tx.zero_bytes + tx.non_zero_bytes
    IN  (IF tx.create THEN 53000 + 2 * ((size + 31) \div 32) ELSE TX_GAS_COST)
          + 16 * tx.non_zero_bytes + 4 * tx.zero_bytes
          + 2400 * tx.access_addresses + 1900 * tx.access_keys

\* Admission looks at the latest canonical header and at the account in its
\* state: no gap in the nonces is refused, and no sum over the sender's other
\* transactions is taken.
validate_transaction(t, header, accounts) ==
    LET tx == Tx[t]
    IN  /\ tx.create => tx.zero_bytes + tx.non_zero_bytes <= MAX_INITCODE_SIZE
        /\ tx.gas_limit <= header.gas_limit
        /\ is_dynamic(t) => tx.max_priority_fee <= tx.max_fee_per_gas
        /\ tx.gas_limit >= transaction_intrinsic_gas(t)
        /\ is_blob(t) => tx.max_fee_per_blob_gas >= MIN_BASE_FEE_PER_BLOB_GAS
        /\ tx.nonce >= accounts[tx.sender].nonce
        /\ cost_without_base_fee(t) <= accounts[tx.sender].balance
        /\ tx.right_chain_id

\* A bundle fits its transaction: as many blobs as hashes, at least one, and the
\* hashes those of its commitments.  Bundles are the sequence of these hashes.
validate_bundle(t, bundle) == Len(bundle) > 0 /\ bundle = blob_versioned_hashes(t)

---------------------------------------------------------------------------
(* Taking transactions out of the pool.                                    *)

\* The filter of the two fetches of fetch_mempool_transactions.
filter_tx(t, only_blobs, base_fee, blob_fee) ==
    /\ is_blob(t) <=> only_blobs
    /\ effective_gas_tip(t, base_fee) # <<>>
    /\ is_blob(t) => Tx[t].max_fee_per_blob_gas >= blob_fee

\* Lowest nonce first, of equal nonces the one that came last.
MempoolBefore(pool, t, u) ==
    \/ Tx[t].nonce < Tx[u].nonce
    \/ Tx[t].nonce = Tx[u].nonce /\ pool[t] > pool[u]

\* The suitable transactions grouped by sender and sorted: the new queue.
\* Senders without any have no entry.
filter_transactions(pool, only_blobs, base_fee, blob_fee) ==
    LET suitable == {t \in DOMAIN pool : filter_tx(t, only_blobs, base_fee, blob_fee)}
        Of(s) == {t \in suitable : Tx[t].sender = s}
    IN  [s \in {Tx[t].sender : t \in suitable} |->
            SetToSortSeq(Of(s), LAMBDA t, u : MempoolBefore(pool, t, u))]

\* The nonce after the last one the pool holds of a sender, none without any.
get_nonce(pool, s) ==
    LET nonces == {Tx[t].nonce : t \in {u \in DOMAIN pool : Tx[u].sender = s}}
    IN  IF nonces = {} THEN <<>> ELSE <<Max(nonces) + 1>>

\* HeadTransaction's order: highest tip first, of equal tips the older one.
HeadBefore(time, t, u, base_fee) ==
    LET tip(x) == effective_gas_tip(x, base_fee)[1]
    IN  \/ tip(t) > tip(u)
        \/ tip(t) = tip(u) /\ time[t] < time[u]

\* The first of the heads, which are kept sorted; none when the queue is empty.
peek(queue, time, base_fee) ==
    LET heads == {queue[s][1] : s \in DOMAIN queue}
    IN  IF heads = {} THEN <<>>
        ELSE <<CHOOSE t \in heads : \A u \in heads \ {t} : HeadBefore(time, t, u, base_fee)>>

\* Drop the head and everything else of its sender.
pop(queue, t) == [s \in DOMAIN queue \ {Tx[t].sender} |-> queue[s]]

\* Drop the head; the sender's next transaction becomes one.
shift(queue, t) ==
    IF Len(queue[Tx[t].sender]) = 1 THEN pop(queue, t)
    ELSE [queue EXCEPT ![Tx[t].sender] = Tail(@)]

\* The builder's choice between the plain and the blob queue: the blob head only
\* when it comes strictly first.
next_head(plain, blob, time, base_fee) ==
    LET a == peek(plain, time, base_fee)
        b == peek(blob, time, base_fee)
    IN  IF a = <<>> THEN b
        ELSE IF b # <<>> /\ HeadBefore(time, b[1], a[1], base_fee) THEN b
        ELSE a

---------------------------------------------------------------------------
(* Execution of one transaction (REVM is external; tx_env and block_env    *)
(* hand it the fields below).                                              *)

\* REVM's checks before it runs a transaction.
Executable(t, header, accounts) ==
    LET tx == Tx[t]
        base_fee == UnwrapOr(header.base_fee_per_gas, INITIAL_BASE_FEE)
        blob_cost == Len(blob_versioned_hashes(t)) * GAS_PER_BLOB * tx.max_fee_per_blob_gas
    IN  /\ tx.gas_limit <= header.gas_limit
        /\ gas_fee_cap(t) >= base_fee
        /\ tx.nonce = accounts[tx.sender].nonce
        /\ accounts[tx.sender].balance >= cost_without_base_fee(t) + blob_cost
        /\ is_blob(t) => tx.max_fee_per_blob_gas
                            >= calculate_base_fee_per_blob_gas(header.excess_blob_gas)

\* The accounts after it: the nonce moves on, gas, blobs and value are paid.
After(t, header, accounts) ==
    LET tx == Tx[t]
        base_fee == UnwrapOr(header.base_fee_per_gas, INITIAL_BASE_FEE)
        price == base_fee + Smaller(gas_fee_cap(t) - base_fee, gas_tip_cap(t))
        blob_cost == Len(blob_versioned_hashes(t)) * GAS_PER_BLOB
                       * calculate_base_fee_per_blob_gas(header.excess_blob_gas)
        paid == tx.gas_used * price + blob_cost + (IF tx.succeeds THEN tx.value ELSE 0)
    IN  [accounts EXCEPT ![tx.sender] = [nonce |-> @.nonce + 1, balance |-> @.balance - paid]]

\* process_withdrawals: what the consensus layer pays out to accounts.
process_withdrawals(withdrawals, accounts) ==
    [s \in Senders |-> [accounts[s] EXCEPT !.balance = @ + withdrawals[s]]]

Receipt(t, cumulative_gas_used) ==
    [succeeded |-> Tx[t].succeeds, cumulative_gas_used |-> cumulative_gas_used]
=============================================================================
