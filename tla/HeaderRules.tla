---------------------------- MODULE HeaderRules ----------------------------
(***************************************************************************)
(* The arithmetic of block headers, once as the payload builder fills a    *)
(* header in (blockchain/payload.rs) and once as a received header is      *)
(* validated (common/types/block.rs, blockchain/blockchain.rs).  The two   *)
(* are separate code.  Amounts are natural numbers; the fee and gas        *)
(* values of the protocol stay far below the width of their u64.  Optional *)
(* values are sequences of at most one element.                            *)
(***************************************************************************)
EXTENDS Integers, Sequences

CONSTANTS GAS_PER_BLOB, TARGET_BLOB_GAS_PER_BLOCK, MAX_BLOB_GAS_PER_BLOCK,
          BLOB_BASE_FEE_UPDATE_FRACTION, INITIAL_BASE_FEE,
          DEFAULT_BUILDER_GAS_CEIL

\* The code relies on a non-zero update fraction in fake_exponential, and on a
\* gas ceiling above the protocol's smallest gas limit.
ASSUME HeaderConstants ==
    /\ GAS_PER_BLOB \in Nat
    /\ TARGET_BLOB_GAS_PER_BLOCK \in Nat
    /\ MAX_BLOB_GAS_PER_BLOCK \in Nat
    /\ BLOB_BASE_FEE_UPDATE_FRACTION \in Nat \ {0}
    /\ INITIAL_BASE_FEE \in Nat
    /\ DEFAULT_BUILDER_GAS_CEIL \in Nat /\ DEFAULT_BUILDER_GAS_CEIL >= 5000

TX_GAS_COST == 21000
GAS_LIMIT_BOUND_DIVISOR == 1024
MIN_GAS_LIMIT == 5000
ELASTICITY_MULTIPLIER == 2
BASE_FEE_MAX_CHANGE_DENOMINATOR == 8
MIN_BASE_FEE_PER_BLOB_GAS == 1

Smaller(a, b) == IF a < b THEN a ELSE b
Larger(a, b) == IF a > b THEN a ELSE b

\* Option::unwrap_or.
UnwrapOr(option, default) == IF option = <<>> THEN default ELSE option[1]

---------------------------------------------------------------------------
(* The builder's side: blockchain/payload.rs.                              *)

\* The limit moves towards the smaller of the wish and the protocol minimum.
calc_gas_limit(parent_gas_limit, desired) ==
    LET delta == parent_gas_limit \div GAS_LIMIT_BOUND_DIVISOR - 1
        wish == Smaller(desired, MIN_GAS_LIMIT)
    IN  IF parent_gas_limit < wish THEN Smaller(parent_gas_limit + delta, wish)
        ELSE IF parent_gas_limit > wish THEN Larger(parent_gas_limit - delta, wish)
        ELSE parent_gas_limit

calc_excess_blob_gas(parent_excess, parent_used) ==
    IF parent_excess + parent_used < TARGET_BLOB_GAS_PER_BLOCK THEN 0
    ELSE parent_excess + parent_used - TARGET_BLOB_GAS_PER_BLOCK

---------------------------------------------------------------------------
(* Shared and validating side: common/types/block.rs.                      *)

check_gas_limit(gas_limit, parent_gas_limit) ==
    LET delta == parent_gas_limit \div GAS_LIMIT_BOUND_DIVISOR
    IN  /\ gas_limit < parent_gas_limit + delta
        /\ gas_limit > parent_gas_limit - delta
        /\ gas_limit >= MIN_GAS_LIMIT

\* The base fee rises when the parent used more than half of its gas, falls
\* when it used less, each time by at most an eighth; none when the block's gas
\* limit does not fit its parent's.
calculate_base_fee_per_gas(gas_limit, parent_gas_limit, parent_gas_used, parent_base_fee) ==
    LET target == parent_gas_limit \div ELASTICITY_MULTIPLIER
        Change(gas) == ((parent_base_fee * gas) \div target) \div BASE_FEE_MAX_CHANGE_DENOMINATOR
    IN  IF ~check_gas_limit(gas_limit, parent_gas_limit) THEN <<>>
        ELSE IF parent_gas_used > target
        THEN <<parent_base_fee + Larger(Change(parent_gas_used - target), 1)>>
        ELSE IF parent_gas_used < target
        THEN <<parent_base_fee - Change(target - parent_gas_used)>>
        ELSE <<parent_base_fee>>

\* factor * e^(numerator / denominator): the terms of the series, until one is
\* rounded down to nothing.
fake_exponential(factor, numerator, denominator) ==
    LET term[i \in Nat] == IF i = 0 THEN factor * denominator
                           ELSE (term[i - 1] * numerator) \div (denominator * i)
        sum[i \in Nat] == IF term[i] = 0 THEN 0 ELSE term[i] + sum[i + 1]
    IN  sum[0] \div denominator

calculate_base_fee_per_blob_gas(excess) ==
    fake_exponential(MIN_BASE_FEE_PER_BLOB_GAS, excess, BLOB_BASE_FEE_UPDATE_FRACTION)

\* The fields of BlockHeader that the rules are about.
Headers == [parent_hash : Nat, number : Nat, gas_limit : Nat, gas_used : Nat,
            timestamp : Nat, base_fee_per_gas : {<<>>} \cup {<<n>> : n \in Nat},
            blob_gas_used : Nat, excess_blob_gas : Nat]

\* The header create_payload starts a payload from.  The dev chain is in Cancun
\* from its genesis on, so the blob fields and the beacon root are always there.
\* A parent is named by its place in the store.
create_header(parent, parent_place, timestamp) ==
    LET limit == calc_gas_limit(parent.gas_limit, DEFAULT_BUILDER_GAS_CEIL)
    IN  [parent_hash |-> parent_place,
         number |-> parent.number + 1,
         gas_limit |-> limit,
         gas_used |-> 0,
         timestamp |-> timestamp,
         base_fee_per_gas |->
             calculate_base_fee_per_gas(limit, parent.gas_limit, parent.gas_used,
                                        UnwrapOr(parent.base_fee_per_gas, 0)),
         blob_gas_used |-> 0,
         excess_blob_gas |->
             calc_excess_blob_gas(parent.excess_blob_gas, parent.blob_gas_used)]

\* Extra data, difficulty, nonce and ommers are constants of every header the
\* node builds or takes from a payload, so their checks are left out.
validate_block_header(header, parent, parent_place) ==
    LET expected == calculate_base_fee_per_gas(header.gas_limit, parent.gas_limit, parent.gas_used,
                                               UnwrapOr(parent.base_fee_per_gas, INITIAL_BASE_FEE))
    IN  /\ header.gas_used <= header.gas_limit
        /\ expected # <<>>
        /\ expected[1] = UnwrapOr(header.base_fee_per_gas, INITIAL_BASE_FEE)
        /\ header.timestamp > parent.timestamp
        /\ header.number = parent.number + 1
        /\ header.parent_hash = parent_place

\* The second calc_excess_blob_gas, with the target written out as a number.
validate_cancun_header_fields(header, parent) ==
    LET parent_blob_gas == parent.excess_blob_gas + parent.blob_gas_used
    IN  header.excess_blob_gas = IF parent_blob_gas < TARGET_BLOB_GAS_PER_BLOCK THEN 0
                                 ELSE parent_blob_gas - TARGET_BLOB_GAS_PER_BLOCK
=============================================================================
