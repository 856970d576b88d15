----------------------------- MODULE ChainCodec -----------------------------
(***************************************************************************)
(* The RLP layouts of the chain's own types: transactions, block headers   *)
(* and bodies, receipts and accounts (crates/common/types).  An impl of    *)
(* RLPEncode or RLPDecode is the sequence of the fields it writes or       *)
(* reads, each with the kind of its value; module Codec interprets it.     *)
(* The two sides are transcribed separately, each from its own impl.       *)
(***************************************************************************)
EXTENDS Rlp

U8 == <<"u8">>
U16 == <<"uint", 2>>
U32 == <<"uint", 4>>
U64 == <<"uint", 8>>
U128 == <<"uint", 16>>
U256 == <<"uint", 32>>
Bool == <<"bool">>
Bytes == <<"bytes">>
Array(n) == <<"array", n>>
H256 == Array(32)
Address == Array(20)
Bloom == Array(256)
Vec(k) == <<"vec", k>>
Tuple(ks) == <<"tuple", ks>>
Opt(k) == <<"option", k>>
Struct(name) == <<"struct", name>>
TxKind == <<"TxKind">>
PrivilegedTxType == <<"PrivilegedTxType">>
Transaction == <<"Transaction">>
Receipt == <<"Receipt">>
AccessList == Vec(Tuple(<<Address, Vec(H256)>>))

-----------------------------------------------------------------------------
(* Transactions: the five RLPEncode impls, ... *)

EncodeLegacy == <<
    <<"nonce", U64>>, <<"gas_price", U64>>, <<"gas", U64>>, <<"to", TxKind>>,
    <<"value", U256>>, <<"data", Bytes>>, <<"v", U256>>, <<"r", U256>>,
    <<"s", U256>> >>

EncodeEIP2930 == <<
    <<"chain_id", U64>>, <<"nonce", U64>>, <<"gas_price", U64>>,
    <<"gas_limit", U64>>, <<"to", TxKind>>, <<"value", U256>>,
    <<"data", Bytes>>, <<"access_list", AccessList>>,
    <<"signature_y_parity", Bool>>, <<"signature_r", U256>>,
    <<"signature_s", U256>> >>

EncodeEIP1559 == <<
    <<"chain_id", U64>>, <<"nonce", U64>>, <<"max_priority_fee_per_gas", U64>>,
    <<"max_fee_per_gas", U64>>, <<"gas_limit", U64>>, <<"to", TxKind>>,
    <<"value", U256>>, <<"data", Bytes>>, <<"access_list", AccessList>>,
    <<"signature_y_parity", Bool>>, <<"signature_r", U256>>,
    <<"signature_s", U256>> >>

EncodeEIP4844 == <<
    <<"chain_id", U64>>, <<"nonce", U64>>, <<"max_priority_fee_per_gas", U64>>,
    <<"max_fee_per_gas", U64>>, <<"gas", U64>>, <<"to", Address>>,
    <<"value", U256>>, <<"data", Bytes>>, <<"access_list", AccessList>>,
    <<"max_fee_per_blob_gas", U256>>, <<"blob_versioned_hashes", Vec(H256)>>,
    <<"signature_y_parity", Bool>>, <<"signature_r", U256>>,
    <<"signature_s", U256>> >>

EncodePrivileged == <<
    <<"chain_id", U64>>, <<"nonce", U64>>, <<"max_priority_fee_per_gas", U64>>,
    <<"max_fee_per_gas", U64>>, <<"gas_limit", U64>>, <<"to", TxKind>>,
    <<"value", U256>>, <<"data", Bytes>>, <<"access_list", AccessList>>,
    <<"tx_type", PrivilegedTxType>>, <<"signature_y_parity", Bool>>,
    <<"signature_r", U256>>, <<"signature_s", U256>> >>

(* ... the five RLPDecode impls, ... *)

DecodeLegacy == <<
    <<"nonce", U64>>, <<"gas_price", U64>>, <<"gas", U64>>, <<"to", TxKind>>,
    <<"value", U256>>, <<"data", Bytes>>, <<"v", U256>>, <<"r", U256>>,
    <<"s", U256>> >>

DecodeEIP2930 == <<
    <<"chain_id", U64>>, <<"nonce", U64>>, <<"gas_price", U64>>,
    <<"gas_limit", U64>>, <<"to", TxKind>>, <<"value", U256>>,
    <<"data", Bytes>>, <<"access_list", AccessList>>,
    <<"signature_y_parity", Bool>>, <<"signature_r", U256>>,
    <<"signature_s", U256>> >>

DecodeEIP1559 == <<
    <<"chain_id", U64>>, <<"nonce", U64>>, <<"max_priority_fee_per_gas", U64>>,
    <<"max_fee_per_gas", U64>>, <<"gas_limit", U64>>, <<"to", TxKind>>,
    <<"value", U256>>, <<"data", Bytes>>, <<"access_list", AccessList>>,
    <<"signature_y_parity", Bool>>, <<"signature_r", U256>>,
    <<"signature_s", U256>> >>

DecodeEIP4844 == <<
    <<"chain_id", U64>>, <<"nonce", U64>>, <<"max_priority_fee_per_gas", U64>>,
    <<"max_fee_per_gas", U64>>, <<"gas", U64>>, <<"to", Address>>,
    <<"value", U256>>, <<"data", Bytes>>, <<"access_list", AccessList>>,
    <<"max_fee_per_blob_gas", U256>>, <<"blob_versioned_hashes", Vec(H256)>>,
    <<"signature_y_parity", Bool>>, <<"signature_r", U256>>,
    <<"signature_s", U256>> >>

DecodePrivileged == <<
    <<"chain_id", U64>>, <<"nonce", U64>>, <<"max_priority_fee_per_gas", U64>>,
    <<"max_fee_per_gas", U64>>, <<"gas_limit", U64>>, <<"to", TxKind>>,
    <<"value", U256>>, <<"data", Bytes>>, <<"access_list", AccessList>>,
    <<"tx_type", PrivilegedTxType>>, <<"signature_y_parity", Bool>>,
    <<"signature_r", U256>>, <<"signature_s", U256>> >>

(* ... and the five PayloadRLPEncode impls: what sign_inplace signs. *)

PayloadLegacy == <<
    <<"nonce", U64>>, <<"gas_price", U64>>, <<"gas", U64>>, <<"to", TxKind>>,
    <<"value", U256>>, <<"data", Bytes>> >>

PayloadEIP1559 == <<
    <<"chain_id", U64>>, <<"nonce", U64>>, <<"max_priority_fee_per_gas", U64>>,
    <<"max_fee_per_gas", U64>>, <<"gas_limit", U64>>, <<"to", TxKind>>,
    <<"value", U256>>, <<"data", Bytes>>, <<"access_list", AccessList>> >>

PayloadEIP2930 == <<
    <<"chain_id", U64>>, <<"nonce", U64>>, <<"gas_price", U64>>,
    <<"gas_limit", U64>>, <<"to", TxKind>>, <<"value", U256>>,
    <<"data", Bytes>>, <<"access_list", AccessList>> >>

PayloadEIP4844 == <<
    <<"chain_id", U64>>, <<"nonce", U64>>, <<"max_priority_fee_per_gas", U64>>,
    <<"max_fee_per_gas", U64>>, <<"gas", U64>>, <<"to", Address>>,
    <<"value", U256>>, <<"data", Bytes>>, <<"access_list", AccessList>>,
    <<"max_fee_per_blob_gas", U256>>, <<"blob_versioned_hashes", Vec(H256)>> >>

PayloadPrivileged == <<
    <<"chain_id", U64>>, <<"nonce", U64>>, <<"max_priority_fee_per_gas", U64>>,
    <<"max_fee_per_gas", U64>>, <<"gas_limit", U64>>, <<"to", TxKind>>,
    <<"value", U256>>, <<"data", Bytes>>, <<"access_list", AccessList>>,
    <<"tx_type", PrivilegedTxType>> >>

(* What sender() rebuilds to recover the signer. *)

SenderLegacy == <<
    <<"nonce", U64>>, <<"gas_price", U64>>, <<"gas", U64>>, <<"to", TxKind>>,
    <<"value", U256>>, <<"data", Bytes>> >>

\* Replay-protected legacy transactions append chain_id, 0, 0.
SenderLegacyProtected == SenderLegacy \o <<
    <<"chain_id", U64>>, <<"zero", U8>>, <<"zero", U8>> >>

SenderEIP2930 == <<
    <<"chain_id", U64>>, <<"nonce", U64>>, <<"gas_price", U64>>,
    <<"gas_limit", U64>>, <<"to", TxKind>>, <<"value", U256>>,
    <<"data", Bytes>>, <<"access_list", AccessList>> >>

SenderEIP1559 == <<
    <<"chain_id", U64>>, <<"nonce", U64>>, <<"max_priority_fee_per_gas", U64>>,
    <<"max_fee_per_gas", U64>>, <<"gas_limit", U64>>, <<"to", TxKind>>,
    <<"value", U256>>, <<"data", Bytes>>, <<"access_list", AccessList>> >>

SenderEIP4844 == <<
    <<"chain_id", U64>>, <<"nonce", U64>>, <<"max_priority_fee_per_gas", U64>>,
    <<"max_fee_per_gas", U64>>, <<"gas", U64>>, <<"to", Address>>,
    <<"value", U256>>, <<"data", Bytes>>, <<"access_list", AccessList>>,
    <<"max_fee_per_blob_gas", U256>>, <<"blob_versioned_hashes", Vec(H256)>> >>

SenderPrivileged == <<
    <<"chain_id", U64>>, <<"nonce", U64>>, <<"max_priority_fee_per_gas", U64>>,
    <<"max_fee_per_gas", U64>>, <<"gas_limit", U64>>, <<"to", TxKind>>,
    <<"value", U256>>, <<"data", Bytes>>, <<"access_list", AccessList>>,
    <<"tx_type", PrivilegedTxType>> >>

-----------------------------------------------------------------------------
(* Blocks.  The fields a fork added to the header are optional, and are    *)
(* told apart only by their position and by what their reader accepts.     *)

EncodeHeader == <<
    <<"parent_hash", H256>>, <<"ommers_hash", H256>>, <<"coinbase", Address>>,
    <<"state_root", H256>>, <<"transactions_root", H256>>,
    <<"receipts_root", H256>>, <<"logs_bloom", Bloom>>, <<"difficulty", U256>>,
    <<"number", U64>>, <<"gas_limit", U64>>, <<"gas_used", U64>>,
    <<"timestamp", U64>>, <<"extra_data", Bytes>>, <<"prev_randao", H256>>,
    <<"nonce", Array(8)>>, <<"base_fee_per_gas", Opt(U64)>>,
    <<"withdrawals_root", Opt(H256)>>, <<"blob_gas_used", Opt(U64)>>,
    <<"excess_blob_gas", Opt(U64)>>, <<"parent_beacon_block_root", Opt(H256)>> >>

DecodeHeader == <<
    <<"parent_hash", H256>>, <<"ommers_hash", H256>>, <<"coinbase", Address>>,
    <<"state_root", H256>>, <<"transactions_root", H256>>,
    <<"receipts_root", H256>>, <<"logs_bloom", Bloom>>, <<"difficulty", U256>>,
    <<"number", U64>>, <<"gas_limit", U64>>, <<"gas_used", U64>>,
    <<"timestamp", U64>>, <<"extra_data", Bytes>>, <<"prev_randao", H256>>,
    <<"nonce", Array(8)>>, <<"base_fee_per_gas", Opt(U64)>>,
    <<"withdrawals_root", Opt(H256)>>, <<"blob_gas_used", Opt(U64)>>,
    <<"excess_blob_gas", Opt(U64)>>, <<"parent_beacon_block_root", Opt(H256)>> >>

EncodeBody == <<
    <<"transactions", Vec(Transaction)>>, <<"ommers", Vec(Struct("BlockHeader"))>>,
    <<"withdrawals", Opt(Vec(Struct("Withdrawal")))>> >>

DecodeBody == <<
    <<"transactions", Vec(Transaction)>>, <<"ommers", Vec(Struct("BlockHeader"))>>,
    <<"withdrawals", Opt(Vec(Struct("Withdrawal")))>> >>

EncodeBlock == <<
    <<"header", Struct("BlockHeader")>>, <<"transactions", Vec(Transaction)>>,
    <<"ommers", Vec(Struct("BlockHeader"))>>,
    <<"withdrawals", Opt(Vec(Struct("Withdrawal")))>> >>

DecodeBlock == <<
    <<"header", Struct("BlockHeader")>>, <<"transactions", Vec(Transaction)>>,
    <<"ommers", Vec(Struct("BlockHeader"))>>,
    <<"withdrawals", Opt(Vec(Struct("Withdrawal")))>> >>

EncodeWithdrawal == <<
    <<"index", U64>>, <<"validator_index", U64>>, <<"address", Address>>,
    <<"amount", U64>> >>

DecodeWithdrawal == <<
    <<"index", U64>>, <<"validator_index", U64>>, <<"address", Address>>,
    <<"amount", U64>> >>

-----------------------------------------------------------------------------
(* Receipts, logs, accounts, the fork id and blob bundles. *)

EncodeReceiptFields == <<
    <<"succeeded", Bool>>, <<"cumulative_gas_used", U64>>, <<"bloom", Bloom>>,
    <<"logs", Vec(Struct("Log"))>> >>

DecodeReceiptFields == <<
    <<"succeeded", Bool>>, <<"cumulative_gas_used", U64>>, <<"bloom", Bloom>>,
    <<"logs", Vec(Struct("Log"))>> >>

EncodeLog == <<<<"address", Address>>, <<"topics", Vec(H256)>>, <<"data", Bytes>>>>

DecodeLog == <<<<"address", Address>>, <<"topics", Vec(H256)>>, <<"data", Bytes>>>>

EncodeAccountInfo == <<<<"code_hash", H256>>, <<"balance", U256>>, <<"nonce", U64>>>>

DecodeAccountInfo == <<<<"code_hash", H256>>, <<"balance", U256>>, <<"nonce", U64>>>>

EncodeAccountState == <<
    <<"nonce", U64>>, <<"balance", U256>>, <<"storage_root", H256>>,
    <<"code_hash", H256>> >>

DecodeAccountState == <<
    <<"nonce", U64>>, <<"balance", U256>>, <<"storage_root", H256>>,
    <<"code_hash", H256>> >>

EncodeForkId == <<<<"fork_hash", Array(4)>>, <<"fork_next", U64>>>>

DecodeForkId == <<<<"fork_hash", Array(4)>>, <<"fork_next", U64>>>>

\* A blob is an array of BYTES_PER_BLOB bytes; its length plays no part here.
Blob == Array(3)
Bytes48 == Array(48)

EncodeBlobsBundle == <<
    <<"blobs", Vec(Blob)>>, <<"commitments", Vec(Bytes48)>>, <<"proofs", Vec(Bytes48)>> >>

DecodeBlobsBundle == <<
    <<"blobs", Vec(Blob)>>, <<"commitments", Vec(Bytes48)>>, <<"proofs", Vec(Bytes48)>> >>

EncodeWrappedEIP4844 == <<
    <<"tx", Struct("EIP4844")>>, <<"blobs", Vec(Blob)>>,
    <<"commitments", Vec(Bytes48)>>, <<"proofs", Vec(Bytes48)>> >>

DecodeWrappedEIP4844 == <<
    <<"tx", Struct("EIP4844")>>, <<"blobs", Vec(Blob)>>,
    <<"commitments", Vec(Bytes48)>>, <<"proofs", Vec(Bytes48)>> >>

\* The mempool entry writes two of the three fields it reads.
EncodeMempoolTransaction == <<<<"timestamp", U128>>, <<"inner", Transaction>>>>

DecodeMempoolTransaction == <<
    <<"timestamp", U128>>, <<"sender", Address>>, <<"inner", Transaction>> >>
=============================================================================
