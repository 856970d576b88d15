----------------------------- MODULE WireCodec ------------------------------
(***************************************************************************)
(* The RLP layouts of what nodes send each other: the eth, snap and p2p    *)
(* messages over RLPx (crates/networking/p2p/rlpx), its handshake, and the *)
(* discovery packets over UDP (p2p/discv4.rs, p2p/types.rs).  Tables as in *)
(* ChainCodec; an entry named "" is written or read but not kept.          *)
(***************************************************************************)
EXTENDS ChainCodec

HashOrNumber == <<"HashOrNumber">>
Capability == <<"Capability">>
IpAddr == <<"IpAddr">>
\* A bool written as the u8 0 or 1.
BoolAsU8 == <<"BoolAsU8">>
\* A constant field: the writer's value, and what the reader asserts.
Const(k, v) == <<"const", k, v>>
\* A string read as a hash, or as the default when it is empty.
HashOr(v) == <<"hashOr", v>>
\* An item whose own encoding is wrapped in a string.
Encoded(k) == <<"encoded", k>>
\* The (key, encoded value) pairs at the end of a node record.
Pairs == <<"pairs">>

-----------------------------------------------------------------------------
(* The eth capability. *)

EncodeStatus == <<
    <<"eth_version", U32>>, <<"network_id", U64>>, <<"total_difficulty", U256>>,
    <<"block_hash", H256>>, <<"genesis", H256>>, <<"fork_id", Struct("ForkId")>> >>

DecodeStatus == <<
    <<"eth_version", Const(U32, <<68>>)>>, <<"network_id", U64>>,
    <<"total_difficulty", U256>>, <<"block_hash", H256>>, <<"genesis", H256>>,
    <<"fork_id", Struct("ForkId")>> >>

EncodeTransactions == <<<<"transactions", <<"rest", Transaction>>>>>>

EncodeNewPooledTransactionHashes == <<
    <<"transaction_types", Bytes>>, <<"transaction_sizes", Vec(U64)>>,
    <<"transaction_hashes", Vec(H256)>> >>

DecodeNewPooledTransactionHashes == <<
    <<"transaction_types", Bytes>>, <<"transaction_sizes", Vec(U64)>>,
    <<"transaction_hashes", Vec(H256)>> >>

EncodeGetPooledTransactions == <<<<"id", U64>>, <<"transaction_hashes", Vec(H256)>>>>

DecodeGetPooledTransactions == <<<<"id", U64>>, <<"transaction_hashes", Vec(H256)>>>>

EncodePooledTransactions == <<<<"id", U64>>, <<"pooled_transactions", Vec(Transaction)>>>>

DecodePooledTransactions == <<<<"id", U64>>, <<"pooled_transactions", Vec(Transaction)>>>>

EncodeGetBlockHeaders == <<
    <<"id", U64>>, <<"request", Tuple(<<HashOrNumber, U64, U64, BoolAsU8>>)>> >>

DecodeGetBlockHeaders == <<
    <<"id", U64>>, <<"request", Tuple(<<HashOrNumber, U64, U64, Bool>>)>> >>

EncodeBlockHeaders == <<<<"id", U64>>, <<"block_headers", Vec(Struct("BlockHeader"))>>>>

DecodeBlockHeaders == <<<<"id", U64>>, <<"block_headers", Vec(Struct("BlockHeader"))>>>>

EncodeGetBlockBodies == <<<<"id", U64>>, <<"block_hashes", Vec(H256)>>>>

DecodeGetBlockBodies == <<<<"id", U64>>, <<"block_hashes", Vec(H256)>>>>

EncodeBlockBodies == <<<<"id", U64>>, <<"block_bodies", Vec(Struct("BlockBody"))>>>>

DecodeBlockBodies == <<<<"id", U64>>, <<"block_bodies", Vec(Struct("BlockBody"))>>>>

EncodeGetReceipts == <<<<"id", U64>>, <<"block_hashes", Vec(H256)>>>>

DecodeGetReceipts == <<<<"id", U64>>, <<"block_hashes", Vec(H256)>>>>

EncodeReceipts == <<<<"id", U64>>, <<"receipts", Vec(Vec(Receipt))>>>>

DecodeReceipts == <<<<"id", U64>>, <<"receipts", Vec(Vec(Receipt))>>>>

-----------------------------------------------------------------------------
(* The snap capability. *)

EncodeGetAccountRange == <<
    <<"id", U64>>, <<"root_hash", H256>>, <<"starting_hash", H256>>,
    <<"limit_hash", H256>>, <<"response_bytes", U64>> >>

DecodeGetAccountRange == <<
    <<"id", U64>>, <<"root_hash", H256>>, <<"starting_hash", H256>>,
    <<"limit_hash", H256>>, <<"response_bytes", U64>> >>

EncodeAccountRange == <<
    <<"id", U64>>, <<"accounts", Vec(Struct("AccountRangeUnit"))>>,
    <<"proof", Vec(Bytes)>> >>

DecodeAccountRange == <<
    <<"id", U64>>, <<"accounts", Vec(Struct("AccountRangeUnit"))>>,
    <<"proof", Vec(Bytes)>> >>

EncodeGetStorageRanges == <<
    <<"id", U64>>, <<"root_hash", H256>>, <<"account_hashes", Vec(H256)>>,
    <<"starting_hash", H256>>, <<"limit_hash", H256>>, <<"response_bytes", U64>> >>

DecodeGetStorageRanges == <<
    <<"id", U64>>, <<"root_hash", H256>>, <<"account_hashes", Vec(H256)>>,
    <<"starting_hash", HashOr([i \in 1..32 |-> 0])>>,
    <<"limit_hash", HashOr([i \in 1..32 |-> 255])>>, <<"response_bytes", U64>> >>

EncodeStorageRanges == <<
    <<"id", U64>>, <<"slots", Vec(Vec(Struct("StorageSlot")))>>, <<"proof", Vec(Bytes)>> >>

DecodeStorageRanges == <<
    <<"id", U64>>, <<"slots", Vec(Vec(Struct("StorageSlot")))>>, <<"proof", Vec(Bytes)>> >>

EncodeGetByteCodes == <<<<"id", U64>>, <<"hashes", Vec(H256)>>, <<"bytes", U64>>>>

DecodeGetByteCodes == <<<<"id", U64>>, <<"hashes", Vec(H256)>>, <<"bytes", U64>>>>

EncodeByteCodes == <<<<"id", U64>>, <<"codes", Vec(Bytes)>>>>

DecodeByteCodes == <<<<"id", U64>>, <<"codes", Vec(Bytes)>>>>

EncodeGetTrieNodes == <<
    <<"id", U64>>, <<"root_hash", H256>>, <<"paths", Vec(Vec(Bytes))>>, <<"bytes", U64>> >>

DecodeGetTrieNodes == <<
    <<"id", U64>>, <<"root_hash", H256>>, <<"paths", Vec(Vec(Bytes))>>, <<"bytes", U64>> >>

EncodeTrieNodes == <<<<"id", U64>>, <<"nodes", Vec(Bytes)>>>>

DecodeTrieNodes == <<<<"id", U64>>, <<"nodes", Vec(Bytes)>>>>

EncodeAccountRangeUnit == <<<<"hash", H256>>, <<"account", Struct("AccountStateSlim")>>>>

DecodeAccountRangeUnit == <<<<"hash", H256>>, <<"account", Struct("AccountStateSlim")>>>>

EncodeAccountStateSlim == <<
    <<"nonce", U64>>, <<"balance", U256>>, <<"storage_root", Bytes>>, <<"code_hash", Bytes>> >>

DecodeAccountStateSlim == <<
    <<"nonce", U64>>, <<"balance", U256>>, <<"storage_root", Bytes>>, <<"code_hash", Bytes>> >>

\* The two hashes that snap leaves out of an account.
EmptyTrieHash == [i \in 1..32 |-> 86]
EMPTY_KECCACK_HASH == [i \in 1..32 |-> 197]

SlimFromState(account) ==
    [account EXCEPT
        !.storage_root = IF @ = EmptyTrieHash THEN <<>> ELSE @,
        !.code_hash = IF @ = EMPTY_KECCACK_HASH THEN <<>> ELSE @]

StateFromSlim(slim) ==
    [slim EXCEPT
        !.storage_root = IF @ = <<>> THEN EmptyTrieHash ELSE @,
        !.code_hash = IF @ = <<>> THEN EMPTY_KECCACK_HASH ELSE @]

EncodeStorageSlot == <<<<"hash", H256>>, <<"data", Encoded(U256)>>>>

DecodeStorageSlot == <<<<"hash", H256>>, <<"data", Encoded(U256)>>>>

-----------------------------------------------------------------------------
(* The p2p capability and the RLPx handshake. *)

\* "Ethereum(++)/1.0.0" stands as two bytes; the port is always 0.
EncodeHello == <<
    <<"", Const(U8, <<5>>)>>, <<"", Const(Bytes, <<69, 116>>)>>,
    <<"capabilities", Vec(Tuple(<<Capability, U8>>))>>, <<"", Const(U8, <<>>)>>,
    <<"node_id", Array(64)>> >>

DecodeHello == <<
    <<"", Const(U64, <<5>>)>>, <<"", Bytes>>,
    <<"capabilities", Vec(Tuple(<<Capability, U8>>))>>, <<"", U16>>,
    <<"node_id", Array(64)>> >>

EncodeDisconnect == <<<<"reason", Opt(U8)>>>>

EncodeAuth == <<
    <<"signature", Array(65)>>, <<"node_id", Array(64)>>, <<"nonce", H256>>,
    <<"version", U8>> >>

DecodeAuth == <<
    <<"signature", Array(65)>>, <<"node_id", Array(64)>>, <<"nonce", H256>>,
    <<"version", U8>> >>

EncodeAck == <<<<"ephemeral_pubkey", Array(64)>>, <<"nonce", H256>>, <<"version", U8>>>>

DecodeAck == <<<<"ephemeral_pubkey", Array(64)>>, <<"nonce", H256>>, <<"version", U8>>>>

-----------------------------------------------------------------------------
(* Discovery. *)

EncodeEndpoint == <<<<"ip", IpAddr>>, <<"udp_port", U16>>, <<"tcp_port", U16>>>>

DecodeEndpoint == <<<<"ip", IpAddr>>, <<"udp_port", U16>>, <<"tcp_port", U16>>>>

EncodeNode == <<
    <<"ip", IpAddr>>, <<"udp_port", U16>>, <<"tcp_port", U16>>, <<"node_id", Array(64)>> >>

DecodeNode == <<
    <<"ip", IpAddr>>, <<"udp_port", U16>>, <<"tcp_port", U16>>, <<"node_id", Array(64)>> >>

EncodeNodeRecord == <<<<"signature", Array(64)>>, <<"seq", U64>>, <<"pairs", Pairs>>>>

DecodeNodeRecord == <<<<"signature", Array(64)>>, <<"seq", U64>>, <<"pairs", Pairs>>>>

EncodePing == <<
    <<"version", U8>>, <<"from", Struct("Endpoint")>>, <<"to", Struct("Endpoint")>>,
    <<"expiration", U64>>, <<"enr_seq", Opt(U64)>> >>

DecodePing == <<
    <<"version", U8>>, <<"from", Struct("Endpoint")>>, <<"to", Struct("Endpoint")>>,
    <<"expiration", U64>>, <<"enr_seq", Opt(U64)>> >>

EncodePong == <<
    <<"to", Struct("Endpoint")>>, <<"ping_hash", H256>>, <<"expiration", U64>>,
    <<"enr_seq", Opt(U64)>> >>

DecodePong == <<
    <<"to", Struct("Endpoint")>>, <<"ping_hash", H256>>, <<"expiration", U64>>,
    <<"enr_seq", Opt(U64)>> >>

EncodeFindNode == <<<<"target", Array(64)>>, <<"expiration", U64>>>>

DecodeFindNode == <<<<"target", Array(64)>>, <<"expiration", U64>>>>

EncodeNeighbors == <<<<"nodes", Vec(Struct("Node"))>>, <<"expiration", U64>>>>

DecodeNeighbors == <<<<"nodes", Vec(Struct("Node"))>>, <<"expiration", U64>>>>

EncodeENRRequest == <<<<"expiration", U64>>>>

DecodeENRRequest == <<<<"expiration", U64>>>>

EncodeENRResponse == <<<<"request_hash", H256>>, <<"node_record", Struct("NodeRecord")>>>>

DecodeENRResponse == <<<<"request_hash", H256>>, <<"node_record", Struct("NodeRecord")>>>>

-----------------------------------------------------------------------------
(* Message numbers: the writers' and the readers' tables. *)

\* Message::encode of the RLPx messages.
EncodeId == [
    Hello |-> 0, Disconnect |-> 1, Ping |-> 2, Pong |-> 3, Status |-> 16,
    Transactions |-> 18, GetBlockHeaders |-> 19, BlockHeaders |-> 20,
    GetBlockBodies |-> 21, BlockBodies |-> 22, NewPooledTransactionHashes |-> 24,
    GetPooledTransactions |-> 25, GetReceipts |-> 31, Receipts |-> 32,
    GetAccountRange |-> 33, AccountRange |-> 34, GetStorageRanges |-> 35,
    StorageRanges |-> 36, GetByteCodes |-> 37, ByteCodes |-> 38,
    GetTrieNodes |-> 39, TrieNodes |-> 40]

\* Message::decode of the RLPx messages.
DecodeId == [
    Hello |-> 0, Disconnect |-> 1, Ping |-> 2, Pong |-> 3, Status |-> 16,
    Transactions |-> 18, GetBlockHeaders |-> 19, BlockHeaders |-> 20,
    GetBlockBodies |-> 21, BlockBodies |-> 22, NewPooledTransactionHashes |-> 24,
    GetPooledTransactions |-> 25, GetReceipts |-> 31, Receipts |-> 32,
    GetAccountRange |-> 33, AccountRange |-> 34, GetStorageRanges |-> 35,
    StorageRanges |-> 36, GetByteCodes |-> 37, ByteCodes |-> 38,
    GetTrieNodes |-> 39, TrieNodes |-> 40]

\* packet_type and decode_with_type of the discovery messages.
packet_type == [
    DiscPing |-> 1, DiscPong |-> 2, FindNode |-> 3, Neighbors |-> 4,
    ENRRequest |-> 5, ENRResponse |-> 6]

decode_with_type == [
    DiscPing |-> 1, DiscPong |-> 2, FindNode |-> 3, Neighbors |-> 4,
    ENRRequest |-> 5, ENRResponse |-> 6]
=============================================================================
