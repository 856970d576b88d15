------------------------------- MODULE Codec --------------------------------
(***************************************************************************)
(* Writing a value into bytes and reading it back, as the node does for    *)
(* its database, its peers and its RPC clients.  Enc and Dec interpret the *)
(* layouts of ChainCodec and WireCodec; the state machine writes one value *)
(* in one of the forms below, lets the bytes suffer what a stream or a     *)
(* newer peer does to them, and reads them.                                *)
(*   item     a value in a buffer, followed by other bytes;                *)
(*   message  an RLPx message: its number, then its compressed payload;    *)
(*   packet   a discovery packet: hash, signature, type and payload;       *)
(*   signed   a transaction with its signature, whose sender is recovered; *)
(*   json     a transaction as a JSON object;                              *)
(*   slim     an account as the snap messages carry it.                    *)
(***************************************************************************)
EXTENDS WireCodec, TxJson, SequencesExt

-----------------------------------------------------------------------------
(* The impls of each named struct. *)

TxTypeByte == [Legacy |-> 0, EIP2930 |-> 1, EIP1559 |-> 2, EIP4844 |-> 3, Privileged |-> 126]
TxTypes == DOMAIN TxTypeByte

EncodeTable == [
    Legacy |-> EncodeLegacy, EIP2930 |-> EncodeEIP2930, EIP1559 |-> EncodeEIP1559,
    EIP4844 |-> EncodeEIP4844, Privileged |-> EncodePrivileged,
    BlockHeader |-> EncodeHeader, BlockBody |-> EncodeBody, Block |-> EncodeBlock,
    Withdrawal |-> EncodeWithdrawal, ReceiptFields |-> EncodeReceiptFields,
    Log |-> EncodeLog, AccountInfo |-> EncodeAccountInfo,
    AccountState |-> EncodeAccountState, ForkId |-> EncodeForkId,
    BlobsBundle |-> EncodeBlobsBundle, WrappedEIP4844 |-> EncodeWrappedEIP4844,
    MempoolTransaction |-> EncodeMempoolTransaction,
    AccountRangeUnit |-> EncodeAccountRangeUnit,
    AccountStateSlim |-> EncodeAccountStateSlim, StorageSlot |-> EncodeStorageSlot,
    Auth |-> EncodeAuth, Ack |-> EncodeAck, Endpoint |-> EncodeEndpoint,
    Node |-> EncodeNode, NodeRecord |-> EncodeNodeRecord,
    Hello |-> EncodeHello, Disconnect |-> EncodeDisconnect, Ping |-> <<>>,
    Pong |-> <<>>, Status |-> EncodeStatus, Transactions |-> EncodeTransactions,
    GetBlockHeaders |-> EncodeGetBlockHeaders, BlockHeaders |-> EncodeBlockHeaders,
    GetBlockBodies |-> EncodeGetBlockBodies, BlockBodies |-> EncodeBlockBodies,
    NewPooledTransactionHashes |-> EncodeNewPooledTransactionHashes,
    GetPooledTransactions |-> EncodeGetPooledTransactions,
    PooledTransactions |-> EncodePooledTransactions,
    GetReceipts |-> EncodeGetReceipts, Receipts |-> EncodeReceipts,
    GetAccountRange |-> EncodeGetAccountRange, AccountRange |-> EncodeAccountRange,
    GetStorageRanges |-> EncodeGetStorageRanges, StorageRanges |-> EncodeStorageRanges,
    GetByteCodes |-> EncodeGetByteCodes, ByteCodes |-> EncodeByteCodes,
    GetTrieNodes |-> EncodeGetTrieNodes, TrieNodes |-> EncodeTrieNodes,
    DiscPing |-> EncodePing, DiscPong |-> EncodePong, FindNode |-> EncodeFindNode,
    Neighbors |-> EncodeNeighbors, ENRRequest |-> EncodeENRRequest,
    ENRResponse |-> EncodeENRResponse]

DecodeTable == [
    Legacy |-> DecodeLegacy, EIP2930 |-> DecodeEIP2930, EIP1559 |-> DecodeEIP1559,
    EIP4844 |-> DecodeEIP4844, Privileged |-> DecodePrivileged,
    BlockHeader |-> DecodeHeader, BlockBody |-> DecodeBody, Block |-> DecodeBlock,
    Withdrawal |-> DecodeWithdrawal, ReceiptFields |-> DecodeReceiptFields,
    Log |-> DecodeLog, AccountInfo |-> DecodeAccountInfo,
    AccountState |-> DecodeAccountState, ForkId |-> DecodeForkId,
    BlobsBundle |-> DecodeBlobsBundle, WrappedEIP4844 |-> DecodeWrappedEIP4844,
    MempoolTransaction |-> DecodeMempoolTransaction,
    AccountRangeUnit |-> DecodeAccountRangeUnit,
    AccountStateSlim |-> DecodeAccountStateSlim, StorageSlot |-> DecodeStorageSlot,
    Auth |-> DecodeAuth, Ack |-> DecodeAck, Endpoint |-> DecodeEndpoint,
    Node |-> DecodeNode, NodeRecord |-> DecodeNodeRecord,
    Hello |-> DecodeHello, Ping |-> <<>>, Pong |-> <<>>, Status |-> DecodeStatus,
    GetBlockHeaders |-> DecodeGetBlockHeaders, BlockHeaders |-> DecodeBlockHeaders,
    GetBlockBodies |-> DecodeGetBlockBodies, BlockBodies |-> DecodeBlockBodies,
    NewPooledTransactionHashes |-> DecodeNewPooledTransactionHashes,
    GetPooledTransactions |-> DecodeGetPooledTransactions,
    PooledTransactions |-> DecodePooledTransactions,
    GetReceipts |-> DecodeGetReceipts, Receipts |-> DecodeReceipts,
    GetAccountRange |-> DecodeGetAccountRange, AccountRange |-> DecodeAccountRange,
    GetStorageRanges |-> DecodeGetStorageRanges, StorageRanges |-> DecodeStorageRanges,
    GetByteCodes |-> DecodeGetByteCodes, ByteCodes |-> DecodeByteCodes,
    GetTrieNodes |-> DecodeGetTrieNodes, TrieNodes |-> DecodeTrieNodes,
    DiscPing |-> DecodePing, DiscPong |-> DecodePong, FindNode |-> DecodeFindNode,
    Neighbors |-> DecodeNeighbors, ENRRequest |-> DecodeENRRequest,
    ENRResponse |-> DecodeENRResponse]

\* The readers that end in finish(), which refuses fields left over.  The
\* others end in finish_unchecked(), or in nothing at all.
Strict == TxTypes \cup {
    "BlockHeader", "BlockBody", "Block", "Withdrawal", "ReceiptFields", "Log", "AccountInfo",
    "AccountState", "ForkId", "BlobsBundle", "WrappedEIP4844", "MempoolTransaction",
    "AccountRangeUnit", "AccountStateSlim", "StorageSlot", "Endpoint", "NodeRecord",
    "GetAccountRange", "AccountRange", "GetStorageRanges", "StorageRanges",
    "GetByteCodes", "ByteCodes", "GetTrieNodes", "TrieNodes"}

MAX_NODE_RECORD_ENCODED_SIZE == 300

\* "id", the one key a node record must have.
IdKey == <<105, 100>>

CapabilityBytes == [P2p |-> <<112, 50, 112>>, Eth |-> <<101, 116, 104>>,
                    Snap |-> <<115, 110, 97, 112>>]

PrivilegedByte == [Deposit |-> 1, Withdrawal |-> 2]

-----------------------------------------------------------------------------
(* Writers. *)

RECURSIVE Enc(_, _)
EncFields(table, v) ==
    FlattenSeq([i \in DOMAIN table |->
        Enc(table[i][2], IF table[i][1] = "" THEN <<>> ELSE v[table[i][1]])])

EncAll(k, vs) == FlattenSeq([i \in DOMAIN vs |-> Enc(k, vs[i])])

encode_canonical(tx) ==
    (IF tx[1] = "Legacy" THEN <<>> ELSE <<TxTypeByte[tx[1]]>>)
        \o Enc(Struct(tx[1]), tx[2])

encode_inner(receipt) ==
    (IF receipt.tx_type = "Legacy" THEN <<>> ELSE <<TxTypeByte[receipt.tx_type]>>)
        \o Enc(Struct("ReceiptFields"), receipt)

EncTransaction(tx) ==
    IF tx[1] = "Legacy" THEN encode_canonical(tx) ELSE EncodeBytes(encode_canonical(tx))

EncReceipt(receipt) ==
    IF receipt.tx_type = "Legacy" THEN encode_inner(receipt)
    ELSE EncodeBytes(encode_inner(receipt))

EncTxKind(to) == IF to = <<>> THEN <<RLP_NULL>> ELSE EncodeBytes(to[1])
EncPrivilegedTxType(type) == <<PrivilegedByte[type]>>
EncHashOrNumber(v) == IF v[1] = "hash" THEN EncodeBytes(v[2]) ELSE EncodeUint(v[2])
EncCapability(v) == EncodeBytes(CapabilityBytes[v])

\* encode_key_value_list writes the key as a string and the value as it is.
EncPairs(pairs) ==
    FlattenSeq([i \in DOMAIN pairs |-> EncodeBytes(pairs[i][1]) \o pairs[i][2]])

Enc(k, v) ==
    CASE k[1] \in {"u8", "uint"} -> EncodeUint(v)
      [] k[1] = "bool" -> EncodeBool(v)
      [] k[1] = "BoolAsU8" -> EncodeUint(IF v THEN <<1>> ELSE <<>>)
      [] k[1] \in {"bytes", "array", "IpAddr"} -> EncodeBytes(v)
      [] k[1] = "vec" -> EncodeList(EncAll(k[2], v))
      [] k[1] = "rest" -> EncAll(k[2], v)
      [] k[1] = "tuple" -> EncodeList(FlattenSeq([i \in DOMAIN v |-> Enc(k[2][i], v[i])]))
      [] k[1] = "option" -> EncAll(k[2], v)
      [] k[1] = "const" -> Enc(k[2], k[3])
      [] k[1] = "encoded" -> EncodeBytes(Enc(k[2], v))
      [] k[1] = "pairs" -> EncPairs(v)
      [] k[1] = "TxKind" -> EncTxKind(v)
      [] k[1] = "PrivilegedTxType" -> EncPrivilegedTxType(v)
      [] k[1] = "HashOrNumber" -> EncHashOrNumber(v)
      [] k[1] = "Capability" -> EncCapability(v)
      [] k[1] = "Transaction" -> EncTransaction(v)
      [] k[1] = "CanonicalTransaction" -> encode_canonical(v)
      [] k[1] = "Receipt" -> EncReceipt(v)
      [] k[1] = "InnerReceipt" -> encode_inner(v)
      [] k[1] = "struct" -> EncodeList(EncFields(EncodeTable[k[2]], v))

-----------------------------------------------------------------------------
(* Readers. *)

\* decode(): the whole buffer must be consumed.
Whole(d) == IF d.ok /\ d.rest = <<>> THEN d ELSE Failed

\* Maps the value read, keeping the bytes left.
As(d, F(_)) == IF d.ok THEN Done(F(d.value), d.rest) ELSE Failed
Some(v) == <<v>>

\* An item and the ones read behind it.
Prepended(v, more) == IF more.ok THEN Done(<<v>> \o more.value, more.rest) ELSE Failed

RECURSIVE Dec(_, _), DecFields(_, _, _), DecAll(_, _), DecRest(_, _), DecPairs(_), DecEach(_, _)

\* The fields of the table, in order, out of the payload of a list.
DecFields(table, payload, got) ==
    LET Field(name, f) ==
            IF ~f.ok THEN Failed
            ELSE DecFields(Tail(table), f.rest,
                           IF name = "" THEN got ELSE (name :> f.value) @@ got)
    IN IF table = <<>> THEN Done(got, payload)
       ELSE Field(table[1][1], Dec(table[1][2], payload))

\* Vec<T>: items until the payload is used up.
DecAll(k, payload) ==
    LET First(f) == IF f.ok THEN Prepended(f.value, DecAll(k, f.rest)) ELSE Failed
    IN IF payload = <<>> THEN Done(<<>>, <<>>) ELSE First(Dec(k, payload))

\* Items until one cannot be read: the loop of Transactions::decode.
DecRest(k, payload) ==
    LET First(f) == IF f.ok THEN Prepended(f.value, DecRest(k, f.rest)) ELSE Done(<<>>, payload)
    IN First(Dec(k, payload))

\* Decoder::finish, which refuses what is left of the payload, and
\* finish_unchecked, which does not; the decoding goes on behind the list.
Finish(d, strict, rest) ==
    IF ~d.ok \/ (strict /\ d.rest # <<>>) THEN Failed ELSE Done(d.value, rest)

\* The payload of a list, read by R.
InList(data, strict, R(_)) ==
    LET Open(it) == IF it.ok /\ it.list THEN Finish(R(it.payload), strict, it.rest) ELSE Failed
    IN Open(decode_rlp_item(data))

\* (T1, T2), (T1, T2, T3) and (T1, T2, T3, T4).
DecEach(ks, payload) ==
    LET First(f) == IF f.ok THEN Prepended(f.value, DecEach(Tail(ks), f.rest)) ELSE Failed
    IN IF ks = <<>> THEN Done(<<>>, payload) ELSE First(Dec(ks[1], payload))

TxTypeOf(byte) == {t \in TxTypes : TxTypeByte[t] = byte}

\* What follows a type byte, or a legacy value without one.
DecTyped(data, Reader(_, _)) ==
    IF data = <<>> \/ TxTypeOf(data[1]) = {} THEN Failed
    ELSE Reader(CHOOSE t \in TxTypeOf(data[1]) : TRUE, Tail(data))

DecTransactionAs(type, data) ==
    LET Tagged(v) == <<type, v>> IN As(Dec(Struct(type), data), Tagged)

DecReceiptAs(type, data) ==
    LET Tagged(v) == ("tx_type" :> type) @@ v IN As(Dec(Struct("ReceiptFields"), data), Tagged)

\* RLPDecode of Transaction and Receipt: a long string is a typed value.
DecEnvelope(data, Reader(_, _)) ==
    IF is_encoded_as_bytes(data)
    THEN DecTyped(get_rlp_bytes_item_payload(data), Reader)
    ELSE Reader("Legacy", data)

\* decode_canonical and decode_inner: a small first byte is the type.
DecCanonical(data, Reader(_, _)) ==
    Whole(IF data # <<>> /\ data[1] < 127 THEN DecTyped(data, Reader)
          ELSE Reader("Legacy", data))

\* What some readers ask of the fields together.
Consistent(name, v) ==
    CASE name = "NodeRecord" -> \E p \in Range(v.pairs) : p[1] = IdKey
      [] name = "NewPooledTransactionHashes" ->
            /\ Len(v.transaction_types) = Len(v.transaction_sizes)
            /\ Len(v.transaction_types) = Len(v.transaction_hashes)
      [] OTHER -> TRUE

DecStruct(name, data) ==
    LET R(payload) == DecFields(DecodeTable[name], payload, <<>>)
        Checked(d) == IF d.ok /\ Consistent(name, d.value) THEN d ELSE Failed
    IN IF name = "NodeRecord" /\ Len(data) > MAX_NODE_RECORD_ENCODED_SIZE THEN Failed
       ELSE Checked(InList(data, name \in Strict, R))

HashOrDefault(default, data) ==
    LET Hash(b) == IF ~b.ok THEN Failed
                   ELSE IF b.value = <<>> THEN Done(default, b.rest) ELSE DecodeArray(32, data)
    IN Hash(decode_bytes(data))

\* decode_node_record_optional_fields: a key without a value is a panic.
DecPairs(payload) ==
    LET Pair(key, item) ==
            IF item.ok THEN Prepended(<<key.value, item.value>>, DecPairs(item.rest)) ELSE Failed
        First(key) ==
            IF key.ok THEN Pair(key, get_item_with_prefix(key.rest)) ELSE Done(<<>>, payload)
    IN First(decode_bytes(payload))

HashTag(v) == <<"hash", v>>
NumberTag(v) == <<"number", v>>

DecNamed(d, names, Code(_)) ==
    IF d.ok /\ \E n \in names : Code(n) = d.value
    THEN Done(CHOOSE n \in names : Code(n) = d.value, d.rest) ELSE Failed

DecTxKind(data) ==
    IF data # <<>> /\ data[1] = RLP_NULL THEN Done(<<>>, Tail(data))
    ELSE As(DecodeArray(20, data), Some)

DecPrivilegedTxType(data) ==
    LET Code(n) == <<PrivilegedByte[n]>>
    IN DecNamed(DecodeU8(data), DOMAIN PrivilegedByte, Code)

DecHashOrNumber(data) ==
    IF data # <<>> /\ data[1] = RLP_NULL + 32 THEN As(DecodeArray(32, data), HashTag)
    ELSE As(DecodeUint(8, data), NumberTag)

DecCapability(data) ==
    LET Code(n) == CapabilityBytes[n]
    IN DecNamed(decode_bytes(data), DOMAIN CapabilityBytes, Code)

\* A field that fails to decode counts as absent, and is not consumed.
decode_optional_field(k, data) ==
    LET Optional(d) == IF d.ok THEN As(d, Some) ELSE Done(<<>>, data)
    IN Optional(Dec(k, data))

\* A field with one legal value.
DecConst(k, v, data) ==
    LET Equal(d) == IF d.ok /\ d.value = v THEN d ELSE Failed IN Equal(Dec(k, data))

\* A value encoded on its own and carried as a string.
DecEncoded(k, data) ==
    LET Carried(inner, rest) == IF inner.ok THEN Done(inner.value, rest) ELSE Failed
        Inner(d) == IF d.ok THEN Carried(Whole(Dec(k, d.value)), d.rest) ELSE Failed
    IN Inner(decode_bytes(data))

DecTransaction(data) == DecEnvelope(data, DecTransactionAs)
DecReceipt(data) == DecEnvelope(data, DecReceiptAs)
decode_canonical(data) == DecCanonical(data, DecTransactionAs)
decode_inner(data) == DecCanonical(data, DecReceiptAs)

Dec(k, data) ==
    CASE k[1] = "u8" -> DecodeU8(data)
      [] k[1] = "uint" -> DecodeUint(k[2], data)
      [] k[1] = "bool" -> DecodeBool(data)
      [] k[1] = "bytes" -> decode_bytes(data)
      [] k[1] = "array" -> DecodeArray(k[2], data)
      [] k[1] = "IpAddr" -> DecodeIpAddr(data)
      [] k[1] = "vec" ->
            LET R(payload) == DecAll(k[2], payload) IN InList(data, TRUE, R)
      [] k[1] = "tuple" ->
            LET R(payload) == DecEach(k[2], payload) IN InList(data, TRUE, R)
      [] k[1] = "option" -> decode_optional_field(k[2], data)
      [] k[1] = "const" -> DecConst(k[2], k[3], data)
      [] k[1] = "hashOr" -> HashOrDefault(k[2], data)
      [] k[1] = "encoded" -> DecEncoded(k[2], data)
      [] k[1] = "pairs" -> DecPairs(data)
      [] k[1] = "TxKind" -> DecTxKind(data)
      [] k[1] = "PrivilegedTxType" -> DecPrivilegedTxType(data)
      [] k[1] = "HashOrNumber" -> DecHashOrNumber(data)
      [] k[1] = "Capability" -> DecCapability(data)
      [] k[1] = "Transaction" -> DecTransaction(data)
      [] k[1] = "CanonicalTransaction" -> decode_canonical(data)
      [] k[1] = "Receipt" -> DecReceipt(data)
      [] k[1] = "InnerReceipt" -> decode_inner(data)
      [] k[1] = "struct" -> DecStruct(k[2], data)

-----------------------------------------------------------------------------
(* RLPx messages. *)

\* Snappy: a length in front of the bytes; a stream of another length fails.
snappy_compress(b) == <<Len(b) \div 256, Len(b) % 256>> \o b
snappy_decompress(b) ==
    IF Len(b) < 2 THEN Failed
    ELSE IF 256 * b[1] + b[2] # Len(b) - 2 THEN Failed ELSE Done(From(b, 3), <<>>)

Messages == DOMAIN EncodeId

\* Hello is sent before compression is agreed on.
Frame(name, payload) ==
    EncodeUint(BigEndian(EncodeId[name]))
        \o (IF name = "Hello" THEN payload ELSE snappy_compress(payload))

EncodeMessage(name, v) == Frame(name, Enc(Struct(name), v))

TRANSACTION_LIMIT == 256

DecodeTransactions(data) ==
    LET R(payload) == DecRest(Transaction, payload)
        Received(txs) == [transactions |->
            SubSeq(txs, 1, Min({Len(txs), TRANSACTION_LIMIT + 1}))]
    IN As(InList(data, FALSE, R), Received)

\* The reason may come bare, as one byte, or in a list.
DecodeDisconnect(data) ==
    LET R(payload) == Dec(Opt(U8), payload)
        Reason(r) == [reason |-> r]
    IN CASE Len(data) = 0 -> Done(Reason(<<>>), <<>>)
         [] Len(data) = 1 -> Done(Reason(<<IF data[1] = 0 THEN <<>> ELSE data>>), <<>>)
         [] OTHER -> As(InList(data, FALSE, R), Reason)

\* Message::decode; nothing may follow a ping or a pong.
DecodePayload(name, data) ==
    CASE name = "Transactions" -> DecodeTransactions(data)
      [] name = "Disconnect" -> DecodeDisconnect(data)
      [] name \in {"Ping", "Pong"} -> Whole(Dec(Struct(name), data))
      [] OTHER -> Dec(Struct(name), data)

DecodeMessage(frame) ==
    LET Named(name, plain) ==
            LET Tagged(v) == <<name, v>>
            IN IF plain.ok THEN As(DecodePayload(name, plain.value), Tagged) ELSE Failed
        Body(name, data) ==
            Named(name, IF name = "Hello" THEN Done(data, <<>>) ELSE snappy_decompress(data))
        Message(id) ==
            IF id.ok /\ \E n \in Messages : DecodeId[n] = Number(id.value)
            THEN Body(CHOOSE n \in Messages : DecodeId[n] = Number(id.value), id.rest)
            ELSE Failed
    IN Message(DecodeU8(frame))

-----------------------------------------------------------------------------
(* Discovery packets.  keccak and the signature are terms over what they   *)
(* were computed from.                                                     *)

keccak(x) == <<"keccak", x>>
sign(key, data) == <<"signed", key, data>>
\* The key recovered from a signature over other data is some other key.
recover(signature, data) == IF signature[3] = data THEN signature[2] ELSE "unknown"

Sealed(key, body) ==
    [hash |-> keccak(<<sign(key, body), body>>), signature |-> sign(key, body), body |-> body]

EncodePacket(key, name, v) == Sealed(key, <<packet_type[name]>> \o Enc(Struct(name), v))

DecodePacket(p) ==
    LET names == {n \in DOMAIN decode_with_type : decode_with_type[n] = p.body[1]}
        Named(name) ==
            LET Sent(v) == <<name, recover(p.signature, p.body), v>>
            IN As(Dec(Struct(name), Tail(p.body)), Sent)
    IN IF \/ p.body = <<>>
          \/ p.hash # keccak(<<p.signature, p.body>>)
          \/ names = {}
       THEN Failed ELSE Named(CHOOSE n \in names : TRUE)

-----------------------------------------------------------------------------
(* Values at the edges of each kind.  Base is an ordinary value; the others   *)
(* differ from it in one field.                                            *)

Fill(n, b) == [i \in 1..n |-> b]

RECURSIVE Base(_)
BaseStruct(table) ==
    LET kept == {i \in DOMAIN table : table[i][1] # ""}
        Field(f) == CHOOSE i \in kept : table[i][1] = f
    IN [f \in {table[i][1] : i \in kept} |->
           CASE f = "eth_version" -> <<68>>
             [] f = "transaction_types" -> <<2>>
             [] f = "v" -> <<37>>
             [] OTHER -> Base(table[Field(f)][2])]

Base(k) ==
    CASE k[1] = "u8" -> <<5>>
      [] k[1] = "uint" -> Fill(k[2], 17)
      [] k[1] \in {"bool", "BoolAsU8"} -> TRUE
      [] k[1] = "bytes" -> <<1, 2>>
      [] k[1] = "array" -> Fill(k[2], 34)
      [] k[1] = "IpAddr" -> <<127, 0, 0, 1>>
      [] k[1] \in {"vec", "rest", "option"} -> <<Base(k[2])>>
      [] k[1] = "tuple" -> [i \in DOMAIN k[2] |-> Base(k[2][i])]
      [] k[1] = "const" -> k[3]
      [] k[1] = "encoded" -> Base(k[2])
      [] k[1] = "pairs" -> <<<<IdKey, EncodeBytes(<<118, 52>>)>>>>
      [] k[1] = "TxKind" -> <<Fill(20, 51)>>
      [] k[1] = "PrivilegedTxType" -> "Deposit"
      [] k[1] = "HashOrNumber" -> <<"hash", Fill(32, 68)>>
      [] k[1] = "Capability" -> "Eth"
      [] k[1] \in {"Transaction", "CanonicalTransaction"} ->
            <<"EIP1559", Base(Struct("EIP1559"))>>
      [] k[1] \in {"Receipt", "InnerReceipt"} ->
            ("tx_type" :> "EIP2930") @@ Base(Struct("ReceiptFields"))
      [] k[1] = "struct" -> BaseStruct(EncodeTable[k[2]])

\* The fields a header gained with each fork: they come and go together.
ForkFields == <<
    {"base_fee_per_gas"}, {"withdrawals_root"},
    {"blob_gas_used", "excess_blob_gas", "parent_beacon_block_root"}>>

HeaderBefore(header, n) ==
    [f \in DOMAIN header |->
        IF \E i \in n..3 : f \in ForkFields[i] THEN <<>> ELSE header[f]]

RECURSIVE Edges(_)
EdgesOfStruct(name, table, base) ==
    (UNION {{[base EXCEPT ![table[i][1]] = x] : x \in Edges(table[i][2])}
            : i \in {j \in DOMAIN table : table[j][1] # ""}})
    \cup (CASE name = "BlockHeader" -> {HeaderBefore(base, n) : n \in 1..3}
            [] name \in {"BlockBody", "Block"} -> {[base EXCEPT !.withdrawals = <<>>]}
            [] name \in {"DiscPing", "DiscPong"} -> {[base EXCEPT !.enr_seq = <<>>]}
            [] name = "NewPooledTransactionHashes" -> {[f \in DOMAIN base |-> <<>>]}
            [] OTHER -> {})

EdgesOf(k, base) ==
    CASE k[1] = "u8" -> {<<>>, <<127>>, <<128>>, <<255>>}
      [] k[1] = "uint" -> {<<>>, <<127>>, <<128>>, <<1, 0>>, Fill(k[2], 255)}
      [] k[1] \in {"bool", "BoolAsU8"} -> {FALSE}
      [] k[1] = "bytes" -> {<<>>, <<0>>, <<127>>, <<128>>, Fill(55, 7), Fill(56, 7)}
      [] k[1] = "array" -> {Fill(k[2], 0), Fill(k[2], 255)}
      [] k[1] = "IpAddr" -> {Fill(16, 9)}
      [] k[1] \in {"vec", "rest"} ->
            {<<>>} \cup {<<Base(k[2]), x>> : x \in Edges(k[2])}
      [] k[1] = "tuple" -> UNION {
            {[base EXCEPT ![i] = x] : x \in Edges(k[2][i])} : i \in DOMAIN k[2]}
      [] k[1] = "option" -> {<<x>> : x \in Edges(k[2])}
      [] k[1] = "const" -> {}
      [] k[1] = "encoded" -> Edges(k[2])
      [] k[1] = "pairs" -> {<<<<<<105>>, <<1>>>>>> \o base,
                            Append(base, <<<<117, 100, 112>>, <<130, 1, 0>>>>)}
      [] k[1] = "TxKind" -> {<<>>}
      [] k[1] = "PrivilegedTxType" -> {"Withdrawal"}
      [] k[1] = "HashOrNumber" -> {<<"number", x>> : x \in Edges(U64)}
      [] k[1] = "Capability" -> {"P2p", "Snap"}
      [] k[1] \in {"Transaction", "CanonicalTransaction"} ->
            {<<t, Base(Struct(t))>> : t \in TxTypes}
      [] k[1] \in {"Receipt", "InnerReceipt"} ->
            {("tx_type" :> t) @@ Base(Struct("ReceiptFields")) : t \in TxTypes}
      [] k[1] = "struct" -> EdgesOfStruct(k[2], EncodeTable[k[2]], base)

Edges(k) == EdgesOf(k, Base(k))

-----------------------------------------------------------------------------
(* Signing a transaction and recovering its sender. *)

PayloadTable == [
    Legacy |-> PayloadLegacy, EIP2930 |-> PayloadEIP2930, EIP1559 |-> PayloadEIP1559,
    EIP4844 |-> PayloadEIP4844, Privileged |-> PayloadPrivileged]

SenderTable == [
    Legacy |-> SenderLegacy, EIP2930 |-> SenderEIP2930, EIP1559 |-> SenderEIP1559,
    EIP4844 |-> SenderEIP4844, Privileged |-> SenderPrivileged]

WithParity(type, tx, parity) ==
    IF type = "Legacy" THEN [tx EXCEPT !.v = IF parity THEN <<1>> ELSE <<>>]
    ELSE [tx EXCEPT !.signature_y_parity = parity]

\* sign_inplace of each type: the signed transaction, and the signature that
\* stands behind its r and s.
sign_inplace(type, tx, key, parity) ==
    LET payload == EncodeList(EncFields(PayloadTable[type], tx))
        prefix == IF type = "Legacy" THEN <<>> ELSE <<TxTypeByte[type]>>
    IN [tx |-> <<type, WithParity(type, tx, parity)>>,
        signature |-> sign(key, <<parity, prefix \o payload>>)]

\* A wallet's legacy signature: without replay protection, or for a chain.
WalletSigned(tx, key, parity, chain) ==
    LET p == IF parity THEN 1 ELSE 0
        protected == chain # 0
        v == IF protected THEN 35 + 2 * chain + p ELSE 27 + p
        signed == ("chain_id" :> BigEndian(chain)) @@ ("zero" :> <<>>) @@ tx
        fields == IF protected
                  THEN PayloadLegacy \o <<<<"chain_id", U64>>, <<"zero", U8>>, <<"zero", U8>>>>
                  ELSE PayloadLegacy
    IN [tx |-> <<"Legacy", [tx EXCEPT !.v = BigEndian(v)]>>,
        signature |-> sign(key, <<parity, EncodeList(EncFields(fields, signed))>>)]

\* 35 + 2 * chain is v or v - 1, and 2^64 - 1 for v = 0, where the
\* subtraction saturates.
LegacySender(tx, chain, signature) ==
    LET v == Number(tx.v)
        seen == ("chain_id" :> chain[1]) @@ ("zero" :> <<>>) @@ tx
    IN IF chain = <<>>
       THEN recover(signature, <<v # 27, EncodeList(EncFields(SenderLegacy, tx))>>)
       ELSE recover(signature, <<v # 0 /\ v % 2 = 0,
                                 EncodeList(EncFields(SenderLegacyProtected, seen))>>)

sender(type, tx, signature, checked) ==
    IF type = "Legacy"
    THEN LET chain == derive_legacy_chain_id(tx.v, checked)
         IN IF chain.ok THEN Done(LegacySender(tx, chain.value, signature), <<>>)
            ELSE Panicked
    ELSE LET payload == EncodeList(EncFields(SenderTable[type], tx))
         IN Done(recover(signature, <<tx.signature_y_parity, <<TxTypeByte[type]>> \o payload>>),
                 <<>>)

-----------------------------------------------------------------------------
(* The state machine. *)

CONSTANTS Kinds,     \* kinds written as items: the structs and envelopes
          Chains,    \* chains a wallet signs for; 0 stands for none
          Followers   \* what may follow an item in its buffer

VARIABLES form, kind, value, bytes, suffix, fate, result
codecVars == <<form, kind, value, bytes, suffix, fate, result>>

\* Values the node can hold: the announcement of pooled transactions has one
\* type and one size for each hash, and a status has the version spoken.
Legal(k, v) ==
    IF k[2] = "NewPooledTransactionHashes"
    THEN /\ Len(v.transaction_types) = Len(v.transaction_sizes)
         /\ Len(v.transaction_types) = Len(v.transaction_hashes)
    ELSE k[2] = "Status" => v.eth_version = <<68>>

ValuesOf(k) == {Base(k)} \cup (IF k[1] = "struct" THEN {v \in Edges(k) : Legal(k, v)}
                            ELSE Edges(k))

\* The values the readers do not give back.
Mismatched(k, v) ==
    \/ k = Struct("MempoolTransaction")
    \/ k = Struct("Disconnect") /\ v.reason = <<>>
    \/ form = "json" /\ k[2] \in {"EIP2930", "EIP1559", "Privileged"} /\ v.access_list # <<>>
    \/ form = "signed" /\ k[2] = "Legacy" /\ suffix[2] = "proposer"

CodecInit ==
    /\ form \in {"item", "message", "packet", "signed", "json", "slim"}
    /\ kind \in (CASE form = "item" -> Kinds
                   [] form = "message" -> {Struct(n) : n \in Messages}
                   [] form = "packet" -> {Struct(n) : n \in DOMAIN packet_type}
                   [] form = "slim" -> {Struct("AccountState")}
                   [] form \in {"signed", "json"} -> {Struct(n) : n \in TxTypes})
    /\ value \in ValuesOf(kind) \cup
         (CASE kind = Struct("Disconnect") -> {[reason |-> <<>>]}
            [] form = "json" /\ kind[2] # "Legacy" ->
                 {[v EXCEPT !.access_list = <<>>] : v \in ValuesOf(kind)}
            [] form = "json" /\ kind[2] = "Legacy" ->
                 {WalletSigned(Base(kind), "wallet", parity, chain).tx[2] :
                      parity \in BOOLEAN, chain \in Chains}
            [] form = "slim" ->
                 {[Base(kind) EXCEPT !.storage_root = r, !.code_hash = EMPTY_KECCACK_HASH] :
                      r \in {EmptyTrieHash, EMPTY_KECCACK_HASH}}
            [] OTHER -> {})
    /\ bytes = <<>>
    /\ suffix = <<>>
    /\ fate = "held"
    /\ result = Failed

\* The writer's bytes; extra fields come from a peer with a newer version.
Written(extra) ==
    LET fields == EncFields(EncodeTable[kind[2]], value)
    IN IF extra = <<>> THEN Enc(kind, value) ELSE EncodeList(fields \o extra)

WriteItem ==
    /\ form = "item" /\ fate = "held"
    /\ suffix' \in (IF kind[1] \in {"CanonicalTransaction", "InnerReceipt"}
                    THEN {<<>>} ELSE Followers)
    /\ bytes' = Written(<<>>) \o suffix'
    /\ fate' = "whole"
    /\ UNCHANGED <<form, kind, value, result>>

WriteMessage ==
    /\ form = "message" /\ fate = "held"
    /\ bytes' = EncodeMessage(kind[2], value)
    /\ fate' = "whole"
    /\ UNCHANGED <<form, kind, value, suffix, result>>

WritePacket ==
    /\ form = "packet" /\ fate = "held"
    /\ bytes' = EncodePacket("node", kind[2], value)
    /\ fate' = "whole"
    /\ UNCHANGED <<form, kind, value, suffix, result>>

\* Signs and hands the canonical bytes over; the signature goes with them.
WriteSigned ==
    /\ form = "signed" /\ fate = "held"
    /\ \E parity \in BOOLEAN, chain \in Chains :
         \E by \in {sign_inplace(kind[2], value, "proposer", parity)} \cup
                    (IF kind[2] = "Legacy" THEN {WalletSigned(value, "wallet", parity, chain)}
                     ELSE {}) :
             /\ bytes' = encode_canonical(by.tx)
             /\ suffix' = by.signature
    /\ fate' = "whole"
    /\ UNCHANGED <<form, kind, value, result>>

\* The type may be missing where the object says enough without it.
WriteJson ==
    /\ form = "json" /\ fate = "held"
    /\ \E checked \in BOOLEAN,
          untyped \in {{}} \cup (IF kind[2] \in {"EIP1559", "Privileged"} THEN {{"type"}} ELSE {}) :
         LET written == Serialize(kind[2], value, checked)
         IN IF written.ok
            THEN /\ bytes' = [key \in DOMAIN written.value \ untyped |-> written.value[key]]
                 /\ fate' = "whole"
            ELSE bytes' = bytes /\ fate' = "panicked"
    /\ UNCHANGED <<form, kind, value, suffix, result>>

WriteSlim ==
    /\ form = "slim" /\ fate = "held"
    /\ bytes' = Enc(Struct("AccountStateSlim"), SlimFromState(value))
    /\ fate' = "whole"
    /\ UNCHANGED <<form, kind, value, suffix, result>>

\* A stream or a file ends early.
Truncate ==
    /\ fate = "whole" /\ form \in {"item", "message"} /\ suffix = <<>>
    /\ \E n \in {0, 1, 2, Len(bytes) \div 2, Len(bytes) - 1} :
         n < Len(bytes) /\ bytes' = SubSeq(bytes, 1, n)
    /\ fate' = "cut"
    /\ UNCHANGED <<form, kind, value, suffix, result>>

\* A byte of a packet changes on the way.
Corrupt ==
    /\ fate = "whole" /\ form = "packet"
    /\ \E i \in {1, 2, Len(bytes.body)} :
         bytes' = [bytes EXCEPT !.body[i] = (@ + 1) % 256]
    /\ fate' = "cut"
    /\ UNCHANGED <<form, kind, value, suffix, result>>

\* Every optional field is there, so an extra one cannot pass for it.
AddField ==
    /\ fate = "held" /\ kind[1] = "struct"
    /\ form \in {"item", "message", "packet"}
    /\ ~Mismatched(kind, value)
    /\ \A f \in DOMAIN value :
         f \in {"enr_seq", "withdrawals", "parent_beacon_block_root"} => value[f] # <<>>
    /\ fate' = "extended"
    /\ LET Carried(written) ==
               CASE form = "item" -> written
                 [] form = "packet" -> Sealed("node", <<packet_type[kind[2]]>> \o written)
                 [] form = "message" -> Frame(kind[2], written)
       IN bytes' = Carried(Written(<<5>>))
    /\ UNCHANGED <<form, kind, value, suffix, result>>

Read ==
    /\ fate \in {"whole", "cut", "extended"}
    /\ \E checked \in BOOLEAN :
         result' = (CASE form = "item" -> Dec(kind, bytes)
                      [] form = "message" -> DecodeMessage(bytes)
                      [] form = "packet" -> DecodePacket(bytes)
                      [] form = "json" -> Deserialize(bytes)
                      [] form = "slim" ->
                           As(Dec(Struct("AccountStateSlim"), bytes), StateFromSlim)
                      [] form = "signed" ->
                           LET d == Dec(<<"CanonicalTransaction">>, bytes)
                           IN IF d.ok THEN sender(d.value[1], d.value[2], suffix, checked)
                              ELSE Failed)
    /\ fate' = (CASE fate = "whole" -> "readWhole" [] fate = "cut" -> "readCut"
                  [] fate = "extended" -> "readExtended")
    /\ UNCHANGED <<form, kind, value, bytes, suffix>>

CodecNext ==
    \/ WriteItem \/ WriteMessage \/ WritePacket \/ WriteSigned \/ WriteJson
    \/ WriteSlim
    \/ Truncate \/ Corrupt \/ AddField \/ Read

CodecSpec == CodecInit /\ [][CodecNext]_codecVars

-----------------------------------------------------------------------------
\* What the reader of an unharmed value should get.
Expected ==
    CASE form \in {"item", "slim"} -> Done(value, suffix)
      [] form = "message" -> Done(<<kind[2], value>>, <<>>)
      [] form = "packet" -> Done(<<kind[2], "node", value>>, <<>>)
      [] form = "signed" -> Done(suffix[2], <<>>)
      [] form = "json" -> Done(<<kind[2], value>>, <<>>)

\* What is written is read back: the same value, from the same bytes, up to
\* where the value ends; a message or packet as the message it was; a signed
\* transaction with its signer as the sender.
RoundTrip ==
    fate = "readWhole" /\ ~Mismatched(kind, value) => result = Expected

\* No reader takes a value out of part of its bytes, or out of a packet that
\* was altered (the hash and length checks of the decoders).
DamagedRejected == fate = "readCut" => ~result.ok

\* A field more than the reader knows is ignored in discovery packets and in
\* the hello and status messages ("Implementations must ignore any additional
\* list elements"), and refused in what is hashed or stored.
ExtraFieldHandled ==
    fate = "readExtended" =>
        /\ form = "packet" \/ kind[2] \in {"Hello", "Status"} => result = Expected
        /\ form = "item" /\ kind[2] \in TxTypes \cup {
               "BlockHeader", "BlockBody", "Block", "Withdrawal", "Log", "AccountState"}
             => ~result.ok

\* The object a client gets for a transaction, sent back for a gas estimation,
\* is the generic transaction the node itself makes of it.
GenericAgrees ==
    fate = "readWhole" /\ form = "json" /\ kind[2] \in {"EIP1559", "EIP4844", "Privileged"} =>
        LET g == FromJsonGeneric(bytes)
        IN g.ok /\ ("type" \in DOMAIN bytes => g.value = GenericFrom(kind[2], value))

\* A legacy transaction as a wallet signs it is shown with the chain it was
\* signed for, 0 for none (chainId of its JSON object).
ChainShown ==
    form = "json" /\ kind = Struct("Legacy") /\ fate # "held" =>
        \A parity \in BOOLEAN, chain \in Chains :
            value.v = WalletSigned(value, "wallet", parity, chain).tx[2].v =>
                fate # "panicked" /\ bytes["chainId"] = <<"hex", BigEndian(chain)>>

\* Every reader takes what its writer wrote, and only that.
CodecSound == RoundTrip /\ DamagedRejected /\ ExtraFieldHandled /\ GenericAgrees /\ ChainShown

\* Refuted: RoundTrip without its exception.  A mempool entry is written
\* without the sender its reader expects, a disconnect without a reason is read
\* as one with the reason 0xc0, three of the JSON readers cannot take the
\* access list objects that the writers produce, and sign_inplace leaves a
\* legacy transaction with the v 0 or 1, which sender() takes for the v of a
\* chain.
RoundTripAlways == fate = "readWhole" => result = Expected

\* Refuted: a decoded legacy transaction can be shown, and its sender
\* recovered, whatever its v.
NeverPanics == fate # "panicked" /\ result # Panicked
=============================================================================
