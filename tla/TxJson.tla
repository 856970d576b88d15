------------------------------- MODULE TxJson -------------------------------
(***************************************************************************)
(* Transactions as the JSON objects of the RPC interface: the serde_impl   *)
(* part of crates/common/types/transaction.rs.  An object is a function    *)
(* from keys to tagged values.  A Serialize impl is a sequence of          *)
(* <<key, field, format>>, a Deserialize impl one of <<field, key, reader>>.*)
(***************************************************************************)
EXTENDS ChainCodec, TLC

SerializeLegacy == <<
    <<"nonce", "nonce", "hex">>, <<"to", "to", "to">>, <<"gas", "gas", "hex">>,
    <<"value", "value", "hex">>, <<"input", "data", "bytes">>,
    <<"gasPrice", "gas_price", "hex">>, <<"chainId", "chain_id", "hex">>,
    <<"v", "v", "hex">>, <<"r", "r", "hex">>, <<"s", "s", "hex">> >>

SerializeEIP2930 == <<
    <<"nonce", "nonce", "hex">>, <<"to", "to", "to">>, <<"gas", "gas_limit", "hex">>,
    <<"value", "value", "hex">>, <<"input", "data", "bytes">>,
    <<"gasPrice", "gas_price", "hex">>, <<"accessList", "access_list", "entries">>,
    <<"chainId", "chain_id", "hex">>, <<"yParity", "signature_y_parity", "parity">>,
    <<"v", "signature_y_parity", "parity">>, <<"r", "signature_r", "hex">>,
    <<"s", "signature_s", "hex">> >>

SerializeEIP1559 == <<
    <<"nonce", "nonce", "hex">>, <<"to", "to", "to">>, <<"gas", "gas_limit", "hex">>,
    <<"value", "value", "hex">>, <<"input", "data", "bytes">>,
    <<"maxPriorityFeePerGas", "max_priority_fee_per_gas", "hex">>,
    <<"maxFeePerGas", "max_fee_per_gas", "hex">>, <<"gasPrice", "max_fee_per_gas", "hex">>,
    <<"accessList", "access_list", "entries">>, <<"chainId", "chain_id", "hex">>,
    <<"yParity", "signature_y_parity", "parity">>, <<"v", "signature_y_parity", "parity">>,
    <<"r", "signature_r", "hex">>, <<"s", "signature_s", "hex">> >>

SerializeEIP4844 == <<
    <<"nonce", "nonce", "hex">>, <<"to", "to", "address">>, <<"gas", "gas", "hex">>,
    <<"value", "value", "hex">>, <<"input", "data", "bytes">>,
    <<"maxPriorityFeePerGas", "max_priority_fee_per_gas", "hex">>,
    <<"maxFeePerGas", "max_fee_per_gas", "hex">>, <<"gasPrice", "max_fee_per_gas", "hex">>,
    <<"maxFeePerBlobGas", "max_fee_per_blob_gas", "hex">>,
    <<"accessList", "access_list", "entries">>,
    <<"blobVersionedHashes", "blob_versioned_hashes", "hashes">>,
    <<"chainId", "chain_id", "hex">>, <<"yParity", "signature_y_parity", "parity">>,
    <<"v", "signature_y_parity", "parity">>, <<"r", "signature_r", "hex">>,
    <<"s", "signature_s", "hex">> >>

SerializePrivileged == <<
    <<"nonce", "nonce", "hex">>, <<"to", "to", "to">>, <<"gas", "gas_limit", "hex">>,
    <<"value", "value", "hex">>, <<"input", "data", "bytes">>,
    <<"maxPriorityFeePerGas", "max_priority_fee_per_gas", "hex">>,
    <<"maxFeePerGas", "max_fee_per_gas", "hex">>, <<"gasPrice", "max_fee_per_gas", "hex">>,
    <<"accessList", "access_list", "entries">>, <<"chainId", "chain_id", "hex">>,
    <<"yParity", "signature_y_parity", "parity">>, <<"v", "signature_y_parity", "parity">>,
    <<"r", "signature_r", "hex">>, <<"s", "signature_s", "hex">>,
    <<"tx_type", "tx_type", "name">> >>

DeserializeLegacy == <<
    <<"nonce", "nonce", "hex">>, <<"to", "to", "to">>, <<"value", "value", "hex">>,
    <<"data", "input", "bytes">>, <<"r", "r", "hex">>, <<"s", "s", "hex">>,
    <<"gas_price", "gasPrice", "hex">>, <<"gas", "gas", "hex">>, <<"v", "v", "hex">> >>

DeserializeEIP2930 == <<
    <<"nonce", "nonce", "hex">>, <<"to", "to", "to">>, <<"value", "value", "hex">>,
    <<"data", "input", "bytes">>, <<"signature_r", "r", "hex">>,
    <<"signature_s", "s", "hex">>, <<"chain_id", "chainId", "hex">>,
    <<"gas_price", "gasPrice", "hex">>, <<"gas_limit", "gas", "hex">>,
    <<"access_list", "accessList", "pairs">>, <<"signature_y_parity", "yParity", "parity">> >>

DeserializeEIP1559 == <<
    <<"nonce", "nonce", "hex">>, <<"to", "to", "to">>, <<"value", "value", "hex">>,
    <<"data", "input", "bytes">>, <<"signature_r", "r", "hex">>,
    <<"signature_s", "s", "hex">>, <<"chain_id", "chainId", "hex">>,
    <<"max_priority_fee_per_gas", "maxPriorityFeePerGas", "hex">>,
    <<"max_fee_per_gas", "maxFeePerGas", "hex">>, <<"gas_limit", "gas", "hex">>,
    <<"access_list", "accessList", "pairs">>, <<"signature_y_parity", "yParity", "parity">> >>

DeserializeEIP4844 == <<
    <<"chain_id", "chainId", "hex">>, <<"nonce", "nonce", "hex">>,
    <<"max_priority_fee_per_gas", "maxPriorityFeePerGas", "hex">>,
    <<"max_fee_per_gas", "maxFeePerGas", "hex">>, <<"gas", "gas", "hex">>,
    <<"to", "to", "address">>, <<"value", "value", "hex">>, <<"data", "input", "bytes">>,
    <<"access_list", "accessList", "entries">>,
    <<"max_fee_per_blob_gas", "maxFeePerBlobGas", "hex">>,
    <<"blob_versioned_hashes", "blobVersionedHashes", "hashes">>,
    <<"signature_y_parity", "yParity", "parity">>, <<"signature_r", "r", "hex">>,
    <<"signature_s", "s", "hex">> >>

DeserializePrivileged == <<
    <<"nonce", "nonce", "hex">>, <<"to", "to", "to">>, <<"value", "value", "hex">>,
    <<"data", "input", "bytes">>, <<"signature_r", "r", "hex">>,
    <<"signature_s", "s", "hex">>, <<"chain_id", "chainId", "hex">>,
    <<"max_priority_fee_per_gas", "maxPriorityFeePerGas", "hex">>,
    <<"max_fee_per_gas", "maxFeePerGas", "hex">>, <<"gas_limit", "gas", "hex">>,
    <<"access_list", "accessList", "pairs">>, <<"signature_y_parity", "yParity", "parity">>,
    <<"tx_type", "tx_type", "name">> >>

\* GenericTransaction derives its Deserialize; every field but "to" has a default.
DeserializeGeneric == <<
    <<"type", "type", "name">>, <<"nonce", "nonce", "hex">>, <<"to", "to", "to">>,
    <<"gas", "gas", "hex">>, <<"value", "value", "hex">>, <<"input", "input", "bytes">>,
    <<"gas_price", "gasPrice", "hex">>,
    <<"max_priority_fee_per_gas", "maxPriorityFeePerGas", "hex">>,
    <<"max_fee_per_gas", "maxFeePerGas", "hex">>,
    <<"max_fee_per_blob_gas", "maxFeePerBlobGas", "hex">>,
    <<"access_list", "accessList", "entries">>,
    <<"blob_versioned_hashes", "blobVersionedHashes", "hashes">>,
    <<"chain_id", "chainId", "hex">> >>

-----------------------------------------------------------------------------
SerializeTable == [
    Legacy |-> SerializeLegacy, EIP2930 |-> SerializeEIP2930,
    EIP1559 |-> SerializeEIP1559, EIP4844 |-> SerializeEIP4844,
    Privileged |-> SerializePrivileged]

DeserializeTable == [
    Legacy |-> DeserializeLegacy, EIP2930 |-> DeserializeEIP2930,
    EIP1559 |-> DeserializeEIP1559, EIP4844 |-> DeserializeEIP4844,
    Privileged |-> DeserializePrivileged]

\* The JSON value of a field.  An access list is written as objects with the
\* keys address and storageKeys.
ToJson(format, v) ==
    CASE format = "parity" -> <<"hex", IF v THEN <<1>> ELSE <<>>>>
      [] format = "to" -> IF v = <<>> THEN <<"null">> ELSE <<"address", v[1]>>
      [] format = "entries" -> <<"array", [i \in DOMAIN v |-> <<"object", v[i]>>]>>
      [] OTHER -> <<format, v>>

\* Tuples are read from arrays only; a derived struct takes both.
FromJson(reader, j) ==
    CASE reader = "parity" ->
           IF j[1] = "hex" THEN Done(j[2] # <<>>, <<>>) ELSE Failed
      [] reader = "to" ->
           (CASE j[1] = "null" -> Done(<<>>, <<>>)
              [] j[1] = "address" -> Done(<<j[2]>>, <<>>)
              [] OTHER -> Failed)
      [] reader \in {"pairs", "entries"} ->
           IF j[1] # "array" THEN Failed
           ELSE IF \A i \in DOMAIN j[2] :
                     j[2][i][1] = "pair" \/ (j[2][i][1] = "object" /\ reader = "entries")
                THEN Done([i \in DOMAIN j[2] |-> j[2][i][2]], <<>>) ELSE Failed
      [] OTHER -> IF j[1] = reader THEN Done(j[2], <<>>) ELSE Failed

\* The thread panics and returns nothing.
Panicked == [ok |-> FALSE, panicked |-> TRUE]

\* The chain a legacy v was made for, if any.  as_u64 panics above eight bytes;
\* below 35 the subtraction panics in a build with overflow checks (dev) and
\* wraps around 2^64 in one without (release).
derive_legacy_chain_id(v, checked) ==
    LET wrapped == <<127, 255, 255, 255, 255, 255, 255, 256 - ((36 - Number(v)) \div 2)>>
    IN CASE Len(v) > 8 -> Panicked
         [] v \in {<<27>>, <<28>>} -> Done(<<>>, <<>>)
         [] Number(v) < 35 -> IF checked THEN Panicked ELSE Done(<<wrapped>>, <<>>)
         [] OTHER -> Done(<<BigEndian((Number(v) - 35) \div 2)>>, <<>>)

\* A legacy transaction has no chain_id of its own: the object shows the one
\* of its v, or 0.
Serialize(type, tx, checked) ==
    LET table == SerializeTable[type]
        At(key) == table[CHOOSE i \in DOMAIN table : table[i][1] = key]
        chain == IF type = "Legacy" THEN derive_legacy_chain_id(tx.v, checked)
                 ELSE Done(<<tx.chain_id>>, <<>>)
        shown == ("chain_id" :> IF chain.value = <<>> THEN <<>> ELSE chain.value[1]) @@ tx
        keys == {table[i][1] : i \in DOMAIN table}
    IN IF ~chain.ok THEN Panicked
       ELSE Done(("type" :> <<"name", type>>) @@
                 [key \in keys |-> ToJson(At(key)[3], shown[At(key)[2]])], <<>>)

\* The entry of a table, read from an object; an absent key gives `missing`.
ReadMember(entry, object, missing) ==
    IF entry[2] \in DOMAIN object THEN FromJson(entry[3], object[entry[2]]) ELSE missing

FromObject(table, object, Missing(_)) ==
    LET At(field) == table[CHOOSE i \in DOMAIN table : table[i][1] = field]
        fields == {table[i][1] : i \in DOMAIN table}
        read == [f \in fields |-> ReadMember(At(f), object, Missing(f))]
    IN IF \A f \in fields : read[f].ok
       THEN Done([f \in fields |-> read[f].value], <<>>) ELSE Failed

\* Without a type the object is taken for a privileged transaction if it has
\* a tx_type, and for an EIP-1559 one otherwise.
Deserialize(object) ==
    LET type == IF "type" \in DOMAIN object THEN object["type"][2]
                ELSE IF "tx_type" \in DOMAIN object THEN "Privileged" ELSE "EIP1559"
        MissingField(f) == Failed
        d == FromObject(DeserializeTable[type], object, MissingField)
    IN IF d.ok THEN Done(<<type, d.value>>, <<>>) ELSE Failed

\* Absent numbers and lists are None or empty; the type defaults to legacy.
FromJsonGeneric(object) ==
    LET Default(f) == IF f = "to" THEN Failed
                      ELSE Done(IF f = "type" THEN "Legacy" ELSE <<>>, <<>>)
    IN FromObject(DeserializeGeneric, object, Default)

\* From<EIP1559Transaction>, From<EIP4844Transaction> and
\* From<PrivilegedL2Transaction> for GenericTransaction.
GenericFrom(type, tx) ==
    [type |-> type, nonce |-> tx.nonce,
     to |-> IF type = "EIP4844" THEN <<tx.to>> ELSE tx.to,
     gas |-> IF type = "EIP4844" THEN tx.gas ELSE tx.gas_limit,
     value |-> tx.value, input |-> tx.data, gas_price |-> tx.max_fee_per_gas,
     max_priority_fee_per_gas |-> tx.max_priority_fee_per_gas,
     max_fee_per_gas |-> tx.max_fee_per_gas,
     max_fee_per_blob_gas |-> IF type = "EIP4844" THEN tx.max_fee_per_blob_gas ELSE <<>>,
     access_list |-> tx.access_list,
     blob_versioned_hashes |-> IF type = "EIP4844" THEN tx.blob_versioned_hashes ELSE <<>>,
     chain_id |-> tx.chain_id]
=============================================================================
