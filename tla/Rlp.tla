-------------------------------- MODULE Rlp --------------------------------
(***************************************************************************)
(* The RLP byte format of crates/common/rlp: encode.rs, decode.rs.         *)
(* A buffer is a sequence of numbers in 0..255.  An unsigned integer is    *)
(* the sequence of its significant big-endian bytes, so 0 is <<>> and      *)
(* integers of 32 bytes are values like any other.                         *)
(* A decoder returns Failed, or the value and the bytes left behind it.    *)
(***************************************************************************)
EXTENDS Naturals, Sequences

RLP_NULL == 128
RLP_EMPTY_LIST == 192

Failed == [ok |-> FALSE]
Done(v, rest) == [ok |-> TRUE, value |-> v, rest |-> rest]
From(data, i) == SubSeq(data, i, Len(data))

RECURSIVE BigEndian(_)
BigEndian(n) == IF n = 0 THEN <<>> ELSE Append(BigEndian(n \div 256), n % 256)

RECURSIVE Number(_)
Number(b) == IF b = <<>> THEN 0
             ELSE 256 * Number(SubSeq(b, 1, Len(b) - 1)) + b[Len(b)]

-----------------------------------------------------------------------------
(* Encoders. *)

\* Mutant: one length too many takes the short form.
EncodeLengthShort(base, length) ==
    IF length <= 56
    THEN <<base + length>>
    ELSE <<base + 55 + Len(BigEndian(length))>> \o BigEndian(length)

\* The prefix of a string (base 0x80) or list (base 0xc0) of the given length.
encode_length(base, length) ==
    IF length < 56
    THEN <<base + length>>
    ELSE <<base + 55 + Len(BigEndian(length))>> \o BigEndian(length)

EncodeBytes(b) ==
    IF Len(b) = 1 /\ b[1] < RLP_NULL THEN b
    ELSE encode_length(RLP_NULL, Len(b)) \o b

\* u8 .. u128 and U256: zero is the empty string.
EncodeUint(n) == IF n = <<>> THEN <<RLP_NULL>> ELSE EncodeBytes(n)

EncodeBool(b) == IF b THEN <<1>> ELSE <<RLP_NULL>>

\* Vec<T>, tuples and the struct Encoder: the concatenated fields in a list.
EncodeList(payload) == encode_length(RLP_EMPTY_LIST, Len(payload)) \o payload

-----------------------------------------------------------------------------
(* Decoders. *)

\* Left-padding to n bytes refuses a leading zero and more than n bytes.
static_left_pad(n, data) ==
    IF data # <<>> /\ (data[1] = 0 \/ Len(data) > n) THEN Failed
    ELSE Done(data, <<>>)

\* An item whose payload of the given length follows extra bytes of length.
ItemOf(data, list, extra, length) ==
    IF Len(data) < 1 + extra + length THEN Failed
    ELSE [ok |-> TRUE, list |-> list,
          payload |-> SubSeq(data, 2 + extra, 1 + extra + length),
          item |-> SubSeq(data, 1, 1 + extra + length),
          rest |-> From(data, 2 + extra + length)]

\* The length is in the bytes behind the first one, without leading zeros.  One
\* of more than three bytes is beyond every buffer of the model.
LongItem(data, list, extra) ==
    IF Len(data) < 1 + extra \/ ~static_left_pad(8, SubSeq(data, 2, 1 + extra)).ok THEN Failed
    ELSE ItemOf(data, list, extra,
                IF extra > 3 THEN 2 ^ 24 ELSE Number(SubSeq(data, 2, 1 + extra)))

\* The item at the head of data: its payload, all its bytes, and what follows.
decode_rlp_item(data) ==
    IF data = <<>> THEN Failed
    ELSE CASE data[1] < RLP_NULL ->
                [ok |-> TRUE, list |-> FALSE, payload |-> <<data[1]>>,
                 item |-> <<data[1]>>, rest |-> From(data, 2)]
           [] data[1] \in 128 .. 183 -> ItemOf(data, FALSE, 0, data[1] - RLP_NULL)
           [] data[1] \in 184 .. 191 -> LongItem(data, FALSE, data[1] - 183)
           [] data[1] \in 192 .. 247 -> ItemOf(data, TRUE, 0, data[1] - RLP_EMPTY_LIST)
           [] OTHER -> LongItem(data, TRUE, data[1] - 247)

get_item_with_prefix(data) ==
    LET Prefixed(it) == IF it.ok THEN Done(it.item, it.rest) ELSE Failed
    IN Prefixed(decode_rlp_item(data))

decode_bytes(data) ==
    LET String(it) == IF it.ok /\ ~it.list THEN Done(it.payload, it.rest) ELSE Failed
    IN String(decode_rlp_item(data))

\* u16 .. u128 and U256 of n bytes.
DecodeUint(n, data) ==
    LET Padded(b) == IF b.ok /\ static_left_pad(n, b.value).ok THEN b ELSE Failed
    IN Padded(decode_bytes(data))

\* u8 has its own reader: it takes a 0x00 byte and any byte after 0x81.
DecodeU8(data) ==
    IF data = <<>> THEN Failed
    ELSE IF data[1] \in {0, RLP_NULL} THEN Done(<<>>, From(data, 2))
    ELSE IF data[1] < RLP_NULL THEN Done(<<data[1]>>, From(data, 2))
    ELSE IF data[1] = RLP_NULL + 1 /\ Len(data) >= 2
         THEN Done(IF data[2] = 0 THEN <<>> ELSE <<data[2]>>, From(data, 3))
    ELSE Failed

DecodeBool(data) ==
    IF data # <<>> /\ data[1] \in {1, RLP_NULL}
    THEN Done(data[1] = 1, From(data, 2))
    ELSE Failed

\* A string of one of the given lengths.
OfLength(b, lengths) == IF b.ok /\ Len(b.value) \in lengths THEN b ELSE Failed

\* [u8; N] and the H32 .. H520, Address, Bloom wrappers around it.
DecodeArray(n, data) == OfLength(decode_bytes(data), {n})

DecodeIpAddr(data) == OfLength(decode_bytes(data), {4, 16})

\* Typed transactions and receipts are strings; only long ones are recognised.
is_encoded_as_bytes(data) == data # <<>> /\ data[1] \in 184 .. 191

get_rlp_bytes_item_payload(data) == From(data, data[1] - 184 + 3)
=============================================================================
