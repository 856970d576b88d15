------------------------------ MODULE StateDiff -------------------------------
(***************************************************************************)
(* What the committer publishes of a block in a blob: the accounts the     *)
(* block changed, as get_state_transitions reports them, turned into a     *)
(* StateDiff and encoded.  There is no decoder in the code; the one here   *)
(* is the reference, written from the format crates/l2/docs/state_diffs.md *)
(* describes, and it applies what it reads to the state before the block.  *)
(*                                                                         *)
(* The encoding is a sequence of fields with their widths.  A reader that  *)
(* meets a field of another width is out of step; behind the last field    *)
(* the blob is all zeros.                                                  *)
(***************************************************************************)
EXTENDS Integers, Sequences, FiniteSets, SequencesExt

CONSTANTS
    Addresses,
    Slots,        \* storage keys
    Codes,        \* bytecodes, sequences of bytes
    MaxNonce,     \* bound on nonces
    MaxBalance,   \* bound on balances
    MaxLogs,      \* bound on the withdrawals and deposits of a block
    BlobFields,   \* fields that fit into a blob
    NoInfo

ASSUME StateDiffAssumption ==
    /\ MaxNonce \in Nat /\ MaxBalance \in Nat /\ MaxLogs \in Nat /\ BlobFields \in Nat
    /\ <<>> \notin Codes

VARIABLES
    prev,     \* state before the block: address -> account
    post,     \* state after it
    logs,     \* withdrawals and deposits of the block: addresses they are for
    stage,       \* step of the committer or of the reader
    updates,  \* get_state_transitions: modified account -> update
    encoded,  \* StateDiff::encode: fields written
    left,     \* StateDiff::encode: modified accounts not yet written
    reader    \* fields and entries read, the state rebuilt and the logs found

diffVars == <<prev, post, logs, stage, updates, encoded, left, reader>>

SlotValues == {0, 1}
Accounts == [nonce : 0 .. MaxNonce, balance : 0 .. MaxBalance, code : Codes \cup {<<>>},
             storage : [Slots -> SlotValues]]
Empty == [nonce |-> 0, balance |-> 0, code |-> <<>>, storage |-> [s \in Slots |-> 0]]

\* Only contracts have storage, and their nonce starts at 1
Wellformed(a) ==
    /\ a.code = <<>> => a.storage = Empty.storage
    /\ a.code # <<>> => a.nonce > 0

\* What executing a block can make of an account: its nonce grows, its code stays, unless
\* it is a contract and is destroyed
Evolves(a, b) ==
    \/ b = Empty /\ a.code # <<>>
    \/ /\ b.nonce >= a.nonce
       /\ a.code # <<>> => b.code = a.code
       /\ b.code # a.code => a = [Empty EXCEPT !.balance = a.balance]

DiffInit ==
    /\ prev \in [Addresses -> {a \in Accounts : Wellformed(a)}]
    /\ post \in {p \in [Addresses -> {a \in Accounts : Wellformed(a)}] :
                    \A x \in Addresses : Evolves(prev[x], p[x])}
    /\ logs \in [withdrawals : BoundedSeq(Addresses, MaxLogs), deposits : BoundedSeq(Addresses, MaxLogs)]
    /\ stage = "transitions"
    /\ updates = <<>>
    /\ encoded = <<>>
    /\ left = {}
    /\ reader = [pos |-> 0, entries |-> 0, state |-> prev, withdrawals |-> <<>>, deposits |-> <<>>]

----------------------------------------------------------------------------
(* The committer *)

Info(a) == [nonce |-> a.nonce, balance |-> a.balance]

\* is_info_changed compares nonce, balance and code hash; a destroyed account has no info
UpdateOf(a, b) ==
    [info |-> IF b = Empty \/ (Info(a) = Info(b) /\ a.code = b.code) THEN NoInfo ELSE Info(b),
     code |-> IF b.code # a.code THEN b.code ELSE <<>>,
     storage |-> {s \in Slots : b # Empty /\ b.storage[s] # a.storage[s]}]

GetStateTransitions ==
    /\ stage = "transitions"
    /\ updates' = [x \in {y \in Addresses : prev[y] # post[y]} |-> UpdateOf(prev[x], post[x])]
    /\ stage' = "prepare"
    /\ UNCHANGED <<prev, post, logs, encoded, left, reader>>

Field(width, value) == [width |-> width, value |-> value]

\* prepare_state_diff, where an update without info is an error, and the first two fields
PrepareStateDiff ==
    /\ stage = "prepare"
    /\ IF \E x \in DOMAIN updates : updates[x].info = NoInfo
       THEN stage' = "failed" /\ UNCHANGED <<encoded, left>>
       ELSE /\ stage' = "encode"
            /\ encoded' = <<Field("u8", 1), Field("u16", Cardinality(DOMAIN updates))>>
            /\ left' = DOMAIN updates
    /\ UNCHANGED <<prev, post, logs, updates, reader>>

When(b, s) == IF b THEN s ELSE <<>>

\* Faulty variant: the nonce itself and not its increase
NonceDiffAbsolute(x) == updates[x].info.nonce

NonceDiff(x) == updates[x].info.nonce - prev[x].nonce

\* The length written before the code is the one of the storage
BytecodeLen(u) == Cardinality(u.storage)

\* AccountStateDiff::encode; there always is a new balance and never a bytecode hash
EncodeAccount(x) ==
    LET u == updates[x]
        slots == SetToSeq(u.storage)
        type == 1 + (IF NonceDiff(x) # 0 THEN 2 ELSE 0) + (IF slots # <<>> THEN 4 ELSE 0)
                  + (IF u.code # <<>> THEN 8 ELSE 0)
    IN  <<Field("u8", type), Field("u160", x), Field("u256", u.info.balance)>>
          \o When(NonceDiff(x) # 0, <<Field("u16", NonceDiff(x))>>)
          \o When(slots # <<>>,
                  <<Field("u16", Len(slots))>>
                    \o FlattenSeq([i \in DOMAIN slots |->
                           <<Field("u256", slots[i]), Field("u256", post[x].storage[slots[i]])>>]))
          \o When(u.code # <<>>,
                  <<Field("u16", BytecodeLen(u))>>
                    \o [i \in DOMAIN u.code |-> Field("byte", u.code[i])])

\* The accounts come out of a hash map, in any order
EncodeNext ==
    /\ stage = "encode"
    /\ \E x \in left :
          /\ encoded' = encoded \o EncodeAccount(x)
          /\ left' = left \ {x}
    /\ UNCHANGED <<prev, post, logs, stage, updates, reader>>

EncodeLogs ==
    FlattenSeq([i \in DOMAIN logs.withdrawals |->
                  <<Field("u160", logs.withdrawals[i]), Field("u256", 1), Field("u256", i)>>])
      \o FlattenSeq([i \in DOMAIN logs.deposits |->
                        <<Field("u160", logs.deposits[i]), Field("u256", 1)>>])

\* The logs, and blob_from_bytes, which fails when the fields do not fit
GenerateBlob ==
    /\ stage = "encode"
    /\ left = {}
    /\ encoded' = encoded \o EncodeLogs
    /\ stage' = IF Len(encoded') <= BlobFields THEN "read" ELSE "failed"
    /\ UNCHANGED <<prev, post, logs, updates, left, reader>>

----------------------------------------------------------------------------
(* A reader of the documented format *)

\* The widths the fields behind position p should have
InStep(p, widths) ==
    \A i \in DOMAIN widths : p + i <= Len(encoded) => encoded[p + i].width = widths[i]

ValueAt(p) == IF p <= Len(encoded) THEN encoded[p].value ELSE 0

\* A number of 16 bits at position p, if the reader is in step
NumberAt(p) == IF InStep(p - 1, <<"u16">>) THEN ValueAt(p) ELSE 0

ReadHeader ==
    /\ stage = "read"
    /\ reader' = [reader EXCEPT !.pos = 2, !.entries = ValueAt(2)]
    /\ stage' = "accounts"
    /\ UNCHANGED <<prev, post, logs, updates, encoded, left>>

Repeat(widths, n) == FlattenSeq([i \in 1 .. n |-> widths])

ReadEntry ==
    /\ stage = "accounts"
    /\ reader.entries > 0
    /\ LET p == reader.pos
           known == InStep(p, <<"u8", "u160">>) /\ p + 2 <= Len(encoded)
           type == IF known THEN ValueAt(p + 1) ELSE 0
           x == ValueAt(p + 2)
           Bit(k) == (type \div 2 ^ k) % 2 = 1
           nonceAt == p + 3 + (IF Bit(0) THEN 1 ELSE 0)
           slotsAt == nonceAt + (IF Bit(1) THEN 1 ELSE 0)
           slots == IF Bit(2) THEN NumberAt(slotsAt) ELSE 0
           codeAt == slotsAt + (IF Bit(2) THEN 1 + 2 * slots ELSE 0)
           code == IF Bit(3) THEN NumberAt(codeAt) ELSE 0
           widths == <<"u8", "u160">> \o When(Bit(0), <<"u256">>) \o When(Bit(1), <<"u16">>)
                       \o When(Bit(2), <<"u16">> \o Repeat(<<"u256">>, 2 * slots))
                       \o When(Bit(3), <<"u16">> \o Repeat(<<"byte">>, code))
           old == reader.state[x]
           written == {ValueAt(slotsAt + 2 * i - 1) : i \in 1 .. slots}
           At(s) == CHOOSE i \in 1 .. slots : ValueAt(slotsAt + 2 * i - 1) = s
       IN  IF known /\ InStep(p, widths)
           THEN /\ reader' = [reader EXCEPT
                     !.pos = p + Len(widths), !.entries = @ - 1,
                     !.state[x] = [nonce |-> old.nonce + (IF Bit(1) THEN ValueAt(nonceAt) ELSE 0),
                                   balance |-> IF Bit(0) THEN ValueAt(p + 3) ELSE old.balance,
                                   code |-> IF Bit(3) THEN [i \in 1 .. code |-> ValueAt(codeAt + i)]
                                                      ELSE old.code,
                                   storage |-> [s \in Slots |->
                                       IF s \in written THEN ValueAt(slotsAt + 2 * At(s))
                                                        ELSE old.storage[s]]]]
                /\ UNCHANGED stage
           ELSE stage' = "lost" /\ UNCHANGED reader
    /\ UNCHANGED <<prev, post, logs, updates, encoded, left>>

ReadLogs ==
    /\ stage = "accounts"
    /\ reader.entries = 0
    /\ LET p == reader.pos
           w == NumberAt(p + 1)
           d == NumberAt(p + 2 + 3 * w)
       IN  IF InStep(p, <<"u16">> \o Repeat(<<"u160", "u256", "u256">>, w)
                          \o <<"u16">> \o Repeat(<<"u160", "u256">>, d))
           THEN /\ reader' = [reader EXCEPT
                     !.withdrawals = [i \in 1 .. w |-> ValueAt(p + 3 * i - 1)],
                     !.deposits = [i \in 1 .. d |-> ValueAt(p + 3 * w + 2 * i + 1)]]
                /\ stage' = "done"
           ELSE stage' = "lost" /\ UNCHANGED reader
    /\ UNCHANGED <<prev, post, logs, updates, encoded, left>>

DiffNext ==
    \/ GetStateTransitions \/ PrepareStateDiff \/ EncodeNext \/ GenerateBlob
    \/ ReadHeader \/ ReadEntry \/ ReadLogs

DiffSpec == DiffInit /\ [][DiffNext]_diffVars

----------------------------------------------------------------------------
(* Properties *)

NoLogs == logs.withdrawals = <<>> /\ logs.deposits = <<>>
NoNewCode == \A x \in DOMAIN updates : updates[x].code = <<>>

\* The reader has rebuilt the state after the block and found its logs
Rebuilt ==
    /\ stage # "lost"
    /\ stage = "done" => /\ reader.state = post
                      /\ reader.withdrawals = logs.withdrawals
                      /\ reader.deposits = logs.deposits

(***************************************************************************)
(* What is published of a block without logs that deploys no contract is   *)
(* enough to rebuild the state after it from the state before, whatever    *)
(* the order of the accounts (prepare_state_diff, StateDiff::encode,       *)
(* AccountStateDiff::encode).                                              *)
(***************************************************************************)
PlainBlockRebuilt == NoLogs /\ NoNewCode => Rebuilt

(***************************************************************************)
(* The same of a block that deploys contracts: the length of the bytecode  *)
(* is in front of it (AccountStateDiff::encode).                           *)
(***************************************************************************)
DeploymentRebuilt == NoLogs => Rebuilt

(***************************************************************************)
(* The same of a block with withdrawals and deposits: their numbers are in *)
(* front of them (StateDiff::encode).                                      *)
(***************************************************************************)
LogsRebuilt == NoNewCode => Rebuilt

(***************************************************************************)
(* Every block that fits into a blob and destroys no account can be        *)
(* published (prepare_state_diff).                                         *)
(***************************************************************************)
Publishable ==
    stage = "failed" => \/ \E x \in Addresses : post[x] = Empty /\ prev[x] # Empty
                     \/ Len(encoded) > BlobFields

==============================================================================
