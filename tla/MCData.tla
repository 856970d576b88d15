------------------------------- MODULE MCData -------------------------------
(***************************************************************************)
(* Small instances of the project's algorithms on data for TLC: the trie,  *)
(* the codecs, the Merkle tree of withdrawals and the state diff.  They    *)
(* share no state, and a behaviour is of one of them: part tells which.    *)
(***************************************************************************)
EXTENDS TrieStore, Codec, MerkleTree, StateDiff

CONSTANTS w1, w2, w3, w4, w5, w6, w7, w8, w9, w10, w11, a1, a2, s1, s2

VARIABLE part

\* Trie keys of two bytes that share nothing, one nibble or three nibbles, and
\* one that is a prefix of others; a value that is inlined and one that is not.
MCKeys == {<<16, 0>>, <<16, 1>>, <<17, 0>>, <<32, 0>>, <<16>>}
MCStarts == {<<0, 0>>, <<16, 0>>, <<16, 1>>, <<17, 0>>, <<32, 0>>}
Short == <<7>>
Long == [i \in 1..33 |-> 9]
MCValues == {Short, Long}

MCKinds ==
    {Struct(n) : n \in TxTypes \cup {
        "BlockHeader", "BlockBody", "Block", "Withdrawal", "Log", "AccountInfo",
        "AccountState", "ForkId", "BlobsBundle", "WrappedEIP4844", "MempoolTransaction",
        "AccountRangeUnit", "StorageSlot", "Auth", "Ack", "Endpoint", "Node",
        "NodeRecord"}}
    \cup {Transaction, <<"CanonicalTransaction">>, Receipt, <<"InnerReceipt">>}
MCFollowers == {<<>>, <<192>>, <<5, 6>>}

\* Trees of depth 1 to 4, with odd nodes on every level.
ElevenHashes == <<w1, w2, w3, w4, w5, w6, w7, w8, w9, w10, w11>>

OneCode == {<<7>>}
TwoCodes == {<<7>>, <<7, 8>>}
MCSymmetry == Permutations({a1, a2})

\* A part that is not at work is in one fixed state.
TrieIdle ==
    /\ use = "idle" /\ trie = new(EmptyTable) /\ pairs = [k \in {} |-> k] /\ saved = {} /\ writes = 0
    /\ reply = None /\ pruned = None
CodecIdle ==
    /\ form = "idle" /\ kind = None /\ value = None /\ bytes = <<>> /\ suffix = <<>>
    /\ fate = "idle" /\ result = Failed
TreeIdle ==
    /\ leaves = <<>> /\ index = 0 /\ phase = "idle" /\ data = <<>> /\ root = <<>>
    /\ target = <<>> /\ proof = <<>> /\ claim = <<>> /\ place = 0
DiffIdle ==
    /\ prev = None /\ post = None /\ logs = [withdrawals |-> <<>>, deposits |-> <<>>]
    /\ stage = "idle" /\ updates = <<>>
    /\ encoded = <<>> /\ left = {} /\ reader = None

MCInit ==
    \/ part = "trie" /\ StoreInit /\ CodecIdle /\ TreeIdle /\ DiffIdle
    \/ part = "codec" /\ TrieIdle /\ CodecInit /\ TreeIdle /\ DiffIdle
    \/ part = "tree" /\ TrieIdle /\ CodecIdle /\ TreeInit /\ DiffIdle
    \/ part = "diff" /\ TrieIdle /\ CodecIdle /\ TreeIdle /\ DiffInit
MCNext ==
    /\ UNCHANGED part
    /\ \/ part = "trie" /\ StoreNext /\ UNCHANGED <<codecVars, treeVars, diffVars>>
       \/ part = "codec" /\ CodecNext /\ UNCHANGED <<storeVars, treeVars, diffVars>>
       \/ part = "tree" /\ TreeNext /\ UNCHANGED <<storeVars, codecVars, diffVars>>
       \/ part = "diff" /\ DiffNext /\ UNCHANGED <<storeVars, codecVars, treeVars>>
MCSpec == MCInit /\ [][MCNext]_<<part, storeVars, codecVars, treeVars, diffVars>>
=============================================================================
