-------------------------------- MODULE Trie --------------------------------
(***************************************************************************)
(* The Merkle Patricia trie of crates/storage/trie: nibble paths, the three *)
(* kinds of node, insertion and removal, proofs, iteration and the check of *)
(* a proven range.                                                          *)
(* An encoded node is its list of items with its length in bytes, and the   *)
(* hash of a node of 32 bytes or more is the term [tag |-> "hashed", of |->  *)
(* the encoded node]: hashing is taken to be injective.  An optional value  *)
(* is a sequence of at most one element, an absent node likewise.           *)
(***************************************************************************)
EXTENDS Rlp, Integers, FiniteSets, SequencesExt, TLC

CONSTANT KeyLen       \* the bytes of a full path: 32 in the code

-----------------------------------------------------------------------------
(* nibbles.rs *)

LEAF_FLAG == 16
Nibble == 0..15

from_bytes(bytes) ==
    [i \in 1..2 * Len(bytes) |->
        IF i % 2 = 1 THEN bytes[(i + 1) \div 2] \div 16 ELSE bytes[i \div 2] % 16]
    \o <<LEAF_FLAG>>

is_leaf(path) == path # <<>> /\ Last(path) = LEAF_FLAG
offset(path, n) == SubSeq(path, n + 1, Len(path))
slice(path, n) == SubSeq(path, 1, n)

\* How many nibbles two paths share from the start.
count_prefix(a, b) ==
    Max({n \in 0..Min({Len(a), Len(b)}) : slice(a, n) = slice(b, n)})

\* skip_prefix succeeds exactly when the prefix is there to be skipped.
skip_prefix(path, prefix) == IsPrefix(prefix, path)

\* next_choice consumes the first nibble and yields it unless it is the flag.
next_choice(path) == path # <<>> /\ path[1] \in Nibble

\* The lexicographic order of byte slices.
Before(a, b) ==
    LET n == count_prefix(a, b)
    IN n < Len(b) /\ (n = Len(a) \/ a[n + 1] < b[n + 1])

\* A path against a prefix: -1, 0 or 1 for Less, Equal, Greater.
compare_prefix(path, prefix) ==
    LET head == IF Len(path) > Len(prefix) THEN slice(path, Len(prefix)) ELSE path
    IN IF head = prefix THEN 0 ELSE IF Before(head, prefix) THEN -1 ELSE 1

\* Two nibbles per byte behind a byte with the leaf flag, the odd flag and,
\* for an odd number, the first nibble.
encode_compact(path) ==
    LET hex  == IF is_leaf(path) THEN Front(path) ELSE path
        odd  == Len(hex) % 2
        rest == offset(hex, odd)
        flag == (IF odd = 1 THEN 16 + hex[1] ELSE 0)
                + (IF is_leaf(path) THEN 32 ELSE 0)
    IN <<flag>> \o [i \in 1..Len(rest) \div 2 |-> rest[2 * i - 1] * 16 + rest[2 * i]]

\* compact_to_hex: drop the terminator of an extension, then one or two nibbles.
decode_compact(compact) ==
    IF compact = <<>> THEN <<>> ELSE
    LET hex  == from_bytes(compact)
        base == IF hex[1] < 2 THEN Front(hex) ELSE hex
    IN offset(base, 2 - (base[1] % 2))

to_bytes(path) ==
    LET data == IF is_leaf(path) THEN Front(path) ELSE path
    IN [i \in 1..(Len(data) + 1) \div 2 |->
           16 * data[2 * i - 1] + (IF 2 * i <= Len(data) THEN data[2 * i] ELSE 0)]

-----------------------------------------------------------------------------
(* node_hash.rs, and the nodes with their encodings *)

NoHash == [tag |-> "none"]                  \* NodeHash::Inline(vec![])
is_valid(hash) == hash # NoHash

from_encoded_raw(encoded) ==
    IF encoded.size >= 32 THEN [tag |-> "hashed", of |-> encoded]
    ELSE [tag |-> "inline", of |-> encoded]

\* The root hash: a small root is hashed too.
finalize(hash) == [tag |-> "hashed", of |-> hash.of]

Leaf(partial, value) == [type |-> "leaf", partial |-> partial, value |-> value]
Extension(prefix, child) == [type |-> "extension", prefix |-> prefix, child |-> child]
Branch(choices, value) == [type |-> "branch", choices |-> choices, value |-> value]
EMPTY_CHOICES == [c \in Nibble |-> NoHash]

\* An item of an encoded node: a string, a hash of 32 bytes, or a node in place.
StringItem(bytes) == [is |-> "string", v |-> bytes]
ChildItem(hash) ==
    CASE hash.tag = "hashed" -> [is |-> "hash", v |-> hash.of]
      [] hash.tag = "inline" -> [is |-> "node", v |-> hash.of]
      [] OTHER -> StringItem(<<>>)

ItemSize(item) ==
    CASE item.is = "hash" -> 33
      [] item.is = "node" -> item.v.size
      [] OTHER -> Len(EncodeBytes(item.v))

ItemsLeaf(node) == <<StringItem(encode_compact(node.partial)), StringItem(node.value)>>
ItemsExtension(node) ==
    <<StringItem(encode_compact(node.prefix)), ChildItem(node.child)>>
ItemsBranch(node) ==
    Append([i \in 1..16 |-> ChildItem(node.choices[i - 1])], StringItem(node.value))

Items(node) ==
    CASE node.type = "leaf" -> ItemsLeaf(node)
      [] node.type = "extension" -> ItemsExtension(node)
      [] OTHER -> ItemsBranch(node)

EncodedItems(items) ==
    LET Sized(payload) ==
            [items |-> items, size |-> Len(encode_length(RLP_EMPTY_LIST, payload)) + payload]
    IN Sized(FoldLeft(LAMBDA n, item : n + ItemSize(item), 0, items))

encode_raw(node) == EncodedItems(Items(node))

compute_hash(node) == from_encoded_raw(encode_raw(node))

decode_child(item) ==
    CASE item.is = "hash" -> [tag |-> "hashed", of |-> item.v]
      [] item.is = "node" -> [tag |-> "inline", of |-> item.v]
      [] OTHER -> NoHash

decode_raw(encoded) ==
    LET items == encoded.items
        OfPath(path) == IF is_leaf(path) THEN Leaf(path, items[2].v)
                        ELSE Extension(path, decode_child(items[2]))
    IN IF Len(items) = 17
       THEN Branch([c \in Nibble |-> decode_child(items[c + 1])], items[17].v)
       ELSE OfPath(decode_compact(items[1].v))

-----------------------------------------------------------------------------
(* state.rs and rlp.rs: the nodes of a trie are those of its cache and of    *)
(* the database, st = [cache, db], two functions on hashes.                  *)

\* A hash is stored as its bytes and read back by their number.
HashBytes(hash) ==
    CASE hash.tag = "hashed" -> [size |-> 32, of |-> hash.of]
      [] hash.tag = "inline" -> [size |-> hash.of.size, of |-> hash.of]
      [] OTHER -> [size |-> 0]
HashFrom(bytes) ==
    CASE bytes.size = 32 -> [tag |-> "hashed", of |-> bytes.of]
      [] bytes.size = 0 -> NoHash
      [] OTHER -> [tag |-> "inline", of |-> bytes.of]

\* The encoding of a node in the database, and its reading.
encode(node) ==
    CASE node.type = "branch" ->
            <<0, [i \in 1..16 |-> HashBytes(node.choices[i - 1])], node.value>>
      [] node.type = "extension" -> <<1, node.prefix, HashBytes(node.child)>>
      [] OTHER -> <<2, node.partial, node.value>>
decode(rlp) ==
    CASE rlp[1] = 0 -> Branch([c \in Nibble |-> HashFrom(rlp[2][c + 1])], rlp[3])
      [] rlp[1] = 1 -> Extension(rlp[2], HashFrom(rlp[3]))
      [] OTHER -> Leaf(rlp[2], rlp[3])

EmptyTable == [h \in {} |-> <<>>]

get_node(st, hash) ==
    CASE hash.tag = "inline" -> <<decode_raw(hash.of)>>
      [] hash \in DOMAIN st.cache -> <<st.cache[hash]>>
      [] hash \in DOMAIN st.db -> <<decode(st.db[hash])>>
      [] OTHER -> <<>>

insert_node(st, node, hash) ==
    IF hash.tag = "hashed" THEN [st EXCEPT !.cache = (hash :> node) @@ @] ELSE st

InsertedAs(st, node, hash) == [ok |-> TRUE, st |-> insert_node(st, node, hash), hash |-> hash]
insert_self(st, node) == InsertedAs(st, node, compute_hash(node))

\* The nodes commit_node_tail_recursive collects: it stops at a node that is
\* not in the cache, taking it to be stored already.
RECURSIVE ToCommit(_, _)
ToCommit(cache, hash) ==
    IF hash \notin DOMAIN cache THEN {} ELSE
    LET node     == cache[hash]
        children == CASE node.type = "branch" -> {node.choices[c] : c \in Nibble} \ {NoHash}
                      [] node.type = "extension" -> {node.child}
                      [] OTHER -> {}
    IN {hash} \cup UNION {ToCommit(cache, child) : child \in children}

commit(st, root) ==
    [cache |-> EmptyTable,
     db |-> [h \in ToCommit(st.cache, root) |-> encode(st.cache[h])] @@ st.db]

-----------------------------------------------------------------------------
(* get: the value under a path, or the failure of a node that is missing *)

Missing == [ok |-> FALSE]                              \* InconsistentTree
Value(v) == [ok |-> TRUE, value |-> v]

RECURSIVE Get(_, _, _)

GetBelow(st, hash, path) ==
    LET In(child) == IF child = <<>> THEN Missing ELSE Get(st, child[1], path)
    IN In(get_node(st, hash))

GetBranch(st, node, path) ==
    IF ~next_choice(path) THEN Value(IF node.value = <<>> THEN <<>> ELSE <<node.value>>)
    ELSE IF is_valid(node.choices[path[1]])
    THEN GetBelow(st, node.choices[path[1]], offset(path, 1))
    ELSE Value(<<>>)

GetExtension(st, node, path) ==
    IF skip_prefix(path, node.prefix)
    THEN GetBelow(st, node.child, offset(path, Len(node.prefix)))
    ELSE Value(<<>>)

GetLeaf(node, path) == Value(IF node.partial = path THEN <<node.value>> ELSE <<>>)

Get(st, node, path) ==
    CASE node.type = "branch" -> GetBranch(st, node, path)
      [] node.type = "extension" -> GetExtension(st, node, path)
      [] OTHER -> GetLeaf(node, path)

-----------------------------------------------------------------------------
(* insert: the node that replaces the one inserted into, and the new state *)

Replaced(node, st) == [ok |-> TRUE, node |-> node, st |-> st]

\* A replaced node is stored: its hash and the state with it.
Kept(r) == IF r.ok THEN insert_self(r.st, r.node) ELSE r

\* An extension above a stored child.
Above(prefix, put) == IF put.ok THEN Replaced(Extension(prefix, put.hash), put.st) ELSE put

\* A leaf below a branch, unless its path ends at the branch.
HalfLeaf(st, path, value) ==
    IF path[1] = LEAF_FLAG THEN [st |-> st, hash |-> NoHash]
    ELSE insert_self(st, Leaf(offset(path, 1), value))

\* The leaf and the new one part after n nibbles, at a branch.
SplitLeaf(st, node, path, value, n) ==
    LET own == node.partial[n + 1]
        new == path[n + 1]
        Grown(branch, s) ==
            IF n = 0 THEN Replaced(branch, s) ELSE Above(slice(path, n), insert_self(s, branch))
        Fork(leaf, self) ==
            Grown(Branch([c \in Nibble |-> CASE c = new -> leaf.hash
                                             [] c = own -> self.hash
                                             [] OTHER -> NoHash],
                         CASE own = LEAF_FLAG -> node.value
                           [] new = LEAF_FLAG -> value
                           [] OTHER -> <<>>),
                  self.st)
        Beside(leaf) == Fork(leaf, HalfLeaf(leaf.st, offset(node.partial, n), node.value))
    IN Beside(HalfLeaf(st, offset(path, n), value))

InsertLeaf(st, node, path, value) ==
    IF node.partial = path THEN Replaced(Leaf(path, value), st)
    ELSE SplitLeaf(st, node, path, value, count_prefix(path, node.partial))

RECURSIVE InsertInto(_, _, _, _)

\* The child under a hash with the value inserted, stored: its hash and state.
InsertBelow(st, hash, path, value) ==
    LET In(child) == IF child = <<>> THEN Missing ELSE Kept(InsertInto(st, child[1], path, value))
    IN In(get_node(st, hash))

InsertBranch(st, node, path, value) ==
    LET Chosen(put) ==
            IF put.ok THEN Replaced([node EXCEPT !.choices[path[1]] = put.hash], put.st) ELSE put
    IN IF ~next_choice(path) THEN Replaced([node EXCEPT !.value = value], st)
       ELSE Chosen(IF is_valid(node.choices[path[1]])
                   THEN InsertBelow(st, node.choices[path[1]], offset(path, 1), value)
                   ELSE insert_self(st, Leaf(offset(path, 1), value)))

\* The path leaves the prefix of the extension behind its first n nibbles.  The
\* prefix never holds the leaf flag: the arm for it is left out.
InsertBehind(st, node, path, value, n) ==
    LET Forked(rest) ==
            InsertBranch(rest.st, Branch([EMPTY_CHOICES EXCEPT ![node.prefix[1]] = rest.hash], <<>>),
                         path, value)
    IN CASE n = Len(node.prefix) ->
              Above(node.prefix, InsertBelow(st, node.child, offset(path, n), value))
         [] n = 0 ->
              Forked(IF Len(node.prefix) = 1 THEN [st |-> st, hash |-> node.child]
                     ELSE insert_self(st, Extension(offset(node.prefix, 1), node.child)))
         [] OTHER ->
              Above(slice(node.prefix, n),
                    Kept(InsertInto(st, Extension(offset(node.prefix, n), node.child),
                                    offset(path, n), value)))

InsertExtension(st, node, path, value) ==
    InsertBehind(st, node, path, value, count_prefix(path, node.prefix))

InsertInto(st, node, path, value) ==
    CASE node.type = "branch" -> InsertBranch(st, node, path, value)
      [] node.type = "extension" -> InsertExtension(st, node, path, value)
      [] OTHER -> InsertLeaf(st, node, path, value)

-----------------------------------------------------------------------------
(* remove: what is left of the node, if anything, and the value removed *)

Removed(left, value, st) == [ok |-> TRUE, left |-> left, value |-> value, st |-> st]

\* Mutant: a branch left with one child is kept.
RestructuredUnmerged(st, node, value) ==
    IF node.value # <<>> /\ \A c \in Nibble : ~is_valid(node.choices[c])
    THEN Removed(<<Leaf(<<LEAF_FLAG>>, node.value)>>, value, st)
    ELSE Removed(<<node>>, value, st)

\* A branch left with a value alone becomes a leaf, one left with one child
\* and no value gives way to the child, its path lengthened by the choice.
Restructured(st, node, value) ==
    LET children == {c \in Nibble : is_valid(node.choices[c])}
        Longer(c, child) ==
            CASE child.type = "branch" -> Extension(<<c>>, node.choices[c])
              [] child.type = "extension" -> Extension(<<c>> \o child.prefix, child.child)
              [] OTHER -> Leaf(<<c>> \o child.partial, child.value)
        GivenWay(c, child) ==
            IF child = <<>> THEN Missing ELSE Removed(<<Longer(c, child[1])>>, value, st)
        Only(c) == GivenWay(c, get_node(st, node.choices[c]))
    IN CASE children = {} /\ node.value # <<>> ->
              Removed(<<Leaf(<<LEAF_FLAG>>, node.value)>>, value, st)
         [] Cardinality(children) = 1 /\ node.value = <<>> -> Only(CHOOSE c \in children : TRUE)
         [] OTHER -> Removed(<<node>>, value, st)

RECURSIVE RemoveFrom(_, _, _)

RemoveBelow(st, hash, path) ==
    LET In(child) == IF child = <<>> THEN Missing ELSE RemoveFrom(st, child[1], path)
    IN In(get_node(st, hash))

RemoveBranch(st, node, path) ==
    LET Chosen(put, value) ==
            Restructured(put.st, [node EXCEPT !.choices[path[1]] = put.hash], value)
        After(r) ==
            IF ~r.ok THEN r
            ELSE Chosen(IF r.left = <<>> THEN [st |-> r.st, hash |-> NoHash]
                        ELSE insert_self(r.st, r.left[1]), r.value)
    IN IF ~next_choice(path)
       THEN Restructured(st, [node EXCEPT !.value = <<>>],
                         IF node.value = <<>> THEN <<>> ELSE <<node.value>>)
       ELSE IF ~is_valid(node.choices[path[1]]) THEN Restructured(st, node, <<>>)
       ELSE After(RemoveBelow(st, node.choices[path[1]], offset(path, 1)))

RemoveExtension(st, node, path) ==
    LET Linked(put, value) == Removed(<<Extension(node.prefix, put.hash)>>, value, put.st)
        Joined(r, below) ==
            CASE below.type = "branch" -> Linked(insert_self(r.st, below), r.value)
              [] below.type = "extension" ->
                   Removed(<<Extension(node.prefix \o below.prefix, below.child)>>, r.value, r.st)
              [] OTHER ->
                   Removed(<<Leaf(node.prefix \o below.partial, below.value)>>, r.value, r.st)
        After(r) == IF ~r.ok \/ r.left = <<>> THEN r ELSE Joined(r, r.left[1])
    IN IF skip_prefix(path, node.prefix)
       THEN After(RemoveBelow(st, node.child, offset(path, Len(node.prefix))))
       ELSE Removed(<<node>>, <<>>, st)

RemoveLeaf(st, node, path) ==
    IF node.partial = path THEN Removed(<<>>, <<node.value>>, st)
    ELSE Removed(<<node>>, <<>>, st)

RemoveFrom(st, node, path) ==
    CASE node.type = "branch" -> RemoveBranch(st, node, path)
      [] node.type = "extension" -> RemoveExtension(st, node, path)
      [] OTHER -> RemoveLeaf(st, node, path)

-----------------------------------------------------------------------------
(* trie.rs: a trie is its root, if any, and the state with its nodes *)

Trie(root, st) == [root |-> root, st |-> st]
EMPTY_TRIE_HASH == [tag |-> "empty"]

new(db) == Trie(<<>>, [cache |-> EmptyTable, db |-> db])
open(db, hash) ==
    Trie(IF hash = EMPTY_TRIE_HASH THEN <<>> ELSE <<hash>>,
         [cache |-> EmptyTable, db |-> db])

\* The root node, where it can be found.
RootNode(trie) == IF trie.root = <<>> THEN <<>> ELSE get_node(trie.st, trie.root[1])

get(trie, key) ==
    IF trie.root = <<>> THEN Value(<<>>) ELSE GetBelow(trie.st, trie.root[1], from_bytes(key))

\* The root is taken first, so a failure leaves the trie without one; a root
\* whose node is missing is taken for an empty trie.
insert(trie, key, value) ==
    LET In(root) == IF root = <<>> THEN Replaced(Leaf(from_bytes(key), value), trie.st)
                    ELSE InsertInto(trie.st, root[1], from_bytes(key), value)
        Rooted(put) == IF put.ok THEN [ok |-> TRUE, trie |-> Trie(<<put.hash>>, put.st)]
                       ELSE [ok |-> FALSE, trie |-> Trie(<<>>, trie.st)]
    IN Rooted(Kept(In(RootNode(trie))))

remove(trie, key) ==
    LET Rooted(put) == Trie(<<put.hash>>, put.st)
        After(r) ==
            IF ~r.ok THEN [ok |-> FALSE, trie |-> Trie(<<>>, trie.st)]
            ELSE [ok |-> TRUE, value |-> r.value,
                  trie |-> IF r.left = <<>> THEN Trie(<<>>, r.st)
                           ELSE Rooted(insert_self(r.st, r.left[1]))]
    IN IF trie.root = <<>> THEN [ok |-> TRUE, trie |-> trie, value |-> <<>>]
       ELSE After(RemoveBelow(trie.st, trie.root[1], from_bytes(key)))

hash_no_commit(trie) ==
    IF trie.root = <<>> THEN EMPTY_TRIE_HASH ELSE finalize(trie.root[1])

\* hash: the trie with its nodes written to the database.
committed(trie) ==
    IF trie.root = <<>> THEN trie ELSE Trie(trie.root, commit(trie.st, trie.root[1]))

\* A trie of the given pairs in the given order, and its hash.
InsertAll(trie, pairs) ==
    FoldLeft(LAMBDA r, p : IF r.ok THEN insert(r.trie, p[1], p[2]) ELSE r,
             [ok |-> TRUE, trie |-> trie], pairs)
stateless == new(EmptyTable)
compute_hash_from_unsorted_iter(pairs) == hash_no_commit(InsertAll(stateless, pairs).trie)

-----------------------------------------------------------------------------
(* Proofs, pruned tries, iteration *)

\* A node is part of a path unless it is small enough to be inlined.
Listed(node) ==
    LET Large(encoded) == IF encoded.size >= 32 THEN <<encoded>> ELSE <<>>
    IN Large(encode_raw(node))

RECURSIVE get_path(_, _, _)

\* The path below the child, behind what leads to it.
PathBelow(st, above, hash, path) ==
    LET Joined(r) == IF r.ok THEN Value(above \o r.value) ELSE r
        In(child) == IF child = <<>> THEN Missing ELSE Joined(get_path(st, child[1], path))
    IN In(get_node(st, hash))

PathBranch(st, node, path) ==
    IF next_choice(path) /\ is_valid(node.choices[path[1]])
    THEN PathBelow(st, Listed(node), node.choices[path[1]], offset(path, 1))
    ELSE Value(Listed(node))

PathExtension(st, node, path) ==
    IF skip_prefix(path, node.prefix)
    THEN PathBelow(st, Listed(node), node.child, offset(path, Len(node.prefix)))
    ELSE Value(Listed(node))

get_path(st, node, path) ==
    CASE node.type = "branch" -> PathBranch(st, node, path)
      [] node.type = "extension" -> PathExtension(st, node, path)
      [] OTHER -> Value(Listed(node))

\* An inlined root is put before the path; a missing one yields no path.
get_proof(trie, key) ==
    LET inlined == IF trie.root[1].tag = "inline" THEN <<trie.root[1].of>> ELSE <<>>
    IN IF RootNode(trie) = <<>>
       THEN Value(IF trie.root = <<>> THEN <<>> ELSE inlined)
       ELSE PathBelow(trie.st, inlined, trie.root[1], from_bytes(key))

\* The root and, as a set, the other nodes of the proofs of some keys.
get_proofs(trie, keys) ==
    LET Together(root, proofs) ==
            IF root = <<>> THEN [ok |-> TRUE, root |-> <<>>, nodes |-> {}]
            ELSE IF \E p \in proofs : ~p.ok THEN Missing
            ELSE [ok |-> TRUE, root |-> <<encode_raw(root[1])>>,
                  nodes |-> UNION {ToSet(Tail(p.value)) : p \in proofs}]
    IN Together(RootNode(trie), {get_proof(trie, key) : key \in keys})

from_nodes(root, nodes) ==
    LET With(st) ==
            FoldSet(LAMBDA e, s : insert_self(s, decode_raw(e)).st, st, nodes)
        Rooted(first) == Trie(<<first.hash>>, With(first.st))
    IN IF root = <<>> THEN Trie(<<>>, With(stateless.st))
       ELSE Rooted(insert_self(stateless.st, decode_raw(root[1])))

\* TrieIterator: a stack of paths and hashes; it ends at a missing node.
RECURSIVE Walk(_, _)
Walk(st, stack) ==
    LET Down(node) ==
            SelectSeq([i \in 1..16 |-> 16 - i], LAMBDA c : is_valid(node.choices[c]))
        Pushed(path, node, down) ==
            [i \in DOMAIN down |-> <<Append(path, down[i]), node.choices[down[i]]>>]
        \* what the node yields, and what takes its place on the stack
        Yield(path, node) ==
            CASE node.type = "branch" /\ node.value # <<>> -> <<<<to_bytes(path), node.value>>>>
              [] node.type = "leaf" -> <<<<to_bytes(path \o node.partial), node.value>>>>
              [] OTHER -> <<>>
        Below(path, node) ==
            CASE node.type = "branch" -> Pushed(path, node, Down(node))
              [] node.type = "extension" -> <<<<path \o node.prefix, node.child>>>>
              [] OTHER -> <<>>
        Visit(path, found) ==
            IF found = <<>> THEN <<>>
            ELSE Yield(path, found[1]) \o Walk(st, Front(stack) \o Below(path, found[1]))
    IN IF stack = <<>> THEN <<>> ELSE Visit(Last(stack)[1], get_node(st, Last(stack)[2]))

content(trie) == Walk(trie.st, IF trie.root = <<>> THEN <<>> ELSE <<<<<<>>, trie.root[1]>>>>)

==============================================================================
