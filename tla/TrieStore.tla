------------------------------ MODULE TrieStore ------------------------------
(***************************************************************************)
(* A trie in use: the node writes and commits it (Store), serves a proven  *)
(* range of it to a peer which verifies it (snap requests, verify_range.rs) *)
(* and prunes it to the paths a block touches for the prover.              *)
(***************************************************************************)
EXTENDS Trie

-----------------------------------------------------------------------------
(* verify_range.rs.  A proof is a set of encoded nodes, found by their hash. *)

Rejected == [ok |-> FALSE]

\* fill_node: puts the proof's nodes along the path into the state; the value
\* at its end, if the path is there.
RECURSIVE fill_node(_, _, _, _)
fill_node(st, proof, hash, path) ==
    LET Fill(node, into) ==
            CASE node.type = "branch" /\ next_choice(path) /\ is_valid(node.choices[path[1]]) ->
                   fill_node(into, proof, node.choices[path[1]], offset(path, 1))
              [] node.type = "extension" /\ skip_prefix(path, node.prefix) ->
                   fill_node(into, proof, node.child, offset(path, Len(node.prefix)))
              [] OTHER ->
                   [ok |-> TRUE, st |-> into,
                    value |-> IF \/ node.type = "branch"
                                 \/ node.type = "leaf" /\ node.partial = path
                              THEN node.value ELSE <<>>]
        Put(node) == Fill(node, insert_node(st, node, hash))
    IN IF hash.tag = "hashed" /\ hash.of \notin proof THEN Rejected
       ELSE Put(decode_raw(hash.of))

fill_state(st, root, key, proof) == fill_node(st, proof, root, from_bytes(key))

\* Is there anything to the right of the path below the hash?
RECURSIVE has_right_element_inner(_, _, _)
has_right_element_inner(st, hash, path) ==
    LET Right(node) ==
            CASE node.type = "branch" /\ next_choice(path) ->
                   \/ \E c \in path[1] + 1..15 : is_valid(node.choices[c])
                   \/ /\ is_valid(node.choices[path[1]])
                      /\ has_right_element_inner(st, node.choices[path[1]], offset(path, 1))
              [] node.type = "extension" ->
                   IF skip_prefix(path, node.prefix)
                   THEN has_right_element_inner(st, node.child, offset(path, Len(node.prefix)))
                   ELSE Before(path, node.prefix)
              [] OTHER -> FALSE
        In(found) == found # <<>> /\ Right(found[1])
    IN In(get_node(st, hash))

has_right_element(st, root, key) == has_right_element_inner(st, root, from_bytes(key))

\* The choices of a branch without those of a set.
Without(choices, gone) == [c \in Nibble |-> IF c \in gone THEN NoHash ELSE choices[c]]

\* What a removal leaves: gone says that nothing of the subtrie is left.
Left(gone, st) == [ok |-> TRUE, gone |-> gone, st |-> st]

\* The unwrap of a node that is not there, or a slice that ends before it starts.
Panic == [ok |-> FALSE, panic |-> TRUE]

\* Removes what lies on one side of the path below the hash.
RECURSIVE remove_node(_, _, _, _)
remove_node(st, hash, path, left) ==
    LET side == IF left THEN 0..path[1] - 1 ELSE path[1] + 1..15
        Trimmed(node, cut, r) ==
            IF ~r.ok THEN r
            ELSE Left(FALSE, insert_node(r.st, Branch(IF r.gone THEN Without(cut, {path[1]}) ELSE cut,
                                                      node.value), hash))
        Cut(node, cut) == Trimmed(node, cut, remove_node(st, cut[path[1]], offset(path, 1), left))
        At(node) ==
            CASE node.type = "leaf" -> Left(TRUE, st)
              [] node.type = "branch" ->
                   IF next_choice(path) THEN Cut(node, Without(node.choices, side))
                   ELSE Left(TRUE, st)
              [] OTHER ->
                   IF skip_prefix(path, node.prefix)
                   THEN remove_node(st, node.child, offset(path, Len(node.prefix)), left)
                   ELSE Left(compare_prefix(path, node.prefix) = (IF left THEN 1 ELSE -1), st)
        In(found) == IF found = <<>> THEN Panic ELSE At(found[1])
    IN IF is_valid(hash) THEN In(get_node(st, hash)) ELSE Left(FALSE, st)

\* Removes what lies between the two paths; fails on an empty range.
RECURSIVE remove_internal_references_inner(_, _, _, _)

RemoveInBranch(st, hash, node, left, right) ==
    LET l == left[1]
        r == right[1]
        Updated(s, choices) == Left(FALSE, insert_node(s, Branch(choices, node.value), hash))
        Same(both) ==
            IF both.ok /\ both.gone THEN Updated(both.st, Without(node.choices, {l})) ELSE both
        Edges(inner, cutl, cutr) ==
            IF ~cutl.ok THEN cutl
            ELSE IF ~cutr.ok THEN cutr
            ELSE Updated(cutr.st,
                         Without(inner, (IF cutl.gone THEN {l} ELSE {})
                                        \cup (IF cutr.gone THEN {r} ELSE {})))
        CutRight(inner, cutl) ==
            Edges(inner, cutl, remove_node(cutl.st, inner[r], offset(right, 1), TRUE))
        CutLeft(inner) == CutRight(inner, remove_node(st, inner[l], offset(left, 1), FALSE))
    IN IF l = r /\ is_valid(node.choices[l])
       THEN Same(remove_internal_references_inner(st, node.choices[l], offset(left, 1),
                                                  offset(right, 1)))
       ELSE IF l >= r THEN Panic   \* the slice from l + 1 to r of the choices
       ELSE CutLeft(Without(node.choices, l + 1..r - 1))

\* Where one path alone has the prefix, the removal goes to the extension
\* itself, with the path behind its prefix.
RemoveInExtension(st, hash, node, left, right) ==
    LET n == Len(node.prefix)
        Compared(fl, fr) ==
            IF fl = 0 /\ fr = 0
            THEN remove_internal_references_inner(st, node.child, offset(left, n), offset(right, n))
            ELSE IF fl = fr THEN Rejected
            ELSE IF fl # 0 /\ fr # 0 THEN Left(TRUE, st)
            ELSE remove_node(st, hash, offset(IF fl = 0 THEN left ELSE right, n), fr = 0)
    IN Compared(compare_prefix(left, node.prefix), compare_prefix(right, node.prefix))

remove_internal_references_inner(st, hash, left, right) ==
    LET At(node) ==
            CASE node.type = "branch" -> RemoveInBranch(st, hash, node, left, right)
              [] node.type = "extension" -> RemoveInExtension(st, hash, node, left, right)
              [] OTHER -> Left(FALSE, st)
        In(found) == IF found = <<>> THEN Panic ELSE At(found[1])
    IN IF is_valid(hash) THEN In(get_node(st, hash)) ELSE Left(TRUE, st)

Accepted(more) == [ok |-> TRUE, more |-> more]

\* No proof: the pairs are all there is.
VerifyWhole(root, pairs) ==
    LET Compare(rebuilt) ==
            IF rebuilt.ok /\ hash_no_commit(rebuilt.trie) = root THEN Accepted(FALSE) ELSE Rejected
    IN Compare(InsertAll(stateless, pairs))

\* No pairs: the first key is absent and nothing is to the right of it.
VerifyNone(root, first, proof) ==
    LET Absent(edge) ==
            IF edge.ok /\ ~has_right_element(edge.st, root, first) /\ edge.value = <<>>
            THEN Accepted(FALSE) ELSE Rejected
    IN Absent(fill_state(stateless.st, root, first, proof))

\* Mutant: the value is not compared with the one in the proof.
VerifyOneKey(root, first, value, proof) ==
    LET Present(edge) ==
            IF edge.ok /\ edge.value # <<>>
            THEN Accepted(has_right_element(edge.st, root, first)) ELSE Rejected
    IN Present(fill_state(stateless.st, root, first, proof))

\* The first key alone.
VerifyOne(root, first, value, proof) ==
    LET Present(edge) ==
            IF edge.ok /\ edge.value = value
            THEN Accepted(has_right_element(edge.st, root, first)) ELSE Rejected
    IN Present(fill_state(stateless.st, root, first, proof))

\* Two edges: what lies between them is removed and inserted again.
VerifyEdges(root, first, pairs, proof) ==
    LET last == Last(pairs)[1]
        Compare(filled) ==
            IF ~filled.ok \/ hash_no_commit(filled.trie) # root THEN Rejected
            ELSE Accepted(has_right_element(filled.trie.st, root, last))
        Refill(cut) ==
            IF ~cut.ok THEN cut
            ELSE Compare(InsertAll(Trie(IF cut.gone THEN <<>> ELSE <<root>>, cut.st), pairs))
        CutOut(edges) ==
            IF ~edges.ok THEN Rejected
            ELSE Refill(remove_internal_references_inner(edges.st, root, from_bytes(first),
                                                         from_bytes(last)))
        FillLast(edge) ==
            IF ~edge.ok THEN Rejected ELSE CutOut(fill_state(edge.st, root, last, proof))
    IN IF Before(first, last) THEN FillLast(fill_state(stateless.st, root, first, proof))
       ELSE Rejected

\* The verdict on the pairs of a range that starts at a key.
verify_range(root, first, pairs, proof) ==
    IF \E i \in 1..Len(pairs) - 1 : ~Before(pairs[i][1], pairs[i + 1][1]) THEN Rejected
    ELSE IF proof = {} THEN VerifyWhole(root, pairs)
    ELSE IF pairs = <<>> THEN VerifyNone(root, first, proof)
    ELSE IF Len(pairs) = 1 /\ first = pairs[1][1] THEN VerifyOne(root, first, pairs[1][2], proof)
    ELSE VerifyEdges(root, first, pairs, proof)

-----------------------------------------------------------------------------
CONSTANTS
    Keys,          \* the keys written, sequences of bytes
    Values,        \* the values, sequences of bytes
    Starts,        \* the keys a range may be asked from
    MaxHeld,       \* bound on the keys a trie that is written to starts with
    MaxWrites      \* bound on the writes of a behaviour

VARIABLES
    use,           \* "write", "range" or "prune": what this behaviour is about
    trie,          \* the trie, with its cache and its database
    pairs,         \* history: what was written, a function from keys to values
    saved,         \* history: the committed hashes, with the pairs at that time
    writes,        \* how many writes there were
    reply,         \* the range served and what became of it, or none yet
    pruned         \* the pruned trie and what was written to it, or none yet

storeVars == <<use, trie, pairs, saved, writes, reply, pruned>>

None == [is |-> "none"]

\* The pairs in the order of their keys.
InOrder(f) ==
    LET keys == SetToSortSeq(DOMAIN f, Before)
    IN [i \in DOMAIN keys |-> <<keys[i], f[keys[i]]>>]

Save(t, f) == saved \cup {[root |-> hash_no_commit(t), pairs |-> f]}

\* A trie as an earlier run of the node left it: some keys written in order and
\* committed.  Ranges are those of accounts and slots, whose paths are so long
\* that no node is small enough to be inlined.
StoreInit ==
    \E keys \in SUBSET Keys, v \in Values, u \in {"write", "range", "prune"} :
        LET f == [k \in keys |-> v]
            t == committed(InsertAll(new(EmptyTable), InOrder(f)).trie)
        IN /\ u # "write" => \A k \in keys : Len(k) = KeyLen
           /\ IF u = "range" THEN Len(v) >= 32 ELSE Cardinality(keys) <= MaxHeld
           /\ use = u
           /\ trie = t
           /\ pairs = f
           /\ saved = {[root |-> hash_no_commit(t), pairs |-> f]}
           /\ writes = 0
           /\ reply = None
           /\ pruned = None

MayWrite ==
    /\ use = "write"
    /\ writes < MaxWrites
    /\ writes' = writes + 1

InsertKey(k, v) ==
    /\ MayWrite
    /\ trie' = insert(trie, k, v).trie
    /\ pairs' = (k :> v) @@ pairs
    /\ UNCHANGED <<use, saved, reply, pruned>>

RemoveKey(k) ==
    /\ MayWrite
    /\ trie' = remove(trie, k).trie
    /\ pairs' = [x \in DOMAIN pairs \ {k} |-> pairs[x]]
    /\ UNCHANGED <<use, saved, reply, pruned>>

Commit ==
    /\ use = "write"
    /\ trie' = committed(trie)
    /\ saved' = Save(trie, pairs)
    /\ UNCHANGED <<use, pairs, writes, reply, pruned>>

\* A root of less than 32 bytes is in no database.  The tries of the node have
\* paths of 32 bytes: none of their roots is so small.
BigRoot(root) == IF root = EMPTY_TRIE_HASH THEN TRUE ELSE root.of.size >= 32

\* The state of an older block is opened by its root.
Reopen(s) ==
    /\ use = "write"
    /\ BigRoot(s.root)
    /\ trie' = open(trie.st.db, s.root)
    /\ pairs' = s.pairs
    /\ UNCHANGED <<use, saved, writes, reply, pruned>>

\* get_account_range_proof: the proofs of the two edges.
RangeProof(start, range) ==
    LET ends == {start} \cup (IF range = <<>> THEN {} ELSE {Last(range)[1]})
    IN UNION {ToSet(get_proof(trie, k).value) : k \in ends}

\* process_account_range_request: the range from a key on.  The limits on its
\* keys and on its bytes both cut it behind some element: max stands for both.
ServeRange(start, max) ==
    LET Sent(all, range) ==
            [is |-> "sent", start |-> start, range |-> range, altered |-> FALSE,
             more |-> Len(all) > max, proof |-> RangeProof(start, range)]
        Limited(all) == Sent(all, SubSeq(all, 1, Min({max, Len(all)})))
    IN /\ use = "range"
       /\ reply = None
       /\ reply' = Limited(SelectSeq(content(trie), LAMBDA p : ~Before(p[1], start)))
       /\ UNCHANGED <<use, trie, pairs, saved, writes, pruned>>

\* An element of the reply is lost or its value is another one.
AlterReply ==
    /\ reply.is = "sent"
    /\ ~reply.altered
    /\ \E i \in DOMAIN reply.range :
        \/ reply' = [reply EXCEPT !.altered = TRUE, !.range = RemoveAt(@, i)]
        \/ \E v \in Values \ {reply.range[i][2]} :
             reply' = [reply EXCEPT !.altered = TRUE, !.range[i][2] = v]
    /\ UNCHANGED <<use, trie, pairs, saved, writes, pruned>>

VerifyReply ==
    /\ reply.is = "sent"
    /\ reply' = [is |-> "verified", sent |-> reply,
                 verdict |-> verify_range(hash_no_commit(trie), reply.start, reply.range, reply.proof)]
    /\ UNCHANGED <<use, trie, pairs, saved, writes, pruned>>

\* ExecutionDB::from_exec and build_tries: the paths of the keys a block
\* touches that are there before it.
Prune(keys) ==
    LET Rebuilt(proofs) == from_nodes(proofs.root, proofs.nodes)
    IN /\ use = "prune"
       /\ pruned = None
       /\ keys \subseteq DOMAIN pairs
       /\ pruned' = [is |-> "pruned", trie |-> Rebuilt(get_proofs(trie, keys)),
                     keys |-> keys, pairs |-> pairs, ok |-> TRUE]
       /\ UNCHANGED <<use, trie, pairs, saved, writes, reply>>

\* update_tries in the prover: a write to the pruned trie.
UpdatePruned(k, r, f) ==
    /\ pruned.is = "pruned"
    /\ pruned.ok
    /\ writes < MaxWrites
    /\ writes' = writes + 1
    /\ pruned' = [pruned EXCEPT !.trie = r.trie, !.ok = r.ok, !.pairs = f]
    /\ UNCHANGED <<use, trie, pairs, saved, reply>>

InsertPruned(k, v) == UpdatePruned(k, insert(pruned.trie, k, v), (k :> v) @@ pruned.pairs)
RemovePruned(k) ==
    UpdatePruned(k, remove(pruned.trie, k), [x \in DOMAIN pruned.pairs \ {k} |-> pruned.pairs[x]])

StoreNext ==
    \/ \E k \in Keys, v \in Values : InsertKey(k, v)
    \/ \E k \in Keys : RemoveKey(k)
    \/ Commit
    \/ \E s \in saved : Reopen(s)
    \/ \E start \in Starts, max \in 1..Cardinality(Keys) : ServeRange(start, max)
    \/ AlterReply
    \/ VerifyReply
    \/ \E keys \in SUBSET Keys : Prune(keys)
    \/ pruned # None /\ \E k \in Keys, v \in Values : InsertPruned(k, v)
    \/ pruned # None /\ \E k \in Keys : RemovePruned(k)

StoreSpec == StoreInit /\ [][StoreNext]_storeVars

-----------------------------------------------------------------------------
(* Properties *)

\* Serving ranges and pruning leave the trie as it is: what holds of it is looked
\* at before them.
AtRest == reply = None /\ pruned = None

\* What was written last is what is read, under every key, whatever the order
\* of writes, removals, commits and reopenings.
ReadsLatest ==
    AtRest => \A k \in Keys :
        get(trie, k) = Value(IF k \in DOMAIN pairs THEN <<pairs[k]>> ELSE <<>>)

\* The root is a function of the pairs alone: it is that of a new trie with the
\* pairs inserted in order.
RootCanonical ==
    AtRest => hash_no_commit(trie) = compute_hash_from_unsorted_iter(InOrder(pairs))

\* Every committed state stays readable under its root: all its pairs come out
\* of the iterator, in order.
SavedReadable ==
    AtRest => \A s \in saved :
        BigRoot(s.root) => content(open(trie.st.db, s.root)) = InOrder(s.pairs)

\* What the trie holds from the start of the range on.
Held(sent) == SelectSeq(InOrder(pairs), LAMBDA p : ~Before(p[1], sent.start))

\* The ranges the node asks for while it syncs: from a key it has, or from zero
\* where the root is a branch.
AskedInSync(sent) ==
    \/ sent.start \in DOMAIN pairs
    \/ /\ \A i \in DOMAIN sent.start : sent.start[i] = 0
       /\ trie.root # <<>> => RootNode(trie)[1].type = "branch"

\* A range the node asked for is accepted as it was served, with the right word
\* on whether there is more.
RangeAccepted ==
    reply.is = "verified" /\ AskedInSync(reply.sent) /\ ~reply.sent.altered =>
        reply.verdict = [ok |-> TRUE, more |-> reply.sent.more]

\* Whatever range is accepted, each of its pairs is one the trie holds.
RangeTrue ==
    reply.is = "verified" /\ reply.verdict.ok =>
        ToSet(reply.sent.range) \subseteq ToSet(Held(reply.sent))

\* verify_range takes the ranges peers serve, and nothing the trie does not hold.
RangeSound == RangeAccepted /\ RangeTrue

\* Refuted: an accepted range leaves out nothing between its start and its last
\* key ("Verifies that the key value range belongs to the trie").  A node cut at
\* the left edge stays in its parent under the old hash, unless a key of the
\* range is inserted below it again.
RangeWhole ==
    reply.is = "verified" /\ AskedInSync(reply.sent) /\ reply.verdict.ok =>
        LET held == Held(reply.sent)
            got  == reply.sent.range
        IN got = SubSeq(held, 1, Min({Len(got), Len(held)}))

\* Refuted: a range is accepted as it was served whatever its start.
RangeAcceptedAnywhere ==
    reply.is = "verified" /\ ~reply.sent.altered => reply.verdict.ok

\* Refuted: "We already looked up the nodes when filling the state so this
\* shouldn't fail".
RangeNeverPanics == reply.is = "verified" => reply.verdict # Panic

\* The prover never computes a wrong root from a pruned trie: a write to it
\* fails, or the root is the one the whole trie would have.
PrunedSound ==
    pruned.is = "pruned" /\ pruned.ok =>
        hash_no_commit(pruned.trie) = compute_hash_from_unsorted_iter(InOrder(pruned.pairs))

\* The trie is the map it stands for, whole or pruned, now and in its saved states.
TrieSound == ReadsLatest /\ RootCanonical /\ SavedReadable /\ PrunedSound

\* Refuted: hash() "also commits changes to the DB", whatever the trie.
RootStored == \A s \in saved : get_node(trie.st, s.root) # <<>> \/ s.root = EMPTY_TRIE_HASH

\* Refuted: every write to a key that was there can be made to the pruned trie.
PrunedComplete == pruned.is = "pruned" => pruned.ok

==============================================================================
