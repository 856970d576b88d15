-------------------------------- MODULE Sync --------------------------------
(***************************************************************************)
(* SyncManager of crates/networking/p2p/sync.rs: the header download, the  *)
(* full mode that executes every block, and the snap mode with its four    *)
(* tasks (bodies, state, storage, bytecodes) connected by channels; the    *)
(* engine calls that start it and that read the same tables meanwhile; and *)
(* the peers that answer, which serve requests with the code of snap.rs    *)
(* and eth/blocks.rs.                                                      *)
(*                                                                         *)
(* Content is named by its hash: a body by its block, a bytecode by its    *)
(* hash, a storage trie by its root and a state trie by the set of its     *)
(* leaves.  A request without an answer (no peer, a timeout, a reply that  *)
(* is empty or does not verify) is repeated and changes nothing, so it is  *)
(* a stuttering step here.                                                 *)
(***************************************************************************)
EXTENDS BlockTree, Sequences, FiniteSets, FiniteSetsExt

CONSTANTS
    State,         \* the leaves of each block's state trie
    Slots,         \* how many slots each storage trie has
    Codes,         \* the code hashes
    Empty,         \* the empty storage root, the empty code hash
    Peers,         \* the peers in the table
    Connected,     \* the peers with a connection when the node starts
    PeerStore,     \* what each peer has: head, blocks, states and codes
    HeaderLimit,   \* BLOCK_HEADER_LIMIT
    BodyLimit,     \* BLOCK_BODY_LIMIT
    AccountLimit,  \* accounts that fit in MAX_RESPONSE_BYTES
    CodeLimit,     \* bytecodes that fit in MAX_RESPONSE_BYTES
    SlotLimit,     \* slots that fit in MAX_RESPONSE_BYTES
    CodeBatch,     \* BATCH_SIZE of bytecode_fetcher
    StorageBatch,  \* BATCH_SIZE of storage_fetcher
    ChannelCap,    \* capacity of the channels to the fetchers
    BootMode,      \* the sync mode the node was started with
    Imported,      \* the blocks the node executed before
    Calls,         \* the blocks the consensus client may name
    MaxEvents      \* bound on the engine calls, database errors and crashes

VARIABLES
    headers,    \* Headers table (and the number index written with it)
    bodies,     \* Bodies table: the body stored for each block hash
    tries,      \* state tries of which every node is stored
    storages,   \* storage tries of which every node is stored, per account
    codes,      \* AccountCodes table: the code stored for each hash
    canonical,  \* CanonicalBlockHashes table
    latest,     \* LatestBlockNumber
    mode,       \* SyncManager::sync_mode
    spawned,    \* start_sync calls whose tasks have not tried the lock yet
    main,       \* sync_cycle
    blocks,     \* fetch_blocks_and_receipts
    state,      \* fetch_snap_state and rebuild_state_trie
    code,       \* bytecode_fetcher with its channel
    storage,    \* the storage fetchers that still run, the newest last
    channels,   \* the peers whose table entry has the channels of a connection
    waiting,    \* the peer whose channels a task waits for with the lock on the table, or None
    hasty,      \* verdicts on blocks given before the state they need was complete
    left        \* what is left of MaxEvents

store == <<headers, bodies, tries, storages, codes, canonical, latest>>
tasks == <<main, blocks, state, code, storage>>
table == <<channels, waiting>>
syncVars == <<store, mode, spawned, tasks, table, hasty, left>>

Branch(head) == [n \in 0 .. Number[head] |-> CHOOSE b \in Ancestors[head] : Number[b] = n]
Take(s, n) == SubSeq(s, 1, Min({n, Len(s)}))
Drop(s, n) == SubSeq(s, n + 1, Len(s))

SlotsOf(b) == {<<e.account, e.root>> : e \in {e \in State[b] : e.root # Empty}}
CodesOf(b) == {e.code : e \in State[b]} \ {Empty}

\* Everything that executing on top of block b may read is stored
Complete(b) ==
    /\ State[b] \in tries
    /\ SlotsOf(b) \subseteq storages
    /\ \A c \in CodesOf(b) : codes[c] = c

(***************************************************************************)
(* What a peer answers.                                                    *)
(***************************************************************************)
\* GetBlockHeaders::fetch_headers: by the number of the start hash, on the peer's chain
HeaderReply(p, start) ==
    LET chain == Branch(PeerStore[p].head)
        n == Number[start]
        size == Max({0, Min({HeaderLimit, Number[PeerStore[p].head] - n + 1})})
    IN IF start \notin PeerStore[p].blocks THEN <<>>
       ELSE [i \in 1 .. size |-> chain[n + i - 1]]

\* GetBlockBodies::fetch_blocks: unknown hashes are skipped
BodyReply(p, hashes) ==
    LET Has(b) == b \in PeerStore[p].blocks IN Take(SelectSeq(hashes, Has), BodyLimit)

\* process_byte_codes_request: unknown hashes are skipped
CodeReply(p, hashes) ==
    LET Has(c) == c \in PeerStore[p].codes IN Take(SelectSeq(hashes, Has), CodeLimit)

AccountsFrom(b, start) == {e \in State[b] : e.account >= start}

\* process_account_range_request: the first accounts from the start, in trie order
AccountReply(b, start) ==
    {e \in AccountsFrom(b, start) :
        Cardinality({f \in AccountsFrom(b, start) : f.account < e.account}) < AccountLimit}

(***************************************************************************)
(* process_storage_ranges_request and request_storage_ranges: how many     *)
(* accounts of the batch the reply settles.  A reply that reached the byte *)
(* limit carries the edge proofs of its last account; the client takes two *)
(* nodes of them, which proves a range only when the trie is a single node *)
(* and otherwise rejects the reply as a whole.                             *)
(***************************************************************************)
StorageReply(batch) ==
    LET Size(i) == Slots[batch[i][2]]
        Full(i) == MapThenSumSet(Size, 1 .. i) >= SlotLimit
        last == CHOOSE i \in 1 .. Len(batch) :
                   /\ Full(i) \/ i = Len(batch)
                   /\ \A j \in 1 .. i - 1 : ~Full(j)
    IN IF Full(last) /\ Size(last) > 1 THEN 0 ELSE last

(***************************************************************************)
(* The fetchers: bytecode_fetcher and storage_fetcher are the same loop    *)
(* over a channel of batches, with an empty batch or a closed channel as   *)
(* the end signal.                                                         *)
(***************************************************************************)
NoFetcher == [pc |-> "off", queue |-> <<>>, pending |-> <<>>, batch |-> <<>>,
              drain |-> FALSE, of |-> None]
NewFetcher(b) == [NoFetcher EXCEPT !.pc = "recv", !.of = b]

\* Take the next batch when there is a full one, or any at the end; else wait or finish
NextBatch(f, size) ==
    IF f.pending # <<>> /\ (f.drain \/ Len(f.pending) >= size)
    THEN [f EXCEPT !.pc = "fetch", !.batch = Take(f.pending, size),
                   !.pending = Drop(f.pending, size)]
    ELSE [f EXCEPT !.pc = IF f.drain THEN "done" ELSE "recv", !.batch = <<>>]

\* receiver.recv(): the oldest batch, or None once the sender is gone
Received(f, size) ==
    IF f.queue = <<>> \/ Head(f.queue) = <<>>
    THEN NextBatch([f EXCEPT !.drain = TRUE, !.queue = Drop(f.queue, 1)], size)
    ELSE NextBatch([f EXCEPT !.pending = f.pending \o Head(f.queue),
                             !.queue = Tail(f.queue)], size)

\* The first n of the batch were stored; the others go back to the end of the queue
Returned(f, n, size) ==
    NextBatch([f EXCEPT !.pending = f.pending \o Drop(f.batch, n)], size)

Ended(task) == task.pc \in {"done", "err"}
Sent(f, batch) == [f EXCEPT !.queue = Append(f.queue, batch)]

Room(f) == Len(f.queue) < ChannelCap

NoMain == [pc |-> "idle", cur |-> None, to |-> None, got |-> <<>>, at |-> 0,
           bodies |-> <<>>]
NoBlocks == [pc |-> "off", hashes |-> <<>>]
NoState == [pc |-> "off", roots |-> <<>>, start |-> 0, trie |-> {}, reply |-> {},
            wanted |-> <<>>, more |-> FALSE]

SyncInit ==
    /\ headers = Imported
    /\ bodies = [b \in Blocks |-> IF b \in Imported THEN b ELSE None]
    /\ tries = {State[b] : b \in Imported}
    /\ storages = UNION {SlotsOf(b) : b \in Imported}
    /\ codes = [c \in Codes |->
                   IF c \in UNION {CodesOf(b) : b \in Imported} THEN c ELSE Empty]
    /\ latest = Max({Number[b] : b \in Imported})
    /\ canonical = [n \in Heights |->
                      IF n > latest THEN None ELSE CHOOSE b \in Imported : Number[b] = n]
    /\ mode = BootMode
    /\ spawned = <<>> /\ hasty = {}
    /\ channels = Connected /\ waiting = None
    /\ main = NoMain /\ blocks = NoBlocks /\ state = NoState
    /\ code = NoFetcher /\ storage = <<>>
    /\ left = MaxEvents

(***************************************************************************)
(* The engine calls.  Their own steps are modelled by EngineApi; here each *)
(* is one step, because the question is what they find in the tables.      *)
(***************************************************************************)
\* add_block of a block with the given body: whether it is executed and stored
Addable(b, body) ==
    /\ Parent[b] \in headers
    /\ Complete(Parent[b])
    /\ Defect[b] = "none" /\ body = b

Add(b) ==
    /\ headers' = headers \cup {b}
    /\ bodies' = [bodies EXCEPT ![b] = b]
    /\ tries' = tries \cup {State[b]}
    /\ storages' = storages \cup SlotsOf(b)
    /\ codes' = [c \in Codes |-> IF c \in CodesOf(b) THEN c ELSE codes[c]]

\* A call was answered; the verdict is hasty when it rests on an incomplete state
Answered(verdict, b, needs) ==
    /\ left' = left - 1
    /\ hasty' = IF Complete(needs) THEN hasty ELSE hasty \cup {<<verdict, b>>}

\* engine_newPayload: a block whose header is stored is VALID without execution.  A
\* block that fails to execute is INVALID, also where the reason is that part of the
\* parent's state is missing; missed only when the new state is written, it is an
\* internal error (StoreError, ParentStateNotFound), which is no verdict
NewPayload(b) ==
    /\ left > 0 /\ b # Genesis
    /\ \/ b \in headers /\ Answered("VALID", b, b) /\ UNCHANGED store
       \/ b \notin headers /\ Parent[b] \notin headers
          /\ Answered("SYNCING", b, Genesis) /\ UNCHANGED store
       \/ b \notin headers /\ Addable(b, b) /\ Add(b)
          /\ Answered("VALID", b, Parent[b]) /\ UNCHANGED <<canonical, latest>>
       \/ b \notin headers /\ Parent[b] \in headers /\ ~Addable(b, b)
          /\ Answered("INVALID", b, Parent[b]) /\ UNCHANGED store
       \/ b \notin headers /\ Parent[b] \in headers /\ ~Complete(Parent[b])
          /\ left' = left - 1 /\ UNCHANGED <<store, hasty>>
    /\ UNCHANGED <<mode, spawned, tasks, table>>

Stored(b) == b \in headers /\ bodies[b] # None
IsCanonical(b) == canonical[Number[b]] = b

\* The ancestors of b that are above its last canonical ancestor
NewCanonical(b) ==
    {a \in Ancestors[b] :
        \A c \in Ancestors[b] : Number[c] >= Number[a] => ~IsCanonical(c)}

\* engine_forkchoiceUpdated for a head that is stored
ForkchoiceValid(b) ==
    /\ left > 0 /\ Stored(b)
    /\ ~(IsCanonical(b) /\ Number[b] < latest)
    /\ NewCanonical(b) \subseteq headers
    /\ canonical' = [n \in Heights |->
                       IF n > Number[b] /\ n <= latest THEN None
                       ELSE IF \E a \in NewCanonical(b) \cup {b} : Number[a] = n
                            THEN Branch(b)[n] ELSE canonical[n]]
    /\ latest' = Number[b]
    /\ Answered("VALID", b, b)
    /\ UNCHANGED <<headers, bodies, tries, storages, codes, mode, spawned, tasks, table>>

\* engine_forkchoiceUpdated for a head that is missing: SYNCING, and a task is spawned
ForkchoiceSyncing(b) ==
    /\ left > 0 /\ ~Stored(b)
    /\ canonical[latest] # None
    /\ spawned' = Append(spawned, [from |-> canonical[latest], to |-> b])
    /\ Answered("SYNCING", b, Genesis)
    /\ UNCHANGED <<store, mode, tasks, table>>

(***************************************************************************)
(* KademliaTable::get_peer_channels, which every request starts with: the  *)
(* least recently pinged peer, whichever that is, and its channels.  The   *)
(* lock on the table is held until the call returns, so while it sleeps    *)
(* and tries again no connection can store its channels.                   *)
(***************************************************************************)
Reaches(p) == waiting = None /\ p \in channels

Requesting ==
    \/ main.pc \in {"headers", "bodies"} \/ blocks.pc = "fetch" \/ state.pc = "range"
    \/ code.pc = "fetch" \/ \E i \in 1 .. Len(storage) : storage[i].pc = "fetch"

\* One turn of the loop: the table cannot change between two turns, nor can its choice
GetPeerChannels(p) ==
    /\ Requesting /\ waiting \in {None, p}
    /\ waiting' = IF p \in channels THEN None ELSE p
    /\ UNCHANGED <<store, mode, spawned, tasks, channels, hasty, left>>

\* A connection is established: init_peer_conn and set_channels need the lock
Connect(p) ==
    /\ waiting = None /\ p \notin channels
    /\ channels' = channels \cup {p}
    /\ UNCHANGED <<store, mode, spawned, tasks, waiting, hasty, left>>

(***************************************************************************)
(* sync_cycle.                                                             *)
(***************************************************************************)
\* The spawned task: without the lock it ends, with it start_sync runs
StartSync(i) ==
    /\ spawned' = Take(spawned, i - 1) \o Drop(spawned, i)
    /\ main' = IF main.pc # "idle" THEN main
               ELSE [NoMain EXCEPT !.pc = "headers", !.cur = spawned[i].from,
                                   !.to = spawned[i].to]
    /\ UNCHANGED <<store, mode, blocks, state, code, storage, table, hasty, left>>

Reversed(s) == [i \in 1 .. Len(s) |-> s[Len(s) - i + 1]]

\* The header loop: the first header is discarded, the last one is asked for next
FetchHeaders(p) ==
    LET reply == HeaderReply(p, main.cur)
        got == main.got \o Drop(reply, 1)
        next == [main EXCEPT !.got = got, !.at = 1]
    IN /\ main.pc = "headers" /\ Reaches(p) /\ reply # <<>>
       /\ IF main.to \notin Range(reply)
          THEN /\ main' = [main EXCEPT !.got = got, !.cur = reply[Len(reply)]]
               /\ UNCHANGED <<blocks, state, code>>
          ELSE IF mode = "Full"
          THEN main' = [next EXCEPT !.pc = "bodies"] /\ UNCHANGED <<blocks, state, code>>
          ELSE /\ main' = [next EXCEPT !.pc = "canonical"]
               /\ blocks' = [pc |-> "fetch", hashes |-> got]
               /\ code' = NewFetcher(None)
               /\ state' = [NoState EXCEPT !.pc = "next", !.roots = Reversed(got)]
       /\ UNCHANGED <<store, mode, spawned, storage, table, hasty, left>>

\* The header loop of the snap mode: the canonical entry first, then the header
StoreHeader ==
    LET b == main.got[main.at]
    IN /\ \/ /\ main.pc = "canonical" /\ main.at <= Len(main.got)
             /\ canonical' = [canonical EXCEPT ![Number[b]] = b]
             /\ main' = [main EXCEPT !.pc = "header"]
             /\ UNCHANGED headers
          \/ /\ main.pc = "header"
             /\ headers' = headers \cup {b}
             /\ main' = [main EXCEPT !.pc = "canonical", !.at = @ + 1]
             /\ UNCHANGED canonical
          \/ /\ main.pc = "canonical" /\ main.at > Len(main.got)
             /\ main' = [main EXCEPT !.pc = "join"]
             /\ UNCHANGED <<canonical, headers>>
       /\ UNCHANGED <<bodies, tries, storages, codes, latest, mode, spawned, blocks, state,
                      code, storage, table, hasty, left>>


\* join_all, and the latest number once every task has succeeded
JoinTasks ==
    /\ main.pc = "join"
    /\ Ended(blocks) /\ Ended(state) /\ Ended(code)
    /\ IF "err" \in {blocks.pc, state.pc, code.pc}
       THEN UNCHANGED <<latest, mode>>
       ELSE /\ latest' = IF main.got = <<>> THEN 0 ELSE Number[main.got[Len(main.got)]]
            /\ mode' = "Full"
    /\ main' = NoMain /\ blocks' = NoBlocks /\ state' = NoState /\ code' = NoFetcher
    /\ UNCHANGED <<headers, bodies, tries, storages, codes, canonical, spawned, storage,
                   table, hasty, left>>

\* download_and_run_blocks: the bodies of the next blocks
FetchFullBodies(p) ==
    LET reply == BodyReply(p, main.got)
    IN /\ main.pc = "bodies" /\ Reaches(p) /\ reply # <<>>
       /\ main' = [main EXCEPT !.pc = "add", !.bodies = reply]
       /\ UNCHANGED <<store, mode, spawned, blocks, state, code, storage, table, hasty, left>>

\* One block of the reply: add_block, then its canonical entry, then the latest number
RunBlock ==
    LET b == Head(main.got)
        rest == [main EXCEPT !.got = Tail(@), !.bodies = Tail(@)]
    IN /\ \/ /\ main.pc = "add" /\ Addable(b, Head(main.bodies))
             /\ Add(b)
             /\ main' = [main EXCEPT !.pc = "set"]
             /\ UNCHANGED <<canonical, latest, mode>>
          \/ /\ main.pc = "add" /\ ~Addable(b, Head(main.bodies))
             /\ main' = NoMain
             /\ UNCHANGED <<store, mode>>
          \/ /\ main.pc = "set"
             /\ canonical' = [canonical EXCEPT ![Number[b]] = b]
             /\ main' = [main EXCEPT !.pc = "latest"]
             /\ UNCHANGED <<headers, bodies, tries, storages, codes, latest, mode>>
          \/ /\ main.pc = "latest"
             /\ latest' = Number[b]
             /\ main' = CASE rest.bodies # <<>> -> [rest EXCEPT !.pc = "add"]
                          [] rest.bodies = <<>> /\ rest.got # <<>> -> [rest EXCEPT !.pc = "bodies"]
                          [] OTHER -> NoMain
             /\ UNCHANGED <<headers, bodies, tries, storages, codes, canonical, mode>>
       /\ UNCHANGED <<spawned, blocks, state, code, storage, table, hasty, left>>

(***************************************************************************)
(* The tasks of the snap mode.                                             *)
(***************************************************************************)
\* fetch_blocks_and_receipts: bodies are paired with the hashes by position
FetchBodies(p) ==
    LET reply == BodyReply(p, blocks.hashes)
        rest == Drop(blocks.hashes, Len(reply))
        At(b) == CHOOSE i \in 1 .. Len(reply) : blocks.hashes[i] = b
    IN /\ blocks.pc = "fetch" /\ Reaches(p) /\ reply # <<>>
       /\ bodies' = [b \in Blocks |-> IF b \in Range(Take(blocks.hashes, Len(reply)))
                                      THEN reply[At(b)] ELSE bodies[b]]
       /\ blocks' = [pc |-> IF rest = <<>> THEN "done" ELSE "fetch", hashes |-> rest]
       /\ UNCHANGED <<headers, tries, storages, codes, canonical, latest, mode, spawned,
                      main, state, code, storage, table, hasty, left>>

Newest == storage[Len(storage)]

\* An error in the state task drops the handle of the storage fetcher, which runs on
StillRunning == LET Runs(f) == ~Ended(f) IN SelectSeq(storage, Runs)

StateFails ==
    /\ state' = [state EXCEPT !.pc = "err"]
    /\ storage' = StillRunning

WithNewest(f) == [storage EXCEPT ![Len(storage)] = f]

\* fetch_snap_state: the next root, newest first, with a storage fetcher of its own;
\* after the last one the end signal for the bytecode fetcher
NextRoot ==
    /\ state.pc = "next"
    /\ \/ /\ state.roots # <<>>
          /\ state' = [NoState EXCEPT !.pc = "range", !.roots = state.roots]
          /\ storage' = Append(storage, NewFetcher(Head(state.roots)))
          /\ UNCHANGED code
       \/ /\ state.roots = <<>> /\ ~Ended(code) /\ Room(code)
          /\ state' = [state EXCEPT !.pc = "done"]
          /\ code' = Sent(code, <<>>)
          /\ UNCHANGED storage
       \/ /\ state.roots = <<>> /\ Ended(code)
          /\ StateFails
          /\ UNCHANGED code
    /\ UNCHANGED <<store, mode, spawned, main, blocks, table, hasty, left>>

\* The accounts of a range in trie order
InOrder(entries) ==
    [i \in 1 .. Cardinality(entries) |->
        CHOOSE e \in entries : Cardinality({f \in entries : f.account < e.account}) = i - 1]

\* request_account_range, and the code hashes that are not stored yet.  A range that
\* does not belong to the root is rejected by verify_range; more says that the trie
\* has accounts to the right, and the next range starts at the last account again
FetchAccounts(p) ==
    LET b == Head(state.roots)
        reply == AccountReply(b, state.start)
        list == InOrder(reply)
        more == reply # AccountsFrom(b, state.start)
        Missing(e) == e.code # Empty /\ codes[e.code] = Empty
        lacking == SelectSeq(list, Missing)
    IN /\ state.pc = "range" /\ Reaches(p) /\ b \in PeerStore[p].states
       /\ state' = [state EXCEPT !.pc = "codes", !.reply = reply, !.more = more,
                                 !.start = IF more THEN list[Len(list)].account ELSE @,
                                 !.wanted = [i \in 1 .. Len(lacking) |-> lacking[i].code]]
       /\ UNCHANGED <<store, mode, spawned, main, blocks, code, storage, table, hasty, left>>


\* The batches for the fetchers; a channel that is full delays the task, a fetcher
\* that is gone fails it
SendCodes ==
    /\ state.pc = "codes"
    /\ \/ /\ state.wanted = <<>>
          /\ state' = [state EXCEPT !.pc = "slots"] /\ UNCHANGED <<code, storage>>
       \/ /\ state.wanted # <<>> /\ ~Ended(code) /\ Room(code)
          /\ state' = [state EXCEPT !.pc = "slots"] /\ code' = Sent(code, state.wanted)
          /\ UNCHANGED storage
       \/ /\ state.wanted # <<>> /\ Ended(code)
          /\ StateFails /\ UNCHANGED code
    /\ UNCHANGED <<store, mode, spawned, main, blocks, table, hasty, left>>

SendSlots ==
    LET Has(e) == e.root # Empty
        with == SelectSeq(InOrder(state.reply), Has)
        pairs == [i \in 1 .. Len(with) |-> <<with[i].account, with[i].root>>]
    IN /\ state.pc = "slots"
       /\ \/ /\ pairs = <<>>
             /\ state' = [state EXCEPT !.pc = "trie"] /\ UNCHANGED storage
          \/ /\ pairs # <<>> /\ ~Ended(Newest) /\ Room(Newest)
             /\ state' = [state EXCEPT !.pc = "trie"]
             /\ storage' = WithNewest(Sent(Newest, pairs))
          \/ /\ pairs # <<>> /\ Ended(Newest)
             /\ StateFails
       /\ UNCHANGED <<store, mode, spawned, main, blocks, code, table, hasty, left>>

\* The range is inserted into the trie of the ranges before it and its nodes stored
UpdateTrie ==
    /\ state.pc = "trie"
    /\ state' = [state EXCEPT !.pc = IF state.more THEN "range" ELSE "end",
                              !.trie = @ \cup state.reply, !.reply = {}, !.wanted = <<>>]
    /\ tries' = tries \cup {state'.trie}
    /\ UNCHANGED <<headers, bodies, storages, codes, canonical, latest, mode, spawned,
                   main, blocks, code, storage, table, hasty, left>>

\* Faulty variant: no end signal
EndStorageSilently ==
    /\ state.pc = "end"
    /\ state' = [state EXCEPT !.pc = "join"]
    /\ UNCHANGED <<store, mode, spawned, main, blocks, code, storage, table, hasty, left>>

\* The end signal for the storage fetcher; a wrong root would only be logged
EndStorage ==
    /\ state.pc = "end"
    /\ \/ /\ ~Ended(Newest) /\ Room(Newest)
          /\ state' = [state EXCEPT !.pc = "join"]
          /\ storage' = WithNewest(Sent(Newest, <<>>))
       \/ /\ Ended(Newest)
          /\ StateFails
    /\ UNCHANGED <<store, mode, spawned, main, blocks, code, table, hasty, left>>

JoinStorage ==
    /\ state.pc = "join" /\ Ended(Newest)
    /\ state' = IF Newest.pc = "err" THEN [state EXCEPT !.pc = "err"]
                ELSE [NoState EXCEPT !.pc = "next", !.roots = Tail(state.roots)]
    /\ storage' = Take(storage, Len(storage) - 1)
    /\ UNCHANGED <<store, mode, spawned, main, blocks, code, table, hasty, left>>

\* bytecode_fetcher takes a batch from its channel
ReceiveCodes ==
    /\ code.pc = "recv"
    /\ code.queue # <<>> \/ state.pc \in {"off", "done", "err"}
    /\ code' = Received(code, CodeBatch)
    /\ UNCHANGED <<store, mode, spawned, main, blocks, state, storage, table, hasty, left>>

\* fetch_bytecode_batch: bytecodes are paired with the hashes by position
FetchCodes(p) ==
    LET reply == CodeReply(p, code.batch)
        taken == Take(code.batch, Len(reply))
        At(c) == Max({i \in 1 .. Len(taken) : taken[i] = c})
    IN /\ code.pc = "fetch" /\ Reaches(p) /\ reply # <<>>
       /\ codes' = [c \in Codes |-> IF c \in Range(taken) THEN reply[At(c)] ELSE codes[c]]
       /\ code' = Returned(code, Len(reply), CodeBatch)
       /\ UNCHANGED <<headers, bodies, tries, storages, canonical, latest, mode, spawned,
                      main, blocks, state, storage, table, hasty, left>>

\* Whether rebuild_state_trie still holds the sender and the handle of storage fetcher i
Held(i) == i = Len(storage) /\ state.pc \in {"range", "codes", "slots", "trie", "end", "join"}

\* Storage fetcher i goes on as f; one that nobody waits for is gone once it has ended
StorageBecomes(i, f) ==
    storage' = IF Ended(f) /\ ~Held(i) THEN Take(storage, i - 1) \o Drop(storage, i)
               ELSE [storage EXCEPT ![i] = f]

ReceiveSlots(i) ==
    /\ storage[i].pc = "recv"
    /\ storage[i].queue # <<>> \/ ~Held(i)
    /\ StorageBecomes(i, Received(storage[i], StorageBatch))
    /\ UNCHANGED <<store, mode, spawned, main, blocks, state, code, table, hasty, left>>

\* fetch_storage_batch: the verified storage tries are stored
FetchSlots(i, p) ==
    LET f == storage[i]
        n == StorageReply(f.batch)
    IN /\ f.pc = "fetch" /\ Reaches(p) /\ f.of \in PeerStore[p].states /\ n > 0
       /\ storages' = storages \cup Range(Take(f.batch, n))
       /\ StorageBecomes(i, Returned(f, n, StorageBatch))
       /\ UNCHANGED <<headers, bodies, tries, codes, canonical, latest, mode, spawned, main,
                      blocks, state, code, table, hasty, left>>

(***************************************************************************)
(* Faults: a database call fails, or the process stops.                    *)
(***************************************************************************)
Fault == left > 0 /\ left' = left - 1

\* An error in a task ends that task; the others run on and join_all waits for them
TaskFails ==
    /\ Fault
    /\ \/ /\ blocks.pc = "fetch"
          /\ blocks' = [blocks EXCEPT !.pc = "err"] /\ UNCHANGED <<state, code, storage>>
       \/ /\ state.pc \in {"codes", "trie"}
          /\ StateFails /\ UNCHANGED <<blocks, code>>
       \/ /\ code.pc = "fetch"
          /\ code' = [code EXCEPT !.pc = "err"] /\ UNCHANGED <<blocks, state, storage>>
       \/ /\ \E i \in 1 .. Len(storage) :
                /\ storage[i].pc = "fetch"
                /\ StorageBecomes(i, [storage[i] EXCEPT !.pc = "err"])
          /\ UNCHANGED <<blocks, state, code>>
    /\ UNCHANGED <<store, mode, spawned, main, table, hasty>>

\* An error in sync_cycle itself drops the JoinSet, which aborts its tasks; the storage
\* fetcher was spawned on its own and runs on
CycleFails ==
    /\ Fault
    /\ main.pc \in {"canonical", "header", "set", "latest"}
    /\ main' = NoMain /\ blocks' = NoBlocks /\ state' = NoState /\ code' = NoFetcher
    /\ storage' = StillRunning
    /\ UNCHANGED <<store, mode, spawned, table, hasty>>

Crash ==
    /\ Fault
    /\ mode' = BootMode /\ spawned' = <<>>
    /\ main' = NoMain /\ blocks' = NoBlocks /\ state' = NoState
    /\ code' = NoFetcher /\ storage' = <<>>
    /\ channels' = Connected /\ waiting' = None
    /\ UNCHANGED <<store, hasty>>

\* What the environment does: calls, database errors, the process stopping
Environment ==
    \/ \E b \in Calls : NewPayload(b) \/ ForkchoiceValid(b) \/ ForkchoiceSyncing(b)
    \/ \E p \in Peers : Connect(p)
    \/ TaskFails \/ CycleFails \/ Crash

\* A step of one of the tasks of the node
Work ==
    \/ StoreHeader \/ JoinTasks \/ RunBlock
    \/ NextRoot \/ SendCodes \/ SendSlots \/ UpdateTrie \/ EndStorage \/ JoinStorage
    \/ ReceiveCodes
    \/ \E i \in 1 .. Len(storage) : ReceiveSlots(i)
    \/ \E i \in 1 .. Len(spawned) : StartSync(i)
    \/ \E p \in Peers :
          \/ FetchHeaders(p) \/ FetchFullBodies(p) \/ FetchBodies(p)
          \/ FetchAccounts(p) \/ FetchCodes(p) \/ GetPeerChannels(p)
          \/ \E i \in 1 .. Len(storage) : FetchSlots(i, p)

SyncNext == Environment \/ Work

SyncSpec == SyncInit /\ [][SyncNext]_syncVars

(***************************************************************************)
(* The runtime goes on as long as some task can: a task that is ready is   *)
(* polled, and a request that is repeated reaches a peer that can serve it *)
(* at last, because the peers are pinged in turn.  A reply that changes    *)
(* nothing is not a step of the task.                                      *)
(***************************************************************************)
SyncFairness == WF_syncVars(Work)

----------------------------------------------------------------------------
Fetchers == [pc : {"off", "recv", "fetch", "done", "err"}, queue : Seq(Seq(Codes)),
             pending : Seq(Codes), batch : Seq(Codes), drain : BOOLEAN, of : Blocks \cup {None}]

\* Every variable keeps its type, and no channel holds more than its capacity
TypeOK ==
    /\ headers \subseteq Blocks
    /\ bodies \in [Blocks -> Blocks \cup {None}]
    /\ codes \in [Codes -> Codes \cup {Empty}]
    /\ canonical \in [Heights -> Blocks \cup {None}]
    /\ latest \in Heights
    /\ mode \in {"Full", "Snap"}
    /\ spawned \in Seq([from : Blocks, to : Blocks])
    /\ channels \subseteq Peers /\ waiting \in Peers \cup {None}
    /\ main.got \in Seq(Blocks) /\ main.at \in Nat
    /\ code \in Fetchers /\ Len(code.queue) <= ChannelCap
    /\ \A i \in 1 .. Len(storage) :
          storage[i].pc \in {"recv", "fetch"} \/ Held(i)
    /\ \A t \in tries : \E b \in Blocks : t \subseteq State[b]

\* sync.rs: "Set latest block number here to avoid reading state that is currently being
\* synced": the block at the latest number is stored with its own body and its whole
\* state, storage and code, unless a fork choice call put it there by a hasty verdict
LatestComplete ==
    LET b == canonical[latest]
    IN /\ b # None
       /\ <<"VALID", b>> \in hasty \/ (b \in headers /\ bodies[b] = b /\ Complete(b))

\* Refuted: the same without the exception
LatestAlwaysComplete == canonical[latest] # None /\ Complete(canonical[latest])

\* Refuted where a peer lacks one of the bytecodes it is asked for: request_bytecodes
\* and request_block_bodies return None "if the response was empty or not valid", so
\* that a bytecode and a body are stored under their own hash
StoredUnderOwnHash ==
    /\ \A c \in Codes : codes[c] \in {c, Empty}
    /\ \A b \in Blocks : bodies[b] \in {b, None}

\* Refuted where the sync starts from a block off its peer's chain: the canonical chain
\* up to the latest number is a chain, each block the parent of the next
CanonicalLinked ==
    \A n \in 1 .. latest : canonical[n] # None /\ Parent[canonical[n]] = canonical[n - 1]


\* Refuted: a verdict of the engine API does not depend on a sync in progress
VerdictsUnhurried == hasty = {}

\* Refuted: "aborts all active processes": when no sync cycle runs, none of its tasks does
TasksStopped == main.pc = "idle" => storage = <<>>

\* A sync cycle that succeeds leaves its sync head canonical, at or below the latest number
HeadReached ==
    [][(/\ main.pc \in {"join", "latest"} /\ main'.pc = "idle" /\ left' = left
        /\ "err" \notin {blocks.pc, state.pc, code.pc})
          => canonical'[Number[main.to]] = main.to /\ Number[main.to] <= latest']_syncVars

\* Refuted: the latest number never goes back while a sync works towards a newer block
LatestAdvances == [][main.pc # "idle" => latest' >= latest]_syncVars

\* A sync cycle ends, unless a request found a peer without a connection
SyncEnds == main.pc # "idle" ~> (main.pc = "idle" \/ waiting # None)

\* A cycle gets where it is going
SyncReaches == SyncEnds /\ HeadReached

\* Refuted: get_peer_channels: "If no peer is found, this method will try again after 10 seconds":
\* a call that waits for a peer goes on at last
PeerFound == waiting # None ~> waiting = None
=============================================================================
