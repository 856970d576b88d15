------------------------------ MODULE EngineApi ------------------------------
(***************************************************************************)
(* engine_newPayload and engine_forkchoiceUpdated over the Store: the      *)
(* handlers of crates/networking/rpc/engine, add_block and                 *)
(* apply_fork_choice of crates/blockchain, and the tables they write.      *)
(*                                                                         *)
(* Every table write is a database transaction of its own and no lock is   *)
(* held across a handler, so each write is a step of its own; handlers run *)
(* on the worker threads of the RPC server and interleave, and a crash may *)
(* fall between any two steps.                                             *)
(***************************************************************************)
EXTENDS BlockTree, Sequences

CONSTANTS
    Handlers,            \* concurrent RPC handler tasks
    Engine,              \* the storage engine the node was built with
    Serial,              \* TRUE: the client waits for an answer before it calls again
    MayCrash,            \* TRUE: the process may stop between two steps
    Requests,            \* the fork choice states the consensus client may send
    FinalityRespected,   \* TRUE: the client never finalizes against its own finality
    GenesisPastTTD,      \* whether genesis reaches the terminal total difficulty
    Imported             \* the blocks earlier calls stored; {Genesis} on a fresh node

VARIABLES
    tables,      \* block tables: the blocks (hashes) each of them has an entry for
    pending,     \* PendingBlocks table
    canonical,   \* CanonicalBlockHashes table: number -> hash
    latest,      \* ChainData: LatestBlockNumber
    safe,        \* ChainData: SafeBlockNumber, or NoNumber
    finalized,   \* ChainData: FinalizedBlockNumber, or NoNumber
    pc,          \* where each handler is
    req,         \* the call each handler serves, or gave its last verdict on
    local,       \* the handler's local variables
    reply,       \* the handler's last answer, once pc is back at "idle"
    sentFinal    \* the last finalized hash a client that respects finality sent

store == <<tables, pending, canonical, latest, safe, finalized>>
handlers == <<pc, req, local, reply>>
vars == <<store, handlers, sentFinal>>

Hash == Blocks \cup {None}
NoNumber == -1

Engines == {"libmdbx", "redb", "in_memory"}

\* Faulty variant: the header is written before the body
StoreOrderHeaderFirst ==
    <<"states", "locations", "headers", "bodies", "numbers", "difficulties", "receipts">>

(***************************************************************************)
(* add_block writes the post-state (apply_account_updates), then           *)
(* Store::add_block its five tables, then store_receipts the receipts.     *)
(***************************************************************************)
StoreOrder ==
    <<"states", "locations", "bodies", "headers", "numbers", "difficulties", "receipts">>

Tables == {"states", "locations", "bodies", "headers", "numbers", "difficulties", "receipts"}

Calls == [call : {"none", "newPayload", "forkchoiceUpdated"},
          head : Hash, safe : Hash, finalized : Hash]

NoCall == [call |-> "none", head |-> None, safe |-> None, finalized |-> None]

NewPayloadCall(b) == [call |-> "newPayload", head |-> b, safe |-> None, finalized |-> None]

ForkchoiceCall(r) == [call |-> "forkchoiceUpdated", head |-> r.head,
                      safe |-> r.safe, finalized |-> r.finalized]

NoBranch == [n \in Heights |-> None]

(***************************************************************************)
(* Locals: cur, the header find_link_with_canonical_chain stands on;       *)
(* branch, the blocks it collected, by number; link, link_block_number;    *)
(* seen, the latest number read at the start; found, which of the safe and *)
(* finalized blocks the lookup returned; at, the position of the next      *)
(* write.                                                                  *)
(***************************************************************************)
Locals == [cur : Hash, branch : [Heights -> Hash], link : Heights, seen : Heights,
           found : SUBSET {"safe", "finalized"}, at : Int]

NoLocals == [cur |-> None, branch |-> NoBranch, link |-> 0, seen |-> 0,
             found |-> {}, at |-> 0]

WritingPcs == {"branch", "unset", "head", "finalized", "safe", "latest"}
ReadingPcs == {"read_latest", "check_head", "link", "walk", "connected", "already", "syncing"}
Pcs == {"idle", "store"} \cup ReadingPcs \cup WritingPcs

Verdicts == {"VALID", "ALREADY", "INVALID"}
Replies == Verdicts \cup {"none", "SYNCING", "error", "panic"}

ASSUME EngineAssumption ==
    /\ Engine \in Engines
    /\ Serial \in BOOLEAN
    /\ MayCrash \in BOOLEAN
    /\ FinalityRespected \in BOOLEAN
    /\ GenesisPastTTD \in BOOLEAN
    /\ Requests \subseteq [head : Hash, safe : Hash, finalized : Hash]
    /\ Genesis \in Imported /\ Imported \subseteq Blocks
    /\ \A b \in Imported :
          Defect[b] = "none" /\ (b # Genesis => Parent[b] \in Imported)

-----------------------------------------------------------------------------
(***************************************************************************)
(* Store::add_initial_state left genesis in every table and canonical;     *)
(* earlier newPayload calls may have stored more blocks, none of them made *)
(* canonical yet.  Genesis has no receipts; its entry stands for that.     *)
(***************************************************************************)
Init ==
    /\ tables = [t \in Tables |-> Imported]
    /\ pending = {}
    /\ canonical = [n \in Heights |-> IF n = 0 THEN Genesis ELSE None]
    /\ latest = 0
    /\ safe = NoNumber
    /\ finalized = NoNumber
    /\ pc = [p \in Handlers |-> "idle"]
    /\ req = [p \in Handlers |-> NoCall]
    /\ local = [p \in Handlers |-> NoLocals]
    /\ reply = [p \in Handlers |-> "none"]
    /\ sentFinal = None

\* Faulty variant: a pending block counts as a stored one
HasHeaderOrPending(b) == b \in tables["headers"] \cup pending

HasHeader(b) == b \in tables["headers"]

\* get_block_by_hash needs the header and the body
Stored(b) == b \in tables["headers"] /\ b \in tables["bodies"]

\* is_canonical(number of b, b)
IsCanonical(b) == canonical[Number[b]] = b

Goto(p, label) == pc' = [pc EXCEPT ![p] = label]

\* The handler answers the call; a call it gave no verdict on is forgotten
Return(p, call, answer) ==
    /\ pc' = [pc EXCEPT ![p] = "idle"]
    /\ reply' = [reply EXCEPT ![p] = answer]
    /\ local' = [local EXCEPT ![p] = NoLocals]
    /\ req' = [req EXCEPT ![p] = IF answer \in Verdicts THEN call ELSE NoCall]

\* A handler task is free to take up a call
Free(p) ==
    /\ pc[p] = "idle"
    /\ Serial => \A q \in Handlers : pc[q] = "idle"

\* The handler takes up the call and goes on at the label
TakeUp(p, call, label) ==
    /\ pc' = [pc EXCEPT ![p] = label]
    /\ reply' = [reply EXCEPT ![p] = "none"]
    /\ req' = [req EXCEPT ![p] = call]

-----------------------------------------------------------------------------
(***************************************************************************)
(* engine_newPayload.                                                      *)
(***************************************************************************)

\* The header is already stored: answered VALID without looking further
PayloadKnown(p, b) ==
    /\ HasHeader(b)
    /\ Return(p, NewPayloadCall(b), "VALID")
    /\ UNCHANGED pending

\* The parent's header is missing: kept as pending, answered SYNCING
PayloadOrphan(p, b) ==
    /\ ~HasHeader(b)
    /\ ~HasHeader(Parent[b])
    /\ pending' = pending \cup {b}
    /\ Return(p, NewPayloadCall(b), "SYNCING")

(***************************************************************************)
(* A check of add_block fails.  A "root" defect is noticed after the trie  *)
(* nodes of the computed state were written; they are keyed by their own   *)
(* hash and no stored header names that root, so no table here changes.    *)
(***************************************************************************)
PayloadInvalid(p, b) ==
    /\ ~HasHeader(b)
    /\ HasHeader(Parent[b])
    /\ Defect[b] # "none"
    /\ Return(p, NewPayloadCall(b), "INVALID")
    /\ UNCHANGED pending

\* All checks pass: the writes follow, one per step
PayloadExecuted(p, b) ==
    /\ ~HasHeader(b)
    /\ HasHeader(Parent[b])
    /\ Defect[b] = "none"
    /\ TakeUp(p, NewPayloadCall(b), "store")
    /\ local' = [local EXCEPT ![p].at = 1]
    /\ UNCHANGED pending

\* execute_payload up to the first write
NewPayload(p, b) ==
    /\ Free(p)
    /\ \/ PayloadKnown(p, b)
       \/ PayloadOrphan(p, b)
       \/ PayloadInvalid(p, b)
       \/ PayloadExecuted(p, b)
    /\ UNCHANGED <<tables, canonical, latest, safe, finalized, sentFinal>>

\* One table write of add_block; after the last one the answer is VALID
StoreBlock(p) ==
    LET i == local[p].at
    IN  /\ pc[p] = "store"
        /\ tables' = [tables EXCEPT ![StoreOrder[i]] = @ \cup {req[p].head}]
        /\ IF i < Len(StoreOrder)
           THEN /\ local' = [local EXCEPT ![p].at = i + 1]
                /\ UNCHANGED <<pc, req, reply>>
           ELSE Return(p, req[p], "VALID")
        /\ UNCHANGED <<pending, canonical, latest, safe, finalized, sentFinal>>

-----------------------------------------------------------------------------
(***************************************************************************)
(* engine_forkchoiceUpdated: the reads of apply_fork_choice.               *)
(***************************************************************************)

\* check_order: both blocks present and in order, or what is answered instead
CheckOrder(b1, b2) ==
    IF Stored(b1) /\ Stored(b2)
    THEN IF Number[b1] > Number[b2] THEN "error" ELSE "ok"
    ELSE IF Stored(b2) THEN "error" ELSE "syncing"

SafeOrder(r) == IF r.safe = None THEN "ok" ELSE CheckOrder(r.safe, r.head)

FinalizedOrder(r) ==
    IF r.safe = None \/ r.finalized = None THEN "ok" ELSE CheckOrder(r.finalized, r.safe)

\* Faulty variant: a head that is not stored passes the lookups
LookupAnyHead(r) ==
    IF r.head = None THEN "error"
    ELSE IF SafeOrder(r) # "ok" THEN SafeOrder(r)
    ELSE IF FinalizedOrder(r) # "ok" THEN FinalizedOrder(r)
    ELSE "ok"

(***************************************************************************)
(* The lookups and the checks that use only them.  Stored blocks other     *)
(* than genesis have difficulty zero, so total_difficulty_check can only   *)
(* refuse genesis.                                                         *)
(***************************************************************************)
LookupOutcome(r) ==
    IF r.head = None THEN "error"
    ELSE IF SafeOrder(r) # "ok" THEN SafeOrder(r)
    ELSE IF FinalizedOrder(r) # "ok" THEN FinalizedOrder(r)
    ELSE IF ~Stored(r.head) THEN "syncing"
    ELSE IF r.head = Genesis /\ ~GenesisPastTTD THEN "error"
    ELSE "ok"

Found(r) == {t \in {"safe", "finalized"} : Stored(r[t])}

(***************************************************************************)
(* What a client that respects finality sends: the finalized hash is set   *)
(* and descends from the one it sent before.                               *)
(***************************************************************************)
RespectsFinality(r) ==
    /\ r.finalized # None
    /\ sentFinal # None => sentFinal \in Ancestors[r.finalized]

\* The call arrives; blocks are looked up and their order is checked
ForkchoiceUpdated(p, r) ==
    LET outcome == LookupOutcome(r)
    IN  /\ Free(p)
        /\ FinalityRespected => RespectsFinality(r)
        /\ sentFinal' = IF FinalityRespected THEN r.finalized ELSE sentFinal
        /\ \/ outcome = "error" /\ Return(p, ForkchoiceCall(r), "error")
           \/ /\ outcome = "syncing"
              /\ TakeUp(p, ForkchoiceCall(r), "syncing")
              /\ UNCHANGED local
           \/ /\ outcome = "ok"
              /\ TakeUp(p, ForkchoiceCall(r), "read_latest")
              /\ local' = [local EXCEPT ![p].found = Found(r)]
        /\ UNCHANGED store

\* Answers SYNCING with the hash of the latest block, which must be there
AnswerSyncing(p) ==
    /\ pc[p] = "syncing"
    /\ Return(p, req[p], IF canonical[latest] = None THEN "error" ELSE "SYNCING")
    /\ UNCHANGED <<store, sentFinal>>

ReadLatest(p) ==
    /\ pc[p] = "read_latest"
    /\ local' = [local EXCEPT ![p].seen = latest]
    /\ Goto(p, "check_head")
    /\ UNCHANGED <<store, req, reply, sentFinal>>

\* A canonical block below the latest one is no new head
CheckHead(p) ==
    LET h == req[p].head
    IN  /\ pc[p] = "check_head"
        /\ Goto(p, IF IsCanonical(h) /\ Number[h] < local[p].seen
                   THEN "already" ELSE "link")
        /\ UNCHANGED <<store, req, local, reply, sentFinal>>

\* NewHeadAlreadyCanonical is answered with the latest canonical hash, unwrapped
AnswerAlready(p) ==
    /\ pc[p] = "already"
    /\ Return(p, req[p], IF canonical[latest] = None THEN "panic" ELSE "ALREADY")
    /\ UNCHANGED <<store, sentFinal>>

\* find_link_with_canonical_chain: the head is canonical, or the walk starts
FindLink(p) ==
    LET h == req[p].head
    IN  /\ pc[p] = "link"
        /\ \/ /\ IsCanonical(h)
              /\ local' = [local EXCEPT ![p].link = Number[h]]
              /\ Goto(p, "connected")
           \/ /\ ~IsCanonical(h)
              /\ local' = [local EXCEPT ![p].cur = h]
              /\ Goto(p, "walk")
        /\ UNCHANGED <<store, req, reply, sentFinal>>

\* Faulty variant: the loop never moves on to the parent's header
WalkInPlace(p) ==
    LET c == local[p].cur
        parent == Parent[c]
        n == Number[c] - 1
    IN  /\ pc[p] = "walk"
        /\ \/ /\ HasHeader(parent) /\ canonical[n] = parent
              /\ local' = [local EXCEPT ![p].link = Number[c]]
              /\ Goto(p, "connected")
              /\ UNCHANGED <<req, reply>>
           \/ /\ HasHeader(parent) /\ canonical[n] # parent
              /\ local' = [local EXCEPT ![p].branch[n] = parent]
              /\ UNCHANGED <<pc, req, reply>>
        /\ UNCHANGED <<store, sentFinal>>

(***************************************************************************)
(* One turn of the loop: the walk passed genesis or the parent is missing, *)
(* the parent is canonical and links the branch up, or it is collected.    *)
(***************************************************************************)
WalkBack(p) ==
    LET c == local[p].cur
        parent == Parent[c]
        n == Number[c] - 1
    IN  /\ pc[p] = "walk"
        /\ \/ /\ n < 0 \/ ~HasHeader(parent)
              /\ Return(p, req[p], "error")
           \/ /\ n >= 0 /\ HasHeader(parent) /\ canonical[n] = parent
              /\ local' = [local EXCEPT ![p].link = Number[c]]
              /\ Goto(p, "connected")
              /\ UNCHANGED <<req, reply>>
           \/ /\ n >= 0 /\ HasHeader(parent) /\ canonical[n] # parent
              /\ local' = [local EXCEPT ![p].cur = parent, ![p].branch[n] = parent]
              /\ UNCHANGED <<pc, req, reply>>
        /\ UNCHANGED <<store, sentFinal>>

(***************************************************************************)
(* The finalized and safe blocks that were found must be canonical at or   *)
(* below link_block_number, the head itself, or in the new branch.         *)
(***************************************************************************)
Connected(p, b) ==
    \/ IsCanonical(b) /\ Number[b] <= local[p].link
    \/ b = req[p].head
    \/ local[p].branch[Number[b]] = b

\* Where the writes go after the branch: unset what is above the head, or set it
AfterBranch(p) ==
    LET h == req[p].head
    IN  /\ Goto(p, IF Number[h] < local[p].seen THEN "unset" ELSE "head")
        /\ local' = [local EXCEPT ![p].at = Number[h] + 1]

CheckConnected(p) ==
    LET h == req[p].head
    IN  /\ pc[p] = "connected"
        /\ \/ /\ \E t \in local[p].found : ~Connected(p, req[p][t])
              /\ Return(p, req[p], "error")
           \/ /\ \A t \in local[p].found : Connected(p, req[p][t])
              /\ IF local[p].link < Number[h]
                 THEN /\ Goto(p, "branch")
                      /\ local' = [local EXCEPT ![p].at = Number[h] - 1]
                 ELSE AfterBranch(p)
              /\ UNCHANGED <<req, reply>>
        /\ UNCHANGED <<store, sentFinal>>

-----------------------------------------------------------------------------
(***************************************************************************)
(* engine_forkchoiceUpdated: the writes of apply_fork_choice.              *)
(***************************************************************************)

\* Faulty variant: the loop over the branch leaves out its last block
SetBranchShort(p) ==
    LET n == local[p].at
    IN  /\ pc[p] = "branch"
        /\ canonical' = [canonical EXCEPT ![n] = local[p].branch[n]]
        /\ IF n > local[p].link + 1
           THEN local' = [local EXCEPT ![p].at = n - 1] /\ UNCHANGED pc
           ELSE AfterBranch(p)
        /\ UNCHANGED <<tables, pending, latest, safe, finalized, req, reply, sentFinal>>

\* set_canonical_block for the collected branch, from the head downwards
SetBranch(p) ==
    LET n == local[p].at
    IN  /\ pc[p] = "branch"
        /\ canonical' = [canonical EXCEPT ![n] = local[p].branch[n]]
        /\ IF n > local[p].link
           THEN local' = [local EXCEPT ![p].at = n - 1] /\ UNCHANGED pc
           ELSE AfterBranch(p)
        /\ UNCHANGED <<tables, pending, latest, safe, finalized, req, reply, sentFinal>>

\* Faulty variant: the range of numbers to unset excludes the latest one
UnsetBelowLatest(p) ==
    LET n == local[p].at
    IN  /\ pc[p] = "unset"
        /\ canonical' = IF n < local[p].seen THEN [canonical EXCEPT ![n] = None] ELSE canonical
        /\ IF n < local[p].seen
           THEN local' = [local EXCEPT ![p].at = n + 1] /\ UNCHANGED pc
           ELSE Goto(p, "head") /\ UNCHANGED local
        /\ UNCHANGED <<tables, pending, latest, safe, finalized, req, reply, sentFinal>>

(***************************************************************************)
(* unset_canonical_block, for each number above the head up to the latest  *)
(* one read.  The libmdbx engine deletes the entry in a transaction that   *)
(* it drops without commit, so the entry stays.                            *)
(***************************************************************************)
UnsetAbove(p) ==
    LET n == local[p].at
    IN  /\ pc[p] = "unset"
        /\ canonical' = IF Engine = "libmdbx" THEN canonical
                        ELSE [canonical EXCEPT ![n] = None]
        /\ IF n < local[p].seen
           THEN local' = [local EXCEPT ![p].at = n + 1] /\ UNCHANGED pc
           ELSE Goto(p, "head") /\ UNCHANGED local
        /\ UNCHANGED <<tables, pending, latest, safe, finalized, req, reply, sentFinal>>

SetHead(p) ==
    LET h == req[p].head
    IN  /\ pc[p] = "head"
        /\ canonical' = [canonical EXCEPT ![Number[h]] = h]
        /\ Goto(p, IF "finalized" \in local[p].found THEN "finalized"
                   ELSE IF "safe" \in local[p].found THEN "safe" ELSE "latest")
        /\ UNCHANGED <<tables, pending, latest, safe, finalized, req, local, reply, sentFinal>>

\* Faulty variant: the head's number is recorded as the finalized one
FinalizeHead(p) ==
    /\ pc[p] = "finalized"
    /\ finalized' = Number[req[p].head]
    /\ Goto(p, IF "safe" \in local[p].found THEN "safe" ELSE "latest")
    /\ UNCHANGED <<tables, pending, canonical, latest, safe, req, local, reply, sentFinal>>

UpdateFinalized(p) ==
    /\ pc[p] = "finalized"
    /\ finalized' = Number[req[p].finalized]
    /\ Goto(p, IF "safe" \in local[p].found THEN "safe" ELSE "latest")
    /\ UNCHANGED <<tables, pending, canonical, latest, safe, req, local, reply, sentFinal>>

UpdateSafe(p) ==
    /\ pc[p] = "safe"
    /\ safe' = Number[req[p].safe]
    /\ Goto(p, "latest")
    /\ UNCHANGED <<tables, pending, canonical, latest, finalized, req, local, reply, sentFinal>>

\* Faulty variant: the latest number never goes down
UpdateLatestUp(p) ==
    /\ pc[p] = "latest"
    /\ latest' = IF Number[req[p].head] > latest THEN Number[req[p].head] ELSE latest
    /\ Return(p, req[p], "VALID")
    /\ UNCHANGED <<tables, pending, canonical, safe, finalized, sentFinal>>

UpdateLatest(p) ==
    /\ pc[p] = "latest"
    /\ latest' = Number[req[p].head]
    /\ Return(p, req[p], "VALID")
    /\ UNCHANGED <<tables, pending, canonical, safe, finalized, sentFinal>>

-----------------------------------------------------------------------------
(***************************************************************************)
(* The process stops and is started again.  The tables survive; on restart *)
(* add_initial_state finds genesis in place and changes nothing.           *)
(***************************************************************************)
Crash ==
    /\ MayCrash
    /\ Engine # "in_memory"
    /\ \E p \in Handlers : pc[p] # "idle"
    /\ pc' = [p \in Handlers |-> "idle"]
    /\ req' = [p \in Handlers |-> NoCall]
    /\ local' = [p \in Handlers |-> NoLocals]
    /\ reply' = [p \in Handlers |-> "none"]
    /\ UNCHANGED <<store, sentFinal>>

\* A step of a handler that has taken up a call
HandlerStep(p) ==
    \/ StoreBlock(p)
    \/ AnswerSyncing(p) \/ ReadLatest(p) \/ CheckHead(p) \/ AnswerAlready(p)
    \/ FindLink(p) \/ WalkBack(p) \/ CheckConnected(p)
    \/ SetBranch(p) \/ UnsetAbove(p) \/ SetHead(p)
    \/ UpdateFinalized(p) \/ UpdateSafe(p) \/ UpdateLatest(p)

Next ==
    \/ \E p \in Handlers :
          \/ \E b \in Blocks : NewPayload(p, b)
          \/ \E r \in Requests : ForkchoiceUpdated(p, r)
          \/ HandlerStep(p)
    \/ Crash

Spec == Init /\ [][Next]_vars

\* A handler that has taken up a call runs on: nothing in it waits on a lock
FairSpec == Spec /\ \A p \in Handlers : WF_vars(HandlerStep(p))

-----------------------------------------------------------------------------
(***************************************************************************)
(* Properties.                                                             *)
(***************************************************************************)

\* Every variable has the type the code gives it.
TypeOK ==
    /\ tables \in [Tables -> SUBSET Blocks]
    /\ pending \subseteq Blocks
    /\ canonical \in [Heights -> Hash]
    /\ latest \in Heights
    /\ safe \in Heights \cup {NoNumber}
    /\ finalized \in Heights \cup {NoNumber}
    /\ pc \in [Handlers -> Pcs]
    /\ req \in [Handlers -> Calls]
    /\ local \in [Handlers -> Locals]
    /\ reply \in [Handlers -> Replies]
    /\ sentFinal \in Hash

(***************************************************************************)
(* A stored header means a block that passed every check of add_block,     *)
(* whose body and post-state are stored and whose parent is stored too.    *)
(* execute_payload answers VALID and apply_fork_choice accepts a head on   *)
(* the strength of the header alone, also after a crash between the writes *)
(* and while another handler is storing the same block.                    *)
(***************************************************************************)
StoredIsExecuted ==
    \A b \in tables["headers"] :
        /\ Defect[b] = "none"
        /\ b \in tables["states"] /\ b \in tables["bodies"] /\ b \in tables["locations"]
        /\ b # Genesis => Parent[b] \in tables["headers"]

(***************************************************************************)
(* A canonical entry names a stored block of that number, and genesis is   *)
(* never displaced, whatever fork choice handlers overlap or are cut off.  *)
(***************************************************************************)
CanonicalStored ==
    /\ canonical[0] = Genesis
    /\ \A n \in Heights : canonical[n] # None =>
          canonical[n] \in tables["headers"] /\ Number[canonical[n]] = n

\* The handler's last verdict was given on such a call, with one of these answers
Answered(p, call, answers) ==
    pc[p] = "idle" /\ req[p].call = call /\ reply[p] \in answers

(***************************************************************************)
(* The verdicts of newPayload are sound, so they never contradict each     *)
(* other over time: a block called VALID has no defect in its whole        *)
(* ancestry, and a block called INVALID has one itself.                    *)
(***************************************************************************)
VerdictsSound ==
    \A p \in Handlers :
        /\ Answered(p, "newPayload", {"VALID"}) =>
              \A a \in Ancestors[req[p].head] : Defect[a] = "none"
        /\ Answered(p, "newPayload", {"INVALID"}) => Defect[req[p].head] # "none"

\* No handler is in the middle of the writes of apply_fork_choice
NotWriting == \A p \in Handlers : pc[p] \notin WritingPcs

(***************************************************************************)
(* Between updates the canonical table is one chain: it has an entry for   *)
(* every number up to the latest one and none above, and each entry is the *)
(* parent of the next.                                                     *)
(***************************************************************************)
ChainLinked ==
    NotWriting =>
        /\ \A n \in 0 .. latest : canonical[n] # None
        /\ \A n \in 1 .. latest : Parent[canonical[n]] = canonical[n - 1]
        /\ \A n \in Heights : n > latest => canonical[n] = None

(***************************************************************************)
(* fork_choice.rs, "the canonical chain is updated so that all head's      *)
(* ancestors and itself are made canonical": when forkchoiceUpdated is     *)
(* answered VALID, the head and all its ancestors are canonical.           *)
(***************************************************************************)
AncestorsCanonical ==
    [][\A p \in Handlers :
          pc[p] # "idle" /\ Answered(p, "forkchoiceUpdated", {"VALID", "ALREADY"})' =>
              \A a \in Ancestors[req'[p].head] : canonical'[Number[a]] = a]_vars

(***************************************************************************)
(* fork_choice.rs, "They must be connected": the safe and finalized blocks *)
(* of an applied update are the head or ancestors of it.                   *)
(***************************************************************************)
AppliedConnected ==
    \A p \in Handlers : Answered(p, "forkchoiceUpdated", {"VALID"}) =>
        \A t \in {"safe", "finalized"} :
            Stored(req[p][t]) => req[p][t] \in Ancestors[req[p].head]

(***************************************************************************)
(* fork_choice.rs, "The finalized, safe and head hashes must correspond to *)
(* already saved blocks": an applied update named no unknown block.        *)
(***************************************************************************)
AppliedSaved ==
    \A p \in Handlers : Answered(p, "forkchoiceUpdated", {"VALID"}) =>
        \A t \in {"head", "safe", "finalized"} : req[p][t] # None => Stored(req[p][t])

(***************************************************************************)
(* engine/fork_choice.rs unwraps the latest canonical hash when the head   *)
(* is already canonical: there is always one.                              *)
(***************************************************************************)
LatestUnwraps == \A p \in Handlers : reply[p] # "panic"

(***************************************************************************)
(* Once a block is finalized its canonical entry never changes, as long as *)
(* the client respects finality and waits for answers: not by a reorg, not *)
(* by what a crash in the middle of an earlier update left behind.         *)
(***************************************************************************)
FinalizedNeverReorged ==
    [][finalized # NoNumber => canonical'[finalized] = canonical[finalized]]_vars

(***************************************************************************)
(* Every call is answered: the walk back and the loops of writes end, with *)
(* handlers overlapping in any way.                                        *)
(***************************************************************************)
CallsAnswered == \A p \in Handlers : pc[p] # "idle" ~> pc[p] = "idle"

(***************************************************************************)
(* Refinement: the chain changes hands at the last check before the first  *)
(* write.  While a handler writes, the chain is the one it is writing: its *)
(* head, the branch it collected, and the old chain below link.            *)
(***************************************************************************)
Target(p) ==
    [n \in 0 .. Number[req[p].head] |->
        IF n = Number[req[p].head] THEN req[p].head
        ELSE IF n >= local[p].link THEN local[p].branch[n]
        ELSE canonical[n]]

AdoptedChain ==
    IF NotWriting THEN [n \in 0 .. latest |-> canonical[n]]
    ELSE Target(CHOOSE p \in Handlers : pc[p] \in WritingPcs)

Abstract == INSTANCE CanonicalChain WITH imported <- tables["headers"], chain <- AdoptedChain

(***************************************************************************)
(* With calls answered one at a time and no crash, the handlers implement  *)
(* the abstract chain: the writes of one update add up to one move of the  *)
(* head, and nothing else moves it.                                        *)
(***************************************************************************)
ImplementsChain == Abstract!Spec

==============================================================================
