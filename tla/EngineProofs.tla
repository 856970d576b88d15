---------------------------- MODULE EngineProofs ----------------------------
(***************************************************************************)
(* What holds of EngineApi for every block tree, set of handlers and set   *)
(* of fork choice states.                                                  *)
(*                                                                         *)
(* Inv is inductive under every interleaving and crash; it gives the type  *)
(* invariant, the soundness of the block and canonical tables, and that of *)
(* the verdicts of newPayload.                                             *)
(***************************************************************************)
EXTENDS EngineApi, TLAPS

\* A forkchoiceUpdated that found its head
UpdatingPcs == (ReadingPcs \ {"syncing"}) \cup WritingPcs

\* What a handler knows once find_link_with_canonical_chain returned a branch
LinkedPcs == {"connected"} \cup WritingPcs

\* A handler in the middle of add_block: what it checked and what it wrote
StoringOK(p) ==
    LET b == req[p].head
    IN  pc[p] = "store" =>
            /\ b \in Blocks \ {Genesis}
            /\ Defect[b] = "none"
            /\ Parent[b] \in tables["headers"]
            /\ local[p].at \in 1 .. 7
            /\ local[p].at > 1 => b \in tables["states"]
            /\ local[p].at > 2 => b \in tables["locations"]
            /\ local[p].at > 3 => b \in tables["bodies"]

\* The blocks an update works with are stored
HeadOK(p) ==
    pc[p] \in UpdatingPcs =>
        /\ req[p].head \in tables["headers"]
        /\ "safe" \in local[p].found => req[p].safe \in tables["headers"]
        /\ "finalized" \in local[p].found => req[p].finalized \in tables["headers"]

\* The walk has collected every block from its position up to the head
WalkOK(p) ==
    pc[p] = "walk" =>
        /\ local[p].cur \in tables["headers"]
        /\ Number[local[p].cur] <= Number[req[p].head]
        /\ \A n \in Heights : Number[local[p].cur] <= n /\ n < Number[req[p].head]
                              => local[p].branch[n] # None

\* Collected blocks are stored, and filed under their number
BranchOK(p) ==
    \A n \in Heights : local[p].branch[n] # None =>
        /\ n > 0
        /\ local[p].branch[n] \in tables["headers"]
        /\ Number[local[p].branch[n]] = n

\* The branch has no gap between the link and the head
LinkOK(p) ==
    pc[p] \in LinkedPcs =>
        /\ local[p].link <= Number[req[p].head]
        /\ \A n \in Heights : local[p].link <= n /\ n < Number[req[p].head]
                              => local[p].branch[n] # None

\* The loops stay in their ranges, and a missing hash is not saved
LoopOK(p) ==
    /\ pc[p] = "branch" => local[p].at \in local[p].link .. Number[req[p].head] - 1
    /\ pc[p] = "unset" => local[p].at \in Number[req[p].head] + 1 .. local[p].seen
    /\ pc[p] = "finalized" => "finalized" \in local[p].found
    /\ pc[p] = "safe" => "safe" \in local[p].found

UpdatingOK(p) == HeadOK(p) /\ WalkOK(p) /\ BranchOK(p) /\ LinkOK(p) /\ LoopOK(p)

Inv ==
    /\ TypeOK
    /\ StoredIsExecuted
    /\ CanonicalStored
    /\ \A p \in Handlers : StoringOK(p) /\ UpdatingOK(p)

-----------------------------------------------------------------------------
(* The ancestry of a block *)

\* A block is among its ancestors, which are blocks and closed under parents
LEMMA AncestorsClosed ==
    ASSUME NEW h \in Blocks
    PROVE  h \in Ancestors[h] /\ Ancestors[h] \subseteq Blocks /\ ParentClosed(Ancestors[h])
  <1>1. \A a : a \in Ancestors[h] <=>
           a \in Blocks /\ \A S \in SUBSET Blocks : h \in S /\ ParentClosed(S) => a \in S
    BY Zenon DEF Ancestors
  <1>2. h \in Ancestors[h] /\ Ancestors[h] \subseteq Blocks
    BY <1>1
  <1>3. ASSUME NEW b \in Ancestors[h], b # Genesis, Defect[b] # "header"
        PROVE  Parent[b] \in Ancestors[h]
    <2>1. b \in Blocks
      BY <1>2, <1>3
    <2>2. Parent[b] \in Blocks
      BY <1>3, <2>1, TreeAssumption
    <2>3. ASSUME NEW S \in SUBSET Blocks, h \in S, ParentClosed(S) PROVE Parent[b] \in S
      BY <1>1, <1>3, <2>3 DEF ParentClosed
    <2> QED
      BY <1>1, <2>2, <2>3
  <1> QED
    BY <1>2, <1>3 DEF ParentClosed

\* The ancestors are the least set closed under parents that has the block
LEMMA AncestorsLeast ==
    ASSUME NEW h \in Blocks, NEW S \in SUBSET Blocks, h \in S, ParentClosed(S)
    PROVE  Ancestors[h] \subseteq S
  BY DEF Ancestors

\* The ancestors of an ancestor are ancestors
LEMMA AncestorsTransitive ==
    ASSUME NEW h \in Blocks, NEW a \in Ancestors[h]
    PROVE  Ancestors[a] \subseteq Ancestors[h]
  <1>1. a \in Blocks
    BY AncestorsClosed
  <1> QED
    BY <1>1, AncestorsClosed, AncestorsLeast

\* Other ancestors have smaller numbers
LEMMA AncestorsBelow ==
    ASSUME NEW h \in Blocks, NEW a \in Ancestors[h], a # h
    PROVE  Number[a] < Number[h]
  <1> DEFINE S == {x \in Ancestors[h] : x = h \/ Number[x] < Number[h]}
  <1>1. h \in S /\ S \in SUBSET Blocks
    BY AncestorsClosed
  <1>2. ASSUME NEW x \in S, x # Genesis, Defect[x] # "header" PROVE Parent[x] \in S
    <2>1. x \in Blocks /\ Parent[x] \in Ancestors[h]
      BY <1>1, <1>2, AncestorsClosed DEF ParentClosed
    <2>2. Parent[x] \in Blocks /\ Number[x] = Number[Parent[x]] + 1
      BY <1>2, <2>1, TreeAssumption
    <2>3. Number[x] \in Int /\ Number[Parent[x]] \in Int /\ Number[h] \in Int
      BY <2>1, <2>2, TreeAssumption DEF Heights
    <2>4. Number[Parent[x]] < Number[h]
      BY <1>2, <2>2, <2>3
    <2> QED
      BY <2>1, <2>4
  <1>3. ParentClosed(S)
    BY <1>2 DEF ParentClosed
  <1>4. Ancestors[h] \subseteq S
    <2> HIDE DEF S
    <2> QED BY <1>1, <1>3, AncestorsLeast
  <1> QED
    BY <1>4

\* An ancestor other than the block itself is the parent of an ancestor
LEMMA AncestorsAreParents ==
    ASSUME NEW h \in Blocks, NEW a \in Ancestors[h], a # h
    PROVE  \E z \in Ancestors[h] : /\ z # Genesis /\ Defect[z] # "header"
                                   /\ Parent[z] = a
  <1> DEFINE S == Ancestors[h] \ {a}
  <1>1. h \in S /\ S \in SUBSET Blocks
    BY AncestorsClosed
  <1>2. ~ParentClosed(S)
    <2> SUFFICES ASSUME ParentClosed(S) PROVE FALSE
      OBVIOUS
    <2>1. Ancestors[h] \subseteq S
      <3> HIDE DEF S
      <3> QED BY <1>1, AncestorsLeast
    <2> QED
      BY <2>1
  <1>3. PICK z \in S : z # Genesis /\ Defect[z] # "header" /\ Parent[z] \notin S
    BY <1>2 DEF ParentClosed
  <1>4. Parent[z] \in Ancestors[h]
    BY <1>3, AncestorsClosed DEF ParentClosed
  <1> QED
    BY <1>3, <1>4

\* Of two ancestors of a block the lower one is an ancestor of the other
LEMMA AncestorsInLine ==
    ASSUME NEW h \in Blocks
    PROVE  \A a, y \in Ancestors[h] : Number[y] >= Number[a] => a \in Ancestors[y]
  <1> DEFINE S == {x \in Ancestors[h] :
                      \A y \in Ancestors[h] : Number[y] >= Number[x] => x \in Ancestors[y]}
  <1>0. \A x \in Ancestors[h] : x \in Blocks /\ Number[x] \in Int
    BY AncestorsClosed, TreeAssumption DEF Heights
  <1>1. S \in SUBSET Blocks
    BY AncestorsClosed
  <1>2. h \in S
    <2>1. ASSUME NEW y \in Ancestors[h], Number[y] >= Number[h] PROVE h \in Ancestors[y]
      <3>1. y = h
        BY <1>0, <2>1, AncestorsClosed, AncestorsBelow
      <3> QED
        BY <3>1, AncestorsClosed
    <2> QED
      BY <2>1, AncestorsClosed
  <1>3. ASSUME NEW x \in S, x # Genesis, Defect[x] # "header" PROVE Parent[x] \in S
    <2>1. x \in Blocks /\ x \in Ancestors[h] /\ Parent[x] \in Ancestors[h]
      BY <1>1, <1>3, AncestorsClosed DEF ParentClosed
    <2>2. Number[x] = Number[Parent[x]] + 1
      BY <1>3, <2>1, TreeAssumption
    <2>3. ASSUME NEW y \in Ancestors[h], Number[y] >= Number[Parent[x]]
          PROVE  Parent[x] \in Ancestors[y]
      <3>1. CASE Number[y] >= Number[x]
        <4>1. x \in Ancestors[y] /\ y \in Blocks
          BY <1>0, <1>3, <3>1
        <4> QED
          BY <1>3, <4>1, AncestorsClosed DEF ParentClosed
      <3>2. CASE Number[y] < Number[x]
        <4>1. y # h
          BY <1>0, <2>1, <3>2, AncestorsBelow, AncestorsClosed
        <4>2. PICK z \in Ancestors[h] : z # Genesis /\ Defect[z] # "header" /\ Parent[z] = y
          BY <4>1, AncestorsAreParents
        <4>3. Number[z] = Number[y] + 1
          BY <1>0, <4>2, TreeAssumption
        <4>4. Number[z] = Number[x]
          BY <1>0, <2>1, <2>2, <2>3, <3>2, <4>3
        <4>5. x \in Ancestors[z]
          BY <1>0, <1>3, <2>1, <4>4
        <4>6. x = z
          BY <1>0, <2>1, <4>4, <4>5, AncestorsBelow
        <4> QED
          BY <1>0, <4>2, <4>6, AncestorsClosed
      <3> QED
        BY <1>0, <2>1, <3>1, <3>2
    <2> QED
      BY <2>1, <2>3
  <1>4. ParentClosed(S)
    BY <1>3 DEF ParentClosed
  <1>5. Ancestors[h] \subseteq S
    <2> HIDE DEF S
    <2> QED BY <1>1, <1>2, <1>4, AncestorsLeast
  <1> QED
    BY <1>5

\* A block has one ancestor of each number at most
LEMMA AncestorsUnique ==
    ASSUME NEW h \in Blocks, NEW a \in Ancestors[h], NEW b \in Ancestors[h],
           Number[a] = Number[b]
    PROVE  a = b
  <1>1. a \in Blocks /\ b \in Blocks /\ Number[a] \in Int /\ Number[b] \in Int
    BY AncestorsClosed, TreeAssumption DEF Heights
  <1>2. a \in Ancestors[b]
    BY <1>1, AncestorsInLine
  <1> QED
    BY <1>1, <1>2, AncestorsBelow

-----------------------------------------------------------------------------
\* A stored header is that of a block, and genesis is stored
LEMMA StoredBlocks ==
    ASSUME Inv
    PROVE  /\ tables["headers"] \subseteq Blocks
           /\ Genesis \in tables["headers"]
           /\ None \notin tables["headers"]
  <1>1. tables["headers"] \subseteq Blocks
    BY DEF Inv, TypeOK, Tables
  <1>2. 0 \in Heights /\ canonical[0] = Genesis /\ Genesis # None
    BY TreeAssumption DEF Inv, CanonicalStored, Heights
  <1>3. Genesis \in tables["headers"]
    BY <1>2 DEF Inv, CanonicalStored
  <1> QED
    BY <1>1, <1>3, TreeAssumption

\* What the handler of an update knows, by position
LEMMA HandlerKnows ==
    ASSUME Inv, NEW p \in Handlers
    PROVE  HeadOK(p) /\ WalkOK(p) /\ BranchOK(p) /\ LinkOK(p) /\ LoopOK(p)
  BY DEF Inv, UpdatingOK

\* Block numbers are integers, and what the loops of an update do to their counter
LEMMA LoopSteps ==
    /\ \A m \in Heights : m \in Int
    /\ \A l, k \in Int : l < k => k - 1 \in l .. k - 1
    /\ \A k, s \in Int : k < s => k + 1 \in k + 1 .. s
    /\ \A l, k, i \in Int : i \in l .. k - 1 /\ i > l => i - 1 \in l .. k - 1
    /\ \A k, s, i \in Int : i \in k + 1 .. s /\ i < s => i + 1 \in k + 1 .. s
  BY TreeAssumption DEF Heights

\* The tables of add_block, in the order they are written
LEMMA StoreOrderTables ==
    /\ Len(StoreOrder) = 7
    /\ \A i \in 1 .. 7 : StoreOrder[i] \in Tables
    /\ StoreOrder[1] = "states" /\ StoreOrder[2] = "locations"
    /\ StoreOrder[3] = "bodies" /\ StoreOrder[4] = "headers"
    /\ \A i \in 1 .. 7 : StoreOrder[i] = "headers" => i = 4
  BY DEF StoreOrder, Tables

\* The initial state satisfies the invariant
LEMMA InitInv == Init => Inv
  <1> SUFFICES ASSUME Init PROVE Inv
    OBVIOUS
  <1>1. TypeOK
    BY TreeAssumption, EngineAssumption
    DEF Init, TypeOK, Heights, Hash, NoNumber, Pcs, Calls, NoCall, Locals, NoLocals,
        NoBranch, Replies, Verdicts
  <1>2. StoredIsExecuted
    BY EngineAssumption DEF Init, StoredIsExecuted, Tables
  <1>3. CanonicalStored
    BY TreeAssumption, EngineAssumption DEF Init, CanonicalStored, Heights, Tables
  <1>4. ASSUME NEW p \in Handlers PROVE StoringOK(p) /\ UpdatingOK(p)
    BY DEF Init, StoringOK, UpdatingOK, HeadOK, WalkOK, BranchOK, LinkOK, LoopOK,
           UpdatingPcs, LinkedPcs, ReadingPcs, WritingPcs, NoLocals, NoBranch
  <1> QED
    BY <1>1, <1>2, <1>3, <1>4 DEF Inv

\* Answering a call keeps the types
LEMMA ReturnType ==
    ASSUME TypeOK, NEW p \in Handlers, NEW call \in Calls, NEW answer \in Replies,
           Return(p, call, answer)
    PROVE  /\ pc' \in [Handlers -> Pcs]
           /\ req' \in [Handlers -> Calls]
           /\ local' \in [Handlers -> Locals]
           /\ reply' \in [Handlers -> Replies]
  <1>1. NoLocals \in Locals /\ NoCall \in Calls
    BY TreeAssumption DEF NoLocals, Locals, NoBranch, Hash, Heights, NoCall, Calls
  <1> QED
    BY <1>1 DEF Return, TypeOK, Pcs

\* Assigning one local variable keeps the type of the locals
LEMMA LocalExcept ==
    ASSUME local \in [Handlers -> Locals], NEW p \in Handlers
    PROVE  /\ \A x \in Int : [local EXCEPT ![p].at = x] \in [Handlers -> Locals]
           /\ \A x \in Heights : [local EXCEPT ![p].seen = x] \in [Handlers -> Locals]
           /\ \A x \in Heights : [local EXCEPT ![p].link = x] \in [Handlers -> Locals]
           /\ \A x \in Hash : [local EXCEPT ![p].cur = x] \in [Handlers -> Locals]
           /\ \A x \in SUBSET {"safe", "finalized"} :
                 [local EXCEPT ![p].found = x] \in [Handlers -> Locals]
           /\ \A x \in Hash, n \in Heights :
                 [local EXCEPT ![p].cur = x, ![p].branch[n] = x] \in [Handlers -> Locals]
  BY ZenonT(60) DEF Locals

\* The same of the locals after a step that assigns one
LEMMA LocalType ==
    ASSUME local \in [Handlers -> Locals], NEW p \in Handlers
    PROVE  /\ \A x \in Int : local' = [local EXCEPT ![p].at = x] => local' \in [Handlers -> Locals]
           /\ \A x \in Heights :
                 local' = [local EXCEPT ![p].seen = x] => local' \in [Handlers -> Locals]
           /\ \A x \in Heights :
                 local' = [local EXCEPT ![p].link = x] => local' \in [Handlers -> Locals]
           /\ \A x \in Hash :
                 local' = [local EXCEPT ![p].cur = x] => local' \in [Handlers -> Locals]
           /\ \A x \in SUBSET {"safe", "finalized"} :
                 local' = [local EXCEPT ![p].found = x] => local' \in [Handlers -> Locals]
           /\ \A x \in Hash, n \in Heights :
                 local' = [local EXCEPT ![p].cur = x, ![p].branch[n] = x] =>
                    local' \in [Handlers -> Locals]
  <1>1. ASSUME NEW x \in Int, local' = [local EXCEPT ![p].at = x]
       PROVE  local' \in [Handlers -> Locals]
    BY <1>1, LocalExcept, Zenon
  <1>2. ASSUME NEW x \in Heights, local' = [local EXCEPT ![p].seen = x]
       PROVE  local' \in [Handlers -> Locals]
    BY <1>2, LocalExcept, Zenon
  <1>3. ASSUME NEW x \in Heights, local' = [local EXCEPT ![p].link = x]
       PROVE  local' \in [Handlers -> Locals]
    BY <1>3, LocalExcept, Zenon
  <1>4. ASSUME NEW x \in Hash, local' = [local EXCEPT ![p].cur = x]
       PROVE  local' \in [Handlers -> Locals]
    BY <1>4, LocalExcept, Zenon
  <1>5. ASSUME NEW x \in SUBSET {"safe", "finalized"}, local' = [local EXCEPT ![p].found = x]
       PROVE  local' \in [Handlers -> Locals]
    BY <1>5, LocalExcept, Zenon
  <1>6. ASSUME NEW x \in Hash, NEW n \in Heights,
               local' = [local EXCEPT ![p].cur = x, ![p].branch[n] = x]
        PROVE  local' \in [Handlers -> Locals]
    BY <1>6, LocalExcept, Zenon
  <1> QED
    BY <1>1, <1>2, <1>3, <1>4, <1>5, <1>6, Zenon

\* Every step keeps the types
LEMMA TypeStep ==
    ASSUME Inv, [Next]_vars
    PROVE  TypeOK'
  <1>1. ASSUME NEW p \in Handlers, NEW b \in Blocks, NewPayload(p, b) PROVE TypeOK'
    <2>1. NewPayloadCall(b) \in Calls
      BY DEF NewPayloadCall, Calls, Hash
    <2>2. CASE PayloadKnown(p, b)
      BY <1>1, <2>1, <2>2, ReturnType
      DEF Inv, NewPayload, PayloadKnown, TypeOK, Replies, Verdicts
    <2>3. CASE PayloadOrphan(p, b)
      BY <1>1, <2>1, <2>3, ReturnType
      DEF Inv, NewPayload, PayloadOrphan, TypeOK, Replies, Verdicts
    <2>4. CASE PayloadInvalid(p, b)
      BY <1>1, <2>1, <2>4, ReturnType
      DEF Inv, NewPayload, PayloadInvalid, TypeOK, Replies, Verdicts
    <2>5. CASE PayloadExecuted(p, b)
      <3>0. 1 \in Int
        OBVIOUS
      <3>1. local' \in [Handlers -> Locals]
        BY <2>5, <3>0, LocalType, Zenon DEF Inv, PayloadExecuted, TypeOK
      <3> QED
        BY <1>1, <2>1, <2>5, <3>1
        DEF Inv, NewPayload, PayloadExecuted, TakeUp, TypeOK, Replies, Pcs
    <2> QED
      BY <1>1, <2>2, <2>3, <2>4, <2>5 DEF NewPayload
  <1>2. ASSUME NEW p \in Handlers, NEW r \in Requests, ForkchoiceUpdated(p, r) PROVE TypeOK'
    <2>1. r \in [head : Hash, safe : Hash, finalized : Hash] /\ ForkchoiceCall(r) \in Calls
      BY EngineAssumption DEF ForkchoiceCall, Calls
    <2>2. Found(r) \subseteq {"safe", "finalized"}
      BY DEF Found
    <2>3. sentFinal' \in Hash /\ UNCHANGED store
      BY <1>2, <2>1 DEF Inv, ForkchoiceUpdated, TypeOK
    <2>4. CASE Return(p, ForkchoiceCall(r), "error")
      BY <2>1, <2>3, <2>4, ReturnType DEF Inv, TypeOK, Replies, store
    <2>5. CASE TakeUp(p, ForkchoiceCall(r), "syncing") /\ UNCHANGED local
      BY <2>1, <2>3, <2>5 DEF Inv, TakeUp, TypeOK, Replies, Pcs, ReadingPcs, store
    <2>6. CASE /\ TakeUp(p, ForkchoiceCall(r), "read_latest")
               /\ local' = [local EXCEPT ![p].found = Found(r)]
      <3>1. local' \in [Handlers -> Locals]
        BY ZenonT(60), <2>2, <2>6, LocalType DEF Inv, TypeOK
      <3> QED
        BY SMTT(60), <2>1, <2>3, <2>6, <3>1
        DEF Inv, TakeUp, TypeOK, Replies, Pcs, ReadingPcs, store
    <2> QED
      BY <1>2, <2>4, <2>5, <2>6 DEF ForkchoiceUpdated
  <1>3. ASSUME NEW p \in Handlers, HandlerStep(p) PROVE TypeOK'
    <2>1. req[p] \in Calls /\ local[p] \in Locals /\ local \in [Handlers -> Locals]
      BY SMTT(60) DEF Inv, TypeOK
    <2>0. pc[p] \in UpdatingPcs =>
             /\ req[p].head \in Blocks
             /\ "safe" \in local[p].found => req[p].safe \in Blocks
             /\ "finalized" \in local[p].found => req[p].finalized \in Blocks
      BY StoredBlocks, HandlerKnows DEF HeadOK
    <2> USE DEF ReadingPcs, WritingPcs, UpdatingPcs
    <2>2. CASE StoreBlock(p)
      <3>1. req[p].head \in Blocks /\ local[p].at \in 1 .. 7
        BY <2>2 DEF Inv, StoreBlock, StoringOK
      <3>2. tables' \in [Tables -> SUBSET Blocks]
        BY <2>2, <3>1, StoreOrderTables DEF Inv, StoreBlock, TypeOK
      <3>3. CASE Return(p, req[p], "VALID")
        BY <2>1, <2>2, <3>2, <3>3, ReturnType DEF Inv, StoreBlock, TypeOK, Replies, Verdicts
      <3>4. CASE local' = [local EXCEPT ![p].at = local[p].at + 1] /\ UNCHANGED <<pc, req, reply>>
        <4>0. local[p].at + 1 \in Int
          BY <3>1
        <4>1. local' \in [Handlers -> Locals]
          BY <3>4, <4>0, LocalType, Zenon DEF Inv, TypeOK
        <4> QED
          BY <2>2, <3>2, <3>4, <4>1 DEF Inv, StoreBlock, TypeOK
      <3> QED
        BY <2>2, <3>3, <3>4 DEF StoreBlock
    <2>3. CASE AnswerSyncing(p)
      BY <2>1, <2>3, ReturnType DEF Inv, AnswerSyncing, TypeOK, Replies, Verdicts, store
    <2>4. CASE ReadLatest(p)
      <3>1. local' \in [Handlers -> Locals]
        BY ZenonT(60), <2>4, LocalType DEF Inv, ReadLatest, TypeOK
      <3> QED
        BY SMTT(60), <2>4, <3>1 DEF Inv, ReadLatest, Goto, TypeOK, store, Pcs
    <2>5. CASE CheckHead(p)
      BY <2>5 DEF Inv, CheckHead, Goto, TypeOK, store, Pcs
    <2>6. CASE AnswerAlready(p)
      BY <2>1, <2>6, ReturnType DEF Inv, AnswerAlready, TypeOK, Replies, Verdicts, store
    <2>7. CASE FindLink(p)
      <3>1. req[p].head \in Hash /\ Number[req[p].head] \in Heights
        BY TreeAssumption, <2>0, <2>7 DEF FindLink, Hash
      <3>2. \/ local' = [local EXCEPT ![p].link = Number[req[p].head]]
            \/ local' = [local EXCEPT ![p].cur = req[p].head]
        BY <2>7 DEF FindLink
      <3>3. local' \in [Handlers -> Locals]
        BY ZenonT(60), <2>1, <3>1, <3>2, LocalType
      <3> QED
        BY <2>7, <3>3 DEF Inv, FindLink, Goto, TypeOK, store, Pcs
    <2>8. CASE WalkBack(p)
      <3>1. local[p].cur \in Blocks
        BY <2>8, StoredBlocks, HandlerKnows DEF WalkBack, WalkOK
      <3>2. CASE Return(p, req[p], "error")
        BY ZenonT(60), <2>1, <2>8, <3>2, ReturnType
        DEF Inv, WalkBack, TypeOK, Replies, Verdicts, store
      <3>3. CASE UNCHANGED req /\ UNCHANGED reply
                 /\ \/ UNCHANGED pc
                    \/ pc' = [pc EXCEPT ![p] = "connected"]
                 /\ \/ local' = [local EXCEPT ![p].link = Number[local[p].cur]]
                    \/ /\ Number[local[p].cur] - 1 >= 0
                       /\ local' = [local EXCEPT ![p].cur = Parent[local[p].cur],
                                    ![p].branch[Number[local[p].cur] - 1] = Parent[local[p].cur]]
        <4>1. Number[local[p].cur] \in Heights /\ Parent[local[p].cur] \in Hash
          BY TreeAssumption, <3>1 DEF Hash
        <4>2. Number[local[p].cur] - 1 >= 0 => Number[local[p].cur] - 1 \in Heights
          BY TreeAssumption, <4>1 DEF Heights
        <4>3. local' \in [Handlers -> Locals]
          BY ZenonT(60), <2>1, <3>3, <4>1, <4>2, LocalType
        <4> QED
          BY <2>8, <3>3, <4>3 DEF Inv, WalkBack, TypeOK, store, Pcs
      <3> QED
        BY ZenonT(60), <2>8, <3>2, <3>3 DEF WalkBack, Goto
    <2>9. CASE CheckConnected(p)
      <3>1. Number[req[p].head] \in Heights
        BY TreeAssumption, <2>0, <2>9 DEF CheckConnected
      <3>2. CASE Return(p, req[p], "error")
        BY <2>1, <2>9, <3>2, ReturnType
        DEF Inv, CheckConnected, TypeOK, Replies, Verdicts, store
      <3>3. CASE UNCHANGED <<req, reply>>
                 /\ \/ pc' = [pc EXCEPT ![p] = "branch"]
                    \/ pc' = [pc EXCEPT ![p] = "unset"]
                    \/ pc' = [pc EXCEPT ![p] = "head"]
                 /\ \/ local' = [local EXCEPT ![p].at = Number[req[p].head] - 1]
                    \/ local' = [local EXCEPT ![p].at = Number[req[p].head] + 1]
        <4>1. Number[req[p].head] - 1 \in Int /\ Number[req[p].head] + 1 \in Int
          BY TreeAssumption, <3>1 DEF Heights
        <4>2. local' \in [Handlers -> Locals]
          BY <2>1, <3>3, <4>1, LocalType, Zenon
        <4> QED
          BY <2>9, <3>3, <4>2 DEF Inv, CheckConnected, TypeOK, store, Pcs
      <3> QED
        BY <2>9, <3>2, <3>3 DEF CheckConnected, Goto, AfterBranch
    <2>10. CASE SetBranch(p)
      <3>1. Number[req[p].head] \in Heights
        BY SMTT(60), TreeAssumption, <2>0, <2>10 DEF SetBranch
      <3>2. local[p].at \in Int /\ local[p].branch \in [Heights -> Hash]
            /\ local[p].at \in Heights
        <4>1. pc[p] = "branch" /\ local[p].link \in Heights
              /\ local[p].at \in Int /\ local[p].branch \in [Heights -> Hash]
          BY <2>1, <2>10 DEF SetBranch, Locals
        <4> QED
          BY <3>1, <4>1, TreeAssumption, HandlerKnows DEF LoopOK, Heights
      <3>3. canonical' \in [Heights -> Hash]
        BY <2>10, <3>2 DEF Inv, SetBranch, TypeOK
      <3>4. local[p].at - 1 \in Int /\ Number[req[p].head] + 1 \in Int
        BY TreeAssumption, <3>1, <3>2 DEF Heights
      <3>5. \/ local' = [local EXCEPT ![p].at = local[p].at - 1]
            \/ local' = [local EXCEPT ![p].at = Number[req[p].head] + 1]
        BY <2>10 DEF SetBranch, AfterBranch
      <3>6. local' \in [Handlers -> Locals]
        BY <2>1, <3>4, <3>5, LocalType, Zenon
      <3> QED
        BY <2>10, <3>3, <3>6 DEF Inv, SetBranch, AfterBranch, Goto, TypeOK, Pcs
    <2>11. CASE UnsetAbove(p)
      <3>1. canonical' \in [Heights -> Hash]
        BY ZenonT(60), <2>11 DEF Inv, UnsetAbove, TypeOK, Hash
      <3>2. local[p].at + 1 \in Int
        BY <2>1 DEF Locals
      <3>3. \/ local' = [local EXCEPT ![p].at = local[p].at + 1]
            \/ local' = local
        BY <2>11 DEF UnsetAbove
      <3>4. local' \in [Handlers -> Locals]
        BY <2>1, <3>2, <3>3, LocalType, Zenon
      <3> QED
        BY <2>11, <3>1, <3>4 DEF Inv, UnsetAbove, Goto, TypeOK, Pcs
    <2>12. CASE SetHead(p)
      <3>1. req[p].head \in Hash /\ Number[req[p].head] \in Heights
        BY TreeAssumption, <2>0, <2>12 DEF SetHead, Hash
      <3> QED
        BY <2>12, <3>1 DEF Inv, SetHead, Goto, TypeOK, Pcs
    <2>13. CASE UpdateFinalized(p)
      <3>1. Number[req[p].finalized] \in Heights
        BY ZenonT(60), TreeAssumption, <2>0, <2>13, HandlerKnows DEF UpdateFinalized, LoopOK
      <3> QED
        BY ZenonT(60), <2>13, <3>1 DEF Inv, UpdateFinalized, Goto, TypeOK, Pcs
    <2>14. CASE UpdateSafe(p)
      <3>1. Number[req[p].safe] \in Heights
        BY ZenonT(60), TreeAssumption, <2>0, <2>14, HandlerKnows DEF UpdateSafe, LoopOK
      <3> QED
        BY ZenonT(60), <2>14, <3>1 DEF Inv, UpdateSafe, Goto, TypeOK, Pcs
    <2>15. CASE UpdateLatest(p)
      <3>1. Number[req[p].head] \in Heights
        BY TreeAssumption, <2>0, <2>15 DEF UpdateLatest
      <3> QED
        BY ZenonT(60), <2>1, <2>15, <3>1, ReturnType
        DEF Inv, UpdateLatest, TypeOK, Replies, Verdicts
    <2> QED
      BY <1>3, <2>2, <2>3, <2>4, <2>5, <2>6, <2>7, <2>8, <2>9, <2>10, <2>11, <2>12, <2>13,
         <2>14, <2>15 DEF HandlerStep
  <1>4. CASE Crash
    <2>1. NoLocals \in Locals /\ NoCall \in Calls
      BY TreeAssumption DEF NoLocals, Locals, NoBranch, Hash, Heights, NoCall, Calls
    <2> QED
      BY <1>4, <2>1 DEF Inv, Crash, TypeOK, store, Pcs, Replies
  <1>5. CASE UNCHANGED vars
    BY <1>5 DEF Inv, TypeOK, vars, store, handlers
  <1> QED
    BY <1>1, <1>2, <1>3, <1>4, <1>5 DEF Next

-----------------------------------------------------------------------------
\* The only stored block of number 0 is genesis
LEMMA NumberZero ==
    ASSUME Inv, NEW b \in tables["headers"], Number[b] = 0
    PROVE  b = Genesis
  <1>1. b \in Blocks /\ Defect[b] = "none"
    BY StoredBlocks DEF Inv, StoredIsExecuted
  <1>2. b # Genesis => Parent[b] \in Blocks /\ Number[b] = Number[Parent[b]] + 1
    BY <1>1, TreeAssumption
  <1>3. Parent[b] \in Blocks => Number[Parent[b]] \in Nat
    BY TreeAssumption DEF Heights
  <1> QED
    BY <1>2, <1>3

\* No step but a table write of add_block changes a block table
LEMMA TablesStep ==
    ASSUME Inv, [Next]_vars
    PROVE  \/ tables' = tables
           \/ \E p \in Handlers : StoreBlock(p)
  <1>1. ASSUME NEW p \in Handlers, NEW b \in Blocks, NewPayload(p, b) PROVE tables' = tables
    BY <1>1 DEF NewPayload
  <1>2. ASSUME NEW p \in Handlers, NEW r \in Requests, ForkchoiceUpdated(p, r)
        PROVE tables' = tables
    BY ZenonT(60), <1>2 DEF ForkchoiceUpdated, store
  <1>3. ASSUME NEW p \in Handlers, HandlerStep(p), ~StoreBlock(p) PROVE tables' = tables
    BY Zenon, <1>3 DEF HandlerStep, AnswerSyncing, ReadLatest, CheckHead, AnswerAlready, FindLink,
                WalkBack, CheckConnected, SetBranch, UnsetAbove, SetHead, UpdateFinalized,
                UpdateSafe, UpdateLatest, store
  <1>4. CASE Crash
    BY <1>4 DEF Crash, store
  <1>5. CASE UNCHANGED vars
    BY SMTT(60), <1>5 DEF vars, store
  <1> QED
    BY <1>1, <1>2, <1>3, <1>4, <1>5 DEF Next

\* A table write adds the block the handler is storing to one table
LEMMA StoreBlockTables ==
    ASSUME Inv, NEW p \in Handlers, StoreBlock(p)
    PROVE  /\ req[p].head \in Blocks \ {Genesis} /\ local[p].at \in 1 .. 7
           /\ \A t \in Tables :
                 tables'[t] = IF t = StoreOrder[local[p].at]
                              THEN tables[t] \cup {req[p].head} ELSE tables[t]
  <1>1. req[p].head \in Blocks \ {Genesis} /\ local[p].at \in 1 .. 7
    BY DEF StoreBlock, Inv, StoringOK
  <1>2. tables \in [Tables -> SUBSET Blocks]
    BY DEF Inv, TypeOK
  <1> QED
    BY ZenonT(60), <1>1, <1>2, StoreOrderTables DEF StoreBlock

\* Block tables only grow
LEMMA TablesGrow ==
    ASSUME Inv, [Next]_vars, NEW t \in Tables
    PROVE  tables[t] \subseteq tables'[t]
  BY ZenonT(60), TablesStep, StoreBlockTables

\* Every step keeps the stored blocks executed and linked
LEMMA StoredStep ==
    ASSUME Inv, [Next]_vars
    PROVE  StoredIsExecuted'
  <1>1. CASE tables' = tables
    BY <1>1 DEF Inv, StoredIsExecuted
  <1>2. ASSUME NEW p \in Handlers, StoreBlock(p) PROVE StoredIsExecuted'
    <2> DEFINE b == req[p].head
    <2>1. /\ \A t \in Tables : tables[t] \subseteq tables'[t]
          /\ "headers" \in Tables /\ "states" \in Tables
          /\ "bodies" \in Tables /\ "locations" \in Tables
      BY TablesGrow DEF Tables
    <2>2. ASSUME NEW c \in tables'["headers"], c \notin tables["headers"]
          PROVE  c = b /\ local[p].at = 4
      <3>1. /\ local[p].at \in 1 .. 7
            /\ tables'["headers"] = IF "headers" = StoreOrder[local[p].at]
                                    THEN tables["headers"] \cup {b} ELSE tables["headers"]
        BY <1>2, <2>1, StoreBlockTables
      <3> QED
        BY <2>2, <3>1, StoreOrderTables
    <2>3. local[p].at = 4 =>
             /\ Defect[b] = "none"
             /\ b \in tables["states"] /\ b \in tables["bodies"] /\ b \in tables["locations"]
             /\ Parent[b] \in tables["headers"]
      BY <1>2 DEF StoreBlock, Inv, StoringOK
    <2> QED
      BY <2>1, <2>2, <2>3 DEF Inv, StoredIsExecuted
  <1> QED
    BY <1>1, <1>2, TablesStep

\* Every step keeps the canonical entries stored and genesis in place
LEMMA CanonicalStep ==
    ASSUME Inv, [Next]_vars
    PROVE  CanonicalStored'
  <1>0. tables["headers"] \subseteq tables'["headers"] /\ "headers" \in Tables
    BY TablesGrow DEF Tables
  <1>1. CASE canonical' = canonical
    BY ZenonT(60), <1>0, <1>1 DEF Inv, CanonicalStored
  <1>2. ASSUME NEW p \in Handlers, SetBranch(p) PROVE CanonicalStored'
    <2> DEFINE n == local[p].at
    <2>1. n \in local[p].link .. Number[req[p].head] - 1 /\ Number[req[p].head] \in Heights
          /\ local[p].link \in Heights
      <3>1. pc[p] = "branch" /\ pc[p] \in UpdatingPcs /\ local[p] \in Locals
        BY ZenonT(60), <1>2 DEF SetBranch, UpdatingPcs, WritingPcs, Inv, TypeOK
      <3>2. req[p].head \in Blocks
        BY <3>1, StoredBlocks, HandlerKnows DEF HeadOK
      <3> QED
        BY <3>1, <3>2, TreeAssumption, HandlerKnows DEF LoopOK, Locals
    <2>2. n \in Heights
      BY SMTT(60), <2>1, TreeAssumption DEF Heights
    <2>3. local[p].branch[n] # None
      <3>1. pc[p] \in LinkedPcs
        BY ZenonT(60), <1>2 DEF SetBranch, LinkedPcs, WritingPcs
      <3> QED
        BY <2>1, <2>2, <3>1, TreeAssumption, HandlerKnows DEF LinkOK, Heights
    <2>4. /\ n > 0 /\ local[p].branch[n] \in tables["headers"]
          /\ Number[local[p].branch[n]] = n
      BY <2>2, <2>3, HandlerKnows DEF BranchOK
    <2>5. canonical' = [canonical EXCEPT ![n] = local[p].branch[n]]
          /\ canonical \in [Heights -> Hash]
      BY <1>2 DEF SetBranch, Inv, TypeOK
    <2> QED
      <3>1. \A m \in Heights :
               canonical'[m] = IF m = n THEN local[p].branch[n] ELSE canonical[m]
        BY Zenon, <2>5
      <3>2. 0 \in Heights /\ n # 0
        BY <2>2, <2>4, TreeAssumption DEF Heights
      <3>3. canonical'[0] = Genesis
        BY Zenon, <3>1, <3>2 DEF Inv, CanonicalStored
      <3>4. ASSUME NEW m \in Heights, canonical'[m] # None
            PROVE  canonical'[m] \in tables'["headers"] /\ Number[canonical'[m]] = m
        BY Zenon, <1>0, <2>4, <3>1, <3>4 DEF Inv, CanonicalStored
      <3> QED
        BY Zenon, <3>3, <3>4 DEF CanonicalStored
  <1>3. ASSUME NEW p \in Handlers, UnsetAbove(p) PROVE CanonicalStored'
    <2> DEFINE n == local[p].at
    <2>1. n > 0 /\ n \in Int
      <3>1. pc[p] = "unset" /\ pc[p] \in UpdatingPcs
        BY <1>3 DEF UnsetAbove, UpdatingPcs, WritingPcs
      <3>2. Number[req[p].head] \in Heights
        BY <3>1, StoredBlocks, TreeAssumption, HandlerKnows DEF HeadOK
      <3> QED
        BY <3>1, <3>2, TreeAssumption, HandlerKnows DEF LoopOK, Heights
    <2>2. /\ canonical' = canonical \/ canonical' = [canonical EXCEPT ![n] = None]
          /\ canonical \in [Heights -> Hash]
      BY <1>3 DEF UnsetAbove, Inv, TypeOK
    <2>3. CASE canonical' = [canonical EXCEPT ![n] = None]
      <3>1. /\ canonical'[0] = canonical[0]
            /\ \A m \in Heights : canonical'[m] = canonical[m] \/ canonical'[m] = None
        BY SMTT(60), <2>1, <2>2, <2>3, TreeAssumption DEF Heights
      <3> QED
        BY <1>0, <3>1 DEF Inv, CanonicalStored
    <2> QED
      BY SMTT(60), <1>1, <2>2, <2>3
  <1>4. ASSUME NEW p \in Handlers, SetHead(p) PROVE CanonicalStored'
    <2> DEFINE h == req[p].head
    <2>1. h \in tables["headers"] /\ Number[h] \in Heights
      BY <1>4, StoredBlocks, TreeAssumption, HandlerKnows
      DEF SetHead, HeadOK, UpdatingPcs, WritingPcs
    <2>2. canonical' = [canonical EXCEPT ![Number[h]] = h] /\ canonical \in [Heights -> Hash]
      BY <1>4 DEF SetHead, Inv, TypeOK
    <2>3. Number[h] = 0 => h = Genesis
      BY <2>1, NumberZero
    <2> QED
      BY SMTT(60), <1>0, <2>1, <2>2, <2>3, TreeAssumption DEF Inv, CanonicalStored, Heights
  <1>5. \/ canonical' = canonical
        \/ \E p \in Handlers : SetBranch(p) \/ UnsetAbove(p) \/ SetHead(p)
    <2>1. ASSUME NEW p \in Handlers, NEW b \in Blocks, NewPayload(p, b)
          PROVE  canonical' = canonical
      BY <2>1 DEF NewPayload
    <2>2. ASSUME NEW p \in Handlers, NEW r \in Requests, ForkchoiceUpdated(p, r)
          PROVE canonical' = canonical
      BY SMTT(60), <2>2 DEF ForkchoiceUpdated, store
    <2>3. ASSUME NEW p \in Handlers, HandlerStep(p), ~SetBranch(p), ~UnsetAbove(p), ~SetHead(p)
          PROVE canonical' = canonical
      BY ZenonT(60), <2>3
      DEF HandlerStep, AnswerSyncing, ReadLatest, CheckHead, AnswerAlready, FindLink,
                  WalkBack, CheckConnected, StoreBlock, UpdateFinalized,
                  UpdateSafe, UpdateLatest, store
    <2>4. CASE Crash
      BY <2>4 DEF Crash, store
    <2>5. CASE UNCHANGED vars
      BY SMTT(60), <2>5 DEF vars, store
    <2> QED
      BY <2>1, <2>2, <2>3, <2>4, <2>5 DEF Next
  <1> QED
    BY <1>1, <1>2, <1>3, <1>4, <1>5

-----------------------------------------------------------------------------
\* A step of handler p: the calls it may take up and the steps that follow
Acts(p) ==
    \/ \E b \in Blocks : NewPayload(p, b)
    \/ \E r \in Requests : ForkchoiceUpdated(p, r)
    \/ HandlerStep(p)

\* A handler's step leaves the other handlers alone
LEMMA OthersUntouched ==
    ASSUME TypeOK, NEW p \in Handlers, NEW q \in Handlers, p # q, Acts(p)
    PROVE  pc'[q] = pc[q] /\ req'[q] = req[q] /\ local'[q] = local[q]
  <1> USE DEF TypeOK, Return, TakeUp, Goto
  <1>1. ASSUME NEW b \in Blocks, NewPayload(p, b)
        PROVE  pc'[q] = pc[q] /\ req'[q] = req[q] /\ local'[q] = local[q]
    BY <1>1 DEF NewPayload, PayloadKnown, PayloadOrphan, PayloadInvalid, PayloadExecuted
  <1>2. ASSUME NEW r \in Requests, ForkchoiceUpdated(p, r)
        PROVE  pc'[q] = pc[q] /\ req'[q] = req[q] /\ local'[q] = local[q]
    BY <1>2 DEF ForkchoiceUpdated
  <1>3. CASE StoreBlock(p)
    BY <1>3 DEF StoreBlock
  <1>4. CASE AnswerSyncing(p) \/ ReadLatest(p) \/ CheckHead(p) \/ AnswerAlready(p)
    BY <1>4 DEF AnswerSyncing, ReadLatest, CheckHead, AnswerAlready
  <1>5. CASE FindLink(p) \/ WalkBack(p)
    BY <1>5 DEF FindLink, WalkBack
  <1>6. CASE CheckConnected(p)
    BY <1>6 DEF CheckConnected, AfterBranch
  <1>7. CASE SetBranch(p) \/ UnsetAbove(p) \/ SetHead(p)
    BY SMTT(60), <1>7 DEF SetBranch, AfterBranch, UnsetAbove, SetHead
  <1>8. CASE UpdateFinalized(p) \/ UpdateSafe(p) \/ UpdateLatest(p)
    BY ZenonT(60), <1>8 DEF UpdateFinalized, UpdateSafe, UpdateLatest
  <1> QED
    BY ZenonT(60), <1>1, <1>2, <1>3, <1>4, <1>5, <1>6, <1>7, <1>8 DEF Acts, HandlerStep

\* What a handler knows stays true while it rests
LEMMA RestingOK ==
    ASSUME Inv, [Next]_vars, NEW q \in Handlers,
           pc'[q] = pc[q], req'[q] = req[q], local'[q] = local[q]
    PROVE  StoringOK(q)' /\ UpdatingOK(q)'
  <1>1. /\ tables["headers"] \subseteq tables'["headers"]
        /\ tables["states"] \subseteq tables'["states"]
        /\ tables["locations"] \subseteq tables'["locations"]
        /\ tables["bodies"] \subseteq tables'["bodies"]
    BY TablesGrow DEF Tables
  <1>2. StoringOK(q)'
    BY ZenonT(60), <1>1 DEF Inv, StoringOK
  <1>3. UpdatingOK(q)
    BY ZenonT(60) DEF Inv
  <1>4. HeadOK(q)' /\ WalkOK(q)' /\ BranchOK(q)'
    BY ZenonT(60), <1>1, <1>3 DEF UpdatingOK, HeadOK, WalkOK, BranchOK
  <1>5. LinkOK(q)' /\ LoopOK(q)'
    BY ZenonT(60), <1>3 DEF UpdatingOK, LinkOK, LoopOK
  <1> QED
    BY <1>2, <1>4, <1>5 DEF UpdatingOK

\* An idle handler knows nothing
LEMMA IdleOK ==
    ASSUME NEW q \in Handlers, pc'[q] = "idle", local'[q] = NoLocals
    PROVE  StoringOK(q)' /\ UpdatingOK(q)'
  BY
  DEF StoringOK, UpdatingOK, HeadOK, WalkOK, BranchOK, LinkOK, LoopOK, UpdatingPcs, LinkedPcs,
      ReadingPcs, WritingPcs, NoLocals, NoBranch

\* A handler that answered is idle
LEMMA ReturnIdle ==
    ASSUME TypeOK, NEW p \in Handlers, NEW call, NEW answer, Return(p, call, answer)
    PROVE  pc'[p] = "idle" /\ local'[p] = NoLocals
  BY DEF Return, TypeOK

\* Taking up a call establishes what the handler's next steps rely on
LEMMA TakeUpOK ==
    ASSUME Inv, [Next]_vars, NEW p \in Handlers,
           \/ \E b \in Blocks : NewPayload(p, b)
           \/ \E r \in Requests : ForkchoiceUpdated(p, r)
    PROVE  StoringOK(p)' /\ UpdatingOK(p)'
  <1>1. ASSUME NEW b \in Blocks, NewPayload(p, b) PROVE StoringOK(p)' /\ UpdatingOK(p)'
    <2>1. CASE PayloadKnown(p, b) \/ PayloadOrphan(p, b) \/ PayloadInvalid(p, b)
      BY <2>1, ReturnIdle, IdleOK DEF PayloadKnown, PayloadOrphan, PayloadInvalid, Inv
    <2>2. CASE PayloadExecuted(p, b)
      <3>1. /\ pc'[p] = "store" /\ req'[p].head = b /\ local'[p].at = 1
            /\ local'[p].branch = local[p].branch
            /\ tables' = tables
        BY <1>1, <2>2
        DEF NewPayload, PayloadExecuted, TakeUp, NewPayloadCall, Inv, TypeOK, Locals
      <3>2. b # Genesis
        BY <2>2, StoredBlocks DEF PayloadExecuted, HasHeader
      <3>3. StoringOK(p)'
        BY SMTT(60), <2>2, <3>1, <3>2 DEF PayloadExecuted, HasHeader, StoringOK
      <3>4. BranchOK(p)'
        BY ZenonT(60), <3>1, HandlerKnows DEF BranchOK
      <3>5. HeadOK(p)' /\ WalkOK(p)' /\ LinkOK(p)' /\ LoopOK(p)'
        BY <3>1
        DEF HeadOK, WalkOK, LinkOK, LoopOK, UpdatingPcs, LinkedPcs, ReadingPcs, WritingPcs
      <3> QED
        BY <3>3, <3>4, <3>5 DEF UpdatingOK
    <2> QED
      BY ZenonT(60), <1>1, <2>1, <2>2 DEF NewPayload
  <1>2. ASSUME NEW r \in Requests, ForkchoiceUpdated(p, r) PROVE StoringOK(p)' /\ UpdatingOK(p)'
    <2>1. tables' = tables
      BY ZenonT(60), <1>2 DEF ForkchoiceUpdated, store
    <2>2. CASE Return(p, ForkchoiceCall(r), "error")
      BY SMTT(60), <2>2, ReturnIdle, IdleOK DEF Inv
    <2>3. CASE TakeUp(p, ForkchoiceCall(r), "syncing") /\ UNCHANGED local
      <3>1. pc'[p] = "syncing" /\ local'[p] = local[p]
        BY SMTT(60), <2>3 DEF TakeUp, Inv, TypeOK
      <3>2. BranchOK(p)'
        BY ZenonT(60), <2>1, <3>1, HandlerKnows DEF BranchOK
      <3>3. StoringOK(p)' /\ HeadOK(p)' /\ WalkOK(p)' /\ LinkOK(p)' /\ LoopOK(p)'
        BY <3>1
        DEF StoringOK, HeadOK, WalkOK, LinkOK, LoopOK, UpdatingPcs, LinkedPcs, ReadingPcs, WritingPcs
      <3> QED
        BY <3>2, <3>3 DEF UpdatingOK
    <2>4. CASE /\ LookupOutcome(r) = "ok"
               /\ TakeUp(p, ForkchoiceCall(r), "read_latest")
               /\ local' = [local EXCEPT ![p].found = Found(r)]
      <3>1. /\ pc'[p] = "read_latest" /\ req'[p] = ForkchoiceCall(r)
            /\ local'[p].found = Found(r) /\ local'[p].branch = local[p].branch
        BY <2>4 DEF TakeUp, Inv, TypeOK, Locals
      <3>2. r.head \in tables["headers"]
        BY <2>4 DEF LookupOutcome, Stored
      <3>3. /\ "safe" \in Found(r) => r.safe \in tables["headers"]
            /\ "finalized" \in Found(r) => r.finalized \in tables["headers"]
        BY ZenonT(60), EngineAssumption DEF Found, Stored
      <3>4. BranchOK(p)'
        BY ZenonT(60), <2>1, <3>1, HandlerKnows DEF BranchOK
      <3>5. HeadOK(p)'
        BY <2>1, <3>1, <3>2, <3>3 DEF HeadOK, ForkchoiceCall
      <3>6. StoringOK(p)' /\ WalkOK(p)' /\ LinkOK(p)' /\ LoopOK(p)'
        BY <3>1 DEF StoringOK, WalkOK, LinkOK, LoopOK, LinkedPcs, WritingPcs
      <3> QED
        BY <3>4, <3>5, <3>6 DEF UpdatingOK
    <2> QED
      BY <1>2, <2>2, <2>3, <2>4 DEF ForkchoiceUpdated
  <1> QED
    BY <1>1, <1>2

\* The writes of add_block
LEMMA StoreBlockOK ==
    ASSUME Inv, [Next]_vars, NEW p \in Handlers, StoreBlock(p)
    PROVE  StoringOK(p)' /\ UpdatingOK(p)'
  <1>1. CASE Return(p, req[p], "VALID")
    BY <1>1, ReturnIdle, IdleOK DEF Inv
  <1>2. CASE local' = [local EXCEPT ![p].at = local[p].at + 1] /\ UNCHANGED <<pc, req, reply>>
             /\ local[p].at < 7
    <2> DEFINE b == req[p].head
               i == local[p].at
    <2>1. /\ pc'[p] = "store" /\ req'[p] = req[p] /\ local'[p].at = i + 1
          /\ local'[p].branch = local[p].branch
      BY <1>2 DEF StoreBlock, Inv, TypeOK, Locals
    <2>2. /\ tables["headers"] \subseteq tables'["headers"]
          /\ tables["states"] \subseteq tables'["states"]
          /\ tables["locations"] \subseteq tables'["locations"]
          /\ tables["bodies"] \subseteq tables'["bodies"]
      BY TablesGrow DEF Tables
    <2>3. /\ i \in 1 .. 7
          /\ i = 1 => b \in tables'["states"]
          /\ i = 2 => b \in tables'["locations"]
          /\ i = 3 => b \in tables'["bodies"]
      BY ZenonT(60), StoreBlockTables, StoreOrderTables DEF Tables
    <2>4. StoringOK(p)'
      BY <1>2, <2>1, <2>2, <2>3 DEF StoreBlock, Inv, StoringOK
    <2>5. BranchOK(p)'
      BY <2>1, <2>2, HandlerKnows DEF BranchOK
    <2>6. HeadOK(p)' /\ WalkOK(p)' /\ LinkOK(p)' /\ LoopOK(p)'
      BY <2>1
      DEF HeadOK, WalkOK, LinkOK, LoopOK, UpdatingPcs, LinkedPcs, ReadingPcs, WritingPcs
    <2> QED
      BY <2>4, <2>5, <2>6 DEF UpdatingOK
  <1> QED
    BY <1>1, <1>2, StoreOrderTables DEF StoreBlock

\* The reads of apply_fork_choice
LEMMA ReadsOK ==
    ASSUME Inv, [Next]_vars, NEW p \in Handlers,
           \/ AnswerSyncing(p) \/ ReadLatest(p) \/ CheckHead(p) \/ AnswerAlready(p)
           \/ FindLink(p) \/ WalkBack(p) \/ CheckConnected(p)
    PROVE  StoringOK(p)' /\ UpdatingOK(p)'
  <1> DEFINE h == req[p].head
  <1>0. /\ pc \in [Handlers -> Pcs] /\ local \in [Handlers -> Locals]
        /\ local[p] \in Locals
    BY ZenonT(60) DEF Inv, TypeOK
  <1>1. CASE AnswerSyncing(p) \/ AnswerAlready(p)
    BY <1>1, ReturnIdle, IdleOK DEF AnswerSyncing, AnswerAlready, Inv
  <1>2. CASE ReadLatest(p) \/ CheckHead(p) \/ FindLink(p)
    <2>1. /\ pc[p] \in {"read_latest", "check_head", "link"}
          /\ pc'[p] \in {"check_head", "already", "link", "connected", "walk"}
          /\ req'[p] = req[p] /\ tables' = tables
          /\ local'[p].branch = local[p].branch /\ local'[p].found = local[p].found
          /\ pc'[p] = "connected" => local'[p].link = Number[h]
          /\ pc'[p] = "walk" => local'[p].cur = h
      <3>1. CASE ReadLatest(p)
        BY Zenon, <1>0, <3>1 DEF ReadLatest, Goto, store, Locals
      <3>2. CASE CheckHead(p)
        BY Zenon, <1>0, <3>2 DEF CheckHead, Goto, store
      <3>3. CASE FindLink(p)
        <4>1. pc[p] = "link" /\ req'[p] = req[p] /\ tables' = tables
          BY Zenon, <3>3 DEF FindLink, store
        <4>2. CASE local' = [local EXCEPT ![p].link = Number[h]] /\ Goto(p, "connected")
          BY SMTT(60), <1>0, <4>1, <4>2 DEF Goto, Locals
        <4>3. CASE local' = [local EXCEPT ![p].cur = h] /\ Goto(p, "walk")
          BY SMTT(60), <1>0, <4>1, <4>3 DEF Goto, Locals
        <4> QED
          BY Zenon, <3>3, <4>2, <4>3 DEF FindLink
      <3> QED
        BY Zenon, <1>2, <3>1, <3>2, <3>3
    <2>2. HeadOK(p) /\ pc[p] \in UpdatingPcs
      BY Zenon, <2>1, HandlerKnows DEF UpdatingPcs, ReadingPcs
    <2>3. h \in tables["headers"] /\ Number[h] \in Heights
      BY ZenonT(60), <2>2, StoredBlocks, TreeAssumption DEF HeadOK
    <2>4. Number[h] \in Int /\ \A n \in Heights : ~(Number[h] <= n /\ n < Number[h])
      BY <2>3, TreeAssumption DEF Heights
    <2>5. StoringOK(p)' /\ LoopOK(p)'
      BY ZenonT(60), <2>1 DEF StoringOK, LoopOK
    <2>6. HeadOK(p)'
      BY ZenonT(60), <2>1, <2>2 DEF HeadOK
    <2>7. BranchOK(p)'
      BY ZenonT(60), <2>1, HandlerKnows DEF BranchOK
    <2>8. WalkOK(p)'
      BY <2>1, <2>3, <2>4 DEF WalkOK
    <2>9. LinkOK(p)'
      BY <2>1, <2>4 DEF LinkOK, LinkedPcs, WritingPcs
    <2> QED
      BY <2>5, <2>6, <2>7, <2>8, <2>9 DEF UpdatingOK
  <1>3. CASE WalkBack(p)
    <2> DEFINE c == local[p].cur
               n == Number[c] - 1
    <2>1. /\ pc[p] = "walk" /\ tables' = tables
          /\ h \in tables["headers"] /\ Number[h] \in Heights
          /\ c \in tables["headers"] /\ Number[c] \in Heights /\ Number[c] <= Number[h]
          /\ \A m \in Heights : Number[c] <= m /\ m < Number[h] => local[p].branch[m] # None
      <3>1. pc[p] = "walk" /\ pc[p] \in UpdatingPcs /\ tables' = tables
        BY <1>3 DEF WalkBack, UpdatingPcs, ReadingPcs, store
      <3>2. HeadOK(p) /\ WalkOK(p)
        BY ZenonT(60), HandlerKnows
      <3> QED
        BY ZenonT(60), <3>1, <3>2, StoredBlocks, TreeAssumption DEF HeadOK, WalkOK
    <2>2. CASE Return(p, req[p], "error")
      BY Zenon, <2>2, ReturnIdle, IdleOK DEF Inv
    <2>3. CASE /\ local' = [local EXCEPT ![p].link = Number[c]]
               /\ Goto(p, "connected")
               /\ UNCHANGED <<req, reply>>
      <3>1. /\ pc'[p] = "connected" /\ req'[p] = req[p] /\ local'[p].link = Number[c]
            /\ local'[p].branch = local[p].branch /\ local'[p].found = local[p].found
        BY SMTT(60), <1>0, <2>3 DEF Goto, Locals
      <3>2. StoringOK(p)'
        BY ZenonT(60), <3>1 DEF StoringOK
      <3>3. BranchOK(p)'
        BY ZenonT(60), <2>1, <3>1, HandlerKnows DEF BranchOK
      <3>4. HeadOK(p)'
        BY Zenon, <2>1, <3>1, HandlerKnows DEF HeadOK, UpdatingPcs, ReadingPcs
      <3>5. WalkOK(p)' /\ LoopOK(p)'
        BY ZenonT(60), <3>1 DEF WalkOK, LoopOK
      <3>6. LinkOK(p)'
        BY Zenon, <2>1, <3>1 DEF LinkOK
      <3> QED
        BY <3>2, <3>3, <3>4, <3>5, <3>6 DEF UpdatingOK
    <2>4. CASE /\ n >= 0 /\ HasHeader(Parent[c]) /\ canonical[n] # Parent[c]
               /\ local' = [local EXCEPT ![p].cur = Parent[c], ![p].branch[n] = Parent[c]]
               /\ UNCHANGED <<pc, req, reply>>
      <3>1. n \in Heights /\ local[p].branch \in [Heights -> Hash]
        BY <1>0, <2>1, <2>4, TreeAssumption DEF Heights, Locals
      <3>2. /\ pc'[p] = "walk" /\ req'[p] = req[p] /\ local'[p].cur = Parent[c]
            /\ local'[p].branch = [local[p].branch EXCEPT ![n] = Parent[c]]
            /\ local'[p].found = local[p].found
        BY <1>0, <2>1, <2>4 DEF Locals
      <3>3. c \in Blocks /\ c # Genesis /\ Defect[c] = "none"
        <4>1. c \in Blocks /\ Defect[c] = "none"
          BY SMTT(60), <2>1, StoredBlocks DEF Inv, StoredIsExecuted
        <4>2. c # Genesis
          BY SMTT(60), <2>1, <2>4, TreeAssumption DEF Heights
        <4> QED
          BY ZenonT(60), <4>1, <4>2
      <3>4. Parent[c] \in tables["headers"] /\ Number[Parent[c]] = n
        BY <2>1, <2>4, <3>3, TreeAssumption DEF HasHeader, Heights
      <3>5. n > 0
        <4>1. n = 0 => Parent[c] = Genesis /\ canonical[n] = Genesis
          BY Zenon, <3>4, NumberZero DEF Inv, CanonicalStored
        <4>2. n \in Int /\ n >= 0
          BY <3>1, TreeAssumption DEF Heights
        <4> HIDE DEF n
        <4>3. n # 0
          BY ZenonT(60), <2>4, <4>1
        <4> QED
          BY SMTT(60), <4>2, <4>3
      <3>6. StoringOK(p)'
        BY Zenon, <3>2 DEF StoringOK
      <3>7. Parent[c] # None
        BY ZenonT(60), <3>4, StoredBlocks
      <3>8. \A m \in Heights : local'[p].branch[m] # None =>
               m > 0 /\ local'[p].branch[m] \in tables["headers"]
               /\ Number[local'[p].branch[m]] = m
        <4>1. BranchOK(p)
          BY ZenonT(60), HandlerKnows
        <4>2. \A m \in Heights : m = n \/ local'[p].branch[m] = local[p].branch[m]
          BY ZenonT(60), <3>1, <3>2
        <4>3. local'[p].branch[n] = Parent[c]
          BY <3>1, <3>2
        <4>4. ASSUME NEW m \in Heights, local'[p].branch[m] # None
              PROVE  m > 0 /\ local'[p].branch[m] \in tables["headers"]
                     /\ Number[local'[p].branch[m]] = m
          <5>1. CASE m = n
            BY ZenonT(60), <3>4, <3>5, <4>3, <5>1
          <5>2. CASE local'[p].branch[m] = local[p].branch[m]
            BY ZenonT(60), <4>1, <4>4, <5>2 DEF BranchOK
          <5> QED
            BY ZenonT(60), <4>2, <5>1, <5>2
        <4> QED
          BY Zenon, <4>4
      <3>9. \A m \in Heights : n <= m /\ m < Number[h] => local'[p].branch[m] # None
        <4>1. Number[c] \in Int /\ Number[h] \in Int /\ \A m \in Heights : m \in Int
          BY <2>1, TreeAssumption DEF Heights
        <4>2. local'[p].branch[n] # None
          BY ZenonT(60), <3>1, <3>2, <3>7
        <4>3. \A m \in Heights : m # n => local'[p].branch[m] = local[p].branch[m]
          BY ZenonT(60), <3>1, <3>2
        <4>4. ASSUME NEW m \in Heights, n <= m, m < Number[h] PROVE local'[p].branch[m] # None
          <5>1. m # n => Number[c] <= m
            BY <4>1, <4>4
          <5>2. m # n => local[p].branch[m] # None
            BY Zenon, <2>1, <4>4, <5>1
          <5> QED
            BY Zenon, <4>2, <4>3, <5>2
        <4> QED
          BY Zenon, <4>4
      <3>10. Number[Parent[c]] <= Number[h]
        <4>1. Number[c] \in Int /\ Number[h] \in Int
          BY <2>1, TreeAssumption DEF Heights
        <4>2. Number[c] <= Number[h]
          BY Zenon, <2>1
        <4> QED
          BY <3>4, <4>1, <4>2
      <3>11. BranchOK(p)'
        BY ZenonT(60), <2>1, <3>8 DEF BranchOK
      <3>12. HeadOK(p)'
        BY ZenonT(60), <2>1, <3>2, HandlerKnows DEF HeadOK
      <3>13. WalkOK(p)'
        BY ZenonT(60), <2>1, <3>2, <3>4, <3>9, <3>10 DEF WalkOK
      <3>14. LinkOK(p)' /\ LoopOK(p)'
        BY Zenon, <3>2 DEF LinkOK, LoopOK, LinkedPcs, WritingPcs
      <3> QED
        BY <3>6, <3>11, <3>12, <3>13, <3>14 DEF UpdatingOK
    <2> QED
      BY ZenonT(60), <1>3, <2>2, <2>3, <2>4 DEF WalkBack
  <1>4. CASE CheckConnected(p)
    <2>1. CASE Return(p, req[p], "error")
      BY Zenon, <2>1, ReturnIdle, IdleOK DEF Inv
    <2>2. CASE /\ UNCHANGED <<req, reply>>
               /\ \/ /\ local[p].link < Number[h]
                     /\ Goto(p, "branch")
                     /\ local' = [local EXCEPT ![p].at = Number[h] - 1]
                  \/ AfterBranch(p)
      <3>1. /\ pc[p] = "connected" /\ tables' = tables
            /\ h \in tables["headers"] /\ Number[h] \in Heights
            /\ local[p].link \in Heights /\ local[p].seen \in Heights
        <4>1. pc[p] = "connected" /\ pc[p] \in UpdatingPcs /\ tables' = tables
          BY ZenonT(60), <1>4 DEF CheckConnected, UpdatingPcs, ReadingPcs, store
        <4>2. h \in tables["headers"]
          BY Zenon, <4>1, HandlerKnows DEF HeadOK
        <4> QED
          BY <1>0, <4>1, <4>2, StoredBlocks, TreeAssumption DEF Locals
      <3>2. /\ req'[p] = req[p] /\ local'[p].link = local[p].link
            /\ local'[p].branch = local[p].branch /\ local'[p].found = local[p].found
            /\ local'[p].seen = local[p].seen
            /\ \/ /\ pc'[p] = "branch" /\ local[p].link < Number[h]
                  /\ local'[p].at = Number[h] - 1
               \/ /\ pc'[p] = "unset" /\ Number[h] < local[p].seen
                  /\ local'[p].at = Number[h] + 1
               \/ pc'[p] = "head"
        BY SMTT(60), <1>0, <2>2 DEF Goto, AfterBranch, Locals
      <3>3. StoringOK(p)'
        BY ZenonT(60), <3>2 DEF StoringOK
      <3>4. BranchOK(p)'
        BY ZenonT(60), <3>1, <3>2, HandlerKnows DEF BranchOK
      <3>5. HeadOK(p)'
        BY ZenonT(60), <3>1, <3>2, HandlerKnows DEF HeadOK, UpdatingPcs, ReadingPcs
      <3>6. WalkOK(p)'
        BY <3>2 DEF WalkOK
      <3>7. LinkOK(p)'
        <4>1. LinkOK(p) /\ pc[p] \in LinkedPcs
          BY ZenonT(60), <3>1, HandlerKnows DEF LinkedPcs
        <4> QED
          BY ZenonT(60), <3>2, <4>1 DEF LinkOK
      <3>8. LoopOK(p)'
        BY ZenonT(60), <3>1, <3>2, LoopSteps DEF LoopOK
      <3> QED
        BY ZenonT(60), <3>3, <3>4, <3>5, <3>6, <3>7, <3>8 DEF UpdatingOK
    <2> QED
      BY <1>4, <2>1, <2>2 DEF CheckConnected
  <1> QED
    BY <1>1, <1>2, <1>3, <1>4

\* The writes of apply_fork_choice
LEMMA WritesOK ==
    ASSUME Inv, [Next]_vars, NEW p \in Handlers,
           \/ SetBranch(p) \/ UnsetAbove(p) \/ SetHead(p)
           \/ UpdateFinalized(p) \/ UpdateSafe(p) \/ UpdateLatest(p)
    PROVE  StoringOK(p)' /\ UpdatingOK(p)'
  <1> DEFINE h == req[p].head
  <1>0. /\ pc \in [Handlers -> Pcs] /\ local \in [Handlers -> Locals]
        /\ local[p] \in Locals
    BY ZenonT(60) DEF Inv, TypeOK
  <1>1. CASE UpdateLatest(p)
    BY <1>1, ReturnIdle, IdleOK DEF UpdateLatest, Inv
  <1>2. CASE SetHead(p) \/ UpdateFinalized(p) \/ UpdateSafe(p)
    <2>1. /\ pc[p] \in {"head", "finalized", "safe"}
          /\ \/ pc'[p] = "finalized" /\ "finalized" \in local[p].found
             \/ pc'[p] = "safe" /\ "safe" \in local[p].found
             \/ pc'[p] = "latest"
          /\ req'[p] = req[p] /\ local'[p] = local[p] /\ tables' = tables
      BY ZenonT(60), <1>0, <1>2 DEF SetHead, UpdateFinalized, UpdateSafe, Goto
    <2>2. HeadOK(p)' /\ BranchOK(p)'
      BY ZenonT(60), <2>1, HandlerKnows DEF HeadOK, BranchOK, UpdatingPcs, WritingPcs
    <2>3. LinkOK(p)'
      BY Zenon, <2>1, HandlerKnows DEF LinkOK, LinkedPcs, WritingPcs
    <2>4. StoringOK(p)' /\ WalkOK(p)' /\ LoopOK(p)'
      BY ZenonT(60), <2>1 DEF StoringOK, WalkOK, LoopOK
    <2> QED
      BY <2>2, <2>3, <2>4 DEF UpdatingOK
  <1>3. CASE SetBranch(p) \/ UnsetAbove(p)
    <2>1. /\ pc[p] \in {"branch", "unset"} /\ tables' = tables /\ req'[p] = req[p]
          /\ h \in tables["headers"] /\ Number[h] \in Heights
          /\ local[p].link \in Heights /\ local[p].seen \in Heights /\ local[p].at \in Int
      <3>1. pc[p] \in {"branch", "unset"} /\ tables' = tables /\ req'[p] = req[p]
        BY <1>3 DEF SetBranch, UnsetAbove
      <3>2. pc[p] \in UpdatingPcs
        BY ZenonT(60), <3>1 DEF UpdatingPcs, WritingPcs
      <3>3. h \in tables["headers"]
        BY Zenon, <3>2, HandlerKnows DEF HeadOK
      <3> QED
        BY Zenon, <1>0, <3>1, <3>3, StoredBlocks, TreeAssumption DEF Locals
    <2>2. /\ local'[p].link = local[p].link /\ local'[p].seen = local[p].seen
          /\ local'[p].branch = local[p].branch /\ local'[p].found = local[p].found
          /\ \/ /\ pc[p] = "branch" /\ pc'[p] = "branch" /\ local[p].at > local[p].link
                /\ local'[p].at = local[p].at - 1
             \/ /\ pc'[p] = "unset" /\ pc[p] = "branch" /\ Number[h] < local[p].seen
                /\ local'[p].at = Number[h] + 1
             \/ /\ pc'[p] = "unset" /\ pc[p] = "unset" /\ local[p].at < local[p].seen
                /\ local'[p].at = local[p].at + 1
             \/ pc'[p] = "head"
      BY SMTT(60), <1>0, <1>3 DEF SetBranch, UnsetAbove, Goto, AfterBranch, Locals
    <2>3. StoringOK(p)'
      BY ZenonT(60), <2>2 DEF StoringOK
    <2>4. HeadOK(p)'
      BY ZenonT(60), <2>1, <2>2, HandlerKnows DEF HeadOK, UpdatingPcs, WritingPcs
    <2>5. BranchOK(p)' /\ WalkOK(p)'
      BY ZenonT(60), <2>1, <2>2, HandlerKnows DEF BranchOK, WalkOK
    <2>6. LinkOK(p)'
      BY ZenonT(60), <2>1, <2>2, HandlerKnows DEF LinkOK, LinkedPcs, WritingPcs
    <2>7. LoopOK(p)'
      <3>1. LoopOK(p) /\ Number[h] \in Int /\ local[p].link \in Int /\ local[p].seen \in Int
        BY ZenonT(60), <2>1, LoopSteps, HandlerKnows
      <3> QED
        BY ZenonT(60), <2>1, <2>2, <3>1, LoopSteps DEF LoopOK
    <2> QED
      BY ZenonT(60), <2>3, <2>4, <2>5, <2>6, <2>7 DEF UpdatingOK
  <1> QED
    BY <1>1, <1>2, <1>3

\* The invariant is inductive
LEMMA StepInv ==
    ASSUME Inv, [Next]_vars
    PROVE  Inv'
  <1>1. ASSUME NEW p \in Handlers, Acts(p), NEW q \in Handlers
        PROVE  StoringOK(q)' /\ UpdatingOK(q)'
    <2>1. CASE q = p
      BY Zenon, <1>1, <2>1, TakeUpOK, StoreBlockOK, ReadsOK, WritesOK DEF Acts, HandlerStep
    <2>2. CASE q # p
      BY <1>1, <2>2, OthersUntouched, RestingOK DEF Inv
    <2> QED
      BY <2>1, <2>2
  <1>2. ASSUME Crash, NEW q \in Handlers
        PROVE  StoringOK(q)' /\ UpdatingOK(q)'
    BY <1>2, IdleOK DEF Crash
  <1>3. ASSUME UNCHANGED vars, NEW q \in Handlers
        PROVE  StoringOK(q)' /\ UpdatingOK(q)'
    BY <1>3, RestingOK DEF vars, handlers
  <1>4. \A q \in Handlers : (StoringOK(q) /\ UpdatingOK(q))'
    BY <1>1, <1>2, <1>3 DEF Next, Acts
  <1> QED
    BY <1>4, TypeStep, StoredStep, CanonicalStep DEF Inv

LEMMA InvHolds == Spec => []Inv
  BY InitInv, StepInv, PTL DEF Spec

\* Every variable keeps its type, whatever handlers overlap or are cut off.
THEOREM TypeCorrect == Spec => []TypeOK
  <1>1. Inv => TypeOK
    BY DEF Inv
  <1> QED
    BY <1>1, InvHolds, PTL

\* A stored header always stands for an executed block with a stored parent:
\* newPayload may answer VALID on finding it, under every interleaving and crash.
THEOREM StoredSound == Spec => []StoredIsExecuted
  <1>1. Inv => StoredIsExecuted
    BY DEF Inv
  <1> QED
    BY <1>1, InvHolds, PTL

\* Canonical entries always name stored blocks of their number, and genesis is
\* never displaced, under every interleaving and crash of fork choice updates.
THEOREM CanonicalSound == Spec => []CanonicalStored
  <1>1. Inv => CanonicalStored
    BY DEF Inv
  <1> QED
    BY <1>1, InvHolds, PTL

-----------------------------------------------------------------------------
\* What a handler's verdict on a payload rests on: the header it found or wrote
VerdictOK(p) ==
    /\ pc[p] = "store" /\ local[p].at > 4 => req[p].head \in tables["headers"]
    /\ Answered(p, "newPayload", {"VALID"}) => req[p].head \in tables["headers"]
    /\ Answered(p, "newPayload", {"INVALID"}) => Defect[req[p].head] # "none"

VerdictInv == \A p \in Handlers : VerdictOK(p)

\* A handler's step leaves the answers of the others alone
LEMMA RepliesUntouched ==
    ASSUME TypeOK, NEW p \in Handlers, NEW q \in Handlers, p # q, Acts(p)
    PROVE  reply'[q] = reply[q]
  <1> USE DEF TypeOK, Return, TakeUp
  <1>1. ASSUME NEW b \in Blocks, NewPayload(p, b) PROVE reply'[q] = reply[q]
    BY <1>1 DEF NewPayload, PayloadKnown, PayloadOrphan, PayloadInvalid, PayloadExecuted
  <1>2. ASSUME NEW r \in Requests, ForkchoiceUpdated(p, r) PROVE reply'[q] = reply[q]
    BY <1>2 DEF ForkchoiceUpdated
  <1>3. CASE HandlerStep(p)
    BY <1>3, ZenonT(60)
    DEF HandlerStep, StoreBlock, AnswerSyncing, ReadLatest, CheckHead, AnswerAlready, FindLink,
        WalkBack, CheckConnected, SetBranch, UnsetAbove, SetHead, UpdateFinalized, UpdateSafe,
        UpdateLatest
  <1> QED
    BY <1>1, <1>2, <1>3 DEF Acts

\* A call answered without a verdict leaves nothing to answer for
LEMMA NoVerdict ==
    ASSUME TypeOK, NEW p \in Handlers, NEW call, NEW answer,
           Return(p, call, answer), answer \notin {"VALID", "INVALID"}
    PROVE  VerdictOK(p)'
  BY DEF Return, TypeOK, VerdictOK, Answered

\* The verdicts of newPayload, and of the writes of add_block
LEMMA PayloadVerdicts ==
    ASSUME Inv, [Next]_vars, NEW p \in Handlers, VerdictOK(p),
           (\E b \in Blocks : NewPayload(p, b)) \/ StoreBlock(p)
    PROVE  VerdictOK(p)'
  <1>0. TypeOK /\ pc \in [Handlers -> Pcs] /\ req \in [Handlers -> Calls]
        /\ reply \in [Handlers -> Replies] /\ local \in [Handlers -> Locals] /\ local[p] \in Locals
    BY DEF Inv, TypeOK
  <1>1. ASSUME NEW b \in Blocks, NewPayload(p, b) PROVE VerdictOK(p)'
    <2>1. tables' = tables
      BY <1>1 DEF NewPayload
    <2>2. CASE PayloadKnown(p, b)
      <3>1. /\ pc'[p] = "idle" /\ reply'[p] = "VALID"
            /\ req'[p].head = b /\ b \in tables["headers"]
        BY Zenon, <1>0, <2>2 DEF PayloadKnown, HasHeader, Return, Verdicts, NewPayloadCall
      <3> QED
        BY Zenon, <2>1, <3>1 DEF VerdictOK, Answered
    <2>3. CASE PayloadOrphan(p, b)
      BY Zenon, <1>0, <2>3, NoVerdict DEF PayloadOrphan
    <2>4. CASE PayloadInvalid(p, b)
      <3>1. /\ pc'[p] = "idle" /\ reply'[p] = "INVALID"
            /\ req'[p].head = b /\ Defect[b] # "none"
        BY Zenon, <1>0, <2>4 DEF PayloadInvalid, Return, Verdicts, NewPayloadCall
      <3> QED
        BY Zenon, <2>1, <3>1 DEF VerdictOK, Answered
    <2>5. CASE PayloadExecuted(p, b)
      <3>1. pc'[p] = "store" /\ local'[p].at = 1
        BY <1>0, <2>5 DEF PayloadExecuted, TakeUp, Locals
      <3> QED
        BY <3>1 DEF VerdictOK, Answered
    <2> QED
      BY <1>1, <2>2, <2>3, <2>4, <2>5 DEF NewPayload
  <1>2. CASE StoreBlock(p)
    <2> DEFINE i == local[p].at
               b == req[p].head
    <2>1. i \in 1 .. 7 /\ tables["headers"] \subseteq tables'["headers"]
      BY Zenon, <1>2, StoreBlockTables, TablesGrow DEF Tables
    <2>2. i >= 4 => b \in tables'["headers"]
      <3>1. CASE i = 4
        BY Zenon, <1>2, <3>1, StoreBlockTables, StoreOrderTables DEF Tables
      <3>2. CASE i > 4
        BY <1>2, <2>1, <3>2 DEF VerdictOK, StoreBlock
      <3>3. i >= 4 => i = 4 \/ i > 4
        BY <2>1
      <3> QED
        BY Zenon, <3>1, <3>2, <3>3
    <2>3. CASE Return(p, req[p], "VALID") /\ ~(i < 7)
      <3>1. pc'[p] = "idle" /\ reply'[p] = "VALID" /\ req'[p] = req[p]
        BY <1>0, <2>3 DEF Return, Verdicts
      <3> QED
        BY <2>1, <2>2, <2>3, <3>1 DEF VerdictOK, Answered
    <2>4. CASE local' = [local EXCEPT ![p].at = i + 1] /\ UNCHANGED <<pc, req, reply>>
      <3>1. pc'[p] = "store" /\ local'[p].at = i + 1 /\ req'[p] = req[p]
        BY <1>0, <1>2, <2>4 DEF StoreBlock, Locals
      <3> QED
        BY <2>1, <2>2, <3>1 DEF VerdictOK, Answered
    <2> QED
      BY Zenon, <1>2, <2>3, <2>4, StoreOrderTables DEF StoreBlock
  <1> QED
    BY <1>1, <1>2

\* Updates say nothing of a payload, except for a head that is stored
LEMMA UpdateVerdicts ==
    ASSUME Inv, [Next]_vars, NEW p \in Handlers,
           (\E r \in Requests : ForkchoiceUpdated(p, r)) \/ (HandlerStep(p) /\ ~StoreBlock(p))
    PROVE  VerdictOK(p)'
  <1>0. TypeOK /\ pc \in [Handlers -> Pcs] /\ req \in [Handlers -> Calls]
        /\ reply \in [Handlers -> Replies]
    BY DEF Inv, TypeOK
  <1>1. ASSUME pc'[p] \notin {"idle", "store"} PROVE VerdictOK(p)'
    BY <1>1 DEF VerdictOK, Answered
  <1>2. ASSUME NEW r \in Requests, ForkchoiceUpdated(p, r) PROVE VerdictOK(p)'
    <2>1. CASE Return(p, ForkchoiceCall(r), "error")
      BY <1>0, <2>1, NoVerdict
    <2>2. CASE TakeUp(p, ForkchoiceCall(r), "syncing") \/ TakeUp(p, ForkchoiceCall(r), "read_latest")
      BY <1>0, <1>1, <2>2 DEF TakeUp
    <2> QED
      BY <1>2, <2>1, <2>2 DEF ForkchoiceUpdated
  <1>3. CASE AnswerSyncing(p) \/ AnswerAlready(p)
    BY <1>0, <1>3, NoVerdict DEF AnswerSyncing, AnswerAlready
  <1>4. CASE ReadLatest(p) \/ CheckHead(p) \/ FindLink(p)
    BY <1>0, <1>1, <1>4 DEF ReadLatest, CheckHead, FindLink, Goto
  <1>5. CASE WalkBack(p)
    <2>1. Return(p, req[p], "error") \/ Goto(p, "connected") \/ (pc[p] = "walk" /\ UNCHANGED pc)
      BY <1>5, Zenon DEF WalkBack
    <2> QED
      BY <1>0, <1>1, <2>1, NoVerdict DEF Goto
  <1>6. CASE CheckConnected(p)
    <2>1. Return(p, req[p], "error") \/ \E label \in {"branch", "unset", "head"} : Goto(p, label)
      BY <1>6 DEF CheckConnected, AfterBranch
    <2> QED
      BY <1>0, <1>1, <2>1, NoVerdict DEF Goto
  <1>7. CASE SetBranch(p) \/ UnsetAbove(p) \/ SetHead(p) \/ UpdateFinalized(p) \/ UpdateSafe(p)
    <2>1. pc'[p] \in WritingPcs
      BY <1>0, <1>7
      DEF SetBranch, AfterBranch, UnsetAbove, SetHead, UpdateFinalized, UpdateSafe, Goto, WritingPcs
    <2> QED
      BY <1>1, <2>1 DEF WritingPcs
  <1>8. CASE UpdateLatest(p)
    <2>1. req[p].head \in tables["headers"]
      BY Zenon, <1>8, HandlerKnows DEF UpdateLatest, HeadOK, UpdatingPcs, WritingPcs
    <2>2. pc'[p] = "idle" /\ reply'[p] = "VALID" /\ req'[p] = req[p] /\ tables' = tables
      BY <1>0, <1>8 DEF UpdateLatest, Return, Verdicts
    <2> QED
      BY Zenon, <2>1, <2>2 DEF VerdictOK, Answered
  <1> QED
    BY <1>2, <1>3, <1>4, <1>5, <1>6, <1>7, <1>8 DEF HandlerStep

LEMMA StepVerdict ==
    ASSUME Inv, VerdictInv, [Next]_vars
    PROVE  VerdictInv'
  <1>0. tables["headers"] \subseteq tables'["headers"]
    BY TablesGrow DEF Tables
  <1>1. ASSUME NEW p \in Handlers, Acts(p), NEW q \in Handlers PROVE VerdictOK(q)'
    <2>1. CASE q = p
      BY <1>1, <2>1, PayloadVerdicts, UpdateVerdicts DEF Acts, VerdictInv
    <2>2. CASE q # p
      <3>1. /\ pc'[q] = pc[q] /\ req'[q] = req[q] /\ local'[q] = local[q]
            /\ reply'[q] = reply[q]
        BY Zenon, <1>1, <2>2, OthersUntouched, RepliesUntouched DEF Inv
      <3> QED
        BY <1>0, <3>1 DEF VerdictInv, VerdictOK, Answered
    <2> QED
      BY <2>1, <2>2
  <1>2. ASSUME Crash, NEW q \in Handlers PROVE VerdictOK(q)'
    BY <1>2 DEF Crash, VerdictOK, Answered
  <1>3. ASSUME UNCHANGED vars, NEW q \in Handlers PROVE VerdictOK(q)'
    BY <1>3 DEF vars, store, handlers, VerdictInv, VerdictOK, Answered
  <1> QED
    BY <1>1, <1>2, <1>3 DEF Next, Acts, VerdictInv

\* The verdicts of newPayload are sound for every block tree, whatever handlers
\* overlap or are cut off: a block called VALID has no defect in its ancestry, and
\* one called INVALID has one itself.
THEOREM VerdictsHold == Spec => []VerdictsSound
  <1>1. Init => VerdictInv
    BY Zenon DEF Init, VerdictInv, VerdictOK, Answered, NoCall
  <1>2. Inv /\ VerdictInv => VerdictsSound
    <2> SUFFICES ASSUME Inv, VerdictInv, NEW p \in Handlers,
                        Answered(p, "newPayload", {"VALID"}), NEW a \in Ancestors[req[p].head]
                 PROVE  Defect[a] = "none"
      BY DEF VerdictsSound, VerdictInv, VerdictOK
    <2>1. req[p].head \in tables["headers"] /\ tables["headers"] \in SUBSET Blocks
      BY StoredBlocks DEF VerdictInv, VerdictOK
    <2>2. ParentClosed(tables["headers"])
      BY DEF ParentClosed, Inv, StoredIsExecuted
    <2>3. a \in tables["headers"]
      BY <2>1, <2>2, AncestorsLeast
    <2> QED
      BY <2>3 DEF Inv, StoredIsExecuted
  <1> QED
    BY <1>1, <1>2, InitInv, StepInv, StepVerdict, PTL DEF Spec

==============================================================================
