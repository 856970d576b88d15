-------------------------- MODULE EngineFinalProofs --------------------------
(***************************************************************************)
(* EngineApi with a client that waits for answers and is consistent about  *)
(* finality: on every storage engine, with crashes between any two steps,  *)
(* for every block tree and every safe hash, the canonical entry of the    *)
(* finalized block never changes.                                          *)
(*                                                                         *)
(* FinalInv, on top of Inv, is inductive there.  All that an update writes *)
(* lies on one line, that of the ancestors of its head; the finalized      *)
(* block lies on it too, and a line has one block of each number.          *)
(***************************************************************************)
EXTENDS EngineSerialProofs

\* A client that waits for answers, never goes back on finality, and finalizes
\* only ancestors of the head it names
ClientConsistent ==
    /\ Serial
    /\ FinalityRespected
    /\ \A r \in Requests :
          r.finalized # None => r.head \in Blocks /\ r.finalized \in Ancestors[r.head]

\* The finalized block is canonical, and an ancestor of what was finalized last
FinalOK ==
    finalized # NoNumber =>
        sentFinal \in Blocks /\ canonical[finalized] \in Ancestors[sentFinal]

\* All that an update collects are ancestors of its head
BranchInLine(p) ==
    /\ pc[p] = "walk" => local[p].cur \in Ancestors[req[p].head]
    /\ \A n \in Heights :
          local[p].branch[n] # None => local[p].branch[n] \in Ancestors[req[p].head]

\* The branch holds nothing outside the range that is to be written
BranchInRange(p) ==
    LET lowest == IF pc[p] = "walk" THEN Number[local[p].cur] ELSE local[p].link
    IN  IF pc[p] \in LinkedPcs \cup {"walk"}
        THEN \A n \in Heights :
                local[p].branch[n] # None => lowest <= n /\ n < Number[req[p].head]
        ELSE local[p].branch = NoBranch

\* The block to be finalized is canonical, or among the writes to come
FinalInPlace(p) ==
    LET f == req[p].finalized
    IN  pc[p] \in WritingPcs /\ "finalized" \in local[p].found =>
            \/ canonical[Number[f]] = f
            \/ pc[p] = "branch" /\ local[p].branch[Number[f]] = f /\ Number[f] <= local[p].at
            \/ pc[p] \in {"branch", "unset", "head"} /\ f = req[p].head

FinalizingOK(p) ==
    /\ pc[p] \in UpdatingPcs =>
          /\ sentFinal = req[p].finalized
          /\ req[p].finalized \in Ancestors[req[p].head]
          /\ BranchInLine(p)
          /\ BranchInRange(p)
          /\ FinalInPlace(p)
    /\ pc[p] = "idle" => local[p] = NoLocals

FinalInv ==
    /\ OneActive
    /\ FinalOK
    /\ \A p \in Handlers : FinalizingOK(p)

-----------------------------------------------------------------------------
\* A handler outside an update claims nothing, once its locals are forgotten
LEMMA OutsideFinal ==
    ASSUME NEW q \in Handlers, pc'[q] \in {"idle", "store", "syncing"},
           pc'[q] = "idle" => local'[q] = NoLocals
    PROVE  FinalizingOK(q)'
  BY DEF FinalizingOK, UpdatingPcs, ReadingPcs, WritingPcs

\* What the handler of an update knows about finality
LEMMA UpdateKnows ==
    ASSUME Inv, FinalInv, NEW p \in Handlers, pc[p] \in UpdatingPcs
    PROVE  /\ sentFinal = req[p].finalized
           /\ req[p].head \in Blocks /\ req[p].head # None
           /\ Number[req[p].head] \in Heights
           /\ req[p].finalized \in Ancestors[req[p].head]
           /\ req[p].finalized \in Blocks
           /\ BranchInLine(p) /\ BranchInRange(p) /\ FinalInPlace(p)
  <1>1. /\ sentFinal = req[p].finalized
        /\ req[p].finalized \in Ancestors[req[p].head]
        /\ BranchInLine(p) /\ BranchInRange(p) /\ FinalInPlace(p)
    BY DEF FinalInv, FinalizingOK
  <1>2. req[p].head \in Blocks /\ req[p].head # None /\ Number[req[p].head] \in Heights
    BY HeadStored
  <1> QED
    BY <1>1, <1>2, AncestorsClosed

\* The finalized block lies on the line of every update
LEMMA FinalInLine ==
    ASSUME Inv, FinalInv, NEW p \in Handlers, pc[p] \in UpdatingPcs, finalized # NoNumber
    PROVE  /\ finalized \in Heights
           /\ canonical[finalized] \in Ancestors[req[p].head]
           /\ canonical[finalized] \in Blocks
           /\ Number[canonical[finalized]] = finalized
  <1>1. canonical[finalized] \in Ancestors[req[p].finalized] /\ finalized \in Heights
    BY UpdateKnows DEF FinalInv, FinalOK, Inv, TypeOK
  <1>2. canonical[finalized] \in Ancestors[req[p].head]
    BY <1>1, UpdateKnows, AncestorsTransitive
  <1>3. canonical[finalized] \in Blocks
    BY <1>2, UpdateKnows, AncestorsClosed
  <1> QED
    BY <1>1, <1>2, <1>3, TreeAssumption DEF Inv, CanonicalStored

\* A write on the line of a block keeps the other entries on that line
LEMMA LineWrite ==
    ASSUME NEW h \in Blocks, NEW x \in Ancestors[h], NEW y \in Ancestors[h],
           canonical \in [Heights -> Hash], canonical[Number[x]] = x,
           canonical' = [canonical EXCEPT ![Number[y]] = y]
    PROVE  canonical'[Number[x]] = x
  <1>1. x \in Blocks /\ y \in Blocks /\ Number[x] \in Heights /\ Number[y] \in Heights
    BY AncestorsClosed, TreeAssumption
  <1>2. CASE Number[x] = Number[y]
    BY <1>1, <1>2, AncestorsUnique
  <1>3. CASE Number[x] # Number[y]
    BY <1>1, <1>3
  <1> QED
    BY <1>2, <1>3

-----------------------------------------------------------------------------
\* Calls are taken up without touching the chain, and an update starts with a
\* head that descends from the block it finalizes
LEMMA FinalTakeUp ==
    ASSUME Inv, FinalInv, ClientConsistent, NEW p \in Handlers,
           \/ \E b \in Blocks : NewPayload(p, b)
           \/ \E r \in Requests : ForkchoiceUpdated(p, r)
    PROVE  FinalOK' /\ FinalizingOK(p)' /\ canonical' = canonical
  <1>0. /\ pc \in [Handlers -> Pcs] /\ local \in [Handlers -> Locals]
        /\ req \in [Handlers -> Calls] /\ local[p] \in Locals
        /\ FinalOK /\ FinalizingOK(p)
    BY DEF Inv, TypeOK, FinalInv
  <1>1. ASSUME NEW b \in Blocks, NewPayload(p, b)
        PROVE  FinalOK' /\ FinalizingOK(p)' /\ canonical' = canonical
    <2>1. /\ canonical' = canonical /\ finalized' = finalized /\ sentFinal' = sentFinal
          /\ pc'[p] \in {"idle", "store"} /\ (pc'[p] = "idle" => local'[p] = NoLocals)
      BY <1>0, <1>1
      DEF NewPayload, PayloadKnown, PayloadOrphan, PayloadInvalid, PayloadExecuted, Return, TakeUp
    <2> QED
      BY <1>0, <2>1, OutsideFinal DEF FinalOK
  <1>2. ASSUME NEW r \in Requests, ForkchoiceUpdated(p, r)
        PROVE  FinalOK' /\ FinalizingOK(p)' /\ canonical' = canonical
    <2>1. /\ r.finalized # None /\ (sentFinal # None => sentFinal \in Ancestors[r.finalized])
          /\ sentFinal' = r.finalized /\ canonical' = canonical /\ finalized' = finalized
      BY <1>2 DEF ForkchoiceUpdated, ClientConsistent, RespectsFinality, store
    <2>2. r.head \in Blocks /\ r.finalized \in Ancestors[r.head] /\ r.finalized \in Blocks
      BY <2>1, AncestorsClosed DEF ClientConsistent
    <2>3. FinalOK'
      <3> SUFFICES ASSUME finalized # NoNumber
                   PROVE  canonical[finalized] \in Ancestors[r.finalized]
        BY <2>1, <2>2 DEF FinalOK
      <3>1. sentFinal \in Blocks /\ canonical[finalized] \in Ancestors[sentFinal]
        BY <1>0 DEF FinalOK
      <3>2. sentFinal \in Ancestors[r.finalized]
        BY <2>1, <3>1, TreeAssumption
      <3> QED
        BY <2>2, <3>1, <3>2, AncestorsTransitive
    <2>4. CASE pc'[p] \in {"idle", "syncing"}
      <3>1. pc'[p] = "idle" => local'[p] = NoLocals
        BY <1>0, <1>2 DEF ForkchoiceUpdated, Return, TakeUp
      <3> QED
        BY <2>1, <2>3, <2>4, <3>1, OutsideFinal
    <2>5. CASE pc'[p] = "read_latest"
      <3>1. /\ req'[p] = ForkchoiceCall(r) /\ pc[p] = "idle"
            /\ local'[p] = [local[p] EXCEPT !.found = Found(r)]
        BY <1>0, <1>2, <2>5 DEF ForkchoiceUpdated, Return, TakeUp, Free
      <3>2. local'[p].branch = NoBranch
        BY <1>0, <3>1 DEF FinalizingOK, NoLocals
      <3>3. req'[p].head = r.head /\ req'[p].finalized = r.finalized
        BY <3>1 DEF ForkchoiceCall
      <3>4. BranchInLine(p)' /\ BranchInRange(p)' /\ FinalInPlace(p)'
        BY <2>5, <3>2 DEF BranchInLine, BranchInRange, FinalInPlace, NoBranch, LinkedPcs, WritingPcs
      <3> QED
        BY <2>1, <2>2, <2>3, <2>5, <3>3, <3>4 DEF FinalizingOK
    <2>6. pc'[p] \in {"idle", "syncing", "read_latest"}
      BY <1>0, <1>2 DEF ForkchoiceUpdated, Return, TakeUp
    <2> QED
      BY <2>4, <2>5, <2>6
  <1> QED
    BY <1>1, <1>2

\* Steps that store a block or answer leave the chain alone
LEMMA FinalAnswers ==
    ASSUME Inv, FinalInv, NEW p \in Handlers,
           StoreBlock(p) \/ AnswerSyncing(p) \/ AnswerAlready(p) \/ UpdateLatest(p)
    PROVE  FinalOK' /\ FinalizingOK(p)' /\ canonical' = canonical
  <1>0. pc \in [Handlers -> Pcs] /\ local \in [Handlers -> Locals] /\ FinalOK
    BY DEF Inv, TypeOK, FinalInv
  <1>1. /\ canonical' = canonical /\ finalized' = finalized /\ sentFinal' = sentFinal
        /\ pc'[p] \in {"idle", "store"} /\ (pc'[p] = "idle" => local'[p] = NoLocals)
    BY <1>0 DEF StoreBlock, AnswerSyncing, AnswerAlready, UpdateLatest, Return, store
  <1> QED
    BY <1>0, <1>1, OutsideFinal DEF FinalOK

\* ReadLatest, CheckHead and the start of find_link_with_canonical_chain
LEMMA FinalFirstReads ==
    ASSUME Inv, FinalInv, NEW p \in Handlers, ReadLatest(p) \/ CheckHead(p) \/ FindLink(p)
    PROVE  FinalOK' /\ FinalizingOK(p)' /\ canonical' = canonical
  <1> DEFINE h == req[p].head
  <1>0. /\ pc \in [Handlers -> Pcs] /\ local \in [Handlers -> Locals] /\ local[p] \in Locals
        /\ FinalOK
    BY DEF Inv, TypeOK, FinalInv
  <1>1. /\ pc[p] \in {"read_latest", "check_head", "link"}
        /\ pc'[p] \in {"check_head", "already", "link", "connected", "walk"}
        /\ req'[p] = req[p] /\ canonical' = canonical /\ finalized' = finalized
        /\ sentFinal' = sentFinal /\ local'[p].branch = local[p].branch
        /\ pc'[p] = "walk" => local'[p].cur = h
    BY <1>0 DEF ReadLatest, CheckHead, FindLink, Goto, store, Locals
  <1>2. pc[p] \in UpdatingPcs /\ pc'[p] \in UpdatingPcs /\ pc'[p] \notin WritingPcs
    BY <1>1 DEF UpdatingPcs, ReadingPcs, WritingPcs
  <1>3. local[p].branch = NoBranch
    BY <1>1, <1>2, UpdateKnows DEF BranchInRange, LinkedPcs, WritingPcs
  <1>4. h \in Ancestors[h]
    BY <1>2, UpdateKnows, AncestorsClosed
  <1>5. BranchInLine(p)' /\ BranchInRange(p)'
    BY <1>1, <1>3, <1>4 DEF BranchInLine, BranchInRange, NoBranch
  <1>6. FinalInPlace(p)'
    BY <1>2 DEF FinalInPlace
  <1> QED
    BY <1>0, <1>1, <1>2, <1>5, <1>6, UpdateKnows DEF FinalOK, FinalizingOK, UpdatingPcs

\* The loop of find_link_with_canonical_chain stays on the line of the head
LEMMA FinalWalk ==
    ASSUME Inv, FinalInv, NEW p \in Handlers, WalkBack(p)
    PROVE  FinalOK' /\ FinalizingOK(p)' /\ canonical' = canonical
  <1> DEFINE h == req[p].head
             c == local[p].cur
             b == local[p].branch
             n == Number[c] - 1
  <1>0. /\ pc \in [Handlers -> Pcs] /\ local \in [Handlers -> Locals] /\ local[p] \in Locals
        /\ b \in [Heights -> Hash] /\ FinalOK
    BY DEF Inv, TypeOK, FinalInv, Locals
  <1>1. /\ pc[p] = "walk" /\ canonical' = canonical /\ finalized' = finalized
        /\ sentFinal' = sentFinal
    BY DEF WalkBack, store
  <1>2. pc[p] \in UpdatingPcs
    BY <1>1 DEF UpdatingPcs, ReadingPcs
  <1>3. /\ c \in tables["headers"] /\ c \in Blocks /\ Number[c] \in Heights
        /\ Number[c] <= Number[h] /\ h \in Blocks /\ Number[h] \in Heights
    BY ZenonT(60), <1>1, <1>2, HandlerKnows, StoredBlocks, HeadStored, TreeAssumption DEF WalkOK
  <1>4. /\ c \in Ancestors[h]
        /\ \A m \in Heights : b[m] # None =>
              b[m] \in Ancestors[h] /\ Number[c] <= m /\ m < Number[h]
    BY <1>1, <1>2, UpdateKnows DEF BranchInLine, BranchInRange
  <1>5. FinalOK'
    BY <1>0, <1>1 DEF FinalOK
  <1>6. CASE Return(p, req[p], "error")
    BY <1>1, <1>5, <1>6, ReturnIdle, OutsideFinal DEF Inv
  <1>7. CASE /\ local' = [local EXCEPT ![p].link = Number[c]]
             /\ Goto(p, "connected")
             /\ UNCHANGED <<req, reply>>
    <2>1. /\ pc'[p] = "connected" /\ req'[p] = req[p] /\ local'[p].link = Number[c]
          /\ local'[p].branch = b
      BY <1>0, <1>7 DEF Goto, Locals
    <2>2. BranchInLine(p)' /\ BranchInRange(p)' /\ FinalInPlace(p)'
      BY <1>4, <2>1 DEF BranchInLine, BranchInRange, FinalInPlace, LinkedPcs, WritingPcs
    <2> QED
      BY <1>1, <1>2, <1>5, <2>1, <2>2, UpdateKnows DEF FinalizingOK
  <1>8. CASE /\ n >= 0 /\ HasHeader(Parent[c])
             /\ local' = [local EXCEPT ![p].cur = Parent[c], ![p].branch[n] = Parent[c]]
             /\ UNCHANGED <<pc, req, reply>>
    <2>1. n \in Heights /\ n < Number[h] /\ Number[c] > 0
      BY <1>3, <1>8, HeightsRange
    <2>2. Number[Parent[c]] = n
      BY <1>3, <2>1, StoredParent
    <2>3. Parent[c] \in Ancestors[h]
      <3>1. c # Genesis /\ Defect[c] # "header"
        BY <1>3, <2>1, TreeAssumption DEF Inv, StoredIsExecuted
      <3> QED
        BY <1>3, <1>4, <3>1, AncestorsClosed DEF ParentClosed
    <2>4. /\ pc'[p] = "walk" /\ req'[p] = req[p] /\ local'[p].cur = Parent[c]
          /\ local'[p].branch = [b EXCEPT ![n] = Parent[c]]
      BY <1>0, <1>1, <1>8 DEF Locals
    <2>5. BranchInLine(p)'
      BY <1>0, <1>4, <2>1, <2>3, <2>4 DEF BranchInLine
    <2>6. ASSUME NEW m \in Heights, local'[p].branch[m] # None
          PROVE  Number[Parent[c]] <= m /\ m < Number[h]
      <3>1. CASE m = n
        BY <2>1, <2>2, <3>1, HeightsRange
      <3>2. CASE m # n
        BY <1>0, <1>3, <1>4, <2>1, <2>2, <2>4, <2>6, <3>2, HeightsRange
      <3> QED
        BY <3>1, <3>2
    <2>7. BranchInRange(p)' /\ FinalInPlace(p)'
      BY <2>4, <2>6 DEF BranchInRange, FinalInPlace, LinkedPcs, WritingPcs
    <2> QED
      BY <1>1, <1>2, <1>5, <2>4, <2>5, <2>7, UpdateKnows DEF FinalizingOK
  <1> QED
    BY <1>1, <1>6, <1>7, <1>8 DEF WalkBack

\* The check that the finalized block is connected puts it in place
LEMMA FinalConnected ==
    ASSUME Inv, FinalInv, NEW p \in Handlers, CheckConnected(p)
    PROVE  FinalOK' /\ FinalizingOK(p)' /\ canonical' = canonical
  <1> DEFINE h == req[p].head
             f == req[p].finalized
             b == local[p].branch
             link == local[p].link
  <1>0. /\ pc \in [Handlers -> Pcs] /\ local \in [Handlers -> Locals] /\ local[p] \in Locals
        /\ link \in Heights /\ FinalOK
    BY DEF Inv, TypeOK, FinalInv, Locals
  <1>1. /\ pc[p] = "connected" /\ canonical' = canonical /\ finalized' = finalized
        /\ sentFinal' = sentFinal
    BY DEF CheckConnected, store
  <1>2. pc[p] \in UpdatingPcs /\ pc[p] \in LinkedPcs
    BY <1>1 DEF UpdatingPcs, ReadingPcs, LinkedPcs
  <1>3. /\ h \in Blocks /\ Number[h] \in Heights /\ f \in Blocks /\ Number[f] \in Heights
        /\ BranchInLine(p) /\ link <= Number[h]
        /\ \A m \in Heights : b[m] # None => link <= m /\ m < Number[h]
    <2>1. link <= Number[h]
      BY <1>2, HandlerKnows DEF LinkOK
    <2> QED
      BY <1>1, <1>2, <2>1, UpdateKnows, TreeAssumption DEF BranchInRange
  <1>4. FinalOK'
    BY <1>0, <1>1 DEF FinalOK
  <1>5. CASE Return(p, req[p], "error")
    BY <1>1, <1>4, <1>5, ReturnIdle, OutsideFinal DEF Inv
  <1>6. CASE /\ \A t \in local[p].found : Connected(p, req[p][t])
             /\ IF link < Number[h]
                THEN /\ Goto(p, "branch")
                     /\ local' = [local EXCEPT ![p].at = Number[h] - 1]
                ELSE AfterBranch(p)
             /\ UNCHANGED <<req, reply>>
    <2>1. /\ req'[p] = req[p] /\ local'[p].branch = b /\ local'[p].link = link
          /\ local'[p].found = local[p].found
          /\ \/ link < Number[h] /\ pc'[p] = "branch" /\ local'[p].at = Number[h] - 1
             \/ ~(link < Number[h]) /\ pc'[p] \in {"unset", "head"}
      BY <1>0, <1>6 DEF Goto, AfterBranch, Locals
    <2>2. /\ pc'[p] \in LinkedPcs /\ pc'[p] \in UpdatingPcs /\ pc'[p] # "walk"
          /\ pc'[p] \in {"branch", "unset", "head"}
      BY <2>1 DEF LinkedPcs, UpdatingPcs, WritingPcs
    <2>3. BranchInLine(p)' /\ BranchInRange(p)'
      BY <1>3, <2>1, <2>2 DEF BranchInLine, BranchInRange
    <2>4. FinalInPlace(p)'
      <3> SUFFICES ASSUME "finalized" \in local[p].found
                   PROVE  \/ canonical[Number[f]] = f
                          \/ /\ pc'[p] = "branch" /\ b[Number[f]] = f
                             /\ Number[f] <= local'[p].at
                          \/ f = h
        BY <1>1, <2>1, <2>2 DEF FinalInPlace
      <3>1. \/ canonical[Number[f]] = f
            \/ f = h
            \/ b[Number[f]] = f
        BY <1>6 DEF Connected, IsCanonical
      <3>2. ASSUME b[Number[f]] = f
            PROVE  pc'[p] = "branch" /\ Number[f] <= local'[p].at
        <4>1. f # None
          BY <1>3, TreeAssumption
        <4>2. link <= Number[f] /\ Number[f] < Number[h]
          BY <1>3, <3>2, <4>1
        <4> QED
          BY <1>0, <1>3, <2>1, <4>2, HeightsRange
      <3> QED
        BY <3>1, <3>2
    <2> QED
      BY <1>1, <1>2, <1>4, <2>1, <2>2, <2>3, <2>4, UpdateKnows DEF FinalizingOK
  <1> QED
    BY <1>5, <1>6 DEF CheckConnected

\* When a write keeps the finalized entry, the finalized block stays in place
LEMMA FinalKept ==
    ASSUME FinalInv, finalized' = finalized, sentFinal' = sentFinal,
           finalized # NoNumber => canonical'[finalized] = canonical[finalized]
    PROVE  FinalOK'
  BY DEF FinalInv, FinalOK

\* Writing the branch: its entries lie on the line of the head
LEMMA FinalSetBranch ==
    ASSUME Inv, FinalInv, NEW p \in Handlers, SetBranch(p)
    PROVE  /\ FinalOK' /\ FinalizingOK(p)'
           /\ finalized # NoNumber => canonical'[finalized] = canonical[finalized]
  <1> DEFINE h == req[p].head
             f == req[p].finalized
             b == local[p].branch
             link == local[p].link
             n == local[p].at
  <1>0. /\ pc \in [Handlers -> Pcs] /\ local \in [Handlers -> Locals] /\ local[p] \in Locals
        /\ link \in Heights /\ n \in Int /\ canonical \in [Heights -> Hash]
    BY DEF Inv, TypeOK, Locals
  <1>1. /\ pc[p] = "branch" /\ canonical' = [canonical EXCEPT ![n] = b[n]]
        /\ finalized' = finalized /\ sentFinal' = sentFinal /\ req'[p] = req[p]
    BY DEF SetBranch
  <1>2. pc[p] \in UpdatingPcs /\ pc[p] \in LinkedPcs /\ pc[p] \in WritingPcs
    BY <1>1 DEF UpdatingPcs, LinkedPcs, WritingPcs
  <1>3. /\ h \in Blocks /\ Number[h] \in Heights /\ f \in Blocks /\ Number[f] \in Heights
        /\ f \in Ancestors[h] /\ BranchInLine(p)
        /\ \A m \in Heights : b[m] # None => link <= m /\ m < Number[h]
    BY <1>1, <1>2, UpdateKnows, TreeAssumption DEF BranchInRange
  <1>4. n \in link .. Number[h] - 1 /\ n \in Heights
    <2>1. n \in link .. Number[h] - 1
      BY <1>1, HandlerKnows DEF LoopOK
    <2> QED
      BY <1>0, <1>3, <2>1, HeightsRange
  <1>5. b[n] # None /\ b[n] \in Ancestors[h] /\ Number[b[n]] = n
    <2>1. b[n] # None
      BY <1>0, <1>2, <1>3, <1>4, HandlerKnows, HeightsRange DEF LinkOK
    <2> QED
      BY <1>3, <1>4, <2>1, HandlerKnows DEF BranchInLine, BranchOK
  <1>6. ASSUME NEW x \in Ancestors[h], canonical[Number[x]] = x
        PROVE  canonical'[Number[x]] = x
    <2>1. canonical' = [canonical EXCEPT ![Number[b[n]]] = b[n]]
      BY <1>1, <1>5
    <2> HIDE DEF h, b, n
    <2> QED
      BY Zenon, <1>0, <1>3, <1>5, <1>6, <2>1, LineWrite
  <1>7. finalized # NoNumber => canonical'[finalized] = canonical[finalized]
    BY <1>2, <1>6, FinalInLine
  <1>8. /\ local'[p].branch = b /\ local'[p].link = link /\ local'[p].found = local[p].found
        /\ \/ pc'[p] = "branch" /\ n > link /\ local'[p].at = n - 1
           \/ pc'[p] \in {"unset", "head"} /\ ~(n > link)
    BY <1>0, <1>1 DEF SetBranch, AfterBranch, Goto, Locals
  <1>9. /\ pc'[p] \in LinkedPcs /\ pc'[p] \in UpdatingPcs /\ pc'[p] # "walk"
        /\ pc'[p] \in {"branch", "unset", "head"}
    BY <1>8 DEF LinkedPcs, UpdatingPcs, WritingPcs
  <1>10. BranchInLine(p)' /\ BranchInRange(p)'
    BY Zenon, <1>1, <1>2, <1>3, <1>8, <1>9 DEF BranchInLine, BranchInRange
  <1>11. FinalInPlace(p)'
    <2> SUFFICES ASSUME "finalized" \in local[p].found
                 PROVE  \/ canonical'[Number[f]] = f
                        \/ /\ pc'[p] = "branch" /\ b[Number[f]] = f
                           /\ Number[f] <= local'[p].at
                        \/ f = h
      BY <1>1, <1>8, <1>9 DEF FinalInPlace
    <2>1. \/ canonical[Number[f]] = f
          \/ b[Number[f]] = f /\ Number[f] <= n
          \/ f = h
      BY <1>2, UpdateKnows DEF FinalInPlace
    <2>2. CASE canonical[Number[f]] = f
      BY <1>3, <1>6, <2>2
    <2>3. CASE b[Number[f]] = f /\ Number[f] <= n
      <3>1. CASE Number[f] = n
        BY <1>0, <1>1, <1>4, <2>3, <3>1
      <3>2. CASE Number[f] # n
        <4>1. link <= Number[f] /\ Number[f] <= n - 1 /\ n > link
          <5>1. f # None
            BY <1>3, TreeAssumption
          <5>2. link <= Number[f]
            BY <1>3, <2>3, <5>1
          <5> QED
            BY <1>0, <1>3, <2>3, <3>2, <5>2, HeightsRange
        <4> QED
          BY <1>8, <2>3, <4>1
      <3> QED
        BY <3>1, <3>2
    <2> QED
      BY Zenon, <2>1, <2>2, <2>3
  <1>12. FinalOK'
    BY <1>1, <1>7, FinalKept
  <1> QED
    BY <1>1, <1>2, <1>7, <1>9, <1>10, <1>11, <1>12, UpdateKnows DEF FinalizingOK

\* Entries are removed only above the head, and the head is on its own line
LEMMA FinalOtherWrites ==
    ASSUME Inv, FinalInv, NEW p \in Handlers, UnsetAbove(p) \/ SetHead(p)
    PROVE  /\ FinalOK' /\ FinalizingOK(p)'
           /\ finalized # NoNumber => canonical'[finalized] = canonical[finalized]
  <1> DEFINE h == req[p].head
             f == req[p].finalized
             n == local[p].at
  <1>0. /\ pc \in [Handlers -> Pcs] /\ local \in [Handlers -> Locals] /\ local[p] \in Locals
        /\ n \in Int /\ local[p].seen \in Heights /\ canonical \in [Heights -> Hash]
    BY DEF Inv, TypeOK, Locals
  <1>1. /\ pc[p] \in {"unset", "head"}
        /\ finalized' = finalized /\ sentFinal' = sentFinal /\ req'[p] = req[p]
    BY DEF UnsetAbove, SetHead
  <1>2. /\ pc[p] \in UpdatingPcs /\ pc[p] \in LinkedPcs /\ pc[p] \in WritingPcs
        /\ pc[p] # "walk" /\ pc[p] # "branch"
    BY <1>1 DEF UpdatingPcs, LinkedPcs, WritingPcs
  <1>3. /\ h \in Blocks /\ Number[h] \in Heights /\ h \in Ancestors[h]
        /\ f \in Ancestors[h] /\ BranchInLine(p) /\ BranchInRange(p)
    BY <1>2, UpdateKnows, AncestorsClosed
  <1>4. "finalized" \in local[p].found => canonical[Number[f]] = f \/ f = h
    BY <1>2, UpdateKnows DEF FinalInPlace
  <1>5. ASSUME NEW x \in Ancestors[h], canonical[Number[x]] = x
        PROVE  canonical'[Number[x]] = x
    <2>1. CASE UnsetAbove(p)
      <3>1. n \in Number[h] + 1 .. local[p].seen
        BY <2>1, HandlerKnows DEF LoopOK, UnsetAbove
      <3>2. n > Number[h]
        BY <1>0, <1>3, <3>1, HeightsRange
      <3>3. x \in Blocks /\ Number[x] \in Heights
        BY <1>3, AncestorsClosed, TreeAssumption
      <3>4. x = h \/ Number[x] < Number[h]
        BY <1>3, AncestorsBelow
      <3>5. Number[x] # n
        BY <1>3, <3>2, <3>3, <3>4, HeightsRange
      <3>6. canonical' = canonical \/ canonical' = [canonical EXCEPT ![n] = None]
        BY <2>1 DEF UnsetAbove
      <3> QED
        BY <1>0, <1>5, <3>3, <3>5, <3>6
    <2>2. CASE SetHead(p)
      <3>1. canonical' = [canonical EXCEPT ![Number[h]] = h]
        BY <2>2 DEF SetHead
      <3> HIDE DEF h
      <3> QED
        BY Zenon, <1>0, <1>3, <1>5, <3>1, LineWrite
    <2> QED
      BY <2>1, <2>2
  <1>6. finalized # NoNumber => canonical'[finalized] = canonical[finalized]
    BY <1>2, <1>5, FinalInLine
  <1>7. /\ local'[p].branch = local[p].branch /\ local'[p].link = local[p].link
        /\ local'[p].found = local[p].found
        /\ \/ pc'[p] \in {"unset", "head"}
           \/ pc'[p] \in {"finalized", "safe", "latest"} /\ canonical'[Number[h]] = h
    <2>1. CASE UnsetAbove(p)
      BY <1>0, <1>1, <2>1 DEF UnsetAbove, Goto, Locals
    <2>2. CASE SetHead(p)
      BY <1>0, <1>3, <2>2 DEF SetHead, Goto
    <2> QED
      BY <2>1, <2>2
  <1>8. /\ pc'[p] \in LinkedPcs /\ pc'[p] \in UpdatingPcs /\ pc'[p] # "walk"
        /\ pc'[p] \in {"unset", "head", "finalized", "safe", "latest"}
    BY Zenon, <1>7 DEF LinkedPcs, UpdatingPcs, WritingPcs
  <1>9. BranchInLine(p)' /\ BranchInRange(p)'
    BY Zenon, <1>1, <1>2, <1>3, <1>7, <1>8 DEF BranchInLine, BranchInRange
  <1>10. FinalInPlace(p)'
    BY Zenon, <1>1, <1>3, <1>4, <1>5, <1>7 DEF FinalInPlace
  <1>11. FinalOK'
    BY Zenon, <1>1, <1>6, FinalKept
  <1> QED
    BY <1>1, <1>2, <1>6, <1>8, <1>9, <1>10, <1>11, UpdateKnows DEF FinalizingOK

\* The block recorded as finalized is canonical by then
LEMMA FinalLabels ==
    ASSUME Inv, FinalInv, NEW p \in Handlers, UpdateFinalized(p) \/ UpdateSafe(p)
    PROVE  FinalOK' /\ FinalizingOK(p)' /\ canonical' = canonical
  <1> DEFINE f == req[p].finalized
  <1>0. pc \in [Handlers -> Pcs] /\ FinalOK
    BY DEF Inv, TypeOK, FinalInv
  <1>1. /\ pc[p] \in {"finalized", "safe"} /\ pc'[p] \in {"safe", "latest"}
        /\ canonical' = canonical /\ sentFinal' = sentFinal
        /\ req'[p] = req[p] /\ local'[p] = local[p]
    BY <1>0 DEF UpdateFinalized, UpdateSafe, Goto
  <1>2. /\ pc[p] \in UpdatingPcs /\ pc[p] \in LinkedPcs /\ pc[p] \in WritingPcs
        /\ pc[p] \notin {"walk", "branch", "unset", "head"}
        /\ pc'[p] \in UpdatingPcs /\ pc'[p] \in LinkedPcs /\ pc'[p] # "walk"
    BY <1>1 DEF UpdatingPcs, LinkedPcs, WritingPcs
  <1>3. /\ sentFinal = f /\ f \in Blocks /\ f \in Ancestors[f]
        /\ "finalized" \in local[p].found => canonical[Number[f]] = f
    BY <1>2, UpdateKnows, AncestorsClosed DEF FinalInPlace
  <1>4. BranchInLine(p)' /\ BranchInRange(p)'
    BY Zenon, <1>1, <1>2, UpdateKnows DEF BranchInLine, BranchInRange
  <1>5. FinalInPlace(p)'
    BY <1>1, <1>3 DEF FinalInPlace
  <1>6. FinalOK'
    <2>1. CASE UpdateFinalized(p)
      <3>1. finalized' = Number[f] /\ "finalized" \in local[p].found
        BY <2>1, HandlerKnows DEF UpdateFinalized, LoopOK
      <3> QED
        BY <1>1, <1>3, <3>1 DEF FinalOK
    <2>2. CASE UpdateSafe(p)
      BY <1>0, <1>1, <2>2 DEF UpdateSafe, FinalOK
    <2> QED
      BY <2>1, <2>2
  <1> QED
    BY <1>1, <1>2, <1>4, <1>5, <1>6, UpdateKnows DEF FinalizingOK

-----------------------------------------------------------------------------
\* The invariant is inductive, and no step changes the finalized entry
LEMMA StepFinal ==
    ASSUME Inv, FinalInv, ClientConsistent, [Next]_vars
    PROVE  /\ FinalInv'
           /\ finalized # NoNumber => canonical'[finalized] = canonical[finalized]
  <1>0. OneActive /\ FinalOK /\ \A p \in Handlers : FinalizingOK(p)
    BY DEF FinalInv
  <1>1. ASSUME NEW p \in Handlers, Acts(p)
        PROVE  /\ FinalInv'
               /\ finalized # NoNumber => canonical'[finalized] = canonical[finalized]
    <2>1. OneActive' /\ \A q \in Handlers : q # p => pc[q] = "idle" /\ pc'[q] = "idle"
      BY <1>0, <1>1, OneActiveStep DEF ClientConsistent
    <2>2. /\ FinalOK' /\ FinalizingOK(p)'
          /\ finalized # NoNumber => canonical'[finalized] = canonical[finalized]
      BY <1>1, FinalTakeUp, FinalAnswers, FinalFirstReads, FinalWalk, FinalConnected,
         FinalSetBranch, FinalOtherWrites, FinalLabels
      DEF Acts, HandlerStep
    <2>3. ASSUME NEW q \in Handlers, q # p PROVE FinalizingOK(q)'
      <3>1. pc'[q] = "idle" /\ local'[q] = local[q] /\ local[q] = NoLocals
        BY <1>0, <1>1, <2>1, <2>3, OthersUntouched DEF Inv, FinalizingOK
      <3> QED
        BY <3>1, OutsideFinal
    <2> QED
      BY <2>1, <2>2, <2>3 DEF FinalInv
  <1>2. CASE Crash
    <2>1. canonical' = canonical /\ finalized' = finalized /\ sentFinal' = sentFinal
      BY <1>2 DEF Crash, store
    <2>2. \A q \in Handlers : pc'[q] = "idle" /\ local'[q] = NoLocals
      BY <1>2 DEF Crash
    <2> QED
      BY <1>0, <2>1, <2>2, OutsideFinal DEF FinalInv, FinalOK, OneActive
  <1>3. CASE UNCHANGED vars
    <2>1. /\ pc' = pc /\ req' = req /\ local' = local /\ canonical' = canonical
          /\ finalized' = finalized /\ sentFinal' = sentFinal
      BY <1>3 DEF vars, store, handlers
    <2>2. FinalOK' /\ OneActive'
      BY <1>0, <2>1 DEF FinalOK, OneActive
    <2>3. ASSUME NEW q \in Handlers PROVE FinalizingOK(q)'
      BY ZenonT(60), <1>0, <2>1
      DEF FinalizingOK, BranchInLine, BranchInRange, FinalInPlace
    <2> QED
      BY <2>1, <2>2, <2>3 DEF FinalInv
  <1> QED
    BY <1>1, <1>2, <1>3 DEF Next, Acts

\* The canonical entry of the finalized block never changes, with a client that
\* waits for answers, never goes back on finality and finalizes ancestors of the
\* heads it names: for every block tree, storage engine and number of handlers,
\* also when a crash cut an earlier update off.
THEOREM FinalityKept == ASSUME ClientConsistent PROVE Spec => FinalizedNeverReorged
  <1>1. Init => FinalInv
    BY DEF Init, FinalInv, OneActive, FinalOK, FinalizingOK, UpdatingPcs, ReadingPcs, WritingPcs
  <1>2. Inv /\ FinalInv /\ [Next]_vars =>
           [finalized # NoNumber => canonical'[finalized] = canonical[finalized]]_vars
    BY StepFinal
  <1>3. (Inv /\ FinalInv) /\ [Next]_vars => (Inv /\ FinalInv)'
    BY StepInv, StepFinal
  <1> QED
    BY <1>1, <1>2, <1>3, InitInv, PTL DEF Spec, FinalizedNeverReorged

==============================================================================
