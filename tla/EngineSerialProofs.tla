------------------------- MODULE EngineSerialProofs -------------------------
(***************************************************************************)
(* EngineApi with calls answered one at a time, no crash, and an engine    *)
(* that removes canonical entries.  SerialInv, on top of Inv, is inductive *)
(* there; it says at each step of an update which entries are already      *)
(* those of the new chain, and gives the single linked chain between       *)
(* updates, that an applied head brings all its ancestors in, and the      *)
(* refinement of the abstract chain.                                       *)
(***************************************************************************)
EXTENDS EngineProofs

\* Calls are answered one at a time
OneActive == \A p, q \in Handlers : pc[p] # "idle" /\ pc[q] # "idle" => p = q

\* c is linked without gaps from 0 to top
Linked(c, top) ==
    /\ \A n \in 0 .. top : c[n] # None
    /\ \A n \in 1 .. top : Parent[c[n]] = c[n - 1]

\* The blocks collected so far hang together, down to the one the walk is on
WalkLinked(p) ==
    LET h == req[p].head
        c == local[p].cur
        b == local[p].branch
    IN  /\ c = IF Number[c] = Number[h] THEN h ELSE b[Number[c]]
        /\ \A n \in Heights : Number[c] <= n /\ n < Number[h] =>
              b[n] = Parent[IF n + 1 = Number[h] THEN h ELSE b[n + 1]]

\* Branch entries from lo upwards are written
Written(p, lo) ==
    \A n \in Heights :
        lo <= n /\ n < Number[req[p].head] => canonical[n] = local[p].branch[n]

\* Nothing is canonical above the head, below hi or above the latest number
Cleared(p, hi) ==
    \A n \in Heights :
        n > Number[req[p].head] /\ (n < hi \/ n > latest) => canonical[n] = None

SerialOK(p) ==
    LET h == req[p].head
    IN  /\ pc[p] \in UpdatingPcs \ {"read_latest"} => local[p].seen = latest
        /\ pc[p] = "walk" => WalkLinked(p)
        /\ pc[p] \in LinkedPcs => Linked(Target(p), Number[h])
        /\ pc[p] = "branch" => Written(p, local[p].at + 1) /\ Cleared(p, 0)
        /\ pc[p] = "unset" => Written(p, local[p].link) /\ Cleared(p, local[p].at)
        /\ pc[p] = "head" => Written(p, local[p].link) /\ Cleared(p, MaxHeight + 1)
        /\ pc[p] \in {"finalized", "safe", "latest"} =>
              Written(p, local[p].link) /\ Cleared(p, MaxHeight + 1) /\ canonical[Number[h]] = h

SerialInv ==
    /\ OneActive
    /\ ChainLinked
    /\ \A p \in Handlers : SerialOK(p)

-----------------------------------------------------------------------------
\* The conditions on the deployment under which updates are not disturbed
Undisturbed == Serial /\ ~MayCrash /\ Engine # "libmdbx"

\* While a handler reads or stores a block, no handler writes the chain
LEMMA OnlyReads ==
    ASSUME OneActive, NEW p \in Handlers, pc[p] # "idle", pc[p] \notin WritingPcs
    PROVE  NotWriting
  BY DEF OneActive, NotWriting, WritingPcs

\* When no handler writes and a step leaves the chain alone, it stays whole
LEMMA ChainKept ==
    ASSUME ChainLinked, NotWriting, canonical' = canonical, latest' = latest
    PROVE  ChainLinked'
  BY DEF ChainLinked

\* The head of an update is a stored block
LEMMA HeadStored ==
    ASSUME Inv, NEW p \in Handlers, pc[p] \in UpdatingPcs
    PROVE  /\ req[p].head \in tables["headers"] /\ req[p].head \in Blocks
           /\ Number[req[p].head] \in Heights /\ req[p].head # None
  BY ZenonT(60), StoredBlocks, HandlerKnows, TreeAssumption DEF HeadOK

\* A stored block's number is one more than its parent's
LEMMA StoredParent ==
    ASSUME Inv, NEW c \in tables["headers"], Number[c] > 0
    PROVE  Number[Parent[c]] = Number[c] - 1
  <1>1. c \in Blocks /\ Defect[c] = "none"
    BY StoredBlocks DEF Inv, StoredIsExecuted
  <1>2. c # Genesis
    BY TreeAssumption
  <1>3. Number[c] = Number[Parent[c]] + 1 /\ Parent[c] \in Blocks
    BY <1>1, <1>2, TreeAssumption
  <1>4. Number[Parent[c]] \in Int
    BY <1>3, TreeAssumption DEF Heights
  <1> QED
    BY <1>3, <1>4

\* The range of block numbers
LEMMA HeightsRange == MaxHeight \in Nat /\ Heights = 0 .. MaxHeight
  BY TreeAssumption DEF Heights

\* Numbers of blocks and the bounds of the loops over them are integers
LEMMA HeightsOrder ==
    /\ MaxHeight + 1 \in Int
    /\ \A n \in Heights : n \in Int /\ ~(n < 0) /\ n < MaxHeight + 1
    /\ \A n, m \in Heights : ~(n > m /\ n < m + 1)
    /\ \A n, m, l \in Heights : n > m /\ m >= l => n > l
    /\ \A n \in Int : (n - 1) + 1 = n
  BY HeightsRange

\* What a handler that writes claims, by position
LEMMA WritingClaims ==
    ASSUME NEW p \in Handlers, SerialOK(p), pc[p] \in LinkedPcs
    PROVE  local[p].seen = latest /\ Linked(Target(p), Number[req[p].head])
  BY ZenonT(60) DEF SerialOK, UpdatingPcs, LinkedPcs, ReadingPcs, WritingPcs

\* Handlers that are not in an update claim nothing about the chain
LEMMA OutsideOK ==
    ASSUME NEW p \in Handlers, pc'[p] \in {"idle", "store", "syncing", "read_latest"}
    PROVE  SerialOK(p)'
  BY DEF SerialOK, UpdatingPcs, LinkedPcs, ReadingPcs, WritingPcs

\* The initial state satisfies the invariant
LEMMA InitSerial == Init => SerialInv
  <1> SUFFICES ASSUME Init PROVE SerialInv
    OBVIOUS
  <1>1. OneActive
    BY DEF Init, OneActive
  <1>2. ChainLinked
    BY TreeAssumption DEF Init, ChainLinked, Heights
  <1>3. ASSUME NEW p \in Handlers PROVE SerialOK(p)
    BY DEF Init, SerialOK, UpdatingPcs, LinkedPcs, ReadingPcs, WritingPcs
  <1> QED
    BY <1>1, <1>2, <1>3 DEF SerialInv

\* A call is taken up only when no other is being served
LEMMA OneActiveStep ==
    ASSUME Inv, OneActive, Serial, NEW p \in Handlers, Acts(p)
    PROVE  /\ OneActive'
           /\ \A q \in Handlers : q # p => pc[q] = "idle" /\ pc'[q] = "idle"
  <1>1. \A q \in Handlers : q # p => pc[q] = "idle"
    <2>1. ASSUME NEW b \in Blocks, NewPayload(p, b) PROVE \A q \in Handlers : pc[q] = "idle"
      BY <2>1 DEF NewPayload, Free
    <2>2. ASSUME NEW r \in Requests, ForkchoiceUpdated(p, r)
          PROVE  \A q \in Handlers : pc[q] = "idle"
      BY SMTT(60), <2>2 DEF ForkchoiceUpdated, Free
    <2>3. HandlerStep(p) => pc[p] # "idle"
      BY ZenonT(60)
      DEF HandlerStep, StoreBlock, AnswerSyncing, ReadLatest, CheckHead, AnswerAlready,
             FindLink, WalkBack, CheckConnected, SetBranch, UnsetAbove, SetHead,
             UpdateFinalized, UpdateSafe, UpdateLatest
    <2> QED
      BY <2>1, <2>2, <2>3 DEF Acts, OneActive
  <1>2. \A q \in Handlers : q # p => pc'[q] = pc[q]
    BY OthersUntouched DEF Inv
  <1> QED
    BY <1>1, <1>2 DEF OneActive

\* Steps outside an update leave the chain whole
LEMMA QuietSteps ==
    ASSUME Inv, SerialInv, Undisturbed, NEW p \in Handlers,
           \/ \E b \in Blocks : NewPayload(p, b)
           \/ \E r \in Requests : ForkchoiceUpdated(p, r)
           \/ StoreBlock(p) \/ AnswerSyncing(p) \/ AnswerAlready(p)
    PROVE  SerialOK(p)' /\ ChainLinked'
  <1>0. pc \in [Handlers -> Pcs] /\ ChainLinked /\ OneActive
    BY DEF Inv, TypeOK, SerialInv
  <1>1. ASSUME NEW b \in Blocks, NewPayload(p, b) PROVE SerialOK(p)' /\ ChainLinked'
    <2>1. NotWriting /\ canonical' = canonical /\ latest' = latest
      BY <1>1 DEF NewPayload, Free, Undisturbed, NotWriting, WritingPcs
    <2>2. pc'[p] \in {"idle", "store"}
      BY <1>0, <1>1
      DEF NewPayload, PayloadKnown, PayloadOrphan, PayloadInvalid, PayloadExecuted, Return, TakeUp
    <2> QED
      BY <1>0, <2>1, <2>2, ChainKept, OutsideOK
  <1>2. ASSUME NEW r \in Requests, ForkchoiceUpdated(p, r) PROVE SerialOK(p)' /\ ChainLinked'
    <2>1. NotWriting /\ canonical' = canonical /\ latest' = latest
      BY <1>2 DEF ForkchoiceUpdated, Free, Undisturbed, NotWriting, WritingPcs, store
    <2>2. pc'[p] \in {"idle", "syncing", "read_latest"}
      BY <1>0, <1>2 DEF ForkchoiceUpdated, Return, TakeUp
    <2> QED
      BY <1>0, <2>1, <2>2, ChainKept, OutsideOK
  <1>3. CASE StoreBlock(p) \/ AnswerSyncing(p) \/ AnswerAlready(p)
    <2>1. /\ pc[p] \in {"store", "syncing", "already"}
          /\ canonical' = canonical /\ latest' = latest
          /\ pc'[p] \in {"idle", "store"}
      BY <1>0, <1>3 DEF StoreBlock, AnswerSyncing, AnswerAlready, Return, store
    <2>2. NotWriting
      BY <1>0, <2>1, OnlyReads DEF WritingPcs
    <2> QED
      BY ZenonT(60), <1>0, <2>1, <2>2, ChainKept, OutsideOK
  <1> QED
    BY <1>1, <1>2, <1>3

\* While no handler writes, the chain is linked up to latest and ends there
LEMMA WholeChain ==
    ASSUME ChainLinked, NotWriting
    PROVE  Linked(canonical, latest) /\ \A n \in Heights : n > latest => canonical[n] = None
  BY DEF ChainLinked, Linked

\* ReadLatest, CheckHead and the start of find_link_with_canonical_chain
LEMMA FirstReads ==
    ASSUME Inv, SerialInv, Undisturbed, NEW p \in Handlers,
           ReadLatest(p) \/ CheckHead(p) \/ FindLink(p)
    PROVE  SerialOK(p)' /\ ChainLinked'
  <1> DEFINE h == req[p].head
  <1>0. /\ pc \in [Handlers -> Pcs] /\ local \in [Handlers -> Locals]
        /\ local[p] \in Locals /\ ChainLinked /\ OneActive
        /\ SerialOK(p) /\ latest \in Heights
    BY DEF Inv, TypeOK, SerialInv
  <1>1. /\ pc[p] \in {"read_latest", "check_head", "link"}
        /\ pc'[p] \in {"check_head", "already", "link", "connected", "walk"}
        /\ req'[p] = req[p] /\ canonical' = canonical /\ latest' = latest
        /\ local'[p].seen = IF pc[p] = "read_latest" THEN latest ELSE local[p].seen
        /\ pc'[p] = "connected" => local'[p].link = Number[h] /\ canonical[Number[h]] = h
        /\ pc'[p] = "walk" => local'[p].cur = h
    BY <1>0 DEF ReadLatest, CheckHead, FindLink, IsCanonical, Goto, store, Locals
  <1>2. NotWriting
    BY <1>0, <1>1, OnlyReads DEF WritingPcs
  <1>3. ChainLinked'
    BY SMTT(60), <1>0, <1>1, <1>2, ChainKept
  <1>4. local'[p].seen = latest'
    BY SMTT(60), <1>0, <1>1 DEF SerialOK, UpdatingPcs, ReadingPcs
  <1>5. h \in tables["headers"] /\ h \in Blocks /\ Number[h] \in Heights /\ h # None
    BY ZenonT(60), <1>1, HeadStored DEF UpdatingPcs, ReadingPcs
  <1>6. pc'[p] = "walk" => WalkLinked(p)'
    <2>1. \A n \in Heights : ~(Number[h] <= n /\ n < Number[h])
      BY <1>5, HeightsRange
    <2> QED
      BY <1>1, <2>1 DEF WalkLinked
  <1>7. pc'[p] = "connected" => Linked(Target(p)', Number[h])
    <2> SUFFICES ASSUME pc'[p] = "connected" PROVE Linked(Target(p)', Number[h])
      OBVIOUS
    <2>1. Linked(canonical, latest) /\ Number[h] <= latest
      BY SMTT(60), <1>0, <1>1, <1>2, <1>5, WholeChain, HeightsRange
    <2>2. \A n \in 0 .. Number[h] : Target(p)'[n] = canonical[n]
      <3>1. \A n \in 0 .. Number[h] : n # Number[h] => ~(n >= Number[h])
        BY <1>5, HeightsOrder
      <3> QED
        BY Zenon, <1>1, <3>1 DEF Target
    <2> QED
      BY <1>0, <1>5, <2>1, <2>2, HeightsRange DEF Linked
  <1> QED
    BY <1>1, <1>3, <1>4, <1>6, <1>7
    DEF SerialOK, UpdatingPcs, LinkedPcs, ReadingPcs, WritingPcs

\* The loop of find_link_with_canonical_chain
LEMMA WalkSerial ==
    ASSUME Inv, SerialInv, Undisturbed, NEW p \in Handlers, WalkBack(p)
    PROVE  SerialOK(p)' /\ ChainLinked'
  <1> DEFINE h == req[p].head
             c == local[p].cur
             b == local[p].branch
             n == Number[c] - 1
  <1>0. /\ pc \in [Handlers -> Pcs] /\ local \in [Handlers -> Locals]
        /\ local[p] \in Locals /\ b \in [Heights -> Hash] /\ ChainLinked /\ OneActive
        /\ SerialOK(p) /\ latest \in Heights
    BY SMTT(60) DEF Inv, TypeOK, SerialInv, Locals
  <1>1. /\ pc[p] = "walk" /\ canonical' = canonical /\ latest' = latest
        /\ WalkLinked(p) /\ local[p].seen = latest
    BY SMTT(60), <1>0 DEF WalkBack, store, SerialOK, UpdatingPcs, ReadingPcs
  <1>2. /\ c \in tables["headers"] /\ c \in Blocks /\ Number[c] \in Heights /\ c # None
        /\ h \in Blocks /\ Number[h] \in Heights /\ h # None /\ Number[c] <= Number[h]
        /\ \A m \in Heights : Number[c] <= m /\ m < Number[h] => b[m] # None
    <2>1. WalkOK(p) /\ pc[p] \in UpdatingPcs
      BY ZenonT(60), <1>1, HandlerKnows DEF UpdatingPcs, ReadingPcs
    <2> QED
      BY ZenonT(60), <1>1, <2>1, HeadStored, StoredBlocks, TreeAssumption DEF WalkOK
  <1>3. NotWriting
    BY SMTT(60), <1>0, <1>1, OnlyReads DEF WritingPcs
  <1>4. ChainLinked'
    BY <1>0, <1>1, <1>3, ChainKept
  <1>5. CASE Return(p, req[p], "error")
    BY SMTT(60), <1>4, <1>5, ReturnIdle, OutsideOK DEF Inv
  <1>6. CASE /\ n >= 0 /\ HasHeader(Parent[c]) /\ canonical[n] = Parent[c]
             /\ local' = [local EXCEPT ![p].link = Number[c]]
             /\ Goto(p, "connected")
             /\ UNCHANGED <<req, reply>>
    <2>1. /\ pc'[p] = "connected" /\ req'[p] = req[p] /\ local'[p].link = Number[c]
          /\ local'[p].branch = b /\ local'[p].seen = latest
      BY SMTT(60), <1>0, <1>1, <1>6 DEF Goto, Locals
    <2>2. n \in Heights /\ n <= latest
      <3>1. n \in Heights
        BY <1>2, <1>6, HeightsRange
      <3>2. canonical[n] # None
        BY ZenonT(60), <1>6, StoredBlocks DEF HasHeader
      <3> QED
        BY SMTT(60), <1>0, <1>3, <3>1, <3>2, WholeChain, HeightsRange
    <2> DEFINE t == Target(p)'
    <2>3. /\ t[Number[h]] = h
          /\ \A m \in 0 .. Number[h] : m < Number[h] =>
                t[m] = IF m >= Number[c] THEN b[m] ELSE canonical[m]
      <3>1. Number[h] \in 0 .. Number[h] /\ \A m \in 0 .. Number[h] : m < Number[h] => m # Number[h]
        BY <1>2, HeightsOrder
      <3>2. canonical' = canonical
        BY Zenon, <1>1
      <3> QED
        BY Zenon, <1>1, <2>1, <3>1, <3>2 DEF Target
    <2> HIDE DEF t
    <2>4. t[Number[c]] = c
      BY SMTT(60), <1>1, <1>2, <2>3, HeightsRange DEF WalkLinked
    <2>5. ASSUME NEW m \in 0 .. Number[h] PROVE t[m] # None
      <3>1. CASE m >= Number[c]
        BY SMTT(60), <1>2, <2>3, <3>1, HeightsRange
      <3>2. CASE m < Number[c]
        <4>1. m \in 0 .. latest /\ m < Number[h] /\ ~(m >= Number[c])
          BY <1>0, <1>2, <2>2, <3>2, HeightsRange
        <4>2. t[m] = canonical[m]
          BY ZenonT(60), <2>3, <4>1
        <4>3. canonical[m] # None
          BY ZenonT(60), <1>0, <1>3, <4>1, WholeChain DEF Linked
        <4> QED
          BY ZenonT(60), <4>2, <4>3
      <3> QED
        BY SMTT(60), <1>2, <3>1, <3>2, HeightsRange
    <2>6. ASSUME NEW m \in 1 .. Number[h] PROVE Parent[t[m]] = t[m - 1]
      <3>0. m \in Int /\ Number[c] \in Int /\ Number[h] \in Int /\ m - 1 \in 0 .. Number[h]
            /\ m - 1 \in Heights /\ m \in Heights
        BY <1>2, <2>6, HeightsRange
      <3>1. CASE m < Number[c]
        <4>1. t[m] = canonical[m] /\ t[m - 1] = canonical[m - 1]
          BY SMTT(60), <1>2, <2>3, <3>0, <3>1
        <4>2. m \in 1 .. latest
          BY SMTT(60), <1>0, <2>2, <2>6, <3>0, <3>1, HeightsRange
        <4> QED
          BY <1>0, <1>3, <4>1, <4>2, WholeChain DEF Linked
      <3>2. CASE m = Number[c]
        <4>1. t[m - 1] = canonical[n]
          BY SMTT(60), <1>2, <2>3, <3>0, <3>2
        <4> QED
          BY Zenon, <1>6, <2>4, <3>2, <4>1
      <3>3. CASE m > Number[c]
        <4>1. t[m - 1] = b[m - 1]
          BY SMTT(60), <1>2, <2>3, <3>0, <3>3
        <4>2. t[m] = IF m = Number[h] THEN h ELSE b[m]
          BY SMTT(60), <1>2, <2>3, <3>0, <3>3
        <4>3. b[m - 1] = Parent[IF (m - 1) + 1 = Number[h] THEN h ELSE b[(m - 1) + 1]]
          BY SMTT(60), <1>1, <2>6, <3>0, <3>3 DEF WalkLinked
        <4> QED
          BY SMTT(60), <3>0, <4>1, <4>2, <4>3
      <3> QED
        BY <3>0, <3>1, <3>2, <3>3
    <2>7. Linked(t, Number[h])
      BY Zenon, <2>5, <2>6 DEF Linked
    <2> QED
      BY <1>1, <1>4, <2>1, <2>7
      DEF t, SerialOK, UpdatingPcs, LinkedPcs, ReadingPcs, WritingPcs
  <1>7. CASE /\ n >= 0 /\ HasHeader(Parent[c]) /\ canonical[n] # Parent[c]
             /\ local' = [local EXCEPT ![p].cur = Parent[c], ![p].branch[n] = Parent[c]]
             /\ UNCHANGED <<pc, req, reply>>
    <2>1. n \in Heights /\ n < Number[h] /\ n + 1 = Number[c]
      BY <1>2, <1>7, HeightsRange
    <2>2. /\ pc'[p] = "walk" /\ req'[p] = req[p] /\ local'[p].cur = Parent[c]
          /\ local'[p].branch = [b EXCEPT ![n] = Parent[c]] /\ local'[p].seen = latest
      BY SMTT(60), <1>0, <1>1, <1>7 DEF Locals
    <2>3. Number[Parent[c]] = n
      <3>1. Number[c] > 0
        BY <1>2, <2>1, HeightsRange
      <3> QED
        BY ZenonT(60), <1>2, <3>1, StoredParent
    <2>4. local'[p].branch[n] = Parent[c]
      BY SMTT(60), <1>0, <2>1, <2>2
    <2> DEFINE b2 == local'[p].branch
    <2>4a. \A m \in Heights : m # n => b2[m] = b[m]
      BY <1>0, <2>2
    <2>5. ASSUME NEW m \in Heights, n <= m, m < Number[h]
          PROVE  b2[m] = Parent[IF m + 1 = Number[h] THEN h ELSE b2[m + 1]]
      <3>0. m \in Int /\ n \in Int /\ Number[h] \in Int /\ Number[c] \in Int
        BY SMTT(60), <1>2, HeightsRange
      <3>1. CASE m = n
        <4>1. c = IF m + 1 = Number[h] THEN h ELSE b[m + 1]
          BY Zenon, <1>1, <2>1, <3>1 DEF WalkLinked
        <4>2. m + 1 # Number[h] => m + 1 \in Heights /\ b2[m + 1] = b[m + 1]
          <5>1. m + 1 # Number[h] => m + 1 \in Heights /\ m + 1 # n
            BY <1>2, <2>5, <3>0, <3>1, HeightsRange
          <5> QED
            BY Zenon, <2>4a, <5>1
        <4> QED
          BY ZenonT(60), <2>4, <3>1, <4>1, <4>2
      <3>2. CASE m > n
        <4>1. b[m] = Parent[IF m + 1 = Number[h] THEN h ELSE b[m + 1]]
          BY SMTT(60), <1>1, <2>1, <2>5, <3>0, <3>2 DEF WalkLinked
        <4>2. b2[m] = b[m]
          BY <2>4a, <3>0, <3>2
        <4>3. m + 1 # Number[h] => m + 1 \in Heights /\ b2[m + 1] = b[m + 1]
          <5>1. m + 1 # Number[h] => m + 1 \in Heights /\ m + 1 # n
            BY <1>2, <2>5, <3>0, <3>2, HeightsRange
          <5> QED
            BY Zenon, <2>4a, <5>1
        <4> QED
          BY Zenon, <4>1, <4>2, <4>3
      <3> QED
        BY SMTT(60), <2>5, <3>0, <3>1, <3>2
    <2>6. WalkLinked(p)'
      <3>1. n \in Int /\ Number[h] \in Int
        BY <1>2, HeightsRange
      <3> HIDE DEF n, b2, c
      <3>2. Parent[c] = IF Number[Parent[c]] = Number[h] THEN h ELSE b2[Number[Parent[c]]]
        BY <2>1, <2>3, <2>4, <3>1 DEF b2
      <3> QED
        BY SMTT(60), <2>2, <2>3, <2>5, <3>2 DEF WalkLinked, b2
    <2> QED
      BY SMTT(60), <1>1, <1>4, <2>2, <2>6
      DEF SerialOK, UpdatingPcs, LinkedPcs, ReadingPcs, WritingPcs
  <1> QED
    BY <1>5, <1>6, <1>7 DEF WalkBack

\* The last check before the writes
LEMMA CheckSerial ==
    ASSUME Inv, SerialInv, Undisturbed, NEW p \in Handlers, CheckConnected(p)
    PROVE  SerialOK(p)' /\ ChainLinked'
  <1> DEFINE h == req[p].head
  <1>0. /\ pc \in [Handlers -> Pcs] /\ local \in [Handlers -> Locals]
        /\ local[p] \in Locals /\ ChainLinked /\ OneActive
        /\ SerialOK(p) /\ latest \in Heights
    BY DEF Inv, TypeOK, SerialInv
  <1>1. /\ pc[p] = "connected" /\ canonical' = canonical /\ latest' = latest
        /\ Linked(Target(p), Number[h]) /\ local[p].seen = latest
    BY SMTT(60), <1>0
    DEF CheckConnected, store, SerialOK, UpdatingPcs, LinkedPcs, ReadingPcs
  <1>2. /\ Number[h] \in Heights /\ local[p].link \in Heights
        /\ local[p].link <= Number[h]
    BY ZenonT(60), <1>0, <1>1, HeadStored, HandlerKnows
    DEF LinkOK, UpdatingPcs, LinkedPcs, ReadingPcs, Locals
  <1>3. NotWriting
    BY SMTT(60), <1>0, <1>1, OnlyReads DEF WritingPcs
  <1>4. ChainLinked'
    BY ZenonT(60), <1>0, <1>1, <1>3, ChainKept
  <1>5. CASE Return(p, req[p], "error")
    BY <1>4, <1>5, ReturnIdle, OutsideOK DEF Inv
  <1>6. CASE /\ UNCHANGED <<req, reply>>
             /\ IF local[p].link < Number[h]
                THEN /\ Goto(p, "branch")
                     /\ local' = [local EXCEPT ![p].at = Number[h] - 1]
                ELSE AfterBranch(p)
    <2>1. /\ req'[p] = req[p] /\ local'[p].link = local[p].link
          /\ local'[p].branch = local[p].branch /\ local'[p].seen = latest
          /\ \/ pc'[p] = "branch" /\ local'[p].at = Number[h] - 1
             \/ /\ pc'[p] = "unset" /\ local'[p].at = Number[h] + 1
                /\ local[p].link >= Number[h]
             \/ /\ pc'[p] = "head" /\ Number[h] >= latest
                /\ local[p].link >= Number[h]
      BY SMTT(60), <1>0, <1>1, <1>2, <1>6, HeightsRange
      DEF Goto, AfterBranch, Locals
    <2>2. Target(p)' = Target(p)
      BY <1>1, <2>1 DEF Target
    <2>3. \A n \in Heights : n > latest => canonical[n] = None
      BY ZenonT(60), <1>0, <1>3, WholeChain
    <2>4. CASE pc'[p] = "branch" /\ local'[p].at = Number[h] - 1
      <3>1. Written(p, local[p].at + 1)'
        BY SMTT(60), <1>2, <2>1, <2>4, HeightsRange DEF Written
      <3>2. Cleared(p, 0)'
        BY SMTT(60), <1>1, <1>2, <2>1, <2>3, HeightsRange DEF Cleared
      <3> QED
        BY ZenonT(60), <1>1, <1>4, <2>1, <2>2, <2>4, <3>1, <3>2
        DEF SerialOK, UpdatingPcs, LinkedPcs, ReadingPcs, WritingPcs
    <2>5. CASE /\ pc'[p] = "unset" /\ local'[p].at = Number[h] + 1
               /\ local[p].link >= Number[h]
      <3>1. Written(p, local[p].link)'
        BY SMTT(60), <1>2, <2>1, <2>5, HeightsRange DEF Written
      <3>2. Cleared(p, local[p].at)'
        BY SMTT(60), <1>1, <1>2, <2>1, <2>3, <2>5, HeightsRange DEF Cleared
      <3> QED
        BY ZenonT(60), <1>1, <1>4, <2>1, <2>2, <2>5, <3>1, <3>2
        DEF SerialOK, UpdatingPcs, LinkedPcs, ReadingPcs, WritingPcs
    <2>6. CASE /\ pc'[p] = "head" /\ Number[h] >= latest
               /\ local[p].link >= Number[h]
      <3>1. Written(p, local[p].link)'
        BY SMTT(60), <1>2, <2>1, <2>6, HeightsRange DEF Written
      <3>2. Cleared(p, MaxHeight + 1)'
        BY <1>0, <1>1, <1>2, <2>1, <2>3, <2>6, HeightsRange DEF Cleared
      <3> QED
        BY ZenonT(60), <1>1, <1>4, <2>1, <2>2, <2>6, <3>1, <3>2
        DEF SerialOK, UpdatingPcs, LinkedPcs, ReadingPcs, WritingPcs
    <2> QED
      BY SMTT(60), <2>1, <2>4, <2>5, <2>6
  <1> QED
    BY <1>5, <1>6 DEF CheckConnected

\* A handler that goes on writing leaves nothing to show of the chain
LEMMA StillWriting ==
    ASSUME NEW p \in Handlers, pc'[p] \in WritingPcs
    PROVE  ChainLinked'
  BY DEF ChainLinked, NotWriting

\* The writes to the canonical table bring it closer to the target
LEMMA TableWrites ==
    ASSUME Inv, SerialInv, Undisturbed, NEW p \in Handlers,
           SetBranch(p) \/ UnsetAbove(p) \/ SetHead(p)
    PROVE  SerialOK(p)' /\ ChainLinked'
  <1> DEFINE h == req[p].head
             link == local[p].link
             at == local[p].at
             b == local[p].branch
  <1>0. /\ pc \in [Handlers -> Pcs] /\ local \in [Handlers -> Locals]
        /\ local[p] \in Locals /\ link \in Heights /\ at \in Int
        /\ canonical \in [Heights -> Hash]
        /\ SerialOK(p) /\ latest \in Heights
    BY DEF Inv, TypeOK, SerialInv, Locals
  <1>1. /\ pc[p] \in {"branch", "unset", "head"} /\ latest' = latest
        /\ req'[p] = req[p]
        /\ Linked(Target(p), Number[h]) /\ local[p].seen = latest
    BY SMTT(60), <1>0
    DEF SetBranch, UnsetAbove, SetHead, SerialOK, UpdatingPcs, LinkedPcs, WritingPcs
  <1>2. Number[h] \in Heights /\ link <= Number[h]
    BY ZenonT(60), <1>1, HeadStored, HandlerKnows
    DEF LinkOK, UpdatingPcs, LinkedPcs, WritingPcs
  <1>3. ASSUME /\ \A n \in Heights : n < link => canonical'[n] = canonical[n]
               /\ local'[p].link = link /\ local'[p].branch = b
        PROVE  Target(p)' = Target(p)
    BY SMTT(60), <1>0, <1>1, <1>2, <1>3, HeightsRange DEF Target
  <1>4. CASE SetBranch(p)
    <2>1. /\ at \in link .. Number[h] - 1 /\ at \in Heights
          /\ canonical' = [canonical EXCEPT ![at] = b[at]]
          /\ Written(p, at + 1) /\ Cleared(p, 0)
      <3>1. /\ pc[p] = "branch" /\ canonical' = [canonical EXCEPT ![at] = b[at]]
            /\ Written(p, at + 1) /\ Cleared(p, 0)
        BY ZenonT(60), <1>0, <1>4 DEF SetBranch, SerialOK
      <3>2. at \in link .. Number[h] - 1
        BY ZenonT(60), <3>1, HandlerKnows DEF LoopOK
      <3> QED
        BY <1>0, <1>2, <3>1, <3>2, HeightsRange
    <2>2. /\ local'[p].link = link /\ local'[p].branch = b /\ local'[p].seen = latest
          /\ \/ pc'[p] = "branch" /\ local'[p].at = at - 1
             \/ pc'[p] = "unset" /\ at = link /\ local'[p].at = Number[h] + 1
             \/ pc'[p] = "head" /\ at = link /\ Number[h] >= latest
      <3>1. CASE /\ at > link /\ local' = [local EXCEPT ![p].at = at - 1]
                 /\ UNCHANGED pc
        BY SMTT(60), <1>0, <1>1, <1>4, <3>1 DEF SetBranch, Locals
      <3>2. CASE ~(at > link) /\ AfterBranch(p)
        <4>1. at = link
          BY <1>0, <2>1, <3>2, HeightsOrder
        <4>2. /\ local' = [local EXCEPT ![p].at = Number[h] + 1]
              /\ pc'[p] = IF Number[h] < latest THEN "unset" ELSE "head"
          BY Zenon, <1>0, <1>1, <3>2 DEF AfterBranch, Goto
        <4>3. ~(Number[h] < latest) => Number[h] >= latest
          BY <1>0, <1>2, HeightsOrder
        <4>4. /\ local'[p].link = link /\ local'[p].branch = b /\ local'[p].seen = latest
              /\ local'[p].at = Number[h] + 1
          BY SMTT(60), <1>0, <1>1, <4>2 DEF Locals
        <4> QED
          BY Zenon, <4>1, <4>2, <4>3, <4>4
      <3> QED
        BY Zenon, <1>4, <3>1, <3>2 DEF SetBranch
    <2>3. Target(p)' = Target(p)
      BY SMTT(60), <1>0, <1>3, <2>1, <2>2, HeightsRange
    <2>4. \A n \in Heights : at <= n /\ n < Number[h] => canonical'[n] = b[n]
      <3>1. \A n \in Heights : at + 1 <= n /\ n < Number[h] => canonical[n] = b[n]
        BY ZenonT(60), <2>1 DEF Written
      <3>2. canonical'[at] = b[at] /\ \A n \in Heights : n # at => canonical'[n] = canonical[n]
        BY <1>0, <2>1
      <3>3. at \in Int /\ \A n \in Heights : n \in Int
        BY <1>0, HeightsRange
      <3> HIDE DEF at, b, h
      <3> QED
        BY <3>1, <3>2, <3>3
    <2>5. \A n \in Heights : n > Number[h] /\ n > latest => canonical'[n] = None
      <3>1. ASSUME NEW n \in Heights, n > Number[h], n > latest PROVE n # at
        BY <1>2, <2>1, <3>1, HeightsRange
      <3>2. ASSUME NEW n \in Heights, n # at PROVE canonical'[n] = canonical[n]
        BY <1>0, <2>1, <3>2
      <3>3. \A n \in Heights : n > Number[h] /\ n > latest => canonical[n] = None
        BY Zenon, <2>1 DEF Cleared
      <3> QED
        BY Zenon, <3>1, <3>2, <3>3
    <2>6. CASE pc'[p] = "branch" /\ local'[p].at = at - 1
      <3>1. Written(p, local[p].at + 1)' /\ Cleared(p, 0)'
        <4>1. local'[p].at + 1 = at
          BY Zenon, <1>0, <2>6, HeightsOrder
        <4>2. Written(p, local[p].at + 1)'
          BY Zenon, <1>1, <2>2, <2>4, <4>1 DEF Written
        <4>3. Cleared(p, 0)'
          BY Zenon, <1>1, <2>5, HeightsOrder DEF Cleared
        <4> QED
          BY Zenon, <4>2, <4>3
      <3> QED
        BY ZenonT(60), <1>1, <2>2, <2>3, <2>6, <3>1, StillWriting
        DEF SerialOK, UpdatingPcs, LinkedPcs, ReadingPcs, WritingPcs
    <2>7. CASE pc'[p] = "unset" /\ at = link /\ local'[p].at = Number[h] + 1
      <3>1. Written(p, local[p].link)' /\ Cleared(p, local[p].at)'
        <4>1. Written(p, local[p].link)'
          BY Zenon, <1>1, <2>2, <2>4, <2>7 DEF Written
        <4>2. Cleared(p, local[p].at)'
          <5>1. \A n \in Heights : ~(n > Number[h] /\ n < local'[p].at)
            BY ZenonT(60), <1>2, <2>7, HeightsOrder
          <5> QED
            BY ZenonT(60), <1>1, <2>5, <5>1 DEF Cleared
        <4> QED
          BY Zenon, <4>1, <4>2
      <3> QED
        BY ZenonT(60), <1>1, <2>2, <2>3, <2>7, <3>1, StillWriting
        DEF SerialOK, UpdatingPcs, LinkedPcs, ReadingPcs, WritingPcs
    <2>8. CASE pc'[p] = "head" /\ at = link /\ Number[h] >= latest
      <3>1. Written(p, local[p].link)' /\ Cleared(p, MaxHeight + 1)'
        <4>1. Written(p, local[p].link)'
          BY Zenon, <1>1, <2>2, <2>4, <2>8 DEF Written
        <4>2. Cleared(p, MaxHeight + 1)'
          BY Zenon, <1>0, <1>1, <1>2, <2>5, <2>8, HeightsOrder DEF Cleared
        <4> QED
          BY Zenon, <4>1, <4>2
      <3> QED
        BY ZenonT(60), <1>1, <2>2, <2>3, <2>8, <3>1, StillWriting
        DEF SerialOK, UpdatingPcs, LinkedPcs, ReadingPcs, WritingPcs
    <2> QED
      BY ZenonT(60), <2>2, <2>6, <2>7, <2>8
  <1>5. CASE UnsetAbove(p)
    <2>1. /\ at \in Number[h] + 1 .. latest /\ at \in Heights
          /\ canonical' = [canonical EXCEPT ![at] = None]
          /\ Written(p, link) /\ Cleared(p, at)
      <3>1. /\ pc[p] = "unset" /\ canonical' = [canonical EXCEPT ![at] = None]
            /\ Written(p, link) /\ Cleared(p, at)
        BY ZenonT(60), <1>0, <1>5 DEF UnsetAbove, Undisturbed, SerialOK
      <3>2. at \in Number[h] + 1 .. latest
        BY ZenonT(60), <1>1, <3>1, HandlerKnows DEF LoopOK
      <3> QED
        BY <1>0, <1>2, <3>1, <3>2, HeightsRange
    <2>2. /\ local'[p].link = link /\ local'[p].branch = b /\ local'[p].seen = latest
          /\ \/ pc'[p] = "unset" /\ local'[p].at = at + 1
             \/ pc'[p] = "head" /\ at = latest
      BY <1>0, <1>1, <1>5, <2>1, HeightsRange DEF UnsetAbove, Goto, Locals
    <2>2a. \A n \in Heights : n < Number[h] => canonical'[n] = canonical[n]
      <3>1. \A n \in Heights : n < Number[h] => n # at
        BY <1>2, <2>1, HeightsOrder
      <3> QED
        BY Zenon, <1>0, <2>1, <3>1
    <2>3. Target(p)' = Target(p)
      <3>1. \A n \in Heights : n < link => n < Number[h]
        BY <1>0, <1>2, HeightsOrder
      <3> QED
        BY Zenon, <1>3, <2>2, <2>2a, <3>1
    <2>4. Written(p, link)'
      BY Zenon, <1>1, <2>1, <2>2, <2>2a DEF Written
    <2>5. \A n \in Heights :
             n > Number[h] /\ (n < at + 1 \/ n > latest) => canonical'[n] = None
      BY SMTT(60), <1>0, <1>2, <2>1, HeightsRange DEF Cleared
    <2>6. CASE pc'[p] = "unset" /\ local'[p].at = at + 1
      <3>1. Written(p, local[p].link)' /\ Cleared(p, local[p].at)'
        BY ZenonT(60), <1>1, <2>2, <2>4, <2>5, <2>6 DEF Written, Cleared
      <3> QED
        BY ZenonT(60), <1>1, <2>2, <2>3, <2>6, <3>1, StillWriting
        DEF SerialOK, UpdatingPcs, LinkedPcs, ReadingPcs, WritingPcs
    <2>7. CASE pc'[p] = "head" /\ at = latest
      <3>1. Written(p, local[p].link)' /\ Cleared(p, MaxHeight + 1)'
        BY SMTT(60), <1>0, <1>1, <1>2, <2>2, <2>4, <2>5, <2>7, HeightsRange
        DEF Written, Cleared
      <3> QED
        BY ZenonT(60), <1>1, <2>2, <2>3, <2>7, <3>1, StillWriting
        DEF SerialOK, UpdatingPcs, LinkedPcs, ReadingPcs, WritingPcs
    <2> QED
      BY ZenonT(60), <2>2, <2>6, <2>7
  <1>6. CASE SetHead(p)
    <2>1. /\ canonical' = [canonical EXCEPT ![Number[h]] = h]
          /\ Written(p, link) /\ Cleared(p, MaxHeight + 1)
          /\ local'[p] = local[p] /\ pc'[p] \in {"finalized", "safe", "latest"}
      BY ZenonT(60), <1>0, <1>6 DEF SetHead, Goto, SerialOK
    <2>2. Target(p)' = Target(p)
      BY SMTT(60), <1>0, <1>2, <1>3, <2>1, HeightsRange
    <2>3. Written(p, local[p].link)' /\ Cleared(p, MaxHeight + 1)'
      <3>1. \A n \in Heights : n # Number[h] => canonical'[n] = canonical[n]
        BY <1>0, <1>2, <2>1
      <3>2. \A n \in Heights : n < Number[h] \/ n > Number[h] => n # Number[h]
        BY <1>2, HeightsRange
      <3> QED
        BY ZenonT(60), <1>1, <2>1, <3>1, <3>2 DEF Written, Cleared
    <2>4. canonical'[Number[h]] = h
      BY <1>0, <1>2, <2>1
    <2> QED
      BY ZenonT(60), <1>1, <2>1, <2>2, <2>3, <2>4, StillWriting
      DEF SerialOK, UpdatingPcs, LinkedPcs, ReadingPcs, WritingPcs
  <1> QED
    BY <1>4, <1>5, <1>6

\* The labels written last; the latest number closes the update
LEMMA LabelWrites ==
    ASSUME Inv, SerialInv, Undisturbed, NEW p \in Handlers,
           UpdateFinalized(p) \/ UpdateSafe(p) \/ UpdateLatest(p)
    PROVE  SerialOK(p)' /\ ChainLinked'
  <1> DEFINE h == req[p].head
  <1>0. /\ pc \in [Handlers -> Pcs] /\ local \in [Handlers -> Locals]
        /\ local[p] \in Locals /\ local[p].link \in Heights
        /\ SerialOK(p) /\ latest \in Heights
    BY ZenonT(60) DEF Inv, TypeOK, SerialInv, Locals
  <1>1. /\ pc[p] \in {"finalized", "safe", "latest"} /\ canonical' = canonical
        /\ Linked(Target(p), Number[h]) /\ local[p].seen = latest
        /\ Written(p, local[p].link) /\ Cleared(p, MaxHeight + 1) /\ canonical[Number[h]] = h
    BY ZenonT(60), <1>0
    DEF UpdateFinalized, UpdateSafe, UpdateLatest, SerialOK, UpdatingPcs, LinkedPcs,
                WritingPcs
  <1>2. CASE UpdateFinalized(p) \/ UpdateSafe(p)
    <2>1. /\ pc'[p] \in {"safe", "latest"} /\ latest' = latest
          /\ req'[p] = req[p] /\ local'[p] = local[p]
      BY ZenonT(60), <1>0, <1>2 DEF UpdateFinalized, UpdateSafe, Goto
    <2>2. Target(p)' = Target(p) /\ Written(p, local[p].link)' /\ Cleared(p, MaxHeight + 1)'
      BY Zenon, <1>1, <2>1 DEF Target, Written, Cleared
    <2> QED
      BY ZenonT(60), <1>1, <2>1, <2>2, StillWriting
      DEF SerialOK, UpdatingPcs, LinkedPcs, ReadingPcs, WritingPcs
  <1>3. CASE UpdateLatest(p)
    <2>1. latest' = Number[h] /\ pc'[p] = "idle"
      BY ZenonT(60), <1>3, ReturnIdle DEF UpdateLatest, Inv
    <2>2. Number[h] \in Heights
      BY ZenonT(60), <1>1, HeadStored DEF UpdatingPcs, WritingPcs
    <2>3. \A n \in 0 .. Number[h] : Target(p)[n] = canonical[n]
      <3> SUFFICES ASSUME NEW n \in 0 .. Number[h] PROVE Target(p)[n] = canonical[n]
        OBVIOUS
      <3>1. n \in Heights /\ n \in Int /\ Number[h] \in Int /\ n <= Number[h]
        BY <2>2, HeightsRange
      <3>2. Target(p)[n] = IF n = Number[h] THEN h
                           ELSE IF n >= local[p].link THEN local[p].branch[n]
                           ELSE canonical[n]
        BY ZenonT(60) DEF Target
      <3>3. local[p].link <= n /\ n < Number[h] => canonical[n] = local[p].branch[n]
        BY ZenonT(60), <1>1, <3>1 DEF Written
      <3>4. local[p].link \in Int
        BY Zenon, <1>0, HeightsOrder
      <3> QED
        BY <1>1, <3>1, <3>2, <3>3, <3>4
    <2>4. /\ \A n \in 0 .. Number[h] : canonical[n] # None
          /\ \A n \in 1 .. Number[h] : Parent[canonical[n]] = canonical[n - 1]
      BY SMTT(60), <1>1, <2>2, <2>3, HeightsRange DEF Linked
    <2>5. \A n \in Heights : n > Number[h] => canonical[n] = None
      BY ZenonT(60), <1>1, HeightsOrder DEF Cleared
    <2>6. ChainLinked'
      BY <1>1, <2>1, <2>4, <2>5 DEF ChainLinked
    <2> QED
      BY SMTT(60), <2>1, <2>6, OutsideOK
  <1> QED
    BY <1>2, <1>3

\* The invariant is inductive
LEMMA StepSerial ==
    ASSUME Inv, SerialInv, Undisturbed, [Next]_vars
    PROVE  SerialInv'
  <1>1. ASSUME NEW p \in Handlers, Acts(p) PROVE SerialInv'
    <2>1. /\ OneActive'
          /\ \A q \in Handlers : q # p => pc'[q] = "idle"
      BY SMTT(60), <1>1, OneActiveStep DEF SerialInv, Undisturbed
    <2>2. SerialOK(p)' /\ ChainLinked'
      BY <1>1, QuietSteps, FirstReads, WalkSerial, CheckSerial, TableWrites, LabelWrites
      DEF Acts, HandlerStep
    <2>3. \A q \in Handlers : SerialOK(q)'
      BY <2>1, <2>2, OutsideOK
    <2> QED
      BY <2>1, <2>2, <2>3 DEF SerialInv
  <1>2. ~Crash
    BY SMTT(60) DEF Crash, Undisturbed
  <1>3. CASE UNCHANGED vars
    <2>1. pc' = pc /\ req' = req /\ local' = local /\ canonical' = canonical /\ latest' = latest
      BY ZenonT(60), <1>3 DEF vars, store, handlers
    <2>2. OneActive' /\ ChainLinked'
      BY <2>1 DEF SerialInv, OneActive, ChainLinked, NotWriting
    <2>3. ASSUME NEW p \in Handlers PROVE SerialOK(p)'
      <3>1. SerialOK(p)
        BY DEF SerialInv
      <3>2. /\ WalkLinked(p)' = WalkLinked(p) /\ Target(p)' = Target(p)
            /\ Written(p, local[p].at + 1)' = Written(p, local[p].at + 1)
            /\ Written(p, local[p].link)' = Written(p, local[p].link)
            /\ Cleared(p, 0)' = Cleared(p, 0)
            /\ Cleared(p, local[p].at)' = Cleared(p, local[p].at)
            /\ Cleared(p, MaxHeight + 1)' = Cleared(p, MaxHeight + 1)
        BY ZenonT(60), <2>1 DEF WalkLinked, Target, Written, Cleared
      <3> QED
        BY ZenonT(60), <2>1, <3>1, <3>2 DEF SerialOK
    <2> QED
      BY <2>2, <2>3 DEF SerialInv
  <1> QED
    BY <1>1, <1>2, <1>3 DEF Next, Acts

LEMMA SerialInvHolds == ASSUME Undisturbed PROVE Spec => [](Inv /\ SerialInv)
  <1>1. Init => Inv /\ SerialInv
    BY InitInv, InitSerial
  <1>2. (Inv /\ SerialInv) /\ [Next]_vars => (Inv /\ SerialInv)'
    BY StepInv, StepSerial
  <1> QED
    BY <1>1, <1>2, PTL DEF Spec

\* With calls answered one at a time, no crash and an engine that removes
\* entries, the canonical table is one linked chain between updates: for every
\* block tree and every sequence of calls.
THEOREM ChainWhole == ASSUME Undisturbed PROVE Spec => []ChainLinked
  <1>1. SerialInv => ChainLinked
    BY DEF SerialInv
  <1> QED
    BY <1>1, SerialInvHolds, PTL

-----------------------------------------------------------------------------
\* The adopted chain is what the one writing handler writes
AdoptedIsTarget ==
    OneActive => \A p \in Handlers : pc[p] \in WritingPcs => AdoptedChain = Target(p)

LEMMA AdoptedWhileWriting == AdoptedIsTarget
  <1> SUFFICES ASSUME OneActive, NEW p \in Handlers, pc[p] \in WritingPcs
               PROVE  AdoptedChain = Target(p)
    BY DEF AdoptedIsTarget
  <1>1. \A q \in Handlers : pc[q] \in WritingPcs => q = p
    BY DEF OneActive, WritingPcs
  <1>2. (CHOOSE q \in Handlers : pc[q] \in WritingPcs) = p
    BY <1>1
  <1> QED
    BY ZenonT(60), <1>2 DEF AdoptedChain, NotWriting

\* In the state a step leads to as well
LEMMA AdoptedNext == AdoptedIsTarget'
  BY AdoptedWhileWriting, PTL

\* What an update is about to write is the chain of its head
LEMMA TargetIsChain ==
    ASSUME Inv, SerialInv, NEW p \in Handlers, pc[p] = "connected"
    PROVE  Abstract!IsChainOf(Target(p), req[p].head)
  <1> DEFINE h == req[p].head
             t == Target(p)
  <1>1. /\ h \in tables["headers"] /\ Number[h] \in Heights /\ Number[h] \in Nat
        /\ local[p].link \in Heights /\ local[p].link <= Number[h]
        /\ \A n \in Heights :
              local[p].link <= n /\ n < Number[h] => local[p].branch[n] # None
    <2>1. pc[p] \in UpdatingPcs /\ pc[p] \in LinkedPcs /\ LinkOK(p)
      BY ZenonT(60), HandlerKnows DEF UpdatingPcs, ReadingPcs, LinkedPcs
    <2>2. local[p].link \in Heights
      BY DEF Inv, TypeOK, Locals
    <2>3. Number[h] \in Heights /\ h \in tables["headers"]
      BY ZenonT(60), <2>1, HeadStored
    <2>4. Number[h] \in Nat
      BY <2>3, HeightsRange
    <2>5. /\ local[p].link <= Number[h]
          /\ \A n \in Heights :
                local[p].link <= n /\ n < Number[h] => local[p].branch[n] # None
      BY ZenonT(60), <2>1 DEF LinkOK
    <2> QED
      BY ZenonT(60), <2>2, <2>3, <2>4, <2>5
  <1>2. Linked(t, Number[h])
    BY DEF SerialInv, SerialOK, LinkedPcs
  <1>3. /\ t = [n \in 0 .. Number[h] |-> t[n]]
        /\ t[Number[h]] = h
        /\ \A n \in 0 .. Number[h] : n < Number[h] =>
              t[n] = IF n >= local[p].link THEN local[p].branch[n] ELSE canonical[n]
    <2>1. t = [n \in 0 .. Number[h] |-> t[n]]
      BY ZenonT(60) DEF Target
    <2>2. \A n \in 0 .. Number[h] :
             t[n] = IF n = Number[h] THEN h
                    ELSE IF n >= local[p].link THEN local[p].branch[n] ELSE canonical[n]
      BY ZenonT(60) DEF Target
    <2>3. Number[h] \in 0 .. Number[h] /\ \A n \in 0 .. Number[h] : n < Number[h] => n # Number[h]
      BY <1>1
    <2> QED
      BY ZenonT(60), <2>1, <2>2, <2>3
  <1> HIDE DEF t
  <1>4. ASSUME NEW n \in 0 .. Number[h] PROVE t[n] \in tables["headers"]
    <2>0. n \in Heights
      BY SMTT(60), <1>1, HeightsRange
    <2>1. CASE n = Number[h]
      BY SMTT(60), <1>1, <1>3, <2>1
    <2>2. CASE n < Number[h] /\ n >= local[p].link
      BY ZenonT(60), <1>1, <1>3, <2>0, <2>2, HandlerKnows DEF BranchOK
    <2>3. CASE n < Number[h] /\ n < local[p].link
      <3>1. n \in Int /\ local[p].link \in Int
        BY SMTT(60), <1>1, <2>0, HeightsRange
      <3>2. t[n] = canonical[n]
        <4>1. ~(n >= local[p].link)
          BY <2>3, <3>1
        <4> QED
          BY ZenonT(60), <1>3, <1>4, <2>3, <4>1
      <3>3. t[n] # None
        BY Zenon, <1>2 DEF Linked
      <3> QED
        BY ZenonT(60), <2>0, <3>2, <3>3 DEF Inv, CanonicalStored
    <2> QED
      BY SMTT(60), <1>1, <2>0, <2>1, <2>2, <2>3, HeightsRange
  <1>5. t \in [0 .. Number[h] -> tables["headers"]]
    BY SMTT(60), <1>3, <1>4
  <1>6. t[0] = Genesis
    <2>1. CASE Number[h] = 0
      BY ZenonT(60), <1>1, <1>3, <2>1, NumberZero
    <2>2. CASE Number[h] > 0
      <3>1. 0 \in Heights /\ ~(0 >= local[p].link)
        <4>1. BranchOK(p) /\ 0 \in Heights
          BY HandlerKnows, HeightsRange
        <4>2. 0 >= local[p].link => local[p].branch[0] # None
          BY ZenonT(60), <1>1, <2>2, <4>1
        <4> QED
          BY <4>1, <4>2 DEF BranchOK
      <3> QED
        BY SMTT(60), <1>1, <1>3, <2>2, <3>1 DEF Inv, CanonicalStored
    <2> QED
      BY SMTT(60), <1>1, <2>1, <2>2
  <1> QED
    BY ZenonT(60), <1>2, <1>3, <1>5, <1>6 DEF Abstract!IsChainOf, Linked, t

\* A step of a handler that writes the chain neither before nor after keeps it
LEMMA ChainAtRest ==
    ASSUME OneActive, NEW p \in Handlers, NotWriting,
           \A q \in Handlers : q # p => pc'[q] = "idle",
           pc'[p] \notin WritingPcs, canonical' = canonical, latest' = latest
    PROVE  AdoptedChain' = AdoptedChain
  <1>1. NotWriting'
    BY DEF NotWriting, WritingPcs
  <1> QED
    BY <1>1 DEF AdoptedChain

\* Steps outside the writes of an update import a block or show nothing
LEMMA RefineQuiet ==
    ASSUME Inv, SerialInv, Undisturbed, [Next]_vars, NEW p \in Handlers, Acts(p),
           NotWriting, pc'[p] \notin WritingPcs
    PROVE  [Abstract!Next]_(Abstract!chainVars)
  <1>0. pc \in [Handlers -> Pcs] /\ OneActive
    BY DEF Inv, TypeOK, SerialInv
  <1>1. canonical' = canonical /\ latest' = latest
    <2>1. ASSUME NEW b \in Blocks, NewPayload(p, b) PROVE canonical' = canonical /\ latest' = latest
      BY <2>1 DEF NewPayload
    <2>2. ASSUME NEW r \in Requests, ForkchoiceUpdated(p, r)
          PROVE  canonical' = canonical /\ latest' = latest
      BY SMTT(60), <2>2 DEF ForkchoiceUpdated, store
    <2>3. CASE HandlerStep(p)
      BY ZenonT(60), <2>3
      DEF HandlerStep, StoreBlock, AnswerSyncing, ReadLatest, CheckHead, AnswerAlready,
                  FindLink, WalkBack, CheckConnected, SetBranch, UnsetAbove, SetHead,
                  UpdateFinalized, UpdateSafe, UpdateLatest, store, NotWriting, WritingPcs
    <2> QED
      BY <2>1, <2>2, <2>3 DEF Acts
  <1>2. \A q \in Handlers : q # p => pc'[q] = "idle"
    BY <1>0, OneActiveStep DEF Undisturbed
  <1>3. AdoptedChain' = AdoptedChain
    BY <1>0, <1>1, <1>2, ChainAtRest
  <1>4. CASE tables' = tables
    BY ZenonT(60), <1>3, <1>4 DEF Abstract!chainVars
  <1>5. ASSUME NEW q \in Handlers, StoreBlock(q)
        PROVE  [Abstract!Next]_(Abstract!chainVars)
    <2> DEFINE b == req[q].head
    <2>1. /\ b \in Blocks /\ Defect[b] = "none" /\ Parent[b] \in tables["headers"]
      BY SMTT(60), <1>5 DEF StoreBlock, Inv, StoringOK
    <2>2. \/ tables'["headers"] = tables["headers"]
          \/ tables'["headers"] = tables["headers"] \cup {b}
      BY ZenonT(60), <1>5, StoreBlockTables DEF Tables
    <2>3. CASE tables'["headers"] = tables["headers"]
      BY <1>3, <2>3 DEF Abstract!chainVars
    <2>4. CASE tables'["headers"] = tables["headers"] \cup {b}
      <3>1. Abstract!Import(b)
        BY <1>3, <2>1, <2>4 DEF Abstract!Import
      <3> QED
        BY <2>1, <3>1 DEF Abstract!Next
    <2> QED
      BY <2>2, <2>3, <2>4
  <1> QED
    BY <1>4, <1>5, TablesStep

\* The last check adopts the chain the writes will bring about
LEMMA RefineAdopt ==
    ASSUME Inv, SerialInv, Undisturbed, NEW p \in Handlers, CheckConnected(p),
           pc'[p] \in WritingPcs, OneActive'
    PROVE  [Abstract!Next]_(Abstract!chainVars)
  <1>0. pc \in [Handlers -> Pcs] /\ local \in [Handlers -> Locals] /\ local[p] \in Locals
    BY DEF Inv, TypeOK
  <1>1. /\ pc[p] = "connected" /\ tables' = tables /\ canonical' = canonical
        /\ req'[p] = req[p] /\ local'[p].link = local[p].link
        /\ local'[p].branch = local[p].branch
    <2>1. ~Return(p, req[p], "error")
      BY SMTT(60), ReturnIdle DEF Inv, WritingPcs
    <2> QED
      BY SMTT(60), <1>0, <2>1 DEF CheckConnected, AfterBranch, Goto, store, Locals
  <1>2. AdoptedChain' = Target(p)
    <2>1. AdoptedChain' = Target(p)'
      BY ZenonT(60), AdoptedNext DEF AdoptedIsTarget
    <2> QED
      BY <1>1, <2>1 DEF Target
  <1>3. Abstract!Adopt(req[p].head)
    BY SMTT(60), <1>1, <1>2, TargetIsChain DEF Abstract!Adopt
  <1>4. req[p].head \in Blocks
    BY ZenonT(60), <1>1, HeadStored DEF UpdatingPcs, ReadingPcs
  <1> QED
    BY <1>3, <1>4 DEF Abstract!Next

\* The writes before the last leave the adopted chain as it is
LEMMA TargetKept ==
    ASSUME Inv, SerialInv, Undisturbed, NEW p \in Handlers,
           \/ SetBranch(p) \/ UnsetAbove(p) \/ SetHead(p)
           \/ UpdateFinalized(p) \/ UpdateSafe(p)
    PROVE  Target(p)' = Target(p) /\ pc'[p] \in WritingPcs /\ tables' = tables
  <1> DEFINE h == req[p].head
  <1>0. /\ pc \in [Handlers -> Pcs] /\ local \in [Handlers -> Locals]
        /\ local[p] \in Locals /\ local[p].link \in Heights /\ local[p].at \in Int
        /\ canonical \in [Heights -> Hash]
    BY DEF Inv, TypeOK, Locals
  <1>1. /\ pc[p] \in WritingPcs /\ pc'[p] \in WritingPcs
        /\ tables' = tables /\ req'[p] = req[p]
        /\ local'[p].link = local[p].link /\ local'[p].branch = local[p].branch
    BY <1>0
    DEF SetBranch, UnsetAbove, SetHead, UpdateFinalized, UpdateSafe, AfterBranch, Goto,
                WritingPcs, Locals
  <1>2. Number[h] \in Heights /\ local[p].link <= Number[h]
    BY ZenonT(60), <1>1, HeadStored, HandlerKnows DEF LinkOK, UpdatingPcs, LinkedPcs
  <1>3. \A n \in Heights : n < local[p].link => canonical'[n] = canonical[n]
    <2>1. CASE SetBranch(p)
      <3>1. /\ canonical' = [canonical EXCEPT ![local[p].at] = local[p].branch[local[p].at]]
            /\ local[p].at \in local[p].link .. Number[h] - 1
        BY ZenonT(60), <2>1, HandlerKnows DEF SetBranch, LoopOK
      <3>2. \A n \in Heights : n < local[p].link => n # local[p].at
        BY <1>0, <3>1, HeightsOrder
      <3> QED
        BY Zenon, <1>0, <3>1, <3>2
    <2>2. CASE UnsetAbove(p)
      <3>1. /\ \/ canonical' = canonical
               \/ canonical' = [canonical EXCEPT ![local[p].at] = None]
            /\ local[p].at \in Number[h] + 1 .. local[p].seen
        BY ZenonT(60), <2>2, HandlerKnows DEF UnsetAbove, LoopOK
      <3>2. local[p].at > Number[h] /\ \A n \in Heights : n \in Int
        BY <1>0, <1>2, <3>1, HeightsRange
      <3> QED
        BY <1>0, <1>2, <3>1, <3>2, HeightsRange
    <2>3. CASE SetHead(p)
      BY SMTT(60), <1>0, <1>2, <2>3, HeightsRange DEF SetHead
    <2>4. CASE UpdateFinalized(p) \/ UpdateSafe(p)
      BY <2>4 DEF UpdateFinalized, UpdateSafe
    <2> QED
      BY ZenonT(60), <2>1, <2>2, <2>3, <2>4
  <1> QED
    BY SMTT(60), <1>0, <1>1, <1>2, <1>3, HeightsRange DEF Target

\* The writes of an update show nothing: the chain was adopted before them
LEMMA RefineWrites ==
    ASSUME Inv, SerialInv, Undisturbed, NEW p \in Handlers, pc[p] \in WritingPcs, Acts(p)
    PROVE  UNCHANGED Abstract!chainVars
  <1>0. /\ pc \in [Handlers -> Pcs] /\ local[p] \in Locals /\ local[p].link \in Heights
        /\ SerialOK(p) /\ OneActive
    BY DEF Inv, TypeOK, SerialInv, Locals
  <1>1. AdoptedChain = Target(p)
    BY ZenonT(60), <1>0, AdoptedWhileWriting DEF AdoptedIsTarget
  <1>2. OneActive' /\ \A q \in Handlers : q # p => pc'[q] = "idle"
    BY SMTT(60), <1>0, OneActiveStep DEF Undisturbed
  <1>3. \/ SetBranch(p) \/ UnsetAbove(p) \/ SetHead(p)
        \/ UpdateFinalized(p) \/ UpdateSafe(p) \/ UpdateLatest(p)
    <2>1. \A b \in Blocks : ~NewPayload(p, b)
      BY DEF NewPayload, Free, WritingPcs
    <2>2. \A r \in Requests : ~ForkchoiceUpdated(p, r)
      BY DEF ForkchoiceUpdated, Free, WritingPcs
    <2> QED
      BY ZenonT(60), <2>1, <2>2
      DEF Acts, HandlerStep, WritingPcs, StoreBlock, AnswerSyncing, ReadLatest,
                        CheckHead, AnswerAlready, FindLink, WalkBack, CheckConnected
  <1>4. CASE \/ SetBranch(p) \/ UnsetAbove(p) \/ SetHead(p)
             \/ UpdateFinalized(p) \/ UpdateSafe(p)
    <2>1. Target(p)' = Target(p) /\ pc'[p] \in WritingPcs /\ tables' = tables
      BY SMTT(60), <1>4, TargetKept
    <2>2. AdoptedChain' = Target(p)'
      BY ZenonT(60), <1>2, <2>1, AdoptedNext DEF AdoptedIsTarget
    <2> QED
      BY ZenonT(60), <1>1, <2>1, <2>2 DEF Abstract!chainVars
  <1>5. CASE UpdateLatest(p)
    <2> DEFINE h == req[p].head
    <2>1. /\ latest' = Number[h] /\ canonical' = canonical /\ tables' = tables
          /\ pc'[p] = "idle" /\ pc[p] = "latest"
      BY SMTT(60), <1>5, ReturnIdle DEF UpdateLatest, Inv
    <2>2. Number[h] \in Heights
      BY ZenonT(60), <2>1, HeadStored DEF UpdatingPcs, WritingPcs
    <2>3. NotWriting'
      BY SMTT(60), <1>2, <2>1 DEF NotWriting, WritingPcs
    <2>4. AdoptedChain' = [n \in 0 .. Number[h] |-> canonical[n]]
      BY Zenon, <2>1, <2>3 DEF AdoptedChain
    <2>5. Written(p, local[p].link) /\ canonical[Number[h]] = h
      BY ZenonT(60), <1>0, <2>1 DEF SerialOK
    <2>6. \A n \in 0 .. Number[h] : Target(p)[n] = canonical[n]
      <3> SUFFICES ASSUME NEW n \in 0 .. Number[h] PROVE Target(p)[n] = canonical[n]
        OBVIOUS
      <3>1. n \in Heights /\ n \in Int /\ Number[h] \in Int /\ n <= Number[h]
        BY <2>2, HeightsRange
      <3>2. Target(p)[n] = IF n = Number[h] THEN h
                           ELSE IF n >= local[p].link THEN local[p].branch[n]
                           ELSE canonical[n]
        BY ZenonT(60) DEF Target
      <3>3. local[p].link <= n /\ n < Number[h] => canonical[n] = local[p].branch[n]
        BY ZenonT(60), <2>5, <3>1 DEF Written
      <3>4. local[p].link \in Int
        BY <1>0, HeightsRange
      <3> QED
        BY <2>5, <3>1, <3>2, <3>3, <3>4
    <2>7. Target(p) = [n \in 0 .. Number[h] |-> Target(p)[n]]
      BY DEF Target
    <2>8. Target(p) = [n \in 0 .. Number[h] |-> canonical[n]]
      BY <2>6, <2>7
    <2> QED
      BY ZenonT(60), <1>1, <2>1, <2>4, <2>8 DEF Abstract!chainVars
  <1> QED
    BY <1>3, <1>4, <1>5

\* Every step is a step of the abstract chain, or shows nothing
LEMMA RefineStep ==
    ASSUME Inv, SerialInv, Undisturbed, [Next]_vars
    PROVE  [Abstract!Next]_(Abstract!chainVars)
  <1>1. ASSUME NEW p \in Handlers, Acts(p) PROVE [Abstract!Next]_(Abstract!chainVars)
    <2>0. /\ OneActive /\ OneActive' /\ pc \in [Handlers -> Pcs]
          /\ \A q \in Handlers : q # p => pc[q] = "idle"
      BY <1>1, OneActiveStep DEF Undisturbed, SerialInv, Inv, TypeOK
    <2>1. CASE pc[p] \in WritingPcs
      BY <1>1, <2>1, RefineWrites
    <2>2. CASE pc[p] \notin WritingPcs /\ pc'[p] \notin WritingPcs
      <3>1. NotWriting
        BY <2>0, <2>2 DEF NotWriting, WritingPcs
      <3> QED
        BY <1>1, <2>2, <3>1, RefineQuiet
    <2>3. CASE pc[p] \notin WritingPcs /\ pc'[p] \in WritingPcs
      <3>1. CheckConnected(p)
        <4>1. ASSUME NEW b \in Blocks, NewPayload(p, b) PROVE FALSE
          BY <2>0, <2>3, <4>1
          DEF NewPayload, PayloadKnown, PayloadOrphan, PayloadInvalid, PayloadExecuted, Return,
              TakeUp, WritingPcs
        <4>2. ASSUME NEW r \in Requests, ForkchoiceUpdated(p, r) PROVE FALSE
          BY SMTT(60), <2>0, <2>3, <4>2 DEF ForkchoiceUpdated, Return, TakeUp, WritingPcs
        <4>3. CASE HandlerStep(p)
          BY ZenonT(60), <2>0, <2>3, <4>3
          DEF HandlerStep, StoreBlock, AnswerSyncing, ReadLatest, CheckHead, AnswerAlready,
              FindLink, WalkBack, SetBranch, UnsetAbove, SetHead, UpdateFinalized, UpdateSafe,
              UpdateLatest, Return, Goto, WritingPcs
        <4> QED
          BY <1>1, <4>1, <4>2, <4>3 DEF Acts
      <3> QED
        BY <2>0, <2>3, <3>1, RefineAdopt
    <2> QED
      BY <2>1, <2>2, <2>3
  <1>2. ~Crash
    BY DEF Crash, Undisturbed
  <1>3. CASE UNCHANGED vars
    BY <1>3 DEF vars, store, handlers, Abstract!chainVars, AdoptedChain, Target, NotWriting
  <1> QED
    BY <1>1, <1>2, <1>3 DEF Next, Acts

\* Initial states are initial states of the abstract chain
LEMMA RefineInit == Init => Abstract!Init
  <1> SUFFICES ASSUME Init PROVE Abstract!Init
    OBVIOUS
  <1>1. NotWriting
    BY DEF Init, NotWriting, WritingPcs
  <1>2. AdoptedChain = [n \in {0} |-> Genesis]
    <2>1. 0 .. 0 = {0} /\ 0 \in Heights
      BY HeightsRange
    <2> QED
      BY <1>1, <2>1 DEF Init, AdoptedChain
  <1>3. tables["headers"] = Imported
    BY DEF Init, Tables
  <1> QED
    BY <1>2, <1>3, EngineAssumption DEF Abstract!Init

\* Under the same conditions the handlers implement the abstract chain: the
\* writes of one forkchoiceUpdated add up to one move of the head, and no other
\* step moves it.
THEOREM ChainRefined == ASSUME Undisturbed PROVE Spec => ImplementsChain
  <1>1. (Inv /\ SerialInv) /\ [Next]_vars => [Abstract!Next]_(Abstract!chainVars)
    BY RefineStep
  <1> QED
    BY <1>1, RefineInit, SerialInvHolds, PTL DEF Spec, ImplementsChain, Abstract!Spec

-----------------------------------------------------------------------------
\* What the answers to an update rest on, besides SerialInv
AnswerOK(p) ==
    /\ pc[p] = "already" => IsCanonical(req[p].head)
    /\ pc[p] = "store" => req[p].call = "newPayload"

AnswerInv == \A p \in Handlers : AnswerOK(p)

\* In a linked chain the ancestors of a canonical block are canonical
ChainHasAncestors ==
    Inv /\ ChainLinked /\ NotWriting =>
        \A h \in Blocks : IsCanonical(h) =>
            \A a \in Ancestors[h] : canonical[Number[a]] = a

LEMMA CanonicalAncestors == ChainHasAncestors
  <1> SUFFICES ASSUME Inv, ChainLinked, NotWriting, NEW h \in Blocks, IsCanonical(h)
               PROVE  \A a \in Ancestors[h] : canonical[Number[a]] = a
    BY DEF ChainHasAncestors
  <1> DEFINE S == {x \in Blocks : canonical[Number[x]] = x /\ Number[x] <= latest}
  <1>0. /\ latest \in Heights /\ \A x \in Blocks : Number[x] \in Heights /\ x # None
    BY Zenon, TreeAssumption DEF Inv, TypeOK
  <1>1. \A x \in Blocks : canonical[Number[x]] = x => x \in S
    BY <1>0, WholeChain, HeightsRange
  <1>2. h \in S /\ S \in SUBSET Blocks
    BY <1>1 DEF IsCanonical
  <1>3. ASSUME NEW x \in S, x # Genesis PROVE Parent[x] \in S
    <2>1. x \in tables["headers"]
      BY <1>0 DEF Inv, CanonicalStored
    <2>2. Defect[x] = "none"
      BY <2>1 DEF Inv, StoredIsExecuted
    <2>3. Parent[x] \in Blocks /\ Number[x] = Number[Parent[x]] + 1
      BY <1>3, <2>2, TreeAssumption
    <2>4. /\ Number[x] \in 1 .. latest /\ Number[x] - 1 = Number[Parent[x]]
      BY <1>0, <2>3, HeightsRange
    <2>5. Parent[canonical[Number[x]]] = canonical[Number[x] - 1]
      BY <2>4, WholeChain DEF Linked
    <2> QED
      BY <1>1, <2>3, <2>4, <2>5
  <1>4. ParentClosed(S)
    BY <1>3 DEF ParentClosed
  <1>5. Ancestors[h] \subseteq S
    <2> HIDE DEF S
    <2> QED BY <1>2, <1>4, AncestorsLeast
  <1> QED
    BY <1>5

\* In the state a step leads to as well
LEMMA CanonicalAncestorsNext == ChainHasAncestors'
  BY CanonicalAncestors, PTL

\* The reason for an answer holds until it is given
LEMMA StepAnswer ==
    ASSUME Inv, SerialInv, AnswerInv, Undisturbed, [Next]_vars
    PROVE  AnswerInv'
  <1>0. pc \in [Handlers -> Pcs] /\ req \in [Handlers -> Calls] /\ OneActive
    BY DEF Inv, TypeOK, SerialInv
  <1>1. ASSUME NEW p \in Handlers, Acts(p) PROVE AnswerInv'
    <2>1. \A q \in Handlers : q # p => pc'[q] = "idle"
      BY <1>0, <1>1, OneActiveStep DEF Undisturbed
    <2>2. ASSUME NEW b \in Blocks, NewPayload(p, b) PROVE AnswerOK(p)'
      BY <1>0, <2>2
      DEF NewPayload, PayloadKnown, PayloadOrphan, PayloadInvalid, PayloadExecuted, Return, TakeUp,
          NewPayloadCall, AnswerOK
    <2>3. ASSUME NEW r \in Requests, ForkchoiceUpdated(p, r) PROVE AnswerOK(p)'
      BY <1>0, <2>3 DEF ForkchoiceUpdated, Return, TakeUp, AnswerOK
    <2>4. ASSUME StoreBlock(p) PROVE AnswerOK(p)'
      <3>1. pc'[p] = "idle" \/ (pc'[p] = "store" /\ pc[p] = "store" /\ req'[p] = req[p])
        BY <1>0, <2>4 DEF StoreBlock, Return
      <3> QED
        BY <3>1 DEF AnswerInv, AnswerOK, IsCanonical
    <2>5. ASSUME CheckHead(p) PROVE AnswerOK(p)'
      <3>1. /\ req' = req /\ canonical' = canonical
            /\ \/ pc'[p] = "already" /\ canonical[Number[req[p].head]] = req[p].head
               \/ pc'[p] = "link"
        BY <1>0, <2>5 DEF CheckHead, Goto, store, IsCanonical
      <3> QED
        BY <3>1 DEF AnswerOK, IsCanonical
    <2>6. ASSUME HandlerStep(p), ~StoreBlock(p), ~CheckHead(p) PROVE AnswerOK(p)'
      <3>1. pc'[p] # "store" /\ pc'[p] # "already"
        BY ZenonT(60), <1>0, <2>6
        DEF HandlerStep, AnswerSyncing, ReadLatest, AnswerAlready, FindLink, WalkBack,
            CheckConnected, SetBranch, AfterBranch, UnsetAbove, SetHead, UpdateFinalized,
            UpdateSafe, UpdateLatest, Return, Goto
      <3> QED
        BY <3>1 DEF AnswerOK, IsCanonical
    <2>7. ASSUME NEW q \in Handlers, q # p PROVE AnswerOK(q)'
      BY <2>1, <2>7 DEF AnswerOK, IsCanonical
    <2> QED
      BY <1>1, <2>2, <2>3, <2>4, <2>5, <2>6, <2>7 DEF Acts, AnswerInv
  <1>2. ~Crash
    BY DEF Crash, Undisturbed
  <1>3. CASE UNCHANGED vars
    BY <1>3 DEF vars, store, handlers, AnswerInv, AnswerOK, IsCanonical
  <1> QED
    BY <1>1, <1>2, <1>3 DEF Next, Acts

\* The steps that answer an update, and the chain they leave
LEMMA AnswerCanonical ==
    ASSUME Inv, SerialInv, AnswerInv, Undisturbed, [Next]_vars, NEW p \in Handlers,
           pc[p] # "idle", Answered(p, "forkchoiceUpdated", {"VALID", "ALREADY"})'
    PROVE  \A a \in Ancestors[req'[p].head] : canonical'[Number[a]] = a
  <1>0. /\ pc \in [Handlers -> Pcs] /\ req \in [Handlers -> Calls]
        /\ reply \in [Handlers -> Replies] /\ OneActive
        /\ pc'[p] = "idle" /\ req'[p].call = "forkchoiceUpdated"
        /\ reply'[p] \in {"VALID", "ALREADY"}
    BY DEF Inv, TypeOK, SerialInv, Answered
  <1>1. Acts(p)
    <2>1. ~Crash
      BY DEF Crash, Undisturbed
    <2>2. ~UNCHANGED vars
      BY <1>0 DEF vars, handlers
    <2>3. ASSUME NEW q \in Handlers, Acts(q), q # p PROVE FALSE
      BY <1>0, <2>3, OthersUntouched DEF Inv
    <2> QED
      BY <2>1, <2>2, <2>3 DEF Next, Acts
  <1>2. UpdateLatest(p) \/ AnswerAlready(p)
    <2>1. HandlerStep(p)
      BY Zenon, <1>1 DEF Acts, NewPayload, ForkchoiceUpdated, Free
    <2>2. ~StoreBlock(p)
      <3> SUFFICES ASSUME StoreBlock(p) PROVE FALSE
        OBVIOUS
      <3>1. pc[p] = "store" /\ req'[p] = req[p]
        BY <1>0 DEF StoreBlock, Return, Verdicts
      <3> QED
        BY <1>0, <3>1 DEF AnswerInv, AnswerOK
    <2>3. ~AnswerSyncing(p)
      BY <1>0 DEF AnswerSyncing, Return
    <2>4. ~ReadLatest(p) /\ ~CheckHead(p) /\ ~FindLink(p)
      BY <1>0 DEF ReadLatest, CheckHead, FindLink, Goto
    <2>5. ~WalkBack(p)
      BY <1>0 DEF WalkBack, Return, Goto
    <2>6. ~CheckConnected(p)
      BY <1>0 DEF CheckConnected, AfterBranch, Return, Goto
    <2>7. ~SetBranch(p) /\ ~UnsetAbove(p) /\ ~SetHead(p)
      BY <1>0 DEF SetBranch, AfterBranch, UnsetAbove, SetHead, Goto
    <2>8. ~UpdateFinalized(p) /\ ~UpdateSafe(p)
      BY Zenon, <1>0 DEF UpdateFinalized, UpdateSafe, Goto
    <2> QED
      BY <2>1, <2>2, <2>3, <2>4, <2>5, <2>6, <2>7, <2>8 DEF HandlerStep
  <1>3. req'[p].head = req[p].head /\ canonical' = canonical
    BY Zenon, <1>0, <1>2 DEF UpdateLatest, AnswerAlready, Return, Verdicts, store
  <1>4. req[p].head \in Blocks
    BY Zenon, <1>2, HeadStored DEF UpdateLatest, AnswerAlready, UpdatingPcs, ReadingPcs, WritingPcs
  <1>5. IsCanonical(req[p].head)
    BY Zenon, <1>2
    DEF UpdateLatest, AnswerAlready, SerialInv, SerialOK, AnswerInv, AnswerOK, IsCanonical
  <1>6. Inv' /\ ChainLinked'
    BY Zenon, StepInv, StepSerial DEF SerialInv
  <1>7. NotWriting'
    BY <1>0, <1>1, OneActiveStep DEF Undisturbed, NotWriting, WritingPcs
  <1> QED
    BY Zenon, <1>3, <1>4, <1>5, <1>6, <1>7, CanonicalAncestorsNext DEF ChainHasAncestors, IsCanonical

\* Under the same conditions a forkchoiceUpdated that is answered VALID leaves its
\* head and all the head's ancestors canonical, for every block tree and depth of
\* reorg.
THEOREM HeadsCanonical == ASSUME Undisturbed PROVE Spec => AncestorsCanonical
  <1>1. Init => AnswerInv
    BY DEF Init, AnswerInv, AnswerOK
  <1>2. (Inv /\ SerialInv) /\ AnswerInv /\ [Next]_vars => AnswerInv'
    BY Zenon, StepAnswer
  <1>3. (Inv /\ SerialInv) /\ AnswerInv /\ [Next]_vars =>
           [\A p \in Handlers :
               pc[p] # "idle" /\ Answered(p, "forkchoiceUpdated", {"VALID", "ALREADY"})' =>
                   \A a \in Ancestors[req'[p].head] : canonical'[Number[a]] = a]_vars
    BY Zenon, AnswerCanonical
  <1> QED
    BY <1>1, <1>2, <1>3, SerialInvHolds, PTL DEF Spec, AncestorsCanonical

==============================================================================
