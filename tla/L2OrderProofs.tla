----------------------------- MODULE L2OrderProofs -----------------------------
(***************************************************************************)
(* What holds of the deposits as long as the sequencer is not restarted,   *)
(* for every number of blocks and deposits and whatever else goes wrong:   *)
(* each is minted at most once, verify removes from the bridge's queue     *)
(* exactly the deposits the verified block minted, and the bridge can pay  *)
(* for all that may still be withdrawn.                                    *)
(*                                                                         *)
(* The invariant follows a deposit on its way: its event is behind the     *)
(* watcher, and its mint transaction is in one place at most, the logs at  *)
(* hand, the mempool, the payload or a block of the chain.                 *)
(***************************************************************************)
EXTENDS L2Proofs, FiniteSetTheorems

Uninterrupted == "restart" \notin Faults

LogIds == Range(watcher.logs)
PayloadIds == IF payload = None THEN {} ELSE Range(payload.deposits)
ChainIds == UNION {Range(chain[n].deposits) : n \in 1 .. LatestBlock}

\* The watcher has passed every deposit that is on its way
Passed == \A id \in LogIds \cup pool.deposits \cup PayloadIds \cup ChainIds : id < watcher.last

\* A deposit is in one place
OnePlace ==
    /\ LogIds \cap pool.deposits = {} /\ LogIds \cap PayloadIds = {} /\ LogIds \cap ChainIds = {}
    /\ pool.deposits \cap PayloadIds = {} /\ pool.deposits \cap ChainIds = {}
    /\ PayloadIds \cap ChainIds = {}

\* ... and there once
OnceThere ==
    /\ IsInjective(watcher.logs)
    /\ payload # None => IsInjective(payload.deposits)
    /\ MintedOnce

\* A commitment holds the deposits of its block
CommitmentsOK ==
    \A n \in Numbers : blockCommitments[n] # None =>
        n <= LatestBlock /\ blockCommitments[n] = BlockDeposits(n)

OrderInv ==
    /\ Passed
    /\ OnePlace
    /\ OnceThere
    /\ CommitmentsOK
    /\ CommittedDepositsFirst
    /\ RemovedWereMinted

-----------------------------------------------------------------------------
\* The invariant in the initial state
LEMMA OrderInit == Init => OrderInv
  <1> SUFFICES ASSUME Init PROVE OrderInv
    OBVIOUS
  <1>0. Len(<<>>) = 0 /\ DOMAIN <<>> = {}
    BY EmptySeq
  <1>1. LogIds = {} /\ PayloadIds = {} /\ ChainIds = {} /\ pool.deposits = {}
    <2>1. LogIds = {}
      BY <1>0 DEF Init, FreshWatcher, LogIds, Range
    <2>2. ChainIds = {}
      BY <1>0 DEF Init, ChainIds, LatestBlock
    <2> QED
      BY <2>1, <2>2 DEF Init, PayloadIds
  <1>2. Passed /\ OnePlace
    BY <1>1 DEF Passed, OnePlace
  <1>3. OnceThere
    BY <1>0 DEF Init, FreshWatcher, OnceThere, IsInjective, MintedOnce, LatestBlock
  <1>4. CommitmentsOK
    BY DEF Init, ContractsInit, CommitmentsOK
  <1>5. CommittedDepositsFirst
    BY DEF Init, ContractsInit, CommittedDepositsFirst, NoneCommitted
  <1>6. RemovedWereMinted
    BY DEF Init, ContractsInit, RemovedWereMinted
  <1> QED
    BY <1>2, <1>3, <1>4, <1>5, <1>6 DEF OrderInv

\* The deposits on their way, and the position of the watcher, stay as they are
Still ==
    /\ watcher'.logs = watcher.logs /\ watcher'.last = watcher.last
    /\ pool'.deposits = pool.deposits
    /\ UNCHANGED <<payload, chain>>

\* What can move a deposit
LEMMA DepositMoves ==
    ASSUME Uninterrupted, Inv, [Next]_vars
    PROVE  \/ Still \/ GetLogs \/ AbandonLogs \/ ProcessLog
           \/ BuildPayload \/ ImportPayload \/ ImportFails
  <1>1. CASE L1Deposit \/ (\E w \in Withdrawals : Claim(w))
    BY <1>1, Zenon DEF L1Deposit, Claim, l2, tasks, Still
  <1>2. ASSUME NEW w \in Withdrawals, RequestWithdrawal(w) PROVE Still
    <2>1. pool'.deposits = pool.deposits
      BY <1>2 DEF RequestWithdrawal, Inv, TypeOK
    <2> QED
      BY <1>2, <2>1, Zenon DEF RequestWithdrawal, tasks, Still
  <1>3. CASE GetPendingLogs
    <2>1. watcher'.logs = watcher.logs /\ watcher'.last = watcher.last
      BY <1>3 DEF GetPendingLogs, Inv, TypeOK
    <2> QED
      BY <1>3, <2>1, Zenon DEF GetPendingLogs, WatcherUnchanged, l2, Still
  <1>4. CASE CommitterStep \/ CommitterFails
    BY <1>4, Zenon DEF CommitterStep, ReadLastCommitted, SendCommitment, CommitMined, CommitterFails,
                CommitterUnchanged, l2, Still
  <1>5. CASE ProverStep \/ ProverFails
    BY <1>5, Zenon DEF ProverStep, RequestInput, DevReadCommitted, DevReadVerified, SendProof,
                ProofMined, ProverFails, ProverUnchanged, l2, Still
  <1>6. CASE MineCommit \/ MineVerify
    BY <1>6, Zenon DEF MineCommit, MineVerify, l2, tasks, Still
  <1>7. CASE UNCHANGED vars
    BY <1>7, Zenon DEF vars, l2, tasks, Still
  <1>8. ~Restart
    BY DEF Restart, Uninterrupted
  <1> QED
    BY <1>1, <1>2, <1>3, <1>4, <1>5, <1>6, <1>7, <1>8 DEF Next, WatcherStep, ProducerStep

\* Ids are integers, and so is the position of the watcher
LEMMA IdFacts ==
    ASSUME Inv
    PROVE  /\ Ids \subseteq Nat
           /\ watcher.logs \in Seq(Ids) /\ watcher.last \in Nat /\ pool.deposits \subseteq Ids
           /\ payload # None => payload \in Blocks /\ payload.deposits \in Seq(Ids)
           /\ chain \in Seq(Blocks)
           /\ \A n \in 1 .. LatestBlock : chain[n].deposits \in Seq(Ids)
  <1>1. ProcessTypeOK /\ TaskTypeOK
    BY TypeParts DEF Inv
  <1>2. Ids \subseteq Nat
    BY ContractsAssumption DEF Ids
  <1>3. \A n \in 1 .. LatestBlock : chain[n] \in Blocks
    BY <1>1, ElementOfSeq DEF ProcessTypeOK, LatestBlock
  <1>4. watcher.logs \in Seq(Ids) /\ watcher.last \in Nat
    BY <1>1, ContractsAssumption DEF TaskTypeOK
  <1>5. payload # None => payload \in Blocks /\ payload.deposits \in Seq(Ids)
    BY <1>1 DEF ProcessTypeOK, Blocks
  <1>6. \A n \in 1 .. LatestBlock : chain[n].deposits \in Seq(Ids)
    BY <1>3 DEF Blocks
  <1> QED
    BY <1>1, <1>2, <1>4, <1>5, <1>6 DEF ProcessTypeOK

\* The events the watcher receives are at or behind its old position, and each is there once
LEMMA EventsFresh ==
    ASSUME Inv, GetLogs
    PROVE  /\ \A id \in LogIds' : watcher.last <= id /\ id < watcher'.last
           /\ IsInjective(watcher'.logs)
           /\ watcher.last < watcher'.last /\ watcher'.last \in Nat
  <1>0. TypeOK /\ watcher.last < depositId
    BY Zenon DEF Inv, GetLogs
  <1>1. PICK logs \in {EventsIn(watcher.last, NewLastBlock)} \cup (IF "rpc" \in Faults THEN {<<>>} ELSE {}) :
             watcher' = [watcher EXCEPT !.last = NewLastBlock, !.logs = logs,
                                        !.at = IF logs = <<>> THEN "fetch" ELSE "pending"]
    BY Zenon DEF GetLogs
  <1>2. watcher'.logs = logs /\ watcher'.last = NewLastBlock
    BY <1>0, <1>1 DEF TypeOK
  <1>3. /\ watcher.last \in Nat /\ NewLastBlock \in Nat
        /\ watcher.last < NewLastBlock /\ NewLastBlock <= MaxDeposits
    BY <1>0, NewLastBlockFacts, ContractsAssumption
  <1>4. CASE logs = <<>>
    BY <1>2, <1>3, <1>4, EmptySeq DEF LogIds, Range, IsInjective
  <1>5. CASE logs = EventsIn(watcher.last, NewLastBlock)
    <2>1. /\ logs \in Seq(Ids) /\ Len(logs) = NewLastBlock - watcher.last
          /\ \A i \in 1 .. NewLastBlock - watcher.last : logs[i] = watcher.last + i - 1
      <3>1. watcher.last <= NewLastBlock
        BY <1>3
      <3> QED
        BY Zenon, <1>3, <1>5, <3>1, EventsInType
    <2>2. DOMAIN logs = 1 .. NewLastBlock - watcher.last
      BY <2>1, LenProperties
    <2>3. IsInjective(logs)
      BY <1>3, <2>1, <2>2 DEF IsInjective
    <2>4. \A id \in Range(logs) : watcher.last <= id /\ id < NewLastBlock
      BY <1>3, <2>1, <2>2 DEF Range
    <2> QED
      BY <1>2, <1>3, <2>3, <2>4 DEF LogIds
  <1> QED
    BY <1>1, <1>4, <1>5

-----------------------------------------------------------------------------
\* The log at hand leaves the list it was in
LEMMA LogDone ==
    ASSUME Inv, OrderInv, ProcessLog
    PROVE  /\ watcher'.last = watcher.last
           /\ Head(watcher.logs) \in LogIds
           /\ LogIds' \subseteq LogIds \ {Head(watcher.logs)}
           /\ IsInjective(watcher'.logs)
           /\ pool'.deposits \subseteq pool.deposits \cup {Head(watcher.logs)}
           /\ UNCHANGED <<payload, chain>>
  <1> DEFINE logs == watcher.logs
  <1>0. TypeOK /\ logs \in Seq(Ids) /\ logs # <<>> /\ IsInjective(logs)
    BY IdFacts DEF Inv, WatcherOK, ProcessLog, OrderInv, OnceThere
  <1>1. /\ Len(logs) \in Nat \ {0} /\ DOMAIN logs = 1 .. Len(logs)
        /\ Tail(logs) \in Seq(Ids) /\ Len(Tail(logs)) = Len(logs) - 1
        /\ \A i \in 1 .. Len(Tail(logs)) : Tail(logs)[i] = logs[i + 1]
    BY <1>0, HeadTailProperties, LenProperties, EmptySeq
  <1>2. Head(logs) = logs[1]
    BY <1>0
  <1>3. DOMAIN Tail(logs) = 1 .. Len(logs) - 1
    BY <1>1, LenProperties
  <1>4. Head(logs) \in LogIds
    BY <1>1, <1>2 DEF LogIds, Range
  <1>5. Range(Tail(logs)) \subseteq LogIds \ {Head(logs)}
    <2>1. SUFFICES ASSUME NEW i \in 1 .. Len(logs) - 1
                   PROVE  Tail(logs)[i] \in LogIds /\ Tail(logs)[i] # Head(logs)
      BY <1>3 DEF Range
    <2>2. i + 1 \in DOMAIN logs /\ 1 \in DOMAIN logs /\ i + 1 # 1 /\ Tail(logs)[i] = logs[i + 1]
      BY <1>1
    <2> QED
      BY <1>0, <1>2, <2>2 DEF LogIds, Range, IsInjective
  <1>6. IsInjective(Tail(logs))
    <2>1. SUFFICES ASSUME NEW i \in 1 .. Len(logs) - 1, NEW j \in 1 .. Len(logs) - 1,
                          Tail(logs)[i] = Tail(logs)[j]
                   PROVE  i = j
      BY <1>3 DEF IsInjective
    <2>2. /\ i + 1 \in DOMAIN logs /\ j + 1 \in DOMAIN logs
          /\ Tail(logs)[i] = logs[i + 1] /\ Tail(logs)[j] = logs[j + 1]
      BY <1>1
    <2>3. i + 1 = j + 1
      BY <1>0, <2>1, <2>2 DEF IsInjective
    <2> QED
      BY <2>3
  <1>7. Range(<<>>) = {} /\ IsInjective(<<>>)
    BY EmptySeq DEF Range, IsInjective
  <1>8. watcher'.last = watcher.last /\ (watcher'.logs = <<>> \/ watcher'.logs = Tail(logs))
    BY Zenon, <1>0 DEF ProcessLog, NextLog, TypeOK
  <1>9. pool'.deposits \subseteq pool.deposits \cup {Head(logs)}
    BY <1>0 DEF ProcessLog, TypeOK
  <1>10. UNCHANGED <<payload, chain>>
    BY DEF ProcessLog
  <1> QED
    BY <1>4, <1>5, <1>6, <1>7, <1>8, <1>9, <1>10 DEF LogIds

\* The queue yields a mint transaction once
LEMMA PayloadTakes ==
    ASSUME Inv, BuildPayload
    PROVE  /\ payload = None
           /\ PayloadIds' \subseteq pool.deposits
           /\ pool'.deposits \subseteq pool.deposits \ PayloadIds'
           /\ IsInjective(payload'.deposits)
           /\ UNCHANGED <<watcher, chain>>
  <1>0. TypeOK
    BY DEF Inv
  <1>1. PICK ids \in SUBSET pool.deposits, mints \in Seq(pool.deposits), burns \in Seq(pool.withdrawals) :
              Fill(ids, mints, burns) /\ Range(mints) \subseteq ids
    BY <1>0, BuildPayloadFills
  <1>2. PICK d \in BOOLEAN : payload' = [deposits |-> mints, withdrawals |-> burns, diffable |-> d]
    BY Zenon, <1>1 DEF Fill
  <1>3. pool'.deposits = pool.deposits \ Range(mints)
    BY <1>1 DEF Fill
  <1>4. payload'.deposits = mints
    BY <1>2
  <1>5. IsInjective(mints)
    <2>1. \A i, j \in DOMAIN mints : i < j => mints[i] < mints[j]
      BY <1>1 DEF Fill, QueueYields
    <2>2. DOMAIN mints = 1 .. Len(mints) /\ Len(mints) \in Nat
      BY <1>1, LenProperties
    <2>3. \A i \in DOMAIN mints : mints[i] \in Nat
      BY <1>1, <2>2, ElementOfSeq, IdFacts
    <2> QED
      BY <2>1, <2>2, <2>3 DEF IsInjective
  <1>6. Range(mints) \subseteq pool.deposits
    BY <1>1
  <1> QED
    BY <1>3, <1>4, <1>5, <1>6 DEF BuildPayload, PayloadIds

\* The range of a sequence
LEMMA RangeInSet ==
    ASSUME NEW S, NEW s \in Seq(S)
    PROVE  Range(s) \subseteq S
  BY ElementOfSeq, LenProperties DEF Range

\* The payload's deposits become those of the last block
LEMMA ImportMoves ==
    ASSUME Inv, OrderInv, ImportPayload
    PROVE  /\ ChainIds' \subseteq ChainIds \cup PayloadIds
           /\ MintedOnce'
           /\ payload' = None
           /\ UNCHANGED <<watcher, pool>>
  <1> DEFINE top == LatestBlock + 1
  <1>0. payload # None /\ payload \in Blocks /\ payload.deposits \in Seq(Ids) /\ chain \in Seq(Blocks)
    BY IdFacts DEF ImportPayload
  <1>1. LatestBlock \in Nat
    BY <1>0, LenProperties DEF LatestBlock
  <1>2. /\ LatestBlock' = top
        /\ \A n \in 1 .. LatestBlock : chain'[n] = chain[n]
        /\ chain'[top] = payload
    BY <1>0, <1>1, AppendProperties DEF ImportPayload, LatestBlock
  <1>3. \A n \in 1 .. top : n # top => n \in 1 .. LatestBlock
    BY <1>1
  <1>4. PayloadIds = Range(payload.deposits)
    BY <1>0 DEF PayloadIds
  <1>5. ChainIds' \subseteq ChainIds \cup PayloadIds
    <2>1. SUFFICES ASSUME NEW n \in 1 .. top, NEW id \in Range(chain'[n].deposits)
                   PROVE  id \in ChainIds \cup PayloadIds
      BY <1>2 DEF ChainIds
    <2>2. CASE n = top
      BY <1>2, <1>4, <2>1, <2>2
    <2>3. CASE n # top
      BY <1>2, <1>3, <2>1, <2>3 DEF ChainIds
    <2> QED
      BY <2>2, <2>3
  <1>6. MintedOnce'
    <2>1. SUFFICES ASSUME NEW m \in 1 .. top, NEW n \in 1 .. top,
                          NEW i \in DOMAIN chain'[m].deposits, NEW j \in DOMAIN chain'[n].deposits,
                          chain'[m].deposits[i] = chain'[n].deposits[j]
                   PROVE  m = n /\ i = j
      BY <1>2 DEF MintedOnce
    <2>2. CASE m = top /\ n = top
      BY <1>0, <1>2, <2>1, <2>2 DEF OrderInv, OnceThere, IsInjective
    <2>3. CASE m # top /\ n # top
      <3>1. m \in 1 .. LatestBlock /\ n \in 1 .. LatestBlock
        BY <1>3, <2>3
      <3> QED
        BY <1>2, <2>1, <3>1 DEF OrderInv, OnceThere, MintedOnce
    <2>4. ASSUME NEW k \in 1 .. LatestBlock, NEW a \in DOMAIN chain[k].deposits,
                 NEW b \in DOMAIN payload.deposits
          PROVE  chain[k].deposits[a] # payload.deposits[b]
      <3>1. chain[k].deposits[a] \in ChainIds
        BY DEF ChainIds, Range
      <3>2. payload.deposits[b] \in PayloadIds
        BY <1>4 DEF Range
      <3> QED
        BY <3>1, <3>2 DEF OrderInv, OnePlace
    <2>5. CASE m = top /\ n # top
      BY <1>2, <1>3, <2>1, <2>4, <2>5
    <2>6. CASE m # top /\ n = top
      BY <1>2, <1>3, <2>1, <2>4, <2>6
    <2> QED
      BY <2>2, <2>3, <2>5, <2>6
  <1> QED
    BY <1>5, <1>6 DEF ImportPayload

\* Without restarts a deposit stays in one place, and the watcher never returns to it
LEMMA PlacesKept ==
    ASSUME Uninterrupted, Inv, OrderInv, [Next]_vars
    PROVE  Passed' /\ OnePlace' /\ OnceThere'
  <1>0. Passed /\ OnePlace /\ OnceThere
    BY DEF OrderInv
  <1>1. CASE Still
    <2>1. LogIds' = LogIds /\ PayloadIds' = PayloadIds /\ ChainIds' = ChainIds
      BY <1>1, Zenon DEF Still, LogIds, PayloadIds, ChainIds, LatestBlock
    <2>2. Passed' /\ OnePlace'
      BY <1>0, <1>1, <2>1 DEF Still, Passed, OnePlace
    <2>3. OnceThere'
      BY <1>0, <1>1 DEF Still, OnceThere, MintedOnce, LatestBlock
    <2> QED
      BY <2>2, <2>3
  <1>2. CASE GetLogs
    <2>1. UNCHANGED <<pool, payload, chain>>
      BY <1>2 DEF GetLogs, WatcherUnchanged, l2
    <2>2. PayloadIds' = PayloadIds /\ ChainIds' = ChainIds
      BY <2>1 DEF PayloadIds, ChainIds, LatestBlock
    <2>3. \A id \in pool.deposits \cup PayloadIds \cup ChainIds : id \in Nat /\ id < watcher.last
      <3>1. \A id \in PayloadIds : id \in Nat
        BY IdFacts, RangeInSet DEF PayloadIds
      <3>2. \A id \in ChainIds : id \in Nat
        BY IdFacts, RangeInSet DEF ChainIds
      <3> QED
        BY <1>0, <3>1, <3>2, IdFacts DEF Passed
    <2>4. /\ \A id \in LogIds' : watcher.last <= id /\ id < watcher'.last
          /\ IsInjective(watcher'.logs)
          /\ watcher.last < watcher'.last /\ watcher'.last \in Nat /\ watcher.last \in Nat
      BY <1>2, EventsFresh, IdFacts
    <2>5. \A id \in pool.deposits \cup PayloadIds \cup ChainIds : id \notin LogIds' /\ id < watcher'.last
      BY <2>3, <2>4
    <2>6. Passed'
      BY <2>1, <2>2, <2>4, <2>5 DEF Passed
    <2>7. OnePlace'
      BY <1>0, <2>1, <2>2, <2>5 DEF OnePlace
    <2>8. OnceThere'
      BY <1>0, <2>1, <2>4 DEF OnceThere, MintedOnce, LatestBlock
    <2> QED
      BY <2>6, <2>7, <2>8
  <1>3. CASE AbandonLogs
    <2>1. watcher'.logs = <<>> /\ watcher'.last = watcher.last /\ UNCHANGED <<pool, payload, chain>>
      BY <1>3 DEF AbandonLogs, WatcherUnchanged, l2, Inv, TypeOK
    <2>2. LogIds' = {} /\ PayloadIds' = PayloadIds /\ ChainIds' = ChainIds
      BY <2>1, EmptySeq DEF LogIds, PayloadIds, ChainIds, LatestBlock, Range
    <2>3. Passed' /\ OnePlace'
      BY <1>0, <2>1, <2>2 DEF Passed, OnePlace
    <2>4. OnceThere'
      BY <1>0, <2>1, EmptySeq DEF OnceThere, MintedOnce, LatestBlock, IsInjective
    <2> QED
      BY <2>3, <2>4
  <1>4. CASE ProcessLog
    <2>1. PayloadIds' = PayloadIds /\ ChainIds' = ChainIds
      BY <1>4, LogDone DEF PayloadIds, ChainIds, LatestBlock
    <2>2. Passed'
      BY <1>0, <1>4, <2>1, LogDone DEF Passed
    <2>3. OnePlace'
      BY <1>0, <1>4, <2>1, LogDone DEF OnePlace
    <2>4. OnceThere'
      BY <1>0, <1>4, LogDone DEF OnceThere, MintedOnce, LatestBlock
    <2> QED
      BY <2>2, <2>3, <2>4
  <1>5. CASE BuildPayload
    <2>1. LogIds' = LogIds /\ ChainIds' = ChainIds
      BY <1>5, PayloadTakes DEF LogIds, ChainIds, LatestBlock
    <2>2. Passed'
      BY <1>0, <1>5, <2>1, PayloadTakes DEF Passed
    <2>3. OnePlace'
      BY <1>0, <1>5, <2>1, PayloadTakes DEF OnePlace
    <2>4. OnceThere'
      BY <1>0, <1>5, PayloadTakes DEF OnceThere, MintedOnce, LatestBlock
    <2> QED
      BY <2>2, <2>3, <2>4
  <1>6. CASE ImportPayload
    <2>1. LogIds' = LogIds /\ PayloadIds' = {}
      BY <1>6, ImportMoves DEF LogIds, PayloadIds
    <2>2. Passed'
      BY <1>0, <1>6, <2>1, ImportMoves DEF Passed
    <2>3. OnePlace'
      BY <1>0, <1>6, <2>1, ImportMoves DEF OnePlace
    <2>4. OnceThere'
      BY <1>0, <1>6, ImportMoves DEF OnceThere
    <2> QED
      BY <2>2, <2>3, <2>4
  <1>7. CASE ImportFails
    <2>1. payload' = None /\ UNCHANGED <<watcher, pool, chain>>
      BY <1>7 DEF ImportFails, l2
    <2>2. LogIds' = LogIds /\ PayloadIds' = {} /\ ChainIds' = ChainIds
      BY <2>1 DEF LogIds, PayloadIds, ChainIds, LatestBlock
    <2>3. Passed' /\ OnePlace'
      BY <1>0, <2>1, <2>2 DEF Passed, OnePlace
    <2>4. OnceThere'
      BY <1>0, <2>1 DEF OnceThere, MintedOnce, LatestBlock
    <2> QED
      BY <2>3, <2>4
  <1> QED
    BY <1>1, <1>2, <1>3, <1>4, <1>5, <1>6, <1>7, DepositMoves

-----------------------------------------------------------------------------
\* What it means to be the first of a queue, log by log
LEMMA PrefixFacts ==
    ASSUME NEW S, NEW q \in Seq(S), NEW d \in Seq(S)
    PROVE  (d # <<>> => Len(d) > 0 /\ Len(d) <= Len(q) /\ SubSeq(q, 1, Len(d)) = d)
             <=> Len(d) <= Len(q) /\ \A i \in 1 .. Len(d) : q[i] = d[i]
  <1>1. Len(d) \in Nat /\ Len(q) \in Nat /\ (d = <<>> <=> Len(d) = 0)
    BY EmptySeq, LenProperties
  <1>2. CASE d = <<>>
    BY <1>1, <1>2
  <1>3. CASE d # <<>> /\ Len(d) <= Len(q)
    <2>1. Len(d) > 0 /\ Len(d) \in 1 .. Len(q) + 1
      BY <1>1, <1>3
    <2>2. /\ SubSeq(q, 1, Len(d)) \in Seq(S)
          /\ Len(SubSeq(q, 1, Len(d))) = Len(d)
          /\ \A i \in 1 .. Len(d) : SubSeq(q, 1, Len(d))[i] = q[i]
      BY <1>1, <1>3, <2>1, SubSeqProperties
    <2>3. SubSeq(q, 1, Len(d)) = d <=> \A i \in 1 .. Len(d) : q[i] = d[i]
      BY <2>2, SeqEqual
    <2> QED
      BY <1>3, <2>1, <2>3
  <1> QED
    BY <1>2, <1>3

\* Blocks of the chain, and what they minted, are final
LEMMA BlocksKept ==
    ASSUME Inv, [Next]_vars
    PROVE  /\ LatestBlock \in Nat /\ LatestBlock' \in Nat /\ LatestBlock <= LatestBlock'
           /\ \A n \in 0 .. LatestBlock : BlockDeposits(n)' = BlockDeposits(n)
           /\ \A k \in 0 .. LatestBlock : MintedUpTo(k)' = MintedUpTo(k)
  <1>1. /\ LatestBlock \in Nat /\ LatestBlock' \in Nat /\ LatestBlock <= LatestBlock'
        /\ \A n \in 1 .. LatestBlock : chain'[n] = chain[n]
    BY ChainGrows, NumberFacts DEF Inv
  <1>2. \A n \in 0 .. LatestBlock : BlockDeposits(n)' = BlockDeposits(n)
    <2>1. SUFFICES ASSUME NEW n \in 0 .. LatestBlock PROVE BlockDeposits(n)' = BlockDeposits(n)
      OBVIOUS
    <2>2. n # 0 => n \in 1 .. LatestBlock
      BY <1>1
    <2> QED
      BY <1>1, <2>2 DEF BlockDeposits, L2Block
  <1>3. \A k \in 0 .. LatestBlock : MintedUpTo(k)' = MintedUpTo(k)
    <2>1. SUFFICES ASSUME NEW k \in 0 .. LatestBlock PROVE MintedUpTo(k)' = MintedUpTo(k)
      OBVIOUS
    <2>2. \A m \in 1 .. k : BlockDeposits(m)' = BlockDeposits(m)
      BY <1>1, <1>2
    <2> QED
      BY <2>2 DEF MintedUpTo
  <1> QED
    BY <1>1, <1>2, <1>3

\* The window of commitments is within the chain
LEMMA WindowFacts ==
    ASSUME Inv
    PROVE  /\ lastVerifiedBlock \in 0 .. LatestBlock
           /\ \A n \in lastVerifiedBlock + 1 .. lastCommittedBlock :
                 n \in 1 .. LatestBlock /\ n \in Numbers /\ blockCommitments[n] # None
  <1>1. /\ LatestBlock \in Nat /\ LatestBlock <= MaxBlocks /\ MaxBlocks \in Nat
        /\ lastVerifiedBlock \in Nat /\ lastCommittedBlock \in Int
    BY NumberFacts DEF Inv
  <1>2. lastVerifiedBlock <= LatestBlock
    BY <1>1 DEF Inv, Progress, NoneCommitted
  <1>3. \A n \in lastVerifiedBlock + 1 .. lastCommittedBlock :
           n \in 1 .. LatestBlock /\ n \in Numbers /\ n \in lastVerifiedBlock .. lastCommittedBlock
    BY <1>1, <1>2 DEF Inv, Progress, NoneCommitted, Numbers
  <1> QED
    BY <1>1, <1>2, <1>3 DEF Inv, CommitmentWindow

\* Commitments keep to the blocks they were made of
LEMMA CommitmentsKept ==
    ASSUME Inv, OrderInv, [Next]_vars
    PROVE  CommitmentsOK'
  <1>0. /\ LatestBlock \in Nat /\ LatestBlock' \in Nat /\ LatestBlock <= LatestBlock'
        /\ \A n \in 0 .. LatestBlock : BlockDeposits(n)' = BlockDeposits(n)
    BY BlocksKept
  <1>1. Numbers \subseteq Nat /\ blockCommitments \in [Numbers -> Seq(Ids) \cup {None}]
    BY ContractsAssumption DEF Numbers, Inv, TypeOK, ContractsTypeOK
  <1>2. ASSUME NEW n \in Numbers, blockCommitments'[n] # None,
               blockCommitments'[n] = blockCommitments[n]
                 \/ (n <= LatestBlock /\ blockCommitments'[n] = BlockDeposits(n))
        PROVE  n <= LatestBlock' /\ blockCommitments'[n] = BlockDeposits(n)'
    <2>1. n <= LatestBlock /\ blockCommitments'[n] = BlockDeposits(n)
      BY <1>2 DEF OrderInv, CommitmentsOK
    <2>2. n \in 0 .. LatestBlock
      BY <1>0, <1>1, <2>1
    <2> QED
      BY <1>0, <1>1, <2>1, <2>2
  <1>3. ASSUME NEW n \in Numbers, blockCommitments'[n] # None
        PROVE  blockCommitments'[n] = blockCommitments[n]
                 \/ (n <= LatestBlock /\ blockCommitments'[n] = BlockDeposits(n))
    <2>1. CASE Deposit \/ (\E w \in Withdrawals, k \in Numbers : ClaimWithdrawal(w, k)) \/ UNCHANGED contracts
      BY <2>1 DEF Deposit, ClaimWithdrawal, contracts, proposer
    <2>2. ASSUME NEW k \in Numbers, k <= LatestBlock, Commit(k, BlockWithdrawals(k), BlockDeposits(k))
          PROVE  blockCommitments'[n] = blockCommitments[n]
                   \/ (n <= LatestBlock /\ blockCommitments'[n] = BlockDeposits(n))
      BY <1>1, <2>2 DEF Commit
    <2>3. ASSUME NEW k \in Numbers, Verify(k)
          PROVE  blockCommitments'[n] = blockCommitments[n]
      BY <1>1, <1>3, <2>3 DEF Verify
    <2> QED
      BY <2>1, <2>2, <2>3, ContractsMove
  <1> QED
    BY <1>2, <1>3 DEF CommitmentsOK

\* Being first in the queue, log by log
LEMMA FirstFacts ==
    ASSUME Inv
    PROVE  \A d \in Seq(Ids) :
              AreFirst(d) <=> /\ Len(d) <= Len(depositLogs)
                              /\ \A i \in 1 .. Len(d) : depositLogs[i] = d[i]
  <1>1. depositLogs \in Seq(Ids)
    BY DEF Inv, TypeOK, ContractsTypeOK
  <1> QED
    BY <1>1, PrefixFacts DEF AreFirst, HasDepositLogs, GetDepositLogs

\* A new deposit goes to the end of the queue
LEMMA DepositQueued ==
    ASSUME Inv, OrderInv, [Next]_vars, Deposit
    PROVE  CommittedDepositsFirst' /\ RemovedWereMinted'
  <1>0. Inv'
    BY NextInv
  <1>1. /\ depositLogs \in Seq(Ids) /\ depositId \in Ids
        /\ depositLogs' = Append(depositLogs, depositId) /\ depositId' = depositId + 1
        /\ UNCHANGED <<lastVerifiedBlock, lastCommittedBlock>>
    BY ContractsAssumption DEF Deposit, proposer, Ids, Inv, TypeOK, ContractsTypeOK
  <1>2. /\ Len(depositLogs) \in Nat /\ Len(depositLogs') = Len(depositLogs) + 1
        /\ \A i \in 1 .. Len(depositLogs) : depositLogs'[i] = depositLogs[i]
        /\ depositLogs'[Len(depositLogs) + 1] = depositId
    BY <1>1, AppendProperties, LenProperties
  <1>3. CommittedDepositsFirst'
    <2>1. SUFFICES ASSUME NEW n \in lastVerifiedBlock + 1 .. lastCommittedBlock
                   PROVE  AreFirst(BlockDeposits(n))'
      BY <1>1 DEF CommittedDepositsFirst
    <2>2. n \in 0 .. LatestBlock
      BY WindowFacts
    <2>3. BlockDeposits(n)' = BlockDeposits(n) /\ BlockDeposits(n) \in Seq(Ids)
      BY <2>2, BlocksKept, L2BlockType DEF Inv
    <2>4. AreFirst(BlockDeposits(n))
      BY DEF OrderInv, CommittedDepositsFirst
    <2>5. /\ Len(BlockDeposits(n)) <= Len(depositLogs)
          /\ \A i \in 1 .. Len(BlockDeposits(n)) : depositLogs[i] = BlockDeposits(n)[i]
      BY <2>3, <2>4, FirstFacts
    <2>6. Len(BlockDeposits(n)) \in Nat
      BY <2>3, LenProperties
    <2>7. /\ Len(BlockDeposits(n)) <= Len(depositLogs')
          /\ \A i \in 1 .. Len(BlockDeposits(n)) : depositLogs'[i] = BlockDeposits(n)[i]
      BY <1>2, <2>5, <2>6
    <2>8. AreFirst(BlockDeposits(n))'
      <3>1. \A d \in Seq(Ids) :
               AreFirst(d)' <=> /\ Len(d) <= Len(depositLogs')
                                /\ \A i \in 1 .. Len(d) : depositLogs'[i] = d[i]
        <4>1. depositLogs' \in Seq(Ids)
          BY <1>0 DEF Inv, TypeOK, ContractsTypeOK
        <4> QED
          BY <4>1, PrefixFacts DEF AreFirst, HasDepositLogs, GetDepositLogs
      <3> QED
        BY <2>3, <2>7, <3>1 DEF AreFirst, HasDepositLogs, GetDepositLogs
    <2> QED
      BY <2>8
  <1>4. RemovedWereMinted'
    <2>1. SUFFICES ASSUME NEW id \in 0 .. depositId
                   PROVE  id \in Range(depositLogs') \/ id \in MintedUpTo(lastVerifiedBlock)'
      BY <1>1, ContractsAssumption DEF RemovedWereMinted, Ids
    <2>2. DOMAIN depositLogs = 1 .. Len(depositLogs) /\ DOMAIN depositLogs' = 1 .. Len(depositLogs) + 1
      <3>1. depositLogs' \in Seq(Ids)
        BY <1>1, AppendProperties
      <3> QED
        BY <1>1, <1>2, <3>1, LenProperties
    <2>3. CASE id = depositId
      BY <1>2, <2>2, <2>3 DEF Range
    <2>4. CASE id # depositId
      <3>1. id \in 0 .. depositId - 1
        BY <1>1, <2>4, ContractsAssumption DEF Ids
      <3>2. id \in Range(depositLogs) \/ id \in MintedUpTo(lastVerifiedBlock)
        BY <3>1 DEF OrderInv, RemovedWereMinted
      <3>3. id \in Range(depositLogs) => id \in Range(depositLogs')
        BY <1>2, <2>2 DEF Range
      <3>4. MintedUpTo(lastVerifiedBlock)' = MintedUpTo(lastVerifiedBlock)
        BY <1>1, BlocksKept, WindowFacts
      <3> QED
        BY <3>2, <3>3, <3>4
    <2> QED
      BY <2>3, <2>4
  <1> QED
    BY <1>3, <1>4

\* The first of a queue stay its first when the queue is unchanged
LEMMA FirstKept ==
    ASSUME Inv, OrderInv, [Next]_vars, UNCHANGED depositLogs,
           NEW n \in lastVerifiedBlock + 1 .. lastCommittedBlock
    PROVE  AreFirst(BlockDeposits(n))'
  <1>1. BlockDeposits(n)' = BlockDeposits(n)
    BY WindowFacts, BlocksKept
  <1>2. AreFirst(BlockDeposits(n))
    BY DEF OrderInv, CommittedDepositsFirst
  <1> QED
    BY <1>1, <1>2 DEF AreFirst, HasDepositLogs, GetDepositLogs

\* Neither a claim nor a commit removes a deposit
LEMMA RemovedKept ==
    ASSUME Inv, OrderInv, [Next]_vars, UNCHANGED <<depositLogs, depositId, lastVerifiedBlock>>
    PROVE  RemovedWereMinted'
  <1>1. MintedUpTo(lastVerifiedBlock)' = MintedUpTo(lastVerifiedBlock)
    BY BlocksKept, WindowFacts
  <1> QED
    BY <1>1 DEF OrderInv, RemovedWereMinted

\* commit compares the deposits of the block with the queue
LEMMA CommitQueue ==
    ASSUME Inv, OrderInv, [Next]_vars, NEW k \in Numbers, k <= LatestBlock,
           Commit(k, BlockWithdrawals(k), BlockDeposits(k))
    PROVE  CommittedDepositsFirst' /\ RemovedWereMinted'
  <1>1. /\ UNCHANGED <<depositLogs, depositId, lastVerifiedBlock>>
        /\ k = lastCommittedBlock + 1 /\ lastCommittedBlock' = k /\ AreFirst(BlockDeposits(k))
    BY DEF Commit, CommitRequires
  <1>2. CommittedDepositsFirst'
    <2>1. SUFFICES ASSUME NEW n \in lastVerifiedBlock + 1 .. k
                   PROVE  AreFirst(BlockDeposits(n))'
      BY <1>1 DEF CommittedDepositsFirst
    <2>2. CASE n = k
      <3>1. k \in 0 .. LatestBlock
        BY NumberFacts DEF Inv, Numbers
      <3>2. BlockDeposits(n)' = BlockDeposits(k)
        BY <2>2, <3>1, BlocksKept
      <3> QED
        BY <1>1, <3>2 DEF AreFirst, HasDepositLogs, GetDepositLogs
    <2>3. CASE n # k
      <3>1. n \in lastVerifiedBlock + 1 .. lastCommittedBlock
        BY <1>1, <2>3, NumberFacts DEF Inv
      <3> QED
        BY <1>1, <3>1, FirstKept
    <2> QED
      BY <2>2, <2>3
  <1> QED
    BY <1>1, <1>2, RemovedKept

\* verify removes the deposits of the block, which no other block has
LEMMA VerifyQueue ==
    ASSUME Inv, OrderInv, [Next]_vars, NEW n \in Numbers, Verify(n)
    PROVE  CommittedDepositsFirst' /\ RemovedWereMinted'
  <1> DEFINE d == BlockDeposits(n)
  <1>1. /\ n = lastVerifiedBlock + 1 /\ n <= lastCommittedBlock /\ VerifyRequires(n)
        /\ lastVerifiedBlock' = n /\ UNCHANGED <<depositId, lastCommittedBlock>>
        /\ depositLogs' = DepositLogsAfter(Len(blockCommitments[n]))
    BY VerifiesCommitted DEF Verify
  <1>2. lastVerifiedBlock \in Nat /\ lastCommittedBlock \in Int /\ LatestBlock \in Nat
    BY NumberFacts DEF Inv
  <1>3. n \in lastVerifiedBlock + 1 .. lastCommittedBlock /\ n \in 1 .. LatestBlock
    <2>1. n \in lastVerifiedBlock + 1 .. lastCommittedBlock
      BY <1>1, <1>2
    <2> QED
      BY <2>1, WindowFacts
  <1>4. blockCommitments[n] = d
    BY <1>1 DEF OrderInv, CommitmentsOK, VerifyRequires
  <1>5. depositLogs \in Seq(Ids) /\ d \in Seq(Ids)
    <2>1. n \in 0 .. LatestBlock
      BY <1>2, <1>3
    <2>2. depositLogs \in Seq(Ids)
      BY DEF Inv, TypeOK, ContractsTypeOK
    <2> QED
      BY <2>1, <2>2, L2BlockType DEF Inv
  <1>6. /\ Len(d) \in Nat /\ Len(depositLogs) \in Nat /\ Len(d) <= Len(depositLogs)
        /\ \A i \in 1 .. Len(d) : depositLogs[i] = d[i]
    <2>1. AreFirst(d)
      BY <1>3 DEF OrderInv, CommittedDepositsFirst
    <2> QED
      BY <1>5, <2>1, FirstFacts, LenProperties
  <1>7. /\ depositLogs' \in Seq(Ids) /\ Len(depositLogs') = Len(depositLogs) - Len(d)
        /\ \A i \in 1 .. Len(depositLogs) - Len(d) : depositLogs'[i] = depositLogs[Len(d) + i]
    <2>1. depositLogs' = SubSeq(depositLogs, Len(d) + 1, Len(depositLogs))
      BY <1>1, <1>4 DEF DepositLogsAfter
    <2>2. \A i \in Len(d) + 1 .. Len(depositLogs) : depositLogs[i] \in Ids
      BY <1>5, <1>6, ElementOfSeq
    <2>3. /\ SubSeq(depositLogs, Len(d) + 1, Len(depositLogs)) \in Seq(Ids)
          /\ Len(SubSeq(depositLogs, Len(d) + 1, Len(depositLogs)))
               = IF Len(d) + 1 <= Len(depositLogs) THEN Len(depositLogs) - (Len(d) + 1) + 1 ELSE 0
          /\ \A i \in 1 .. Len(depositLogs) - (Len(d) + 1) + 1 :
                SubSeq(depositLogs, Len(d) + 1, Len(depositLogs))[i] = depositLogs[Len(d) + 1 + i - 1]
      <3>1. Len(d) + 1 \in Int /\ Len(depositLogs) \in Int
        BY <1>6
      <3> QED
        BY <2>2, <3>1, SubSeqProperties
    <2> QED
      BY <1>6, <2>1, <2>3
  <1>8. CommittedDepositsFirst'
    <2>1. SUFFICES ASSUME NEW m \in n + 1 .. lastCommittedBlock PROVE AreFirst(BlockDeposits(m))'
      BY <1>1 DEF CommittedDepositsFirst
    <2>2. m \in lastVerifiedBlock + 1 .. lastCommittedBlock /\ m # n
      BY <1>1, <1>2
    <2>3. m \in 1 .. LatestBlock
      BY <2>2, WindowFacts
    <2>4. CASE d = <<>>
      <3>1. Len(d) = 0
        BY <2>4, EmptySeq
      <3>2. depositLogs' = depositLogs
        BY <1>5, <1>6, <1>7, <3>1, SeqEqual
      <3> QED
        BY <2>2, <3>2, FirstKept
    <2>5. CASE d # <<>>
      <3>1. BlockDeposits(m)' = BlockDeposits(m) /\ BlockDeposits(m) \in Seq(Ids)
        BY <1>2, <2>3, BlocksKept, L2BlockType DEF Inv
      <3>2. ASSUME BlockDeposits(m) # <<>> PROVE FALSE
        <4>1. AreFirst(BlockDeposits(m))
          BY <2>2 DEF OrderInv, CommittedDepositsFirst
        <4>2. Len(d) \in Nat \ {0} /\ Len(BlockDeposits(m)) \in Nat \ {0}
          BY <1>5, <2>5, <3>1, <3>2, EmptySeq
        <4>3. d[1] = BlockDeposits(m)[1]
          BY <1>6, <3>1, <4>1, <4>2, FirstFacts
        <4>4. 1 \in DOMAIN d /\ 1 \in DOMAIN BlockDeposits(m)
          BY <1>5, <3>1, <4>2, LenProperties
        <4>5. d = chain[n].deposits /\ BlockDeposits(m) = chain[m].deposits
          BY <1>3, <2>3 DEF BlockDeposits, L2Block
        <4> QED
          BY <1>3, <2>2, <2>3, <4>3, <4>4, <4>5 DEF OrderInv, OnceThere, MintedOnce
      <3> QED
        BY <3>1, <3>2 DEF AreFirst
    <2> QED
      BY <2>4, <2>5
  <1>9. RemovedWereMinted'
    <2>1. SUFFICES ASSUME NEW id \in 0 .. depositId - 1
                   PROVE  id \in Range(depositLogs') \/ id \in MintedUpTo(n)
      <3>1. n \in 0 .. LatestBlock
        BY <1>2, <1>3
      <3>2. MintedUpTo(lastVerifiedBlock)' = MintedUpTo(n)
        BY Zenon, <1>1, <3>1, BlocksKept DEF MintedUpTo
      <3> QED
        BY <1>1, <3>2 DEF RemovedWereMinted
    <2>2. DOMAIN depositLogs' = 1 .. Len(depositLogs) - Len(d)
      BY <1>7, LenProperties
    <2>3. id \in MintedUpTo(lastVerifiedBlock) => id \in MintedUpTo(n)
      <3>1. 1 .. lastVerifiedBlock \subseteq 1 .. n
        BY <1>1, <1>2
      <3> QED
        BY <3>1 DEF MintedUpTo
    <2>4. ASSUME id \in Range(depositLogs) PROVE id \in Range(depositLogs') \/ id \in MintedUpTo(n)
      <3>1. PICK i \in 1 .. Len(depositLogs) : id = depositLogs[i]
        BY <1>5, <2>4, LenProperties DEF Range
      <3>2. CASE i <= Len(d)
        <4>1. i \in DOMAIN d /\ id = d[i]
          BY <1>5, <1>6, <3>1, <3>2, LenProperties
        <4>2. n \in 1 .. n
          BY <1>1, <1>2
        <4> QED
          BY <4>1, <4>2 DEF MintedUpTo, Range
      <3>3. CASE i > Len(d)
        <4>1. i - Len(d) \in 1 .. Len(depositLogs) - Len(d) /\ Len(d) + (i - Len(d)) = i
          BY <1>6, <3>3
        <4>2. id = depositLogs'[i - Len(d)]
          BY <1>7, <3>1, <4>1
        <4> QED
          BY <2>2, <4>1, <4>2 DEF Range
      <3> QED
        BY <1>6, <3>2, <3>3
    <2> QED
      BY <2>3, <2>4 DEF OrderInv, RemovedWereMinted
  <1> QED
    BY <1>8, <1>9

LEMMA OrderNext ==
    ASSUME Uninterrupted, Inv, OrderInv, [Next]_vars
    PROVE  OrderInv'
  <1>1. CommittedDepositsFirst' /\ RemovedWereMinted'
    <2>1. ASSUME UNCHANGED <<depositLogs, depositId, lastVerifiedBlock, lastCommittedBlock>>
          PROVE  CommittedDepositsFirst' /\ RemovedWereMinted'
      BY <2>1, FirstKept, RemovedKept DEF CommittedDepositsFirst
    <2>2. CASE (\E w \in Withdrawals, n \in Numbers : ClaimWithdrawal(w, n)) \/ UNCHANGED contracts
      BY <2>1, <2>2, Zenon DEF ClaimWithdrawal, contracts, bridge, proposer
    <2> QED
      BY <2>2, ContractsMove, DepositQueued, CommitQueue, VerifyQueue
  <1>2. Passed' /\ OnePlace' /\ OnceThere'
    BY PlacesKept
  <1>3. CommitmentsOK'
    BY CommitmentsKept
  <1> QED
    BY <1>1, <1>2, <1>3 DEF OrderInv

\* The order of the deposits holds as long as the sequencer is not restarted
THEOREM OrderHolds ==
    ASSUME Uninterrupted
    PROVE  Spec => []OrderInv
  <1>1. Spec => []Inv
    BY InvHolds
  <1>2. Inv /\ OrderInv /\ [Next]_vars => OrderInv'
    BY OrderNext
  <1> QED
    BY <1>1, <1>2, OrderInit, PTL DEF Spec

\* Without a restart no deposit is minted twice, for any number of deposits and blocks,
\* whatever requests fail and whatever the mempool or the import refuses
THEOREM MintsHold ==
    ASSUME Uninterrupted
    PROVE  Spec => []MintedOnce
  <1>1. OrderInv => MintedOnce
    BY DEF OrderInv, OnceThere
  <1> QED
    BY <1>1, OrderHolds, PTL

\* Without a restart the deposits of a committed block head the bridge's queue until the block
\* is verified, so removeDepositLogs never reverts
THEOREM CommittedFirst ==
    ASSUME Uninterrupted
    PROVE  Spec => []CommittedDepositsFirst
  <1>1. OrderInv => CommittedDepositsFirst
    BY DEF OrderInv
  <1> QED
    BY <1>1, OrderHolds, PTL

\* Without a restart removeDepositLogs removes only deposits that a verified block minted
THEOREM RemovedMinted ==
    ASSUME Uninterrupted
    PROVE  Spec => []RemovedWereMinted
  <1>1. OrderInv => RemovedWereMinted
    BY DEF OrderInv
  <1> QED
    BY <1>1, OrderHolds, PTL


\* Without a restart the bridge's queue and the L2 stay in step
THEOREM QueueInStep ==
    ASSUME Uninterrupted
    PROVE  Spec => []DepositsInOrder
  <1>1. OrderInv => DepositsInOrder
    BY DEF OrderInv, DepositsInOrder
  <1> QED
    BY <1>1, OrderHolds, PTL

-----------------------------------------------------------------------------
(* The balance of the bridge *)

MintLists == [n \in 1 .. LatestBlock |-> chain[n].deposits]
BurnLists == [n \in 1 .. LatestBlock |-> chain[n].withdrawals]

\* What Count counts
Places(lists) == UNION {{n} \X DOMAIN lists[n] : n \in DOMAIN lists}

\* The bridge holds what was deposited and not claimed; the chain burns no more
\* than it mints, with the payload and without it; the watcher is not ahead of L1
SolventInv ==
    /\ watcher.last <= depositId
    /\ IsFiniteSet(claimedWithdrawals)
    /\ balance + Cardinality(claimedWithdrawals) = depositId
    /\ IsFiniteSet(Places(MintLists)) /\ IsFiniteSet(Places(BurnLists))
    /\ Burned <= Minted
    /\ payload # None => Burned + Len(payload.withdrawals) <= Minted + Len(payload.deposits)

\* Minted and Burned count the places of the lists
LEMMA CountsPlaces ==
    Minted = Cardinality(Places(MintLists)) /\ Burned = Cardinality(Places(BurnLists))
  BY DEF Minted, Burned, Count, Places, MintLists, BurnLists

\* One more list adds its length to the count
LEMMA CountAppend ==
    ASSUME NEW l \in Nat, NEW k \in Nat, NEW D, NEW E,
           DOMAIN D = 1 .. l, DOMAIN E = 1 .. l + 1, \A n \in 1 .. l : E[n] = D[n],
           DOMAIN E[l + 1] = 1 .. k, IsFiniteSet(Places(D))
    PROVE  /\ IsFiniteSet(Places(E))
           /\ Cardinality(Places(E)) = Cardinality(Places(D)) + k
  <1> DEFINE new == {l + 1} \X (1 .. k)
  <1>1. Places(E) = Places(D) \cup new
    <2>1. ASSUME NEW x \in Places(E) PROVE x \in Places(D) \cup new
      <3>1. PICK n \in 1 .. l + 1 : x \in {n} \X DOMAIN E[n]
        BY <2>1 DEF Places
      <3>2. CASE n = l + 1
        BY <3>1, <3>2
      <3>3. CASE n # l + 1
        <4>1. n \in 1 .. l
          BY <3>3
        <4> QED
          BY <3>1, <4>1 DEF Places
      <3> QED
        BY <3>2, <3>3
    <2>2. ASSUME NEW x \in Places(D) PROVE x \in Places(E)
      <3>1. PICK n \in 1 .. l : x \in {n} \X DOMAIN D[n]
        BY <2>2 DEF Places
      <3>2. n \in 1 .. l + 1
        OBVIOUS
      <3> QED
        BY <3>1, <3>2 DEF Places
    <2>3. ASSUME NEW x \in new PROVE x \in Places(E)
      <3>1. l + 1 \in 1 .. l + 1
        OBVIOUS
      <3> QED
        BY <2>3, <3>1 DEF Places
    <2> QED
      BY <2>1, <2>2, <2>3
  <1>2. Places(D) \cap new = {}
    <2>1. ASSUME NEW x \in Places(D) PROVE x[1] # l + 1
      <3>1. PICK n \in 1 .. l : x \in {n} \X DOMAIN D[n]
        BY <2>1 DEF Places
      <3> QED
        BY <3>1
    <2>2. \A x \in new : x[1] = l + 1
      OBVIOUS
    <2> QED
      BY <2>1, <2>2, Zenon
  <1>3. IsFiniteSet(new) /\ Cardinality(new) = k
    <2>1. IsFiniteSet({l + 1}) /\ Cardinality({l + 1}) = 1
      BY Zenon, FS_Singleton
    <2>2. IsFiniteSet(1 .. k) /\ Cardinality(1 .. k) = k
      <3>1. 1 \in Int /\ k \in Int
        OBVIOUS
      <3>2. Cardinality(1 .. k) = IF 1 > k THEN 0 ELSE k - 1 + 1
        BY <3>1, FS_Interval
      <3> QED
        BY <3>1, <3>2, FS_Interval
    <2>3. IsFiniteSet(new) /\ Cardinality(new) = Cardinality({l + 1}) * Cardinality(1 .. k)
      BY <2>1, <2>2, FS_Product, Zenon
    <2>4. Cardinality(new) = 1 * k
      BY <2>1, <2>2, <2>3, Zenon
    <2> HIDE DEF new
    <2> QED
      BY <2>3, <2>4
  <1> HIDE DEF new
  <1>4. /\ IsFiniteSet(Places(D) \cup new)
        /\ Cardinality(Places(D) \cup new)
             = Cardinality(Places(D)) + Cardinality(new) - Cardinality(Places(D) \cap new)
    BY <1>3, FS_Union
  <1>5. Cardinality(Places(D) \cap new) = 0 /\ Cardinality(Places(D)) \in Nat
    BY <1>2, FS_EmptySet, FS_CardinalityType
  <1> QED
    BY <1>1, <1>3, <1>4, <1>5

\* No more is minted than was deposited
LEMMA MintedDeposited ==
    ASSUME Inv, OrderInv, SolventInv
    PROVE  Minted <= depositId
  <1> DEFINE P == Places(MintLists)
             f == [x \in P |-> chain[x[1]].deposits[x[2]]]
  <1>0. depositId \in Nat /\ watcher.last \in Nat
    BY IdFacts, ContractsAssumption DEF Inv, TypeOK, ContractsTypeOK
  <1>1. ASSUME NEW x \in P
        PROVE  /\ x = <<x[1], x[2]>> /\ x[1] \in 1 .. LatestBlock
               /\ x[2] \in DOMAIN chain[x[1]].deposits
    BY DEF Places, MintLists
  <1>2. ASSUME NEW x \in P PROVE f[x] \in 0 .. depositId - 1
    <2>1. f[x] \in ChainIds
      BY <1>1 DEF ChainIds, Range
    <2>2. f[x] \in Nat
      <3>1. chain[x[1]].deposits \in Seq(Ids) /\ Ids \subseteq Nat
        BY <1>1, IdFacts
      <3>2. chain[x[1]].deposits[x[2]] \in Ids
        BY <1>1, <3>1, ElementOfSeq, LenProperties
      <3> QED
        BY Zenon, <3>1, <3>2
    <2>3. f[x] < watcher.last
      BY <2>1 DEF OrderInv, Passed
    <2> HIDE DEF f
    <2> QED
      BY <1>0, <2>2, <2>3 DEF SolventInv
  <1>3. ASSUME NEW x \in P, NEW y \in P, f[x] = f[y] PROVE x = y
    <2>1. x[1] = y[1] /\ x[2] = y[2]
      BY <1>1, <1>3 DEF OrderInv, OnceThere, MintedOnce
    <2> QED
      BY <1>1, <2>1
  <1>4. f \in Injection(P, 0 .. depositId - 1)
    BY <1>2, <1>3 DEF Injection, IsInjective
  <1>5. 0 \in Int /\ depositId - 1 \in Int
    BY <1>0
  <1>6. IsFiniteSet(0 .. depositId - 1) /\ Cardinality(0 .. depositId - 1) = depositId
    <2>1. /\ IsFiniteSet(0 .. depositId - 1)
          /\ Cardinality(0 .. depositId - 1)
               = IF 0 > depositId - 1 THEN 0 ELSE (depositId - 1) - 0 + 1
      BY <1>5, FS_Interval
    <2> QED
      BY <1>0, <2>1
  <1>7. Cardinality(P) <= Cardinality(0 .. depositId - 1)
    <2> HIDE DEF P, f
    <2> QED
      BY <1>4, <1>6, FS_Injection
  <1> QED
    BY <1>6, <1>7, CountsPlaces

\* Each withdrawal of the chain was burned for
LEMMA IncludedBurned ==
    ASSUME Inv, SolventInv
    PROVE  IsFiniteSet(Included) /\ Cardinality(Included) <= Burned
  <1> DEFINE P == Places(BurnLists)
             f == [x \in P |-> chain[x[1]].withdrawals[x[2]]]
  <1>0. \A n \in 1 .. LatestBlock : BlockWithdrawals(n) = chain[n].withdrawals
    BY DEF BlockWithdrawals, L2Block
  <1>1. ASSUME NEW x \in P PROVE f[x] \in Included
    <2>1. x[1] \in 1 .. LatestBlock /\ x[2] \in DOMAIN chain[x[1]].withdrawals
      BY DEF Places, BurnLists
    <2> QED
      BY <1>0, <2>1 DEF Included, Range
  <1>2. ASSUME NEW w \in Included PROVE \E x \in P : f[x] = w
    <2>1. PICK n \in 1 .. LatestBlock : w \in Range(chain[n].withdrawals)
      BY <1>0, <1>2 DEF Included
    <2>2. PICK i \in DOMAIN chain[n].withdrawals : w = chain[n].withdrawals[i]
      BY <2>1 DEF Range
    <2>3. <<n, i>> \in P
      BY <2>1, <2>2 DEF Places, BurnLists
    <2> QED
      BY <2>2, <2>3
  <1>3. f \in Surjection(P, Included)
    BY <1>1, <1>2 DEF Surjection
  <1>4. IsFiniteSet(P)
    BY DEF SolventInv
  <1>5. IsFiniteSet(Included) /\ Cardinality(Included) <= Cardinality(P)
    <2> HIDE DEF P, f
    <2> QED
      BY <1>3, <1>4, FS_Surjection
  <1> QED
    BY <1>5, CountsPlaces

\* The balance follows the deposits and the claims, the watcher the deposits
LEMMA LedgerKept ==
    ASSUME Uninterrupted, Inv, OrderInv, SolventInv, [Next]_vars
    PROVE  /\ watcher'.last <= depositId'
           /\ IsFiniteSet(claimedWithdrawals')
           /\ balance' + Cardinality(claimedWithdrawals') = depositId'
  <1>0. /\ depositId \in Nat /\ balance \in Nat /\ watcher.last \in Nat
        /\ IsFiniteSet(claimedWithdrawals) /\ Cardinality(claimedWithdrawals) \in Nat
        /\ balance + Cardinality(claimedWithdrawals) = depositId /\ watcher.last <= depositId
    BY IdFacts, FS_CardinalityType, ContractsAssumption
    DEF Inv, TypeOK, ContractsTypeOK, SolventInv
  <1>1. /\ IsFiniteSet(claimedWithdrawals')
        /\ balance' + Cardinality(claimedWithdrawals') = depositId'
        /\ depositId' \in Nat /\ depositId <= depositId'
    <2>1. CASE Deposit
      <3>1. /\ claimedWithdrawals' = claimedWithdrawals
            /\ balance' = balance + 1 /\ depositId' = depositId + 1
        BY <2>1 DEF Deposit
      <3>2. /\ IsFiniteSet(claimedWithdrawals')
            /\ Cardinality(claimedWithdrawals') = Cardinality(claimedWithdrawals)
        BY <1>0, <3>1, Zenon
      <3>3. balance' + Cardinality(claimedWithdrawals')
              = (balance + 1) + Cardinality(claimedWithdrawals)
        BY <3>1, <3>2, Zenon
      <3>4. depositId' \in Nat /\ depositId <= depositId'
        BY <1>0, <3>1
      <3>5. (balance + 1) + Cardinality(claimedWithdrawals) = depositId + 1
        <4>1. \A a, b, c \in Nat : a + b = c => (a + 1) + b = c + 1
          OBVIOUS
        <4> QED
          BY <1>0, <4>1, Zenon
      <3> QED
        BY <3>1, <3>2, <3>3, <3>4, <3>5, Zenon
    <2>2. ASSUME NEW w \in Withdrawals, NEW n \in Numbers, ClaimWithdrawal(w, n)
          PROVE  /\ IsFiniteSet(claimedWithdrawals')
                 /\ balance' + Cardinality(claimedWithdrawals') = depositId'
                 /\ depositId' \in Nat /\ depositId <= depositId'
      <3>1. /\ claimedWithdrawals' = claimedWithdrawals \cup {w} /\ w \notin claimedWithdrawals
            /\ balance' = balance - 1 /\ depositId' = depositId
        BY <2>2 DEF ClaimWithdrawal, ClaimRequires
      <3>2. /\ IsFiniteSet(claimedWithdrawals')
            /\ Cardinality(claimedWithdrawals') = Cardinality(claimedWithdrawals) + 1
        BY <1>0, <3>1, FS_AddElement
      <3> QED
        BY <1>0, <3>1, <3>2
    <2>3. ASSUME UNCHANGED <<claimedWithdrawals, balance, depositId>>
          PROVE  /\ IsFiniteSet(claimedWithdrawals')
                 /\ balance' + Cardinality(claimedWithdrawals') = depositId'
                 /\ depositId' \in Nat /\ depositId <= depositId'
      BY <1>0, <2>3
    <2>4. CASE \/ \E n \in Numbers : Commit(n, BlockWithdrawals(n), BlockDeposits(n))
               \/ \E n \in Numbers : Verify(n)
               \/ UNCHANGED contracts
      <3>1. UNCHANGED <<claimedWithdrawals, balance, depositId>>
        BY <2>4, Zenon DEF Commit, Verify, contracts, bridge
      <3> QED
        BY <2>3, <3>1
    <2> QED
      BY <2>1, <2>2, <2>4, ContractsMove
  <1>2. watcher'.last = watcher.last \/ watcher'.last <= depositId
    <2>1. CASE GetLogs
      <3>1. watcher'.last = NewLastBlock
        BY <2>1 DEF GetLogs, Inv, TypeOK
      <3>2. NewLastBlock <= depositId
        BY <1>0, ProposerAssumption DEF NewLastBlock, Least
      <3> QED
        BY <3>1, <3>2
    <2>2. CASE AbandonLogs
      BY <2>2 DEF AbandonLogs, Inv, TypeOK
    <2>3. CASE ProcessLog
      BY <2>3, LogDone
    <2>4. CASE BuildPayload \/ ImportPayload \/ ImportFails
      BY <2>4, Zenon DEF BuildPayload, ImportPayload, ImportFails
    <2> QED
      BY <2>1, <2>2, <2>3, <2>4, DepositMoves DEF Still
  <1>3. watcher'.last \in Nat
    BY WatcherType, ContractsAssumption DEF WatcherTypeOK
  <1> QED
    BY <1>0, <1>1, <1>2, <1>3

\* The payload and the chain burn no more than they mint
LEMMA CoveredKept ==
    ASSUME Uninterrupted, Inv, OrderInv, SolventInv, [Next]_vars
    PROVE  /\ IsFiniteSet(Places(MintLists)') /\ IsFiniteSet(Places(BurnLists)')
           /\ Burned' <= Minted'
           /\ payload' # None =>
                 Burned' + Len(payload'.withdrawals) <= Minted' + Len(payload'.deposits)
  <1>0. /\ IsFiniteSet(Places(MintLists)) /\ IsFiniteSet(Places(BurnLists))
        /\ Minted = Cardinality(Places(MintLists)) /\ Burned = Cardinality(Places(BurnLists))
        /\ Burned <= Minted
    BY CountsPlaces DEF SolventInv
  <1>1. Minted \in Nat /\ Burned \in Nat
    BY <1>0, FS_CardinalityType
  <1>2. ASSUME chain' = chain
        PROVE  /\ IsFiniteSet(Places(MintLists)') /\ IsFiniteSet(Places(BurnLists)')
               /\ Burned' = Burned /\ Minted' = Minted
    <2>1. MintLists' = MintLists /\ BurnLists' = BurnLists
      BY <1>2 DEF MintLists, BurnLists, LatestBlock
    <2> QED
      BY <1>0, <1>2, <2>1 DEF Places, Minted, Burned, LatestBlock
  <1>3. ASSUME chain' = chain, payload' = payload \/ payload' = None
        PROVE  /\ IsFiniteSet(Places(MintLists)') /\ IsFiniteSet(Places(BurnLists)')
               /\ Burned' <= Minted'
               /\ payload' # None =>
                     Burned' + Len(payload'.withdrawals) <= Minted' + Len(payload'.deposits)
    BY <1>0, <1>2, <1>3 DEF SolventInv
  <1>4. CASE Still \/ GetLogs \/ AbandonLogs \/ ProcessLog \/ ImportFails
    <2>1. chain' = chain /\ (payload' = payload \/ payload' = None)
      BY <1>4, Zenon DEF Still, GetLogs, AbandonLogs, ProcessLog, ImportFails, WatcherUnchanged, l2
    <2> QED
      BY <1>3, <2>1
  <1>5. CASE BuildPayload
    <2>1. PICK ids, mints, burns : Fill(ids, mints, burns)
      BY <1>5, BuildPayloadFills DEF Inv
    <2>2. Burned + Len(burns) <= Minted + Len(mints)
      BY <2>1 DEF Fill
    <2>3. payload'.deposits = mints /\ payload'.withdrawals = burns
      BY <2>1 DEF Fill
    <2>4. chain' = chain
      BY <1>5 DEF BuildPayload
    <2> QED
      BY <1>0, <1>2, <2>2, <2>3, <2>4
  <1>6. CASE ImportPayload
    <2>0. /\ payload # None /\ chain \in Seq(Blocks) /\ payload \in Blocks /\ payload' = None
          /\ payload.deposits \in Seq(Ids) /\ payload.withdrawals \in Seq(Withdrawals)
      BY <1>6, IdFacts DEF ImportPayload, Blocks
    <2> DEFINE l == LatestBlock
               d == Len(payload.deposits)
               w == Len(payload.withdrawals)
    <2>1. /\ l \in Nat /\ LatestBlock' = l + 1
          /\ \A n \in 1 .. l : chain'[n] = chain[n]
          /\ chain'[l + 1] = payload
      BY <1>6, <2>0, AppendProperties, LenProperties DEF ImportPayload, LatestBlock
    <2>2. /\ d \in Nat /\ DOMAIN payload.deposits = 1 .. d
          /\ w \in Nat /\ DOMAIN payload.withdrawals = 1 .. w
      BY <2>0, LenProperties
    <2>3. /\ \A n \in 1 .. l : n \in 1 .. l + 1
          /\ l + 1 \in 1 .. l + 1
      BY <2>1
    <2>4. /\ DOMAIN MintLists = 1 .. l /\ DOMAIN MintLists' = 1 .. l + 1
          /\ \A n \in 1 .. l : MintLists'[n] = MintLists[n]
          /\ DOMAIN MintLists'[l + 1] = 1 .. d
      BY <2>1, <2>2, <2>3, Zenon DEF MintLists
    <2>5. /\ DOMAIN BurnLists = 1 .. l /\ DOMAIN BurnLists' = 1 .. l + 1
          /\ \A n \in 1 .. l : BurnLists'[n] = BurnLists[n]
          /\ DOMAIN BurnLists'[l + 1] = 1 .. w
      BY <2>1, <2>2, <2>3, Zenon DEF BurnLists
    <2> HIDE DEF l, d, w
    <2>6. IsFiniteSet(Places(MintLists')) /\ Cardinality(Places(MintLists')) = Minted + d
      BY SMTT(30), <1>0, <2>1, <2>2, <2>4, CountAppend
    <2>7. IsFiniteSet(Places(BurnLists')) /\ Cardinality(Places(BurnLists')) = Burned + w
      BY SMTT(30), <1>0, <2>1, <2>2, <2>5, CountAppend
    <2>8. /\ Places(MintLists)' = Places(MintLists') /\ Places(BurnLists)' = Places(BurnLists')
          /\ Minted' = Cardinality(Places(MintLists')) /\ Burned' = Cardinality(Places(BurnLists'))
      BY DEF Minted, Burned, Count, Places, MintLists, BurnLists
    <2>9. Burned + w <= Minted + d
      BY <2>0 DEF SolventInv, d, w
    <2> QED
      BY Zenon, <2>0, <2>6, <2>7, <2>8, <2>9
  <1> QED
    BY <1>4, <1>5, <1>6, DepositMoves

\* What the bridge owes is what was burned and not claimed
LEMMA BalanceCovers ==
    ASSUME Inv, OrderInv, SolventInv
    PROVE  Solvent
  <1>1. claimedWithdrawals \subseteq Included
    <2>1. SUFFICES ASSUME NEW w \in claimedWithdrawals PROVE w \in Included
      OBVIOUS
    <2>2. PICK n \in 1 .. LatestBlock : w \in Range(chain[n].withdrawals)
      BY DEF Inv, Payments, PaymentOK, TypeOK, ContractsTypeOK
    <2>3. BlockWithdrawals(n) = chain[n].withdrawals
      BY DEF BlockWithdrawals, L2Block
    <2> QED
      BY <2>2, <2>3 DEF Included
  <1>2. IsFiniteSet(Included) /\ Cardinality(Included) <= Burned
    BY IncludedBurned
  <1>3. Cardinality(Included \ claimedWithdrawals)
          = Cardinality(Included) - Cardinality(claimedWithdrawals)
    <2>1. Included \cap claimedWithdrawals = claimedWithdrawals
      BY <1>1
    <2> QED
      BY Zenon, <1>2, <2>1, FS_Difference
  <1>4. /\ Cardinality(Included) \in Nat /\ Cardinality(claimedWithdrawals) \in Nat
        /\ Minted \in Nat /\ Burned \in Nat /\ balance \in Nat /\ depositId \in Nat
    BY <1>2, FS_CardinalityType, CountsPlaces, ContractsAssumption
    DEF SolventInv, Inv, TypeOK, ContractsTypeOK
  <1> QED
    BY <1>2, <1>3, <1>4, MintedDeposited DEF Solvent, SolventInv

\* Without a restart the bridge holds enough to pay every withdrawal the L2 burned
\* money for, for any number of blocks, deposits and withdrawals
THEOREM BridgeSolvent ==
    ASSUME Uninterrupted
    PROVE  Spec => []Solvent
  <1>1. Init => SolventInv
    <2> SUFFICES ASSUME Init PROVE SolventInv
      OBVIOUS
    <2>1. Len(<<>>) = 0 /\ 1 .. 0 = {}
      BY EmptySeq
    <2>2. Places(MintLists) = {} /\ Places(BurnLists) = {}
      BY <2>1 DEF Init, LatestBlock, Places, MintLists, BurnLists
    <2>3. Minted = 0 /\ Burned = 0
      BY <2>2, FS_EmptySet, CountsPlaces
    <2> QED
      BY <2>2, <2>3, FS_EmptySet DEF Init, ContractsInit, FreshWatcher, SolventInv
  <1>2. Uninterrupted /\ Inv /\ OrderInv /\ SolventInv /\ [Next]_vars => SolventInv'
    BY LedgerKept, CoveredKept DEF SolventInv
  <1>3. Inv /\ OrderInv /\ SolventInv => Solvent
    BY BalanceCovers
  <1> QED
    BY <1>1, <1>2, <1>3, InvHolds, OrderHolds, PTL DEF Spec

==============================================================================
