--------------------------- MODULE ComponentProofs ---------------------------
(***************************************************************************)
(* Proofs about three components that stand alone: the headers the payload *)
(* builder writes against the rules by which headers are validated         *)
(* (HeaderRules), the log filters clients poll (LogFilters), and the proofs *)
(* of withdrawals against the contract that checks them (MerkleTree).      *)
(***************************************************************************)
EXTENDS HeaderRules, LogFilters, MerkleTree, FiniteSetTheorems, TLAPS

\* The limit calc_gas_limit picks is one check_gas_limit accepts, whatever the
\* parent's limit: it never moves by a 1024th of it, and stops at the minimum.
LEMMA LimitAccepted ==
    ASSUME NEW limit \in Nat, limit >= MIN_GAS_LIMIT
    PROVE  /\ calc_gas_limit(limit, DEFAULT_BUILDER_GAS_CEIL) \in Nat
           /\ check_gas_limit(calc_gas_limit(limit, DEFAULT_BUILDER_GAS_CEIL), limit)
  <1> DEFINE delta == limit \div 1024
  <1>1. delta \in Nat /\ delta >= 4 /\ delta <= limit
    BY DEF MIN_GAS_LIMIT
  <1>2. Smaller(DEFAULT_BUILDER_GAS_CEIL, MIN_GAS_LIMIT) = 5000
    BY HeaderConstants DEF Smaller, MIN_GAS_LIMIT
  <1>3. calc_gas_limit(limit, DEFAULT_BUILDER_GAS_CEIL)
            = IF limit > 5000 THEN Larger(limit - (delta - 1), 5000) ELSE limit
    BY <1>2 DEF calc_gas_limit, GAS_LIMIT_BOUND_DIVISOR, MIN_GAS_LIMIT
  <1>4. check_gas_limit(calc_gas_limit(limit, DEFAULT_BUILDER_GAS_CEIL), limit)
            <=> LET own == calc_gas_limit(limit, DEFAULT_BUILDER_GAS_CEIL)
                IN  own < limit + delta /\ own > limit - delta /\ own >= 5000
    BY DEF check_gas_limit, GAS_LIMIT_BOUND_DIVISOR, MIN_GAS_LIMIT
  <1> HIDE DEF delta
  <1> QED BY <1>1, <1>3, <1>4 DEF Larger, MIN_GAS_LIMIT

\* Every header create_payload writes on top of a parent whose base fee is known
\* and whose gas limit is legal passes validate_block_header and
\* validate_cancun_header_fields, whatever the parent used, once the gas used is
\* filled in and stays within the limit: a node never refuses its own payload
\* because of its header.  The two sides treat a parent without base fee
\* differently (0 against INITIAL_BASE_FEE), which is why the base fee is assumed.
THEOREM OwnHeaderAccepted ==
    ASSUME NEW parent \in Headers, parent.gas_limit >= MIN_GAS_LIMIT,
           parent.base_fee_per_gas # <<>>,
           NEW position \in Nat,
           NEW timestamp \in Nat, timestamp > parent.timestamp,
           NEW used \in Nat, used <= create_header(parent, position, timestamp).gas_limit
    PROVE  LET header == [create_header(parent, position, timestamp) EXCEPT !.gas_used = used]
           IN  /\ validate_block_header(header, parent, position)
               /\ validate_cancun_header_fields(header, parent)
               /\ header.gas_limit >= MIN_GAS_LIMIT
  <1> DEFINE limit == calc_gas_limit(parent.gas_limit, DEFAULT_BUILDER_GAS_CEIL)
             fee == calculate_base_fee_per_gas(limit, parent.gas_limit, parent.gas_used,
                                               parent.base_fee_per_gas[1])
             header == [create_header(parent, position, timestamp) EXCEPT !.gas_used = used]
  <1>1. /\ limit \in Nat
        /\ check_gas_limit(limit, parent.gas_limit)
    <2>1. parent.gas_limit \in Nat /\ parent.gas_limit >= MIN_GAS_LIMIT
      BY DEF Headers
    <2> QED BY <2>1, LimitAccepted
  <1>2. limit >= MIN_GAS_LIMIT
    BY <1>1 DEF check_gas_limit
  <1>3. fee # <<>> /\ fee = <<fee[1]>>
    <2>1. \E n : fee = <<n>>
      BY <1>1 DEF calculate_base_fee_per_gas
    <2> QED BY <2>1
  <1>4. /\ header.gas_used = used /\ header.gas_limit = limit
        /\ header.base_fee_per_gas = fee
        /\ header.timestamp = timestamp
        /\ header.number = parent.number + 1
        /\ header.parent_hash = position
        /\ header.excess_blob_gas =
               calc_excess_blob_gas(parent.excess_blob_gas, parent.blob_gas_used)
    BY DEF create_header, UnwrapOr
  <1>5. used <= limit
    BY DEF create_header
  <1>6. UnwrapOr(parent.base_fee_per_gas, INITIAL_BASE_FEE) = parent.base_fee_per_gas[1]
    BY DEF UnwrapOr
  <1>7. UnwrapOr(fee, INITIAL_BASE_FEE) = fee[1]
    BY <1>3 DEF UnwrapOr
  <1> HIDE DEF limit, fee, header
  <1>8. validate_cancun_header_fields(header, parent)
    <2>1. parent.excess_blob_gas \in Nat /\ parent.blob_gas_used \in Nat
      BY DEF Headers
    <2> QED BY <1>4, <2>1, HeaderConstants
            DEF validate_cancun_header_fields, calc_excess_blob_gas
  <1>9. validate_block_header(header, parent, position)
    <2>1. calculate_base_fee_per_gas(header.gas_limit, parent.gas_limit, parent.gas_used,
              UnwrapOr(parent.base_fee_per_gas, INITIAL_BASE_FEE)) = fee
      BY <1>4, <1>6 DEF fee
    <2> QED BY <1>3, <1>4, <1>5, <1>7, <2>1 DEF validate_block_header
  <1> QED BY <1>2, <1>4, <1>8, <1>9 DEF header

---------------------------------------------------------------------------
(* Log filters.                                                            *)

\* The logs of canonical block n that filter f asks for, as they are handed out
LogsAt(f, n) ==
    {<<chain[n], l[1], l[2]>> : l \in BlockLogs(filters[f].request, chain[n], Len(LogsOf[chain[n]]))}

\* A query is under way
Querying(p) == poll[p].stage \in {"body", "receipts"}

\* The query of poll p will hand out the logs of block n to filter f, or has them.  The
\* last block of the query is left out: it may be replaced before it is read.
Covers(p, f, n) ==
    /\ Querying(p)
    /\ poll[p].filter = f /\ poll[p].request = filters[f].request
    /\ n < poll[p].to
    /\ n >= poll[p].next \/ LogsAt(f, n) \subseteq poll[p].logs

\* The chain, the filters and what belongs to them
FilterTypes ==
    /\ chain \in Seq(Nat \X Nat) /\ replaced \in Nat
    /\ filters \in [DOMAIN filters -> [request : Requests, last_block_number : Nat]]
    /\ DOMAIN filters \subseteq FilterIds
    /\ \A f \in DOMAIN filters : filters[f].last_block_number <= Len(chain)
    /\ created \in [FilterIds -> Nat]
    /\ DOMAIN delivered = FilterIds
    /\ DOMAIN poll = Polls

\* A poll never aims above the chain, and the body it holds is that of the canonical
\* block, unless this is the last one of its range
PollShape(p) ==
    /\ poll[p].stage \in {"idle", "lock", "body", "receipts"}
    /\ poll[p].stage = "idle" => poll[p] = PollIdle
    /\ poll[p].stage = "lock" =>
          poll[p].filter \in FilterIds /\ poll[p].latest \in 0 .. Len(chain)
    /\ Querying(p) =>
          /\ poll[p].filter \in FilterIds
          /\ poll[p].next \in Nat /\ poll[p].to \in 0 .. Len(chain)
          /\ "next" \in DOMAIN poll[p]
    /\ poll[p].stage = "receipts" =>
          /\ poll[p].next >= 1
          /\ poll[p].next < poll[p].to => poll[p].body = chain[poll[p].next]

\* The inductive invariant: each block between the creation of a filter and its next
\* start has been handed out, or is in the hands of a poll
FilterInv ==
    /\ FilterTypes
    /\ \A p \in Polls : PollShape(p)
    /\ \A f \in DOMAIN filters \ failed :
          \A n \in created[f] + 1 .. filters[f].last_block_number - 1 :
             LogsAt(f, n) \subseteq delivered[f] \/ \E p \in Polls : Covers(p, f, n)

\* Covering depends on a poll, on the filter's request and on the block
LEMMA CoversKept ==
    ASSUME NEW p, NEW f, NEW n,
           poll'[p] = poll[p], filters'[f].request = filters[f].request, chain'[n] = chain[n],
           Covers(p, f, n)
    PROVE  Covers(p, f, n)'
<1>1. LogsAt(f, n)' = LogsAt(f, n)
  BY DEF LogsAt, BlockLogs
<1> QED BY Zenon, <1>1 DEF Covers, Querying

\* A block of a filter's past is below the tip
LEMMA PastBelow ==
    ASSUME FilterTypes, NEW f \in DOMAIN filters,
           NEW n \in created[f] + 1 .. filters[f].last_block_number - 1
    PROVE  n \in Nat /\ n >= 1 /\ n < Len(chain) /\ f \in FilterIds
<1>1. f \in FilterIds /\ created[f] \in Nat /\ Len(chain) \in Nat
  BY DEF FilterTypes
<1>2. filters[f].last_block_number \in Nat /\ filters[f].last_block_number <= Len(chain)
  BY DEF FilterTypes
<1> QED BY <1>1, <1>2

\* What the past of a filter needs when neither the filters nor the blocks below the tip
\* change: each poll that covered goes on covering, or its logs are handed out
LEMMA PastKept ==
    ASSUME FilterInv,
           UNCHANGED <<filters, created>>,
           \A n \in 1 .. Len(chain) - 1 : chain'[n] = chain[n],
           failed \subseteq failed',
           \A f \in FilterIds : delivered[f] \subseteq delivered'[f],
           \A f \in DOMAIN filters \ failed' : \A n \in 1 .. Len(chain) - 1 : \A p \in Polls :
               Covers(p, f, n) => Covers(p, f, n)' \/ LogsAt(f, n) \subseteq delivered'[f]
    PROVE  \A f \in DOMAIN filters' \ failed' :
               \A n \in created'[f] + 1 .. filters'[f].last_block_number - 1 :
                   LogsAt(f, n)' \subseteq delivered'[f] \/ \E p \in Polls : Covers(p, f, n)'
<1> SUFFICES ASSUME NEW f \in DOMAIN filters \ failed',
                    NEW n \in created[f] + 1 .. filters[f].last_block_number - 1
             PROVE  LogsAt(f, n)' \subseteq delivered'[f] \/ \E p \in Polls : Covers(p, f, n)'
  BY Zenon
<1>1. n \in 1 .. Len(chain) - 1 /\ f \in FilterIds
  <2>1. FilterTypes BY Zenon DEF FilterInv
  <2>2. Len(chain) \in Nat BY <2>1 DEF FilterTypes
  <2> QED BY <2>1, <2>2, PastBelow
<1>2. LogsAt(f, n)' = LogsAt(f, n)
  <2>1. chain'[n] = chain[n] BY <1>1
  <2> QED BY <2>1 DEF LogsAt, BlockLogs
<1>3. f \in DOMAIN filters \ failed
  BY Zenon
<1>4. CASE LogsAt(f, n) \subseteq delivered[f]
  BY Zenon, <1>1, <1>2, <1>4
<1>5. ASSUME NEW p \in Polls, Covers(p, f, n)
      PROVE  LogsAt(f, n)' \subseteq delivered'[f] \/ \E q \in Polls : Covers(q, f, n)'
  BY Zenon, <1>1, <1>2, <1>5
<1> QED BY Zenon, <1>3, <1>4, <1>5 DEF FilterInv

\* In the initial state there is no filter
LEMMA FilterStarts == FiltersInit => FilterInv
<1> SUFFICES ASSUME FiltersInit PROVE FilterInv
  OBVIOUS
<1>1. DOMAIN filters = {} /\ filters \in [{} -> [request : Requests, last_block_number : Nat]]
  BY DEF FiltersInit
<1>2. FilterTypes
  BY <1>1 DEF FiltersInit, FilterTypes
<1>3. \A p \in Polls : PollShape(p)
  BY DEF FiltersInit, PollShape, PollIdle, Querying
<1> QED BY Zenon, <1>1, <1>2, <1>3 DEF FilterInv

\* The shape of a poll depends on the poll and on the blocks below the tip
LEMMA ShapeKept ==
    ASSUME chain \in Seq(Nat \X Nat), chain' \in Seq(Nat \X Nat), Len(chain) <= Len(chain'),
           \A n \in 1 .. Len(chain) - 1 : chain'[n] = chain[n],
           NEW p, PollShape(p), poll'[p] = poll[p]
    PROVE  PollShape(p)'
<1>1. Len(chain) \in Nat /\ Len(chain') \in Nat
  OBVIOUS
<1>2. ASSUME poll[p].stage = "receipts", poll[p].next < poll[p].to
      PROVE  poll[p].body = chain'[poll[p].next]
  <2>1. /\ poll[p].next \in Nat /\ poll[p].to \in 0 .. Len(chain) /\ poll[p].next >= 1
        /\ poll[p].body = chain[poll[p].next]
    <3>1. Querying(p) BY Zenon, <1>2 DEF Querying
    <3> QED BY Zenon, <1>2, <3>1 DEF PollShape
  <2>2. \A a \in Nat, t \in 0 .. Len(chain) : a >= 1 /\ a < t => a \in 1 .. Len(chain) - 1
    BY <1>1
  <2> QED BY Zenon, <1>2, <2>1, <2>2
<1>3. /\ poll[p].latest \in 0 .. Len(chain) => poll[p].latest \in 0 .. Len(chain')
      /\ poll[p].to \in 0 .. Len(chain) => poll[p].to \in 0 .. Len(chain')
  <2>1. \A n \in 0 .. Len(chain) : n \in 0 .. Len(chain')
    BY <1>1
  <2> QED BY Zenon, <2>1
<1> QED BY Zenon, <1>2, <1>3 DEF PollShape, Querying

\* The chain grows, or its tip is replaced: what is below the tip stays
LEMMA ChainSteps ==
    ASSUME FilterInv, NEW depth \in 0 .. 1, NEW length \in 1 .. MaxChain,
           ApplyForkChoice(depth, length)
    PROVE  FilterInv'
<1>0. FilterTypes /\ chain \in Seq(Nat \X Nat) /\ replaced \in Nat
  BY Zenon DEF FilterInv, FilterTypes
<1>1. Len(chain) \in Nat
  BY <1>0
<1>2. /\ UNCHANGED <<filters, poll, created, delivered, failed>>
      /\ chain' \in Seq(Nat \X Nat) /\ Len(chain) <= Len(chain') /\ replaced' \in Nat
      /\ \A n \in 1 .. Len(chain) - 1 : chain'[n] = chain[n]
  <2> DEFINE size == Len(chain) - depth + length
  <2>1. UNCHANGED <<filters, poll, created, delivered, failed>>
    BY Zenon DEF ApplyForkChoice
  <2>2. replaced' \in Nat
    BY <1>0 DEF ApplyForkChoice
  <2>3. /\ depth <= Len(chain)
        /\ chain' = [n \in 1 .. size |->
                        IF n <= Len(chain) - depth THEN chain[n] ELSE <<n, replaced'>>]
    BY DEF ApplyForkChoice
  <2>4. /\ size \in Nat /\ size >= Len(chain) /\ size >= 1
        /\ \A n \in 1 .. Len(chain) - 1 : n \in 1 .. size /\ n <= Len(chain) - depth
    BY <1>1, <2>3
  <2> HIDE DEF size
  <2>5. \A n \in 1 .. size :
            (IF n <= Len(chain) - depth THEN chain[n] ELSE <<n, replaced'>>) \in Nat \X Nat
    BY <1>0, <1>1, <2>2, <2>4
  <2>6. chain' \in Seq(Nat \X Nat) /\ Len(chain') = size
    BY <2>3, <2>4, <2>5
  <2>7. \A n \in 1 .. Len(chain) - 1 : chain'[n] = chain[n]
    BY <2>3, <2>4
  <2> QED BY <2>1, <2>2, <2>4, <2>6, <2>7
<1>3. FilterTypes'
  <2>1. \A f \in DOMAIN filters : filters[f].last_block_number <= Len(chain')
    BY <1>0, <1>1, <1>2 DEF FilterTypes
  <2> QED BY Zenon, <1>0, <1>2, <2>1 DEF FilterTypes
<1>4. \A p \in Polls : PollShape(p)'
  BY Zenon, <1>0, <1>2, ShapeKept DEF FilterInv
<1>5. \A f \in DOMAIN filters : \A n \in 1 .. Len(chain) - 1 : \A p \in Polls :
          Covers(p, f, n) => Covers(p, f, n)'
  BY Zenon, <1>2, CoversKept
<1>6. \A f \in DOMAIN filters' \ failed' :
          \A n \in created'[f] + 1 .. filters'[f].last_block_number - 1 :
              LogsAt(f, n)' \subseteq delivered'[f] \/ \E p \in Polls : Covers(p, f, n)'
  <2>1. /\ failed \subseteq failed'
        /\ \A f \in FilterIds : delivered[f] \subseteq delivered'[f]
        /\ UNCHANGED <<filters, created>>
    BY Zenon, <1>2
  <2> QED BY Zenon, <1>2, <1>5, <2>1, PastKept
<1> QED BY Zenon, <1>3, <1>4, <1>6 DEF FilterInv

\* A poll makes a step that leaves chain and filters alone
LEMMA PollSteps ==
    ASSUME FilterInv, NEW p \in Polls, NEW entry,
           poll' = [poll EXCEPT ![p] = entry],
           UNCHANGED <<chain, replaced, filters, created>>,
           DOMAIN delivered' = FilterIds,
           failed \subseteq failed',
           \A f \in FilterIds : delivered[f] \subseteq delivered'[f],
           PollShape(p)',
           \A f \in DOMAIN filters \ failed' : \A n \in 1 .. Len(chain) - 1 :
               Covers(p, f, n) => Covers(p, f, n)' \/ LogsAt(f, n) \subseteq delivered'[f]
    PROVE  FilterInv'
<1>1. FilterTypes /\ chain \in Seq(Nat \X Nat) /\ DOMAIN poll = Polls
  BY Zenon DEF FilterInv, FilterTypes
<1>2. \A q \in Polls \ {p} : poll'[q] = poll[q]
  BY Zenon, <1>1
<1>3. FilterTypes'
  <2>1. DOMAIN poll' = Polls BY Zenon, <1>1
  <2> QED BY Zenon, <1>1, <2>1 DEF FilterTypes
<1>4. \A q \in Polls : PollShape(q)'
  <2>1. Len(chain) <= Len(chain) /\ \A n \in 1 .. Len(chain) - 1 : chain'[n] = chain[n]
    BY <1>1
  <2> QED BY Zenon, <1>1, <1>2, <2>1, ShapeKept DEF FilterInv
<1>5. \A f \in DOMAIN filters \ failed' : \A n \in 1 .. Len(chain) - 1 : \A q \in Polls :
          Covers(q, f, n) => Covers(q, f, n)' \/ LogsAt(f, n) \subseteq delivered'[f]
  <2> SUFFICES ASSUME NEW f \in DOMAIN filters \ failed', NEW n \in 1 .. Len(chain) - 1,
                      NEW q \in Polls \ {p}, Covers(q, f, n)
               PROVE  Covers(q, f, n)'
    BY Zenon
  <2> QED BY Zenon, <1>2, CoversKept
<1>6. \A f \in DOMAIN filters' \ failed' :
          \A n \in created'[f] + 1 .. filters'[f].last_block_number - 1 :
              LogsAt(f, n)' \subseteq delivered'[f] \/ \E q \in Polls : Covers(q, f, n)'
  BY Zenon, <1>5, PastKept
<1> QED BY Zenon, <1>3, <1>4, <1>6 DEF FilterInv

\* A poll begins: it aims at the latest block of this moment
LEMMA BeginKeeps ==
    ASSUME FilterInv, NEW p \in Polls, NEW f \in DOMAIN filters, BeginPoll(p, f)
    PROVE  FilterInv'
<1> DEFINE entry == [stage |-> "lock", filter |-> f, latest |-> Len(chain)]
<1>1. /\ poll' = [poll EXCEPT ![p] = entry] /\ poll[p].stage = "idle"
      /\ UNCHANGED <<chain, replaced, filters, created, delivered, failed>>
  BY Zenon DEF BeginPoll, get_latest_block_number
<1>2. /\ f \in FilterIds /\ DOMAIN poll = Polls /\ chain \in Seq(Nat \X Nat)
      /\ DOMAIN delivered = FilterIds
  BY Zenon DEF FilterInv, FilterTypes
<1>3. Len(chain) \in 0 .. Len(chain)
  BY <1>2
<1>4. poll'[p] = entry
  BY Zenon, <1>1, <1>2
<1>5. PollShape(p)'
  BY <1>1, <1>2, <1>3, <1>4 DEF PollShape, Querying
<1>6. \A g, n : ~Covers(p, g, n)
  BY <1>1 DEF Covers, Querying
<1> HIDE DEF entry
<1> QED BY Zenon, <1>1, <1>2, <1>5, <1>6, PollSteps

\* A poll ends without a word to the filter
LEMMA IdleKeeps ==
    ASSUME FilterInv, NEW p \in Polls,
           poll' = [poll EXCEPT ![p] = PollIdle],
           UNCHANGED <<chain, replaced, filters, created, delivered>>,
           failed \subseteq failed',
           Querying(p) => poll[p].filter \in failed'
    PROVE  FilterInv'
<1>1. DOMAIN poll = Polls /\ DOMAIN delivered = FilterIds
  BY Zenon DEF FilterInv, FilterTypes
<1>2. poll'[p] = PollIdle
  BY Zenon, <1>1
<1>3. PollShape(p)'
  BY <1>2 DEF PollShape, Querying, PollIdle
<1>4. \A f \in DOMAIN filters \ failed' : \A n \in 1 .. Len(chain) - 1 : ~Covers(p, f, n)
  BY Zenon DEF Covers
<1> QED BY Zenon, <1>1, <1>3, <1>4, PollSteps

\* The body of the next block is read
LEMMA BodyKeeps ==
    ASSUME FilterInv, NEW p \in Polls, FetchBody(p)
    PROVE  FilterInv'
<1> DEFINE old == poll[p]
           skipped == [old EXCEPT !.next = 1]
           read == [stage |-> "receipts", filter |-> old.filter, request |-> old.request,
                    next |-> old.next, to |-> old.to, logs |-> old.logs, body |-> chain[old.next]]
           entry == IF old.next = 0 THEN skipped ELSE read
<1>0. CASE old.next > Len(chain)
  <2>1. /\ poll' = [poll EXCEPT ![p] = PollIdle] /\ failed' = failed \cup {poll[p].filter}
        /\ UNCHANGED <<chain, replaced, filters, created, delivered>>
    BY Zenon, <1>0 DEF FetchBody, QueryFails
  <2> QED BY Zenon, <2>1, IdleKeeps
<1> SUFFICES ASSUME ~(old.next > Len(chain)) PROVE FilterInv'
  BY Zenon, <1>0
<1>1. /\ poll' = [poll EXCEPT ![p] = entry] /\ old.stage = "body" /\ old.next <= old.to
      /\ UNCHANGED <<chain, replaced, filters, created, delivered, failed>>
  BY DEF FetchBody
<1>2. DOMAIN poll = Polls /\ DOMAIN delivered = FilterIds /\ PollShape(p)
  BY Zenon DEF FilterInv, FilterTypes
<1>3. poll'[p] = entry
  BY Zenon, <1>1, <1>2
<1>4. /\ Querying(p) /\ old.filter \in FilterIds /\ old.next \in Nat /\ old.to \in 0 .. Len(chain)
      /\ "next" \in DOMAIN old
  BY <1>1, <1>2 DEF PollShape, Querying
<1>5. PollShape(p)'
  <2>1. CASE old.next = 0
    BY <1>1, <1>2, <1>3, <1>4, <2>1 DEF PollShape, Querying
  <2>2. CASE old.next # 0
    <3>1. old.next >= 1 BY <1>4, <2>2
    <3> QED BY <1>1, <1>3, <1>4, <2>2, <3>1 DEF PollShape, Querying
  <2> QED BY Zenon, <2>1, <2>2
<1>6. ASSUME NEW f, NEW n \in 1 .. Len(chain) - 1, Covers(p, f, n)
      PROVE  Covers(p, f, n)'
  <2>1. LogsAt(f, n)' = LogsAt(f, n)
    BY <1>1 DEF LogsAt, BlockLogs
  <2>2. CASE old.next = 0
    <3>1. poll'[p] = skipped BY Zenon, <1>3, <2>2
    <3>2. /\ poll'[p].stage = "body" /\ poll'[p].filter = old.filter
          /\ poll'[p].request = old.request /\ poll'[p].to = old.to
          /\ poll'[p].next = 1
      BY <1>1, <1>4, <3>1
    <3>3. n >= 1 OBVIOUS
    <3> QED BY Zenon, <1>1, <1>6, <2>1, <3>2, <3>3 DEF Covers, Querying
  <2>3. CASE old.next # 0
    <3>1. poll'[p] = read BY Zenon, <1>3, <2>3
    <3>2. /\ poll'[p].stage = "receipts" /\ poll'[p].filter = old.filter
          /\ poll'[p].request = old.request /\ poll'[p].to = old.to
          /\ poll'[p].next = old.next /\ poll'[p].logs = old.logs
      BY <3>1
    <3> QED BY Zenon, <1>1, <1>6, <2>1, <3>2 DEF Covers, Querying
  <2> QED BY Zenon, <2>2, <2>3
<1> HIDE DEF entry
<1> QED BY Zenon, <1>1, <1>2, <1>5, <1>6, PollSteps

\* The receipts of a block are read: below the end of the range they are those of the
\* body, and the logs of the block are collected
LEMMA ReceiptsKeep ==
    ASSUME FilterInv, NEW p \in Polls, FetchReceipts(p)
    PROVE  FilterInv'
<1> DEFINE old == poll[p]
           now == chain[old.next]
           count == Len(LogsOf[old.body])
           logs == {<<old.body, l[1], l[2]>> : l \in BlockLogs(old.request, now, count)}
           entry == [stage |-> "body", filter |-> old.filter, request |-> old.request,
                     next |-> old.next + 1, to |-> old.to, logs |-> old.logs \cup logs]
<1>1. old.stage = "receipts" /\ UNCHANGED <<chain, replaced, filters, created, delivered>>
  BY Zenon DEF FetchReceipts
<1>2. \/ poll' = [poll EXCEPT ![p] = PollIdle] /\ failed' = failed \cup {old.filter}
      \/ poll' = [poll EXCEPT ![p] = entry] /\ failed' = failed
  BY DEF FetchReceipts, QueryFails
<1>3. DOMAIN poll = Polls /\ DOMAIN delivered = FilterIds /\ PollShape(p)
  BY Zenon DEF FilterInv, FilterTypes
<1>4. CASE poll' = [poll EXCEPT ![p] = PollIdle] /\ failed' = failed \cup {old.filter}
  BY Zenon, <1>1, <1>4, IdleKeeps
<1>5. CASE poll' = [poll EXCEPT ![p] = entry] /\ failed' = failed
  <2>1. poll'[p] = entry
    BY Zenon, <1>3, <1>5
  <2>2. /\ Querying(p) /\ old.filter \in FilterIds /\ old.next \in Nat
        /\ old.to \in 0 .. Len(chain)
        /\ old.next < old.to => old.body = chain[old.next]
    BY <1>1, <1>3 DEF PollShape, Querying
  <2> HIDE DEF logs
  <2>3. PollShape(p)'
    <3>1. old.next + 1 \in Nat BY <2>2
    <3> QED BY <1>1, <2>1, <2>2, <3>1 DEF PollShape, Querying
  <2>4. ASSUME NEW f, NEW n \in 1 .. Len(chain) - 1, Covers(p, f, n)
        PROVE  Covers(p, f, n)'
    <3>1. LogsAt(f, n)' = LogsAt(f, n)
      BY <1>1 DEF LogsAt, BlockLogs
    <3>2. old.request = filters[f].request /\ old.filter = f /\ n < old.to
      BY Zenon, <2>4 DEF Covers
    <3>3. n = old.next => LogsAt(f, n) = logs
      <4> SUFFICES ASSUME n = old.next PROVE LogsAt(f, n) = logs
        OBVIOUS
      <4>1. old.body = chain[n] BY <2>2, <3>2
      <4> QED BY <3>2, <4>1 DEF LogsAt, logs
    <3>4. n >= old.next + 1 \/ n = old.next \/ ~(n >= old.next)
      BY <2>2
    <3>5. n >= old.next + 1 \/ LogsAt(f, n) \subseteq old.logs \cup logs
      BY Zenon, <2>4, <3>3, <3>4 DEF Covers
    <3>6. /\ poll'[p].stage = "body" /\ poll'[p].filter = f /\ poll'[p].request = filters[f].request
          /\ poll'[p].to = old.to /\ poll'[p].next = old.next + 1
          /\ poll'[p].logs = old.logs \cup logs
      BY <2>1, <3>2
    <3> QED BY Zenon, <1>1, <3>1, <3>2, <3>5, <3>6 DEF Covers, Querying
  <2> HIDE DEF entry
  <2> QED BY Zenon, <1>1, <1>3, <1>5, <2>3, <2>4, PollSteps
<1> QED BY Zenon, <1>2, <1>4, <1>5

\* A poll is over: what it covered is handed out
LEMMA EndKeeps ==
    ASSUME FilterInv, NEW p \in Polls, EndPoll(p)
    PROVE  FilterInv'
<1>1. /\ poll' = [poll EXCEPT ![p] = PollIdle] /\ UNCHANGED <<chain, replaced, filters, created, failed>>
      /\ poll[p].stage = "body" /\ poll[p].next > poll[p].to
      /\ delivered' = [delivered EXCEPT ![poll[p].filter] = @ \cup poll[p].logs]
  BY Zenon DEF EndPoll
<1>2. DOMAIN poll = Polls /\ DOMAIN delivered = FilterIds /\ PollShape(p)
  BY Zenon DEF FilterInv, FilterTypes
<1>3. Querying(p) /\ poll[p].next \in Nat /\ poll[p].to \in 0 .. Len(chain)
  BY <1>1, <1>2 DEF PollShape, Querying
<1>4. PollShape(p)'
  <2>1. poll'[p] = PollIdle BY Zenon, <1>1, <1>2
  <2> QED BY <2>1 DEF PollShape, Querying, PollIdle
<1>5. DOMAIN delivered' = FilterIds /\ \A f \in FilterIds : delivered[f] \subseteq delivered'[f]
  BY <1>1, <1>2
<1>6. ASSUME NEW f \in DOMAIN filters, NEW n \in 1 .. Len(chain) - 1, Covers(p, f, n)
      PROVE  LogsAt(f, n) \subseteq delivered'[f]
  <2>1. f \in FilterIds BY Zenon DEF FilterInv, FilterTypes
  <2>2. poll[p].filter = f /\ n < poll[p].to BY Zenon, <1>6 DEF Covers
  <2>3. ~(n >= poll[p].next) BY <1>1, <1>3, <2>2
  <2>4. LogsAt(f, n) \subseteq poll[p].logs BY Zenon, <1>6, <2>3 DEF Covers
  <2>5. delivered'[f] = delivered[f] \cup poll[p].logs BY Zenon, <1>1, <1>2, <2>1, <2>2
  <2> QED BY Zenon, <2>4, <2>5
<1> QED BY Zenon, <1>1, <1>4, <1>5, <1>6, PollSteps

\* The filter is moved on to the latest block the poll had seen, maybe back when polls
\* overtake each other; the poll takes over what lies between the two starts
LEMMA TakeKeeps ==
    ASSUME FilterInv, NEW p \in Polls, TakeFilter(p)
    PROVE  FilterInv'
<1> SUFFICES ASSUME NEW f, f = poll[p].filter
             PROVE  FilterInv'
  OBVIOUS
<1> DEFINE latest == poll[p].latest
           from == filters[f].last_block_number
           query == [stage |-> "body", filter |-> f, request |-> filters[f].request,
                     next |-> from, to |-> latest, logs |-> {}]
           entry == IF from > latest THEN PollIdle ELSE query
<1>1. poll[p].stage = "lock" /\ UNCHANGED <<chain, replaced, created, delivered, failed>>
  BY Zenon DEF TakeFilter
<1>2. \/ poll' = [poll EXCEPT ![p] = PollIdle] /\ UNCHANGED filters
      \/ /\ f \in DOMAIN filters
         /\ filters' = [filters EXCEPT ![f].last_block_number = latest]
         /\ poll' = [poll EXCEPT ![p] = entry]
  BY Zenon DEF TakeFilter, PollFrom
<1>3. FilterTypes /\ DOMAIN poll = Polls /\ PollShape(p) /\ chain \in Seq(Nat \X Nat)
  BY Zenon DEF FilterInv, FilterTypes
<1>4. Len(chain) \in Nat /\ f \in FilterIds /\ latest \in 0 .. Len(chain)
  BY <1>1, <1>3 DEF PollShape
<1>5. ~Querying(p)
  BY <1>1 DEF Querying
<1>6. CASE poll' = [poll EXCEPT ![p] = PollIdle] /\ UNCHANGED filters
  <2>1. failed \subseteq failed' BY Zenon, <1>1
  <2> QED BY Zenon, <1>1, <1>5, <1>6, <2>1, IdleKeeps
<1>7. CASE /\ f \in DOMAIN filters
           /\ filters' = [filters EXCEPT ![f].last_block_number = latest]
           /\ poll' = [poll EXCEPT ![p] = entry]
  <2>1. filters[f] \in [request : Requests, last_block_number : Nat] /\ from \in Nat
    BY <1>3, <1>7 DEF FilterTypes
  <2>2. /\ DOMAIN filters' = DOMAIN filters
        /\ \A g \in DOMAIN filters : filters'[g].request = filters[g].request
        /\ filters'[f].last_block_number = latest
        /\ \A g \in DOMAIN filters \ {f} : filters'[g] = filters[g]
        /\ filters'[f] \in [request : Requests, last_block_number : Nat]
    BY <1>4, <1>7, <2>1
  <2>3. poll'[p] = entry /\ \A q \in Polls \ {p} : poll'[q] = poll[q]
    BY Zenon, <1>3, <1>7
  <2>4. FilterTypes'
    <3>1. filters' \in [DOMAIN filters' -> [request : Requests, last_block_number : Nat]]
      <4>1. filters' = [g \in DOMAIN filters' |-> filters'[g]]
        BY Zenon, <1>3, <1>7, <2>2 DEF FilterTypes
      <4>2. \A g \in DOMAIN filters' : filters'[g] \in [request : Requests, last_block_number : Nat]
        BY Zenon, <1>3, <2>2 DEF FilterTypes
      <4> QED BY Zenon, <4>1, <4>2
    <3>2. \A g \in DOMAIN filters' : filters'[g].last_block_number <= Len(chain)
      <4>1. latest <= Len(chain) BY <1>4
      <4> QED BY Zenon, <1>3, <2>2, <4>1 DEF FilterTypes
    <3>3. DOMAIN poll' = Polls BY Zenon, <1>3, <1>7
    <3> QED BY Zenon, <1>1, <1>3, <2>2, <3>1, <3>2, <3>3 DEF FilterTypes
  <2>5. PollShape(p)'
    <3>1. CASE from > latest
      <4>1. poll'[p] = PollIdle BY Zenon, <2>3, <3>1
      <4> QED BY <4>1 DEF PollShape, Querying, PollIdle
    <3>2. CASE ~(from > latest)
      <4>1. poll'[p] = query BY Zenon, <2>3, <3>2
      <4> QED BY <1>1, <1>4, <2>1, <4>1 DEF PollShape, Querying
    <3> QED BY Zenon, <3>1, <3>2
  <2>6. \A q \in Polls : PollShape(q)'
    <3>1. Len(chain) <= Len(chain') /\ \A n \in 1 .. Len(chain) - 1 : chain'[n] = chain[n]
      BY <1>1, <1>4
    <3> QED BY Zenon, <1>1, <1>3, <2>3, <2>5, <3>1, ShapeKept DEF FilterInv
  <2>7. ASSUME NEW g \in DOMAIN filters \ failed,
               NEW n \in created[g] + 1 .. filters[g].last_block_number - 1
        PROVE  LogsAt(g, n)' \subseteq delivered'[g] \/ \E q \in Polls : Covers(q, g, n)'
    <3>1. LogsAt(g, n)' = LogsAt(g, n)
      BY <1>1, <2>2 DEF LogsAt, BlockLogs
    <3>2. CASE LogsAt(g, n) \subseteq delivered[g]
      BY Zenon, <1>1, <3>1, <3>2
    <3>3. ASSUME NEW q \in Polls, Covers(q, g, n) PROVE Covers(q, g, n)'
      <4>1. q # p BY Zenon, <1>5, <3>3 DEF Covers
      <4> QED BY Zenon, <1>1, <2>2, <2>3, <3>3, <4>1, CoversKept
    <3> QED BY Zenon, <2>7, <3>2, <3>3 DEF FilterInv
  <2>8. ASSUME NEW n \in created[f] + 1 .. latest - 1, n >= from, from <= latest
        PROVE  Covers(p, f, n)'
    <3>1. poll'[p] = query BY <1>4, <2>1, <2>3, <2>8
    <3>2. created[f] \in Nat BY <1>3, <1>4 DEF FilterTypes
    <3>3. n < latest BY <1>4, <2>8, <3>2
    <3>4. /\ poll'[p].stage = "body" /\ poll'[p].filter = f /\ poll'[p].request = filters[f].request
          /\ poll'[p].to = latest /\ poll'[p].next = from
      BY <3>1
    <3> QED BY Zenon, <1>7, <2>2, <2>8, <3>3, <3>4 DEF Covers, Querying
  <2>9. ASSUME NEW g \in DOMAIN filters' \ failed',
               NEW n \in created'[g] + 1 .. filters'[g].last_block_number - 1
        PROVE  LogsAt(g, n)' \subseteq delivered'[g] \/ \E q \in Polls : Covers(q, g, n)'
    <3>1. CASE g # f
      BY Zenon, <1>1, <2>2, <2>7, <2>9, <3>1
    <3>2. CASE g = f
      <4>1. created[f] \in Nat /\ n \in created[f] + 1 .. latest - 1
        BY <1>1, <1>3, <1>4, <2>2, <2>9, <3>2 DEF FilterTypes
      <4>2. CASE n < from
        <5>1. n \in created[f] + 1 .. from - 1 BY <1>4, <2>1, <4>1, <4>2
        <5> QED BY Zenon, <1>1, <2>2, <2>7, <2>9, <3>2, <5>1
      <4>3. CASE n >= from
        <5>1. from <= latest BY <1>4, <2>1, <4>1, <4>3
        <5> QED BY Zenon, <2>8, <3>2, <4>1, <4>3, <5>1
      <4>4. n \in Int BY <4>1
      <4>5. n < from \/ n >= from BY <2>1, <4>4
      <4> QED BY Zenon, <4>2, <4>3, <4>5
    <3> QED BY Zenon, <3>1, <3>2
  <2> QED BY Zenon, <2>4, <2>6, <2>9 DEF FilterInv
<1> QED BY Zenon, <1>2, <1>6, <1>7

\* A filter is created, with nothing in its past, or deleted
LEMMA FiltersKeep ==
    ASSUME FilterInv, NEW f \in FilterIds,
           DeleteFilter(f) \/ \E r \in Requests : NewFilter(f, r)
    PROVE  FilterInv'
<1>1. FilterTypes /\ Len(chain) \in Nat
  <2>1. FilterTypes BY Zenon DEF FilterInv
  <2> QED BY <2>1 DEF FilterTypes
<1>2. UNCHANGED <<chain, replaced, poll, delivered, failed>>
  BY Zenon DEF DeleteFilter, NewFilter
<1>3. /\ created' \in [FilterIds -> Nat] /\ \A g \in FilterIds \ {f} : created'[g] = created[g]
      /\ \A g \in DOMAIN filters' \ {f} : g \in DOMAIN filters /\ filters'[g] = filters[g]
      /\ filters' = [g \in DOMAIN filters' |-> filters'[g]]
      /\ f \in DOMAIN filters' =>
            /\ filters'[f] \in [request : Requests, last_block_number : Nat]
            /\ created'[f] = Len(chain) /\ filters'[f].last_block_number = Len(chain)
  <2>1. CASE DeleteFilter(f)
    <3>1. filters' = [g \in DOMAIN filters \ {f} |-> filters[g]] /\ created' = created
      BY Zenon, <2>1 DEF DeleteFilter
    <3>2. DOMAIN filters' = DOMAIN filters \ {f} BY Zenon, <3>1
    <3>3. \A g \in DOMAIN filters' : filters'[g] = filters[g] BY Zenon, <3>1, <3>2
    <3> QED BY Zenon, <1>1, <3>1, <3>2, <3>3 DEF FilterTypes
  <2>2. ASSUME NEW r \in Requests, NewFilter(f, r)
        PROVE  <1>3!:
    <3> DEFINE new == [request |-> r, last_block_number |-> Len(chain)]
    <3>1. /\ filters' = [g \in DOMAIN filters \cup {f} |-> IF g = f THEN new ELSE filters[g]]
          /\ created' = [created EXCEPT ![f] = Len(chain)]
      BY Zenon, <2>2 DEF NewFilter, get_latest_block_number
    <3>2. new \in [request : Requests, last_block_number : Nat] /\ new.last_block_number = Len(chain)
      BY <1>1
    <3> HIDE DEF new
    <3>3. DOMAIN filters' = DOMAIN filters \cup {f} BY Zenon, <3>1
    <3>4. filters'[f] = new /\ \A g \in DOMAIN filters' \ {f} : filters'[g] = filters[g]
      BY Zenon, <3>1, <3>3
    <3>5. /\ created' \in [FilterIds -> Nat] /\ created'[f] = Len(chain)
          /\ \A g \in FilterIds \ {f} : created'[g] = created[g]
      BY <1>1, <3>1 DEF FilterTypes
    <3> QED BY Zenon, <3>1, <3>2, <3>3, <3>4, <3>5
  <2> QED BY Zenon, <2>1, <2>2
<1>4. FilterTypes'
  <2>1. DOMAIN filters' \subseteq FilterIds
    BY Zenon, <1>1, <1>3 DEF FilterTypes
  <2>2. \A g \in DOMAIN filters' : filters'[g] \in [request : Requests, last_block_number : Nat]
    BY Zenon, <1>1, <1>3 DEF FilterTypes
  <2>3. \A g \in DOMAIN filters' : filters'[g].last_block_number <= Len(chain)
    <3>1. Len(chain) <= Len(chain) BY <1>1
    <3> QED BY Zenon, <1>1, <1>3, <3>1 DEF FilterTypes
  <2> QED BY Zenon, <1>1, <1>2, <1>3, <2>1, <2>2, <2>3 DEF FilterTypes
<1>5. \A p \in Polls : PollShape(p)'
  BY Zenon, <1>2 DEF FilterInv, PollShape, Querying
<1>6. ASSUME NEW g \in DOMAIN filters' \ failed',
             NEW n \in created'[g] + 1 .. filters'[g].last_block_number - 1
      PROVE  LogsAt(g, n)' \subseteq delivered'[g] \/ \E p \in Polls : Covers(p, g, n)'
  <2>1. g # f
    BY <1>1, <1>3
  <2>2. /\ g \in DOMAIN filters \ failed /\ filters'[g] = filters[g] /\ created'[g] = created[g]
        /\ n \in created[g] + 1 .. filters[g].last_block_number - 1
    BY Zenon, <1>1, <1>2, <1>3, <2>1 DEF FilterTypes
  <2>3. LogsAt(g, n)' = LogsAt(g, n)
    BY <1>2, <2>2 DEF LogsAt, BlockLogs
  <2>4. \A p \in Polls : Covers(p, g, n) => Covers(p, g, n)'
    BY Zenon, <1>2, <2>2, CoversKept
  <2> QED BY Zenon, <1>2, <2>2, <2>3, <2>4 DEF FilterInv
<1> QED BY Zenon, <1>4, <1>5, <1>6 DEF FilterInv

\* Every step of the filters keeps the invariant, if only tips are replaced
LEMMA FilterStep ==
    ASSUME MaxDepth = 1
    PROVE  FilterInv /\ [FiltersNext]_filterVars => FilterInv'
<1> SUFFICES ASSUME FilterInv, [FiltersNext]_filterVars PROVE FilterInv'
  OBVIOUS
<1>1. CASE \E depth \in 0 .. MaxDepth, length \in 1 .. MaxChain : ApplyForkChoice(depth, length)
  BY Zenon, <1>1, ChainSteps
<1>2. ASSUME NEW f \in FilterIds, DeleteFilter(f) \/ \E r \in Requests : NewFilter(f, r)
      PROVE  FilterInv'
  BY Zenon, <1>2, FiltersKeep
<1>3. ASSUME NEW p \in Polls,
             \/ \E f \in DOMAIN filters : BeginPoll(p, f)
             \/ TakeFilter(p) \/ FetchBody(p) \/ FetchReceipts(p) \/ EndPoll(p)
      PROVE  FilterInv'
  BY Zenon, <1>3, BeginKeeps, TakeKeeps, BodyKeeps, ReceiptsKeep, EndKeeps
<1>4. CASE UNCHANGED filterVars
  <2>1. UNCHANGED <<chain, replaced, filters, poll, created, delivered, failed>>
    BY Zenon, <1>4 DEF filterVars
  <2>2. FilterTypes'
    BY Zenon, <2>1 DEF FilterInv, FilterTypes
  <2>3. \A p \in Polls : PollShape(p)'
    BY Zenon, <2>1 DEF FilterInv, PollShape, Querying
  <2>4. /\ \A n : chain'[n] = chain[n]
        /\ failed \subseteq failed' /\ \A f \in FilterIds : delivered[f] \subseteq delivered'[f]
        /\ \A f, n, p : Covers(p, f, n) => Covers(p, f, n)'
    BY Zenon, <2>1, CoversKept
  <2> QED BY Zenon, <2>1, <2>2, <2>3, <2>4, PastKept DEF FilterInv
<1> QED BY Zenon, <1>1, <1>2, <1>3, <1>4 DEF FiltersNext

\* No client that polls a filter misses a log while fork choice replaces no more than
\* the tip: for every number of clients, polls, blocks and replaced tips, whatever the
\* logs and the requests, all the logs below a filter's next start have been handed out
\* once none of its polls is under way, unless a query failed.  The start is moved before
\* the query runs, polls overlap and move it back and forth, and the tip changes while it
\* is read.
THEOREM NoLogEverMissed ==
    ASSUME MaxDepth = 1
    PROVE  FiltersSpec => []NoLogMissed
<1>1. FilterInv => NoLogMissed
  <2> SUFFICES ASSUME FilterInv, NEW f \in DOMAIN filters \ failed, ~Polled(f),
                      NEW n \in created[f] + 1 .. filters[f].last_block_number - 1,
                      NEW l \in BlockLogs(filters[f].request, chain[n], Len(LogsOf[chain[n]]))
               PROVE  <<chain[n], l[1], l[2]>> \in delivered[f]
    BY Zenon DEF NoLogMissed, AllDelivered
  <2>1. \A p \in Polls : ~Covers(p, f, n)
    <3> SUFFICES ASSUME NEW p \in Polls, Covers(p, f, n) PROVE FALSE
      OBVIOUS
    <3>1. poll[p] # PollIdle BY DEF Covers, Querying, PollIdle
    <3> QED BY Zenon, <3>1 DEF Covers, Polled
  <2>2. LogsAt(f, n) \subseteq delivered[f]
    BY Zenon, <2>1 DEF FilterInv
  <2> QED BY <2>2 DEF LogsAt
<1> QED BY <1>1, FilterStarts, FilterStep, PTL DEF FiltersSpec

----------------------------------------------------------------------------
(* Withdrawal proofs *)

\* The level above a level, and the sibling of the node at place p of a level
Up(s) ==
    [i \in 1 .. (Len(s) + 1) \div 2 |->
        Keccak(s[2 * i - 1], IF 2 * i <= Len(s) THEN s[2 * i] ELSE s[2 * i - 1])]
Sib(s, p) == IF p % 2 = 1 THEN s[p] ELSE IF p + 2 <= Len(s) THEN s[p + 2] ELSE s[p + 1]

\* A level is a sequence of different nodes
IsLevel(s) ==
    /\ Len(s) \in Nat \ {0}
    /\ s = [i \in 1 .. Len(s) |-> s[i]]
    /\ \A i, j \in 1 .. Len(s) : s[i] = s[j] => i = j

\* L holds the first n levels over the leaves, P the place on each that leads to the withdrawal
Tower(L, P, n) ==
    /\ n \in Nat \ {0}
    /\ L[1] = leaves /\ P[1] = index
    /\ \A k \in 1 .. n : IsLevel(L[k]) /\ P[k] \in 0 .. Len(L[k]) - 1
    /\ \A k \in 1 .. n - 1 : L[k + 1] = Up(L[k]) /\ P[k + 1] = P[k] \div 2
    /\ \A k \in 2 .. n - 1 : Len(L[k]) > 1

\* The nodes of the tower
NodesOf(L, n) == UNION {{L[k][i] : i \in 1 .. Len(L[k])} : k \in 1 .. n}

\* The siblings of the places above the first k levels
Leads(L, P, k) == \A j \in 1 .. Len(proof) : proof[j] = Sib(L[k + j], P[k + j])

Own == [leaf |-> leaves[index + 1], index |-> index]

Building(L, P, n) ==
    /\ data = L[n] /\ (n = 1 \/ Len(data) > 1)
    /\ target = leaves[index + 1] /\ proof = <<>>

Built(L, P, n) == n >= 2 /\ Len(L[n]) = 1 /\ root = L[n][1]

Proving(L, P, n) ==
    /\ proof \in Seq(NodesOf(L, n)) /\ Len(proof) + 1 < n
    /\ data = L[Len(proof) + 1] /\ target = L[Len(proof) + 1][P[Len(proof) + 1] + 1]
    /\ Leads(L, P, 0)

Claiming(L, P, n) ==
    proof \in Seq(NodesOf(L, n)) /\ Len(proof) + 1 = n /\ Leads(L, P, 0)

\* The own claim is at the node of its place, and who is at that node made the own claim
OnPath(L, P, k) ==
    /\ claim = Own => target = L[k][P[k] + 1] /\ place = P[k]
    /\ target = L[k][P[k] + 1] => claim.leaf = leaves[index + 1]

Verifying(L, P, n) ==
    /\ proof \in Seq(NodesOf(L, n)) /\ Len(proof) \in 1 .. n - 1 /\ place \in Nat
    /\ Leads(L, P, n - 1 - Len(proof)) /\ OnPath(L, P, n - Len(proof))

AtPhase(L, P, n) ==
    \/ phase = "merkelize" /\ Building(L, P, n)
    \/ /\ Built(L, P, n)
       /\ \/ phase = "restart" /\ target = leaves[index + 1] /\ proof = <<>>
          \/ phase = "prove" /\ Proving(L, P, n)
          \/ phase = "claim" /\ Claiming(L, P, n)
          \/ phase = "verify" /\ Verifying(L, P, n)
          \/ phase = "done" /\ OnPath(L, P, n)

TreeInv == \E n, L, P : Tower(L, P, n) /\ AtPhase(L, P, n)

\* A level has half as many nodes as the one below, an odd one counted as a pair
LEMMA LenOfUp ==
    ASSUME NEW s, IsLevel(s)
    PROVE  /\ (Len(s) + 1) \div 2 \in Nat \ {0}
           /\ Len(Up(s)) = (Len(s) + 1) \div 2
<1>1. (Len(s) + 1) \div 2 \in Nat \ {0}
  BY DEF IsLevel
<1>2. QED
  BY <1>1 DEF Up

\* The nodes of a level differ because those of the level below do
LEMMA UpLevel ==
    ASSUME NEW s, IsLevel(s)
    PROVE  IsLevel(Up(s))
<1>1. (Len(s) + 1) \div 2 \in Nat \ {0} /\ Len(Up(s)) = (Len(s) + 1) \div 2
  BY LenOfUp
<1>2. Up(s) = [i \in 1 .. Len(Up(s)) |-> Up(s)[i]]
  BY <1>1 DEF Up
<1>3. ASSUME NEW i \in 1 .. Len(Up(s)), NEW j \in 1 .. Len(Up(s)), Up(s)[i] = Up(s)[j]
      PROVE  i = j
  <2>1. 2 * i - 1 \in 1 .. Len(s) /\ 2 * j - 1 \in 1 .. Len(s)
    BY <1>1 DEF IsLevel
  <2>2. s[2 * i - 1] = s[2 * j - 1]
    BY <1>1, <1>3 DEF Up, Keccak
  <2>3. 2 * i - 1 = 2 * j - 1
    BY <2>1, <2>2 DEF IsLevel
  <2>4. QED
    BY <2>3, <1>1
<1>4. QED
  BY <1>1, <1>2, <1>3 DEF IsLevel

\* The node over a place is the hash of the node there and of its sibling, in the order the
\* place says
LEMMA UpNode ==
    ASSUME NEW s, IsLevel(s), NEW p \in 0 .. Len(s) - 1
    PROVE  /\ p \div 2 \in 0 .. Len(Up(s)) - 1
           /\ p % 2 = 0 => Up(s)[p \div 2 + 1] = Keccak(s[p + 1], Sib(s, p))
           /\ p % 2 = 1 => Up(s)[p \div 2 + 1] = Keccak(Sib(s, p), s[p + 1])
           /\ p % 2 \in {0, 1}
<1>1. (Len(s) + 1) \div 2 \in Nat \ {0} /\ Len(Up(s)) = (Len(s) + 1) \div 2
  BY LenOfUp
<1>2. PICK q \in Nat : q = p \div 2 /\ (p = 2 * q \/ p = 2 * q + 1)
  BY DEF IsLevel
<1>3. q \in 0 .. Len(Up(s)) - 1
  BY <1>1, <1>2 DEF IsLevel
<1>4. Up(s)[q + 1] = Keccak(s[2 * (q + 1) - 1],
                            IF 2 * (q + 1) <= Len(s) THEN s[2 * (q + 1)] ELSE s[2 * (q + 1) - 1])
  BY <1>1, <1>3 DEF Up
<1>5. 2 * (q + 1) - 1 = 2 * q + 1 /\ 2 * (q + 1) = 2 * q + 2
  OBVIOUS
<1>6. CASE p = 2 * q
  <2>1. p % 2 = 0 /\ p % 2 # 1
    BY <1>6
  <2>2. Up(s)[q + 1] = Keccak(s[p + 1], IF p + 2 <= Len(s) THEN s[p + 2] ELSE s[p + 1])
    BY <1>4, <1>5, <1>6
  <2>3. QED
    BY <1>2, <1>3, <2>1, <2>2 DEF Sib
<1>7. CASE p = 2 * q + 1
  <2>1. p % 2 = 1 /\ p % 2 # 0
    BY <1>7
  <2>2. 2 * q + 2 <= Len(s) /\ 2 * q + 2 = p + 1
    BY <1>7 DEF IsLevel
  <2>3. Up(s)[q + 1] = Keccak(s[p], s[p + 1])
    BY <1>4, <1>5, <1>7, <2>2
  <2>4. QED
    BY <1>2, <1>3, <2>1, <2>3 DEF Sib
<1>8. QED
  BY <1>2, <1>6, <1>7

\* Only the node of a place hashes with its sibling to the node over it, on whichever side
LEMMA UpOnly ==
    ASSUME NEW s, IsLevel(s), NEW p \in 0 .. Len(s) - 1, NEW x,
           \/ Keccak(x, Sib(s, p)) = Up(s)[p \div 2 + 1]
           \/ Keccak(Sib(s, p), x) = Up(s)[p \div 2 + 1]
    PROVE  x = s[p + 1]
<1>1. /\ p % 2 = 0 => Up(s)[p \div 2 + 1] = Keccak(s[p + 1], Sib(s, p))
      /\ p % 2 = 1 => Up(s)[p \div 2 + 1] = Keccak(Sib(s, p), s[p + 1])
      /\ p % 2 \in {0, 1}
  BY Zenon, UpNode
<1>2. CASE p % 2 = 0
  BY <1>1, <1>2 DEF Keccak
<1>3. CASE p % 2 = 1
  BY <1>1, <1>3 DEF Keccak
<1>4. QED
  BY <1>1, <1>2, <1>3

\* The loops compute the level above
LEMMA LevelAbove == NextLevel = Up(data)
  BY DEF NextLevel, Up, Chunks, LeftOf, RightOf

\* On every level one chunk holds the target, and the node pushed is its sibling
LEMMA OneHit ==
    ASSUME IsLevel(data), NEW p \in 0 .. Len(data) - 1, target = data[p + 1]
    PROVE  /\ {i \in Chunks : target \in {LeftOf(i), RightOf(i)}} = {p \div 2 + 1}
           /\ Sibling(p \div 2 + 1) = Sib(data, p)
           /\ NextLevel = Up(data)
<1>1. PICK q \in Nat : q = p \div 2 /\ (p = 2 * q \/ p = 2 * q + 1)
  BY DEF IsLevel
<1>2. q + 1 \in Chunks
  BY <1>1 DEF Chunks, IsLevel
<1>3. target \in {LeftOf(q + 1), RightOf(q + 1)}
  <2>1. 2 * (q + 1) - 1 = 2 * q + 1 /\ 2 * (q + 1) = 2 * q + 2
    OBVIOUS
  <2>2. CASE p = 2 * q
    BY <2>1, <2>2 DEF LeftOf
  <2>3. CASE p = 2 * q + 1
    <3>1. 2 * q + 2 <= Len(data) /\ p + 1 = 2 * q + 2
      BY <2>3 DEF IsLevel
    <3>2. QED
      BY <2>1, <3>1 DEF RightOf
  <2>4. QED
    BY <1>1, <2>2, <2>3
<1>4. ASSUME NEW i \in Chunks, target \in {LeftOf(i), RightOf(i)} PROVE i = q + 1
  <2>1. i \in Nat /\ 2 * i - 1 \in 1 .. Len(data)
    BY DEF Chunks, IsLevel
  <2> p + 1 \in 1 .. Len(data) /\ \A k \in 1 .. Len(data) : data[k] = target => k = p + 1
    BY DEF IsLevel
  <2>2. CASE target = data[2 * i - 1]
    <3>1. 2 * i - 1 = p + 1
      BY <2>1, <2>2
    <3>2. QED
      BY <1>1, <2>1, <3>1
  <2>3. CASE 2 * i <= Len(data) /\ target = data[2 * i]
    <3>1. 2 * i = p + 1
      <4>1. 2 * i \in 1 .. Len(data)
        BY <2>1, <2>3 DEF IsLevel
      <4>2. QED
        BY <2>3, <4>1
    <3>2. QED
      BY <1>1, <2>1, <3>1
  <2>4. QED
    BY <1>4, <2>2, <2>3 DEF LeftOf, RightOf
<1>5. Sibling(q + 1) = Sib(data, p)
  <2>1. 2 * (q + 1) - 1 = 2 * q + 1 /\ 2 * (q + 1) = 2 * q + 2
    OBVIOUS
  <2>2. CASE p = 2 * q
    <3>1. p % 2 # 1
      BY <2>2
    <3>2. LeftOf(q + 1) = target
      BY <2>1, <2>2 DEF LeftOf
    <3>3. RightOf(q + 1) = IF p + 2 <= Len(data) THEN data[p + 2] ELSE data[p + 1]
      BY <2>1, <2>2 DEF RightOf, LeftOf
    <3>4. QED
      BY <3>1, <3>2, <3>3 DEF Sibling, Sib
  <2>3. CASE p = 2 * q + 1
    <3>1. p % 2 = 1
      BY <2>3
    <3>2. LeftOf(q + 1) = data[p]
      BY <2>1, <2>3 DEF LeftOf
    <3>3. data[p] # data[p + 1]
      BY <2>3 DEF IsLevel
    <3>4. QED
      BY <3>1, <3>2, <3>3 DEF Sibling, Sib
  <2>4. QED
    BY <1>1, <2>2, <2>3
<1>6. NextLevel = Up(data)
  BY LevelAbove
<1>7. QED
  BY <1>1, <1>2, <1>3, <1>4, <1>5, <1>6

\* The loop meets a single chunk once
LEMMA MetOne ==
    ASSUME NEW c
    PROVE  AsMet({c}) = <<c>>
<1>1. Cardinality({c}) = 1
  BY Zenon, FS_Singleton
<1>2. 1 .. 1 = {1}
  OBVIOUS
<1>3. ASSUME NEW s \in [{1} -> {c}] PROVE s = <<c>>
  OBVIOUS
<1>4. <<c>> \in [{1} -> {c}]
  OBVIOUS
<1>5. \A i, j \in {1} : i < j => <<c>>[i] < <<c>>[j]
  OBVIOUS
<1>6. AsMet({c}) = CHOOSE s \in [{1} -> {c}] : \A i, j \in {1} : i < j => s[i] < s[j]
  BY Zenon, <1>1, <1>2 DEF AsMet
<1>7. QED
  BY <1>3, <1>4, <1>5, <1>6

\* The withdrawals of a block are a level: their hashes differ
LEMMA SubLevel ==
    ASSUME NEW n \in 1 .. Len(Hashes)
    PROVE  IsLevel(SubSeq(Hashes, 1, n))
<1>1. Hashes \in Seq(Range(Hashes)) /\ Len(Hashes) \in Nat /\ n \in Nat \ {0}
  BY MerkleAssumption
<1>2. DOMAIN Hashes = 1 .. Len(Hashes)
  BY <1>1
<1>3. \A i, j \in 1 .. Len(Hashes) : Hashes[i] = Hashes[j] => i = j
  BY MerkleAssumption, <1>2 DEF IsInjective
<1>4. SubSeq(Hashes, 1, n) = [i \in 1 .. n |-> Hashes[i]]
  BY <1>1
<1>5. Len([i \in 1 .. n |-> Hashes[i]]) = n
  BY <1>1
<1>6. \A i \in 1 .. n : i \in 1 .. Len(Hashes)
  BY <1>1
<1>7. QED
  BY <1>1, <1>3, <1>4, <1>5, <1>6 DEF IsLevel

\* In the initial state the tower is the leaves
LEMMA TreeStarts == TreeInit => TreeInv
<1> SUFFICES ASSUME TreeInit PROVE TreeInv
  OBVIOUS
<1>1. IsLevel(leaves)
  BY Zenon, SubLevel DEF TreeInit
<1> DEFINE L == [k \in 1 .. 1 |-> leaves]
           P == [k \in 1 .. 1 |-> index]
<1>2. Tower(L, P, 1)
  BY <1>1 DEF Tower, TreeInit
<1>3. AtPhase(L, P, 1)
  BY DEF AtPhase, Building, TreeInit
<1>4. QED
  BY <1>2, <1>3 DEF TreeInv

\* A tower whose top is no root yet grows by a level
LEMMA TowerGrows ==
    ASSUME NEW n, NEW L, NEW P, Tower(L, P, n), n = 1 \/ Len(L[n]) > 1,
           NEW M, M = [k \in 1 .. n + 1 |-> IF k = n + 1 THEN Up(L[n]) ELSE L[k]],
           NEW Q, Q = [k \in 1 .. n + 1 |-> IF k = n + 1 THEN P[n] \div 2 ELSE P[k]]
    PROVE  Tower(M, Q, n + 1) /\ M[n + 1] = Up(L[n])
<1>1. n \in Nat \ {0} /\ n \in 1 .. n
  BY DEF Tower
<1>2. \A k \in 1 .. n : M[k] = L[k] /\ Q[k] = P[k]
  BY <1>1
<1>3. M[n + 1] = Up(L[n]) /\ Q[n + 1] = P[n] \div 2
  BY <1>1
<1>4. IsLevel(L[n]) /\ P[n] \in 0 .. Len(L[n]) - 1
  BY <1>1 DEF Tower
<1>5. IsLevel(M[n + 1]) /\ Q[n + 1] \in 0 .. Len(M[n + 1]) - 1
  BY Zenon, <1>3, <1>4, UpLevel, UpNode
<1>6. M[1] = leaves /\ Q[1] = index
  BY <1>1, <1>2 DEF Tower
<1>7. ASSUME NEW k \in 1 .. n + 1 PROVE IsLevel(M[k]) /\ Q[k] \in 0 .. Len(M[k]) - 1
  <2>1. CASE k = n + 1
    BY <1>5, <2>1
  <2>2. CASE k # n + 1
    <3>1. k \in 1 .. n
      BY <1>1, <2>2
    <3>2. QED
      BY <1>2, <3>1 DEF Tower
  <2>3. QED
    BY <2>1, <2>2
<1>8. ASSUME NEW k \in 1 .. n PROVE M[k + 1] = Up(M[k]) /\ Q[k + 1] = Q[k] \div 2
  <2>1. CASE k = n
    BY <1>1, <1>2, <1>3, <2>1
  <2>2. CASE k # n
    <3>1. k \in 1 .. n - 1 /\ k + 1 \in 1 .. n
      BY <1>1, <2>2
    <3>2. QED
      BY <1>2, <3>1 DEF Tower
  <2>3. QED
    BY <2>1, <2>2
<1>9. ASSUME NEW k \in 2 .. n PROVE Len(M[k]) > 1
  <2>1. k \in 1 .. n /\ k # 1 /\ (k = n \/ k \in 2 .. n - 1)
    BY <1>1
  <2>2. QED
    BY <1>2, <2>1 DEF Tower
<1>10. n + 1 \in Nat \ {0} /\ 1 .. (n + 1) - 1 = 1 .. n /\ 2 .. (n + 1) - 1 = 2 .. n
  BY <1>1
<1>11. \A k \in 1 .. (n + 1) - 1 : M[k + 1] = Up(M[k]) /\ Q[k + 1] = Q[k] \div 2
  BY Zenon, <1>8, <1>10
<1>12. \A k \in 2 .. (n + 1) - 1 : Len(M[k]) > 1
  BY Zenon, <1>9, <1>10
<1>13. QED
  BY Zenon, <1>3, <1>6, <1>7, <1>10, <1>11, <1>12 DEF Tower

\* merkelize adds a level, and publishes the root when it has one node
LEMMA MerkelizeKeeps ==
    ASSUME NEW n, NEW L, NEW P, Tower(L, P, n), AtPhase(L, P, n), Merkelize
    PROVE  TreeInv'
<1>1. /\ phase = "merkelize" /\ data = L[n] /\ (n = 1 \/ Len(data) > 1)
      /\ target = leaves[index + 1] /\ proof = <<>>
  BY DEF Merkelize, AtPhase, Building
<1>2. n \in Nat \ {0} /\ IsLevel(data)
  BY <1>1 DEF Tower
<1>3. NextLevel = Up(L[n])
  BY <1>1, LevelAbove
<1>4. PICK M, Q : Tower(M, Q, n + 1) /\ M[n + 1] = Up(L[n])
  BY Zenon, <1>1, TowerGrows
<1>5. UNCHANGED <<leaves, index, target, proof>> /\ data' = M[n + 1]
  BY <1>3, <1>4 DEF Merkelize
<1>6. Tower(M, Q, n + 1)'
  BY <1>4, <1>5 DEF Tower
<1>7. IsLevel(M[n + 1])
  BY <1>2, <1>4 DEF Tower
<1>8. AtPhase(M, Q, n + 1)'
  <2>1. CASE Len(NextLevel) > 1
    <3>1. phase' = "merkelize"
      BY <1>1, <2>1 DEF Merkelize
    <3>2. QED
      BY <1>1, <1>3, <1>4, <1>5, <2>1, <3>1 DEF AtPhase, Building
  <2>2. CASE ~(Len(NextLevel) > 1)
    <3>1. phase' = "restart" /\ root' = M[n + 1][1]
      BY <1>3, <1>4, <2>2 DEF Merkelize
    <3>2. Len(M[n + 1]) = 1
      <4>1. Len(M[n + 1]) \in Nat \ {0}
        BY Zenon, <1>7 DEF IsLevel
      <4>2. ~(Len(M[n + 1]) > 1)
        BY Zenon, <1>3, <1>4, <2>2
      <4>3. \A x \in Nat \ {0} : ~(x > 1) => x = 1
        OBVIOUS
      <4>4. QED
        BY Zenon, <4>1, <4>2, <4>3
    <3>3. n + 1 >= 2
      BY <1>2
    <3>4. QED
      BY <1>1, <1>5, <3>1, <3>2, <3>3 DEF AtPhase, Built
  <2>3. QED
    BY <2>1, <2>2
<1>9. QED
  BY <1>6, <1>8 DEF TreeInv

\* A sibling is a node of the tower
LEMMA SiblingOf ==
    ASSUME NEW n, NEW L, NEW P, Tower(L, P, n), NEW k \in 1 .. n
    PROVE  Sib(L[k], P[k]) \in NodesOf(L, n)
<1>1. Len(L[k]) \in Nat \ {0} /\ P[k] \in 0 .. Len(L[k]) - 1
  BY Zenon DEF Tower, IsLevel
<1>2. \A l \in Nat \ {0} : \A p \in 0 .. l - 1 :
        /\ p + 1 \in 1 .. l
        /\ p + 2 <= l => p + 2 \in 1 .. l
        /\ p % 2 = 1 => p \in 1 .. l
  OBVIOUS
<1>3. PICK i \in 1 .. Len(L[k]) : Sib(L[k], P[k]) = L[k][i]
  <2>1. CASE P[k] % 2 = 1
    BY <1>1, <1>2, <2>1 DEF Sib
  <2>2. CASE P[k] % 2 # 1 /\ P[k] + 2 <= Len(L[k])
    BY <1>1, <1>2, <2>2 DEF Sib
  <2>3. CASE P[k] % 2 # 1 /\ ~(P[k] + 2 <= Len(L[k]))
    BY Zenon, <1>1, <1>2, <2>3 DEF Sib
  <2>4. QED
    BY Zenon, <2>1, <2>2, <2>3
<1>4. QED
  BY <1>3 DEF NodesOf

\* merkle_proof starts over from the leaves
LEMMA ProofStartKeeps ==
    ASSUME NEW n, NEW L, NEW P, Tower(L, P, n), AtPhase(L, P, n), ProofStart
    PROVE  TreeInv'
<1>1. /\ phase = "restart" /\ target = leaves[index + 1] /\ proof = <<>> /\ Built(L, P, n)
  BY DEF ProofStart, AtPhase
<1>2. /\ phase' = "prove" /\ data' = leaves
      /\ UNCHANGED <<leaves, index, root, target, proof>>
  BY DEF ProofStart
<1>3. Tower(L, P, n)' /\ Built(L, P, n)'
  BY <1>1, <1>2 DEF Tower, Built
<1>4. L[1] = leaves /\ P[1] = index /\ n \in Nat /\ n >= 2
  BY <1>1 DEF Tower, Built
<1>5. Len(proof') = 0 /\ Len(proof') + 1 = 1 /\ proof' \in Seq(NodesOf(L, n)')
  BY <1>1, <1>2
<1>6. Leads(L, P, 0)'
  BY <1>5 DEF Leads
<1>7. Proving(L, P, n)'
  BY <1>1, <1>2, <1>4, <1>5, <1>6 DEF Proving
<1>8. QED
  BY <1>2, <1>3, <1>7 DEF TreeInv, AtPhase

\* One level of merkle_proof pushes the sibling and moves the target up
LEMMA PushOne ==
    ASSUME IsLevel(data), NEW p \in 0 .. Len(data) - 1, target = data[p + 1], MerkleProof
    PROVE  proof' = proof \o <<Sib(data, p)>> /\ target' = Up(data)[p \div 2 + 1]
<1> DEFINE c == p \div 2 + 1
<1>1. /\ {i \in Chunks : target \in {LeftOf(i), RightOf(i)}} = {c}
      /\ Sibling(c) = Sib(data, p) /\ NextLevel = Up(data)
  BY OneHit
<1> HIDE DEF c
<1>2. AsMet({i \in Chunks : target \in {LeftOf(i), RightOf(i)}}) = <<c>>
  BY Zenon, <1>1, MetOne
<1>3. /\ proof' = proof \o [h \in DOMAIN <<c>> |-> Sibling(<<c>>[h])]
      /\ target' = IF <<c>> = <<>> THEN target ELSE NextLevel[<<c>>[Len(<<c>>)]]
  BY Zenon, <1>2 DEF MerkleProof
<1>4. [h \in DOMAIN <<c>> |-> Sibling(<<c>>[h])] = <<Sibling(c)>>
  OBVIOUS
<1>5. <<c>> # <<>> /\ <<c>>[Len(<<c>>)] = c
  OBVIOUS
<1>6. QED
  BY Zenon, <1>1, <1>3, <1>4, <1>5 DEF c

\* merkle_proof climbs the same tower as merkelize, and stops at the same level
LEMMA MerkleProofKeeps ==
    ASSUME NEW n, NEW L, NEW P, Tower(L, P, n), AtPhase(L, P, n), MerkleProof
    PROVE  TreeInv'
<1> DEFINE m == Len(proof) + 1
           x == Sib(L[m], P[m])
<1>1. phase = "prove" /\ Built(L, P, n) /\ Proving(L, P, n)
  BY DEF MerkleProof, AtPhase
<1>2. /\ proof \in Seq(NodesOf(L, n)) /\ m < n /\ data = L[m] /\ target = data[P[m] + 1]
      /\ Leads(L, P, 0)
  BY Zenon, <1>1 DEF Proving
<1>3. m \in 1 .. n - 1 /\ m \in 1 .. n /\ m + 1 \in 1 .. n /\ m \in Nat /\ n \in Nat
  BY <1>2 DEF Tower
<1>4. IsLevel(data) /\ P[m] \in 0 .. Len(data) - 1
  BY Zenon, <1>2, <1>3 DEF Tower
<1>5. proof' = proof \o <<x>> /\ target' = Up(data)[P[m] \div 2 + 1]
  BY Zenon, <1>2, <1>4, PushOne
<1>6. L[m + 1] = Up(data) /\ P[m + 1] = P[m] \div 2
  BY Zenon, <1>2, <1>3 DEF Tower
<1>7. UNCHANGED <<leaves, index, root>> /\ data' = L[m + 1]
  BY <1>6, LevelAbove DEF MerkleProof
<1>8. Tower(L, P, n)' /\ Built(L, P, n)'
  BY <1>1, <1>7 DEF Tower, Built
<1>9. x \in NodesOf(L, n)
  BY Zenon, <1>3, SiblingOf
<1> HIDE DEF x
<1>10. /\ proof' \in Seq(NodesOf(L, n)) /\ Len(proof') = m
       /\ \A j \in 1 .. m - 1 : proof'[j] = proof[j]
       /\ proof'[m] = x
  BY <1>2, <1>3, <1>5, <1>9
<1>11. Leads(L, P, 0)'
  <2>1. ASSUME NEW j \in 1 .. m PROVE proof'[j] = Sib(L[0 + j], P[0 + j])
    <3>1. 0 + j = j
      BY <1>3
    <3>2. CASE j = m
      BY <1>10, <3>1, <3>2 DEF x
    <3>3. CASE j # m
      <4>1. j \in 1 .. m - 1 /\ j \in 1 .. Len(proof)
        BY <1>2, <1>3, <3>3
      <4>2. QED
        BY Zenon, <1>2, <1>10, <4>1 DEF Leads
    <3>4. QED
      BY <3>2, <3>3
  <2>2. QED
    BY Zenon, <1>10, <2>1 DEF Leads
<1>12. CASE Len(NextLevel) > 1
  <2>1. phase' = "prove"
    BY <1>1, <1>12 DEF MerkleProof
  <2>2. m + 1 # n
    <3>1. Len(L[m + 1]) > 1
      BY <1>6, <1>12, LevelAbove
    <3>2. Len(L[n]) = 1
      BY Zenon, <1>1 DEF Built
    <3>3. ~(1 > 1)
      OBVIOUS
    <3>4. QED
      BY Zenon, <3>1, <3>2, <3>3
  <2>3. m + 1 < n
    BY <1>3, <2>2
  <2>4. Proving(L, P, n)'
    BY Zenon, <1>5, <1>6, <1>7, <1>10, <1>11, <2>3 DEF Proving, NodesOf
  <2>5. QED
    BY Zenon, <1>8, <2>1, <2>4 DEF TreeInv, AtPhase
<1>13. CASE ~(Len(NextLevel) > 1)
  <2>1. phase' = "claim"
    BY <1>13 DEF MerkleProof
  <2>2. m + 1 \notin 2 .. n - 1
    <3>1. ~(Len(L[m + 1]) > 1)
      BY <1>6, <1>13, LevelAbove
    <3>2. \A k \in 2 .. n - 1 : Len(L[k]) > 1
      BY Zenon DEF Tower
    <3>3. QED
      BY Zenon, <3>1, <3>2
  <2>3. m + 1 = n
    BY <1>3, <2>2
  <2>4. Claiming(L, P, n)'
    BY Zenon, <1>10, <1>11, <2>3 DEF Claiming, NodesOf
  <2>5. QED
    BY Zenon, <1>8, <2>1, <2>4 DEF TreeInv, AtPhase
<1>14. QED
  BY Zenon, <1>12, <1>13

\* A claim starts at the leaves, with whatever leaf and index the caller gives
LEMMA ClaimStartKeeps ==
    ASSUME NEW n, NEW L, NEW P, Tower(L, P, n), AtPhase(L, P, n), ClaimStart
    PROVE  TreeInv'
<1>1. phase = "claim" /\ Built(L, P, n) /\ Claiming(L, P, n)
  BY DEF ClaimStart, AtPhase
<1>2. phase' = "verify" /\ UNCHANGED <<leaves, index, root, proof>>
  BY DEF ClaimStart
<1>3. PICK leaf \in Range(Hashes), i \in 0 .. 2 * Len(Hashes) :
        claim' = [leaf |-> leaf, index |-> i] /\ target' = leaf /\ place' = i
  BY Zenon DEF ClaimStart
<1>4. place' \in Nat
  BY <1>3, MerkleAssumption
<1>5. Tower(L, P, n)' /\ Built(L, P, n)'
  BY <1>1, <1>2 DEF Tower, Built
<1>6. n \in Nat /\ n >= 2 /\ L[1] = leaves /\ P[1] = index
  BY <1>1 DEF Tower, Built
<1>7. Len(proof) \in 1 .. n - 1 /\ n - 1 - Len(proof) = 0 /\ n - Len(proof) = 1
  BY <1>1, <1>6 DEF Claiming
<1>8. Leads(L, P, 0)' /\ proof' \in Seq(NodesOf(L, n))
  BY <1>1, <1>2 DEF Claiming, Leads
<1>9. OnPath(L, P, 1)'
  BY <1>2, <1>3, <1>6 DEF OnPath, Own
<1>10. Verifying(L, P, n)'
  BY Zenon, <1>2, <1>4, <1>7, <1>8, <1>9 DEF Verifying, NodesOf
<1>11. QED
  BY Zenon, <1>2, <1>5, <1>10 DEF TreeInv, AtPhase

\* One hash of the contract: the own claim stays on its path, and no other one joins it
LEMMA OneUp ==
    ASSUME NEW n, NEW L, NEW P, Tower(L, P, n), NEW k \in 1 .. n - 1, OnPath(L, P, k),
           place \in Nat,
           UNCHANGED <<leaves, index, claim>>,
           target' = IF place % 2 = 0 THEN Keccak(target, Sib(L[k], P[k]))
                                      ELSE Keccak(Sib(L[k], P[k]), target),
           place' = place \div 2
    PROVE  OnPath(L, P, k + 1)'
<1>1. k \in 1 .. n
  BY DEF Tower
<1>2. IsLevel(L[k]) /\ P[k] \in 0 .. Len(L[k]) - 1 /\ L[k + 1] = Up(L[k]) /\ P[k + 1] = P[k] \div 2
  BY Zenon, <1>1 DEF Tower
<1>3. /\ P[k] % 2 = 0 => Up(L[k])[P[k] \div 2 + 1] = Keccak(L[k][P[k] + 1], Sib(L[k], P[k]))
      /\ P[k] % 2 = 1 => Up(L[k])[P[k] \div 2 + 1] = Keccak(Sib(L[k], P[k]), L[k][P[k] + 1])
      /\ P[k] % 2 \in {0, 1}
  BY Zenon, <1>2, UpNode
<1>4. ASSUME claim' = Own' PROVE target' = L[k + 1][P[k + 1] + 1] /\ place' = P[k + 1]
  <2>1. target = L[k][P[k] + 1] /\ place = P[k]
    BY <1>4 DEF OnPath, Own
  <2>2. place' = P[k + 1]
    BY Zenon, <1>2, <2>1
  <2>3. CASE P[k] % 2 = 0
    BY Zenon, <1>2, <1>3, <2>1, <2>3
  <2>4. CASE P[k] % 2 = 1
    <3>1. place % 2 # 0
      BY <2>1, <2>4
    <3>2. QED
      BY Zenon, <1>2, <1>3, <2>1, <2>4, <3>1
  <2>5. QED
    BY Zenon, <1>3, <2>2, <2>3, <2>4
<1>5. ASSUME target' = L[k + 1][P[k + 1] + 1] PROVE target = L[k][P[k] + 1]
  <2>1. \/ Keccak(target, Sib(L[k], P[k])) = Up(L[k])[P[k] \div 2 + 1]
        \/ Keccak(Sib(L[k], P[k]), target) = Up(L[k])[P[k] \div 2 + 1]
    BY Zenon, <1>2, <1>5
  <2>2. QED
    BY Zenon, <1>2, <2>1, UpOnly
<1>6. QED
  BY <1>4, <1>5 DEF OnPath, Own

\* _verifyWithdrawProof climbs one level
LEMMA VerifyKeeps ==
    ASSUME NEW n, NEW L, NEW P, Tower(L, P, n), AtPhase(L, P, n), VerifyWithdrawProof
    PROVE  TreeInv'
<1> SUFFICES ASSUME NEW k, k = n - Len(proof), NEW N, N = NodesOf(L, n)
             PROVE  TreeInv'
  OBVIOUS
<1>1. phase = "verify" /\ Built(L, P, n) /\ Verifying(L, P, n)
  BY DEF VerifyWithdrawProof, AtPhase
<1>2. /\ proof \in Seq(N) /\ Len(proof) \in 1 .. n - 1 /\ place \in Nat
      /\ Leads(L, P, n - 1 - Len(proof)) /\ OnPath(L, P, k)
  BY Zenon, <1>1 DEF Verifying
<1>3. n \in Nat /\ k \in 1 .. n - 1 /\ n - 1 - Len(proof) = k - 1 /\ k - 1 + 1 = k
  BY <1>2 DEF Tower
<1>4. /\ UNCHANGED <<leaves, index, root, claim>> /\ place' = place \div 2
      /\ proof' = Tail(proof)
      /\ target' = IF place % 2 = 0 THEN Keccak(target, Head(proof))
                                    ELSE Keccak(Head(proof), target)
      /\ phase' = IF proof' = <<>> THEN "done" ELSE "verify"
  BY <1>1 DEF VerifyWithdrawProof
<1>5. /\ Head(proof) = proof[1] /\ proof' \in Seq(N) /\ Len(proof') = Len(proof) - 1
      /\ \A j \in 1 .. Len(proof') : proof'[j] = proof[j + 1]
  BY <1>2, <1>4
<1>6. Head(proof) = Sib(L[k], P[k])
  <2>1. 1 \in 1 .. Len(proof)
    BY <1>2, <1>3
  <2>2. proof[1] = Sib(L[k - 1 + 1], P[k - 1 + 1])
    BY Zenon, <1>2, <1>3, <2>1 DEF Leads
  <2>3. QED
    BY Zenon, <1>3, <1>5, <2>2
<1>7. OnPath(L, P, k + 1)'
  <2>1. UNCHANGED <<leaves, index, claim>>
    BY <1>4
  <2>2. target' = IF place % 2 = 0 THEN Keccak(target, Sib(L[k], P[k]))
                                    ELSE Keccak(Sib(L[k], P[k]), target)
    BY Zenon, <1>4, <1>6
  <2>3. QED
    BY Zenon, <1>2, <1>3, <1>4, <2>1, <2>2, OneUp
<1>8. Tower(L, P, n)' /\ Built(L, P, n)'
  BY Zenon, <1>1, <1>4 DEF Tower, Built
<1>9. place' \in Nat
  BY <1>2, <1>4
<1>10. CASE proof' = <<>>
  <2>1. Len(proof') = 0
    BY <1>10
  <2>2. k + 1 = n
    <3>1. Len(proof) = 1
      BY <1>2, <1>3, <1>5, <2>1
    <3>2. QED
      BY <1>3, <3>1
  <2>3. QED
    BY Zenon, <1>4, <1>7, <1>8, <1>10, <2>2 DEF TreeInv, AtPhase
<1>11. CASE proof' # <<>>
  <2>1. Len(proof') \in 1 .. n - 1 /\ n - 1 - Len(proof') = k /\ n - Len(proof') = k + 1
    BY <1>2, <1>3, <1>5, <1>11
  <2>2. Leads(L, P, k)'
    <3>1. ASSUME NEW j \in 1 .. Len(proof') PROVE proof'[j] = Sib(L[k + j], P[k + j])
      <4>1. j + 1 \in 1 .. Len(proof) /\ k - 1 + (j + 1) = k + j
        BY <1>2, <1>3, <1>5
      <4>2. proof[j + 1] = Sib(L[k - 1 + (j + 1)], P[k - 1 + (j + 1)])
        BY Zenon, <1>2, <1>3, <4>1 DEF Leads
      <4>3. QED
        BY Zenon, <1>5, <4>1, <4>2
    <3>2. QED
      BY Zenon, <3>1 DEF Leads
  <2>3. Verifying(L, P, n)'
    BY Zenon, <1>5, <1>7, <1>9, <2>1, <2>2 DEF Verifying, NodesOf
  <2>4. QED
    BY Zenon, <1>4, <1>8, <1>11, <2>3 DEF TreeInv, AtPhase
<1>12. QED
  BY Zenon, <1>10, <1>11

\* Every step keeps the tower invariant
LEMMA TreeStep == TreeInv /\ [TreeNext]_treeVars => TreeInv'
<1> SUFFICES ASSUME TreeInv, [TreeNext]_treeVars PROVE TreeInv'
  OBVIOUS
<1>1. PICK n, L, P : Tower(L, P, n) /\ AtPhase(L, P, n)
  BY Zenon DEF TreeInv
<1>2. CASE UNCHANGED treeVars
  <2>1. Tower(L, P, n)' /\ AtPhase(L, P, n)'
    BY Zenon, <1>1, <1>2 DEF treeVars, Tower, AtPhase, Built, Building, Proving, Claiming, Verifying,
                      OnPath, Leads, Own, NodesOf
  <2>2. QED
    BY Zenon, <2>1 DEF TreeInv
<1>3. CASE TreeNext
  BY Zenon, <1>1, <1>3, MerkelizeKeeps, ProofStartKeeps, MerkleProofKeeps, ClaimStartKeeps,
     VerifyKeeps
  DEF TreeNext
<1>4. QED
  BY Zenon, <1>2, <1>3

\* At the top the only node is the root
LEMMA TreeServes == TreeInv => ProofsServe
<1> SUFFICES ASSUME TreeInv PROVE ProofsServe
  OBVIOUS
<1>1. PICK n, L, P : Tower(L, P, n) /\ AtPhase(L, P, n)
  BY Zenon DEF TreeInv
<1>2. ASSUME phase \in {"claim", "verify"} PROVE proof # <<>>
  <2>1. n >= 2 /\ (Claiming(L, P, n) \/ Verifying(L, P, n))
    BY Zenon, <1>1, <1>2 DEF AtPhase, Built
  <2>2. n \in Nat /\ Len(proof) >= 1
    BY <1>1, <2>1 DEF Tower, Claiming, Verifying
  <2>3. QED
    BY <2>2
<1>3. ASSUME phase = "done" PROVE root = L[n][P[n] + 1] /\ OnPath(L, P, n)
  <2>1. Built(L, P, n) /\ OnPath(L, P, n)
    BY <1>1, <1>3 DEF AtPhase
  <2>2. n \in 1 .. n /\ Len(L[n]) = 1
    BY <1>1, <2>1 DEF Tower, Built
  <2>3. P[n] \in 0 .. 1 - 1
    BY Zenon, <1>1, <2>2 DEF Tower
  <2>4. P[n] + 1 = 1
    BY <2>3
  <2>5. QED
    BY Zenon, <2>1, <2>4 DEF Built
<1>4. QED
  BY Zenon, <1>2, <1>3 DEF ProofsServe, ClaimAccepted, ProofOfOne, OnPath, Own

\* For any number of withdrawals of a block and for each of them, the proof merkle_proof makes
\* leads claimWithdrawal to the root merkelize computed, and it leads there from no other
\* withdrawal at any index: the three programs pair an odd node in the same way.  keccak is
\* taken to be injective (it is the pair of its arguments).
THEOREM ProofsAlwaysServe == TreeSpec => []ProofsServe
<1>1. TreeSpec => []TreeInv
  BY TreeStarts, TreeStep, PTL DEF TreeSpec
<1>2. QED
  BY <1>1, TreeServes, PTL
=============================================================================
