---------------------------- MODULE LogFilters -----------------------------
(***************************************************************************)
(* Log filters of the JSON-RPC API (rpc/eth/filter.rs, rpc/eth/logs.rs):   *)
(* clients create a filter and poll it for the logs since their last poll  *)
(* while fork choice moves the chain.  The chain is the                    *)
(* sequence of canonical blocks after genesis; a block is its number with  *)
(* the fork it is of, and LogsOf gives the log of each of its transactions *)
(* in order.  The table of filters is behind a mutex; the latest block is     *)
(* read before it is taken, and the query runs after it is released.       *)
(***************************************************************************)
EXTENDS Integers, Sequences, FiniteSets

CONSTANTS LogsOf,       \* <<number, fork>> |-> the log of each transaction: [address, topics]
          FilterIds, Polls,
          Requests,     \* filters clients ask for: [to_block, addresses, topics]
          MaxChain, MaxReplaced,   \* bounds on the blocks and on the reorganisations
          MaxDepth      \* the blocks a reorganisation takes off the chain, at most

LATEST == -1            \* BlockTag::Latest

VARIABLES chain, replaced,
          filters,      \* filter id |-> filter, for the active ones
          poll,         \* poll |-> its progress
          created,      \* filter id |-> the latest block at its creation
          delivered,    \* filter id |-> logs handed to the client
          failed        \* filters of which a query failed

filterVars == <<chain, replaced, filters, poll, created, delivered, failed>>

get_latest_block_number == Len(chain)
PollIdle == [stage |-> "idle"]

FiltersInit ==
    /\ chain = <<>> /\ replaced = 0
    /\ filters = [x \in {} |-> x]
    /\ poll = [p \in Polls |-> PollIdle]
    /\ created = [f \in FilterIds |-> 0]
    /\ delivered = [f \in FilterIds |-> {}]
    /\ failed = {}

---------------------------------------------------------------------------
(* The chain, as apply_fork_choice moves it: the branch of the new head    *)
(* becomes canonical from its link to the chain on, and what was above the *)
(* new head is removed.                                                    *)

\* depth blocks leave the chain and length others, at least one, take their place.
ApplyForkChoice(depth, length) ==
    /\ depth <= Len(chain) /\ Len(chain) - depth + length <= MaxChain
    /\ depth > 0 => replaced < MaxReplaced
    /\ replaced' = IF depth > 0 THEN replaced + 1 ELSE replaced
    /\ chain' = [n \in 1 .. Len(chain) - depth + length |->
                    IF n <= Len(chain) - depth THEN chain[n] ELSE <<n, replaced'>>]
    /\ UNCHANGED <<filters, poll, created, delivered, failed>>

---------------------------------------------------------------------------
(* eth_newFilter, eth_uninstallFilter and the clean-up of outdated filters *)

\* The identifier is random, so it is one that was never used.
NewFilter(f, request) ==
    /\ f \notin DOMAIN filters /\ delivered[f] = {} /\ created[f] = 0
    /\ request.to_block = LATEST \/ request.to_block >= get_latest_block_number
    /\ filters' = [g \in DOMAIN filters \cup {f} |->
                      IF g = f THEN [request |-> request, last_block_number |-> get_latest_block_number]
                      ELSE filters[g]]
    /\ created' = [created EXCEPT ![f] = get_latest_block_number]
    /\ UNCHANGED <<chain, replaced, poll, delivered, failed>>

\* The client's own request, or the clean-up after the filter's lifetime.
DeleteFilter(f) ==
    /\ f \in DOMAIN filters
    /\ filters' = [g \in DOMAIN filters \ {f} |-> filters[g]]
    /\ UNCHANGED <<chain, replaced, poll, created, delivered, failed>>

---------------------------------------------------------------------------
(* Matching a log.                                                         *)

\* One place of the topic filter: a single topic or null, or a list in which
\* null stands for anything.  Null is the empty sequence.
TopicFits(place, topic) ==
    IF place.kind = "topic" THEN place.topic = <<>> \/ place.topic = <<topic>>
    ELSE place.topics = {} \/ <<>> \in place.topics \/ <<topic>> \in place.topics

LogFits(request, log) ==
    /\ request.addresses = {} \/ log.address \in request.addresses
    /\ Len(request.topics) <= Len(log.topics)
    /\ \A i \in DOMAIN request.topics : TopicFits(request.topics[i], log.topics[i])

\* The logs of a block that a query returns, as block and transaction index: of
\* the block's first transactions, count of them.
BlockLogs(request, b, count) ==
    {<<b, i>> : i \in {j \in DOMAIN LogsOf[b] : j <= count /\ LogFits(request, LogsOf[b][j])}}

---------------------------------------------------------------------------
(* eth_getFilterChanges.                                                   *)

\* The latest block number is read first.  Polls are alike: the first idle one.
BeginPoll(p, f) ==
    /\ poll[p].stage = "idle" /\ \A q \in Polls : poll[q].stage = "idle" => q >= p
    /\ poll' = [poll EXCEPT ![p] = [stage |-> "lock", filter |-> f, latest |-> get_latest_block_number]]
    /\ UNCHANGED <<chain, replaced, filters, created, delivered, failed>>

valid_block_range(request, latest) ==
    request.to_block = LATEST \/ request.to_block >= latest

\* Mutant of PollFrom: the block of the last poll is not read again.
PollFromNext(f) == filters[f].last_block_number + 1

\* Where the next poll of a filter starts.
PollFrom(f) == filters[f].last_block_number

\* Under the lock the filter is moved on and its copy taken; a filter that is
\* gone, or whose range is over, ends the poll.  An empty range is an error of
\* the query.
TakeFilter(p) ==
    /\ poll[p].stage = "lock"
    /\ LET f == poll[p].filter
           latest == poll[p].latest
       IN  IF f \in DOMAIN filters /\ valid_block_range(filters[f].request, latest)
           THEN /\ filters' = [filters EXCEPT ![f].last_block_number = latest]
                /\ poll' = [poll EXCEPT ![p] =
                       IF PollFrom(f) > latest THEN PollIdle
                       ELSE [stage |-> "body", filter |-> f, request |-> filters[f].request,
                             next |-> PollFrom(f), to |-> latest, logs |-> {}]]
           ELSE /\ poll' = [poll EXCEPT ![p] = PollIdle]
                /\ UNCHANGED filters
    /\ UNCHANGED <<chain, replaced, created, delivered, failed>>

\* The query of a poll fails, and its client gets an error.
QueryFails(p) ==
    /\ poll' = [poll EXCEPT ![p] = PollIdle]
    /\ failed' = failed \cup {poll[p].filter}

\* fetch_logs_with_filter reads a block's body, then the receipts one by one, each
\* by the block's number: genesis has no logs, and a block above the chain is an error.
FetchBody(p) ==
    /\ poll[p].stage = "body" /\ poll[p].next <= poll[p].to
    /\ IF poll[p].next > Len(chain) THEN QueryFails(p)
       ELSE /\ poll' = [poll EXCEPT ![p] =
                  IF @.next = 0 THEN [@ EXCEPT !.next = 1]
                  ELSE [stage |-> "receipts", filter |-> @.filter, request |-> @.request,
                        next |-> @.next, to |-> @.to, logs |-> @.logs, body |-> chain[@.next]]]
            /\ UNCHANGED failed
    /\ UNCHANGED <<chain, replaced, filters, created, delivered>>

\* The receipts found are those of the block that is canonical now, for the
\* transactions of the body; one that is missing fails the query.  The lookups of
\* the header and of the receipts are one step.
FetchReceipts(p) ==
    /\ poll[p].stage = "receipts"
    /\ LET now == chain[poll[p].next]
           count == Len(LogsOf[poll[p].body])
           logs == {<<poll[p].body, l[1], l[2]>> : l \in BlockLogs(poll[p].request, now, count)}
       IN  IF poll[p].next > Len(chain) \/ count > Len(LogsOf[now])
           THEN QueryFails(p)
           ELSE /\ poll' = [poll EXCEPT ![p] =
                      [stage |-> "body", filter |-> @.filter, request |-> @.request,
                       next |-> @.next + 1, to |-> @.to, logs |-> @.logs \cup logs]]
                /\ UNCHANGED failed
    /\ UNCHANGED <<chain, replaced, filters, created, delivered>>

EndPoll(p) ==
    /\ poll[p].stage = "body" /\ poll[p].next > poll[p].to
    /\ delivered' = [delivered EXCEPT ![poll[p].filter] = @ \cup poll[p].logs]
    /\ poll' = [poll EXCEPT ![p] = PollIdle]
    /\ UNCHANGED <<chain, replaced, filters, created, failed>>

FiltersNext ==
    \/ \E depth \in 0 .. MaxDepth, length \in 1 .. MaxChain : ApplyForkChoice(depth, length)
    \/ \E f \in FilterIds : DeleteFilter(f) \/ \E r \in Requests : NewFilter(f, r)
    \/ \E p \in Polls : \/ \E f \in DOMAIN filters : BeginPoll(p, f)
                        \/ TakeFilter(p) \/ FetchBody(p) \/ FetchReceipts(p) \/ EndPoll(p)

FiltersSpec == FiltersInit /\ [][FiltersNext]_filterVars

---------------------------------------------------------------------------
(* Properties.                                                             *)

\* Every log of the canonical blocks after a filter's creation and below its next
\* start has been handed out under its own block.
AllDelivered(f) ==
    \A n \in created[f] + 1 .. filters[f].last_block_number - 1 : n <= Len(chain) =>
        \A l \in BlockLogs(filters[f].request, chain[n], Len(LogsOf[chain[n]])) :
            <<chain[n], l[1], l[2]>> \in delivered[f]

Polled(f) == \E p \in Polls : poll[p] # PollIdle /\ poll[p].filter = f

\* No log is missed: once no poll of a filter for the latest block is under way
\* and none of its queries failed, all its logs have been handed out, although
\* polls overlap, the chain grows between the steps of one and its tip is
\* replaced.  The next poll starts at last_block_number itself, so that block is
\* read again.  It takes that no fork choice replaces more than the tip (MaxDepth
\* is 1): a block that is replaced below the start of the next poll is never read.
NoLogMissed ==
    \A f \in DOMAIN filters \ failed :
        filters[f].request.to_block = LATEST /\ ~Polled(f) => AllDelivered(f)

\* Refuted: the same when a query may fail.  The start is moved before the query,
\* and the logs of the failed one are never asked for again.
NoLogMissedByFailure ==
    \A f \in DOMAIN filters :
        filters[f].request.to_block = LATEST /\ ~Polled(f) => AllDelivered(f)

\* Refuted: each log handed out belongs to the block it is listed under.  Body and
\* receipts are two lookups by number, and the tip may be replaced in between.
LogsOfOneBlock == \A f \in FilterIds : \A l \in delivered[f] : l[1] = l[2]
=============================================================================
