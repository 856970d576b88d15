------------------------------- MODULE MCNode -------------------------------
(***************************************************************************)
(* Small instances of the tasks of a node for TLC: block production, the   *)
(* log filters and syncing.  They share no state, and a behaviour is of    *)
(* one of them: part tells which.                                          *)
(***************************************************************************)
EXTENDS Producer, LogFilters, Sync

CONSTANTS g, b1, b2, f1

VARIABLE part
-----------------------------------------------------------------------------
(* Transactions for the producer, logs and requests for the filters.       *)

T(sender, nonce, type, fee, tip, blobs) ==
    [sender |-> sender, nonce |-> nonce, type |-> type, max_fee_per_gas |-> fee,
     max_priority_fee |-> tip, gas_limit |-> 21000, gas_used |-> 21000, succeeds |-> TRUE,
     value |-> 0, blobs |-> blobs, max_fee_per_blob_gas |-> 3, zero_bytes |-> 0, non_zero_bytes |-> 0,
     create |-> FALSE, access_addresses |-> 0, access_keys |-> 0, right_chain_id |-> TRUE,
     protected |-> TRUE]

MCTx == [a0 |-> T("A", 0, "Legacy", 9, 0, <<>>),
         a1 |-> T("A", 1, "EIP4844", 12, 3, <<"x">>),
         b0 |-> T("B", 0, "EIP4844", 12, 1, <<"y", "z">>),
         c0 |-> T("C", 0, "EIP4844", 12, 3, <<"w">>)]
MCTxs == DOMAIN MCTx
MCHeader == [parent_hash |-> 0, number |-> 0, gas_limit |-> 44000, gas_used |-> 0, timestamp |-> 0,
             base_fee_per_gas |-> <<8>>, blob_gas_used |-> 0, excess_blob_gas |-> 0]
\* A can pay for one of their transactions, and for both with a payout.
MCAccounts == [s \in {"A", "B", "C"} |-> [nonce |-> 0, balance |-> IF s = "A" THEN 400000 ELSE 600000]]
MCWaiting == {<<"b0", "a0">>}
MCWithdrawals == {NoWithdrawals, [NoWithdrawals EXCEPT !["A"] = 100000]}

Log(address, topics) == [address |-> address, topics |-> topics]
MCLogsOf == [b \in (1..MaxChain) \X (0..MaxReplaced) |->
                IF b = <<2, 0>> THEN <<Log("P", <<"s", "t">>), Log("Q", <<"s", "u">>)>>
                ELSE IF b[2] = 0 THEN <<Log("P", <<"s", "t">>)>>
                ELSE <<Log("P", <<"s", "u">>)>>]
AnyTopic == [kind |-> "topic", topic |-> <<>>]
OneOf(topics) == [kind |-> "topics", topics |-> topics]
MCRequests == {[to_block |-> LATEST, addresses |-> {"P"}, topics |-> <<AnyTopic, OneOf({<<"t">>, <<"u">>})>>],
               [to_block |-> 1, addresses |-> {}, topics |-> <<AnyTopic>>]}
-----------------------------------------------------------------------------
(* For syncing: a chain of two blocks on genesis and a block beside it,    *)
(* states of two or three accounts, of which some share code and storage   *)
(* with the state before; one peer has everything, the other is a block    *)
(* behind.                                                                 *)

MCParent == (g :> None) @@ (b1 :> g) @@ (b2 :> b1) @@ (f1 :> g)
MCNumber == (g :> 0) @@ (b1 :> 1) @@ (b2 :> 2) @@ (f1 :> 1)
MCDefect == [b \in Blocks |-> "none"]

Account(a, c, r) == [account |-> a, code |-> c, root |-> r]

MCState ==
    (g :> {Account(1, "none", "none")})
    @@ (b1 :> {Account(1, "c1", "r1"), Account(2, "none", "none")})
    @@ (b2 :> {Account(1, "c1", "r2"), Account(2, "none", "none"), Account(3, "none", "r1")})
    @@ (f1 :> {Account(1, "none", "none")})

MCSlots == [r1 |-> 1, r2 |-> 2]

Whole(head) == [head |-> head, blocks |-> Ancestors[head] \cup {f1}, states |-> Ancestors[head],
                codes |-> UNION {CodesOf(b) : b \in Ancestors[head]}]

MCPeerStore == [ahead |-> Whole(b2), behind |-> Whole(b1)]
MCImported == {g}

\* Instances in which one of the properties does not hold: a bytecode that the newest
\* block brings and the peer behind lacks; a head that the peers know off their chain
MCStateNewCode ==
    [MCState EXCEPT ![b2] = {Account(1, "c1", "r2"), Account(2, "none", "none"), Account(3, "c2", "r1")}]
MCImportedFork == {g, f1}
-----------------------------------------------------------------------------
\* The parts that are not at work stay as they are when the node starts.
MCInit ==
    /\ ProducerInit /\ FiltersInit /\ SyncInit
    /\ \/ part = "produce"
       \/ part \in {"poll", "sync"} /\ pool = [b0 |-> 1, a0 |-> 2]

MCNext ==
    /\ UNCHANGED part
    /\ \/ part = "produce" /\ ProducerNext /\ UNCHANGED <<filterVars, syncVars>>
       \/ part = "poll" /\ FiltersNext /\ UNCHANGED <<producerVars, syncVars>>
       \/ part = "sync" /\ SyncNext /\ UNCHANGED <<producerVars, filterVars>>
\* The fairness of the part at work.  Serve and Work are weakly fair; the steps of
\* sync that are not of Work are bounded by MaxEvents, so that infinitely many
\* steps have infinitely many of Work among them.
MCSpec ==
    /\ MCInit /\ [][MCNext]_<<producerVars, filterVars, syncVars, part>>
    /\ []<>~(part = "produce" /\ CanServe) \/ []<><<part = "produce" /\ Serve>>_producerVars
    /\ []<>~(part = "sync" /\ ENABLED <<Work>>_syncVars) \/ []<><<part = "sync">>_syncVars

\* With fewer failed calls than it has tries the producer gets its chain to
\* every height: no loss of a request or of an answer, at whatever moment, leaves
\* the loop of start_block_producer stuck.
ChainGrows == part = "produce" => <>(archive[prod.head].header.number = MaxProduced)
=============================================================================
