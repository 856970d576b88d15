------------------------------- MODULE Discovery -------------------------------
(***************************************************************************)
(* Peer discovery: the tasks around the table of peers.  The server        *)
(* handles one packet after the other, the revalidation pings three peers  *)
(* every 30 seconds and drops those that stopped answering, lookups ask    *)
(* peers for neighbours, and every connection with a peer enters its       *)
(* channels in the table or removes the peer.  They share the table's      *)
(* lock: a step holds it for as long as the code does, and what a task     *)
(* read under the lock may be stale in its next step.                      *)
(*                                                                         *)
(* Packets are chosen by the environment: any node other than the local    *)
(* one sends what it likes, and a packet may be lost, late or duplicated.  *)
(* The hash of a ping is the number of pings sent to that node so far.     *)
(* Whether a period (12 hours, 60 or 5 seconds) is over is left open.      *)
(***************************************************************************)
EXTENDS Kademlia

CONSTANTS
    Bootnodes,           \* sequence of nodes
    Lookups,             \* the lookup tasks
    Conns,               \* connections, each used once
    NeighborLists,       \* the lists of nodes that Neighbors packets carry
    Alpha,               \* queries of one round of a lookup
    RevalidationLimit,   \* peers pinged by one revalidation
    MaxPings,            \* bound: pings sent to a node
    MaxLookups,          \* bound: lookups started by a task
    TaskSets             \* bound: the sets of tasks that are looked at together

ASSUME DiscoveryAssumption ==
    /\ Bootnodes \in Seq(Nodes)
    /\ NeighborLists \subseteq Seq(Nodes)
    /\ Alpha \in Nat \ {0}
    /\ RevalidationLimit \in Nat
    /\ MaxPings \in Nat
    /\ MaxLookups \in Nat
    /\ None \notin Conns
    /\ TaskSets \subseteq SUBSET {"revalidation", "lookup", "connection"}

VARIABLES
    table,       \* the KademliaTable behind its mutex
    pings,       \* node -> number of pings sent to it
    pongs,       \* node -> the hashes of the pongs of it that were accepted
    server,      \* what discover_peers_server is doing, and for which node
    boot,        \* discovery_startup: next bootnode, and the ping sent to it
    reval,       \* peers_revalidation
    lookup,      \* recursive_lookup, one per task
    conn,        \* the connection tasks
    tasks        \* those of the last three that run at all

vars == <<table, pings, pongs, server, boot, reval, lookup, conn, tasks>>

Remote == Nodes \ {Local}

IdleServer == [at |-> "idle", node |-> None, store |-> FALSE, nodes |-> <<>>]

\* The table lock is free between the steps of a task, except here
Unlocked == server.at # "neighbors"

NoLookup == [at |-> "off", target |-> Local, asked |-> {}, seen |-> {}, ask |-> <<>>,
             next |-> 1, queries |-> 0, found |-> <<>>, waits |-> None, started |-> 0]

Init ==
    /\ table = EmptyTable
    /\ pings = [n \in Nodes |-> 0]
    /\ pongs = [n \in Nodes |-> {}]
    /\ server = IdleServer
    /\ boot = [next |-> 1, at |-> "insert", hash |-> None]
    /\ reval = [at |-> "sleep", todo |-> {}, peers |-> {}, node |-> None, hash |-> None, pinged |-> {}]
    /\ lookup = [l \in Lookups |-> NoLookup]
    /\ conn = [c \in Conns |-> [at |-> "none", node |-> None]]
    /\ tasks \in TaskSets

\* ping: sent, with the hash that a pong has to return, unless the socket fails
PingHashes(n) == {None} \cup IF pings[n] < MaxPings THEN {pings[n] + 1} ELSE {}
Pinged(n, hash) == IF hash = None THEN pings ELSE [pings EXCEPT ![n] = hash]

----------------------------------------------------------------------------
(* discover_peers_server *)

\* Ping of a known peer whose endpoint proof has expired, or of any other node
PingReceived(n) ==
    /\ server.at = "idle"
    /\ server' = [IdleServer EXCEPT !.at = IF InPeers(table, n) THEN "ping" ELSE "insert",
                                    !.node = n, !.store = InPeers(table, n)]
    /\ UNCHANGED <<table, pings, pongs, boot, reval, lookup, conn, tasks>>

\* A node that was not among the peers is inserted
ServerInsert ==
    /\ server.at = "insert"
    /\ table' = InsertNode(table, server.node)
    /\ server' = [server EXCEPT !.at = "ping", !.store = Inserted(table, server.node)]
    /\ UNCHANGED <<pings, pongs, boot, reval, lookup, conn, tasks>>

\* The ping goes out, and its hash is stored.  The lock is taken only for the
\* second; no pong is handled in between, as that is the same task's work.
ServerPing ==
    /\ server.at = "ping"
    /\ \E hash \in PingHashes(server.node) :
        /\ pings' = Pinged(server.node, hash)
        /\ table' = IF server.store /\ hash # None
                    THEN UpdatePeerPing(table, server.node, hash) ELSE table
    /\ server' = IdleServer
    /\ UNCHANGED <<pongs, boot, reval, lookup, conn, tasks>>

Unused(c) == "connection" \in tasks /\ conn[c].at = "none"

\* Faulty variant: the hash is not compared
PongMatchesAny(n, hash) == InPeers(table, n)

PongMatches(n, hash) ==
    /\ InPeers(table, n)
    /\ GetByNodeId(table, n).ping # None
    /\ GetByNodeId(table, n).ping = hash

\* Pong, with the hash of some ping sent to the node or with another (0)
PongReceived(n, hash) ==
    /\ server.at = "idle"
    /\ PongMatches(n, hash)
    /\ server' = [IdleServer EXCEPT !.at = "answered", !.node = n]
    /\ pongs' = [pongs EXCEPT ![n] = @ \cup {hash}]
    /\ UNCHANGED <<table, pings, boot, reval, lookup, conn, tasks>>

\* pong_answered, and a task that connects to the peer.  A task that fails to
\* open a TCP connection, or to exchange auth and ack, ends without a trace.
ServerAnswered ==
    /\ server.at = "answered"
    /\ table' = PongAnswered(table, server.node)
    /\ \/ conn' = conn
       \/ \E c \in Conns :
            /\ Unused(c)
            /\ conn' = [conn EXCEPT ![c] = [at |-> "hello", node |-> server.node]]
    /\ server' = IdleServer
    /\ UNCHANGED <<pings, pongs, boot, reval, lookup, tasks>>

\* FindNode of a proven peer; what is sent is GetClosestNodes
FindNodeReceived(n) ==
    /\ server.at = "idle"
    /\ InPeers(table, n) /\ GetByNodeId(table, n).proven
    /\ server' = [IdleServer EXCEPT !.at = "closest", !.node = n]
    /\ UNCHANGED <<table, pings, pongs, boot, reval, lookup, conn, tasks>>

ServerClosest ==
    /\ server.at = "closest"
    /\ server' = IdleServer
    /\ UNCHANGED <<table, pings, pongs, boot, reval, lookup, conn, tasks>>

NodesSent(req, nodes) == req.nodesSent + Len(nodes)

\* Faulty variant: the nodes are counted in a copy of the request
AfterNeighborsCopy(p, nodes) == p

\* The entry of the node that answered, after its packet
AfterNeighbors(p, nodes) ==
    LET sent == NodesSent(p.request, nodes)
    IN  IF sent = MaxNodesPerBucket THEN [p EXCEPT !.request = None]
        ELSE IF sent < MaxNodesPerBucket THEN [p EXCEPT !.request.nodesSent = sent]
        ELSE p

\* Neighbors: the answer of a node that was asked.  A lookup that no longer
\* waits has dropped its end of the channel.
NeighborsReceived(n, nodes) ==
    /\ server.at = "idle"
    /\ InPeers(table, n) /\ GetByNodeId(table, n).request # None
    /\ LET req == GetByNodeId(table, n).request
       IN  \/ \* the request is older than a minute
              /\ table' = UpdatePeer(table, n, LAMBDA p : [p EXCEPT !.request = None])
              /\ UNCHANGED <<server, lookup>>
           \/ /\ NodesSent(req, nodes) > MaxNodesPerBucket
              /\ UNCHANGED <<table, server, lookup>>
           \/ /\ NodesSent(req, nodes) <= MaxNodesPerBucket
              /\ table' = UpdatePeer(table, n, LAMBDA p : AfterNeighbors(p, nodes))
              /\ server' = [IdleServer EXCEPT !.at = "neighbors", !.nodes = nodes]
              /\ lookup' = IF lookup[req.tx].waits = n
                           THEN [lookup EXCEPT ![req.tx].found = @ \o nodes]
                           ELSE lookup
    /\ UNCHANGED <<pings, pongs, boot, reval, conn, tasks>>

\* The lock stays taken while the nodes are inserted and, where they became
\* peers, pinged
ServerNeighbor ==
    /\ server.at = "neighbors"
    /\ LET n == Head(server.nodes)
       IN  IF server.nodes # <<>> /\ Inserted(table, n)
           THEN \E hash \in PingHashes(n) :
                    /\ pings' = Pinged(n, hash)
                    /\ table' = UpdatePeerPing(InsertNode(table, n), n, hash)
           ELSE /\ table' = IF server.nodes = <<>> THEN table ELSE InsertNode(table, n)
                /\ pings' = pings
    /\ server' = IF Len(server.nodes) <= 1 THEN IdleServer
                 ELSE [server EXCEPT !.nodes = Tail(@)]
    /\ UNCHANGED <<pongs, boot, reval, lookup, conn, tasks>>

----------------------------------------------------------------------------
(* discovery_startup *)

BootInsert ==
    /\ boot.next <= Len(Bootnodes) /\ boot.at = "insert" /\ Unlocked
    /\ table' = InsertNode(table, Bootnodes[boot.next])
    /\ boot' = [boot EXCEPT !.at = "ping"]
    /\ UNCHANGED <<pings, pongs, server, reval, lookup, conn, tasks>>

BootPing ==
    /\ boot.at = "ping"
    /\ \E hash \in PingHashes(Bootnodes[boot.next]) :
        /\ pings' = Pinged(Bootnodes[boot.next], hash)
        /\ boot' = [boot EXCEPT !.at = "store", !.hash = hash]
    /\ UNCHANGED <<table, pongs, server, reval, lookup, conn, tasks>>

BootStore ==
    /\ boot.at = "store" /\ Unlocked
    /\ table' = UpdatePeerPing(table, Bootnodes[boot.next], boot.hash)
    /\ boot' = [next |-> boot.next + 1, at |-> "insert", hash |-> None]
    /\ UNCHANGED <<pings, pongs, server, reval, lookup, conn, tasks>>

----------------------------------------------------------------------------
(* peers_revalidation *)

RevalTick ==
    /\ "revalidation" \in tasks
    /\ reval.at = "sleep"
    /\ reval' = [reval EXCEPT !.at = "check", !.todo = reval.pinged]
    /\ UNCHANGED <<table, pings, pongs, server, boot, lookup, conn, tasks>>

\* The liveness of a peer after the check
Checked(p) ==
    [p EXCEPT !.liveness = CASE p.revalidation = "answered" -> Incremented(@)
                             [] p.revalidation = "pending" -> Decremented(@)
                             [] OTHER -> @,
              !.revalidation = "none"]

\* One peer of the last iteration.  One that has left the table since makes
\* unwrap panic, and the task ends.
RevalCheck(n) ==
    /\ reval.at = "check" /\ n \in reval.todo /\ Unlocked
    /\ IF ~InPeers(table, n)
       THEN /\ reval' = [reval EXCEPT !.at = "panicked"]
            /\ UNCHANGED <<table, pings>>
       ELSE LET checked == UpdatePeer(table, n, Checked)
                new == Replacement(checked, n)
            IN  /\ reval' = [reval EXCEPT !.todo = @ \ {n}]
                /\ IF GetByNodeId(checked, n).liveness # 0
                   THEN table' = checked /\ pings' = pings
                   ELSE IF new = None
                   THEN table' = ReplacePeer(checked, n) /\ pings' = pings
                   ELSE \E hash \in PingHashes(new) :
                            /\ pings' = Pinged(new, hash)
                            /\ table' = UpdatePeerPing(ReplacePeer(checked, n), new, hash)
    /\ UNCHANGED <<pongs, server, boot, lookup, conn, tasks>>

RevalSelect ==
    /\ reval.at = "check" /\ reval.todo = {} /\ Unlocked
    /\ \E peers \in LeastRecentlyPinged(table, RevalidationLimit) :
        reval' = [reval EXCEPT !.at = IF peers = {} THEN "sleep" ELSE "ping",
                               !.peers = peers, !.pinged = {}]
    /\ UNCHANGED <<table, pings, pongs, server, boot, lookup, conn, tasks>>

\* The ping goes out before its hash is stored, and without the lock
RevalPing(n) ==
    /\ reval.at = "ping" /\ n \in reval.peers
    /\ \E hash \in PingHashes(n) :
        /\ pings' = Pinged(n, hash)
        /\ reval' = [reval EXCEPT !.at = "store", !.node = n, !.hash = hash]
    /\ UNCHANGED <<table, pongs, server, boot, lookup, conn, tasks>>

RevalStore ==
    /\ reval.at = "store" /\ Unlocked
    /\ table' = UpdatePeerPingWithRevalidation(table, reval.node, reval.hash)
    /\ reval' = [reval EXCEPT !.at = IF reval.peers = {reval.node} THEN "sleep" ELSE "ping",
                              !.peers = @ \ {reval.node},
                              !.pinged = @ \cup {reval.node},
                              !.node = None, !.hash = None]
    /\ UNCHANGED <<pings, pongs, server, boot, lookup, conn, tasks>>
----------------------------------------------------------------------------
(* peers_lookup *)

\* The tasks of one batch start together, when those of the last one are joined
LookupsStart ==
    /\ "lookup" \in tasks
    /\ boot.next > Len(Bootnodes)
    /\ \A l \in Lookups : lookup[l].at = "off" /\ lookup[l].started < MaxLookups
    /\ \E targets \in [Lookups -> Nodes] :
        lookup' = [l \in Lookups |-> [NoLookup EXCEPT !.at = "start", !.target = targets[l],
                                                      !.started = lookup[l].started + 1]]
    /\ UNCHANGED <<table, pings, pongs, server, boot, reval, conn, tasks>>

LookupClosest(l) ==
    /\ lookup[l].at = "start" /\ Unlocked
    /\ LET closest == GetClosestNodes(table, lookup[l].target)
       IN  lookup' = [lookup EXCEPT ![l].at = "round", ![l].ask = closest,
                                    ![l].seen = {Local} \cup {closest[i] : i \in DOMAIN closest}]
    /\ UNCHANGED <<table, pings, pongs, server, boot, reval, conn, tasks>>

\* A round is over after Alpha queries, or after the last peer to ask
RoundOver(l) == lookup[l].next > Len(lookup[l].ask) \/ lookup[l].queries = Alpha

\* Faulty variant: a peer may be asked again in the next round
AskableAgain(l, n) == InPeers(table, n) /\ GetByNodeId(table, n).request = None

\* A peer that was asked, is not in the table or has a request going on is passed over
Askable(l, n) ==
    /\ n \notin lookup[l].asked
    /\ InPeers(table, n) /\ GetByNodeId(table, n).request = None

LookupAsk(l) ==
    /\ lookup[l].at = "round" /\ ~RoundOver(l) /\ Unlocked
    /\ LET n == lookup[l].ask[lookup[l].next]
       IN  IF Askable(l, n)
           THEN /\ table' = NewFindNodeRequest(table, n, l)
                /\ lookup' = [lookup EXCEPT ![l].at = "wait", ![l].waits = n,
                                            ![l].asked = @ \cup {n}, ![l].queries = @ + 1]
           ELSE /\ lookup' = [lookup EXCEPT ![l].next = @ + 1]
                /\ table' = table
    /\ UNCHANGED <<pings, pongs, server, boot, reval, conn, tasks>>

\* All nodes have come, or 5 seconds passed without another packet, or the
\* request is gone.  The request stays in the table in the second case.
LookupResume(l) ==
    /\ lookup[l].at = "wait"
    /\ lookup' = [lookup EXCEPT ![l].at = "round", ![l].waits = None, ![l].next = @ + 1]
    /\ UNCHANGED <<table, pings, pongs, server, boot, reval, conn, tasks>>

\* The nodes found that were not seen before compete for a place
PushFound(state) ==
    LET after[k \in 0 .. Len(state.found)] ==
            IF k = 0 THEN [seen |-> state.seen, ask |-> state.ask]
            ELSE LET was == after[k - 1]
                     n == state.found[k]
                 IN  IF n \in was.seen THEN was
                     ELSE [seen |-> was.seen \cup {n},
                           ask |-> PeersToAskPush(was.ask, state.target, n)]
    IN  after[Len(state.found)]

LookupRoundEnd(l) ==
    /\ lookup[l].at = "round" /\ RoundOver(l)
    /\ LET pushed == PushFound(lookup[l])
       IN  lookup' = [lookup EXCEPT ![l] =
               IF @.queries = 0 THEN [NoLookup EXCEPT !.started = lookup[l].started]
               ELSE [@ EXCEPT !.seen = pushed.seen, !.ask = pushed.ask,
                              !.next = 1, !.queries = 0, !.found = <<>>]]
    /\ UNCHANGED <<table, pings, pongs, server, boot, reval, conn, tasks>>

LookupStep(l) == LookupClosest(l) \/ LookupAsk(l) \/ LookupResume(l) \/ LookupRoundEnd(l)

----------------------------------------------------------------------------
(* Connections: start_peer *)

\* serve_requests, and the exchange of auth and ack: the remote node is known
ConnAccept(c, n) ==
    /\ Unused(c)
    /\ conn' = [conn EXCEPT ![c] = [at |-> "hello", node |-> n]]
    /\ UNCHANGED <<table, pings, pongs, server, boot, reval, lookup, tasks>>

\* Hello is exchanged: the channels to the connection enter the table
ConnOpen(c) ==
    /\ conn[c].at = "hello" /\ Unlocked
    /\ conn' = [conn EXCEPT ![c].at = "open"]
    /\ table' = SetChannels(table, conn[c].node, c)
    /\ UNCHANGED <<pings, pongs, server, boot, reval, lookup, tasks>>

\* An error of handshake or handle_peer_conn; Disconnect is sent
ConnFail(c) ==
    /\ conn[c].at \in {"hello", "open"}
    /\ conn' = [conn EXCEPT ![c].at = "failing"]
    /\ UNCHANGED <<table, pings, pongs, server, boot, reval, lookup, tasks>>

\* An assertion of frame::read fails: the task ends on the spot
ConnPanic(c) ==
    /\ conn[c].at \in {"hello", "open"}
    /\ conn' = [conn EXCEPT ![c].at = "panicked"]
    /\ UNCHANGED <<table, pings, pongs, server, boot, reval, lookup, tasks>>

\* The end of peer_conn_failed
ConnDiscard(c) ==
    /\ conn[c].at = "failing" /\ Unlocked
    /\ conn' = [conn EXCEPT ![c].at = "done"]
    /\ table' = ReplacePeer(table, conn[c].node)
    /\ UNCHANGED <<pings, pongs, server, boot, reval, lookup, tasks>>

----------------------------------------------------------------------------
ServerStep == ServerInsert \/ ServerPing \/ ServerAnswered \/ ServerClosest \/ ServerNeighbor

Packet ==
    \E n \in Remote :
        \/ PingReceived(n)
        \/ \E hash \in 0 .. pings[n] : PongReceived(n, hash)
        \/ FindNodeReceived(n)
        \/ \E nodes \in NeighborLists : NeighborsReceived(n, nodes)

Startup == BootInsert \/ BootPing \/ BootStore

Revalidation ==
    RevalTick \/ RevalSelect \/ RevalStore \/ \E n \in Nodes : RevalCheck(n) \/ RevalPing(n)

Connection ==
    \E c \in Conns :
        \/ \E n \in Remote : ConnAccept(c, n)
        \/ ConnOpen(c) \/ ConnFail(c) \/ ConnPanic(c)
        \/ ConnDiscard(c)

Next ==
    \/ Packet \/ ServerStep \/ Startup \/ Revalidation
    \/ LookupsStart \/ (\E l \in Lookups : LookupStep(l))
    \/ Connection

Spec == Init /\ [][Next]_vars

\* The runtime polls every task that can go on, every timer goes off, and the
\* lock is granted in the order in which it was asked for
FairSpec == Spec /\ WF_vars(ServerStep) /\ \A l \in Lookups : SF_vars(LookupStep(l))

----------------------------------------------------------------------------
(* Properties *)

PeerType ==
    [node : Nodes, ping : Nat \cup {None}, proven : BOOLEAN,
     request : [tx : Lookups, nodesSent : Nat] \cup {None},
     liveness : 0 .. LivenessSize - 1,
     revalidation : {"none", "pending", "answered"},
     channels : Conns \cup {None}]

TypeOK ==
    /\ table \in [Buckets -> [peers : Seq(PeerType), replacements : Seq(Nodes)]]
    /\ pings \in [Nodes -> 0 .. MaxPings]
    /\ pongs \in [Nodes -> SUBSET Nat]
    /\ server \in [at : {"idle", "insert", "ping", "answered", "closest", "neighbors"},
                   node : Nodes \cup {None}, store : BOOLEAN, nodes : Seq(Nodes)]
    /\ conn \in [Conns -> [at : {"none", "hello", "open", "failing", "done", "panicked"},
                           node : Nodes \cup {None}]]

\* Every node is known at most once, as a peer or as a replacement, and only in
\* its own bucket; no list outgrows its bound.  insert_node and replace_peer keep
\* this, whoever calls them and whatever a task remembers of an older table.
TableSound == Sound(table)

\* A peer is proven only if that very node returned the hash of a ping sent to it,
\* whatever became of its entry since: the pong handler reads the hash under one lock
\* and answers under another, when the entry may be a new one of the same node.
EndpointProof ==
    \A p \in Entries(table) :
        /\ p.proven => \E hash \in pongs[p.node] : 0 < hash /\ hash <= pings[p.node]
        /\ p.ping # None => p.ping <= pings[p.node]

\* The channels of a peer lead to a connection with that node which runs,
\* is being closed, or died in an assertion: one that ended takes the entry with it.
ChannelsLead ==
    \A p \in Entries(table) :
        p.channels # None =>
            /\ conn[p.channels].node = p.node
            /\ conn[p.channels].at \in {"open", "failing", "panicked"}

\* A query brings a lookup at most one bucket of nodes, however many packets
\* come, and from whatever earlier request of the same peer
FoundBounded ==
    \A l \in Lookups : Len(lookup[l].found) <= lookup[l].queries * MaxNodesPerBucket

\* Every lookup comes to its end, whatever the peers answer or fail to answer
LookupEnds == \A l \in Lookups : lookup[l].at # "off" ~> lookup[l].at = "off"

\* What the code does not keep.  The revalidation never panics ...
RevalidationRuns == reval.at # "panicked"

\* ... and the check of a peer that answered its last ping does not drop it
AnsweredKept ==
    [][\A n \in Nodes :
        /\ RevalCheck(n) /\ InPeers(table, n)
        /\ GetByNodeId(table, n).revalidation = "answered"
        => InPeers(table', n)]_vars

\* ... and peer_conn_failed removes no entry whose channels lead to another
\* connection of the node, an open one
OwnEntryDiscarded ==
    [][\A c \in Conns : \A p \in Entries(table) :
        /\ ConnDiscard(c) /\ p.channels \in Conns \ {c}
        /\ conn[p.channels].at = "open"
        => InPeers(table', p.node)]_vars

==============================================================================
