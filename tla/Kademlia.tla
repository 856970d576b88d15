------------------------------- MODULE Kademlia -------------------------------
(***************************************************************************)
(* The table of known peers: buckets by distance from the local node, each *)
(* with a list of peers and a list of replacements.  The operators take a  *)
(* table and return the table after the call; the tasks that call them     *)
(* hold the table's lock meanwhile.                                        *)
(*                                                                         *)
(* Times are left out.  last_pong is 0 exactly as long as a peer is not    *)
(* proven, and which of the proven peers answered least recently is left   *)
(* open.  A replacement is always as new as PeerData::new made it, so its  *)
(* node is all there is to it.                                             *)
(***************************************************************************)
EXTENDS Integers, Sequences, FiniteSets

CONSTANTS
    Nodes,               \* node ids, the local one included
    Local,               \* local_node_id
    Bits,                \* width of the hashes of node ids
    Hash,                \* node -> the bits of its hash, the highest first
    MaxNodesPerBucket,
    MaxReplacements,     \* MAX_NUMBER_OF_REPLACEMENTS
    LivenessSize,        \* number of values of the liveness field (2^16)
    None

ASSUME KademliaAssumption ==
    /\ Local \in Nodes
    /\ None \notin Nodes
    /\ Bits \in Nat \ {0}
    /\ Hash \in [Nodes -> [1 .. Bits -> {0, 1}]]
    /\ MaxNodesPerBucket \in Nat \ {0}
    /\ MaxReplacements \in Nat \ {0}
    /\ LivenessSize \in Nat /\ LivenessSize > 1

Buckets == 0 .. Bits - 1

\* The bits in which the hashes of two nodes differ
Differing(a, b) == {i \in 1 .. Bits : Hash[a][i] # Hash[b][i]}

\* The highest of them: the logarithm of the distance, and 0 for equal hashes
BucketNumbers ==
    [a \in Nodes |-> [b \in Nodes |->
        IF Differing(a, b) = {} THEN 0
        ELSE Bits - (CHOOSE i \in Differing(a, b) : \A j \in Differing(a, b) : i <= j)]]

BucketNumber(a, b) == BucketNumbers[a][b]

\* KademliaTable::new
EmptyTable == [b \in Buckets |-> [peers |-> <<>>, replacements |-> <<>>]]

\* PeerData::new
NewPeer(n) ==
    [node |-> n, ping |-> None, proven |-> FALSE, request |-> None, liveness |-> 1,
     revalidation |-> "none", channels |-> None]

BucketOf(n) == BucketNumber(n, Local)

Entries(t) == UNION {{t[b].peers[i] : i \in DOMAIN t[b].peers} : b \in Buckets}

\* Every node is known at most once, and only in its own bucket
Sound(t) ==
    \A b \in Buckets :
        LET peers == t[b].peers
            rs == t[b].replacements
        IN  /\ Len(peers) <= MaxNodesPerBucket /\ Len(rs) <= MaxReplacements
            /\ \A i \in DOMAIN peers : BucketOf(peers[i].node) = b
            /\ \A i \in DOMAIN rs : BucketOf(rs[i]) = b
            /\ \A i, j \in DOMAIN peers : i # j => peers[i].node # peers[j].node
            /\ \A i, j \in DOMAIN rs : i # j => rs[i] # rs[j]
            /\ \A i \in DOMAIN peers, j \in DOMAIN rs : peers[i].node # rs[j]

InPeers(t, n) == \E i \in DOMAIN t[BucketOf(n)].peers : t[BucketOf(n)].peers[i].node = n
InReplacements(t, n) ==
    \E i \in DOMAIN t[BucketOf(n)].replacements : t[BucketOf(n)].replacements[i] = n

\* The place of a peer in its bucket; there is only one (TableSound)
Position(t, n) ==
    CHOOSE i \in DOMAIN t[BucketOf(n)].peers : t[BucketOf(n)].peers[i].node = n

\* get_by_node_id
GetByNodeId(t, n) == t[BucketOf(n)].peers[Position(t, n)]

\* Vec::remove, with positions from 1
Remove(s, i) == [j \in 1 .. Len(s) - 1 |-> IF j < i THEN s[j] ELSE s[j + 1]]

\* The table with other lists in a bucket
WithBucket(t, b, peers, rs) == [t EXCEPT ![b] = [peers |-> peers, replacements |-> rs]]

\* insert_as_replacement: the oldest one makes room
PushReplacement(rs, n) ==
    Append(IF Len(rs) >= MaxReplacements THEN Remove(rs, 1) ELSE rs, n)

\* A node that is known, as a peer or as a replacement, stays where it is
MayInsert(t, n) == ~InPeers(t, n) /\ ~InReplacements(t, n)

\* The second result of insert_node
Inserted(t, n) == MayInsert(t, n) /\ Len(t[BucketOf(n)].peers) # MaxNodesPerBucket

\* insert_node; remove_from_replacements finds nothing, as no known node gets there
InsertNode(t, n) ==
    LET b == BucketOf(n)
    IN  IF ~MayInsert(t, n) THEN t
        ELSE IF Len(t[b].peers) = MaxNodesPerBucket
        THEN WithBucket(t, b, t[b].peers, PushReplacement(t[b].replacements, n))
        ELSE WithBucket(t, b, Append(t[b].peers, NewPeer(n)), t[b].replacements)

\* get_by_node_id_mut, when the caller writes to the peer it found
SetEntry(t, n, q) ==
    LET b == BucketOf(n)
    IN  WithBucket(t, b, [t[b].peers EXCEPT ![Position(t, n)] = q], t[b].replacements)

UpdatePeer(t, n, Op(_)) == IF InPeers(t, n) THEN SetEntry(t, n, Op(GetByNodeId(t, n))) ELSE t

\* pong_answered
PongAnswered(t, n) ==
    UpdatePeer(t, n, LAMBDA p :
        [p EXCEPT !.proven = TRUE, !.ping = None,
                  !.revalidation = IF @ = "none" THEN "none" ELSE "answered"])

\* update_peer_ping
UpdatePeerPing(t, n, hash) == UpdatePeer(t, n, LAMBDA p : [p EXCEPT !.ping = hash])

\* update_peer_ping_with_revalidation
UpdatePeerPingWithRevalidation(t, n, hash) ==
    UpdatePeer(t, n, LAMBDA p : [p EXCEPT !.ping = hash, !.revalidation = "pending"])

\* new_find_node_request_with_sender
NewFindNodeRequest(t, n, tx) ==
    UpdatePeer(t, n, LAMBDA p : [p EXCEPT !.request = [tx |-> tx, nodesSent |-> 0]])

\* set_channels
SetChannels(t, n, c) == UpdatePeer(t, n, LAMBDA p : [p EXCEPT !.channels = c])

\* Faulty variant: the replacement stays in its list as well
ReplacePeerKeeps(t, n) ==
    LET b == BucketOf(n)
        rs == t[b].replacements
    IN  IF ~InPeers(t, n) THEN t
        ELSE IF rs = <<>> THEN WithBucket(t, b, Remove(t[b].peers, Position(t, n)), rs)
        ELSE WithBucket(t, b, [t[b].peers EXCEPT ![Position(t, n)] = NewPeer(rs[Len(rs)])],
                        rs)

\* Faulty variant: only a peer that is not connected is replaced
ReplacePeerIdle(t, n) ==
    LET b == BucketOf(n)
        rs == t[b].replacements
    IN  IF ~InPeers(t, n) \/ GetByNodeId(t, n).channels # None THEN t
        ELSE IF rs = <<>> THEN WithBucket(t, b, Remove(t[b].peers, Position(t, n)), rs)
        ELSE WithBucket(t, b, [t[b].peers EXCEPT ![Position(t, n)] = NewPeer(rs[Len(rs)])],
                        Remove(rs, Len(rs)))

\* replace_peer: the newest replacement takes the place
ReplacePeer(t, n) ==
    LET b == BucketOf(n)
        rs == t[b].replacements
    IN  IF ~InPeers(t, n) THEN t
        ELSE IF rs = <<>> THEN WithBucket(t, b, Remove(t[b].peers, Position(t, n)), rs)
        ELSE WithBucket(t, b, [t[b].peers EXCEPT ![Position(t, n)] = NewPeer(rs[Len(rs)])],
                        Remove(rs, Len(rs)))

\* What replace_peer returns
Replacement(t, n) ==
    LET rs == t[BucketOf(n)].replacements
    IN  IF InPeers(t, n) /\ rs # <<>> THEN rs[Len(rs)] ELSE None

\* increment_liveness
Incremented(liveness) == (liveness + 1) % LivenessSize

\* decrement_liveness
Decremented(liveness) == liveness \div 3

----------------------------------------------------------------------------
(* Selections *)

\* All peers, bucket after bucket
AllPeers(t) ==
    LET upto[b \in 0 .. Bits] == IF b = 0 THEN <<>> ELSE upto[b - 1] \o t[b - 1].peers
    IN  upto[Bits]

\* The body of the loop of get_closest_nodes: a full list gives up its first
\* entry that is farther away, which need not be the farthest
PushClosest(nodes, n, target) ==
    LET farther == {i \in DOMAIN nodes : BucketNumber(target, n) < BucketNumber(target, nodes[i])}
    IN  IF Len(nodes) < MaxNodesPerBucket THEN Append(nodes, n)
        ELSE IF farther = {} THEN nodes
        ELSE [nodes EXCEPT ![CHOOSE i \in farther : \A j \in farther : i <= j] = n]

\* get_closest_nodes
GetClosestNodes(t, target) ==
    LET all == AllPeers(t)
        after[k \in 0 .. Len(all)] ==
            IF k = 0 THEN <<>> ELSE PushClosest(after[k - 1], all[k].node, target)
    IN  after[Len(all)]

\* get_least_recently_pinged_peers, any of the possible results: nobody left
\* out has answered less recently than somebody chosen
LeastRecentlyPinged(t, limit) ==
    LET all == AllPeers(t)
        size == IF Len(all) < limit THEN Len(all) ELSE limit
    IN  {{all[i].node : i \in chosen} : chosen \in
            {c \in SUBSET DOMAIN all :
                /\ Cardinality(c) = size
                /\ \A i \in c, j \in DOMAIN all \ c : all[i].proven => all[j].proven}}

\* peers_to_ask_push: a full list gives up the last of its farthest entries
PeersToAskPush(nodes, target, n) ==
    LET far(i) == BucketNumber(nodes[i], target)
        farther == {i \in DOMAIN nodes : BucketNumber(target, n) < far(i)}
    IN  IF Len(nodes) < MaxNodesPerBucket THEN Append(nodes, n)
        ELSE IF farther = {} THEN nodes
        ELSE [nodes EXCEPT ![CHOOSE i \in farther :
                                \A j \in farther : far(j) < far(i) \/ (far(j) = far(i) /\ j <= i)] = n]

==============================================================================
