---------------------------- MODULE DiscoveryProofs ----------------------------
(***************************************************************************)
(* The table of peers stays sound, only nodes that answered are proven,    *)
(* channels lead to the connection of their peer, and a lookup finds no    *)
(* more nodes than its questions allow, for any number of nodes, buckets,  *)
(* lookups and connections.                                                *)
(*                                                                         *)
(* The tasks touch the table only through insert_node, replace_peer and    *)
(* updates of one entry.  The first part says of each of these what kind   *)
(* of table it returns and which entries that has; the second part goes    *)
(* through the steps of the tasks; the last one follows the answers to a   *)
(* lookup.                                                                 *)
(***************************************************************************)
EXTENDS Discovery, TLAPS, WellFoundedInduction

TableType == [Buckets -> [peers : Seq(PeerType), replacements : Seq(Nodes)]]

----------------------------------------------------------------------------
(* The operations on a table *)

\* A list with one element replaced
LEMMA ReplaceAt ==
    ASSUME NEW S, NEW seq \in Seq(S), NEW k \in 1 .. Len(seq), NEW e \in S
    PROVE  /\ [seq EXCEPT ![k] = e] \in Seq(S)
           /\ Len([seq EXCEPT ![k] = e]) = Len(seq)
           /\ \A j \in 1 .. Len(seq) : [seq EXCEPT ![k] = e][j] = IF j = k THEN e ELSE seq[j]
OBVIOUS

\* Without queries nothing is found
LEMMA NoneFound == 0 \in Nat /\ <<>> \in Seq(Nodes) /\ Len(<<>>) <= 0 * MaxNodesPerBucket
BY KademliaAssumption

\* The peers of a bucket are entries of the table
LEMMA EntryThere ==
    ASSUME NEW t, NEW b \in Buckets, NEW j \in DOMAIN t[b].peers
    PROVE  t[b].peers[j] \in Entries(t)
BY DEF Entries

\* bucket_number gives an index of the array of buckets
LEMMA BucketInRange ==
    ASSUME NEW n \in Nodes
    PROVE  BucketOf(n) \in Buckets
<1> DEFINE D == Differing(n, Local)
<1>1. D \subseteq 1 .. Bits
  BY DEF Differing
<1>2. CASE D = {}
  BY <1>2, KademliaAssumption DEF BucketOf, BucketNumber, BucketNumbers, Buckets
<1>3. CASE D # {}
  <2>1. PICK i \in D : \A j \in D : ~ (<<j, i>> \in OpToRel(<, Nat))
    <3>1. D \subseteq Nat
      BY <1>1, KademliaAssumption
    <3> HIDE DEF D
    <3>2. QED BY <3>1, <1>3, WFMin, NatLessThanWellFounded
  <2>2. \A j \in D : i <= j
    <3> SUFFICES ASSUME NEW j \in D PROVE i <= j
      OBVIOUS
    <3>1. i \in Nat /\ j \in Nat
      BY <1>1, KademliaAssumption
    <3>2. ~ (j < i)
      BY Zenon, <2>1, <3>1 DEF OpToRel
    <3>3. QED BY <3>1, <3>2
  <2>3. BucketOf(n) = Bits - (CHOOSE k \in D : \A j \in D : k <= j)
    BY <1>3, KademliaAssumption DEF BucketOf, BucketNumber, BucketNumbers
  <2>4. (CHOOSE k \in D : \A j \in D : k <= j) \in D
    BY <2>2
  <2>5. QED BY <2>3, <2>4, <1>1, KademliaAssumption DEF Buckets
<1>4. QED BY <1>2, <1>3

\* get_by_node_id finds an entry of the node
LEMMA Found ==
    ASSUME NEW t \in TableType, NEW n \in Nodes, InPeers(t, n)
    PROVE  /\ Position(t, n) \in DOMAIN t[BucketOf(n)].peers
           /\ GetByNodeId(t, n) \in PeerType
           /\ GetByNodeId(t, n) \in Entries(t)
           /\ GetByNodeId(t, n).node = n
<1>1. BucketOf(n) \in Buckets
  BY BucketInRange
<1>2. /\ Position(t, n) \in DOMAIN t[BucketOf(n)].peers
      /\ t[BucketOf(n)].peers[Position(t, n)].node = n
  BY DEF InPeers, Position
<1>3. t[BucketOf(n)].peers \in Seq(PeerType)
  BY <1>1 DEF TableType
<1>4. GetByNodeId(t, n) \in PeerType
  BY <1>2, <1>3 DEF GetByNodeId
<1>5. GetByNodeId(t, n) \in Entries(t)
  BY <1>1, <1>2 DEF GetByNodeId, Entries
<1>6. QED BY <1>2, <1>4, <1>5 DEF GetByNodeId

\* What the lists of a table are
LEMMA Lists ==
    ASSUME NEW t \in TableType, NEW b \in Buckets
    PROVE  /\ t[b].peers \in Seq(PeerType) /\ t[b].replacements \in Seq(Nodes)
           /\ DOMAIN t[b].peers = 1 .. Len(t[b].peers) /\ Len(t[b].peers) \in Nat
           /\ DOMAIN t[b].replacements = 1 .. Len(t[b].replacements)
           /\ Len(t[b].replacements) \in Nat
<1>1. t[b].peers \in Seq(PeerType) /\ t[b].replacements \in Seq(Nodes)
  BY DEF TableType
<1>2. QED BY <1>1

\* Other lists in one bucket: the other buckets stay
LEMMA BucketSet ==
    ASSUME NEW t \in TableType, NEW b \in Buckets,
           NEW peers \in Seq(PeerType), NEW rs \in Seq(Nodes)
    PROVE  /\ WithBucket(t, b, peers, rs) \in TableType
           /\ WithBucket(t, b, peers, rs)[b].peers = peers
           /\ WithBucket(t, b, peers, rs)[b].replacements = rs
           /\ \A c \in Buckets \ {b} : WithBucket(t, b, peers, rs)[c] = t[c]
<1> DEFINE r == [peers |-> peers, replacements |-> rs]
<1>1. r \in [peers : Seq(PeerType), replacements : Seq(Nodes)]
  OBVIOUS
<1>2. r.peers = peers /\ r.replacements = rs
  OBVIOUS
<1>3. WithBucket(t, b, peers, rs) = [t EXCEPT ![b] = r]
  BY DEF WithBucket
<1> HIDE DEF r
<1>4. QED BY <1>1, <1>2, <1>3 DEF TableType

\* One bucket is enough to tell that a table is sound
LEMMA BucketSound ==
    ASSUME NEW t \in TableType, Sound(t), NEW b \in Buckets,
           NEW peers \in Seq(PeerType), NEW rs \in Seq(Nodes),
           Len(peers) <= MaxNodesPerBucket, Len(rs) <= MaxReplacements,
           \A i \in 1 .. Len(peers) : BucketOf(peers[i].node) = b,
           \A i \in 1 .. Len(rs) : BucketOf(rs[i]) = b,
           \A i, j \in 1 .. Len(peers) : i # j => peers[i].node # peers[j].node,
           \A i, j \in 1 .. Len(rs) : i # j => rs[i] # rs[j],
           \A i \in 1 .. Len(peers), j \in 1 .. Len(rs) : peers[i].node # rs[j]
    PROVE  Sound(WithBucket(t, b, peers, rs))
<1> DEFINE u == WithBucket(t, b, peers, rs)
<1>1. u[b].peers = peers /\ u[b].replacements = rs /\ \A c \in Buckets \ {b} : u[c] = t[c]
  BY BucketSet
<1>2. DOMAIN peers = 1 .. Len(peers) /\ DOMAIN rs = 1 .. Len(rs)
  OBVIOUS
<1> HIDE DEF u
<1>3. Sound(u)
  <2> SUFFICES ASSUME NEW c \in Buckets
               PROVE  /\ Len(u[c].peers) <= MaxNodesPerBucket
                      /\ Len(u[c].replacements) <= MaxReplacements
                      /\ \A i \in DOMAIN u[c].peers : BucketOf(u[c].peers[i].node) = c
                      /\ \A i \in DOMAIN u[c].replacements : BucketOf(u[c].replacements[i]) = c
                      /\ \A i, j \in DOMAIN u[c].peers :
                            i # j => u[c].peers[i].node # u[c].peers[j].node
                      /\ \A i, j \in DOMAIN u[c].replacements :
                            i # j => u[c].replacements[i] # u[c].replacements[j]
                      /\ \A i \in DOMAIN u[c].peers, j \in DOMAIN u[c].replacements :
                            u[c].peers[i].node # u[c].replacements[j]
    BY DEF Sound
  <2>1. CASE c = b
    BY <1>1, <1>2, <2>1
  <2>2. CASE c # b
    BY <1>1, <2>2 DEF Sound
  <2>3. QED BY <2>1, <2>2
<1>4. QED BY <1>3 DEF u

\* Where the entries of the table with other lists in one bucket come from
LEMMA BucketEntries ==
    ASSUME NEW t \in TableType, NEW b \in Buckets,
           NEW peers \in Seq(PeerType), NEW rs \in Seq(Nodes)
    PROVE  \A p \in Entries(WithBucket(t, b, peers, rs)) :
              \/ \E i \in 1 .. Len(peers) : p = peers[i]
              \/ \E c \in Buckets \ {b} : \E i \in DOMAIN t[c].peers : p = t[c].peers[i]
<1> DEFINE u == WithBucket(t, b, peers, rs)
<1>1. u[b].peers = peers /\ \A c \in Buckets \ {b} : u[c] = t[c]
  BY BucketSet
<1>2. DOMAIN peers = 1 .. Len(peers)
  OBVIOUS
<1> HIDE DEF u
<1>3. \A p \in Entries(u) : \/ \E i \in 1 .. Len(peers) : p = peers[i]
                            \/ \E c \in Buckets \ {b} : \E i \in DOMAIN t[c].peers : p = t[c].peers[i]
  BY <1>1, <1>2 DEF Entries
<1>4. QED BY <1>3 DEF u

\* An update of one entry keeps the table sound and the other entries, and
\* leaves no other entry of that node
LEMMA SetEntrySound ==
    ASSUME NEW t \in TableType, Sound(t), NEW n \in Nodes, InPeers(t, n),
           NEW q \in PeerType, q.node = n
    PROVE  /\ SetEntry(t, n, q) \in TableType
           /\ Sound(SetEntry(t, n, q))
           /\ \A p \in Entries(SetEntry(t, n, q)) :
                p = q \/ (p \in Entries(t) /\ p.node # n)
           /\ InPeers(SetEntry(t, n, q), n)
           /\ GetByNodeId(SetEntry(t, n, q), n) = q
<1> DEFINE b == BucketOf(n)
           i0 == Position(t, n)
           peers == [t[b].peers EXCEPT ![i0] = q]
           rs == t[b].replacements
           u == SetEntry(t, n, q)
<1>1. b \in Buckets
  BY BucketInRange
<1>2. i0 \in 1 .. Len(t[b].peers) /\ t[b].peers[i0].node = n
  BY <1>1, Found, Lists DEF GetByNodeId
<1>3. /\ t[b].peers \in Seq(PeerType) /\ rs \in Seq(Nodes)
      /\ DOMAIN t[b].peers = 1 .. Len(t[b].peers) /\ DOMAIN rs = 1 .. Len(rs)
  BY <1>1, Lists
<1>4. /\ peers \in Seq(PeerType) /\ Len(peers) = Len(t[b].peers)
      /\ \A i \in 1 .. Len(peers) : peers[i] = IF i = i0 THEN q ELSE t[b].peers[i]
  BY <1>2, <1>3, ReplaceAt
<1>5. u = WithBucket(t, b, peers, rs)
  BY DEF SetEntry
<1> HIDE DEF peers, u, rs
<1>6. u \in TableType /\ u[b].peers = peers
  BY <1>1, <1>3, <1>4, <1>5, BucketSet
<1>7. \A i \in 1 .. Len(peers) : peers[i].node = t[b].peers[i].node
  BY <1>2, <1>4
<1>8. Sound(u)
  <2>1. /\ Len(peers) <= MaxNodesPerBucket /\ Len(rs) <= MaxReplacements
        /\ \A i \in 1 .. Len(peers) : BucketOf(peers[i].node) = b
        /\ \A i \in 1 .. Len(rs) : BucketOf(rs[i]) = b
        /\ \A i, j \in 1 .. Len(peers) : i # j => peers[i].node # peers[j].node
        /\ \A i, j \in 1 .. Len(rs) : i # j => rs[i] # rs[j]
        /\ \A i \in 1 .. Len(peers), j \in 1 .. Len(rs) : peers[i].node # rs[j]
    BY <1>1, <1>3, <1>4, <1>7 DEF Sound, rs
  <2>2. QED BY Zenon, <2>1, <1>1, <1>3, <1>4, <1>5, BucketSound
<1>9. \A p \in Entries(u) : p = q \/ (p \in Entries(t) /\ p.node # n)
  <2> SUFFICES ASSUME NEW p \in Entries(u), p # q
               PROVE  p \in Entries(t) /\ p.node # n
    OBVIOUS
  <2>1. CASE \E i \in 1 .. Len(peers) : p = peers[i]
    <3>1. PICK i \in 1 .. Len(peers) : p = peers[i]
      BY <2>1
    <3>2. i # i0 /\ p = t[b].peers[i] /\ i \in DOMAIN t[b].peers /\ i0 \in DOMAIN t[b].peers
      BY <3>1, <1>2, <1>3, <1>4
    <3>3. p.node # n
      BY <3>2, <1>1, <1>2 DEF Sound
    <3>4. QED BY <3>2, <3>3, <1>1 DEF Entries
  <2>2. CASE \E c \in Buckets \ {b} : \E i \in DOMAIN t[c].peers : p = t[c].peers[i]
    <3>1. PICK c \in Buckets \ {b} : \E i \in DOMAIN t[c].peers : p = t[c].peers[i]
      BY <2>2
    <3>2. PICK i \in DOMAIN t[c].peers : p = t[c].peers[i]
      BY <3>1
    <3>3. BucketOf(p.node) = c
      BY <3>2 DEF Sound
    <3>4. QED BY <3>2, <3>3 DEF Entries
  <2>3. QED BY <2>1, <2>2, <1>1, <1>3, <1>4, <1>5, BucketEntries
<1>10. InPeers(u, n)
  <2>1. DOMAIN u[b].peers = 1 .. Len(peers)
    BY <1>4, <1>6
  <2>2. QED BY <2>1, <1>2, <1>4, <1>6, <1>7 DEF InPeers
<1>11. GetByNodeId(u, n) = q
  <2>1. GetByNodeId(u, n) \in Entries(u) /\ GetByNodeId(u, n).node = n
    BY <1>6, <1>10, Found
  <2>2. QED BY <2>1, <1>9
<1>12. QED BY <1>6, <1>8, <1>9, <1>10, <1>11 DEF u

\* An entry as PeerData::new makes it
LEMMA NewPeerType ==
    ASSUME NEW n \in Nodes
    PROVE  /\ NewPeer(n) \in PeerType /\ NewPeer(n).node = n
           /\ NewPeer(n).ping = None /\ NewPeer(n).channels = None /\ ~NewPeer(n).proven
BY KademliaAssumption DEF NewPeer, PeerType

\* Vec::remove
LEMMA RemoveSeq ==
    ASSUME NEW S, NEW s \in Seq(S), NEW k \in 1 .. Len(s)
    PROVE  /\ Remove(s, k) \in Seq(S) /\ Len(Remove(s, k)) = Len(s) - 1
           /\ \A i \in 1 .. Len(s) - 1 : Remove(s, k)[i] = s[IF i < k THEN i ELSE i + 1]
<1>1. Len(s) \in Nat /\ Len(s) - 1 \in Nat
  OBVIOUS
<1>2. \A i \in 1 .. Len(s) - 1 : (IF i < k THEN s[i] ELSE s[i + 1]) \in S
  <2> SUFFICES ASSUME NEW i \in 1 .. Len(s) - 1
               PROVE  s[i] \in S /\ s[i + 1] \in S
    OBVIOUS
  <2>1. i \in 1 .. Len(s) /\ i + 1 \in 1 .. Len(s)
    BY <1>1
  <2>2. QED BY <2>1
<1>3. QED BY <1>1, <1>2 DEF Remove

\* insert_as_replacement keeps the list of replacements free of duplicates
LEMMA PushReplacementSeq ==
    ASSUME NEW rs \in Seq(Nodes), NEW n \in Nodes, Len(rs) <= MaxReplacements,
           \A i \in 1 .. Len(rs) : rs[i] # n,
           \A i, j \in 1 .. Len(rs) : i # j => rs[i] # rs[j]
    PROVE  LET r == PushReplacement(rs, n)
           IN  /\ r \in Seq(Nodes) /\ Len(r) <= MaxReplacements
               /\ \A i \in 1 .. Len(r) : r[i] = n \/ \E j \in 1 .. Len(rs) : r[i] = rs[j]
               /\ \A i, j \in 1 .. Len(r) : i # j => r[i] # r[j]
<1> DEFINE k == IF Len(rs) >= MaxReplacements THEN Remove(rs, 1) ELSE rs
           r == PushReplacement(rs, n)
<1>1. Len(rs) \in Nat /\ MaxReplacements \in Nat \ {0}
  BY KademliaAssumption
<1>2. /\ k \in Seq(Nodes) /\ Len(k) < MaxReplacements
      /\ \A i \in 1 .. Len(k) : \E j \in 1 .. Len(rs) : k[i] = rs[j]
      /\ \A i, j \in 1 .. Len(k) : i # j => k[i] # k[j]
  <2>1. CASE Len(rs) >= MaxReplacements
    <3>1. 1 \in 1 .. Len(rs)
      BY <1>1, <2>1
    <3>2. /\ k \in Seq(Nodes) /\ Len(k) = Len(rs) - 1
          /\ \A i \in 1 .. Len(rs) - 1 : k[i] = rs[i + 1]
      BY <3>1, <2>1, RemoveSeq
    <3> HIDE DEF k
    <3>3. \A i \in 1 .. Len(k) : i + 1 \in 1 .. Len(rs) /\ k[i] = rs[i + 1]
      BY <3>2, <1>1
    <3>4. \A i, j \in 1 .. Len(k) : i # j => k[i] # k[j]
      <4> SUFFICES ASSUME NEW i \in 1 .. Len(k), NEW j \in 1 .. Len(k), i # j
                   PROVE  k[i] # k[j]
        OBVIOUS
      <4>1. i + 1 # j + 1
        OBVIOUS
      <4>2. QED BY Zenon, <4>1, <3>3
    <3>5. QED BY <1>1, <3>2, <3>3, <3>4
  <2>2. CASE ~ (Len(rs) >= MaxReplacements)
    BY <1>1, <2>2
  <2>3. QED BY <2>1, <2>2
<1>3. r = Append(k, n)
  BY DEF PushReplacement
<1> HIDE DEF k, r
<1>4. /\ r \in Seq(Nodes) /\ Len(r) = Len(k) + 1 /\ Len(k) \in Nat
      /\ \A i \in 1 .. Len(k) : r[i] = k[i]
      /\ r[Len(k) + 1] = n
  BY <1>2, <1>3
<1>5. \A i \in 1 .. Len(r) : i \in 1 .. Len(k) \/ i = Len(k) + 1
  BY <1>4
<1>6. \A i \in 1 .. Len(k) : k[i] # n
  BY <1>2
<1>7. \A i, j \in 1 .. Len(r) : i # j => r[i] # r[j]
  <2> SUFFICES ASSUME NEW i \in 1 .. Len(r), NEW j \in 1 .. Len(r), i # j
               PROVE  r[i] # r[j]
    OBVIOUS
  <2>1. QED BY Zenon, <1>2, <1>4, <1>5, <1>6
<1>8. Len(r) <= MaxReplacements
  BY <1>1, <1>2, <1>4
<1>9. \A i \in 1 .. Len(r) : r[i] = n \/ \E j \in 1 .. Len(rs) : r[i] = rs[j]
  BY <1>2, <1>4, <1>5
<1>10. QED BY <1>4, <1>7, <1>8, <1>9 DEF r

\* insert_node
LEMMA InsertSound ==
    ASSUME NEW t \in TableType, Sound(t), NEW n \in Nodes
    PROVE  /\ InsertNode(t, n) \in TableType /\ Sound(InsertNode(t, n))
           /\ \A p \in Entries(InsertNode(t, n)) : p \in Entries(t) \/ p = NewPeer(n)
           /\ Inserted(t, n) => InPeers(InsertNode(t, n), n)
<1> DEFINE b == BucketOf(n)
           ps == t[b].peers
           rs == t[b].replacements
           u == InsertNode(t, n)
<1>1. b \in Buckets
  BY BucketInRange
<1>2. /\ ps \in Seq(PeerType) /\ rs \in Seq(Nodes) /\ Len(ps) \in Nat /\ Len(rs) \in Nat
      /\ DOMAIN ps = 1 .. Len(ps) /\ DOMAIN rs = 1 .. Len(rs)
  BY Zenon, <1>1, Lists
<1>3. /\ Len(ps) <= MaxNodesPerBucket /\ Len(rs) <= MaxReplacements
      /\ \A i \in 1 .. Len(ps) : BucketOf(ps[i].node) = b
      /\ \A i \in 1 .. Len(rs) : BucketOf(rs[i]) = b
      /\ \A i, j \in 1 .. Len(ps) : i # j => ps[i].node # ps[j].node
      /\ \A i, j \in 1 .. Len(rs) : i # j => rs[i] # rs[j]
      /\ \A i \in 1 .. Len(ps), j \in 1 .. Len(rs) : ps[i].node # rs[j]
  BY <1>1, <1>2 DEF Sound
<1>4. CASE ~MayInsert(t, n)
  BY <1>4 DEF InsertNode, Inserted
<1>5. CASE MayInsert(t, n) /\ Len(ps) = MaxNodesPerBucket
  <2> DEFINE r == PushReplacement(rs, n)
  <2>1. u = WithBucket(t, b, ps, r)
    BY <1>5 DEF InsertNode
  <2>2. (\A i \in 1 .. Len(ps) : ps[i].node # n) /\ (\A i \in 1 .. Len(rs) : rs[i] # n)
    BY Zenon, <1>2, <1>5 DEF MayInsert, InPeers, InReplacements
  <2>3. /\ r \in Seq(Nodes) /\ Len(r) <= MaxReplacements
        /\ \A i \in 1 .. Len(r) : r[i] = n \/ \E j \in 1 .. Len(rs) : r[i] = rs[j]
        /\ \A i, j \in 1 .. Len(r) : i # j => r[i] # r[j]
    BY Zenon, <1>2, <1>3, <2>2, PushReplacementSeq
  <2> HIDE DEF r, u, ps, rs, b
  <2>4. /\ \A i \in 1 .. Len(r) : BucketOf(r[i]) = b
        /\ \A i \in 1 .. Len(ps), j \in 1 .. Len(r) : ps[i].node # r[j]
    <3>1. BucketOf(n) = b
      BY Zenon DEF b
    <3>2. \A i \in 1 .. Len(r) : BucketOf(r[i]) = b
      BY <1>3, <2>3, <3>1
    <3>3. ASSUME NEW i \in 1 .. Len(ps), NEW j \in 1 .. Len(r) PROVE ps[i].node # r[j]
      <4>1. ps[i].node # n
        BY Zenon, <2>2
      <4>2. \A k \in 1 .. Len(rs) : ps[i].node # rs[k]
        BY Zenon, <1>3
      <4>3. r[j] = n \/ \E k \in 1 .. Len(rs) : r[j] = rs[k]
        BY Zenon, <2>3
      <4>4. QED BY Zenon, <4>1, <4>2, <4>3
    <3>4. QED BY Zenon, <3>2, <3>3
  <2>5. u \in TableType /\ Sound(u)
    BY Zenon, <1>1, <1>2, <1>3, <2>1, <2>3, <2>4, BucketSet, BucketSound
  <2>6. \A p \in Entries(u) : p \in Entries(t)
    <3> SUFFICES ASSUME NEW p \in Entries(u) PROVE p \in Entries(t)
      OBVIOUS
    <3>1. \/ \E i \in 1 .. Len(ps) : p = ps[i]
          \/ \E c \in Buckets \ {b} : \E i \in DOMAIN t[c].peers : p = t[c].peers[i]
      BY <1>1, <1>2, <2>1, <2>3, BucketEntries
    <3>2. QED BY <3>1, <1>1, <1>2 DEF Entries, ps
  <2>7. ~Inserted(t, n)
    BY <1>5 DEF Inserted, ps, b
  <2>8. QED BY <2>5, <2>6, <2>7 DEF u
<1>6. CASE MayInsert(t, n) /\ Len(ps) # MaxNodesPerBucket
  <2> DEFINE q == NewPeer(n)
             s == Append(ps, q)
  <2>1. u = WithBucket(t, b, s, rs)
    BY <1>6 DEF InsertNode
  <2>2. (\A i \in 1 .. Len(ps) : ps[i].node # n) /\ (\A i \in 1 .. Len(rs) : rs[i] # n)
    BY Zenon, <1>2, <1>6 DEF MayInsert, InPeers, InReplacements
  <2>3. q \in PeerType /\ q.node = n
    BY NewPeerType
  <2>0. Len(ps) + 1 <= MaxNodesPerBucket
    <3>1. Len(ps) \in Nat /\ Len(ps) <= MaxNodesPerBucket /\ Len(ps) # MaxNodesPerBucket
      BY <1>2, <1>3, <1>6
    <3> HIDE DEF ps
    <3>2. QED BY <3>1, KademliaAssumption
  <2> HIDE DEF q
  <2>4. /\ s \in Seq(PeerType) /\ Len(s) = Len(ps) + 1
        /\ \A i \in 1 .. Len(ps) : s[i] = ps[i]
        /\ s[Len(ps) + 1] = q
    BY <1>2, <2>3
  <2>5. b = BucketOf(n)
    OBVIOUS
  <2> HIDE DEF s, u, ps, rs, b
  <2>6. \A i \in 1 .. Len(s) : i \in 1 .. Len(ps) \/ i = Len(ps) + 1
    BY <1>2, <2>4
  <2>7. /\ Len(s) <= MaxNodesPerBucket
        /\ \A i \in 1 .. Len(s) : BucketOf(s[i].node) = b
        /\ \A i, j \in 1 .. Len(s) : i # j => s[i].node # s[j].node
        /\ \A i \in 1 .. Len(s), j \in 1 .. Len(rs) : s[i].node # rs[j]
    <3>1. Len(s) <= MaxNodesPerBucket
      BY <2>0, <2>4
    <3>2. \A i \in 1 .. Len(s) : BucketOf(s[i].node) = b
      BY <1>3, <2>3, <2>4, <2>5, <2>6
    <3>3. \A i, j \in 1 .. Len(s) : i # j => s[i].node # s[j].node
      BY Zenon, <1>3, <2>2, <2>3, <2>4, <2>6
    <3>4. \A i \in 1 .. Len(s), j \in 1 .. Len(rs) : s[i].node # rs[j]
      BY <1>3, <2>2, <2>3, <2>4, <2>6
    <3>5. QED BY <3>1, <3>2, <3>3, <3>4
  <2>8. u \in TableType /\ Sound(u) /\ u[b].peers = s
    <3>1. u \in TableType /\ u[b].peers = s
      BY <1>1, <1>2, <2>1, <2>4, BucketSet
    <3>2. /\ Len(rs) <= MaxReplacements
          /\ \A i \in 1 .. Len(rs) : BucketOf(rs[i]) = b
          /\ \A i, j \in 1 .. Len(rs) : i # j => rs[i] # rs[j]
      BY <1>3
    <3>3. Sound(WithBucket(t, b, s, rs))
      BY Zenon, <1>1, <1>2, <2>4, <2>7, <3>2, BucketSound
    <3>4. QED BY <2>1, <3>1, <3>3
  <2>9. \A p \in Entries(u) : p \in Entries(t) \/ p = q
    <3> SUFFICES ASSUME NEW p \in Entries(u) PROVE p \in Entries(t) \/ p = q
      OBVIOUS
    <3>1. \/ \E i \in 1 .. Len(s) : p = s[i]
          \/ \E c \in Buckets \ {b} : \E i \in DOMAIN t[c].peers : p = t[c].peers[i]
      BY <1>1, <1>2, <2>1, <2>4, BucketEntries
    <3>2. CASE \E i \in 1 .. Len(s) : p = s[i]
      <4>1. PICK i \in 1 .. Len(s) : p = s[i]
        BY <3>2
      <4>2. CASE i \in 1 .. Len(ps)
        <5>1. p = ps[i] /\ i \in DOMAIN ps
          BY <4>1, <4>2, <1>2, <2>4
        <5>2. QED BY <5>1, <1>1 DEF Entries, ps
      <4>3. QED BY <4>1, <4>2, <2>4, <2>6
    <3>3. QED BY <3>1, <3>2 DEF Entries
  <2>10. InPeers(u, n)
    <3>1. Len(ps) + 1 \in DOMAIN u[b].peers
      BY <1>2, <2>4, <2>8
    <3>2. u[b].peers[Len(ps) + 1].node = n
      BY <2>3, <2>4, <2>8
    <3>3. QED BY <3>1, <3>2 DEF InPeers, b
  <2>11. QED BY <2>8, <2>9, <2>10 DEF u, q
<1>7. QED BY <1>4, <1>5, <1>6

\* replace_peer: no entry of the node is left, and a new one is as PeerData::new made it
LEMMA ReplaceSound ==
    ASSUME NEW t \in TableType, Sound(t), NEW n \in Nodes
    PROVE  /\ ReplacePeer(t, n) \in TableType /\ Sound(ReplacePeer(t, n))
           /\ \A p \in Entries(ReplacePeer(t, n)) :
                \/ p \in Entries(t) /\ p.node # n
                \/ \E m \in Nodes : p = NewPeer(m)
           /\ Replacement(t, n) \in Nodes \cup {None}
<1> DEFINE b == BucketOf(n)
           ps == t[b].peers
           rs == t[b].replacements
           u == ReplacePeer(t, n)
<1>1. b \in Buckets
  BY BucketInRange
<1>2. /\ ps \in Seq(PeerType) /\ rs \in Seq(Nodes) /\ Len(ps) \in Nat /\ Len(rs) \in Nat
      /\ DOMAIN ps = 1 .. Len(ps) /\ DOMAIN rs = 1 .. Len(rs)
  BY <1>1, Lists
<1>3. /\ Len(ps) <= MaxNodesPerBucket /\ Len(rs) <= MaxReplacements
      /\ \A i \in 1 .. Len(ps) : BucketOf(ps[i].node) = b
      /\ \A i \in 1 .. Len(rs) : BucketOf(rs[i]) = b
      /\ \A i, j \in 1 .. Len(ps) : i # j => ps[i].node # ps[j].node
      /\ \A i, j \in 1 .. Len(rs) : i # j => rs[i] # rs[j]
      /\ \A i \in 1 .. Len(ps), j \in 1 .. Len(rs) : ps[i].node # rs[j]
  BY <1>1, <1>2 DEF Sound
<1>4. \A c \in Buckets \ {b} : \A i \in DOMAIN t[c].peers :
          t[c].peers[i].node # n /\ t[c].peers[i] \in Entries(t)
  BY DEF Sound, Entries
<1>5. Replacement(t, n) \in Nodes \cup {None}
  <2>1. rs # <<>> => Len(rs) \in 1 .. Len(rs)
    BY <1>2
  <2>2. rs # <<>> => rs[Len(rs)] \in Nodes
    BY <1>2, <2>1
  <2>3. QED BY <2>2 DEF Replacement
<1>6. CASE ~InPeers(t, n)
  <2>1. u = t
    BY <1>6 DEF ReplacePeer
  <2>2. \A p \in Entries(t) : p.node # n
    <3> SUFFICES ASSUME NEW c \in Buckets, NEW i \in DOMAIN t[c].peers
                 PROVE  t[c].peers[i].node # n
      BY DEF Entries
    <3>1. CASE c = b
      BY Zenon, <1>6, <3>1 DEF InPeers
    <3>2. QED BY <1>4, <3>1
  <2>3. QED BY <1>5, <2>1, <2>2
<1>7. CASE InPeers(t, n)
  <2> DEFINE k == Position(t, n)
  <2>1. k \in 1 .. Len(ps) /\ ps[k].node = n
    BY Zenon, <1>2, <1>7, Found DEF GetByNodeId
  <2>2. \A i \in 1 .. Len(ps) : i # k => ps[i].node # n
    BY <1>3, <2>1
  <2>3. \A i \in 1 .. Len(ps) : ps[i] \in Entries(t)
    BY <1>1, <1>2 DEF Entries
  <2>4. CASE rs = <<>>
    <3> DEFINE s == Remove(ps, k)
    <3>1. u = WithBucket(t, b, s, rs)
      BY <1>7, <2>4 DEF ReplacePeer
    <3>2. /\ s \in Seq(PeerType) /\ Len(s) = Len(ps) - 1
          /\ \A i \in 1 .. Len(ps) - 1 : s[i] = ps[IF i < k THEN i ELSE i + 1]
      BY Zenon, <1>2, <2>1, RemoveSeq
    <3> HIDE DEF s, u, ps, rs, b, k
    <3> DEFINE at(i) == IF i < k THEN i ELSE i + 1
    <3>3. \A i \in 1 .. Len(s) : s[i] = ps[at(i)] /\ at(i) \in 1 .. Len(ps) /\ at(i) # k
      BY <1>2, <2>1, <3>2
    <3>4. \A i, j \in 1 .. Len(s) : i # j => at(i) # at(j)
      BY <1>2, <2>1, <3>2
    <3> HIDE DEF at
    <3>5. /\ Len(s) <= MaxNodesPerBucket
          /\ \A i \in 1 .. Len(s) : BucketOf(s[i].node) = b
          /\ \A i, j \in 1 .. Len(s) : i # j => s[i].node # s[j].node
          /\ \A i \in 1 .. Len(s), j \in 1 .. Len(rs) : s[i].node # rs[j]
      <4>1. Len(s) <= MaxNodesPerBucket
        BY <1>2, <1>3, <3>2, KademliaAssumption
      <4>2. \A i \in 1 .. Len(s) : BucketOf(s[i].node) = b
        BY <1>3, <3>3
      <4>3. \A i, j \in 1 .. Len(s) : i # j => s[i].node # s[j].node
        <5> SUFFICES ASSUME NEW i \in 1 .. Len(s), NEW j \in 1 .. Len(s), i # j
                     PROVE  s[i].node # s[j].node
          OBVIOUS
        <5>1. at(i) # at(j) /\ at(i) \in 1 .. Len(ps) /\ at(j) \in 1 .. Len(ps)
          BY <3>3, <3>4
        <5>2. ps[at(i)].node # ps[at(j)].node
          BY <5>1, <1>3
        <5>3. QED BY <5>2, <3>3
      <4>4. \A i \in 1 .. Len(s), j \in 1 .. Len(rs) : s[i].node # rs[j]
        BY <1>3, <3>3
      <4>5. QED BY <4>1, <4>2, <4>3, <4>4
    <3>6. u \in TableType
      BY Zenon, <1>1, <1>2, <3>1, <3>2, BucketSet
    <3>7. /\ Len(rs) <= MaxReplacements
          /\ \A i \in 1 .. Len(rs) : BucketOf(rs[i]) = b
          /\ \A i, j \in 1 .. Len(rs) : i # j => rs[i] # rs[j]
      BY <1>3
    <3>8. Sound(u)
      BY Zenon, <1>1, <1>2, <3>1, <3>2, <3>5, <3>7, BucketSound
    <3>9. \A p \in Entries(u) : p \in Entries(t) /\ p.node # n
      <4> SUFFICES ASSUME NEW p \in Entries(u) PROVE p \in Entries(t) /\ p.node # n
        OBVIOUS
      <4>1. \/ \E i \in 1 .. Len(s) : p = s[i]
            \/ \E c \in Buckets \ {b} : \E i \in DOMAIN t[c].peers : p = t[c].peers[i]
        BY <1>1, <1>2, <3>1, <3>2, BucketEntries
      <4>2. CASE \E i \in 1 .. Len(s) : p = s[i]
        <5>1. PICK i \in 1 .. Len(s) : p = s[i]
          BY <4>2
        <5>2. p = ps[at(i)] /\ at(i) \in 1 .. Len(ps) /\ at(i) # k
          BY <5>1, <3>3
        <5>3. QED BY <5>2, <2>2, <2>3
      <4>3. QED BY <4>1, <4>2, <1>4
    <3>10. QED BY Zenon, <1>5, <3>6, <3>8, <3>9 DEF u
  <2>5. CASE rs # <<>>
    <3> DEFINE m == rs[Len(rs)]
               q == NewPeer(m)
               s == [ps EXCEPT ![k] = q]
               r == Remove(rs, Len(rs))
    <3>1. u = WithBucket(t, b, s, r)
      BY <1>7, <2>5 DEF ReplacePeer
    <3>2. Len(rs) \in 1 .. Len(rs)
      BY <1>2, <2>5
    <3>3. m \in Nodes
      BY <1>2, <3>2
    <3>4. q \in PeerType /\ q.node = m
      BY Zenon, <3>3, NewPeerType
    <3>5. /\ s \in Seq(PeerType) /\ Len(s) = Len(ps)
          /\ \A i \in 1 .. Len(s) : s[i] = IF i = k THEN q ELSE ps[i]
      BY <1>2, <2>1, <3>4, ReplaceAt
    <3>6. /\ r \in Seq(Nodes) /\ Len(r) = Len(rs) - 1
          /\ \A i \in 1 .. Len(rs) - 1 : r[i] = rs[IF i < Len(rs) THEN i ELSE i + 1]
      BY Zenon, <1>2, <3>2, RemoveSeq
    <3> HIDE DEF m, q, s, r, u, ps, rs, b, k
    <3>7. \A i \in 1 .. Len(r) : i \in 1 .. Len(rs) /\ i # Len(rs) /\ r[i] = rs[i]
      <4> SUFFICES ASSUME NEW i \in 1 .. Len(r)
                   PROVE  i \in 1 .. Len(rs) /\ i # Len(rs) /\ r[i] = rs[i]
        OBVIOUS
      <4>1. Len(rs) \in Nat /\ i \in 1 .. Len(rs) - 1 /\ i < Len(rs)
        BY <1>2, <3>6
      <4>2. r[i] = rs[i]
        BY <4>1, <3>6
      <4>3. QED BY <4>1, <4>2
    <3>8. BucketOf(m) = b /\ \A i \in 1 .. Len(ps) : ps[i].node # m
      BY <1>3, <3>2 DEF m
    <3>9. \A i \in 1 .. Len(r) : r[i] # m
      BY <1>3, <3>2, <3>7 DEF m
    <3>10. \A i, j \in 1 .. Len(s) : i # j => s[i].node # s[j].node
      BY Zenon, <1>3, <3>4, <3>5, <3>8
    <3>11. /\ Len(s) <= MaxNodesPerBucket
           /\ \A i \in 1 .. Len(s) : BucketOf(s[i].node) = b
           /\ \A i \in 1 .. Len(s), j \in 1 .. Len(r) : s[i].node # r[j]
      BY <1>3, <3>4, <3>5, <3>7, <3>8, <3>9
    <3>12. Len(r) <= MaxReplacements
      <4>1. Len(rs) <= MaxReplacements /\ Len(rs) \in Nat /\ Len(r) = Len(rs) - 1
        BY <1>2, <1>3, <3>6
      <4>2. QED BY <4>1, KademliaAssumption
    <3>13. /\ \A i \in 1 .. Len(r) : BucketOf(r[i]) = b
           /\ \A i, j \in 1 .. Len(r) : i # j => r[i] # r[j]
      BY <1>3, <3>7
    <3>14. u \in TableType
      BY Zenon, <1>1, <3>1, <3>5, <3>6, BucketSet
    <3>15. Sound(u)
      BY Zenon, <1>1, <3>1, <3>5, <3>6, <3>10, <3>11, <3>12, <3>13, BucketSound
    <3>16. \A p \in Entries(u) : (p \in Entries(t) /\ p.node # n) \/ p = q
      <4> SUFFICES ASSUME NEW p \in Entries(u) PROVE (p \in Entries(t) /\ p.node # n) \/ p = q
        OBVIOUS
      <4>1. \/ \E i \in 1 .. Len(s) : p = s[i]
            \/ \E c \in Buckets \ {b} : \E i \in DOMAIN t[c].peers : p = t[c].peers[i]
        <5>1. u = WithBucket(t, b, s, r) /\ b \in Buckets /\ s \in Seq(PeerType) /\ r \in Seq(Nodes)
          BY Zenon, <1>1, <3>1, <3>5, <3>6
        <5>2. \A e \in Entries(WithBucket(t, b, s, r)) :
                \/ \E i \in 1 .. Len(s) : e = s[i]
                \/ \E c \in Buckets \ {b} : \E i \in DOMAIN t[c].peers : e = t[c].peers[i]
          BY <5>1, BucketEntries
        <5>3. p \in Entries(WithBucket(t, b, s, r))
          BY <5>1
        <5>4. QED BY <5>2, <5>3, Zenon
      <4>2. QED BY <4>1, <1>4, <2>2, <2>3, <3>5
    <3>17. QED BY Zenon, <1>5, <3>3, <3>14, <3>15, <3>16 DEF u, q
  <2>6. QED BY Zenon, <2>4, <2>5
<1>8. QED BY Zenon, <1>6, <1>7

\* What the writers of a single entry have in common
LEMMA UpdateEntry ==
    ASSUME NEW t \in TableType, Sound(t), NEW n \in Nodes, NEW q, NEW u,
           InPeers(t, n) => q \in PeerType /\ q.node = n,
           u = IF InPeers(t, n) THEN SetEntry(t, n, q) ELSE t
    PROVE  /\ u \in TableType /\ Sound(u)
           /\ \A p \in Entries(u) : p \in Entries(t) \/ (InPeers(t, n) /\ p = q)
BY SetEntrySound

\* update_peer_ping
LEMMA PingUpdate ==
    ASSUME NEW t \in TableType, Sound(t), NEW n \in Nodes, NEW hash \in Nat \cup {None}
    PROVE  /\ UpdatePeerPing(t, n, hash) \in TableType /\ Sound(UpdatePeerPing(t, n, hash))
           /\ \A p \in Entries(UpdatePeerPing(t, n, hash)) :
                p \in Entries(t) \/ (\E o \in Entries(t) : o.node = n /\ p = [o EXCEPT !.ping = hash])
<1> DEFINE o == GetByNodeId(t, n)
           q == [o EXCEPT !.ping = hash]
           u == UpdatePeerPing(t, n, hash)
<1>1. InPeers(t, n) => o \in PeerType /\ o \in Entries(t) /\ o.node = n
  BY Found
<1>2. u = IF InPeers(t, n) THEN SetEntry(t, n, q) ELSE t
  BY DEF UpdatePeerPing, UpdatePeer
<1> HIDE DEF o, u
<1>3. InPeers(t, n) => q \in PeerType /\ q.node = n
  BY <1>1 DEF PeerType
<1> HIDE DEF q
<1>4. /\ u \in TableType /\ Sound(u)
      /\ \A p \in Entries(u) : p \in Entries(t) \/ (InPeers(t, n) /\ p = q)
  BY Zenon, <1>2, <1>3, UpdateEntry
<1>5. QED BY <1>1, <1>4 DEF q, u

\* An entry after update_peer_ping_with_revalidation
Unanswered(o, hash) == [o EXCEPT !.ping = hash, !.revalidation = "pending"]

\* update_peer_ping_with_revalidation changes the entry of one node
LEMMA RevalidationUpdate ==
    ASSUME NEW t \in TableType, Sound(t), NEW n \in Nodes, NEW hash \in Nat \cup {None}
    PROVE  LET u == UpdatePeerPingWithRevalidation(t, n, hash)
           IN  /\ u \in TableType /\ Sound(u)
               /\ \A p \in Entries(u) :
                    \/ p \in Entries(t)
                    \/ \E o \in Entries(t) :
                        o.node = n /\ p = Unanswered(o, hash)
<1> DEFINE o == GetByNodeId(t, n)
           q == [o EXCEPT !.ping = hash, !.revalidation = "pending"]
           u == UpdatePeerPingWithRevalidation(t, n, hash)
<1>1. InPeers(t, n) => o \in PeerType /\ o \in Entries(t) /\ o.node = n
  BY Found
<1>2. u = IF InPeers(t, n) THEN SetEntry(t, n, q) ELSE t
  BY DEF UpdatePeerPingWithRevalidation, UpdatePeer
<1> HIDE DEF o, u
<1>3. InPeers(t, n) => q \in PeerType /\ q.node = n
  BY Zenon, <1>1 DEF PeerType
<1> HIDE DEF q
<1>4. /\ u \in TableType /\ Sound(u)
      /\ \A p \in Entries(u) : p \in Entries(t) \/ (InPeers(t, n) /\ p = q)
  BY <1>2, <1>3, UpdateEntry
<1>5. QED BY Zenon, <1>1, <1>4 DEF q, u, Unanswered

\* An entry that is the same in what the invariant below is about
SameEndpoint(o, p) ==
    p.node = o.node /\ p.ping = o.ping /\ p.proven = o.proven /\ p.channels = o.channels

\* The liveness of a peer stays in its width
LEMMA CheckedType ==
    ASSUME NEW o \in PeerType
    PROVE  Checked(o) \in PeerType /\ SameEndpoint(o, Checked(o))
<1>1. o.liveness \in 0 .. LivenessSize - 1 /\ LivenessSize \in Nat /\ LivenessSize > 1
  BY KademliaAssumption DEF PeerType
<1>2. Incremented(o.liveness) \in 0 .. LivenessSize - 1
  BY <1>1 DEF Incremented
<1>3. Decremented(o.liveness) \in 0 .. LivenessSize - 1
  BY <1>1 DEF Decremented
<1> DEFINE v == CASE o.revalidation = "answered" -> Incremented(o.liveness)
                  [] o.revalidation = "pending" -> Decremented(o.liveness)
                  [] OTHER -> o.liveness
<1>4. v \in 0 .. LivenessSize - 1
  BY <1>1, <1>2, <1>3 DEF PeerType
<1>5. Checked(o) = [o EXCEPT !.liveness = v, !.revalidation = "none"]
  BY DEF Checked
<1> HIDE DEF v
<1>6. QED BY Zenon, <1>4, <1>5 DEF PeerType, SameEndpoint

\* The entry of a peer that sent neighbours
LEMMA AfterNeighborsType ==
    ASSUME NEW o \in PeerType, o.request # None, NEW nodes \in Seq(Nodes)
    PROVE  AfterNeighbors(o, nodes) \in PeerType /\ SameEndpoint(o, AfterNeighbors(o, nodes))
<1>1. o.request \in [tx : Lookups, nodesSent : Nat]
  BY DEF PeerType
<1> DEFINE sent == NodesSent(o.request, nodes)
<1>2. sent \in Nat
  BY <1>1 DEF NodesSent
<1> HIDE DEF sent
<1>3. [o.request EXCEPT !.nodesSent = sent] \in [tx : Lookups, nodesSent : Nat]
  BY <1>1, <1>2
<1>4. CASE sent = MaxNodesPerBucket
  BY <1>4 DEF AfterNeighbors, PeerType, SameEndpoint, sent
<1>5. CASE sent # MaxNodesPerBucket /\ sent < MaxNodesPerBucket
  <2>1. AfterNeighbors(o, nodes) = [o EXCEPT !.request = [o.request EXCEPT !.nodesSent = sent]]
    BY <1>5 DEF AfterNeighbors, sent
  <2>2. QED BY <2>1, <1>3 DEF PeerType, SameEndpoint
<1>6. CASE sent # MaxNodesPerBucket /\ ~ (sent < MaxNodesPerBucket)
  BY <1>6 DEF AfterNeighbors, SameEndpoint, sent
<1>7. QED BY <1>4, <1>5, <1>6

----------------------------------------------------------------------------
(* The invariant *)

\* A hash that a task holds belongs to a ping that was sent to the node
HashOK(n, hash, pg) == hash # None => hash \in Nat /\ 1 <= hash /\ hash <= pg[n]

\* A node has returned the hash of a ping that was sent to it
Answers(n, pg, po) == \E hash \in po[n] : 0 < hash /\ hash <= pg[n]

EntryOK(p, pg, po, cn) ==
    /\ p.proven => Answers(p.node, pg, po)
    /\ HashOK(p.node, p.ping, pg)
    /\ p.channels # None =>
        /\ cn[p.channels].node = p.node
        /\ cn[p.channels].at \in {"open", "failing", "panicked"}

ConnStates == {"none", "hello", "open", "failing", "done", "panicked"}

ServerType ==
    [at : {"idle", "insert", "ping", "answered", "closest", "neighbors"},
     node : Nodes \cup {None}, store : BOOLEAN, nodes : Seq(Nodes)]

TypeInv ==
    /\ table \in TableType
    /\ pings \in [Nodes -> 0 .. MaxPings]
    /\ pongs \in [Nodes -> SUBSET Nat]
    /\ server \in ServerType
    /\ conn \in [Conns -> [at : ConnStates, node : Nodes \cup {None}]]

\* What the server remembers from under an earlier lock
ServerInv ==
    /\ server.at \in {"insert", "ping", "answered"} => server.node \in Nodes
    /\ server.at = "answered" => Answers(server.node, pings, pongs)

BootInv ==
    /\ boot.next \in Nat \ {0}
    /\ boot.hash \in Nat \cup {None}
    /\ boot.at \in {"ping", "store"} => boot.next <= Len(Bootnodes)
    /\ boot.at = "store" => HashOK(Bootnodes[boot.next], boot.hash, pings)

RevalInv ==
    /\ {"at", "node", "hash"} \subseteq DOMAIN reval
    /\ reval.hash \in Nat \cup {None}
    /\ reval.at = "store" => reval.node \in Nodes /\ HashOK(reval.node, reval.hash, pings)

ConnInv == \A c \in Conns : conn[c].at # "none" => conn[c].node \in Nodes

DiscoveryInv ==
    /\ TypeInv
    /\ Sound(table)
    /\ \A p \in Entries(table) : EntryOK(p, pings, pongs, conn)
    /\ ServerInv
    /\ BootInv
    /\ RevalInv
    /\ ConnInv

\* More pings do not harm what holds of an entry, of the server or of a hash
LEMMA MorePings ==
    ASSUME NEW n \in Nodes, NEW hash \in PingHashes(n), TypeInv, pings' = Pinged(n, hash)
    PROVE  /\ pings' \in [Nodes -> 0 .. MaxPings]
           /\ \A m \in Nodes : pings[m] <= pings'[m]
           /\ HashOK(n, hash, pings')
           /\ hash \in Nat \cup {None}
<1>1. pings \in [Nodes -> 0 .. MaxPings] /\ MaxPings \in Nat
  BY DiscoveryAssumption DEF TypeInv
<1>2. CASE hash = None
  BY <1>1, <1>2 DEF Pinged, HashOK
<1>3. CASE hash # None
  <2>1. hash = pings[n] + 1 /\ pings[n] < MaxPings /\ pings[n] \in Nat
    BY <1>1, <1>3 DEF PingHashes
  <2>2. pings' = [pings EXCEPT ![n] = hash]
    BY <1>3 DEF Pinged
  <2>3. QED BY <1>1, <2>1, <2>2 DEF HashOK
<1>4. QED BY <1>2, <1>3

\* ... of a hash ...
LEMMA HashKept ==
    ASSUME NEW n \in Nodes, NEW hash, TypeInv, HashOK(n, hash, pings),
           pings' \in [Nodes -> 0 .. MaxPings], \A m \in Nodes : pings[m] <= pings'[m]
    PROVE  HashOK(n, hash, pings')
<1>1. pings[n] \in Nat /\ pings'[n] \in Nat /\ pings[n] <= pings'[n]
  BY DiscoveryAssumption DEF TypeInv
<1>2. QED BY <1>1 DEF HashOK

\* ... of an answer, which more pongs do not harm either ...
LEMMA AnswersKept ==
    ASSUME NEW n \in Nodes, TypeInv, Answers(n, pings, pongs), pongs[n] \subseteq pongs'[n],
           pings' \in [Nodes -> 0 .. MaxPings], \A m \in Nodes : pings[m] <= pings'[m]
    PROVE  Answers(n, pings', pongs')
<1>1. PICK hash \in pongs[n] : 0 < hash /\ hash <= pings[n]
  BY Zenon DEF Answers
<1>2. hash \in Nat /\ hash \in pongs'[n]
  BY <1>1 DEF TypeInv
<1>3. pings[n] \in Nat /\ pings'[n] \in Nat /\ pings[n] <= pings'[n]
  BY DiscoveryAssumption DEF TypeInv
<1>4. 0 < hash /\ hash <= pings'[n]
  BY <1>1, <1>2, <1>3
<1>5. QED BY Zenon, <1>2, <1>4 DEF Answers

\* ... and of an entry
LEMMA EntryKept ==
    ASSUME NEW p, p.node \in Nodes, TypeInv, EntryOK(p, pings, pongs, conn),
           pings' \in [Nodes -> 0 .. MaxPings], \A m \in Nodes : pings[m] <= pings'[m],
           conn' = conn, pongs' = pongs
    PROVE  EntryOK(p, pings', pongs', conn')
<1>1. Answers(p.node, pings, pongs) => Answers(p.node, pings', pongs')
  BY AnswersKept
<1>2. HashOK(p.node, p.ping, pings')
  BY HashKept DEF EntryOK
<1>3. QED BY <1>1, <1>2 DEF EntryOK

\* A new entry has nothing to answer for
LEMMA NewEntryOK ==
    ASSUME NEW n \in Nodes, NEW pg, NEW po, NEW cn
    PROVE  EntryOK(NewPeer(n), pg, po, cn)
BY NewPeerType DEF EntryOK, HashOK

\* Entries are peers, with nodes of their own
LEMMA EntryTypes ==
    ASSUME NEW t \in TableType, NEW p \in Entries(t)
    PROVE  p \in PeerType /\ p.node \in Nodes
<1>1. PICK b \in Buckets : \E i \in DOMAIN t[b].peers : p = t[b].peers[i]
  BY DEF Entries
<1>2. PICK i \in DOMAIN t[b].peers : p = t[b].peers[i]
  BY <1>1
<1>3. t[b].peers \in Seq(PeerType)
  BY Lists
<1>4. p \in PeerType
  BY <1>2, <1>3
<1>5. QED BY <1>4 DEF PeerType

\* The server between two packets
LEMMA IdleServerType ==
    IdleServer \in ServerType /\ IdleServer.at = "idle"
<1>1. <<>> \in Seq(Nodes)
  OBVIOUS
<1>2. QED BY <1>1 DEF IdleServer, ServerType

\* The tasks start with an empty table
LEMMA InitInv ==
    Init => DiscoveryInv
<1> SUFFICES ASSUME Init PROVE DiscoveryInv
  OBVIOUS
<1>1. table \in TableType
  BY DEF Init, EmptyTable, TableType
<1>2. \A b \in Buckets : table[b].peers = <<>> /\ table[b].replacements = <<>>
  BY DEF Init, EmptyTable
<1>3. Sound(table)
  BY <1>2, KademliaAssumption DEF Sound
<1>4. Entries(table) = {}
  BY <1>2 DEF Entries
<1>5. TypeInv
  BY <1>1, DiscoveryAssumption, IdleServerType DEF Init, TypeInv, ConnStates
<1>6. ServerInv
  BY IdleServerType DEF Init, ServerInv
<1>7. BootInv
  BY DEF Init, BootInv
<1>8. RevalInv
  BY DEF Init, RevalInv
<1>9. ConnInv
  BY Zenon DEF Init, ConnInv
<1>10. QED BY <1>3, <1>4, <1>5, <1>6, <1>7, <1>8, <1>9 DEF DiscoveryInv

----------------------------------------------------------------------------
(* The steps of the server *)

\* Packets that only start something
LEMMA PacketStarts ==
    ASSUME DiscoveryInv, NEW n \in Nodes,
           \/ PingReceived(n)
           \/ \E hash \in 0 .. pings[n] : PongReceived(n, hash)
           \/ FindNodeReceived(n)
    PROVE  DiscoveryInv'
<1>1. UNCHANGED <<table, pings, boot, reval, conn>>
  BY Zenon DEF PingReceived, PongReceived, FindNodeReceived
<1>2. /\ server' \in ServerType /\ server'.node = n
      /\ server'.at = "answered" => \E hash \in 0 .. pings[n] : PongReceived(n, hash)
  <2>1. IdleServer \in ServerType
    BY IdleServerType
  <2>2. CASE PingReceived(n)
    <3> DEFINE at == IF InPeers(table, n) THEN "ping" ELSE "insert"
               store == InPeers(table, n)
    <3>1. at \in {"ping", "insert"} /\ store \in BOOLEAN
      BY DEF InPeers
    <3>2. server' = [IdleServer EXCEPT !.at = at, !.node = n, !.store = store]
      BY <2>2 DEF PingReceived
    <3> HIDE DEF at, store
    <3>3. QED BY Zenon, <2>1, <3>1, <3>2 DEF ServerType
  <2>3. CASE \E hash \in 0 .. pings[n] : PongReceived(n, hash)
    <3>1. server' = [IdleServer EXCEPT !.at = "answered", !.node = n]
      BY <2>3 DEF PongReceived
    <3>2. QED BY Zenon, <2>1, <2>3, <3>1 DEF ServerType
  <2>4. CASE FindNodeReceived(n)
    <3>1. server' = [IdleServer EXCEPT !.at = "closest", !.node = n]
      BY <2>4 DEF FindNodeReceived
    <3>2. QED BY Zenon, <2>1, <3>1 DEF ServerType
  <2>5. QED BY <2>2, <2>3, <2>4
<1>3. pongs' = pongs \/ \E hash \in 0 .. pings[n] : PongReceived(n, hash)
  BY DEF PingReceived, FindNodeReceived
<1>4. pings \in [Nodes -> 0 .. MaxPings] /\ pongs \in [Nodes -> SUBSET Nat] /\ pings[n] \in Nat
  BY DiscoveryAssumption DEF DiscoveryInv, TypeInv
<1>5. /\ pongs' \in [Nodes -> SUBSET Nat] /\ \A m \in Nodes : pongs[m] \subseteq pongs'[m]
      /\ server'.at = "answered" => Answers(n, pings, pongs')
  <2>1. CASE \E hash \in 0 .. pings[n] : PongReceived(n, hash)
    <3>1. PICK hash \in 0 .. pings[n] : PongMatches(n, hash) /\ pongs' = [pongs EXCEPT ![n] = @ \cup {hash}]
      BY Zenon, <2>1 DEF PongReceived
    <3>2. hash \in Nat
      BY <1>4, <3>1
    <3>3. /\ pongs' \in [Nodes -> SUBSET Nat] /\ \A m \in Nodes : pongs[m] \subseteq pongs'[m]
          /\ hash \in pongs'[n]
      BY <1>4, <3>1, <3>2
    <3>4. InPeers(table, n) /\ hash # None /\ GetByNodeId(table, n).ping = hash
      BY Zenon, <3>1 DEF PongMatches
    <3>5. GetByNodeId(table, n) \in Entries(table) /\ GetByNodeId(table, n).node = n
      BY Zenon, <3>4, Found DEF DiscoveryInv, TypeInv
    <3>6. HashOK(n, hash, pings)
      BY Zenon, <3>4, <3>5 DEF DiscoveryInv, EntryOK
    <3>7. 0 < hash /\ hash <= pings[n]
      BY <3>4, <3>6, <3>2 DEF HashOK
    <3>8. QED BY Zenon, <3>3, <3>7 DEF Answers
  <2>2. CASE ~ (\E hash \in 0 .. pings[n] : PongReceived(n, hash))
    BY Zenon, <1>2, <1>3, <1>4, <2>2
  <2>3. QED BY <2>1, <2>2
<1>6. TypeInv' /\ ServerInv'
  BY Zenon, <1>1, <1>2, <1>5 DEF DiscoveryInv, TypeInv, ServerInv
<1>7. \A p \in Entries(table) : EntryOK(p, pings, pongs', conn)
  <2> SUFFICES ASSUME NEW p \in Entries(table) PROVE EntryOK(p, pings, pongs', conn)
    OBVIOUS
  <2>1. p.node \in Nodes /\ EntryOK(p, pings, pongs, conn)
    BY Zenon, EntryTypes DEF DiscoveryInv, TypeInv
  <2>2. pongs[p.node] \subseteq pongs'[p.node]
    BY <1>5, <2>1
  <2>3. QED BY Zenon, <2>1, <2>2 DEF EntryOK, Answers
<1>8. QED BY Zenon, <1>1, <1>6, <1>7 DEF DiscoveryInv, BootInv, RevalInv, ConnInv

\* The server inserts a node in its bucket.
LEMMA ServerInsertKeeps ==
    ASSUME DiscoveryInv, ServerInsert
    PROVE  DiscoveryInv'
<1>1. server.node \in Nodes /\ table \in TableType /\ Sound(table)
  BY DEF DiscoveryInv, TypeInv, ServerInv, ServerInsert
<1>2. /\ table' \in TableType /\ Sound(table')
      /\ \A p \in Entries(table') : p \in Entries(table) \/ p = NewPeer(server.node)
  BY <1>1, InsertSound DEF ServerInsert
<1>3. \A p \in Entries(table') : EntryOK(p, pings, pongs, conn)
  BY Zenon, <1>1, <1>2, NewEntryOK DEF DiscoveryInv
<1>4. Inserted(table, server.node) \in BOOLEAN
  BY DEF Inserted, MayInsert, InPeers, InReplacements
<1>5. TypeInv' /\ ServerInv'
  BY Zenon, <1>1, <1>2, <1>4 DEF ServerInsert, DiscoveryInv, TypeInv, ServerInv, ServerType
<1>6. QED BY <1>2, <1>3, <1>5 DEF ServerInsert, DiscoveryInv, BootInv, RevalInv, ConnInv

\* The hash of a ping just sent is stored, or not, in the table t
LEMMA StoreHash ==
    ASSUME DiscoveryInv, NEW t \in TableType, Sound(t), NEW n \in Nodes,
           NEW hash \in PingHashes(n), pings' = Pinged(n, hash), conn' = conn, pongs' = pongs,
           \A p \in Entries(t) : EntryOK(p, pings, pongs, conn),
           table' = t \/ table' = UpdatePeerPing(t, n, hash)
    PROVE  /\ table' \in TableType /\ Sound(table')
           /\ pings' \in [Nodes -> 0 .. MaxPings]
           /\ \A m \in Nodes : pings[m] <= pings'[m]
           /\ \A p \in Entries(table') : EntryOK(p, pings', pongs', conn')
<1>1. /\ pings' \in [Nodes -> 0 .. MaxPings] /\ \A m \in Nodes : pings[m] <= pings'[m]
      /\ HashOK(n, hash, pings') /\ hash \in Nat \cup {None}
  BY MorePings DEF DiscoveryInv
<1>2. \A p \in Entries(t) : EntryOK(p, pings', pongs', conn')
  BY Zenon, <1>1, EntryTypes, EntryKept DEF DiscoveryInv
<1>3. CASE table' = t
  BY <1>1, <1>2, <1>3
<1>4. CASE table' = UpdatePeerPing(t, n, hash)
  <2>1. /\ table' \in TableType /\ Sound(table')
        /\ \A p \in Entries(table') :
             p \in Entries(t) \/ (\E o \in Entries(t) : o.node = n /\ p = [o EXCEPT !.ping = hash])
    BY <1>1, <1>4, PingUpdate
  <2>2. \A p \in Entries(table') : EntryOK(p, pings', pongs', conn')
    <3> SUFFICES ASSUME NEW o \in Entries(t), o.node = n
                 PROVE  EntryOK([o EXCEPT !.ping = hash], pings', pongs', conn')
      BY <1>2, <2>1
    <3>1. o \in PeerType
      BY EntryTypes
    <3> DEFINE p == [o EXCEPT !.ping = hash]
    <3>2. p.node = n /\ p.ping = hash /\ p.proven = o.proven /\ p.channels = o.channels
      BY Zenon, <3>1 DEF PeerType
    <3> HIDE DEF p
    <3>3. EntryOK(p, pings', pongs', conn')
      BY <1>1, <1>2, <3>2 DEF EntryOK
    <3>4. QED BY <3>3 DEF p
  <2>3. QED BY <1>1, <2>1, <2>2
<1>5. QED BY <1>3, <1>4

\* What more pings leave true
LEMMA OthersKept ==
    ASSUME DiscoveryInv, pings' \in [Nodes -> 0 .. MaxPings],
           \A m \in Nodes : pings[m] <= pings'[m], pongs' = pongs
    PROVE  /\ UNCHANGED server => ServerInv'
           /\ UNCHANGED boot => BootInv'
           /\ UNCHANGED reval => RevalInv'
<1>1. \A m \in Nodes : pings[m] \in Nat /\ pings'[m] \in Nat
  BY DiscoveryAssumption DEF DiscoveryInv, TypeInv
<1>2. UNCHANGED server => ServerInv'
  <2> SUFFICES ASSUME UNCHANGED server PROVE ServerInv'
    OBVIOUS
  <2>1. ServerInv
    BY DEF DiscoveryInv
  <2>2. server.node \in Nodes /\ Answers(server.node, pings, pongs) => Answers(server.node, pings', pongs')
    BY Zenon, AnswersKept DEF DiscoveryInv
  <2>3. QED BY <2>1, <2>2 DEF ServerInv
<1>3. UNCHANGED boot => BootInv'
  <2> SUFFICES ASSUME UNCHANGED boot PROVE BootInv'
    OBVIOUS
  <2>1. boot.at = "store" => HashOK(Bootnodes[boot.next], boot.hash, pings')
    <3> SUFFICES ASSUME boot.at = "store" PROVE HashOK(Bootnodes[boot.next], boot.hash, pings')
      OBVIOUS
    <3>1. boot.next \in 1 .. Len(Bootnodes)
      BY DiscoveryAssumption DEF DiscoveryInv, BootInv
    <3>2. Bootnodes[boot.next] \in Nodes
      BY <3>1, DiscoveryAssumption
    <3>3. HashOK(Bootnodes[boot.next], boot.hash, pings)
      BY DEF DiscoveryInv, BootInv
    <3>4. QED BY Zenon, <3>2, <3>3, HashKept DEF DiscoveryInv
  <2>2. QED BY <2>1 DEF DiscoveryInv, BootInv
<1>4. UNCHANGED reval => RevalInv'
  <2> SUFFICES ASSUME UNCHANGED reval PROVE RevalInv'
    OBVIOUS
  <2>1. reval.at = "store" => HashOK(reval.node, reval.hash, pings')
    BY Zenon, HashKept DEF DiscoveryInv, RevalInv
  <2>2. QED BY Zenon, <2>1 DEF DiscoveryInv, RevalInv
<1>5. QED BY <1>2, <1>3, <1>4

\* The server stores the hash of its ping.
LEMMA ServerPingKeeps ==
    ASSUME DiscoveryInv, ServerPing
    PROVE  DiscoveryInv'
<1>1. server.node \in Nodes /\ table \in TableType /\ Sound(table)
  BY DEF DiscoveryInv, TypeInv, ServerInv, ServerPing
<1>2. PICK hash \in PingHashes(server.node) :
        /\ pings' = Pinged(server.node, hash)
        /\ table' = table \/ table' = UpdatePeerPing(table, server.node, hash)
  BY DEF ServerPing
<1>3. conn' = conn /\ boot' = boot /\ reval' = reval /\ server' = IdleServer /\ pongs' = pongs
  BY Zenon DEF ServerPing
<1>4. /\ table' \in TableType /\ Sound(table') /\ pings' \in [Nodes -> 0 .. MaxPings]
      /\ \A m \in Nodes : pings[m] <= pings'[m]
      /\ \A p \in Entries(table') : EntryOK(p, pings', pongs', conn')
  BY Zenon, <1>1, <1>2, <1>3, StoreHash DEF DiscoveryInv
<1>5. BootInv' /\ RevalInv'
  BY Zenon, <1>3, <1>4, OthersKept
<1>6. TypeInv' /\ ServerInv'
  BY Zenon, <1>3, <1>4, IdleServerType DEF DiscoveryInv, TypeInv, ServerInv
<1>7. QED BY Zenon, <1>3, <1>4, <1>5, <1>6 DEF DiscoveryInv, ConnInv

\* A connection that leaves "none" for "hello" is in nobody's entry
LEMMA NewConnection ==
    ASSUME DiscoveryInv, NEW n \in Nodes, NEW c \in Conns, conn[c].at = "none",
           conn' = [conn EXCEPT ![c] = [at |-> "hello", node |-> n]],
           NEW p \in PeerType, EntryOK(p, pings, pongs, conn)
    PROVE  EntryOK(p, pings, pongs, conn')
<1>1. conn \in [Conns -> [at : ConnStates, node : Nodes \cup {None}]]
  BY Zenon DEF DiscoveryInv, TypeInv
<1>2. p.channels # None => p.channels \in Conns /\ p.channels # c
  BY Zenon DEF EntryOK, PeerType
<1>3. p.channels # None => conn'[p.channels] = conn[p.channels]
  BY Zenon, <1>1, <1>2
<1>4. QED BY <1>3 DEF EntryOK

\* ServerAnswered proves a peer that was pinged, and may start a connection
LEMMA ServerAnsweredKeeps ==
    ASSUME DiscoveryInv, ServerAnswered
    PROVE  DiscoveryInv'
<1> DEFINE n == server.node
           o == GetByNodeId(table, n)
           v == IF o.revalidation = "none" THEN "none" ELSE "answered"
           q == [o EXCEPT !.proven = TRUE, !.ping = None, !.revalidation = v]
<1>1. n \in Nodes /\ table \in TableType /\ Sound(table) /\ Answers(n, pings, pongs)
  BY Zenon DEF DiscoveryInv, TypeInv, ServerInv, ServerAnswered
<1>2. InPeers(table, n) => o \in PeerType /\ o \in Entries(table) /\ o.node = n
  BY <1>1, Found
<1>3. table' = IF InPeers(table, n) THEN SetEntry(table, n, q) ELSE table
  BY DEF ServerAnswered, PongAnswered, UpdatePeer
<1>4. UNCHANGED <<pings, pongs, boot, reval>> /\ server' = IdleServer
  BY DEF ServerAnswered
<1>5. v \in {"none", "answered"}
  OBVIOUS
<1>6. \/ conn' = conn
      \/ \E c \in Conns : conn[c].at = "none" /\ conn' = [conn EXCEPT ![c] = [at |-> "hello", node |-> n]]
  BY DEF ServerAnswered, Unused
<1> HIDE DEF v, o, n
<1>7. InPeers(table, n) => /\ q \in PeerType /\ q.node = n
                           /\ q.proven /\ q.ping = None /\ q.channels = o.channels
  BY Zenon, <1>2, <1>5 DEF PeerType
<1> HIDE DEF q
<1>8. /\ table' \in TableType /\ Sound(table')
      /\ \A p \in Entries(table') : p \in Entries(table) \/ (InPeers(table, n) /\ p = q)
  BY <1>1, <1>3, <1>7, UpdateEntry
<1>9. \A p \in Entries(table') : EntryOK(p, pings, pongs, conn)
  <2> SUFFICES ASSUME InPeers(table, n) PROVE EntryOK(q, pings, pongs, conn)
    BY <1>8 DEF DiscoveryInv
  <2>1. EntryOK(o, pings, pongs, conn)
    BY <1>2 DEF DiscoveryInv
  <2>2. QED BY Zenon, <1>1, <1>2, <1>7, <2>1 DEF EntryOK, HashOK
<1>10. \A p \in Entries(table') : EntryOK(p, pings, pongs, conn')
  <2>1. CASE conn' = conn
    BY Zenon, <1>9, <2>1
  <2>2. CASE \E c \in Conns : conn[c].at = "none" /\ conn' = [conn EXCEPT ![c] = [at |-> "hello", node |-> n]]
    <3>1. \A p \in Entries(table') : p \in PeerType
      BY <1>8, EntryTypes
    <3>2. QED BY Zenon, <1>1, <1>9, <2>2, <3>1, NewConnection
  <2>3. QED BY <1>6, <2>1, <2>2
<1>11. conn' \in [Conns -> [at : ConnStates, node : Nodes \cup {None}]] /\ ConnInv'
  BY <1>1, <1>6 DEF DiscoveryInv, TypeInv, ConnInv, ConnStates
<1>12. TypeInv' /\ ServerInv'
  BY Zenon, <1>4, <1>8, <1>11, IdleServerType DEF DiscoveryInv, TypeInv, ServerInv
<1>13. QED BY Zenon, <1>4, <1>8, <1>10, <1>11, <1>12 DEF DiscoveryInv, BootInv, RevalInv

\* The answer to FindNode leaves all alone
LEMMA ServerClosestKeeps ==
    ASSUME DiscoveryInv, ServerClosest
    PROVE  DiscoveryInv'
<1>1. UNCHANGED <<table, pings, pongs, boot, reval, conn>> /\ server' = IdleServer
  BY DEF ServerClosest
<1>2. TypeInv' /\ ServerInv'
  BY <1>1, IdleServerType DEF DiscoveryInv, TypeInv, ServerInv
<1>3. QED BY Zenon, <1>1, <1>2 DEF DiscoveryInv, BootInv, RevalInv, ConnInv

\* An entry that is exchanged for one that is the same in what counts
LEMMA SameEndpointKeeps ==
    ASSUME DiscoveryInv, NEW n \in Nodes, InPeers(table, n), NEW q \in PeerType,
           SameEndpoint(GetByNodeId(table, n), q), table' = SetEntry(table, n, q),
           UNCHANGED <<pings, pongs, conn>>
    PROVE  /\ table' \in TableType /\ Sound(table')
           /\ \A p \in Entries(table') : EntryOK(p, pings', pongs', conn')
<1> DEFINE o == GetByNodeId(table, n)
<1>1. table \in TableType /\ Sound(table)
  BY DEF DiscoveryInv, TypeInv
<1>2. o \in Entries(table) /\ o.node = n
  BY <1>1, Found
<1>3. EntryOK(o, pings, pongs, conn)
  BY Zenon, <1>2 DEF DiscoveryInv
<1>4. EntryOK(q, pings, pongs, conn) /\ q.node = n
  BY Zenon, <1>2, <1>3 DEF EntryOK, SameEndpoint
<1>5. /\ table' \in TableType /\ Sound(table')
      /\ \A p \in Entries(table') : p \in Entries(table) \/ p = q
  BY Zenon, <1>1, <1>4, SetEntrySound
<1>6. QED BY Zenon, <1>4, <1>5 DEF DiscoveryInv

\* Neighbors: the request is counted down or dropped, and the nodes wait to be inserted
LEMMA NeighborsReceivedKeeps ==
    ASSUME DiscoveryInv, NEW n \in Nodes, NEW nodes \in Seq(Nodes), NeighborsReceived(n, nodes)
    PROVE  DiscoveryInv'
<1> DEFINE o == GetByNodeId(table, n)
<1>1. InPeers(table, n) /\ o.request # None /\ UNCHANGED <<pings, pongs, boot, reval, conn>>
  BY DEF NeighborsReceived
<1>2. table \in TableType /\ Sound(table)
  BY DEF DiscoveryInv, TypeInv
<1>3. o \in PeerType
  BY Zenon, <1>1, <1>2, Found
<1>4. \/ table' = SetEntry(table, n, [o EXCEPT !.request = None]) /\ server' = server
      \/ table' = table /\ server' = server
      \/ /\ table' = SetEntry(table, n, AfterNeighbors(o, nodes))
         /\ server' = [IdleServer EXCEPT !.at = "neighbors", !.nodes = nodes]
  BY <1>1 DEF NeighborsReceived, UpdatePeer
<1> HIDE DEF o
<1>5. /\ table' \in TableType /\ Sound(table')
      /\ \A p \in Entries(table') : EntryOK(p, pings', pongs', conn')
  <2>1. CASE table' = SetEntry(table, n, [o EXCEPT !.request = None])
    <3>1. [o EXCEPT !.request = None] \in PeerType /\ SameEndpoint(o, [o EXCEPT !.request = None])
      BY <1>3 DEF PeerType, SameEndpoint
    <3>2. QED BY <1>1, <2>1, <3>1, SameEndpointKeeps DEF o
  <2>2. CASE table' = table
    BY Zenon, <1>1, <1>2, <2>2 DEF DiscoveryInv
  <2>3. CASE table' = SetEntry(table, n, AfterNeighbors(o, nodes))
    <3>1. AfterNeighbors(o, nodes) \in PeerType /\ SameEndpoint(o, AfterNeighbors(o, nodes))
      BY <1>1, <1>3, AfterNeighborsType
    <3>2. QED BY Zenon, <1>1, <2>3, <3>1, SameEndpointKeeps DEF o
  <2>4. QED BY Zenon, <1>4, <2>1, <2>2, <2>3
<1>6. server' \in ServerType /\ ServerInv'
  <2>1. CASE server' = server
    BY Zenon, <1>1, <2>1 DEF DiscoveryInv, TypeInv, ServerInv
  <2>2. CASE server' = [IdleServer EXCEPT !.at = "neighbors", !.nodes = nodes]
    <3>1. server' \in ServerType /\ server'.at = "neighbors"
      BY Zenon, <2>2, IdleServerType DEF ServerType
    <3>2. QED BY <3>1 DEF ServerInv
  <2>3. QED BY Zenon, <1>4, <2>1, <2>2
<1>7. TypeInv'
  BY <1>1, <1>5, <1>6 DEF DiscoveryInv, TypeInv
<1>8. QED BY Zenon, <1>1, <1>5, <1>6, <1>7 DEF DiscoveryInv, BootInv, RevalInv, ConnInv

\* One of the nodes of a Neighbors packet
LEMMA ServerNeighborKeeps ==
    ASSUME DiscoveryInv, ServerNeighbor
    PROVE  DiscoveryInv'
<1> DEFINE n == Head(server.nodes)
           t == InsertNode(table, n)
<1>1. table \in TableType /\ Sound(table) /\ server.nodes \in Seq(Nodes)
  BY DEF DiscoveryInv, TypeInv, ServerType
<1>2. UNCHANGED <<pongs, boot, reval, conn>>
  BY DEF ServerNeighbor
<1>3. server.nodes # <<>> => n \in Nodes /\ Tail(server.nodes) \in Seq(Nodes)
  BY <1>1
<1>4. server' \in ServerType /\ server'.at \in {"idle", "neighbors"}
  <2>1. Len(server.nodes) \in Nat /\ (Len(server.nodes) = 0 => server.nodes = <<>>)
    BY <1>1
  <2>2. CASE Len(server.nodes) <= 1
    BY <2>2, IdleServerType DEF ServerNeighbor
  <2>3. CASE ~ (Len(server.nodes) <= 1)
    <3>1. server' = [server EXCEPT !.nodes = Tail(server.nodes)] /\ server.nodes # <<>>
      BY <2>1, <2>3 DEF ServerNeighbor
    <3>2. server \in ServerType /\ server.at = "neighbors"
      BY DEF ServerNeighbor, DiscoveryInv, TypeInv
    <3>3. QED BY Zenon, <1>3, <3>1, <3>2 DEF ServerType
  <2>4. QED BY <2>2, <2>3
<1>5. server.nodes # <<>> =>
        /\ t \in TableType /\ Sound(t)
        /\ \A p \in Entries(t) : EntryOK(p, pings, pongs, conn)
  <2> SUFFICES ASSUME server.nodes # <<>>
               PROVE  /\ t \in TableType /\ Sound(t)
                      /\ \A p \in Entries(t) : EntryOK(p, pings, pongs, conn)
    OBVIOUS
  <2>1. n \in Nodes
    BY Zenon, <1>3
  <2> HIDE DEF n
  <2>2. /\ t \in TableType /\ Sound(t)
        /\ \A p \in Entries(t) : p \in Entries(table) \/ p = NewPeer(n)
    BY Zenon, <1>1, <2>1, InsertSound
  <2> HIDE DEF t
  <2>3. EntryOK(NewPeer(n), pings, pongs, conn) /\ \A p \in Entries(table) : EntryOK(p, pings, pongs, conn)
    BY Zenon, <2>1, NewEntryOK DEF DiscoveryInv
  <2>4. QED BY <2>2, <2>3
<1>6. /\ table' \in TableType /\ Sound(table') /\ pings' \in [Nodes -> 0 .. MaxPings]
      /\ \A m \in Nodes : pings[m] <= pings'[m]
      /\ \A p \in Entries(table') : EntryOK(p, pings', pongs', conn')
  <2>1. \A m \in Nodes : pings[m] \in Nat
    BY DiscoveryAssumption DEF DiscoveryInv, TypeInv
  <2>2. CASE server.nodes # <<>> /\ Inserted(table, n)
    <3>1. PICK hash \in PingHashes(n) : pings' = Pinged(n, hash) /\ table' = UpdatePeerPing(t, n, hash)
      BY Zenon, <2>2 DEF ServerNeighbor
    <3>2. n \in Nodes
      BY Zenon, <1>3, <2>2
    <3> HIDE DEF n, t
    <3>3. QED BY Zenon, <1>2, <1>5, <2>2, <3>1, <3>2, StoreHash
  <2>3. CASE ~ (server.nodes # <<>> /\ Inserted(table, n))
    <3>1. pings' = pings /\ (table' = table \/ (server.nodes # <<>> /\ table' = t))
      BY <2>3 DEF ServerNeighbor
    <3> HIDE DEF t, n
    <3>2. pings \in [Nodes -> 0 .. MaxPings] /\ \A p \in Entries(table) : EntryOK(p, pings, pongs, conn)
      BY DEF DiscoveryInv, TypeInv
    <3>3. \A m \in Nodes : pings[m] <= pings[m]
      BY <2>1
    <3>4. QED BY Zenon, <1>1, <1>2, <1>5, <3>1, <3>2, <3>3
  <2>4. QED BY <2>2, <2>3
<1>7. ServerInv' /\ BootInv' /\ RevalInv'
  BY Zenon, <1>2, <1>4, <1>6, OthersKept DEF ServerInv
<1>8. TypeInv' /\ ConnInv'
  BY <1>2, <1>4, <1>6 DEF DiscoveryInv, TypeInv, ConnInv
<1>9. QED BY <1>6, <1>7, <1>8 DEF DiscoveryInv

----------------------------------------------------------------------------
(* The steps of the other tasks *)

\* discovery_startup
LEMMA StartupKeeps ==
    ASSUME DiscoveryInv, Startup
    PROVE  DiscoveryInv'
<1> DEFINE n == Bootnodes[boot.next]
<1>1. table \in TableType /\ Sound(table) /\ boot.next \in Nat \ {0}
  BY Zenon DEF DiscoveryInv, TypeInv, BootInv
<1>2. boot.next <= Len(Bootnodes) /\ UNCHANGED <<pongs, server, reval, conn>>
  BY Zenon DEF Startup, BootInsert, BootPing, BootStore, DiscoveryInv, BootInv
<1>3. n \in Nodes
  <2>1. boot.next \in 1 .. Len(Bootnodes)
    BY <1>1, <1>2, DiscoveryAssumption
  <2>2. QED BY <2>1, DiscoveryAssumption
<1>4. CASE BootInsert
  <2>1. pings' = pings /\ boot' = [boot EXCEPT !.at = "ping"] /\ table' = InsertNode(table, n)
    BY <1>4 DEF BootInsert
  <2> HIDE DEF n
  <2>2. /\ table' \in TableType /\ Sound(table')
        /\ \A p \in Entries(table') : EntryOK(p, pings, pongs, conn)
    BY <1>1, <1>3, <2>1, InsertSound, NewEntryOK DEF DiscoveryInv
  <2>3. BootInv'
    <3>1. boot'.next = boot.next /\ boot'.at # "store" /\ boot'.hash = boot.hash
      BY <1>4 DEF BootInsert, DiscoveryInv, BootInv
    <3>2. QED BY <1>2, <3>1 DEF DiscoveryInv, BootInv
  <2>4. TypeInv'
    BY Zenon, <1>2, <2>1, <2>2 DEF DiscoveryInv, TypeInv
  <2>5. QED BY Zenon, <1>2, <2>1, <2>2, <2>3, <2>4 DEF DiscoveryInv, ServerInv, RevalInv, ConnInv
<1>5. CASE BootPing
  <2>1. table' = table
    BY Zenon, <1>5 DEF BootPing
  <2>2. PICK hash \in PingHashes(n) :
          pings' = Pinged(n, hash) /\ boot' = [boot EXCEPT !.at = "store", !.hash = hash]
    BY Zenon, <1>5 DEF BootPing
  <2>3. /\ pings' \in [Nodes -> 0 .. MaxPings] /\ \A m \in Nodes : pings[m] <= pings'[m]
        /\ HashOK(n, hash, pings') /\ hash \in Nat \cup {None}
    BY <1>3, <2>2, MorePings DEF DiscoveryInv
  <2>4. /\ table' \in TableType /\ Sound(table')
        /\ \A p \in Entries(table') : EntryOK(p, pings', pongs', conn')
    BY Zenon, <1>1, <1>2, <1>3, <2>1, <2>2, StoreHash DEF DiscoveryInv
  <2>5. BootInv'
    BY <1>1, <1>2, <2>2, <2>3 DEF BootInv
  <2>6. ServerInv' /\ RevalInv'
    BY Zenon, <1>2, <2>3, OthersKept
  <2>7. TypeInv' /\ ConnInv'
    BY Zenon, <1>2, <2>3, <2>4 DEF DiscoveryInv, TypeInv, ConnInv
  <2>8. QED BY <2>4, <2>5, <2>6, <2>7 DEF DiscoveryInv
<1>6. CASE BootStore
  <2> DEFINE h == boot.hash
  <2>1. /\ pings' = pings /\ table' = UpdatePeerPing(table, n, h)
        /\ boot' = [next |-> boot.next + 1, at |-> "insert", hash |-> None]
    BY Zenon, <1>6 DEF BootStore
  <2>2. h \in Nat \cup {None} /\ HashOK(n, h, pings)
    BY <1>6 DEF BootStore, DiscoveryInv, BootInv
  <2> HIDE DEF n, h
  <2>3. /\ table' \in TableType /\ Sound(table')
        /\ \A p \in Entries(table') :
             p \in Entries(table) \/ (\E o \in Entries(table) : o.node = n /\ p = [o EXCEPT !.ping = h])
    BY <1>1, <1>3, <2>1, <2>2, PingUpdate
  <2>4. \A p \in Entries(table') : EntryOK(p, pings, pongs, conn)
    <3> SUFFICES ASSUME NEW o \in Entries(table), o.node = n
                 PROVE  EntryOK([o EXCEPT !.ping = h], pings, pongs, conn)
      BY <2>3 DEF DiscoveryInv
    <3>1. o \in PeerType /\ EntryOK(o, pings, pongs, conn)
      BY Zenon, <1>1, EntryTypes DEF DiscoveryInv
    <3>2. QED BY <2>2, <3>1 DEF EntryOK, PeerType
  <2>5. BootInv'
    BY <1>1, <2>1 DEF BootInv
  <2>6. TypeInv'
    BY <1>2, <2>1, <2>3 DEF DiscoveryInv, TypeInv
  <2>7. QED BY Zenon, <1>2, <2>1, <2>3, <2>4, <2>5, <2>6 DEF DiscoveryInv, ServerInv, RevalInv, ConnInv
<1>7. QED BY Zenon, <1>4, <1>5, <1>6 DEF Startup

\* The revalidation's check of one peer
LEMMA RevalCheckKeeps ==
    ASSUME DiscoveryInv, NEW n \in Nodes, RevalCheck(n)
    PROVE  DiscoveryInv'
<1> DEFINE o == GetByNodeId(table, n)
           t == SetEntry(table, n, Checked(o))
           new == Replacement(t, n)
           u == ReplacePeer(t, n)
<1>1. table \in TableType /\ Sound(table) /\ UNCHANGED <<pongs, server, boot, conn>>
  BY DEF DiscoveryInv, TypeInv, RevalCheck
<1>2. reval'.at # "store" /\ reval'.hash = reval.hash /\ DOMAIN reval' = DOMAIN reval
  BY Zenon DEF RevalCheck, DiscoveryInv, RevalInv
<1>3. CASE ~InPeers(table, n)
  <2>1. UNCHANGED <<table, pings, pongs>>
    BY Zenon, <1>3 DEF RevalCheck
  <2>2. RevalInv'
    BY Zenon, <1>2 DEF RevalInv, DiscoveryInv
  <2>3. QED BY Zenon, <1>1, <2>1, <2>2 DEF DiscoveryInv, TypeInv, ServerInv, BootInv, ConnInv
<1>4. CASE InPeers(table, n)
  <2>1. o \in PeerType /\ o \in Entries(table) /\ o.node = n
    BY <1>1, <1>4, Found
  <2>2. Checked(o) \in PeerType /\ SameEndpoint(o, Checked(o))
    BY <2>1, CheckedType
  <2>3. EntryOK(o, pings, pongs, conn)
    BY Zenon, <2>1 DEF DiscoveryInv
  <2>4. EntryOK(Checked(o), pings, pongs, conn) /\ Checked(o).node = n
    BY Zenon, <2>1, <2>2, <2>3 DEF EntryOK, SameEndpoint
  <2>5. \/ table' = t /\ pings' = pings
        \/ table' = u /\ pings' = pings
        \/ new # None /\ \E hash \in PingHashes(new) :
             pings' = Pinged(new, hash) /\ table' = UpdatePeerPing(u, new, hash)
    BY Zenon, <1>4 DEF RevalCheck, UpdatePeer
  <2> HIDE DEF o
  <2>6. t \in TableType /\ Sound(t) /\ \A p \in Entries(t) : EntryOK(p, pings, pongs, conn)
    BY Zenon, <1>1, <1>4, <2>2, <2>4, SetEntrySound DEF DiscoveryInv
  <2> HIDE DEF t
  <2>7. /\ u \in TableType /\ Sound(u) /\ new \in Nodes \cup {None}
        /\ \A p \in Entries(u) : EntryOK(p, pings, pongs, conn)
    <3>1. \A m \in Nodes : EntryOK(NewPeer(m), pings, pongs, conn)
      BY Zenon, NewEntryOK
    <3>2. QED BY ZenonT(60), <2>6, <3>1, ReplaceSound
  <2> HIDE DEF u, new
  <2>8. /\ table' \in TableType /\ Sound(table') /\ pings' \in [Nodes -> 0 .. MaxPings]
        /\ \A m \in Nodes : pings[m] <= pings'[m]
        /\ \A p \in Entries(table') : EntryOK(p, pings', pongs', conn')
    <3>1. pings \in [Nodes -> 0 .. MaxPings] /\ \A m \in Nodes : pings[m] <= pings[m]
      BY DiscoveryAssumption DEF DiscoveryInv, TypeInv
    <3>2. CASE (table' = t \/ table' = u) /\ pings' = pings
      BY Zenon, <1>1, <2>6, <2>7, <3>1, <3>2
    <3>3. CASE new # None /\ \E hash \in PingHashes(new) :
                 pings' = Pinged(new, hash) /\ table' = UpdatePeerPing(u, new, hash)
      BY Zenon, <1>1, <2>7, <3>3, StoreHash
    <3>4. QED BY Zenon, <2>5, <3>2, <3>3
  <2>9. ServerInv' /\ BootInv'
    BY Zenon, <1>1, <2>8, OthersKept
  <2>10. RevalInv'
    BY Zenon, <1>2 DEF RevalInv, DiscoveryInv
  <2>11. TypeInv' /\ ConnInv'
    BY <1>1, <2>8 DEF DiscoveryInv, TypeInv, ConnInv
  <2>12. QED BY Zenon, <2>8, <2>9, <2>10, <2>11 DEF DiscoveryInv
<1>5. QED BY <1>3, <1>4

\* peers_revalidation
LEMMA RevalidationKeeps ==
    ASSUME DiscoveryInv, Revalidation
    PROVE  DiscoveryInv'
<1>1. table \in TableType /\ Sound(table)
  BY Zenon DEF DiscoveryInv, TypeInv
<1>2. CASE RevalTick \/ RevalSelect
  <2>1. UNCHANGED <<table, pings, pongs, server, boot, conn>>
    BY Zenon, <1>2 DEF RevalTick, RevalSelect
  <2>2. reval'.at # "store" /\ reval'.hash = reval.hash /\ DOMAIN reval' = DOMAIN reval
    BY Zenon, <1>2 DEF RevalTick, RevalSelect, DiscoveryInv, RevalInv
  <2>3. RevalInv'
    BY Zenon, <2>2 DEF RevalInv, DiscoveryInv
  <2>4. QED BY Zenon, <2>1, <2>3 DEF DiscoveryInv, TypeInv, ServerInv, BootInv, ConnInv
<1>3. ASSUME NEW n \in Nodes, RevalPing(n) PROVE DiscoveryInv'
  <2>1. UNCHANGED <<table, pongs, server, boot, conn>>
    BY Zenon, <1>3 DEF RevalPing
  <2>2. PICK hash \in PingHashes(n) :
          pings' = Pinged(n, hash) /\ reval' = [reval EXCEPT !.at = "store", !.node = n, !.hash = hash]
    BY Zenon, <1>3 DEF RevalPing
  <2>3. /\ pings' \in [Nodes -> 0 .. MaxPings] /\ \A m \in Nodes : pings[m] <= pings'[m]
        /\ HashOK(n, hash, pings') /\ hash \in Nat \cup {None}
    BY <2>2, MorePings DEF DiscoveryInv
  <2>4. \A p \in Entries(table') : EntryOK(p, pings', pongs', conn')
    BY <1>1, <2>1, <2>2, StoreHash DEF DiscoveryInv
  <2>5. RevalInv'
    BY <2>2, <2>3 DEF RevalInv, DiscoveryInv
  <2>6. ServerInv' /\ BootInv'
    BY Zenon, <2>1, <2>3, OthersKept
  <2>7. TypeInv' /\ ConnInv'
    BY Zenon, <2>1, <2>3 DEF DiscoveryInv, TypeInv, ConnInv
  <2>8. QED BY Zenon, <1>1, <2>1, <2>4, <2>5, <2>6, <2>7 DEF DiscoveryInv
<1>4. CASE RevalStore
  <2> DEFINE n == reval.node
             h == reval.hash
  <2>1. UNCHANGED <<pings, pongs, server, boot, conn>> /\ table' = UpdatePeerPingWithRevalidation(table, n, h)
    BY <1>4 DEF RevalStore
  <2>2. h \in Nat \cup {None} /\ HashOK(n, h, pings) /\ n \in Nodes
    BY <1>4 DEF RevalStore, DiscoveryInv, RevalInv
  <2>3. reval'.at # "store" /\ reval'.hash = None /\ DOMAIN reval' = DOMAIN reval
    BY <1>4 DEF RevalStore, DiscoveryInv, RevalInv
  <2> HIDE DEF n, h
  <2>4. /\ table' \in TableType /\ Sound(table')
        /\ \A p \in Entries(table') :
             \/ p \in Entries(table)
             \/ \E o \in Entries(table) :
                    o.node = n /\ p = Unanswered(o, h)
    BY <1>1, <2>1, <2>2, RevalidationUpdate
  <2>5. \A p \in Entries(table') : EntryOK(p, pings, pongs, conn)
    <3> SUFFICES ASSUME NEW o \in Entries(table), o.node = n
                 PROVE  EntryOK(Unanswered(o, h), pings, pongs, conn)
      BY <2>4 DEF DiscoveryInv
    <3>1. o \in PeerType /\ EntryOK(o, pings, pongs, conn)
      BY Zenon, <1>1, EntryTypes DEF DiscoveryInv
    <3>2. QED BY <2>2, <3>1 DEF EntryOK, PeerType, Unanswered
  <2>6. RevalInv'
    BY <2>3 DEF RevalInv, DiscoveryInv
  <2>7. TypeInv'
    BY <2>1, <2>4 DEF DiscoveryInv, TypeInv
  <2>8. QED BY Zenon, <2>1, <2>4, <2>5, <2>6, <2>7 DEF DiscoveryInv, ServerInv, BootInv, ConnInv
<1>5. QED BY Zenon, <1>2, <1>3, <1>4, RevalCheckKeeps DEF Revalidation

\* A peer that a lookup finds in the table is a node
LEMMA AskedNode ==
    ASSUME DiscoveryInv, NEW n, NEW l \in Lookups, InPeers(table, n),
           table' = NewFindNodeRequest(table, n, l)
    PROVE  n \in Nodes \/ table' = table
<1> DEFINE q == [GetByNodeId(table, n) EXCEPT !.request = [tx |-> l, nodesSent |-> 0]]
<1>1. table \in TableType
  BY DEF DiscoveryInv, TypeInv
<1>2. CASE BucketOf(n) \in Buckets
  <2>1. PICK i \in DOMAIN table[BucketOf(n)].peers : table[BucketOf(n)].peers[i].node = n
    BY DEF InPeers
  <2>2. table[BucketOf(n)].peers[i] \in Entries(table)
    BY Zenon, <1>2, <2>1, EntryThere
  <2>3. QED BY Zenon, <1>1, <2>1, <2>2, EntryTypes
<1>3. CASE BucketOf(n) \notin Buckets
  <2>1. ASSUME NEW m, NEW r, BucketOf(m) \notin Buckets PROVE SetEntry(table, m, r) = table
    BY <1>1, <2>1 DEF SetEntry, WithBucket, TableType
  <2>2. table' = SetEntry(table, n, q)
    BY Zenon DEF NewFindNodeRequest, UpdatePeer
  <2> HIDE DEF q
  <2>3. QED BY Zenon, <1>3, <2>1, <2>2
<1>4. QED BY <1>2, <1>3

\* A task of a lookup puts its request into the entry of the node it asks
LEMMA LookupKeeps ==
    ASSUME DiscoveryInv, NEW l \in Lookups, LookupStep(l)
    PROVE  DiscoveryInv'
<1> DEFINE n == lookup[l].ask[lookup[l].next]
           o == GetByNodeId(table, n)
           q == [o EXCEPT !.request = [tx |-> l, nodesSent |-> 0]]
<1>1. UNCHANGED <<pings, pongs, server, boot, reval, conn>>
  BY Zenon DEF LookupStep, LookupClosest, LookupAsk, LookupResume, LookupRoundEnd
<1>2. CASE table' = table
  BY Zenon, <1>1, <1>2 DEF DiscoveryInv, TypeInv, ServerInv, BootInv, RevalInv, ConnInv
<1>3. CASE table' = NewFindNodeRequest(table, n, l) /\ InPeers(table, n) /\ n \in Nodes
  <2>1. table \in TableType /\ Sound(table)
    BY Zenon DEF DiscoveryInv, TypeInv
  <2>2. o \in PeerType /\ o \in Entries(table) /\ o.node = n
    BY Zenon, <1>3, <2>1, Found
  <2>3. table' = SetEntry(table, n, q)
    BY <1>3 DEF NewFindNodeRequest, UpdatePeer
  <2> HIDE DEF o, n
  <2>4. q \in PeerType /\ SameEndpoint(o, q)
    BY Zenon, <2>2 DEF PeerType, SameEndpoint
  <2> HIDE DEF q
  <2>5. /\ table' \in TableType /\ Sound(table')
        /\ \A p \in Entries(table') : EntryOK(p, pings, pongs, conn)
    BY Zenon, <1>1, <1>3, <2>3, <2>4, SameEndpointKeeps DEF o
  <2>6. QED BY Zenon, <1>1, <2>5 DEF DiscoveryInv, TypeInv, ServerInv, BootInv, RevalInv, ConnInv
<1>4. ASSUME InPeers(table, n), table' = NewFindNodeRequest(table, n, l)
      PROVE  n \in Nodes \/ table' = table
  BY Zenon, <1>4, AskedNode
<1>5. (\/ table' = table
       \/ InPeers(table, n) /\ table' = NewFindNodeRequest(table, n, l))
  BY Zenon DEF LookupStep, LookupClosest, LookupAsk, LookupResume, LookupRoundEnd, Askable
<1>6. QED BY Zenon, <1>2, <1>3, <1>4, <1>5

\* A connection's steps: the entry of its node holds its channels from the
\* exchange of Hello until the entry is replaced
LEMMA ConnectionKeeps ==
    ASSUME DiscoveryInv, Connection
    PROVE  DiscoveryInv'
<1> PICK c \in Conns : \/ \E n \in Remote : ConnAccept(c, n)
                       \/ ConnOpen(c) \/ ConnFail(c) \/ ConnPanic(c) \/ ConnDiscard(c)
  BY DEF Connection
<1>1. /\ table \in TableType /\ Sound(table)
      /\ conn \in [Conns -> [at : ConnStates, node : Nodes \cup {None}]]
      /\ \A p \in Entries(table) : EntryOK(p, pings, pongs, conn)
      /\ UNCHANGED <<pings, pongs, server, boot, reval>>
  BY Zenon DEF DiscoveryInv, TypeInv, ConnAccept, ConnOpen, ConnFail, ConnPanic, ConnDiscard
<1>2. SUFFICES /\ table' \in TableType /\ Sound(table')
               /\ conn' \in [Conns -> [at : ConnStates, node : Nodes \cup {None}]]
               /\ \A p \in Entries(table') : EntryOK(p, pings, pongs, conn')
               /\ ConnInv'
  BY Zenon, <1>1 DEF DiscoveryInv, TypeInv, ServerInv, BootInv, RevalInv
<1>3. ASSUME NEW n \in Remote, ConnAccept(c, n) PROVE <1>2!1
  <2>1. table' = table /\ conn' = [conn EXCEPT ![c] = [at |-> "hello", node |-> n]] /\ n \in Nodes
    BY <1>3 DEF ConnAccept, Remote
  <2>2. conn[c].at = "none"
    BY Zenon, <1>3 DEF ConnAccept, Unused
  <2>3. \A p \in Entries(table) : EntryOK(p, pings, pongs, conn')
    BY Zenon, <1>1, <2>1, <2>2, NewConnection, EntryTypes
  <2>4. QED BY Zenon, <1>1, <2>1, <2>3 DEF DiscoveryInv, ConnInv, ConnStates
<1>4. CASE ConnFail(c) \/ ConnPanic(c)
  <2>1. PICK at \in {"failing", "panicked"} : conn' = [conn EXCEPT ![c].at = at]
    BY <1>4 DEF ConnFail, ConnPanic
  <2>2. table' = table /\ conn[c].at \in {"hello", "open"}
    BY <1>4 DEF ConnFail, ConnPanic
  <2>3. conn' \in [Conns -> [at : ConnStates, node : Nodes \cup {None}]]
    BY <1>1, <2>1 DEF ConnStates
  <2>4. \A d \in Conns : /\ conn'[d].node = conn[d].node
                         /\ conn'[d].at = IF d = c THEN at ELSE conn[d].at
    BY Zenon, <1>1, <2>1
  <2>5. ASSUME NEW p \in Entries(table) PROVE EntryOK(p, pings, pongs, conn')
    <3>1. p \in PeerType /\ EntryOK(p, pings, pongs, conn)
      BY Zenon, <1>1, EntryTypes
    <3>2. p.channels \in Conns \cup {None}
      BY Zenon, <3>1 DEF PeerType
    <3>3. QED BY Zenon, <2>4, <3>1, <3>2 DEF EntryOK
  <2>6. ConnInv'
    BY Zenon, <2>2, <2>4 DEF DiscoveryInv, ConnInv
  <2>7. QED BY <1>1, <2>2, <2>3, <2>5, <2>6
<1>5. CASE ConnOpen(c)
  <2> DEFINE n == conn[c].node
             o == GetByNodeId(table, n)
             q == [o EXCEPT !.channels = c]
  <2>1. conn' = [conn EXCEPT ![c].at = "open"] /\ conn[c].at = "hello"
    BY Zenon, <1>5 DEF ConnOpen
  <2>2. table' = IF InPeers(table, n) THEN SetEntry(table, n, q) ELSE table
    BY <1>5 DEF ConnOpen, SetChannels, UpdatePeer
  <2>3. n \in Nodes
    BY Zenon, <2>1 DEF DiscoveryInv, ConnInv
  <2>4. \A d \in Conns : /\ conn'[d].node = conn[d].node
                         /\ conn'[d].at = IF d = c THEN "open" ELSE conn[d].at
    BY <1>1, <2>1
  <2>5. conn' \in [Conns -> [at : ConnStates, node : Nodes \cup {None}]] /\ ConnInv'
    BY Zenon, <1>1, <2>1, <2>4 DEF ConnStates, DiscoveryInv, ConnInv
  <2>6. ASSUME NEW p \in Entries(table) PROVE EntryOK(p, pings, pongs, conn')
    <3>1. p \in PeerType /\ EntryOK(p, pings, pongs, conn)
      BY Zenon, <1>1, EntryTypes
    <3>2. p.channels \in Conns \cup {None}
      BY Zenon, <3>1 DEF PeerType
    <3>3. QED BY Zenon, <2>4, <3>1, <3>2 DEF EntryOK
  <2>7. CASE ~InPeers(table, n)
    BY Zenon, <1>1, <2>2, <2>5, <2>6, <2>7
  <2>8. CASE InPeers(table, n)
    <3>1. o \in PeerType /\ o \in Entries(table) /\ o.node = n
      BY Zenon, <1>1, <2>3, <2>8, Found
    <3>2. EntryOK(o, pings, pongs, conn') /\ conn'[c].node = n /\ conn'[c].at = "open"
      BY Zenon, <2>4, <2>6, <3>1
    <3> HIDE DEF o, n
    <3>3. q \in PeerType /\ q.node = n
      BY <3>1 DEF PeerType
    <3>4. EntryOK(q, pings, pongs, conn')
      BY Zenon, <3>1, <3>2 DEF EntryOK, PeerType
    <3> HIDE DEF q
    <3>5. /\ table' \in TableType /\ Sound(table')
          /\ \A p \in Entries(table') : p = q \/ p \in Entries(table)
      BY Zenon, <1>1, <2>2, <2>3, <2>8, <3>3, SetEntrySound
    <3>6. QED BY Zenon, <2>5, <2>6, <3>4, <3>5
  <2>9. QED BY Zenon, <2>7, <2>8
<1>6. CASE ConnDiscard(c)
  <2> DEFINE n == conn[c].node
  <2>1. /\ conn' = [conn EXCEPT ![c].at = "done"] /\ conn[c].at = "failing"
        /\ table' = ReplacePeer(table, n)
    BY <1>6 DEF ConnDiscard
  <2>2. n \in Nodes
    BY <2>1 DEF DiscoveryInv, ConnInv
  <2>3. \A d \in Conns : /\ conn'[d].node = conn[d].node
                         /\ conn'[d].at = IF d = c THEN "done" ELSE conn[d].at
    BY <1>1, <2>1
  <2>4. conn' \in [Conns -> [at : ConnStates, node : Nodes \cup {None}]] /\ ConnInv'
    BY <1>1, <2>1, <2>3 DEF ConnStates, DiscoveryInv, ConnInv
  <2> HIDE DEF n
  <2>5. /\ table' \in TableType /\ Sound(table')
        /\ \A p \in Entries(table') :
              (p \in Entries(table) /\ p.node # n) \/ (\E m \in Nodes : p = NewPeer(m))
    BY Zenon, <1>1, <2>1, <2>2, ReplaceSound
  <2>6. ASSUME NEW p \in Entries(table), p.node # n PROVE EntryOK(p, pings, pongs, conn')
    <3>1. p \in PeerType /\ EntryOK(p, pings, pongs, conn)
      BY <1>1, EntryTypes
    <3>2. p.channels \in Conns \cup {None}
      BY <3>1 DEF PeerType
    <3>3. p.channels # c
      <4> SUFFICES ASSUME p.channels = c PROVE p.node = n
        BY <2>6
      <4>1. c # None
        BY Zenon, DiscoveryAssumption
      <4>2. QED BY <3>1, <4>1 DEF EntryOK, n
    <3>4. QED BY Zenon, <2>3, <3>1, <3>2, <3>3 DEF EntryOK
  <2>7. \A p \in Entries(table') : EntryOK(p, pings, pongs, conn')
    BY Zenon, <2>5, <2>6, NewEntryOK
  <2>8. QED BY <2>4, <2>5, <2>7
<1>7. QED BY Zenon, <1>3, <1>4, <1>5, <1>6

----------------------------------------------------------------------------
(* The invariant and what it implies *)

\* The invariant is inductive
THEOREM DiscoveryInvariant == Spec => []DiscoveryInv
<1>1. DiscoveryInv /\ UNCHANGED vars => DiscoveryInv'
  BY Zenon DEF vars, DiscoveryInv, TypeInv, ServerInv, BootInv, RevalInv, ConnInv
<1>2. DiscoveryInv /\ LookupsStart => DiscoveryInv'
  BY Zenon DEF LookupsStart, DiscoveryInv, TypeInv, ServerInv, BootInv, RevalInv, ConnInv
<1>3. DiscoveryInv /\ Packet => DiscoveryInv'
  <2> SUFFICES ASSUME DiscoveryInv, Packet PROVE DiscoveryInv'
    OBVIOUS
  <2>1. PICK n \in Remote :
            \/ PingReceived(n)
            \/ \E hash \in 0 .. pings[n] : PongReceived(n, hash)
            \/ FindNodeReceived(n)
            \/ \E nodes \in NeighborLists : NeighborsReceived(n, nodes)
    BY DEF Packet
  <2>2. n \in Nodes /\ NeighborLists \subseteq Seq(Nodes)
    BY DiscoveryAssumption DEF Remote
  <2>3. QED BY Zenon, <2>1, <2>2, PacketStarts, NeighborsReceivedKeeps
<1>4. DiscoveryInv /\ ServerStep => DiscoveryInv'
  BY Zenon, ServerInsertKeeps, ServerPingKeeps, ServerAnsweredKeeps, ServerClosestKeeps,
     ServerNeighborKeeps DEF ServerStep
<1>5. DiscoveryInv /\ [Next]_vars => DiscoveryInv'
  BY Zenon, <1>1, <1>2, <1>3, <1>4, StartupKeeps, RevalidationKeeps, LookupKeeps, ConnectionKeeps DEF Next
<1>6. QED BY <1>5, InitInv, PTL DEF Spec


\* The state keeps its shape: only nodes are in the lists, the liveness of a peer
\* stays in its width, and no node gets more pings than the bound
THEOREM StateTyped == Spec => []TypeOK
<1>1. DiscoveryInv => TypeOK
  BY Zenon DEF DiscoveryInv, TypeInv, TypeOK, TableType, ServerType, ConnStates
<1>2. QED BY <1>1, DiscoveryInvariant, PTL

\* The buckets keep their bounds, hold no node twice and hold every node at the
\* distance of the bucket, whatever the order of the tasks' steps
THEOREM TableStaysSound == Spec => []TableSound
BY DiscoveryInvariant, PTL DEF DiscoveryInv, TableSound

\* A peer counts as proven only after it returned the hash of a ping sent to it:
\* pong_answered runs only for such a pong, or for a new entry of the same node
THEOREM EndpointsProven == Spec => []EndpointProof
<1>1. DiscoveryInv => EndpointProof
  BY Zenon DEF DiscoveryInv, EntryOK, Answers, EndpointProof, HashOK
<1>2. QED BY <1>1, DiscoveryInvariant, PTL

\* The channels of an entry belong to a connection with that entry's node, one
\* that said Hello and did not yet discard the entry
THEOREM ChannelsStay == Spec => []ChannelsLead
<1>1. DiscoveryInv => ChannelsLead
  BY Zenon DEF DiscoveryInv, EntryOK, ChannelsLead
<1>2. QED BY <1>1, DiscoveryInvariant, PTL

----------------------------------------------------------------------------
(* What a lookup finds *)

\* Every request in u is one that t holds for the same node
RequestsFrom(t, u) ==
    \A p \in Entries(u) :
        p.request = None \/ \E o \in Entries(t) : o.node = p.node /\ o.request = p.request

\* A lookup counts the nodes found against its queries; it waits for one node at a time
LookupShape(s) ==
    /\ {"at", "waits", "queries", "found"} \subseteq DOMAIN s
    /\ s.queries \in Nat /\ s.found \in Seq(Nodes)
    /\ s.at # "wait" => s.waits = None
    /\ Len(s.found) <= s.queries * MaxNodesPerBucket

\* The request that a lookup waits for may still bring what it has not counted
RequestOK(p, lk) ==
    p.request # None /\ lk[p.request.tx].waits = p.node =>
        Len(lk[p.request.tx].found) + MaxNodesPerBucket
            <= lk[p.request.tx].queries * MaxNodesPerBucket + p.request.nodesSent

LookupInv ==
    /\ DOMAIN lookup = Lookups
    /\ \A l \in Lookups : LookupShape(lookup[l])
    /\ \A p \in Entries(table) : RequestOK(p, lookup)

\* A table that holds no other requests does no harm
LEMMA OldRequests ==
    ASSUME LookupInv, UNCHANGED lookup, RequestsFrom(table, table')
    PROVE  LookupInv'
BY DEF LookupInv, RequestsFrom, RequestOK

LEMMA RequestsSame ==
    ASSUME NEW t, NEW u, NEW v, RequestsFrom(t, u), RequestsFrom(u, v)
    PROVE  RequestsFrom(t, v)
BY DEF RequestsFrom

\* An entry exchanged for one with the same request, or with none
LEMMA EntryRequests ==
    ASSUME NEW t \in TableType, Sound(t), NEW n \in Nodes, NEW q, NEW u,
           InPeers(t, n) =>
             /\ q \in PeerType /\ q.node = n
             /\ q.request = None \/ q.request = GetByNodeId(t, n).request,
           u = IF InPeers(t, n) THEN SetEntry(t, n, q) ELSE t
    PROVE  RequestsFrom(t, u) /\ u \in TableType /\ Sound(u)
<1>1. /\ u \in TableType /\ Sound(u)
      /\ \A p \in Entries(u) : p \in Entries(t) \/ (InPeers(t, n) /\ p = q)
  BY Zenon, UpdateEntry
<1>2. InPeers(t, n) => GetByNodeId(t, n) \in Entries(t) /\ GetByNodeId(t, n).node = n
  BY Found
<1>3. QED BY Zenon, <1>1, <1>2 DEF RequestsFrom

\* insert_node, replace_peer and update_peer_ping
LEMMA TableRequests ==
    ASSUME NEW t \in TableType, Sound(t), NEW n \in Nodes
    PROVE  /\ RequestsFrom(t, t)
           /\ RequestsFrom(t, InsertNode(t, n))
           /\ RequestsFrom(t, ReplacePeer(t, n))
           /\ \A hash \in Nat \cup {None} : RequestsFrom(t, UpdatePeerPing(t, n, hash))
<1>1. RequestsFrom(t, t)
  BY Zenon DEF RequestsFrom
<1>2. \A m : NewPeer(m).request = None
  BY DEF NewPeer
<1>3. RequestsFrom(t, InsertNode(t, n))
  BY Zenon, <1>2, InsertSound DEF RequestsFrom
<1>4. RequestsFrom(t, ReplacePeer(t, n))
  BY <1>2, ReplaceSound DEF RequestsFrom
<1>5. ASSUME NEW hash \in Nat \cup {None} PROVE RequestsFrom(t, UpdatePeerPing(t, n, hash))
  <2> DEFINE u == UpdatePeerPing(t, n, hash)
  <2>1. \A p \in Entries(u) :
          p \in Entries(t) \/ (\E o \in Entries(t) : o.node = n /\ p = [o EXCEPT !.ping = hash])
    BY PingUpdate
  <2>2. \A o \in Entries(t) : LET p == [o EXCEPT !.ping = hash]
                              IN  p.node = o.node /\ p.request = o.request
    BY EntryTypes DEF PeerType
  <2> HIDE DEF u
  <2>3. RequestsFrom(t, u)
    BY ZenonT(60), <2>1, <2>2 DEF RequestsFrom
  <2>4. QED BY <2>3 DEF u
<1>6. QED BY Zenon, <1>1, <1>3, <1>4, <1>5

\* The hash that ping returns
LEMMA PingHashType ==
    ASSUME TypeInv, NEW n \in Nodes, NEW hash \in PingHashes(n)
    PROVE  hash \in Nat \cup {None}
<1>1. pings[n] \in Nat
  BY DiscoveryAssumption DEF TypeInv
<1>2. QED BY <1>1 DEF PingHashes

\* The tasks other than the lookups, and the server but for a Neighbors packet,
\* add no request to the table and leave the lookups alone
LEMMA OthersRequests ==
    ASSUME DiscoveryInv,
           \/ ServerStep \/ Startup \/ Revalidation \/ Connection
           \/ \E n \in Remote : \/ PingReceived(n)
                                \/ \E hash \in 0 .. pings[n] : PongReceived(n, hash)
                                \/ FindNodeReceived(n)
    PROVE  UNCHANGED lookup /\ RequestsFrom(table, table')
<1>1. table \in TableType /\ Sound(table) /\ TypeInv
  BY DEF DiscoveryInv, TypeInv
<1>2. RequestsFrom(table, table)
  BY Zenon DEF RequestsFrom
<1>3. CASE \E n \in Remote : \/ PingReceived(n)
                             \/ \E hash \in 0 .. pings[n] : PongReceived(n, hash)
                             \/ FindNodeReceived(n)
  BY Zenon, <1>2, <1>3 DEF PingReceived, PongReceived, FindNodeReceived
<1>4. CASE ServerInsert
  <2>1. server.node \in Nodes
    BY Zenon, <1>4 DEF DiscoveryInv, ServerInv, ServerInsert
  <2>2. QED BY Zenon, <1>1, <1>4, <2>1, TableRequests DEF ServerInsert
<1>5. CASE ServerPing
  <2>1. server.node \in Nodes
    BY Zenon, <1>5 DEF DiscoveryInv, ServerInv, ServerPing
  <2>2. PICK hash \in PingHashes(server.node) :
          table' = table \/ table' = UpdatePeerPing(table, server.node, hash)
    BY <1>5 DEF ServerPing
  <2>3. hash \in Nat \cup {None}
    BY Zenon, <1>1, <2>1, PingHashType
  <2>4. UNCHANGED lookup
    BY Zenon, <1>5 DEF ServerPing
  <2>5. QED BY Zenon, <1>1, <1>2, <2>1, <2>2, <2>3, <2>4, TableRequests
<1>6. CASE ServerAnswered
  <2> DEFINE n == server.node
             o == GetByNodeId(table, n)
             v == IF o.revalidation = "none" THEN "none" ELSE "answered"
             q == [o EXCEPT !.proven = TRUE, !.ping = None, !.revalidation = v]
  <2>1. n \in Nodes
    BY Zenon, <1>6 DEF DiscoveryInv, ServerInv, ServerAnswered
  <2>2. InPeers(table, n) => o \in PeerType /\ o.node = n
    BY <1>1, <2>1, Found
  <2>3. /\ table' = IF InPeers(table, n) THEN SetEntry(table, n, q) ELSE table
        /\ UNCHANGED lookup
    BY <1>6 DEF ServerAnswered, PongAnswered, UpdatePeer
  <2>4. v \in {"none", "answered"}
    OBVIOUS
  <2> HIDE DEF v, o, n
  <2>5. InPeers(table, n) => q \in PeerType /\ q.node = n /\ q.request = o.request
    BY Zenon, <2>2, <2>4 DEF PeerType
  <2> HIDE DEF q
  <2>6. QED BY Zenon, <1>1, <2>1, <2>3, <2>5, EntryRequests DEF o
<1>7. CASE ServerClosest
  BY <1>2, <1>7 DEF ServerClosest
<1>8. CASE ServerNeighbor
  <2> DEFINE n == Head(server.nodes)
             t == InsertNode(table, n)
  <2>1. UNCHANGED lookup /\ server.nodes \in Seq(Nodes)
    BY <1>1, <1>8 DEF ServerNeighbor, TypeInv, ServerType
  <2>2. CASE server.nodes = <<>>
    BY Zenon, <1>2, <1>8, <2>1, <2>2 DEF ServerNeighbor
  <2>3. CASE server.nodes # <<>>
    <3>1. n \in Nodes
      BY <2>1, <2>3
    <3>2. \/ table' = t
          \/ \E hash \in PingHashes(n) : table' = UpdatePeerPing(t, n, hash)
      BY Zenon, <1>8, <2>3 DEF ServerNeighbor
    <3> HIDE DEF n
    <3>3. t \in TableType /\ Sound(t) /\ RequestsFrom(table, t)
      BY Zenon, <1>1, <3>1, InsertSound, TableRequests
    <3> HIDE DEF t
    <3>4. \A hash \in PingHashes(n) : RequestsFrom(t, UpdatePeerPing(t, n, hash))
      BY Zenon, <1>1, <3>1, <3>3, PingHashType, TableRequests
    <3>5. QED BY Zenon, <2>1, <3>2, <3>3, <3>4, RequestsSame
  <2>4. QED BY Zenon, <2>2, <2>3
<1>9. CASE Startup
  <2> DEFINE n == Bootnodes[boot.next]
  <2>1. /\ boot.next \in Nat \ {0} /\ boot.next <= Len(Bootnodes) /\ UNCHANGED lookup
        /\ boot.hash \in Nat \cup {None}
    BY Zenon, <1>9 DEF Startup, BootInsert, BootPing, BootStore, DiscoveryInv, BootInv
  <2>2. boot.next \in 1 .. Len(Bootnodes)
    BY <2>1, DiscoveryAssumption
  <2>3. n \in Nodes
    BY <2>2, DiscoveryAssumption
  <2>4. \/ table' = table \/ table' = InsertNode(table, n)
        \/ table' = UpdatePeerPing(table, n, boot.hash)
    BY Zenon, <1>9 DEF Startup, BootInsert, BootPing, BootStore
  <2> HIDE DEF n
  <2>5. QED BY Zenon, <1>1, <2>1, <2>3, <2>4, TableRequests
<1>10. CASE RevalTick \/ RevalSelect \/ \E n \in Nodes : RevalPing(n)
  BY Zenon, <1>2, <1>10 DEF RevalTick, RevalSelect, RevalPing
<1>11. CASE RevalStore
  <2> DEFINE n == reval.node
             h == reval.hash
             o == GetByNodeId(table, n)
             q == [o EXCEPT !.ping = h, !.revalidation = "pending"]
  <2>1. n \in Nodes /\ h \in Nat \cup {None} /\ UNCHANGED lookup
    BY <1>11 DEF RevalStore, DiscoveryInv, RevalInv
  <2>2. table' = IF InPeers(table, n) THEN SetEntry(table, n, q) ELSE table
    BY <1>11 DEF RevalStore, UpdatePeerPingWithRevalidation, UpdatePeer
  <2> HIDE DEF n, h
  <2>3. InPeers(table, n) => o \in PeerType /\ o.node = n
    BY <1>1, <2>1, Found
  <2> HIDE DEF o
  <2>4. InPeers(table, n) => q \in PeerType /\ q.node = n /\ q.request = o.request
    BY Zenon, <2>1, <2>3 DEF PeerType
  <2> HIDE DEF q
  <2>5. QED BY Zenon, <1>1, <2>1, <2>2, <2>4, EntryRequests DEF o
<1>12. ASSUME NEW n \in Nodes, RevalCheck(n)
       PROVE  UNCHANGED lookup /\ RequestsFrom(table, table')
  <2> DEFINE o == GetByNodeId(table, n)
             t == UpdatePeer(table, n, Checked)
             new == Replacement(t, n)
             u == ReplacePeer(t, n)
  <2>1. UNCHANGED lookup
    BY <1>12 DEF RevalCheck
  <2>2. CASE ~InPeers(table, n)
    BY <1>2, <1>12, <2>1, <2>2 DEF RevalCheck
  <2>3. CASE InPeers(table, n)
    <3>1. \/ table' = t
          \/ table' = u
          \/ new # None /\ \E hash \in PingHashes(new) : table' = UpdatePeerPing(u, new, hash)
      BY Zenon, <1>12, <2>3 DEF RevalCheck
    <3>2. t = IF InPeers(table, n) THEN SetEntry(table, n, Checked(o)) ELSE table
      BY DEF UpdatePeer
    <3>3. o \in PeerType /\ o.node = n
      BY <1>1, <2>3, Found
    <3>4. Checked(o) \in PeerType /\ Checked(o).node = n /\ Checked(o).request = o.request
      <4>1. Checked(o) \in PeerType /\ Checked(o).node = n
        BY Zenon, <3>3, CheckedType DEF SameEndpoint
      <4> HIDE DEF o
      <4>2. QED BY Zenon, <3>3, <4>1 DEF Checked, PeerType
    <3> HIDE DEF t
    <3>5. RequestsFrom(table, t) /\ t \in TableType /\ Sound(t)
      BY Zenon, <1>1, <3>2, <3>4, EntryRequests
    <3>6. /\ u \in TableType /\ Sound(u) /\ RequestsFrom(t, u)
          /\ new \in Nodes \cup {None}
      BY Zenon, <3>5, ReplaceSound, TableRequests
    <3> HIDE DEF u, new
    <3>7. RequestsFrom(table, u)
      BY Zenon, <3>5, <3>6, RequestsSame
    <3>8. CASE new # None /\ \E hash \in PingHashes(new) : table' = UpdatePeerPing(u, new, hash)
      <4>1. PICK hash \in PingHashes(new) : table' = UpdatePeerPing(u, new, hash)
        BY Zenon, <3>8
      <4>2. new \in Nodes /\ hash \in Nat \cup {None}
        BY Zenon, <1>1, <3>6, <3>8, PingHashType
      <4>3. RequestsFrom(u, table')
        BY Zenon, <3>6, <4>1, <4>2, TableRequests
      <4>4. QED BY Zenon, <2>1, <3>7, <4>3, RequestsSame
    <3>9. QED BY Zenon, <2>1, <3>1, <3>5, <3>7, <3>8
  <2>4. QED BY <2>2, <2>3
<1>13. ASSUME NEW c \in Conns, ConnOpen(c)
       PROVE  UNCHANGED lookup /\ RequestsFrom(table, table')
  <2> DEFINE n == conn[c].node
             o == GetByNodeId(table, n)
             q == [o EXCEPT !.channels = c]
  <2>1. n \in Nodes /\ UNCHANGED lookup
    BY <1>13 DEF ConnOpen, DiscoveryInv, ConnInv
  <2>2. table' = IF InPeers(table, n) THEN SetEntry(table, n, q) ELSE table
    BY Zenon, <1>13 DEF ConnOpen, SetChannels, UpdatePeer
  <2> HIDE DEF n
  <2>3. InPeers(table, n) => o \in PeerType /\ o.node = n
    BY <1>1, <2>1, Found
  <2> HIDE DEF o
  <2>4. InPeers(table, n) => q \in PeerType /\ q.node = n /\ q.request = o.request
    BY <2>3 DEF PeerType
  <2> HIDE DEF q
  <2>5. QED BY Zenon, <1>1, <2>1, <2>2, <2>4, EntryRequests DEF o
<1>14. ASSUME NEW c \in Conns, ConnDiscard(c)
       PROVE  UNCHANGED lookup /\ RequestsFrom(table, table')
  <2>1. conn[c].node \in Nodes
    BY <1>14 DEF ConnDiscard, DiscoveryInv, ConnInv
  <2>2. QED BY Zenon, <1>1, <1>14, <2>1, TableRequests DEF ConnDiscard
<1>15. CASE Connection
  BY Zenon, <1>2, <1>13, <1>14, <1>15 DEF Connection, ConnAccept, ConnFail, ConnPanic
<1>16. QED
  BY <1>3, <1>4, <1>5, <1>6, <1>7, <1>8, <1>9, <1>10, <1>11, <1>12, <1>15
     DEF ServerStep, Revalidation

\* Another query makes room for another bucket
LEMMA OneMoreQuery ==
    ASSUME NEW q \in Nat
    PROVE  (q + 1) * MaxNodesPerBucket = q * MaxNodesPerBucket + MaxNodesPerBucket
BY KademliaAssumption

\* A Neighbors packet brings the lookup that waits for it what the request counts
LEMMA NeighborsFound ==
    ASSUME DiscoveryInv, LookupInv, NEW n \in Nodes, NEW nodes \in Seq(Nodes),
           NeighborsReceived(n, nodes)
    PROVE  LookupInv'
<1> DEFINE o == GetByNodeId(table, n)
           l == o.request.tx
           sent == NodesSent(o.request, nodes)
           q == AfterNeighbors(o, nodes)
<1>1. InPeers(table, n) /\ o.request # None /\ table \in TableType /\ Sound(table)
  BY DEF NeighborsReceived, DiscoveryInv, TypeInv
<1>2. o \in PeerType /\ o \in Entries(table) /\ o.node = n
  BY Zenon, <1>1, Found
<1>3. \/ table' = SetEntry(table, n, [o EXCEPT !.request = None]) /\ UNCHANGED lookup
      \/ UNCHANGED <<table, lookup>>
      \/ /\ sent <= MaxNodesPerBucket /\ table' = SetEntry(table, n, q)
         /\ lookup' = IF lookup[l].waits = n
                      THEN [lookup EXCEPT ![l].found = @ \o nodes]
                      ELSE lookup
  BY Zenon, <1>1 DEF NeighborsReceived, UpdatePeer
<1> HIDE DEF o
<1>4. l \in Lookups /\ o.request.nodesSent \in Nat
  BY Zenon, <1>1, <1>2 DEF PeerType
<1>5. sent = o.request.nodesSent + Len(nodes) /\ Len(nodes) \in Nat
  BY DEF NodesSent
<1>6. CASE table' = SetEntry(table, n, [o EXCEPT !.request = None]) /\ UNCHANGED lookup
  <2> DEFINE r == [o EXCEPT !.request = None]
  <2>1. r \in PeerType /\ r.node = n /\ r.request = None
    BY <1>2 DEF PeerType
  <2>2. table' = SetEntry(table, n, r)
    BY Zenon, <1>6
  <2> HIDE DEF r
  <2>3. RequestsFrom(table, table')
    BY Zenon, <1>1, <2>1, <2>2, EntryRequests
  <2>4. QED BY <1>6, <2>3, OldRequests
<1>7. CASE UNCHANGED <<table, lookup>>
  BY <1>7 DEF LookupInv
<1>8. ASSUME sent <= MaxNodesPerBucket, table' = SetEntry(table, n, q),
             lookup' = IF lookup[l].waits = n THEN [lookup EXCEPT ![l].found = @ \o nodes] ELSE lookup
      PROVE  LookupInv'
  <2>1. q \in PeerType /\ q.node = n
    BY Zenon, <1>1, <1>2, AfterNeighborsType DEF SameEndpoint
  <2>2. q.request # None => q.request.tx = l /\ q.request.nodesSent = sent
    <3>1. o.request \in [tx : Lookups, nodesSent : Nat]
      BY <1>1, <1>2 DEF PeerType
    <3>2. CASE sent = MaxNodesPerBucket
      BY <1>2, <3>2 DEF AfterNeighbors, PeerType
    <3>3. CASE sent # MaxNodesPerBucket
      <4>1. sent < MaxNodesPerBucket
        <5>1. sent \in Nat /\ MaxNodesPerBucket \in Nat
          BY <1>4, <1>5, KademliaAssumption
        <5> HIDE DEF sent
        <5>2. QED BY <1>8, <3>3, <5>1
      <4>2. q = [o EXCEPT !.request = [o.request EXCEPT !.nodesSent = sent]]
        BY <3>3, <4>1 DEF AfterNeighbors
      <4> HIDE DEF q, sent
      <4>3. QED BY Zenon, <1>2, <3>1, <4>2 DEF PeerType
    <3>4. QED BY Zenon, <3>2, <3>3
  <2> HIDE DEF q, sent, l
  <2>3. \A p \in Entries(table') : p = q \/ (p \in Entries(table) /\ p.node # n)
    BY Zenon, <1>1, <1>8, <2>1, SetEntrySound
  <2>4. CASE lookup[l].waits # n
    <3>1. lookup' = lookup
      BY Zenon, <1>8, <2>4
    <3>2. \A p \in Entries(table') : RequestOK(p, lookup)
      BY Zenon, <2>1, <2>2, <2>3, <2>4 DEF LookupInv, RequestOK
    <3>3. QED BY <3>1, <3>2 DEF LookupInv
  <2>5. CASE lookup[l].waits = n
    <3> DEFINE s == lookup[l]
               more == s.found \o nodes
    <3>1. DOMAIN lookup = Lookups /\ LookupShape(s)
      BY Zenon, <1>4 DEF LookupInv
    <3>2. lookup' = [lookup EXCEPT ![l] = [s EXCEPT !.found = more]]
      BY Zenon, <1>8, <2>5
    <3>3. s.found \in Seq(Nodes) /\ s.queries \in Nat
      BY Zenon, <3>1 DEF LookupShape
    <3>4. more \in Seq(Nodes) /\ Len(more) = Len(s.found) + Len(nodes)
      BY <3>3
    <3>5. Len(s.found) + MaxNodesPerBucket
            <= s.queries * MaxNodesPerBucket + o.request.nodesSent
      BY Zenon, <1>1, <1>2, <2>5 DEF LookupInv, RequestOK, l
    <3>6. Len(s.found) \in Nat /\ s.queries * MaxNodesPerBucket \in Nat
          /\ MaxNodesPerBucket \in Nat /\ Len(more) \in Nat
      BY <3>3, <3>4, KademliaAssumption
    <3>7. /\ Len(more) + MaxNodesPerBucket <= s.queries * MaxNodesPerBucket + sent
          /\ Len(more) <= s.queries * MaxNodesPerBucket
      <4> DEFINE old == Len(s.found)
                 room == s.queries * MaxNodesPerBucket
                 k == Len(nodes)
                 was == o.request.nodesSent
      <4>1. \A a, b, c, d, e \in Nat :
              a + b <= c + d /\ d + e <= b => (a + e) + b <= c + (d + e) /\ a + e <= c
        OBVIOUS
      <4>2. /\ old \in Nat /\ room \in Nat /\ k \in Nat /\ was \in Nat /\ MaxNodesPerBucket \in Nat
            /\ Len(more) = old + k /\ sent = was + k
            /\ old + MaxNodesPerBucket <= room + was /\ sent <= MaxNodesPerBucket
        BY Zenon, <1>4, <1>5, <1>8, <3>4, <3>5, <3>6
      <4> HIDE DEF old, room, k, was, more
      <4>3. (old + k) + MaxNodesPerBucket <= room + (was + k) /\ old + k <= room
        BY <4>1, <4>2, Zenon
      <4>4. QED BY <4>2, <4>3 DEF room
    <3> HIDE DEF more, s
    <3>8. DOMAIN lookup' = Lookups /\ \A m \in Lookups \ {l} : lookup'[m] = lookup[m]
      BY <3>1, <3>2
    <3>9. /\ lookup'[l].found = more /\ lookup'[l].waits = s.waits
          /\ lookup'[l].queries = s.queries /\ lookup'[l].at = s.at
          /\ DOMAIN lookup'[l] = DOMAIN s
      BY Zenon, <1>4, <3>1, <3>2 DEF LookupShape
    <3>10. LookupShape(lookup'[l])
      BY Zenon, <3>1, <3>4, <3>7, <3>9 DEF LookupShape
    <3>11. RequestOK(q, lookup')
      BY <2>2, <3>7, <3>9 DEF RequestOK
    <3>12. ASSUME NEW p \in Entries(table), p.node # n PROVE RequestOK(p, lookup')
      <4>1. p \in PeerType
        BY Zenon, <1>1, EntryTypes
      <4>2. CASE p.request = None
        BY Zenon, <4>2 DEF RequestOK
      <4>3. CASE p.request # None /\ p.request.tx = l
        BY Zenon, <2>5, <3>9, <3>12, <4>3 DEF RequestOK, s
      <4>4. CASE p.request # None /\ p.request.tx # l
        <5>1. p.request.tx \in Lookups \ {l}
          BY Zenon, <4>1, <4>4 DEF PeerType
        <5>2. lookup'[p.request.tx] = lookup[p.request.tx]
          BY Zenon, <3>8, <5>1
        <5>3. RequestOK(p, lookup)
          BY Zenon DEF LookupInv
        <5>4. QED BY Zenon, <5>2, <5>3 DEF RequestOK
      <4>5. QED BY Zenon, <4>2, <4>3, <4>4
    <3>13. \A m \in Lookups : LookupShape(lookup'[m])
      BY Zenon, <3>8, <3>10 DEF LookupInv
    <3>14. QED BY Zenon, <2>3, <3>8, <3>11, <3>12, <3>13 DEF LookupInv
  <2>6. QED BY Zenon, <2>4, <2>5
<1>9. QED BY Zenon, <1>3, <1>6, <1>7, <1>8

\* A lookup that waits for no node is owed nothing by any request
LEMMA NotWaiting ==
    ASSUME DiscoveryInv, LookupInv, UNCHANGED table, NEW l \in Lookups, NEW s,
           lookup' = [lookup EXCEPT ![l] = s], LookupShape(s), s.waits = None
    PROVE  LookupInv'
<1>1. DOMAIN lookup' = Lookups /\ lookup'[l] = s /\ \A m \in Lookups \ {l} : lookup'[m] = lookup[m]
  BY DEF LookupInv
<1>2. ASSUME NEW p \in Entries(table) PROVE RequestOK(p, lookup')
  <2>1. p \in PeerType /\ RequestOK(p, lookup)
    BY Zenon, EntryTypes DEF DiscoveryInv, TypeInv, LookupInv
  <2>2. p.node # None /\ (p.request # None => p.request.tx \in Lookups)
    BY Zenon, <2>1, KademliaAssumption DEF PeerType
  <2>3. QED BY <1>1, <2>1, <2>2 DEF RequestOK
<1>3. QED BY Zenon, <1>1, <1>2 DEF LookupInv

\* A request to a node starts with nothing counted, and with a new query
LEMMA AskFound ==
    ASSUME DiscoveryInv, LookupInv, NEW l \in Lookups, LookupAsk(l),
           Askable(l, lookup[l].ask[lookup[l].next])
    PROVE  LookupInv'
<1> DEFINE s == lookup[l]
           n == s.ask[s.next]
           u == [s EXCEPT !.at = "wait", !.waits = n, !.asked = s.asked \cup {n},
                          !.queries = s.queries + 1]
           o == GetByNodeId(table, n)
           q == [o EXCEPT !.request = [tx |-> l, nodesSent |-> 0]]
<1>1. table \in TableType /\ Sound(table) /\ DOMAIN lookup = Lookups /\ LookupShape(s)
  BY Zenon DEF DiscoveryInv, TypeInv, LookupInv
<1>2. /\ s.at = "round" /\ InPeers(table, n) /\ table' = NewFindNodeRequest(table, n, l)
      /\ lookup' = [lookup EXCEPT ![l] = u]
  BY Zenon DEF LookupAsk, Askable
<1>3. table' = SetEntry(table, n, q)
  BY <1>2 DEF NewFindNodeRequest, UpdatePeer
<1> HIDE DEF n
<1>4. u.at = "wait" /\ u.waits = n /\ u.queries = s.queries + 1 /\ u.found = s.found /\ DOMAIN u = DOMAIN s
  BY <1>1 DEF LookupShape
<1> HIDE DEF u
<1>5. DOMAIN lookup' = Lookups /\ lookup'[l] = u /\ \A m \in Lookups \ {l} : lookup'[m] = lookup[m]
  BY Zenon, <1>1, <1>2
<1>6. /\ s.queries \in Nat /\ s.queries * MaxNodesPerBucket \in Nat /\ MaxNodesPerBucket \in Nat
      /\ Len(s.found) \in Nat /\ Len(s.found) <= s.queries * MaxNodesPerBucket
  BY <1>1, KademliaAssumption DEF LookupShape
<1>7. u.queries * MaxNodesPerBucket = s.queries * MaxNodesPerBucket + MaxNodesPerBucket
  BY <1>4, <1>6, OneMoreQuery
<1>8. /\ Len(u.found) <= u.queries * MaxNodesPerBucket
      /\ Len(u.found) + MaxNodesPerBucket <= u.queries * MaxNodesPerBucket + 0
  <2>1. \A a, b, c \in Nat : a <= c => a <= c + b /\ a + b <= (c + b) + 0
    OBVIOUS
  <2> DEFINE a == Len(s.found)
             c == s.queries * MaxNodesPerBucket
  <2>2. a \in Nat /\ c \in Nat /\ MaxNodesPerBucket \in Nat /\ a <= c /\ Len(u.found) = a
    BY Zenon, <1>4, <1>6
  <2>3. u.queries * MaxNodesPerBucket = c + MaxNodesPerBucket
    BY <1>7
  <2> HIDE DEF a, c
  <2>4. a <= c + MaxNodesPerBucket /\ a + MaxNodesPerBucket <= (c + MaxNodesPerBucket) + 0
    BY <2>1, <2>2, Zenon
  <2>5. QED BY <2>2, <2>3, <2>4, Zenon
<1>9. LookupShape(u)
  <2>1. u.queries \in Nat
    <3>1. s.queries \in Nat
      BY Zenon, <1>6
    <3>2. QED BY <1>4, <3>1
  <2>2. {"at", "waits", "queries", "found"} \subseteq DOMAIN u /\ u.found \in Seq(Nodes)
    BY Zenon, <1>1, <1>4 DEF LookupShape
  <2>3. QED BY <1>4, <1>8, <2>1, <2>2, Zenon DEF LookupShape
<1>10. \A p \in Entries(table') : p.node = n => p.request = [tx |-> l, nodesSent |-> 0]
  <2>1. CASE n \in Nodes
    <3>1. o \in PeerType /\ o.node = n
      BY Zenon, <1>1, <1>2, <2>1, Found
    <3> HIDE DEF o
    <3>2. q \in PeerType /\ q.node = n /\ q.request = [tx |-> l, nodesSent |-> 0]
      BY Zenon, <3>1 DEF PeerType
    <3> HIDE DEF q
    <3>3. QED BY Zenon, <1>1, <1>2, <1>3, <2>1, <3>2, SetEntrySound
  <2>2. CASE n \notin Nodes
    <3>1. DiscoveryInv'
      BY Zenon, LookupKeeps DEF LookupStep
    <3>2. \A p \in Entries(table') : p.node \in Nodes
      BY Zenon, <3>1, EntryTypes DEF DiscoveryInv, TypeInv, PeerType
    <3>3. QED BY Zenon, <2>2, <3>2
  <2>3. QED BY Zenon, <2>1, <2>2
<1>11. ASSUME NEW p \in Entries(table'), p.node # n PROVE p \in Entries(table) /\ p \in PeerType
  <2>1. CASE n \in Nodes
    <3>1. o \in PeerType /\ o.node = n
      BY Zenon, <1>1, <1>2, <2>1, Found
    <3> HIDE DEF o
    <3>2. q \in PeerType /\ q.node = n
      BY Zenon, <3>1 DEF PeerType
    <3> HIDE DEF q
    <3>3. QED BY Zenon, <1>1, <1>2, <1>3, <1>11, <2>1, <3>2, SetEntrySound, EntryTypes
  <2>2. CASE n \notin Nodes
    <3>1. table' = table
      BY Zenon, <1>2, <2>2, AskedNode DEF n, s
    <3>2. QED BY Zenon, <1>1, <3>1, EntryTypes
  <2>3. QED BY Zenon, <2>1, <2>2
<1>12. ASSUME NEW p \in Entries(table') PROVE RequestOK(p, lookup')
  <2>1. CASE p.node = n
    <3>1. p.request.tx = l /\ p.request.nodesSent = 0
      BY <1>10, <2>1
    <3>2. QED BY Zenon, <1>4, <1>5, <1>8, <3>1 DEF RequestOK
  <2>2. CASE p.node # n
    <3>1. p \in PeerType /\ RequestOK(p, lookup)
      BY Zenon, <1>11, <2>2 DEF LookupInv
    <3>2. p.request # None => p.request.tx \in Lookups
      BY Zenon, <3>1 DEF PeerType
    <3>3. QED BY Zenon, <1>4, <1>5, <2>2, <3>1, <3>2 DEF RequestOK
  <2>3. QED BY Zenon, <2>1, <2>2
<1>13. QED BY Zenon, <1>5, <1>9, <1>12 DEF LookupInv

\* The steps of the lookups
LEMMA LookupFound ==
    ASSUME DiscoveryInv, LookupInv, NEW l \in Lookups, LookupStep(l)
    PROVE  LookupInv'
<1> DEFINE s == lookup[l]
<1>1. DOMAIN lookup = Lookups /\ LookupShape(s)
  BY DEF LookupInv
<1>2. CASE LookupClosest(l)
  <2> DEFINE closest == GetClosestNodes(table, s.target)
             seen == {Local} \cup {closest[i] : i \in DOMAIN closest}
             u == [s EXCEPT !.at = "round", !.ask = closest, !.seen = seen]
  <2>1. lookup' = [lookup EXCEPT ![l] = u] /\ UNCHANGED table /\ s.at = "start"
    BY Zenon, <1>2 DEF LookupClosest
  <2> HIDE DEF closest, seen
  <2>2. LookupShape(u) /\ u.waits = None
    BY <1>1, <2>1 DEF LookupShape
  <2> HIDE DEF u
  <2>3. QED BY Zenon, <2>1, <2>2, NotWaiting
<1>3. CASE LookupAsk(l) /\ ~Askable(l, s.ask[s.next])
  <2> DEFINE u == [s EXCEPT !.next = s.next + 1]
  <2>1. lookup' = [lookup EXCEPT ![l] = u] /\ UNCHANGED table /\ s.at = "round"
    BY <1>3 DEF LookupAsk
  <2>2. LookupShape(u) /\ u.waits = None
    BY <1>1, <2>1 DEF LookupShape
  <2> HIDE DEF u
  <2>3. QED BY Zenon, <2>1, <2>2, NotWaiting
<1>4. CASE LookupResume(l)
  <2> DEFINE u == [s EXCEPT !.at = "round", !.waits = None, !.next = s.next + 1]
  <2>1. lookup' = [lookup EXCEPT ![l] = u] /\ UNCHANGED table
    BY Zenon, <1>4 DEF LookupResume
  <2>2. LookupShape(u) /\ u.waits = None
    BY <1>1, <2>1 DEF LookupShape
  <2> HIDE DEF u
  <2>3. QED BY Zenon, <2>1, <2>2, NotWaiting
<1>5. CASE LookupRoundEnd(l)
  <2> DEFINE pushed == PushFound(s)
             u == IF s.queries = 0 THEN [NoLookup EXCEPT !.started = s.started]
                  ELSE [s EXCEPT !.seen = pushed.seen, !.ask = pushed.ask,
                                 !.next = 1, !.queries = 0, !.found = <<>>]
  <2>1. lookup' = [lookup EXCEPT ![l] = u] /\ UNCHANGED table /\ s.at = "round"
    BY <1>5 DEF LookupRoundEnd
  <2> HIDE DEF pushed
  <2>2. LookupShape(u) /\ u.waits = None
    BY <1>1, <2>1, KademliaAssumption DEF LookupShape, NoLookup
  <2> HIDE DEF u
  <2>3. QED BY <2>1, <2>2, NotWaiting
<1>6. QED BY Zenon, <1>2, <1>3, <1>4, <1>5, AskFound DEF LookupStep

\* A batch starts anew
LEMMA StartFound ==
    ASSUME DiscoveryInv, LookupInv, LookupsStart
    PROVE  LookupInv'
<1>1. PICK targets \in [Lookups -> Nodes] :
        lookup' = [l \in Lookups |-> [NoLookup EXCEPT !.at = "start", !.target = targets[l],
                                                      !.started = lookup[l].started + 1]]
  BY Zenon DEF LookupsStart
<1>2. ASSUME NEW l \in Lookups PROVE LookupShape(lookup'[l]) /\ lookup'[l].waits = None
  <2>1. /\ lookup'[l].at = "start" /\ lookup'[l].waits = None
        /\ lookup'[l].queries = 0 /\ lookup'[l].found = <<>>
        /\ {"at", "waits", "queries", "found"} \subseteq DOMAIN lookup'[l]
    BY Zenon, <1>1 DEF NoLookup
  <2>2. QED BY Zenon, <2>1, NoneFound DEF LookupShape
<1>3. UNCHANGED table /\ DOMAIN lookup' = Lookups
  BY Zenon, <1>1 DEF LookupsStart
<1>4. ASSUME NEW p \in Entries(table) PROVE RequestOK(p, lookup')
  <2>1. p \in PeerType
    BY Zenon, EntryTypes DEF DiscoveryInv, TypeInv
  <2>2. p.node # None /\ (p.request # None => p.request.tx \in Lookups)
    BY <2>1, KademliaAssumption DEF PeerType
  <2>3. QED BY <1>2, <2>2 DEF RequestOK
<1>5. QED BY Zenon, <1>2, <1>3, <1>4 DEF LookupInv

\* In every round a lookup collects at most one bucket of nodes per query,
\* whatever packets come and however often a peer is asked
THEOREM FoundStaysBounded == Spec => []FoundBounded
<1>1. Init => LookupInv
  <2> SUFFICES ASSUME Init PROVE LookupInv
    OBVIOUS
  <2>1. Entries(table) = {}
    BY DEF Init, EmptyTable, Entries
  <2>2. \A l \in Lookups : lookup[l] = NoLookup
    BY Zenon DEF Init
  <2>3. LookupShape(NoLookup)
    <3>1. /\ NoLookup.at = "off" /\ NoLookup.waits = None
          /\ NoLookup.queries = 0 /\ NoLookup.found = <<>>
          /\ {"at", "waits", "queries", "found"} \subseteq DOMAIN NoLookup
      BY Zenon DEF NoLookup
    <3>2. QED BY Zenon, <3>1, NoneFound DEF LookupShape
  <2>4. QED BY Zenon, <2>1, <2>2, <2>3 DEF LookupInv, Init
<1>2. DiscoveryInv /\ LookupInv /\ [Next]_vars => LookupInv'
  <2> SUFFICES ASSUME DiscoveryInv, LookupInv, [Next]_vars PROVE LookupInv'
    OBVIOUS
  <2>1. CASE UNCHANGED vars
    BY <2>1 DEF vars, LookupInv
  <2>2. CASE Packet
    <3>1. PICK n \in Remote :
            \/ PingReceived(n)
            \/ \E hash \in 0 .. pings[n] : PongReceived(n, hash)
            \/ FindNodeReceived(n)
            \/ \E nodes \in NeighborLists : NeighborsReceived(n, nodes)
      BY <2>2 DEF Packet
    <3>2. n \in Nodes /\ NeighborLists \subseteq Seq(Nodes)
      BY DiscoveryAssumption DEF Remote
    <3>3. QED BY <3>1, <3>2, NeighborsFound, OthersRequests, OldRequests
  <2>3. CASE ServerStep \/ Startup \/ Revalidation \/ Connection
    BY <2>3, OthersRequests, OldRequests
  <2>4. QED BY <2>1, <2>2, <2>3, LookupFound, StartFound DEF Next
<1>3. LookupInv => FoundBounded
  BY Zenon DEF LookupInv, LookupShape, FoundBounded
<1>4. QED BY <1>1, <1>2, <1>3, DiscoveryInvariant, PTL DEF Spec

==============================================================================
