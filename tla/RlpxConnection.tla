--------------------------- MODULE RlpxConnection ---------------------------
(***************************************************************************)
(* The two ends of an RLPx connection (rlpx/connection.rs): handshake,     *)
(* exchange of Hello and Status, the loop of handle_peer_conn with its     *)
(* select!, the handlers of handle_message, and the requests that          *)
(* peer_channels.rs sends through a connection.                            *)
(*                                                                         *)
(* Both ends run this code.  A foreign end is another client: it may       *)
(* announce other capabilities or another chain, send messages that this   *)
(* code never sends, and fall silent.  A step of an end is the code        *)
(* between two awaits that depend on somebody else; writes to the socket   *)
(* do not block.  MaxOwn bounds what the ends send of their own accord.    *)
(***************************************************************************)
EXTENDS RlpxSession, FiniteSets

CONSTANTS
    Profiles,       \* end -> what else it may be: capabilities and chain that it
                    \* announces, the key of the node it means to connect to, and
                    \* whether it is another client
    ForeignTypes,   \* the types of messages a foreign end sends of its own accord
    Requesters,     \* the tasks that send requests through the initiator's connection
    Capacity,       \* MAX_MESSAGES_IN_PEER_CHANNEL
    MaxOwn          \* bound: messages that answer nothing

ASSUME ConnectionAssumption ==
    /\ Capacity \in Nat \ {0}
    /\ MaxOwn \in Nat

Ends == {"initiator", "receiver"}
Other(e) == IF e = "initiator" THEN "receiver" ELSE "initiator"

\* Static and ephemeral keys and nonces
Local(e) == [node |-> <<e, "node">>, ephemeral |-> <<e, "ephemeral">>, nonce |-> <<e, "nonce">>]

VARIABLES
    conn,       \* end -> where its task is, its session, and how far frame::read came
    stream,     \* end -> the blocks on their way to it
    profile,    \* end -> what it announces
    caps,       \* end -> self.capabilities
    own,        \* messages sent without being asked for
    requests,   \* the channel from the requesters to the initiator's task
    replies,    \* end -> the channel back
    requester,  \* requester -> how far its request is
    holder      \* who holds the receiving end of the second channel

vars == <<conn, stream, profile, caps, own, requests, replies, requester, holder>>
backend == <<requests, replies, requester, holder>>

Eth == <<"eth", 68>>
Supported == {<<"p2p", 5>>, Eth, <<"snap", 1>>}

----------------------------------------------------------------------------
(* Messages *)

Message(type, id, info) == [type |-> type, id |-> id, info |-> info]

\* The codes of message.rs
Code == [Hello |-> 0, Disconnect |-> 1, Ping |-> 2, Pong |-> 3, Status |-> 16,
         Transactions |-> 18, GetBlockHeaders |-> 19, BlockHeaders |-> 20,
         GetBlockBodies |-> 21, BlockBodies |-> 22, NewPooledTransactionHashes |-> 24,
         GetPooledTransactions |-> 25, PooledTransactions |-> 26, GetReceipts |-> 31,
         Receipts |-> 32, GetAccountRange |-> 33, AccountRange |-> 34,
         GetStorageRanges |-> 35, StorageRanges |-> 36, GetByteCodes |-> 37,
         ByteCodes |-> 38, GetTrieNodes |-> 39, TrieNodes |-> 40]

\* Message::decode knows no PooledTransactions.  A Hello with a capability
\* that has no name here is malformed.
Decodable(msg) ==
    /\ msg.type \in DOMAIN Code \ {"PooledTransactions"}
    /\ msg.type = "Hello" => \A cap \in msg.info : cap[1] \in {"p2p", "eth", "snap"}

\* StatusMessage::decode asserts the version
DecodePanics(msg) == msg.type = "Status" /\ "old version" \in msg.info

\* The messages that are answered, and by what
Served == [Ping |-> "Pong",
           GetBlockHeaders |-> "BlockHeaders", GetBlockBodies |-> "BlockBodies",
           GetReceipts |-> "Receipts", NewPooledTransactionHashes |-> "GetPooledTransactions",
           GetAccountRange |-> "AccountRange", GetStorageRanges |-> "StorageRanges",
           GetByteCodes |-> "ByteCodes", GetTrieNodes |-> "TrieNodes"]

Replies == {"AccountRange", "StorageRanges", "ByteCodes", "TrieNodes",
            "BlockBodies", "BlockHeaders", "Receipts"}

NeedsEth == {"Transactions", "GetBlockHeaders", "GetBlockBodies", "GetReceipts",
             "NewPooledTransactionHashes"}

----------------------------------------------------------------------------
(* An end and its socket *)

\* The states of RLPxConnectionState, and the places where the task waits
Start == [at |-> "start", session |-> NoSession, init |-> <<>>, peer |-> <<>>, peerInit |-> <<>>,
          reading |-> "header", held |-> NoMessage, echo |-> 0]

Ended(e) == conn[e].at \in {"done", "panicked"}

\* An end becomes c, after its message, if there is one, is written; rest is left
\* in its stream
Goes(e, c, rest, msgs) ==
    /\ conn' = [conn EXCEPT ![e] = IF msgs = <<>> THEN c
                                   ELSE [c EXCEPT !.session = Written(@, msgs[1])]]
    /\ stream' = [stream EXCEPT ![e] = rest,
                                ![Other(e)] = IF msgs = <<>> \/ Ended(Other(e)) THEN @
                                              ELSE @ \o Frame(c.session, msgs[1])]

\* Faulty variant: the peer is not discarded
FailsSilently(e, c, rest) == Goes(e, [c EXCEPT !.at = "done"], rest, <<>>)

\* peer_conn_failed: Disconnect is written if there is a session.  Without one
\* the peer is unknown, and the task just ends.
Fails(e, c, rest) ==
    IF c.session = NoSession THEN Goes(e, [c EXCEPT !.at = "done"], rest, <<>>)
    ELSE Goes(e, [c EXCEPT !.at = "failing"], rest, <<Message("Disconnect", 0, {})>>)

Panics(e) ==
    /\ conn' = [conn EXCEPT ![e].at = "panicked"]
    /\ stream' = [stream EXCEPT ![e] = <<>>]

\* Writing to a socket whose other end is closed succeeds or fails
Sends(e, c, rest, msgs) ==
    \/ Goes(e, c, rest, msgs)
    \/ Ended(Other(e)) /\ msgs # <<>> /\ Fails(e, c, rest)

----------------------------------------------------------------------------
(* handshake *)

Handshake(cipher) == Block("handshake", 0, cipher)

SendAuth(e) ==
    /\ e = "initiator" /\ conn[e].at = "start"
    /\ LET me == Local(e)
           auth == EncodeAuthMessage(me.node, me.nonce, profile[e].target, me.ephemeral)
       IN  /\ conn' = [conn EXCEPT ![e].at = "ack", ![e].init = <<auth>>]
           /\ stream' = [stream EXCEPT ![Other(e)] = Append(@, Handshake(auth))]
    /\ UNCHANGED <<profile, caps, own, backend>>

ReceiveAuth(e) ==
    /\ e = "receiver" /\ conn[e].at = "start" /\ stream[e] # <<>>
    /\ LET auth == Head(stream[e]).body
       IN  IF DecryptFails(Local(e).node, auth) THEN Panics(e)
           ELSE /\ conn' = [conn EXCEPT ![e].at = "send_ack", ![e].peerInit = <<auth>>,
                                        ![e].peer = <<DecodeAuthMessage(Local(e).node, auth)>>]
                /\ stream' = [stream EXCEPT ![e] = Tail(@)]
    /\ UNCHANGED <<profile, caps, own, backend>>

SendAck(e) ==
    /\ conn[e].at = "send_ack"
    /\ LET me == Local(e)
           peer == conn[e].peer[1]
           ack == EncodeAckMessage(me.ephemeral, me.nonce, peer.node)
       IN  /\ conn' = [conn EXCEPT ![e] =
                  [Start EXCEPT !.at = "send_hello",
                                !.session = ForReceiver(me, peer, ack, conn[e].peerInit[1])]]
           /\ stream' = [stream EXCEPT ![Other(e)] = Append(@, Handshake(ack))]
    /\ UNCHANGED <<profile, caps, own, backend>>

ReceiveAck(e) ==
    /\ conn[e].at = "ack" /\ stream[e] # <<>>
    /\ LET me == Local(e)
           ack == Head(stream[e]).body
           peer == [node |-> profile[e].target, ephemeral |-> DecodeAckMessage(ack).ephemeral,
                    nonce |-> DecodeAckMessage(ack).nonce]
       IN  /\ conn' = [conn EXCEPT ![e] =
                  [Start EXCEPT !.at = "send_hello",
                                !.session = ForInitiator(me, peer, conn[e].init[1], ack)]]
           /\ stream' = [stream EXCEPT ![e] = Tail(@)]
    /\ UNCHANGED <<profile, caps, own, backend>>

\* exchange_hello_messages, up to its receive
SendHello(e) ==
    /\ conn[e].at = "send_hello"
    /\ Sends(e, [conn[e] EXCEPT !.at = "hello"], stream[e],
             <<Message("Hello", 0, profile[e].caps)>>)
    /\ UNCHANGED <<profile, caps, own, backend>>

\* set_channels
OpenChannels(e) ==
    /\ conn[e].at = "channels"
    /\ conn' = [conn EXCEPT ![e].at = IF Eth \in caps[e] THEN "send_status" ELSE "loop"]
    /\ UNCHANGED <<stream, profile, caps, own, backend>>

\* init_peer_conn, up to its receive; get_status may miss a block
SendStatus(e) ==
    /\ conn[e].at = "send_status"
    /\ \/ Sends(e, [conn[e] EXCEPT !.at = "status"], stream[e],
                <<Message("Status", 0, {profile[e].chain})>>)
       \/ Fails(e, conn[e], stream[e])
    /\ UNCHANGED <<profile, caps, own, backend>>

----------------------------------------------------------------------------
(* receive, and what becomes of a message *)

ValidateStatus(e, msg) == msg.info = {profile[e].chain}

\* The messages for which handle_message returns an error
Refuses(e, msg) ==
    \/ msg.type \in {"Disconnect", "Hello", "GetPooledTransactions"}
    \/ msg.type = "Status" /\ (Eth \in caps[e] \/ ~ValidateStatus(e, msg))
    \/ msg.type \in NeedsEth /\ Eth \notin caps[e]

\* handle_message
Handle(e, c, rest, msg) ==
    IF Refuses(e, msg) THEN Fails(e, c, rest)
    ELSE IF msg.type \in Replies
    THEN Goes(e, [c EXCEPT !.at = "deliver", !.held = msg], rest, <<>>)
    ELSE IF msg.type \in DOMAIN Served
    THEN \/ Sends(e, c, rest, <<Message(Served[msg.type], msg.id, {})>>)
         \/ msg.type # "Ping" /\ Fails(e, c, rest)    \* the store fails
    ELSE IF msg.type = "Transactions"
    THEN \/ Goes(e, [c EXCEPT !.echo = 1], rest, <<>>)
         \/ Fails(e, c, rest)                         \* the mempool refuses one
    ELSE Goes(e, c, rest, <<>>)

Received(e, c, rest, msg) ==
    CASE c.at = "hello" ->
           /\ caps' = [caps EXCEPT ![e] = IF msg.type = "Hello" THEN msg.info ELSE @]
           /\ IF msg.type = "Hello" /\ msg.info \cap Supported # {}
              THEN Goes(e, [c EXCEPT !.at = "channels"], rest, <<>>)
              ELSE Fails(e, c, rest)
      [] c.at = "status" ->
           /\ caps' = caps
           /\ IF msg.type = "Status" /\ ValidateStatus(e, msg)
              THEN Goes(e, [c EXCEPT !.at = "loop"], rest, <<>>)
              ELSE Fails(e, c, rest)
      [] c.at = "loop" -> caps' = caps /\ Handle(e, c, rest, msg)

Receiving(e) == conn[e].at \in {"hello", "status", "loop"}

ReadHeader(e) ==
    /\ Receiving(e) /\ conn[e].reading = "header" /\ Len(stream[e]) >= 2
    /\ IF MacMatches(conn[e].session.ingressMac, "header", stream[e][1], stream[e][2])
       THEN Goes(e, [conn[e] EXCEPT !.session = BlockRead(@, stream[e][1]), !.reading = "data"],
                 SubSeq(stream[e], 3, Len(stream[e])), <<>>)
       ELSE Panics(e)
    /\ UNCHANGED <<profile, caps, own, backend>>

ReadData(e) ==
    /\ Receiving(e) /\ conn[e].reading = "data" /\ Len(stream[e]) >= 2
    /\ LET block == stream[e][1]
           msg == Decrypted(conn[e].session, block)
           c == [conn[e] EXCEPT !.session = BlockRead(@, block), !.reading = "header"]
           rest == SubSeq(stream[e], 3, Len(stream[e]))
       IN  IF ~MacMatches(conn[e].session.ingressMac, "data", block, stream[e][2]) \/ DecodePanics(msg)
           THEN Panics(e) /\ caps' = caps
           ELSE IF ~Decodable(msg) THEN Fails(e, c, rest) /\ caps' = caps
           ELSE Received(e, c, rest, msg)
    /\ UNCHANGED <<profile, own, backend>>

\* Faulty variant: the loop goes on after a failed read
ReadFailsIgnored(e) ==
    /\ Ended(Other(e)) /\ conn[e].at \in {"hello", "status"} /\ Len(stream[e]) < 2
    /\ Fails(e, conn[e], stream[e])
    /\ UNCHANGED <<profile, caps, own, backend>>

\* The other end is gone, and there is not enough left to read
ReadFails(e) ==
    /\ Ended(Other(e))
    /\ \/ <<e, conn[e].at>> \in {<<"receiver", "start">>, <<"initiator", "ack">>} /\ stream[e] = <<>>
       \/ Receiving(e) /\ Len(stream[e]) < 2
    /\ Fails(e, conn[e], stream[e])
    /\ UNCHANGED <<profile, caps, own, backend>>

----------------------------------------------------------------------------
(* The other branches of select!.  The read that was going on is dropped with *)
(* the bytes it had taken; a header that was read has changed the session.    *)

Cancelled(e) == {stream[e]} \cup IF stream[e] = <<>> THEN {} ELSE {Tail(stream[e])}
Afresh(e) == [conn[e] EXCEPT !.reading = "header"]

\* Transactions of another connection; a receiver that lags behind gets an error
Broadcast(e) ==
    /\ conn[e].at = "loop" /\ Eth \in caps[e] /\ own < MaxOwn
    /\ own' = own + 1
    /\ \E rest \in Cancelled(e) :
        \/ Sends(e, Afresh(e), rest, <<Message("Transactions", 0, {})>>)
        \/ Fails(e, Afresh(e), rest)
    /\ UNCHANGED <<profile, caps, backend>>

\* The broadcast of this very task comes back, and is ignored
Echo(e) ==
    /\ conn[e].at = "loop" /\ conn[e].echo > 0
    /\ \E rest \in Cancelled(e) : Goes(e, [Afresh(e) EXCEPT !.echo = 0], rest, <<>>)
    /\ UNCHANGED <<profile, caps, own, backend>>

\* Faulty variant: the request stays in the channel
ForwardKept(e) ==
    /\ e = "initiator" /\ conn[e].at = "loop" /\ requests # <<>>
    /\ \E rest \in Cancelled(e) :
        Sends(e, Afresh(e), rest, <<Message("GetBlockHeaders", Head(requests), {})>>)
    /\ UNCHANGED <<profile, caps, own, backend>>

\* A request of the backend
Forward(e) ==
    /\ e = "initiator" /\ conn[e].at = "loop" /\ requests # <<>>
    /\ requests' = Tail(requests)
    /\ \E rest \in Cancelled(e) :
        Sends(e, Afresh(e), rest, <<Message("GetBlockHeaders", Head(requests), {})>>)
    /\ UNCHANGED <<profile, caps, own, replies, requester, holder>>

\* sleep, and check_periodic_tasks, which follows every other branch as well
Periodic(e) ==
    /\ conn[e].at = "loop" /\ own < MaxOwn
    /\ own' = own + 1
    /\ \E rest \in Cancelled(e) : Sends(e, Afresh(e), rest, <<Message("Ping", 0, {})>>)
    /\ UNCHANGED <<profile, caps, backend>>

\* A foreign end sends what this code does not send
ForeignSends(e) ==
    /\ profile[e].foreign /\ conn[e].at = "loop" /\ own < MaxOwn
    /\ own' = own + 1
    /\ \E type \in ForeignTypes : Goes(e, conn[e], stream[e], <<Message(type, 0, {})>>)
    /\ UNCHANGED <<profile, caps, backend>>

----------------------------------------------------------------------------
(* Ends of the task *)

\* sender.send(message): waits for room in the channel.  It fails when the entry
\* that holds the channel has left the table, as another task may make it at any time.
Deliver(e) ==
    /\ conn[e].at = "deliver"
    /\ LET c == [conn[e] EXCEPT !.at = "loop", !.held = NoMessage]
       IN  \/ /\ Len(replies[e]) < Capacity
              /\ replies' = [replies EXCEPT ![e] = Append(@, conn[e].held)]
              /\ Goes(e, c, stream[e], <<>>)
           \/ replies' = replies /\ Fails(e, c, stream[e])
    /\ UNCHANGED <<profile, caps, own, requests, requester, holder>>

\* The end of peer_conn_failed: replace_peer
Discard(e) ==
    /\ conn[e].at = "failing"
    /\ conn' = [conn EXCEPT ![e].at = "done"]
    /\ stream' = [stream EXCEPT ![e] = <<>>]
    /\ UNCHANGED <<profile, caps, own, backend>>

----------------------------------------------------------------------------
(* peer_channels.rs: a request, through the initiator's connection *)

\* A request is made through the channels that the table has for the peer
Request(q) ==
    /\ requester[q] = "idle" /\ own < MaxOwn
    /\ own' = own + 1
    /\ conn["initiator"].at \notin {"start", "ack", "send_hello", "hello", "channels"}
    /\ requester' = [requester EXCEPT ![q] = "send"]
    /\ UNCHANGED <<conn, stream, profile, caps, requests, replies, holder>>

\* sender.send(request): waits for room in the channel, without a timeout, and
\* fails once handle_peer_conn has returned
SendRequest(q) ==
    /\ requester[q] = "send"
    /\ \/ /\ conn["initiator"].at \in {"failing", "done", "panicked"}
          /\ requester' = [requester EXCEPT ![q] = "none"] /\ requests' = requests
       \/ /\ conn["initiator"].at \notin {"failing", "done", "panicked"}
          /\ Len(requests) < Capacity
          /\ requester' = [requester EXCEPT ![q] = "lock"]
          /\ requests' = Append(requests, q)
    /\ UNCHANGED <<conn, stream, profile, caps, own, replies, holder>>

\* receiver.lock()
LockReceiver(q) ==
    /\ requester[q] = "lock" /\ holder = {}
    /\ holder' = {q}
    /\ requester' = [requester EXCEPT ![q] = "wait"]
    /\ UNCHANGED <<conn, stream, profile, caps, own, requests, replies>>

IsReply(q, msg) == msg.type = "BlockHeaders" /\ msg.id = q

\* The reply, or another message, which is dropped
TakeReply(q) ==
    /\ requester[q] = "wait" /\ replies["initiator"] # <<>>
    /\ LET msg == Head(replies["initiator"])
       IN  IF IsReply(q, msg)
           THEN /\ requester' = [requester EXCEPT ![q] = "ok"]
                /\ holder' = {}
           ELSE UNCHANGED <<requester, holder>>
    /\ replies' = [replies EXCEPT !["initiator"] = Tail(@)]
    /\ UNCHANGED <<conn, stream, profile, caps, own, requests>>

\* Faulty variant: a request that times out keeps the lock
GiveUpHolding(q) ==
    /\ requester[q] = "wait"
    /\ requester' = [requester EXCEPT ![q] = "none"]
    /\ UNCHANGED <<conn, stream, profile, caps, own, requests, replies, holder>>

\* 45 seconds are over, or the connection's task is
GiveUp(q) ==
    /\ requester[q] = "wait"
    /\ requester' = [requester EXCEPT ![q] = "none"]
    /\ holder' = {}
    /\ UNCHANGED <<conn, stream, profile, caps, own, requests, replies>>

----------------------------------------------------------------------------
Ours == [caps |-> Supported, chain |-> "chain", target |-> Local("receiver").node,
         foreign |-> FALSE]

Init ==
    /\ conn = [e \in Ends |-> Start]
    /\ stream = [e \in Ends |-> <<>>]
    /\ profile \in [Ends -> Profiles["initiator"] \cup Profiles["receiver"] \cup {Ours}]
    /\ \A e \in Ends : profile[e] \in Profiles[e] \cup {Ours}
    /\ caps = [e \in Ends |-> {}]
    /\ own = 0
    /\ requests = <<>>
    /\ replies = [e \in Ends |-> <<>>]
    /\ requester = [q \in Requesters |-> "idle"]
    /\ holder = {}

\* What the task of an end does without anything new happening
Task(e) ==
    \/ SendAuth(e) \/ ReceiveAuth(e) \/ SendAck(e) \/ ReceiveAck(e)
    \/ SendHello(e) \/ OpenChannels(e) \/ SendStatus(e)
    \/ ReadHeader(e) \/ ReadData(e) \/ ReadFails(e)
    \/ Echo(e) \/ Forward(e) \/ Deliver(e) \/ Discard(e)

Requesting(q) == SendRequest(q) \/ LockReceiver(q) \/ TakeReply(q) \/ GiveUp(q)

Next ==
    \/ \E e \in Ends : Task(e) \/ Broadcast(e) \/ Periodic(e) \/ ForeignSends(e)
    \/ \E q \in Requesters : Request(q) \/ Requesting(q)

Spec == Init /\ [][Next]_vars

\* The runtime polls a task that can go on, and the timeout of a request goes off.
\* Room in a channel and the lock are given to those who wait for them in turn.
\* Nothing is expected of another client.
FairSpec ==
    /\ Spec
    /\ \A e \in Ends : WF_vars(~profile[e].foreign /\ Task(e))
    /\ \A q \in Requesters :
        /\ SF_vars(SendRequest(q)) /\ SF_vars(LockReceiver(q))
        /\ WF_vars(TakeReply(q) \/ GiveUp(q))

----------------------------------------------------------------------------
(* Properties *)

TypeOK ==
    /\ \A e \in Ends :
        /\ conn[e].at \in {"start", "ack", "send_ack", "send_hello", "hello", "channels",
                           "send_status", "status", "loop", "deliver", "failing", "done", "panicked"}
        /\ \A i \in DOMAIN stream[e] : stream[e][i].kind \in {"handshake", "header", "data", "mac"}
        /\ Len(replies[e]) <= Capacity
    /\ Len(requests) <= Capacity
    /\ holder \subseteq Requesters

Established(e) == conn[e].session # NoSession

\* Both ends derive the same keys from what each of them knows, and each checks
\* what it reads with the state with which the other one writes
SecretsAgree ==
    Established("initiator") /\ Established("receiver") =>
        /\ conn["initiator"].session.macKey = conn["receiver"].session.macKey
        /\ conn["initiator"].session.aesKey = conn["receiver"].session.aesKey
        /\ \A e \in Ends :
            /\ conn[e].session.remote = Local(Other(e)).node
            /\ conn[e].session.egressMac.seed = conn[Other(e)].session.ingressMac.seed
            /\ conn[e].session.egressMac.init = conn[Other(e)].session.ingressMac.init

IsPrefixOf(s, t) == Len(s) <= Len(t) /\ \A i \in DOMAIN s : s[i] = t[i]

\* What an end has taken in is what the other one wrote, from the start and
\* without a gap, however often select! drops a read half way: after a loss the
\* next MAC does not match, and nothing more is accepted
StreamsInStep ==
    \A e \in Ends :
        Established(e) /\ Established(Other(e)) =>
            IsPrefixOf(conn[e].session.ingressMac.log, conn[Other(e)].session.egressMac.log)

\* Messages of eth are handled only if both ends are on the same chain
SameChain ==
    \A e \in Ends :
        conn[e].at \in {"loop", "deliver"} /\ Eth \in caps[e] =>
            profile[e].chain = profile[Other(e)].chain

\* What two ends that talk agree on: the secrets, what has been said, and the chain
EndsAgree == TypeOK /\ SecretsAgree /\ StreamsInStep /\ SameChain

\* How often a message of a type and id has gone through a MAC
Times(mac, type, id) ==
    Cardinality({i \in DOMAIN mac.log :
        /\ mac.log[i].kind = "data"
        /\ mac.log[i].body.type = type /\ mac.log[i].body.id = id})

\* A request is written once, by a task that took it out of the channel, and is read,
\* answered and the answer taken in no more often than that, whatever reads select!
\* drops and whichever requester reads the channel; who got a reply got this one
ServedOnce ==
    Established("initiator") /\ Established("receiver") =>
        \A q \in Requesters :
            LET here == conn["initiator"].session
                there == conn["receiver"].session
                asked == Times(here.egressMac, "GetBlockHeaders", q)
                heard == Times(there.ingressMac, "GetBlockHeaders", q)
                answered == Times(there.egressMac, "BlockHeaders", q)
                taken == Times(here.ingressMac, "BlockHeaders", q)
            IN  /\ taken <= answered /\ answered <= heard /\ heard <= asked
                /\ asked <= IF requester[q] \in {"idle", "send"} THEN 0 ELSE 1
                /\ requester[q] = "ok" => taken = 1

\* When one end is gone the other one, if it runs this code, ends too, unless it
\* waits for room in a channel that nobody empties
EndsTogether ==
    \A e \in Ends :
        (Ended(e) /\ ~profile[Other(e)].foreign) ~>
            (Ended(Other(e)) \/ (conn[Other(e)].at = "deliver" /\ Len(replies[Other(e)]) = Capacity))

\* The task does not read the full channel of requests: it waits for the Status of a
\* peer, or for room in the channel of replies
Stuck ==
    /\ Len(requests) = Capacity
    /\ \/ conn["initiator"].at = "status"
       \/ conn["initiator"].at = "deliver" /\ Len(replies["initiator"]) = Capacity

\* Every request comes to an end, the send before it included, unless it waits for room
\* that a stuck task never makes: the lock is held no longer than the timeout
RequestsEnd ==
    \A q \in Requesters :
        requester[q] = "send" ~>
            (requester[q] \in {"ok", "none"} \/ [](requester[q] = "send" /\ Stuck))

\* The table's view of an end
LifeOf(e) ==
    IF ~Established(e) THEN "none"
    ELSE IF conn[e].at \in {"send_hello", "hello", "channels"} THEN "hello"
    ELSE IF conn[e].at \in {"failing", "done", "panicked"} THEN conn[e].at
    ELSE "open"

InitiatorLife == INSTANCE ConnectionLife WITH life <- LifeOf("initiator")
ReceiverLife == INSTANCE ConnectionLife WITH life <- LifeOf("receiver")

\* Both ends go through the states that Discovery gives a connection
LifeKept == InitiatorLife!Spec /\ ReceiverLife!Spec

\* What the code does not keep.  The assertions of frame::read hold ...
AssertionsHold == (\A e \in Ends : profile[e] = Ours) => \A e \in Ends : conn[e].at # "panicked"

\* ... a request is over after the timeout ...
RequestsTimeOut == \A q \in Requesters : requester[q] = "send" ~> requester[q] \in {"ok", "none"}

\* ... requesters and the task do not wait for each other to make room ...
NoMutualWait ==
    ~ /\ Stuck /\ conn["initiator"].at = "deliver"
      /\ \E q \in Requesters : requester[q] = "send"
      /\ \A q \in Requesters : requester[q] \notin {"lock", "wait"}

\* ... and nobody drops a reply that another requester waits for
RepliesKept ==
    [][\A q, p \in Requesters :
        /\ TakeReply(q) /\ p # q /\ requester[p] = "lock"
        => ~IsReply(p, Head(replies["initiator"]))]_vars

============================================================================
