----------------------------- MODULE RlpxProofs -----------------------------
(***************************************************************************)
(* The two ends of an RLPx connection, for every number of messages and    *)
(* requesters, every profile of the ends and every message a foreign end   *)
(* sends: they agree on the secrets, on what was said and on the chain,    *)
(* and each goes through the states that the table of peers sees.          *)
(*                                                                         *)
(* RlpxInv is inductive.  The secrets follow from what is in the streams   *)
(* while the ends shake hands.  That the ends are in step follows from the *)
(* MACs alone: each that is on its way, or was checked, is over a prefix   *)
(* of all that its writer has written.                                     *)
(***************************************************************************)
EXTENDS RlpxConnection, TLAPS

----------------------------------------------------------------------------
(* Types *)

AllProfiles == Profiles["initiator"] \cup Profiles["receiver"] \cup {Ours}

Messages ==
    [type : DOMAIN Code \cup ForeignTypes \cup {"none"}, id : Requesters \cup {0},
     info : {{}} \cup {p.caps : p \in AllProfiles} \cup {{p.chain} : p \in AllProfiles}]

\* Headers and data
Plain == [kind : {"header", "data"}, at : Nat, body : Messages]

\* What the initiator sends to the node it means, and what the receiver answers
AuthTo(target) ==
    EncodeAuthMessage(Local("initiator").node, Local("initiator").nonce, target,
                      Local("initiator").ephemeral)
Auth == AuthTo(Local("receiver").node)
Ack == EncodeAckMessage(Local("receiver").ephemeral, Local("receiver").nonce, Local("initiator").node)

InitOf(e) == IF e = "initiator" THEN Auth ELSE Ack

\* The session of an end that knows its peer
FreshOf(e) ==
    NewSession(Local(e), Local(Other(e)), InitOf(e), InitOf(Other(e)),
               <<Local("receiver").nonce, Local("initiator").nonce>>)

MacsOf(mac) == [seed : {mac.seed}, init : {mac.init}, log : Seq(Plain)]

SessionsOf(e) ==
    [remote : {FreshOf(e).remote}, macKey : {FreshOf(e).macKey}, aesKey : {FreshOf(e).aesKey},
     egressMac : MacsOf(FreshOf(e).egressMac), ingressMac : MacsOf(FreshOf(e).ingressMac),
     egressAes : Nat, ingressAes : Nat]

\* The blocks that an end writes
MacBlocks(e) == [kind : {"mac"}, at : {0}, body : MacsOf(FreshOf(e).egressMac)]
Ciphers == {AuthTo(p.target) : p \in AllProfiles} \cup {Ack}
Handshakes == [kind : {"handshake"}, at : {0}, body : Ciphers]
BlocksOf(e) == Plain \cup MacBlocks(e) \cup Handshakes

Places == {"start", "ack", "send_ack", "send_hello", "hello", "channels", "send_status",
           "status", "loop", "deliver", "failing", "done", "panicked"}
Meeting == {"start", "ack", "send_ack"}
Talking == {"send_hello", "hello", "channels", "send_status", "status", "loop", "deliver", "failing"}

ConnsOf(e) ==
    [at : Places, session : SessionsOf(e) \cup {NoSession},
     init : {<<>>} \cup {<<cipher>> : cipher \in Ciphers},
     peer : {<<>>, <<Local("initiator")>>}, peerInit : {<<>>, <<Auth>>},
     reading : {"header", "data"}, held : Messages, echo : {0, 1}]

TypeInv ==
    /\ DOMAIN conn = Ends /\ \A e \in Ends : conn[e] \in ConnsOf(e)
    /\ DOMAIN stream = Ends /\ \A e \in Ends : stream[e] \in Seq(BlocksOf(Other(e)))
    /\ profile \in [Ends -> AllProfiles]
    /\ DOMAIN caps = Ends

----------------------------------------------------------------------------
(* The invariant *)

\* Who is in which place, and when there is a session
PlaceOK(e) ==
    /\ conn[e].at \in Meeting => conn[e].session = NoSession
    /\ conn[e].at \in Talking => conn[e].session # NoSession
    /\ conn[e].at = "ack" => e = "initiator"
    /\ conn[e].at = "send_ack" => e = "receiver"

Meant == profile["initiator"].target

\* What the ends know of each other, and find in their streams, while they shake hands
HandshakeOK ==
    LET i == conn["initiator"]
        r == conn["receiver"]
        toI == stream["initiator"]
        toR == stream["receiver"]
    IN  /\ i.at = "start" => r.at = "start" /\ toI = <<>> /\ toR = <<>>
        /\ i.at = "ack" => i.init = <<AuthTo(Meant)>>
        /\ i.at = "ack" /\ r.session = NoSession => toI = <<>>
        /\ i.at = "ack" /\ r.session # NoSession =>
             toI # <<>> /\ toI[1] = Handshake(Ack) /\ Meant = Local("receiver").node
        /\ r.at = "start" => i.at \in {"start", "ack"}
        /\ r.at = "start" /\ toR # <<>> => toR[1] = Handshake(AuthTo(Meant))
        /\ r.at = "send_ack" =>
             r.peer = <<Local("initiator")>> /\ r.peerInit = <<Auth>> /\ Meant = Local("receiver").node

\* All that an end has written in frames
Said(e) == IF conn[e].session = NoSession THEN <<>> ELSE conn[e].session.egressMac.log

\* What was read, and every MAC on its way, is over a prefix of what was written
MacsOK(e) ==
    /\ conn[e].session # NoSession =>
         IsPrefixOf(conn[e].session.ingressMac.log, Said(Other(e)))
    /\ \A i \in DOMAIN stream[e] :
         stream[e][i].kind = "mac" => IsPrefixOf(stream[e][i].body.log, Said(Other(e)))

\* An end announces its own chain, or sends a Status that says nothing
StatusInfo(e) == {{}, {profile[e].chain}}
StatusOK(e) ==
    \A i \in DOMAIN Said(e) :
        Said(e)[i].body.type = "Status" => Said(e)[i].body.info \in StatusInfo(e)

\* The requesters and their channels
BackendOK ==
    /\ requests \in Seq(Requesters) /\ Len(requests) <= Capacity
    /\ DOMAIN replies = Ends
    /\ \A e \in Ends : replies[e] \in Seq(Messages) /\ Len(replies[e]) <= Capacity
    /\ holder \subseteq Requesters

RlpxInv ==
    /\ TypeInv
    /\ \A e \in Ends : PlaceOK(e) /\ MacsOK(e) /\ StatusOK(e)
    /\ HandshakeOK
    /\ SameChain
    /\ BackendOK

----------------------------------------------------------------------------
(* Ends, prefixes, blocks and sessions *)

\* The two ends
LEMMA TwoEnds ==
    ASSUME NEW e \in Ends
    PROVE  Other(e) \in Ends /\ Other(e) # e /\ Other(Other(e)) = e
           /\ \A f \in Ends : f = e \/ f = Other(e)
BY DEF Ends, Other

\* A sequence that grows keeps its prefixes
LEMMA PrefixGrows ==
    ASSUME NEW S, NEW s \in Seq(S), NEW t \in Seq(S), NEW u \in Seq(S), IsPrefixOf(s, t)
    PROVE  IsPrefixOf(s, t \o u)
<1>1. /\ Len(t \o u) = Len(t) + Len(u) /\ Len(s) \in Nat /\ Len(t) \in Nat /\ Len(u) \in Nat
      /\ \A i \in 1 .. Len(t) : (t \o u)[i] = t[i]
      /\ DOMAIN s = 1 .. Len(s)
  OBVIOUS
<1>2. Len(s) <= Len(t) /\ \A i \in DOMAIN s : s[i] = t[i]
  BY DEF IsPrefixOf
<1> DEFINE v == t \o u
<1> HIDE DEF v
<1>3. QED BY <1>1, <1>2 DEF IsPrefixOf, v

\* What is in the two parts of a sequence
LEMMA ConcatParts ==
    ASSUME NEW S, NEW t \in Seq(S), NEW u \in Seq(S), NEW i \in DOMAIN (t \o u)
    PROVE  \/ i \in DOMAIN t /\ (t \o u)[i] = t[i]
           \/ \E j \in DOMAIN u : (t \o u)[i] = u[j]
<1>1. Len(t) \in Nat /\ Len(u) \in Nat /\ DOMAIN t = 1 .. Len(t) /\ DOMAIN u = 1 .. Len(u)
  OBVIOUS
<1>2. i \in 1 .. Len(t) + Len(u)
  OBVIOUS
<1>3. CASE i <= Len(t)
  BY <1>1, <1>2, <1>3
<1>4. CASE i > Len(t)
  <2>1. i - Len(t) \in DOMAIN u
    BY <1>1, <1>2, <1>4
  <2>2. (t \o u)[i] = u[i - Len(t)]
    BY <1>1, <1>2, <1>4
  <2>3. QED BY <2>1, <2>2
<1>5. QED BY <1>1, <1>2, <1>3, <1>4

\* Two blocks, one after the other
LEMMA AppendTwice ==
    ASSUME NEW S, NEW s \in Seq(S), NEW a \in S, NEW b \in S
    PROVE  /\ Append(Append(s, a), b) = s \o <<a, b>>
           /\ IsPrefixOf(Append(s, a), s \o <<a, b>>)
           /\ IsPrefixOf(Append(Append(s, a), b), s \o <<a, b>>)
<1> DEFINE one == Append(s, a)
           two == Append(one, b)
           all == s \o <<a, b>>
<1>1. one \in Seq(S) /\ two \in Seq(S) /\ all \in Seq(S)
  OBVIOUS
<1>2. Len(one) = Len(s) + 1 /\ Len(two) = Len(s) + 2 /\ Len(all) = Len(s) + 2 /\ Len(s) \in Nat
  OBVIOUS
<1>3. \A i \in 1 .. Len(s) + 2 : two[i] = all[i]
  OBVIOUS
<1>4. \A i \in 1 .. Len(s) + 1 : one[i] = two[i]
  OBVIOUS
<1> HIDE DEF one, two, all
<1>5. two = all
  BY <1>1, <1>2, <1>3
<1>6. IsPrefixOf(one, two) /\ IsPrefixOf(two, two)
  BY <1>1, <1>2, <1>4 DEF IsPrefixOf
<1>7. QED BY <1>5, <1>6 DEF one, two, all

\* A message that stands for none is a message
LEMMA NoMessageType ==
    NoMessage \in Messages
BY DEF NoMessage, Messages

\* Every answer is a message that can be encoded
LEMMA ServedCoded == \A t \in DOMAIN Served : Served[t] \in DOMAIN Code
BY DEF Served, Code

\* What Established::new derives from the two ends
LEMMA SessionFields ==
    ASSUME NEW l, NEW r, NEW li, NEW ri, NEW n, NEW s, s = NewSession(l, r, li, ri, n)
    PROVE  /\ s.remote = r.node
           /\ s.aesKey = <<Ecdh(l.ephemeral, r.ephemeral), <<Ecdh(l.ephemeral, r.ephemeral), n>>>>
           /\ s.macKey = <<Ecdh(l.ephemeral, r.ephemeral), s.aesKey>>
           /\ s.egressMac.seed = <<s.macKey, r.nonce>> /\ s.egressMac.init = li
           /\ s.ingressMac.seed = <<s.macKey, l.nonce>> /\ s.ingressMac.init = ri
BY DEF NewSession

\* Update keeps seed and init, and adds the block to the log
LEMMA UpdateType ==
    ASSUME NEW mac, NEW m \in MacsOf(mac), NEW b \in Plain
    PROVE  /\ Update(m, b) \in MacsOf(mac)
           /\ Update(m, b).log = Append(m.log, b)
BY DEF MacsOf, Update

\* A session is not the lack of one
LEMMA SessionsReal ==
    ASSUME NEW e \in Ends, NEW s \in SessionsOf(e)
    PROVE  s # NoSession
<1>1. "macKey" \in DOMAIN s
  BY DEF SessionsOf
<1>2. "macKey" \notin DOMAIN <<>>
  OBVIOUS
<1>3. QED BY <1>1, <1>2 DEF NoSession

\* frame::write, for the session ...
LEMMA WrittenType ==
    ASSUME NEW e \in Ends, NEW s \in SessionsOf(e), NEW m \in Messages
    PROVE  /\ Written(s, m) \in SessionsOf(e)
           /\ Written(s, m).ingressMac = s.ingressMac
           /\ Header(s.egressAes) \in Plain /\ Data(s.egressAes + 1, m) \in Plain
           /\ Written(s, m).egressMac.log =
                s.egressMac.log \o <<Header(s.egressAes), Data(s.egressAes + 1, m)>>
<1> DEFINE h == Header(s.egressAes)
           d == Data(s.egressAes + 1, m)
           mac == s.egressMac
           after == Update(Update(mac, h), d)
<1>1. s.egressAes \in Nat /\ mac \in MacsOf(FreshOf(e).egressMac)
  BY DEF SessionsOf
<1>2. h \in Plain /\ d \in Plain
  BY <1>1, NoMessageType DEF Header, Data, Block, Plain
<1>3. Written(s, m) = [s EXCEPT !.egressAes = s.egressAes + 2, !.egressMac = after]
  BY DEF Written
<1> HIDE DEF h, d, mac
<1>4. /\ Update(mac, h) \in MacsOf(FreshOf(e).egressMac) /\ Update(mac, h).log = Append(mac.log, h)
      /\ after \in MacsOf(FreshOf(e).egressMac) /\ after.log = Append(Append(mac.log, h), d)
  BY Zenon, <1>1, <1>2, UpdateType
<1>5. mac.log \in Seq(Plain)
  BY <1>1 DEF MacsOf
<1>6. Append(Append(mac.log, h), d) = mac.log \o <<h, d>>
  BY <1>2, <1>5, AppendTwice
<1> HIDE DEF after
<1> DEFINE aes == s.egressAes + 2
<1>9. aes \in Nat
  BY <1>1
<1>10. Written(s, m) = [s EXCEPT !.egressAes = aes, !.egressMac = after]
  BY <1>3
<1> HIDE DEF aes
<1>7. /\ Written(s, m) \in SessionsOf(e) /\ Written(s, m).ingressMac = s.ingressMac
      /\ Written(s, m).egressMac = after
  BY Zenon, <1>4, <1>9, <1>10 DEF SessionsOf
<1>8. QED BY Zenon, <1>2, <1>4, <1>6, <1>7 DEF h, d, mac

\* ... and for the stream
LEMMA FrameType ==
    ASSUME NEW e \in Ends, NEW s \in SessionsOf(e), NEW m \in Messages
    PROVE  /\ Frame(s, m) \in Seq(BlocksOf(e))
           /\ \A i \in DOMAIN Frame(s, m) :
                Frame(s, m)[i].kind = "mac" =>
                  IsPrefixOf(Frame(s, m)[i].body.log, Written(s, m).egressMac.log)
<1> DEFINE h == Header(s.egressAes)
           d == Data(s.egressAes + 1, m)
           mac == s.egressMac
           one == Update(mac, h)
           two == Update(one, d)
           log == Written(s, m).egressMac.log
<1>1. mac \in MacsOf(FreshOf(e).egressMac)
  BY DEF SessionsOf
<1>2. h \in Plain /\ d \in Plain /\ log = mac.log \o <<h, d>>
  BY WrittenType
<1>3. Frame(s, m) = <<h, Block("mac", 0, one), d, Block("mac", 0, two)>>
  BY DEF Frame
<1>4. h.kind = "header" /\ d.kind = "data"
  BY DEF Header, Data, Block
<1> HIDE DEF h, d, mac, log
<1>5. /\ one \in MacsOf(FreshOf(e).egressMac) /\ one.log = Append(mac.log, h)
      /\ two \in MacsOf(FreshOf(e).egressMac) /\ two.log = Append(Append(mac.log, h), d)
  BY Zenon, <1>1, <1>2, UpdateType
<1> HIDE DEF one, two
<1>6. Block("mac", 0, one) \in BlocksOf(e) /\ Block("mac", 0, two) \in BlocksOf(e)
  BY <1>5 DEF Block, BlocksOf, MacBlocks
<1>7. h \in BlocksOf(e) /\ d \in BlocksOf(e)
  BY <1>2 DEF BlocksOf
<1>8. mac.log \in Seq(Plain)
  BY <1>1 DEF MacsOf
<1>9. IsPrefixOf(one.log, log) /\ IsPrefixOf(two.log, log)
  BY <1>2, <1>5, <1>8, AppendTwice
<1>10. Block("mac", 0, one).body = one /\ Block("mac", 0, two).body = two
  BY DEF Block
<1>11. DOMAIN Frame(s, m) = 1 .. 4 /\ Frame(s, m) \in Seq(BlocksOf(e))
  BY <1>3, <1>6, <1>7
<1>12. QED BY <1>3, <1>4, <1>9, <1>10, <1>11 DEF log

----------------------------------------------------------------------------
(* A step of an end that talks *)

\* The part of the invariant that is about the two ends
TalkInv ==
    /\ TypeInv
    /\ \A e \in Ends : PlaceOK(e) /\ MacsOK(e) /\ StatusOK(e)
    /\ HandshakeOK

\* What an end may become before it writes
Fits(e, c) ==
    /\ c \in ConnsOf(e) /\ c.at \in Talking /\ c.session \in SessionsOf(e)
    /\ c.session.egressMac = conn[e].session.egressMac
    /\ IsPrefixOf(c.session.ingressMac.log, Said(Other(e)))

\* What may be left of its stream
RestOK(e, rest) ==
    /\ rest \in Seq(BlocksOf(Other(e)))
    /\ \A i \in DOMAIN rest : \E j \in DOMAIN stream[e] : rest[i] = stream[e][j]

\* What it may write
Sayable(e, msgs) ==
    \/ msgs = <<>>
    \/ \E m \in Messages : msgs = <<m>> /\ (m.type = "Status" => m.info \in StatusInfo(e))

\* An end that talks has a session of its own
LEMMA SessionType ==
    ASSUME TalkInv, NEW e \in Ends, conn[e].session # NoSession
    PROVE  conn[e].session \in SessionsOf(e) /\ Said(e) = conn[e].session.egressMac.log
BY DEF TalkInv, TypeInv, ConnsOf, Said

\* What an end has said is a sequence of headers and data
LEMMA SaidType ==
    ASSUME TalkInv, NEW e \in Ends
    PROVE  Said(e) \in Seq(Plain)
<1>1. CASE conn[e].session = NoSession
  BY <1>1 DEF Said
<1>2. CASE conn[e].session # NoSession
  BY <1>2, SessionType DEF SessionsOf, MacsOf
<1>3. QED BY <1>1, <1>2

\* The end after a step, without its message and with it
LEMMA GoesSession ==
    ASSUME TalkInv, NEW e \in Ends, conn[e].session # NoSession,
           NEW c, NEW rest, NEW msgs, Fits(e, c), Sayable(e, msgs), Goes(e, c, rest, msgs),
           profile' = profile
    PROVE  /\ conn'[e] \in ConnsOf(e) /\ conn'[e].at = c.at
           /\ conn'[e].session \in SessionsOf(e)
           /\ conn'[e].session.ingressMac = c.session.ingressMac
           /\ \A s \in Seq(Plain) : IsPrefixOf(s, Said(e)) => IsPrefixOf(s, Said(e)')
           /\ StatusOK(e)'
           /\ conn' = [conn EXCEPT ![e] = conn'[e]]
           /\ DOMAIN conn' = Ends
<1>1. DOMAIN conn = Ends /\ c \in ConnsOf(e) /\ c.session \in SessionsOf(e)
  BY DEF TalkInv, TypeInv, Fits
<1>2. Said(e) = c.session.egressMac.log /\ Said(e) \in Seq(Plain)
  BY SessionType, SaidType DEF Fits
<1>3. StatusInfo(e)' = StatusInfo(e)
  BY DEF StatusInfo
<1>4. StatusOK(e)
  BY DEF TalkInv
<1>5. CASE msgs = <<>>
  <2>1. conn' = [conn EXCEPT ![e] = c]
    BY <1>5 DEF Goes
  <2>2. conn'[e] = c
    BY <1>1, <2>1
  <2>3. Said(e)' = Said(e)
    BY <1>1, <1>2, <2>2, SessionsReal DEF Said
  <2>4. StatusOK(e)'
    BY <1>3, <1>4, <2>3 DEF StatusOK
  <2>5. QED BY <1>1, <2>1, <2>2, <2>3, <2>4
<1>6. ASSUME NEW m \in Messages, msgs = <<m>>, m.type = "Status" => m.info \in StatusInfo(e)
      PROVE  /\ conn'[e] \in ConnsOf(e) /\ conn'[e].at = c.at
             /\ conn'[e].session \in SessionsOf(e)
             /\ conn'[e].session.ingressMac = c.session.ingressMac
             /\ \A s \in Seq(Plain) : IsPrefixOf(s, Said(e)) => IsPrefixOf(s, Said(e)')
             /\ StatusOK(e)'
             /\ conn' = [conn EXCEPT ![e] = conn'[e]]
             /\ DOMAIN conn' = Ends
  <2> DEFINE w == Written(c.session, m)
             h == Header(c.session.egressAes)
             d == Data(c.session.egressAes + 1, m)
             k == [c EXCEPT !.session = w]
  <2>1. msgs # <<>> /\ msgs[1] = m
    BY <1>6
  <2>2. conn' = [conn EXCEPT ![e] = k]
    BY <2>1 DEF Goes
  <2>3. conn'[e] = k
    BY Zenon, <1>1, <2>2
  <2>4. /\ w \in SessionsOf(e) /\ w.ingressMac = c.session.ingressMac
        /\ h \in Plain /\ d \in Plain /\ w.egressMac.log = Said(e) \o <<h, d>>
    <3>1. /\ Written(c.session, m) \in SessionsOf(e)
          /\ Written(c.session, m).ingressMac = c.session.ingressMac
          /\ Header(c.session.egressAes) \in Plain /\ Data(c.session.egressAes + 1, m) \in Plain
          /\ Written(c.session, m).egressMac.log = c.session.egressMac.log \o
               <<Header(c.session.egressAes), Data(c.session.egressAes + 1, m)>>
      BY Zenon, <1>1, WrittenType
    <3>2. QED BY Zenon, <1>2, <3>1
  <2>5. h.body = NoMessage /\ d.body = m
    BY DEF Header, Data, Block
  <2> HIDE DEF w, h, d
  <2>6. k \in ConnsOf(e) /\ k.at = c.at /\ k.session = w
    BY Zenon, <1>1, <2>4 DEF ConnsOf
  <2> HIDE DEF k
  <2>7. Said(e)' = Said(e) \o <<h, d>>
    BY Zenon, <2>3, <2>4, <2>6, SessionsReal DEF Said
  <2>8. <<h, d>> \in Seq(Plain)
    BY <2>4
  <2>9. \A s \in Seq(Plain) : IsPrefixOf(s, Said(e)) => IsPrefixOf(s, Said(e)')
    BY Zenon, <1>2, <2>7, <2>8, PrefixGrows
  <2>10. StatusOK(e)'
    <3> DEFINE t == Said(e)
               u == Said(e)'
    <3>0. DOMAIN <<h, d>> = {1, 2} /\ <<h, d>>[1] = h /\ <<h, d>>[2] = d
      OBVIOUS
    <3>1. ASSUME NEW i \in DOMAIN u PROVE (i \in DOMAIN t /\ u[i] = t[i]) \/ u[i] = h \/ u[i] = d
      <4> DEFINE v == <<h, d>>
      <4>1. t \in Seq(Plain) /\ v \in Seq(Plain) /\ u = t \o v
        BY <1>2, <2>7, <2>8
      <4>2. DOMAIN v = {1, 2} /\ v[1] = h /\ v[2] = d
        BY <3>0
      <4> HIDE DEF t, u, v
      <4>3. i \in DOMAIN (t \o v)
        BY <3>1, <4>1
      <4>4. \/ i \in DOMAIN t /\ (t \o v)[i] = t[i]
            \/ \E j \in DOMAIN v : (t \o v)[i] = v[j]
        BY <4>1, <4>3, ConcatParts
      <4>5. QED BY <4>1, <4>2, <4>4
    <3>2. h.body.type # "Status"
      BY <2>5 DEF NoMessage
    <3>3. ASSUME NEW i \in DOMAIN u, u[i].body.type = "Status" PROVE u[i].body.info \in StatusInfo(e)
      BY <1>4, <1>6, <2>5, <3>1, <3>2, <3>3 DEF StatusOK
    <3>4. QED BY <1>3, <3>3 DEF StatusOK
  <2>11. DOMAIN conn' = Ends /\ conn' = [conn EXCEPT ![e] = conn'[e]]
    BY Zenon, <1>1, <2>2, <2>3
  <2>12. QED BY <2>3, <2>4, <2>6, <2>9, <2>10, <2>11
<1>7. QED BY <1>5, <1>6 DEF Sayable

\* The streams after a step: what is in them is still over a prefix of what was said
LEMMA GoesStream ==
    ASSUME TalkInv, NEW e \in Ends, conn[e].session # NoSession,
           NEW c, NEW rest, NEW msgs, Fits(e, c), RestOK(e, rest), Sayable(e, msgs),
           Goes(e, c, rest, msgs), profile' = profile
    PROVE  /\ DOMAIN stream' = Ends
           /\ stream'[e] = rest
           /\ stream'[Other(e)] \in Seq(BlocksOf(e))
           /\ stream[Other(e)] # <<>> =>
                stream'[Other(e)] # <<>> /\ stream'[Other(e)][1] = stream[Other(e)][1]
           /\ \A i \in DOMAIN stream'[Other(e)] :
                stream'[Other(e)][i].kind = "mac" => IsPrefixOf(stream'[Other(e)][i].body.log, Said(e)')
<1> DEFINE o == Other(e)
           old == stream[o]
           new == stream'[o]
<1>1. o \in Ends /\ o # e /\ Other(o) = e
  BY Zenon, TwoEnds
<1>2. DOMAIN stream = Ends /\ old \in Seq(BlocksOf(e)) /\ c.session \in SessionsOf(e)
  BY <1>1 DEF TalkInv, TypeInv, Fits
<1>3. stream' = [stream EXCEPT ![e] = rest,
                               ![o] = IF msgs = <<>> \/ Ended(o) THEN @
                                      ELSE @ \o Frame(c.session, msgs[1])]
  BY DEF Goes
<1>4. DOMAIN stream' = Ends /\ stream'[e] = rest
      /\ new = IF msgs = <<>> \/ Ended(o) THEN old ELSE old \o Frame(c.session, msgs[1])
  BY <1>1, <1>2, <1>3
<1>5. \A s \in Seq(Plain) : IsPrefixOf(s, Said(e)) => IsPrefixOf(s, Said(e)')
  BY GoesSession
<1>6. ASSUME NEW i \in DOMAIN old, old[i].kind = "mac" PROVE IsPrefixOf(old[i].body.log, Said(e)')
  <2>1. old[i] \in BlocksOf(e) /\ IsPrefixOf(old[i].body.log, Said(e))
    BY <1>1, <1>2, <1>6 DEF TalkInv, MacsOK
  <2>2. old[i].body.log \in Seq(Plain)
    BY Zenon, <1>6, <2>1 DEF BlocksOf, Plain, Handshakes, MacBlocks, MacsOf
  <2>3. QED BY <1>5, <2>1, <2>2
<1>7. CASE new = old
  BY Zenon, <1>2, <1>4, <1>6, <1>7
<1>8. ASSUME NEW m \in Messages, msgs = <<m>>, new = old \o Frame(c.session, msgs[1])
      PROVE  /\ new \in Seq(BlocksOf(e))
             /\ old # <<>> => new # <<>> /\ new[1] = old[1]
             /\ \A i \in DOMAIN new : new[i].kind = "mac" => IsPrefixOf(new[i].body.log, Said(e)')
  <2> DEFINE f == Frame(c.session, m)
  <2>1. msgs[1] = m /\ msgs # <<>>
    BY <1>8
  <2>2. /\ f \in Seq(BlocksOf(e))
        /\ \A i \in DOMAIN f : f[i].kind = "mac" =>
             IsPrefixOf(f[i].body.log, Written(c.session, m).egressMac.log)
    BY <1>2, FrameType
  <2>3. Said(e)' = Written(c.session, m).egressMac.log
    <3>1. Written(c.session, m) \in SessionsOf(e) /\ DOMAIN conn = Ends
      BY Zenon, <1>2, WrittenType DEF TalkInv, TypeInv
    <3>2. conn'[e] = [c EXCEPT !.session = Written(c.session, m)]
      BY <2>1, <3>1 DEF Goes
    <3>3. conn'[e].session = Written(c.session, m)
      BY <3>2 DEF Fits, ConnsOf
    <3>4. QED BY <3>1, <3>3, SessionsReal DEF Said
  <2>4. new = old \o f
    BY Zenon, <1>8, <2>1
  <2> HIDE DEF f, old, new
  <2>5. new \in Seq(BlocksOf(e)) /\ (old # <<>> => new # <<>> /\ new[1] = old[1])
    BY <1>2, <2>2, <2>4
  <2>6. ASSUME NEW i \in DOMAIN new, new[i].kind = "mac" PROVE IsPrefixOf(new[i].body.log, Said(e)')
    <3>1. i \in DOMAIN (old \o f)
      BY <2>4, <2>6
    <3>2. (i \in DOMAIN old /\ new[i] = old[i]) \/ \E j \in DOMAIN f : new[i] = f[j]
      BY <1>2, <2>2, <2>4, <3>1, ConcatParts
    <3>3. QED BY <1>6, <2>2, <2>3, <2>6, <3>2
  <2>7. QED BY <2>5, <2>6
<1>9. QED BY Zenon, <1>1, <1>4, <1>7, <1>8 DEF Sayable

\* A step of an end that talks keeps what the ends know of each other
LEMMA GoesKeeps ==
    ASSUME TalkInv, NEW e \in Ends, conn[e].at \in Talking,
           NEW c, NEW rest, NEW msgs, Fits(e, c), RestOK(e, rest), Sayable(e, msgs),
           Goes(e, c, rest, msgs), profile' = profile, DOMAIN caps' = Ends
    PROVE  /\ TalkInv'
           /\ conn'[e].at = c.at /\ conn'[e].session # NoSession
           /\ conn'[Other(e)] = conn[Other(e)]
<1> DEFINE o == Other(e)
<1>1. o \in Ends /\ o # e /\ Other(o) = e /\ \A f \in Ends : f = e \/ f = o
  BY TwoEnds
<1>2. conn[e].session # NoSession
  BY DEF TalkInv, PlaceOK
<1>3. /\ conn'[e] \in ConnsOf(e) /\ conn'[e].at = c.at /\ conn'[e].session \in SessionsOf(e)
      /\ conn'[e].session.ingressMac = c.session.ingressMac
      /\ \A s \in Seq(Plain) : IsPrefixOf(s, Said(e)) => IsPrefixOf(s, Said(e)')
      /\ StatusOK(e)'
      /\ conn' = [conn EXCEPT ![e] = conn'[e]] /\ DOMAIN conn' = Ends
  BY <1>2, GoesSession
<1>4. conn'[o] = conn[o]
  BY <1>1, <1>3
<1>5. conn'[e].session # NoSession
  BY Zenon, <1>3, SessionsReal
<1>6. /\ DOMAIN stream' = Ends /\ stream'[e] = rest /\ stream'[o] \in Seq(BlocksOf(e))
      /\ stream[o] # <<>> => stream'[o] # <<>> /\ stream'[o][1] = stream[o][1]
      /\ \A i \in DOMAIN stream'[o] :
           stream'[o][i].kind = "mac" => IsPrefixOf(stream'[o][i].body.log, Said(e)')
  BY <1>2, GoesStream
<1>7. Said(o)' = Said(o)
  BY Zenon, <1>4 DEF Said
<1>8. TypeInv'
  <2>1. TypeInv
    BY DEF TalkInv
  <2>2. conn'[o] \in ConnsOf(o) /\ profile' \in [Ends -> AllProfiles]
    BY <1>1, <1>4, <2>1 DEF TypeInv
  <2>3. stream'[e] \in Seq(BlocksOf(o))
    BY Zenon, <1>6 DEF RestOK
  <2>4. \A f \in Ends : conn'[f] \in ConnsOf(f)
    BY Zenon, <1>1, <1>3, <2>2
  <2>5. \A f \in Ends : stream'[f] \in Seq(BlocksOf(Other(f)))
    BY <1>1, <1>6, <2>3
  <2>6. QED BY Zenon, <1>3, <1>6, <2>2, <2>4, <2>5 DEF TypeInv
<1>9. PlaceOK(e)' /\ PlaceOK(o)'
  <2>1. c.at \in Talking
    BY DEF Fits
  <2>2. PlaceOK(e)'
    BY Zenon, <1>3, <1>5, <2>1 DEF PlaceOK, Talking, Meeting
  <2>3. PlaceOK(o)'
    BY <1>1, <1>4 DEF TalkInv, PlaceOK
  <2>4. QED BY <2>2, <2>3
<1>10. MacsOK(e)'
  <2>1. IsPrefixOf(conn'[e].session.ingressMac.log, Said(o)')
    BY <1>3, <1>7 DEF Fits
  <2>2. ASSUME NEW i \in DOMAIN rest, rest[i].kind = "mac" PROVE IsPrefixOf(rest[i].body.log, Said(o))
    BY Zenon, <2>2 DEF RestOK, TalkInv, MacsOK
  <2>3. QED BY <1>6, <1>7, <2>1, <2>2 DEF MacsOK
<1>11. MacsOK(o)'
  <2>1. ASSUME conn[o].session # NoSession
        PROVE  IsPrefixOf(conn[o].session.ingressMac.log, Said(e)')
    <3>1. IsPrefixOf(conn[o].session.ingressMac.log, Said(e))
      BY Zenon, <1>1, <2>1 DEF TalkInv, MacsOK
    <3>2. conn[o].session.ingressMac.log \in Seq(Plain)
      BY <1>1, <2>1, SessionType DEF SessionsOf, MacsOf
    <3>3. QED BY <1>3, <3>1, <3>2
  <2>2. QED BY <1>1, <1>4, <1>6, <2>1 DEF MacsOK
<1>12. StatusOK(o)'
  <2>1. StatusOK(o)
    BY <1>1 DEF TalkInv
  <2>2. StatusInfo(o)' = StatusInfo(o)
    BY DEF StatusInfo
  <2>3. QED BY <1>7, <2>1, <2>2 DEF StatusOK
<1>13. HandshakeOK'
  <2>1. HandshakeOK /\ Meant' = Meant /\ c.at \in Talking
    BY DEF TalkInv, Meant, Fits
  <2>2. c.at \notin Meeting /\ conn[e].at \notin Meeting
    BY Zenon, <2>1 DEF Talking, Meeting
  <2>3. CASE e = "initiator"
    <3>1. o = "receiver"
      BY Zenon, <2>3 DEF Other
    <3>2. conn["receiver"].at # "start"
      BY Zenon, <2>1, <2>2, <2>3 DEF HandshakeOK, Meeting
    <3>3. QED BY <1>3, <1>4, <2>1, <2>2, <2>3, <3>1, <3>2 DEF HandshakeOK, Meeting
  <2>4. CASE e = "receiver"
    <3>1. o = "initiator"
      BY <2>4 DEF Other
    <3>2. conn["initiator"].at # "start"
      BY <2>1, <2>2, <2>4 DEF HandshakeOK, Meeting
    <3>3. QED BY <1>2, <1>3, <1>4, <1>5, <1>6, <2>1, <2>2, <2>4, <3>1, <3>2 DEF HandshakeOK, Meeting
  <2>5. QED BY <2>3, <2>4 DEF Ends
<1>14. QED BY Zenon, <1>1, <1>3, <1>4, <1>5, <1>8, <1>9, <1>10, <1>11, <1>12, <1>13 DEF TalkInv

\* The rest of a stream, after a step that takes something out of it or nothing
LEMMA RestTypes ==
    ASSUME TalkInv, NEW e \in Ends
    PROVE  /\ RestOK(e, stream[e])
           /\ stream[e] # <<>> => RestOK(e, Tail(stream[e]))
           /\ Len(stream[e]) >= 2 => RestOK(e, SubSeq(stream[e], 3, Len(stream[e])))
<1> DEFINE s == stream[e]
           B == BlocksOf(Other(e))
<1>1. s \in Seq(B)
  BY DEF TalkInv, TypeInv
<1> HIDE DEF B
<1>2. RestOK(e, s)
  BY <1>1 DEF RestOK, B
<1>3. ASSUME s # <<>> PROVE RestOK(e, Tail(s))
  <2>1. Tail(s) \in Seq(B) /\ \A i \in DOMAIN Tail(s) : i + 1 \in DOMAIN s /\ Tail(s)[i] = s[i + 1]
    BY <1>1, <1>3
  <2>2. QED BY <2>1 DEF RestOK, B
<1>4. ASSUME Len(s) >= 2 PROVE RestOK(e, SubSeq(s, 3, Len(s)))
  <2> DEFINE r == SubSeq(s, 3, Len(s))
  <2>1. r \in Seq(B) /\ \A i \in DOMAIN r : i + 2 \in DOMAIN s /\ r[i] = s[i + 2]
    BY <1>1, <1>4
  <2>2. QED BY <2>1 DEF RestOK, B
<1>5. QED BY <1>2, <1>3, <1>4

\* An end that goes elsewhere without a word: an assertion, the end of peer_conn_failed,
\* set_channels, or the other end gone before the handshake is over
LEMMA StopKeeps ==
    ASSUME TalkInv, NEW e \in Ends, NEW place \in Talking \cup {"done", "panicked"},
           \/ conn[e].at \in Talking
           \/ /\ place \notin Talking
              /\ \/ e = "receiver" /\ conn[e].at = "start" /\ stream[e] # <<>>
                 \/ e = "initiator" /\ conn[e].at = "ack" /\ Ended("receiver"),
           conn' = [conn EXCEPT ![e].at = place], DOMAIN stream' = Ends,
           stream'[Other(e)] = stream[Other(e)], RestOK(e, stream'[e]),
           profile' = profile, DOMAIN caps' = Ends
    PROVE  /\ TalkInv'
           /\ conn'[e].at = place /\ conn'[e].session = conn[e].session
           /\ conn'[Other(e)] = conn[Other(e)]
<1> DEFINE o == Other(e)
<1>1. o \in Ends /\ o # e /\ Other(o) = e /\ \A f \in Ends : f = e \/ f = o
  BY TwoEnds
<1>2. TypeInv /\ DOMAIN conn = Ends /\ DOMAIN stream = Ends /\ conn[e] \in ConnsOf(e)
  BY DEF TalkInv, TypeInv
<1>3. /\ conn'[e] \in ConnsOf(e) /\ conn'[e].at = place /\ conn'[e].session = conn[e].session
      /\ DOMAIN conn' = Ends
  BY <1>2 DEF ConnsOf, Places, Talking
<1>4. conn'[o] = conn[o]
  BY <1>1, <1>2
<1>5. Said(e)' = Said(e) /\ Said(o)' = Said(o)
  BY <1>3, <1>4 DEF Said
<1>6. TypeInv'
  <2>1. conn'[o] \in ConnsOf(o) /\ profile' \in [Ends -> AllProfiles]
        /\ stream'[o] \in Seq(BlocksOf(e)) /\ stream'[e] \in Seq(BlocksOf(o))
    BY <1>1, <1>2, <1>4 DEF TypeInv, RestOK
  <2>2. \A f \in Ends : conn'[f] \in ConnsOf(f) /\ stream'[f] \in Seq(BlocksOf(Other(f)))
    BY <1>1, <1>3, <2>1
  <2>3. QED BY <1>3, <1>4, <2>1, <2>2 DEF TypeInv
<1>7. PlaceOK(e)' /\ PlaceOK(o)'
  <2>1. PlaceOK(e) /\ PlaceOK(o)
    BY <1>1 DEF TalkInv
  <2>2. place \notin Meeting
    BY DEF Talking, Meeting
  <2>3. QED BY <1>3, <1>4, <2>1, <2>2 DEF PlaceOK, Meeting
<1>8. MacsOK(e)' /\ MacsOK(o)'
  <2>1. MacsOK(e) /\ MacsOK(o)
    BY <1>1 DEF TalkInv
  <2>2. MacsOK(e)'
    BY <1>3, <1>5, <2>1 DEF MacsOK, RestOK
  <2>3. MacsOK(o)'
    BY <1>1, <1>4, <1>5, <2>1 DEF MacsOK
  <2>4. QED BY <2>2, <2>3
<1>9. StatusOK(e)' /\ StatusOK(o)'
  <2>1. StatusOK(e) /\ StatusOK(o) /\ StatusInfo(e)' = StatusInfo(e) /\ StatusInfo(o)' = StatusInfo(o)
    BY <1>1 DEF TalkInv, StatusInfo
  <2>2. QED BY <1>5, <2>1 DEF StatusOK
<1>10. HandshakeOK'
  <2>1. HandshakeOK /\ Meant' = Meant /\ place \notin Meeting
    BY DEF TalkInv, Meant, Talking, Meeting
  <2>2. CASE e = "initiator"
    <3>1. o = "receiver"
      BY <2>2 DEF Other
    <3>2. conn["receiver"].at # "start"
      BY <2>1, <2>2 DEF HandshakeOK, Talking, Ended
    <3>3. QED BY <1>3, <1>4, <2>1, <2>2, <3>1, <3>2 DEF HandshakeOK, Meeting
  <2>3. CASE e = "receiver"
    <3>1. o = "initiator"
      BY <2>3 DEF Other
    <3>2. conn["initiator"].at # "start"
      BY <2>1, <2>3 DEF HandshakeOK, Talking
    <3>3. QED BY <1>3, <1>4, <2>1, <2>3, <3>1, <3>2 DEF HandshakeOK, Meeting
  <2>4. QED BY <2>2, <2>3 DEF Ends
<1>11. QED BY <1>1, <1>3, <1>4, <1>6, <1>7, <1>8, <1>9, <1>10 DEF TalkInv

----------------------------------------------------------------------------
(* The places of an end, and what the table of peers sees of them *)

LifeAt(place) ==
    IF place \in {"send_hello", "hello", "channels"} THEN "hello"
    ELSE IF place \in {"failing", "done", "panicked"} THEN place
    ELSE "open"

\* The steps of ConnectionLife, and stuttering
Moves(e) ==
    \/ LifeOf(e)' = LifeOf(e)
    \/ LifeOf(e) = "none" /\ LifeOf(e)' = "hello"
    \/ LifeOf(e) = "hello" /\ LifeOf(e)' = "open"
    \/ LifeOf(e) \in {"hello", "open"} /\ LifeOf(e)' \in {"failing", "panicked"}
    \/ LifeOf(e) = "failing" /\ LifeOf(e)' = "done"

\* An end goes on, or to a later state
Onward(from, to) ==
    \/ LifeAt(to) = LifeAt(from)
    \/ LifeAt(from) = "hello" /\ LifeAt(to) = "open"
    \/ LifeAt(from) \in {"hello", "open"} /\ to \in {"failing", "panicked"}
    \/ from = "failing" /\ to = "done"

\* What every step of an end keeps
Kept(e) ==
    /\ TalkInv' /\ SameChain'
    /\ conn'[Other(e)] = conn[Other(e)] /\ Moves(e)

\* On the same chain when messages of eth are handled
OnChain(e, place) ==
    place \in {"loop", "deliver"} /\ Eth \in caps'[e] => profile[e].chain = profile[Other(e)].chain

\* The states of an end with a session
LEMMA LifeMoves ==
    ASSUME NEW e \in Ends, conn[e].session # NoSession, conn'[e].session # NoSession,
           Onward(conn[e].at, conn'[e].at)
    PROVE  Moves(e)
<1>1. LifeOf(e) = LifeAt(conn[e].at) /\ LifeOf(e)' = LifeAt(conn'[e].at)
  BY DEF LifeOf, LifeAt, Established
<1>2. conn'[e].at \in {"failing", "panicked"} => LifeAt(conn'[e].at) = conn'[e].at
  BY DEF LifeAt
<1>3. conn[e].at = "failing" => LifeAt(conn[e].at) = "failing"
  BY DEF LifeAt
<1>4. conn'[e].at = "done" => LifeAt(conn'[e].at) = "done"
  BY DEF LifeAt
<1>5. QED BY <1>1, <1>2, <1>3, <1>4 DEF Onward, Moves

\* The chain of an end matters to its own place only
LEMMA ChainKept ==
    ASSUME SameChain, NEW e \in Ends, conn'[Other(e)] = conn[Other(e)],
           profile' = profile, caps'[Other(e)] = caps[Other(e)], OnChain(e, conn'[e].at)
    PROVE  SameChain'
<1>1. Other(e) \in Ends /\ \A f \in Ends : f = e \/ f = Other(e)
  BY TwoEnds
<1>2. QED BY <1>1 DEF SameChain, OnChain

\* peer_conn_failed writes a Disconnect
LEMMA DisconnectSayable ==
    ASSUME NEW e \in Ends
    PROVE  Sayable(e, <<Message("Disconnect", 0, {})>>)
<1>1. Message("Disconnect", 0, {}) \in Messages /\ Message("Disconnect", 0, {}).type = "Disconnect"
  BY Zenon DEF Message, Messages, Code
<1>2. QED BY Zenon, <1>1 DEF Sayable

\* A step of an end that talks: it goes on, or fails
LEMMA StepKeeps ==
    ASSUME RlpxInv, NEW e \in Ends, conn[e].at \in Talking, conn[e].at # "failing",
           NEW c, NEW rest, NEW msgs, Fits(e, c), RestOK(e, rest), Sayable(e, msgs),
           Onward(conn[e].at, c.at), OnChain(e, c.at),
           Sends(e, c, rest, msgs) \/ Fails(e, c, rest),
           profile' = profile, DOMAIN caps' = Ends, caps'[Other(e)] = caps[Other(e)]
    PROVE  Kept(e)
<1>1. TalkInv /\ SameChain /\ conn[e].session # NoSession
  BY Zenon DEF RlpxInv, TalkInv, PlaceOK
<1>2. c.session # NoSession
  BY Zenon, SessionsReal DEF Fits
<1>3. CASE Goes(e, c, rest, msgs)
  <2>1. /\ TalkInv' /\ conn'[e].at = c.at /\ conn'[e].session # NoSession
        /\ conn'[Other(e)] = conn[Other(e)]
    BY Zenon, <1>1, <1>3, GoesKeeps
  <2>2. SameChain' /\ Moves(e)
    BY Zenon, <1>1, <2>1, ChainKept, LifeMoves
  <2>3. QED BY Zenon, <2>1, <2>2 DEF Kept
<1>4. CASE Fails(e, c, rest)
  <2> DEFINE f == [c EXCEPT !.at = "failing"]
             msg == Message("Disconnect", 0, {})
  <2>1. Goes(e, f, rest, <<msg>>)
    BY <1>2, <1>4 DEF Fails
  <2>2. f \in ConnsOf(e) /\ f.at = "failing" /\ f.session = c.session
    BY DEF Fits, ConnsOf, Places
  <2>3. Fits(e, f)
    BY Zenon, <2>2 DEF Fits, Talking
  <2>4. Sayable(e, <<msg>>)
    BY Zenon, DisconnectSayable
  <2> HIDE DEF f, msg
  <2>5. /\ TalkInv' /\ conn'[e].at = "failing" /\ conn'[e].session # NoSession
        /\ conn'[Other(e)] = conn[Other(e)]
    BY Zenon, <1>1, <2>1, <2>2, <2>3, <2>4, GoesKeeps
  <2>6. LifeAt(conn[e].at) \in {"hello", "open"}
    BY Zenon DEF LifeAt, Talking
  <2>7. OnChain(e, "failing") /\ Onward(conn[e].at, "failing")
    BY Zenon, <2>6 DEF OnChain, Onward
  <2>8. SameChain' /\ Moves(e)
    BY <1>1, <2>5, <2>7, ChainKept, LifeMoves
  <2>9. QED BY <2>5, <2>8 DEF Kept
<1>5. QED BY Zenon, <1>3, <1>4 DEF Sends

\* An end that talks goes elsewhere without a word
LEMMA TalkStops ==
    ASSUME RlpxInv, NEW e \in Ends, NEW place \in Talking \cup {"done", "panicked"},
           conn[e].at \in Talking, Onward(conn[e].at, place), OnChain(e, place),
           conn' = [conn EXCEPT ![e].at = place],
           stream' = stream \/ stream' = [stream EXCEPT ![e] = <<>>],
           profile' = profile, caps' = caps
    PROVE  Kept(e)
<1>1. TalkInv /\ SameChain /\ conn[e].session # NoSession /\ DOMAIN caps' = Ends
  BY DEF RlpxInv, TalkInv, PlaceOK, TypeInv
<1>2. /\ TalkInv' /\ conn'[e].at = place /\ conn'[e].session = conn[e].session
      /\ conn'[Other(e)] = conn[Other(e)]
  <2>1. DOMAIN stream = Ends /\ Other(e) \in Ends /\ Other(e) # e
    BY <1>1, TwoEnds DEF TalkInv, TypeInv
  <2>2. DOMAIN stream' = Ends /\ stream'[Other(e)] = stream[Other(e)] /\ stream'[e] \in {stream[e], <<>>}
    BY <2>1
  <2>3. RestOK(e, <<>>)
    BY DEF RestOK
  <2>4. RestOK(e, stream'[e])
    BY <1>1, <2>2, <2>3, RestTypes
  <2>5. QED BY Zenon, <1>1, <2>2, <2>4, StopKeeps
<1>4. SameChain' /\ Moves(e)
  BY <1>1, <1>2, ChainKept, LifeMoves
<1>5. QED BY <1>2, <1>4 DEF Kept

----------------------------------------------------------------------------
(* The handshake *)

\* A session that has neither written nor read
LEMMA FreshType ==
    ASSUME NEW e \in Ends
    PROVE  /\ FreshOf(e) \in SessionsOf(e)
           /\ FreshOf(e).egressMac.log = <<>> /\ FreshOf(e).ingressMac.log = <<>>
<1> DEFINE new == FreshOf(e)
<1>1. /\ DOMAIN new = {"remote", "macKey", "aesKey", "egressMac", "ingressMac", "egressAes", "ingressAes"}
      /\ new = [remote |-> new.remote, macKey |-> new.macKey, aesKey |-> new.aesKey,
                egressMac |-> new.egressMac, ingressMac |-> new.ingressMac,
                egressAes |-> 0, ingressAes |-> 0]
      /\ new.egressMac = [seed |-> new.egressMac.seed, init |-> new.egressMac.init, log |-> <<>>]
      /\ new.ingressMac = [seed |-> new.ingressMac.seed, init |-> new.ingressMac.init, log |-> <<>>]
  BY Zenon DEF FreshOf, NewSession
<1> HIDE DEF new
<1>2. <<>> \in Seq(Plain)
  OBVIOUS
<1>3. new.egressMac \in MacsOf(new.egressMac) /\ new.ingressMac \in MacsOf(new.ingressMac)
  <2>1. ASSUME NEW a, NEW b PROVE [seed |-> a, init |-> b, log |-> <<>>] \in
          [seed : {a}, init : {b}, log : Seq(Plain)]
    BY <1>2
  <2>2. ASSUME NEW m, m = [seed |-> m.seed, init |-> m.init, log |-> <<>>] PROVE m \in MacsOf(m)
    BY Zenon, <2>1, <2>2 DEF MacsOf
  <2>3. QED BY <1>1, <2>2
<1>4. new.egressMac.log = <<>> /\ new.ingressMac.log = <<>>
  BY <1>1
<1>5. new \in [remote : {new.remote}, macKey : {new.macKey}, aesKey : {new.aesKey},
               egressMac : MacsOf(new.egressMac), ingressMac : MacsOf(new.ingressMac),
               egressAes : Nat, ingressAes : Nat]
  BY <1>1, <1>3
<1>6. QED BY <1>4, <1>5 DEF SessionsOf, new

\* A step of the handshake changes nothing that was said
LEMMA ShakeKeeps ==
    ASSUME TalkInv, NEW e \in Ends, conn[e].session = NoSession,
           DOMAIN conn' = Ends, conn'[e] \in ConnsOf(e), conn'[Other(e)] = conn[Other(e)],
           conn'[e].session \in {NoSession, FreshOf(e)}, PlaceOK(e)',
           DOMAIN stream' = Ends, RestOK(e, stream'[e]),
           \/ stream'[Other(e)] = stream[Other(e)]
           \/ \E b \in Handshakes : stream'[Other(e)] = Append(stream[Other(e)], b),
           profile' = profile, caps' = caps
    PROVE  TypeInv' /\ \A f \in Ends : PlaceOK(f)' /\ MacsOK(f)' /\ StatusOK(f)'
<1> DEFINE o == Other(e)
<1>1. o \in Ends /\ o # e /\ Other(o) = e /\ \A f \in Ends : f = e \/ f = o
  BY Zenon, TwoEnds
<1>2. Said(e) = <<>> /\ Said(e)' = <<>> /\ Said(o)' = Said(o)
  BY Zenon, FreshType DEF Said
<1>3. TypeInv /\ stream[o] \in Seq(BlocksOf(e))
  BY Zenon, <1>1 DEF TalkInv, TypeInv
<1>4. /\ stream'[o] \in Seq(BlocksOf(e))
      /\ \A i \in DOMAIN stream'[o] : stream'[o][i].kind = "mac" =>
           i \in DOMAIN stream[o] /\ stream'[o][i] = stream[o][i]
  <2>1. CASE stream'[o] = stream[o]
    BY Zenon, <1>3, <2>1
  <2>2. ASSUME NEW b \in Handshakes, stream'[o] = Append(stream[o], b)
        PROVE  /\ stream'[o] \in Seq(BlocksOf(e))
               /\ \A i \in DOMAIN stream'[o] : stream'[o][i].kind = "mac" =>
                    i \in DOMAIN stream[o] /\ stream'[o][i] = stream[o][i]
    <3>1. b \in BlocksOf(e) /\ b.kind # "mac"
      BY Zenon DEF BlocksOf, Handshakes
    <3>2. QED BY <1>3, <2>2, <3>1
  <2>3. QED BY Zenon, <2>1, <2>2
<1>5. TypeInv'
  <2>1. conn'[o] \in ConnsOf(o) /\ profile' \in [Ends -> AllProfiles] /\ DOMAIN caps' = Ends
    BY Zenon, <1>1, <1>3 DEF TypeInv
  <2>2. stream'[e] \in Seq(BlocksOf(o))
    BY Zenon DEF RestOK
  <2>3. \A f \in Ends : conn'[f] \in ConnsOf(f) /\ stream'[f] \in Seq(BlocksOf(Other(f)))
    BY Zenon, <1>1, <1>4, <2>1, <2>2
  <2>4. QED BY Zenon, <2>1, <2>3 DEF TypeInv
<1>6. PlaceOK(o)'
  BY Zenon, <1>1 DEF TalkInv, PlaceOK
<1>7. MacsOK(e)'
  <2>1. MacsOK(e)
    BY Zenon DEF TalkInv
  <2>2. ASSUME conn'[e].session # NoSession PROVE IsPrefixOf(conn'[e].session.ingressMac.log, Said(o)')
    <3>1. conn'[e].session.ingressMac.log = <<>>
      BY Zenon, <2>2, FreshType
    <3>2. Said(o) \in Seq(Plain)
      BY Zenon, <1>1, SaidType
    <3>3. IsPrefixOf(<<>>, Said(o))
      BY <3>2 DEF IsPrefixOf
    <3>4. QED BY Zenon, <1>2, <3>1, <3>3
  <2>3. QED BY Zenon, <1>2, <2>1, <2>2 DEF MacsOK, RestOK
<1>8. MacsOK(o)'
  <2>1. MacsOK(o)
    BY Zenon, <1>1 DEF TalkInv
  <2>2. QED BY Zenon, <1>1, <1>2, <1>4, <2>1 DEF MacsOK
<1>9. StatusOK(e)' /\ StatusOK(o)'
  <2>1. StatusOK(e) /\ StatusOK(o) /\ StatusInfo(e)' = StatusInfo(e) /\ StatusInfo(o)' = StatusInfo(o)
    BY Zenon, <1>1 DEF TalkInv, StatusInfo
  <2>2. QED BY Zenon, <1>2, <2>1 DEF StatusOK
<1>10. QED BY <1>1, <1>5, <1>6, <1>7, <1>8, <1>9

\* The initiator sends auth
LEMMA SendAuthKeeps ==
    ASSUME RlpxInv, NEW e \in Ends, SendAuth(e)
    PROVE  Kept(e)
<1> DEFINE o == Other(e)
           auth == AuthTo(Meant)
<1>1. o \in Ends /\ o # e /\ e = "initiator" /\ o = "receiver" /\ conn[e].at = "start"
  BY Zenon, TwoEnds DEF SendAuth, Other
<1>2. TalkInv /\ SameChain /\ HandshakeOK /\ TypeInv /\ conn[e].session = NoSession
  BY Zenon, <1>1 DEF RlpxInv, TalkInv, PlaceOK, Meeting
<1>3. conn[o].at = "start" /\ stream[e] = <<>> /\ stream[o] = <<>>
  BY <1>1, <1>2 DEF HandshakeOK
<1>4. DOMAIN conn = Ends /\ DOMAIN stream = Ends /\ conn[e] \in ConnsOf(e) /\ auth \in Ciphers
  <2>1. profile["initiator"] \in AllProfiles
    BY <1>1, <1>2 DEF TypeInv
  <2>2. QED BY <1>2, <2>1 DEF TypeInv, Ciphers, Meant
<1>5. /\ conn' = [conn EXCEPT ![e].at = "ack", ![e].init = <<auth>>]
      /\ stream' = [stream EXCEPT ![o] = Append(@, Handshake(auth))]
      /\ profile' = profile /\ caps' = caps
  BY <1>1 DEF SendAuth, AuthTo, Meant
<1> HIDE DEF auth
<1>6. /\ DOMAIN conn' = Ends /\ conn'[o] = conn[o] /\ conn'[e] \in ConnsOf(e)
      /\ conn'[e].at = "ack" /\ conn'[e].session = NoSession /\ conn'[e].init = <<auth>>
  <2>1. conn'[e] = [conn[e] EXCEPT !.at = "ack", !.init = <<auth>>]
    BY <1>4, <1>5
  <2>2. QED BY Zenon, <1>1, <1>2, <1>4, <1>5, <2>1 DEF ConnsOf, Places
<1>7. DOMAIN stream' = Ends /\ stream'[e] = stream[e] /\ stream'[o] = Append(stream[o], Handshake(auth))
  BY <1>1, <1>4, <1>5
<1>8. Handshake(auth) \in Handshakes /\ Append(<<>>, Handshake(auth))[1] = Handshake(auth)
  BY <1>4 DEF Handshake, Handshakes, Block
<1>9. PlaceOK(e)' /\ RestOK(e, stream'[e])
  BY Zenon, <1>1, <1>2, <1>6, <1>7, RestTypes DEF PlaceOK, Meeting, Talking
<1>10. TypeInv' /\ \A f \in Ends : PlaceOK(f)' /\ MacsOK(f)' /\ StatusOK(f)'
  BY <1>2, <1>5, <1>6, <1>7, <1>8, <1>9, ShakeKeeps
<1>11. HandshakeOK'
  <2>1. conn[o].session = NoSession
    BY <1>1, <1>2, <1>3 DEF TalkInv, PlaceOK, Meeting
  <2>2. Meant' = Meant
    BY <1>5 DEF Meant
  <2>3. QED BY Zenon, <1>1, <1>3, <1>6, <1>7, <1>8, <2>1, <2>2 DEF HandshakeOK, auth
<1>12. SameChain' /\ Moves(e)
  <2>1. OnChain(e, "ack") /\ Moves(e)
    BY Zenon, <1>2, <1>6 DEF OnChain, Moves, LifeOf, Established
  <2>2. QED BY Zenon, <1>2, <1>5, <1>6, <2>1, ChainKept
<1>13. QED BY <1>6, <1>10, <1>11, <1>12 DEF Kept, TalkInv

\* The receiver takes auth, and panics if it is meant for another node
LEMMA ReceiveAuthKeeps ==
    ASSUME RlpxInv, NEW e \in Ends, ReceiveAuth(e)
    PROVE  Kept(e)
<1> DEFINE o == Other(e)
           auth == Head(stream[e]).body
<1>1. /\ o \in Ends /\ o # e /\ e = "receiver" /\ o = "initiator"
      /\ conn[e].at = "start" /\ stream[e] # <<>>
  BY Zenon, TwoEnds DEF ReceiveAuth, Other
<1>2. TalkInv /\ SameChain /\ HandshakeOK /\ TypeInv /\ conn[e].session = NoSession
  BY Zenon, <1>1 DEF RlpxInv, TalkInv, PlaceOK, Meeting
<1>3. DOMAIN conn = Ends /\ DOMAIN stream = Ends /\ conn[e] \in ConnsOf(e) /\ DOMAIN caps = Ends
  BY <1>2 DEF TypeInv
<1>4. profile' = profile /\ caps' = caps
  BY DEF ReceiveAuth
<1>5. Head(stream[e]) = stream[e][1]
  BY <1>1, <1>2 DEF TypeInv
<1>6. auth = AuthTo(Meant)
  <2>1. stream[e][1] = Handshake(AuthTo(Meant))
    BY Zenon, <1>1, <1>2 DEF HandshakeOK
  <2>2. QED BY <1>5, <2>1 DEF Handshake, Block
<1>7. conn[o].at = "ack"
  BY Zenon, <1>1, <1>2 DEF HandshakeOK
<1>8. ASSUME Panics(e) PROVE Kept(e)
  <2>1. /\ TalkInv' /\ conn'[e].at = "panicked" /\ conn'[e].session = NoSession
        /\ conn'[o] = conn[o]
    <3>1. DOMAIN stream' = Ends /\ stream'[o] = stream[o] /\ RestOK(e, stream'[e])
      BY <1>1, <1>3, <1>8 DEF Panics, RestOK
    <3>2. "panicked" \in Talking \cup {"done", "panicked"} /\ "panicked" \notin Talking
      BY DEF Talking
    <3>3. conn' = [conn EXCEPT ![e].at = "panicked"]
      BY <1>8 DEF Panics
    <3>4. QED BY Zenon, <1>1, <1>2, <1>3, <1>4, <3>1, <3>2, <3>3, StopKeeps
  <2>2. OnChain(e, "panicked") /\ Moves(e)
    BY Zenon, <1>2, <2>1 DEF OnChain, Moves, LifeOf, Established
  <2>3. SameChain'
    BY Zenon, <1>2, <1>4, <2>1, <2>2, ChainKept
  <2>4. QED BY <2>1, <2>2, <2>3 DEF Kept
<1>9. ASSUME ~DecryptFails(Local(e).node, auth),
             conn' = [conn EXCEPT ![e].at = "send_ack", ![e].peerInit = <<auth>>,
                                  ![e].peer = <<DecodeAuthMessage(Local(e).node, auth)>>],
             stream' = [stream EXCEPT ![e] = Tail(@)]
      PROVE  Kept(e)
  <2>1. Meant = Local("receiver").node
    BY <1>1, <1>6, <1>9 DEF DecryptFails, AuthTo, EncodeAuthMessage, EncryptMessage
  <2>2. auth = Auth
    BY Zenon, <1>6, <2>1 DEF Auth
  <2>3. DecodeAuthMessage(Local(e).node, Auth) = Local("initiator")
    BY Zenon, <1>1 DEF DecodeAuthMessage, Auth, AuthTo, EncodeAuthMessage, EncryptMessage, SignSharedSecret,
                RetrieveRemoteEphemeralKey, Ecdh, Local
  <2>4. conn'[e] = [conn[e] EXCEPT !.at = "send_ack", !.peerInit = <<Auth>>, !.peer = <<Local("initiator")>>]
    BY Zenon, <1>3, <1>9, <2>2, <2>3
  <2> HIDE DEF auth
  <2>5. /\ conn'[e] \in ConnsOf(e) /\ conn'[e].at = "send_ack" /\ conn'[e].session = NoSession
        /\ conn'[e].peer = <<Local("initiator")>> /\ conn'[e].peerInit = <<Auth>>
    BY Zenon, <1>2, <1>3, <2>4 DEF ConnsOf, Places
  <2>6. DOMAIN conn' = Ends /\ conn'[o] = conn[o]
    BY <1>1, <1>3, <1>9
  <2>7. DOMAIN stream' = Ends /\ stream'[e] = Tail(stream[e]) /\ stream'[o] = stream[o]
    BY <1>1, <1>3, <1>9
  <2>8. PlaceOK(e)' /\ RestOK(e, stream'[e])
    BY Zenon, <1>1, <1>2, <2>5, <2>7, RestTypes DEF PlaceOK, Meeting, Talking
  <2>9. TypeInv' /\ \A f \in Ends : PlaceOK(f)' /\ MacsOK(f)' /\ StatusOK(f)'
    BY Zenon, <1>2, <1>4, <2>5, <2>6, <2>7, <2>8, ShakeKeeps
  <2>10. HandshakeOK'
    <3>1. Meant' = Meant
      BY Zenon, <1>4 DEF Meant
    <3>2. QED BY <1>1, <1>2, <1>7, <2>1, <2>5, <2>6, <2>7, <3>1 DEF HandshakeOK
  <2>11. OnChain(e, "send_ack") /\ Moves(e)
    BY Zenon, <1>2, <2>5 DEF OnChain, Moves, LifeOf, Established
  <2>12. SameChain'
    BY Zenon, <1>2, <1>4, <2>5, <2>6, <2>11, ChainKept
  <2>13. QED BY <2>6, <2>9, <2>10, <2>11, <2>12 DEF Kept, TalkInv
<1>10. QED BY <1>8, <1>9 DEF ReceiveAuth

\* The receiver answers: it has the session that the initiator will have
LEMMA SendAckKeeps ==
    ASSUME RlpxInv, NEW e \in Ends, SendAck(e)
    PROVE  Kept(e)
<1> DEFINE o == Other(e)
<1>1. conn[e].at = "send_ack" /\ profile' = profile /\ caps' = caps
  BY Zenon DEF SendAck
<1>2. TalkInv /\ SameChain /\ HandshakeOK /\ TypeInv /\ conn[e].session = NoSession /\ e = "receiver"
  BY <1>1 DEF RlpxInv, TalkInv, PlaceOK, Meeting
<1>3. o \in Ends /\ o # e /\ o = "initiator"
  BY Zenon, <1>2, TwoEnds DEF Other
<1>4. DOMAIN conn = Ends /\ DOMAIN stream = Ends /\ conn[o].at # "start" /\ stream[o] \in Seq(BlocksOf(e))
  BY Zenon, <1>1, <1>2, <1>3, TwoEnds DEF TypeInv, HandshakeOK
<1>5. /\ conn[e].peer = <<Local("initiator")>> /\ conn[e].peerInit = <<Auth>>
      /\ Meant = Local("receiver").node
  BY <1>1, <1>2 DEF HandshakeOK
<1>6. EncodeAckMessage(Local(e).ephemeral, Local(e).nonce, Local("initiator").node) = Ack
  BY <1>2 DEF Ack
<1>7. ForReceiver(Local(e), Local("initiator"), Ack, Auth) = FreshOf(e)
  BY <1>2, <1>3 DEF ForReceiver, FreshOf, InitOf
<1>8. /\ conn' = [conn EXCEPT ![e] = [Start EXCEPT !.at = "send_hello", !.session = FreshOf(e)]]
      /\ stream' = [stream EXCEPT ![o] = Append(@, Handshake(Ack))]
  <2>1. conn[e].peer[1] = Local("initiator") /\ conn[e].peerInit[1] = Auth
    BY <1>5
  <2>2. QED BY <1>6, <1>7, <2>1, Zenon DEF SendAck
<1>9. conn'[e] = [Start EXCEPT !.at = "send_hello", !.session = FreshOf(e)]
  BY <1>4, <1>8
<1>10. FreshOf(e) \in SessionsOf(e) /\ FreshOf(e) # NoSession
  BY FreshType, SessionsReal
<1>11. conn'[e] \in ConnsOf(e) /\ conn'[e].at = "send_hello" /\ conn'[e].session = FreshOf(e)
  BY Zenon, <1>9, <1>10, NoMessageType DEF Start, ConnsOf, Places
<1>12. DOMAIN conn' = Ends /\ conn'[o] = conn[o]
  BY <1>3, <1>4, <1>8
<1>13. DOMAIN stream' = Ends /\ stream'[e] = stream[e] /\ stream'[o] = Append(stream[o], Handshake(Ack))
  BY <1>3, <1>4, <1>8
<1>14. Handshake(Ack) \in Handshakes
  BY DEF Handshake, Handshakes, Block, Ciphers
<1>15. PlaceOK(e)' /\ RestOK(e, stream'[e])
  BY <1>2, <1>10, <1>11, <1>13, RestTypes DEF PlaceOK, Meeting, Talking
<1>16. TypeInv' /\ \A f \in Ends : PlaceOK(f)' /\ MacsOK(f)' /\ StatusOK(f)'
  BY <1>1, <1>2, <1>11, <1>12, <1>13, <1>14, <1>15, ShakeKeeps
<1>17. HandshakeOK'
  <2>1. Meant' = Meant
    BY Zenon, <1>1 DEF Meant
  <2>2. ASSUME conn[o].at = "ack" PROVE stream'[o] # <<>> /\ stream'[o][1] = Handshake(Ack)
    <3>1. stream[o] = <<>>
      BY Zenon, <1>2, <1>3, <2>2 DEF HandshakeOK
    <3>2. QED BY <1>13, <3>1
  <2>3. QED BY Zenon, <1>2, <1>3, <1>4, <1>5, <1>10, <1>11, <1>12, <2>1, <2>2 DEF HandshakeOK
<1>18. OnChain(e, "send_hello") /\ Moves(e)
  BY Zenon, <1>2, <1>10, <1>11 DEF OnChain, Moves, LifeOf, Established
<1>19. SameChain'
  BY <1>1, <1>2, <1>11, <1>12, <1>18, ChainKept
<1>20. QED BY <1>12, <1>16, <1>17, <1>18, <1>19 DEF Kept, TalkInv

\* The initiator takes ack
LEMMA ReceiveAckKeeps ==
    ASSUME RlpxInv, NEW e \in Ends, ReceiveAck(e)
    PROVE  Kept(e)
<1> DEFINE o == Other(e)
<1>1. conn[e].at = "ack" /\ stream[e] # <<>> /\ profile' = profile /\ caps' = caps
  BY Zenon DEF ReceiveAck
<1>2. TalkInv /\ SameChain /\ HandshakeOK /\ TypeInv /\ conn[e].session = NoSession /\ e = "initiator"
  BY <1>1 DEF RlpxInv, TalkInv, PlaceOK, Meeting
<1>3. o \in Ends /\ o # e /\ o = "receiver"
  BY <1>2, TwoEnds DEF Other
<1>4. DOMAIN conn = Ends /\ DOMAIN stream = Ends
  BY Zenon, <1>2 DEF TypeInv
<1>5. /\ conn[e].init = <<AuthTo(Meant)>> /\ conn[o].session # NoSession
      /\ stream[e][1] = Handshake(Ack) /\ Meant = Local("receiver").node
  BY Zenon, <1>1, <1>2, <1>3 DEF HandshakeOK
<1>6. Head(stream[e]).body = Ack
  <2>1. Head(stream[e]) = stream[e][1]
    BY <1>1, <1>2 DEF TypeInv
  <2>2. QED BY <1>5, <2>1 DEF Handshake, Block
<1>7. conn[e].init[1] = Auth
  BY <1>5 DEF Auth
<1>8. [node |-> profile[e].target, ephemeral |-> DecodeAckMessage(Ack).ephemeral,
       nonce |-> DecodeAckMessage(Ack).nonce] = Local("receiver")
  <2>1. profile[e].target = Local("receiver").node
    BY Zenon, <1>2, <1>5 DEF Meant
  <2>2. QED BY Zenon, <2>1 DEF DecodeAckMessage, Ack, EncodeAckMessage, EncryptMessage, Local
<1>9. ForInitiator(Local(e), Local("receiver"), Auth, Ack) = FreshOf(e)
  BY <1>2, <1>3 DEF ForInitiator, FreshOf, InitOf
<1>10. /\ conn' = [conn EXCEPT ![e] = [Start EXCEPT !.at = "send_hello", !.session = FreshOf(e)]]
       /\ stream' = [stream EXCEPT ![e] = Tail(@)]
  BY Zenon, <1>6, <1>7, <1>8, <1>9 DEF ReceiveAck
<1>11. conn'[e] = [Start EXCEPT !.at = "send_hello", !.session = FreshOf(e)]
  BY <1>4, <1>10
<1>12. FreshOf(e) \in SessionsOf(e) /\ FreshOf(e) # NoSession
  BY FreshType, SessionsReal
<1>13. conn'[e] \in ConnsOf(e) /\ conn'[e].at = "send_hello" /\ conn'[e].session = FreshOf(e)
  BY <1>11, <1>12, NoMessageType DEF Start, ConnsOf, Places
<1>14. DOMAIN conn' = Ends /\ conn'[o] = conn[o]
  BY <1>3, <1>4, <1>10
<1>15. DOMAIN stream' = Ends /\ stream'[e] = Tail(stream[e]) /\ stream'[o] = stream[o]
  BY <1>3, <1>4, <1>10
<1>16. PlaceOK(e)' /\ RestOK(e, stream'[e])
  BY <1>1, <1>2, <1>12, <1>13, <1>15, RestTypes DEF PlaceOK, Meeting, Talking
<1>17. TypeInv' /\ \A f \in Ends : PlaceOK(f)' /\ MacsOK(f)' /\ StatusOK(f)'
  BY Zenon, <1>1, <1>2, <1>13, <1>14, <1>15, <1>16, ShakeKeeps
<1>18. HandshakeOK'
  <2>1. Meant' = Meant
    BY Zenon, <1>1 DEF Meant
  <2>2. conn[o].at \notin Meeting
    BY Zenon, <1>3, <1>5, <1>2 DEF TalkInv, PlaceOK
  <2>3. QED BY Zenon, <1>2, <1>3, <1>13, <1>14, <2>1, <2>2 DEF HandshakeOK, Meeting
<1>19. OnChain(e, "send_hello") /\ Moves(e)
  BY Zenon, <1>2, <1>12, <1>13 DEF OnChain, Moves, LifeOf, Established
<1>20. SameChain'
  BY Zenon, <1>1, <1>2, <1>13, <1>14, <1>19, ChainKept
<1>21. QED BY <1>14, <1>17, <1>18, <1>19, <1>20 DEF Kept, TalkInv

----------------------------------------------------------------------------
(* What an end that talks writes and reads *)

\* An end that keeps its session
LEMMA FitsSame ==
    ASSUME TalkInv, NEW e \in Ends, conn[e].at \in Talking,
           NEW c \in ConnsOf(e), c.at \in Talking, c.session = conn[e].session
    PROVE  Fits(e, c)
<1>1. conn[e].session # NoSession /\ MacsOK(e)
  BY Zenon DEF TalkInv, PlaceOK
<1>2. conn[e].session \in SessionsOf(e)
  BY Zenon, <1>1, SessionType
<1>3. QED BY Zenon, <1>1, <1>2 DEF Fits, MacsOK

\* A message that says nothing of its sender
LEMMA BareSayable ==
    ASSUME NEW e \in Ends, NEW type \in DOMAIN Code \cup ForeignTypes, NEW id \in Requesters \cup {0}
    PROVE  Sayable(e, <<Message(type, id, {})>>)
<1> DEFINE m == Message(type, id, {})
<1>1. m \in Messages /\ m.info = {}
  BY DEF Message, Messages
<1>2. m.info \in StatusInfo(e)
  BY Zenon, <1>1 DEF StatusInfo
<1>3. QED BY Zenon, <1>1, <1>2 DEF Sayable

\* Hello and Status
LEMMA ProfileSayable ==
    ASSUME TalkInv, NEW e \in Ends
    PROVE  /\ Sayable(e, <<Message("Hello", 0, profile[e].caps)>>)
           /\ Sayable(e, <<Message("Status", 0, {profile[e].chain})>>)
<1> DEFINE h == Message("Hello", 0, profile[e].caps)
           s == Message("Status", 0, {profile[e].chain})
<1>1. profile[e] \in AllProfiles
  BY Zenon DEF TalkInv, TypeInv
<1>2. {"Hello", "Status"} \subseteq DOMAIN Code
  BY Zenon DEF Code
<1>3. h \in Messages /\ h.type = "Hello"
  BY Zenon, <1>1, <1>2 DEF Message, Messages
<1>4. s \in Messages /\ s.info = {profile[e].chain}
  BY Zenon, <1>1, <1>2 DEF Message, Messages
<1>5. QED BY Zenon, <1>3, <1>4 DEF Sayable, StatusInfo

\* A block whose MAC matches was written by the other end, right after what was read before
LEMMA MacRead ==
    ASSUME TalkInv, NEW e \in Ends, conn[e].at \in Talking, Len(stream[e]) >= 2,
           NEW kind, MacMatches(conn[e].session.ingressMac, kind, stream[e][1], stream[e][2])
    PROVE  /\ stream[e][1] \in Plain
           /\ IsPrefixOf(Append(conn[e].session.ingressMac.log, stream[e][1]), Said(Other(e)))
           /\ \E j \in DOMAIN Said(Other(e)) : stream[e][1] = Said(Other(e))[j]
<1> DEFINE o == Other(e)
           mac == conn[e].session.ingressMac
           log == mac.log
           b == stream[e][1]
           k == stream[e][2]
<1>1. conn[e].session # NoSession /\ o \in Ends
  BY Zenon, TwoEnds DEF TalkInv, PlaceOK
<1>2. mac \in MacsOf(FreshOf(e).ingressMac)
  BY Zenon, <1>1, SessionType DEF SessionsOf
<1>3. log \in Seq(Plain) /\ Said(o) \in Seq(Plain)
  BY Zenon, <1>1, <1>2, SaidType DEF MacsOf
<1>4. stream[e] \in Seq(BlocksOf(o))
  BY Zenon DEF TalkInv, TypeInv
<1>5. 1 \in DOMAIN stream[e] /\ 2 \in DOMAIN stream[e] /\ b \in BlocksOf(o)
  BY <1>4
<1>6. k.kind = "mac" /\ k.body = Update(mac, b)
  BY Zenon DEF MacMatches
<1>7. IsPrefixOf(k.body.log, Said(o))
  BY Zenon, <1>5, <1>6 DEF TalkInv, MacsOK
<1>8. k.body.log = Append(log, b)
  BY Zenon, <1>2, <1>6 DEF Update, MacsOf
<1> DEFINE B == BlocksOf(o)
           said == Said(o)
<1>9. log \in Seq(B) /\ b \in B /\ said \in Seq(Plain) /\ IsPrefixOf(Append(log, b), said)
  <2>1. Plain \subseteq B
    BY Zenon DEF BlocksOf
  <2> HIDE DEF B
  <2>2. log \in Seq(B)
    BY <1>3, <2>1
  <2>3. QED BY Zenon, <1>3, <1>5, <1>7, <1>8, <2>2 DEF B
<1> HIDE DEF log, b, B, said
<1>10. /\ Len(Append(log, b)) = Len(log) + 1 /\ Append(log, b)[Len(log) + 1] = b
       /\ Len(log) + 1 \in DOMAIN Append(log, b) /\ Len(log) + 1 \in Nat /\ Len(log) + 1 >= 1
  BY <1>9
<1>11. Len(log) + 1 <= Len(said) /\ b = said[Len(log) + 1]
  BY Zenon, <1>9, <1>10 DEF IsPrefixOf
<1>12. Len(log) + 1 \in DOMAIN said
  BY <1>9, <1>10, <1>11
<1>13. said[Len(log) + 1] \in Plain
  BY <1>9, <1>12
<1>14. QED BY Zenon, <1>9, <1>11, <1>12, <1>13 DEF log, b, said

\* An end that has read a block
LEMMA FitsRead ==
    ASSUME TalkInv, NEW e \in Ends, conn[e].at \in Talking, Len(stream[e]) >= 2,
           NEW kind, MacMatches(conn[e].session.ingressMac, kind, stream[e][1], stream[e][2]),
           NEW reading \in {"header", "data"}
    PROVE  LET c == [conn[e] EXCEPT !.session = BlockRead(@, stream[e][1]), !.reading = reading]
           IN  Fits(e, c) /\ c.at = conn[e].at
<1> DEFINE s == conn[e].session
           b == stream[e][1]
           mac == Update(s.ingressMac, b)
           aes == s.ingressAes + 1
           t == BlockRead(s, b)
           c == [conn[e] EXCEPT !.session = t, !.reading = reading]
<1>1. b \in Plain /\ IsPrefixOf(Append(s.ingressMac.log, b), Said(Other(e)))
  BY Zenon, MacRead
<1>2. s # NoSession /\ conn[e] \in ConnsOf(e)
  BY Zenon DEF TalkInv, PlaceOK, TypeInv
<1>3. s \in SessionsOf(e)
  BY Zenon, <1>2, SessionType
<1>4. s.ingressMac \in MacsOf(FreshOf(e).ingressMac) /\ aes \in Nat
  BY <1>3 DEF SessionsOf
<1>5. t = [s EXCEPT !.ingressMac = mac, !.ingressAes = aes]
  BY DEF BlockRead
<1> HIDE DEF s, b, aes
<1>6. mac \in MacsOf(FreshOf(e).ingressMac) /\ mac.log = Append(s.ingressMac.log, b)
  BY Zenon, <1>1, <1>4, UpdateType
<1> HIDE DEF mac, t
<1>7. t \in SessionsOf(e) /\ t.ingressMac = mac /\ t.egressMac = s.egressMac
  BY Zenon, <1>3, <1>4, <1>5, <1>6 DEF SessionsOf
<1>8. c \in ConnsOf(e) /\ c.at = conn[e].at /\ c.session = t
  BY Zenon, <1>2, <1>7 DEF ConnsOf
<1> HIDE DEF c
<1>9. Fits(e, c)
  BY Zenon, <1>1, <1>6, <1>7, <1>8 DEF Fits, s
<1>10. QED BY Zenon, <1>8, <1>9 DEF c, t, s, b

\* What is read is a message, and a Status is what the other end announces
LEMMA MessageRead ==
    ASSUME TalkInv, NEW e \in Ends, conn[e].at \in Talking, Len(stream[e]) >= 2,
           NEW kind, MacMatches(conn[e].session.ingressMac, kind, stream[e][1], stream[e][2])
    PROVE  LET m == Decrypted(conn[e].session, stream[e][1])
           IN  m \in Messages /\ (m.type = "Status" => m.info \in StatusInfo(Other(e)))
<1> DEFINE b == stream[e][1]
           m == Decrypted(conn[e].session, b)
           o == Other(e)
<1>1. PICK j \in DOMAIN Said(o) : b = Said(o)[j]
  BY Zenon, MacRead
<1>2. b.body \in Messages
  BY Zenon, MacRead DEF Plain
<1>3. b.body.type = "Status" => b.body.info \in StatusInfo(o)
  BY Zenon, <1>1, TwoEnds DEF TalkInv, StatusOK
<1>4. m = b.body \/ m = NoMessage
  BY Zenon DEF Decrypted
<1>5. NoMessage.type # "Status"
  BY Zenon DEF NoMessage
<1>6. QED BY Zenon, <1>2, <1>3, <1>4, <1>5, NoMessageType

----------------------------------------------------------------------------
(* The actions of an end *)

\* While the capabilities are what they were, so is the chain
LEMMA ChainStays ==
    ASSUME RlpxInv, NEW e \in Ends, caps' = caps, NEW place,
           place \in {"loop", "deliver"} => conn[e].at \in {"loop", "deliver"}
    PROVE  OnChain(e, place)
BY DEF RlpxInv, SameChain, OnChain

\* An end that talks, as it is and in another place
LEMMA Elsewhere ==
    ASSUME RlpxInv, NEW e \in Ends, conn[e].at \in Talking, NEW place \in Talking
    PROVE  /\ Fits(e, [conn[e] EXCEPT !.at = place])
           /\ [conn[e] EXCEPT !.at = place].at = place
           /\ Fits(e, conn[e])
           /\ Fits(e, Afresh(e)) /\ Afresh(e).at = conn[e].at
<1>1. TalkInv /\ conn[e] \in ConnsOf(e)
  BY DEF RlpxInv, TalkInv, TypeInv
<1> DEFINE c == [conn[e] EXCEPT !.at = place]
<1>2. c \in ConnsOf(e) /\ c.at = place /\ c.session = conn[e].session
  BY <1>1 DEF ConnsOf, Places, Talking
<1>3. Afresh(e) \in ConnsOf(e) /\ Afresh(e).at = conn[e].at /\ Afresh(e).session = conn[e].session
  BY Zenon, <1>1 DEF ConnsOf, Afresh
<1>4. QED BY Zenon, <1>1, <1>2, <1>3, FitsSame

\* What is common to the steps of an end that talks
LEMMA TalkFacts ==
    ASSUME RlpxInv, NEW e \in Ends
    PROVE  /\ TalkInv /\ DOMAIN caps = Ends /\ conn[e] \in ConnsOf(e)
           /\ RestOK(e, stream[e]) /\ \A rest \in Cancelled(e) : RestOK(e, rest)
           /\ \A place : Onward(place, place)
<1>1. TalkInv /\ DOMAIN caps = Ends /\ conn[e] \in ConnsOf(e)
  BY DEF RlpxInv, TalkInv, TypeInv
<1>2. QED BY Zenon, <1>1, RestTypes DEF Cancelled, Onward

\* exchange_hello_messages
LEMMA SendHelloKeeps ==
    ASSUME RlpxInv, NEW e \in Ends, SendHello(e)
    PROVE  Kept(e)
<1> DEFINE c == [conn[e] EXCEPT !.at = "hello"]
           msgs == <<Message("Hello", 0, profile[e].caps)>>
<1>1. conn[e].at = "send_hello" /\ Sends(e, c, stream[e], msgs) /\ profile' = profile /\ caps' = caps
  BY DEF SendHello
<1>2. conn[e].at \in Talking /\ "hello" \in Talking
  BY <1>1 DEF Talking
<1>3. Fits(e, c) /\ c.at = "hello"
  BY <1>2, Elsewhere
<1>4. Onward(conn[e].at, "hello") /\ OnChain(e, "hello")
  BY Zenon, <1>1 DEF Onward, OnChain, LifeAt
<1>5. Sayable(e, msgs) /\ RestOK(e, stream[e]) /\ DOMAIN caps = Ends
  BY Zenon, TalkFacts, ProfileSayable
<1> HIDE DEF c, msgs
<1>6. QED BY Zenon, <1>1, <1>2, <1>3, <1>4, <1>5, StepKeeps

\* set_channels
LEMMA OpenChannelsKeeps ==
    ASSUME RlpxInv, NEW e \in Ends, OpenChannels(e)
    PROVE  Kept(e)
<1> DEFINE place == IF Eth \in caps[e] THEN "send_status" ELSE "loop"
<1>1. /\ conn[e].at = "channels" /\ conn' = [conn EXCEPT ![e].at = place]
      /\ stream' = stream /\ profile' = profile /\ caps' = caps
  BY DEF OpenChannels
<1>2. conn[e].at \in Talking /\ place \in Talking
  BY <1>1 DEF Talking
<1>3. OnChain(e, place)
  BY <1>1 DEF OnChain
<1>4. Onward(conn[e].at, place)
  BY <1>1 DEF Onward, LifeAt
<1> HIDE DEF place
<1>5. QED BY Zenon, <1>1, <1>2, <1>3, <1>4, TalkStops

\* init_peer_conn
LEMMA SendStatusKeeps ==
    ASSUME RlpxInv, NEW e \in Ends, SendStatus(e)
    PROVE  Kept(e)
<1> DEFINE c == [conn[e] EXCEPT !.at = "status"]
           msgs == <<Message("Status", 0, {profile[e].chain})>>
<1>1. /\ conn[e].at = "send_status" /\ profile' = profile /\ caps' = caps
      /\ Sends(e, c, stream[e], msgs) \/ Fails(e, conn[e], stream[e])
  BY DEF SendStatus
<1>2. conn[e].at \in Talking /\ "status" \in Talking
  BY <1>1 DEF Talking
<1>3. Fits(e, c) /\ c.at = "status" /\ Fits(e, conn[e])
  BY <1>2, Elsewhere
<1>4. Onward(conn[e].at, "status") /\ OnChain(e, "status") /\ OnChain(e, conn[e].at)
  BY Zenon, <1>1 DEF Onward, OnChain, LifeAt
<1>5. Sayable(e, msgs) /\ RestOK(e, stream[e]) /\ DOMAIN caps = Ends /\ Onward(conn[e].at, conn[e].at)
  BY Zenon, TalkFacts, ProfileSayable
<1> HIDE DEF c, msgs
<1>6. CASE Sends(e, c, stream[e], msgs)
  BY Zenon, <1>1, <1>2, <1>3, <1>4, <1>5, <1>6, StepKeeps
<1>7. CASE Fails(e, conn[e], stream[e])
  BY Zenon, <1>1, <1>2, <1>3, <1>4, <1>5, <1>7, StepKeeps
<1>8. QED BY Zenon, <1>1, <1>6, <1>7

\* A panic while the end talks
LEMMA PanicsKeeps ==
    ASSUME RlpxInv, NEW e \in Ends, conn[e].at \in Talking, conn[e].at # "failing", Panics(e),
           profile' = profile, caps' = caps
    PROVE  Kept(e)
<1>1. Onward(conn[e].at, "panicked") /\ OnChain(e, "panicked")
  BY DEF Onward, OnChain, LifeAt, Talking
<1>2. QED BY Zenon, <1>1, TalkStops DEF Panics

\* frame::read, its header
LEMMA ReadHeaderKeeps ==
    ASSUME RlpxInv, NEW e \in Ends, ReadHeader(e)
    PROVE  Kept(e)
<1> DEFINE c == [conn[e] EXCEPT !.session = BlockRead(@, stream[e][1]), !.reading = "data"]
           rest == SubSeq(stream[e], 3, Len(stream[e]))
           matches == MacMatches(conn[e].session.ingressMac, "header", stream[e][1], stream[e][2])
<1>1. /\ Receiving(e) /\ Len(stream[e]) >= 2 /\ profile' = profile /\ caps' = caps
      /\ IF matches THEN Goes(e, c, rest, <<>>) ELSE Panics(e)
  BY DEF ReadHeader
<1>2. conn[e].at \in Talking /\ conn[e].at # "failing" /\ TalkInv
  BY <1>1, TalkFacts DEF Receiving, Talking
<1>3. CASE ~matches
  BY Zenon, <1>1, <1>2, <1>3, PanicsKeeps
<1>4. CASE matches
  <2>1. Fits(e, c) /\ c.at = conn[e].at
    BY Zenon, <1>1, <1>2, <1>4, FitsRead
  <2>2. RestOK(e, rest) /\ DOMAIN caps = Ends
    BY <1>1, <1>2, RestTypes, TalkFacts
  <2>3. OnChain(e, conn[e].at) /\ Onward(conn[e].at, conn[e].at)
    BY <1>1, ChainStays, TalkFacts
  <2>4. Sends(e, c, rest, <<>>)
    BY <1>1, <1>4 DEF Sends
  <2>5. Sayable(e, <<>>)
    BY Zenon DEF Sayable
  <2> HIDE DEF c, rest
  <2>6. QED BY Zenon, <1>1, <1>2, <2>1, <2>2, <2>3, <2>4, <2>5, StepKeeps
<1>5. QED BY <1>3, <1>4

\* An end that fits, with the same session
LEMMA FitsToo ==
    ASSUME NEW e \in Ends, NEW c, Fits(e, c), NEW d \in ConnsOf(e), d.at \in Talking,
           d.session = c.session
    PROVE  Fits(e, d)
BY DEF Fits

\* handle_message
LEMMA HandleKeeps ==
    ASSUME RlpxInv, NEW e \in Ends, conn[e].at = "loop", NEW c, NEW rest, NEW msg \in Messages,
           Fits(e, c), c.at = "loop", RestOK(e, rest), Handle(e, c, rest, msg),
           profile' = profile, caps' = caps
    PROVE  Kept(e)
<1>1. conn[e].at \in Talking /\ conn[e].at # "failing" /\ DOMAIN caps = Ends /\ c \in ConnsOf(e)
  BY Zenon, TalkFacts DEF Talking, Fits
<1>2. OnChain(e, "loop") /\ OnChain(e, "deliver")
  BY Zenon, ChainStays
<1>3. Onward("loop", "loop") /\ Onward("loop", "deliver")
  BY Zenon DEF Onward, LifeAt
<1>4. Sayable(e, <<>>)
  BY Zenon DEF Sayable
<1>5. ASSUME Goes(e, c, rest, <<>>) \/ Fails(e, c, rest) PROVE Kept(e)
  <2>1. Sends(e, c, rest, <<>>) \/ Fails(e, c, rest)
    BY Zenon, <1>5 DEF Sends
  <2>2. QED BY Zenon, <1>1, <1>2, <1>3, <1>4, <2>1, StepKeeps
<1>6. ASSUME Goes(e, [c EXCEPT !.at = "deliver", !.held = msg], rest, <<>>) PROVE Kept(e)
  <2> DEFINE d == [c EXCEPT !.at = "deliver", !.held = msg]
  <2>1. d \in ConnsOf(e) /\ d.at = "deliver" /\ d.session = c.session
    BY Zenon, <1>1 DEF ConnsOf, Places
  <2>2. "deliver" \in Talking /\ Sends(e, d, rest, <<>>)
    BY <1>6 DEF Talking, Sends
  <2> HIDE DEF d
  <2>3. Fits(e, d)
    BY Zenon, <2>1, <2>2, FitsToo
  <2>4. QED BY Zenon, <1>1, <1>2, <1>3, <1>4, <2>1, <2>2, <2>3, StepKeeps
<1>7. ASSUME msg.type \in DOMAIN Served, Sends(e, c, rest, <<Message(Served[msg.type], msg.id, {})>>)
      PROVE  Kept(e)
  <2>1. Served[msg.type] \in DOMAIN Code
    BY Zenon, <1>7, ServedCoded
  <2>2. msg.id \in Requesters \cup {0}
    BY Zenon DEF Messages
  <2>3. Sayable(e, <<Message(Served[msg.type], msg.id, {})>>)
    BY Zenon, <2>1, <2>2, BareSayable
  <2>4. QED BY Zenon, <1>1, <1>2, <1>3, <1>7, <2>3, StepKeeps
<1>8. ASSUME Goes(e, [c EXCEPT !.echo = 1], rest, <<>>) PROVE Kept(e)
  <2> DEFINE d == [c EXCEPT !.echo = 1]
  <2>1. d \in ConnsOf(e) /\ d.at = "loop" /\ d.session = c.session
    BY <1>1 DEF ConnsOf
  <2>2. "loop" \in Talking /\ Sends(e, d, rest, <<>>)
    BY Zenon, <1>8 DEF Talking, Sends
  <2> HIDE DEF d
  <2>3. Fits(e, d)
    BY Zenon, <2>1, <2>2, FitsToo
  <2>4. QED BY Zenon, <1>1, <1>2, <1>3, <1>4, <2>1, <2>2, <2>3, StepKeeps
<1>9. QED BY <1>5, <1>6, <1>7, <1>8, Zenon DEF Handle

\* What becomes of a message
LEMMA ReceivedKeeps ==
    ASSUME RlpxInv, NEW e \in Ends, Receiving(e), NEW c, NEW rest, NEW msg \in Messages,
           Fits(e, c), c.at = conn[e].at, RestOK(e, rest),
           msg.type = "Status" => msg.info \in StatusInfo(Other(e)),
           Received(e, c, rest, msg), profile' = profile
    PROVE  Kept(e)
<1>1. /\ conn[e].at \in Talking /\ conn[e].at # "failing" /\ DOMAIN caps = Ends /\ c \in ConnsOf(e)
      /\ Onward(c.at, c.at) /\ conn[e].at \in {"hello", "status", "loop"}
  BY Zenon, TalkFacts DEF Talking, Fits, Receiving
<1>2. Sayable(e, <<>>) /\ {"channels", "loop"} \subseteq Talking
  BY Zenon DEF Sayable, Talking
<1>3. ASSUME NEW place \in {"channels", "loop"} PROVE
        Fits(e, [c EXCEPT !.at = place]) /\ [c EXCEPT !.at = place].at = place
  <2> DEFINE d == [c EXCEPT !.at = place]
  <2>1. d \in ConnsOf(e) /\ d.at = place /\ d.session = c.session
    BY Zenon, <1>1 DEF ConnsOf, Places
  <2> HIDE DEF d
  <2>2. Fits(e, d)
    BY Zenon, <1>2, <2>1, FitsToo
  <2>3. QED BY <2>1, <2>2 DEF d
<1>4. CASE c.at = "hello"
  <2> DEFINE d == [c EXCEPT !.at = "channels"]
  <2>1. /\ caps' = [caps EXCEPT ![e] = IF msg.type = "Hello" THEN msg.info ELSE @]
        /\ Goes(e, d, rest, <<>>) \/ Fails(e, c, rest)
    BY <1>4 DEF Received
  <2>2. DOMAIN caps' = Ends /\ caps'[Other(e)] = caps[Other(e)]
    BY Zenon, <1>1, <2>1, TwoEnds
  <2>3. OnChain(e, "hello") /\ OnChain(e, "channels") /\ Onward("hello", "channels")
    BY Zenon DEF OnChain, Onward, LifeAt
  <2>4. Fits(e, d) /\ d.at = "channels"
    BY Zenon, <1>3
  <2> HIDE DEF d
  <2>5. CASE Goes(e, d, rest, <<>>)
    <3>1. Sends(e, d, rest, <<>>)
      BY Zenon, <2>5 DEF Sends
    <3>2. QED BY Zenon, <1>1, <1>2, <1>4, <2>2, <2>3, <2>4, <3>1, StepKeeps
  <2>6. CASE Fails(e, c, rest)
    BY Zenon, <1>1, <1>2, <1>4, <2>2, <2>3, <2>6, StepKeeps
  <2>7. QED BY Zenon, <2>1, <2>5, <2>6
<1>5. CASE c.at = "status"
  <2> DEFINE d == [c EXCEPT !.at = "loop"]
  <2>1. caps' = caps /\ IF msg.type = "Status" /\ ValidateStatus(e, msg)
                        THEN Goes(e, d, rest, <<>>) ELSE Fails(e, c, rest)
    BY Zenon, <1>5 DEF Received
  <2>2. OnChain(e, "status") /\ Onward("status", "loop")
    BY DEF OnChain, Onward, LifeAt
  <2>3. Fits(e, d) /\ d.at = "loop"
    BY Zenon, <1>3
  <2> HIDE DEF d
  <2>4. ASSUME msg.type = "Status", ValidateStatus(e, msg), Goes(e, d, rest, <<>>) PROVE Kept(e)
    <3>1. {profile[e].chain} \in {{}, {profile[Other(e)].chain}}
      BY Zenon, <2>4 DEF ValidateStatus, StatusInfo
    <3>2. OnChain(e, "loop")
      BY Zenon, <3>1 DEF OnChain
    <3>3. Sends(e, d, rest, <<>>)
      BY Zenon, <2>4 DEF Sends
    <3>4. QED BY Zenon, <1>1, <1>2, <1>5, <2>1, <2>2, <2>3, <3>2, <3>3, StepKeeps
  <2>5. CASE Fails(e, c, rest)
    BY Zenon, <1>1, <1>2, <1>5, <2>1, <2>2, <2>5, StepKeeps
  <2>6. QED BY Zenon, <2>1, <2>4, <2>5
<1>6. CASE c.at = "loop"
  <2>1. caps' = caps /\ Handle(e, c, rest, msg)
    BY <1>6 DEF Received
  <2>2. QED BY Zenon, <1>6, <2>1, HandleKeeps
<1>7. QED BY Zenon, <1>1, <1>4, <1>5, <1>6

\* frame::read, its data
LEMMA ReadDataKeeps ==
    ASSUME RlpxInv, NEW e \in Ends, ReadData(e)
    PROVE  Kept(e)
<1> DEFINE msg == Decrypted(conn[e].session, stream[e][1])
           c == [conn[e] EXCEPT !.session = BlockRead(@, stream[e][1]), !.reading = "header"]
           rest == SubSeq(stream[e], 3, Len(stream[e]))
           matches == MacMatches(conn[e].session.ingressMac, "data", stream[e][1], stream[e][2])
<1>1. /\ Receiving(e) /\ Len(stream[e]) >= 2 /\ profile' = profile
      /\ IF ~matches \/ DecodePanics(msg) THEN Panics(e) /\ caps' = caps
         ELSE IF ~Decodable(msg) THEN Fails(e, c, rest) /\ caps' = caps
         ELSE Received(e, c, rest, msg)
  BY DEF ReadData
<1>2. conn[e].at \in Talking /\ conn[e].at # "failing" /\ TalkInv /\ DOMAIN caps = Ends
  BY <1>1, TalkFacts DEF Receiving, Talking
<1>3. ASSUME Panics(e), caps' = caps PROVE Kept(e)
  BY Zenon, <1>1, <1>2, <1>3, PanicsKeeps
<1>4. ASSUME matches, (Fails(e, c, rest) /\ caps' = caps) \/ Received(e, c, rest, msg) PROVE Kept(e)
  <2>1. Fits(e, c) /\ c.at = conn[e].at
    BY Zenon, <1>1, <1>2, <1>4, FitsRead
  <2>2. RestOK(e, rest)
    BY <1>1, <1>2, RestTypes
  <2>3. msg \in Messages /\ (msg.type = "Status" => msg.info \in StatusInfo(Other(e)))
    BY Zenon, <1>1, <1>2, <1>4, MessageRead
  <2> HIDE DEF c, rest, msg
  <2>4. CASE Fails(e, c, rest) /\ caps' = caps
    <3>1. OnChain(e, c.at) /\ Onward(conn[e].at, c.at) /\ Sayable(e, <<>>)
      BY Zenon, <2>1, <2>4, ChainStays, TalkFacts DEF Sayable
    <3>2. QED BY Zenon, <1>1, <1>2, <2>1, <2>2, <2>4, <3>1, StepKeeps
  <2>5. CASE Received(e, c, rest, msg)
    BY Zenon, <1>1, <2>1, <2>2, <2>3, <2>5, ReceivedKeeps
  <2>6. QED BY Zenon, <1>4, <2>4, <2>5
<1>5. QED BY <1>1, <1>3, <1>4

\* The other end is gone
LEMMA ReadFailsKeeps ==
    ASSUME RlpxInv, NEW e \in Ends, ReadFails(e)
    PROVE  Kept(e)
<1> DEFINE o == Other(e)
<1>1. /\ Ended(o) /\ Fails(e, conn[e], stream[e]) /\ profile' = profile /\ caps' = caps
      /\ \/ e = "receiver" /\ conn[e].at = "start"
         \/ e = "initiator" /\ conn[e].at = "ack"
         \/ Receiving(e)
  BY Zenon DEF ReadFails
<1>2. /\ TalkInv /\ SameChain /\ DOMAIN caps = Ends /\ conn[e] \in ConnsOf(e) /\ RestOK(e, stream[e])
      /\ Onward(conn[e].at, conn[e].at) /\ OnChain(e, conn[e].at) /\ Sayable(e, <<>>)
  BY Zenon, <1>1, TalkFacts, ChainStays DEF RlpxInv, Sayable
<1>3. CASE Receiving(e)
  <2>1. conn[e].at \in Talking /\ conn[e].at # "failing"
    BY <1>3 DEF Receiving, Talking
  <2>2. Fits(e, conn[e])
    BY Zenon, <2>1, Elsewhere
  <2>3. QED BY Zenon, <1>1, <1>2, <2>1, <2>2, StepKeeps
<1>4. CASE e = "receiver" /\ conn[e].at = "start"
  <2>1. conn["initiator"].at \in {"start", "ack"}
    BY Zenon, <1>2, <1>4 DEF TalkInv, HandshakeOK
  <2>2. QED BY Zenon, <1>1, <1>4, <2>1 DEF Ended, Other
<1>5. CASE e = "initiator" /\ conn[e].at = "ack"
  <2>1. conn[e].session = NoSession /\ o = "receiver" /\ o \in Ends /\ o # e
    BY Zenon, <1>2, <1>5, TwoEnds DEF TalkInv, PlaceOK, Meeting, Other
  <2>2. Goes(e, [conn[e] EXCEPT !.at = "done"], stream[e], <<>>)
    BY <1>1, <2>1 DEF Fails
  <2>3. conn' = [conn EXCEPT ![e].at = "done"]
    BY <2>2 DEF Goes
  <2>4. stream' = [stream EXCEPT ![e] = stream[e], ![o] = stream[o]] /\ DOMAIN stream = Ends
    BY <1>2, <2>2 DEF Goes, TalkInv, TypeInv
  <2>5. DOMAIN stream' = Ends /\ stream'[o] = stream[o] /\ stream'[e] = stream[e]
    BY <2>1, <2>4
  <2>6. "done" \in Talking \cup {"done", "panicked"} /\ "done" \notin Talking
    BY DEF Talking
  <2>7. /\ TalkInv' /\ conn'[e].at = "done" /\ conn'[e].session = conn[e].session
        /\ conn'[o] = conn[o]
    BY Zenon, <1>1, <1>2, <1>5, <2>1, <2>3, <2>5, <2>6, StopKeeps
  <2>8. OnChain(e, "done") /\ Moves(e)
    BY Zenon, <2>1, <2>7 DEF OnChain, Moves, LifeOf, Established
  <2>9. SameChain'
    BY Zenon, <1>1, <1>2, <2>7, <2>8, ChainKept
  <2>10. QED BY Zenon, <2>7, <2>8, <2>9 DEF Kept
<1>6. QED BY Zenon, <1>1, <1>3, <1>4, <1>5

\* The branches of select! that write: a message without content, from the loop
LEMMA LoopSends ==
    ASSUME RlpxInv, NEW e \in Ends, conn[e].at = "loop", NEW rest, RestOK(e, rest),
           NEW c \in {conn[e], Afresh(e)},
           NEW type \in DOMAIN Code \cup ForeignTypes, NEW id \in Requesters \cup {0},
           Sends(e, c, rest, <<Message(type, id, {})>>) \/ Fails(e, c, rest),
           profile' = profile, caps' = caps
    PROVE  Kept(e)
<1>1. conn[e].at \in Talking /\ conn[e].at # "failing" /\ DOMAIN caps = Ends
  BY Zenon, TalkFacts DEF Talking
<1>2. Fits(e, c) /\ c.at = conn[e].at
  BY Zenon, <1>1, Elsewhere
<1>3. OnChain(e, c.at) /\ Onward(conn[e].at, c.at)
  BY Zenon, <1>2, ChainStays, TalkFacts
<1>4. Sayable(e, <<Message(type, id, {})>>)
  BY Zenon, BareSayable
<1>5. QED BY Zenon, <1>1, <1>2, <1>3, <1>4, StepKeeps

\* Transactions of another connection
LEMMA BroadcastKeeps ==
    ASSUME RlpxInv, NEW e \in Ends, Broadcast(e)
    PROVE  Kept(e)
<1>1. PICK rest \in Cancelled(e) :
        \/ Sends(e, Afresh(e), rest, <<Message("Transactions", 0, {})>>)
        \/ Fails(e, Afresh(e), rest)
  BY Zenon DEF Broadcast
<1>2. conn[e].at = "loop" /\ profile' = profile /\ caps' = caps /\ RestOK(e, rest)
  BY Zenon, TalkFacts DEF Broadcast
<1>3. "Transactions" \in DOMAIN Code
  BY Zenon DEF Code
<1>4. QED BY Zenon, <1>1, <1>2, <1>3, LoopSends

\* Its own broadcast
LEMMA EchoKeeps ==
    ASSUME RlpxInv, NEW e \in Ends, Echo(e)
    PROVE  Kept(e)
<1> DEFINE c == [Afresh(e) EXCEPT !.echo = 0]
<1>1. PICK rest \in Cancelled(e) : Goes(e, c, rest, <<>>)
  BY DEF Echo
<1>2. conn[e].at = "loop" /\ profile' = profile /\ caps' = caps /\ RestOK(e, rest)
  BY Zenon, TalkFacts DEF Echo
<1>3. conn[e].at \in Talking /\ conn[e].at # "failing" /\ DOMAIN caps = Ends
  BY <1>2, TalkFacts DEF Talking
<1>4. Fits(e, Afresh(e)) /\ Afresh(e).at = "loop" /\ Afresh(e) \in ConnsOf(e)
  BY Zenon, <1>2, <1>3, Elsewhere DEF Fits
<1>5. c \in ConnsOf(e) /\ c.at = "loop" /\ c.session = Afresh(e).session
  BY <1>4 DEF ConnsOf
<1> HIDE DEF c
<1>6. Fits(e, c)
  BY Zenon, <1>2, <1>3, <1>4, <1>5, FitsToo
<1>7. OnChain(e, c.at) /\ Onward(conn[e].at, c.at) /\ Sends(e, c, rest, <<>>) /\ Sayable(e, <<>>)
  BY Zenon, <1>1, <1>2, <1>5, ChainStays, TalkFacts DEF Sends, Sayable
<1>8. QED BY Zenon, <1>2, <1>3, <1>6, <1>7, StepKeeps

\* A request of the backend
LEMMA ForwardKeeps ==
    ASSUME RlpxInv, NEW e \in Ends, Forward(e)
    PROVE  Kept(e) /\ BackendOK'
<1>1. PICK rest \in Cancelled(e) :
        Sends(e, Afresh(e), rest, <<Message("GetBlockHeaders", Head(requests), {})>>)
  BY Zenon DEF Forward
<1>2. /\ conn[e].at = "loop" /\ profile' = profile /\ caps' = caps /\ RestOK(e, rest)
      /\ requests # <<>> /\ requests' = Tail(requests)
      /\ replies' = replies /\ requester' = requester /\ holder' = holder
  BY Zenon, TalkFacts DEF Forward
<1>3. "GetBlockHeaders" \in DOMAIN Code
  BY Zenon DEF Code
<1>4. requests \in Seq(Requesters) /\ Len(requests) <= Capacity /\ BackendOK
  BY Zenon DEF RlpxInv, BackendOK
<1>5. /\ Head(requests) \in Requesters \cup {0} /\ Tail(requests) \in Seq(Requesters)
      /\ Len(Tail(requests)) <= Capacity
  BY <1>2, <1>4, ConnectionAssumption
<1>6. Kept(e)
  BY Zenon, <1>1, <1>2, <1>3, <1>5, LoopSends
<1>7. QED BY Zenon, <1>2, <1>4, <1>5, <1>6 DEF BackendOK

\* check_periodic_tasks
LEMMA PeriodicKeeps ==
    ASSUME RlpxInv, NEW e \in Ends, Periodic(e)
    PROVE  Kept(e)
<1>1. PICK rest \in Cancelled(e) : Sends(e, Afresh(e), rest, <<Message("Ping", 0, {})>>)
  BY Zenon DEF Periodic
<1>2. conn[e].at = "loop" /\ profile' = profile /\ caps' = caps /\ RestOK(e, rest)
  BY Zenon, TalkFacts DEF Periodic
<1>3. "Ping" \in DOMAIN Code
  BY Zenon DEF Code
<1>4. QED BY Zenon, <1>1, <1>2, <1>3, LoopSends

\* What a foreign end sends
LEMMA ForeignSendsKeeps ==
    ASSUME RlpxInv, NEW e \in Ends, ForeignSends(e)
    PROVE  Kept(e)
<1>1. PICK type \in ForeignTypes : Goes(e, conn[e], stream[e], <<Message(type, 0, {})>>)
  BY Zenon DEF ForeignSends
<1>2. conn[e].at = "loop" /\ profile' = profile /\ caps' = caps /\ RestOK(e, stream[e])
  BY Zenon, TalkFacts DEF ForeignSends
<1>3. Sends(e, conn[e], stream[e], <<Message(type, 0, {})>>)
  BY <1>1 DEF Sends
<1>4. QED BY Zenon, <1>2, <1>3, LoopSends

\* A reply goes to the requesters
LEMMA DeliverKeeps ==
    ASSUME RlpxInv, NEW e \in Ends, Deliver(e)
    PROVE  Kept(e) /\ BackendOK'
<1> DEFINE c == [conn[e] EXCEPT !.at = "loop", !.held = NoMessage]
<1>1. /\ conn[e].at = "deliver" /\ profile' = profile /\ caps' = caps
      /\ requests' = requests /\ requester' = requester /\ holder' = holder
      /\ \/ /\ Len(replies[e]) < Capacity
            /\ replies' = [replies EXCEPT ![e] = Append(@, conn[e].held)]
            /\ Goes(e, c, stream[e], <<>>)
         \/ replies' = replies /\ Fails(e, c, stream[e])
  BY DEF Deliver
<1>2. conn[e].at \in Talking /\ conn[e].at # "failing" /\ "loop" \in Talking
  BY Zenon, <1>1 DEF Talking
<1>3. TalkInv /\ DOMAIN caps = Ends /\ conn[e] \in ConnsOf(e) /\ RestOK(e, stream[e]) /\ BackendOK
  BY TalkFacts DEF RlpxInv
<1>4. c \in ConnsOf(e) /\ c.at = "loop" /\ c.session = conn[e].session /\ conn[e].held \in Messages
  BY Zenon, <1>3, NoMessageType DEF ConnsOf, Places
<1> HIDE DEF c
<1>5. Fits(e, c)
  BY <1>2, <1>3, <1>4, FitsSame
<1>6. OnChain(e, c.at) /\ Onward(conn[e].at, c.at) /\ Sayable(e, <<>>)
  BY Zenon, <1>1, <1>4, ChainStays DEF Onward, LifeAt, Sayable
<1>7. Sends(e, c, stream[e], <<>>) \/ Fails(e, c, stream[e])
  BY Zenon, <1>1 DEF Sends
<1>8. Kept(e)
  BY Zenon, <1>1, <1>2, <1>3, <1>5, <1>6, <1>7, StepKeeps
<1>9. BackendOK'
  <2>1. CASE replies' = replies
    BY Zenon, <1>1, <1>3, <2>1 DEF BackendOK
  <2>2. CASE Len(replies[e]) < Capacity /\ replies' = [replies EXCEPT ![e] = Append(@, conn[e].held)]
    <3>1. DOMAIN replies = Ends /\ \A f \in Ends : replies[f] \in Seq(Messages) /\ Len(replies[f]) <= Capacity
      BY <1>3 DEF BackendOK
    <3>2. DOMAIN replies' = Ends
          /\ \A f \in Ends : replies'[f] = IF f = e THEN Append(replies[e], conn[e].held) ELSE replies[f]
      BY <2>2, <3>1
    <3>3. /\ Append(replies[e], conn[e].held) \in Seq(Messages)
          /\ Len(Append(replies[e], conn[e].held)) = Len(replies[e]) + 1 /\ Len(replies[e]) \in Nat
      BY <1>4, <3>1
    <3>4. Len(replies[e]) + 1 <= Capacity
      BY <2>2, <3>3, ConnectionAssumption
    <3>5. \A f \in Ends : replies'[f] \in Seq(Messages) /\ Len(replies'[f]) <= Capacity
      BY <3>1, <3>2, <3>3, <3>4
    <3>6. QED BY Zenon, <1>1, <1>3, <3>2, <3>5 DEF BackendOK
  <2>3. QED BY Zenon, <1>1, <2>1, <2>2
<1>10. QED BY <1>8, <1>9

\* The end of peer_conn_failed
LEMMA DiscardKeeps ==
    ASSUME RlpxInv, NEW e \in Ends, Discard(e)
    PROVE  Kept(e)
<1>1. conn[e].at \in Talking
  BY DEF Discard, Talking
<1>2. Onward(conn[e].at, "done") /\ OnChain(e, "done")
  BY DEF Discard, Onward, OnChain
<1>3. QED BY Zenon, <1>1, <1>2, TalkStops DEF Discard

\* Every step of an end
LEMMA EndKeeps ==
    ASSUME RlpxInv, NEW e \in Ends, Task(e) \/ Broadcast(e) \/ Periodic(e) \/ ForeignSends(e)
    PROVE  Kept(e) /\ BackendOK'
<1>1. BackendOK
  BY Zenon DEF RlpxInv
<1>2. ASSUME UNCHANGED backend PROVE BackendOK'
  BY <1>1, <1>2 DEF backend, BackendOK
<1>3. CASE SendAuth(e)
  BY Zenon, <1>2, <1>3, SendAuthKeeps DEF SendAuth
<1>4. CASE ReceiveAuth(e)
  BY Zenon, <1>2, <1>4, ReceiveAuthKeeps DEF ReceiveAuth
<1>5. CASE SendAck(e)
  BY Zenon, <1>2, <1>5, SendAckKeeps DEF SendAck
<1>6. CASE ReceiveAck(e)
  BY Zenon, <1>2, <1>6, ReceiveAckKeeps DEF ReceiveAck
<1>7. CASE SendHello(e)
  BY <1>2, <1>7, SendHelloKeeps DEF SendHello
<1>8. CASE OpenChannels(e)
  BY Zenon, <1>2, <1>8, OpenChannelsKeeps DEF OpenChannels
<1>9. CASE SendStatus(e)
  BY <1>2, <1>9, SendStatusKeeps DEF SendStatus
<1>10. CASE ReadHeader(e)
  BY Zenon, <1>2, <1>10, ReadHeaderKeeps DEF ReadHeader
<1>11. CASE ReadData(e)
  BY Zenon, <1>2, <1>11, ReadDataKeeps DEF ReadData
<1>12. CASE ReadFails(e)
  BY <1>2, <1>12, ReadFailsKeeps DEF ReadFails
<1>13. CASE Echo(e)
  BY <1>2, <1>13, EchoKeeps DEF Echo
<1>14. CASE Forward(e)
  BY <1>14, ForwardKeeps
<1>15. CASE Deliver(e)
  BY <1>15, DeliverKeeps
<1>16. CASE Discard(e)
  BY Zenon, <1>2, <1>16, DiscardKeeps DEF Discard
<1>17. CASE Broadcast(e)
  BY Zenon, <1>2, <1>17, BroadcastKeeps DEF Broadcast
<1>18. CASE Periodic(e)
  BY Zenon, <1>2, <1>18, PeriodicKeeps DEF Periodic
<1>19. CASE ForeignSends(e)
  BY <1>2, <1>19, ForeignSendsKeeps DEF ForeignSends
<1>20. QED BY <1>3, <1>4, <1>5, <1>6, <1>7, <1>8, <1>9, <1>10, <1>11, <1>12, <1>13, <1>14, <1>15,
              <1>16, <1>17, <1>18, <1>19 DEF Task

----------------------------------------------------------------------------
(* The requesters *)

\* The requesters keep to their channels
LEMMA RequesterKeeps ==
    ASSUME RlpxInv, NEW q \in Requesters, Request(q) \/ Requesting(q)
    PROVE  UNCHANGED <<conn, stream, profile, caps>> /\ BackendOK'
<1>1. BackendOK
  BY DEF RlpxInv
<1>2. /\ requests \in Seq(Requesters) /\ Len(requests) <= Capacity /\ DOMAIN replies = Ends
      /\ \A e \in Ends : replies[e] \in Seq(Messages) /\ Len(replies[e]) <= Capacity
  BY <1>1 DEF BackendOK
<1>3. CASE Request(q)
  <2>1. UNCHANGED <<conn, stream, profile, caps, requests, replies, holder>>
    BY <1>3 DEF Request
  <2>2. QED BY <1>1, <2>1 DEF BackendOK
<1>4. CASE SendRequest(q)
  <2>1. /\ UNCHANGED <<conn, stream, profile, caps, replies, holder>>
        /\ requests' = requests \/ (Len(requests) < Capacity /\ requests' = Append(requests, q))
    BY <1>4 DEF SendRequest
  <2>2. CASE requests' = requests
    BY <1>1, <2>1, <2>2 DEF BackendOK
  <2>3. CASE Len(requests) < Capacity /\ requests' = Append(requests, q)
    <3>1. /\ Append(requests, q) \in Seq(Requesters)
          /\ Len(Append(requests, q)) = Len(requests) + 1 /\ Len(requests) \in Nat
      BY <1>2
    <3>2. requests' \in Seq(Requesters) /\ Len(requests') <= Capacity
      BY <2>3, <3>1, ConnectionAssumption
    <3>3. QED BY <1>1, <2>1, <3>2 DEF BackendOK
  <2>4. QED BY <2>1, <2>2, <2>3
<1>5. CASE LockReceiver(q)
  <2>1. UNCHANGED <<conn, stream, profile, caps, requests, replies>> /\ holder' = {q}
    BY <1>5 DEF LockReceiver
  <2>2. QED BY <1>1, <2>1 DEF BackendOK
<1>6. CASE GiveUp(q)
  <2>1. UNCHANGED <<conn, stream, profile, caps, requests, replies>> /\ holder' = {}
    BY Zenon, <1>6 DEF GiveUp
  <2>2. QED BY <1>1, <2>1 DEF BackendOK
<1>7. CASE TakeReply(q)
  <2> DEFINE i == "initiator"
  <2>1. /\ UNCHANGED <<conn, stream, profile, caps, requests>>
        /\ replies[i] # <<>> /\ replies' = [replies EXCEPT ![i] = Tail(@)]
        /\ holder' = {} \/ holder' = holder
    BY <1>7 DEF TakeReply
  <2>2. i \in Ends
    BY DEF Ends
  <2>3. Tail(replies[i]) \in Seq(Messages) /\ Len(Tail(replies[i])) <= Capacity
    <3>1. replies[i] \in Seq(Messages) /\ Len(replies[i]) <= Capacity
      BY <1>2, <2>2
    <3>2. Tail(replies[i]) \in Seq(Messages) /\ Len(Tail(replies[i])) = Len(replies[i]) - 1
          /\ Len(replies[i]) \in Nat
      BY <2>1, <3>1
    <3>3. QED BY <3>1, <3>2, ConnectionAssumption
  <2>4. DOMAIN replies' = Ends /\ \A f \in Ends : replies'[f] = IF f = i THEN Tail(replies[i]) ELSE replies[f]
    BY Zenon, <1>2, <2>1
  <2>5. \A f \in Ends : replies'[f] \in Seq(Messages) /\ Len(replies'[f]) <= Capacity
    BY Zenon, <1>2, <2>3, <2>4
  <2>6. holder' \subseteq Requesters
    BY <1>1, <2>1 DEF BackendOK
  <2>7. QED BY Zenon, <1>2, <2>1, <2>4, <2>5, <2>6 DEF BackendOK
<1>8. QED BY <1>3, <1>4, <1>5, <1>6, <1>7 DEF Requesting

\* What does not touch the ends keeps what they know
LEMMA EndsSame ==
    ASSUME RlpxInv, UNCHANGED <<conn, stream, profile, caps>>
    PROVE  TalkInv' /\ SameChain' /\ \A e \in Ends : LifeOf(e)' = LifeOf(e)
<1>1. TalkInv /\ SameChain
  BY Zenon DEF RlpxInv, TalkInv
<1>2. TypeInv'
  BY Zenon, <1>1 DEF TalkInv, TypeInv
<1>3. \A e \in Ends : Said(e)' = Said(e) /\ StatusInfo(e)' = StatusInfo(e) /\ LifeOf(e)' = LifeOf(e)
  BY DEF Said, StatusInfo, LifeOf, Established
<1>4. \A e \in Ends : PlaceOK(e)' /\ MacsOK(e)' /\ StatusOK(e)'
  <2> SUFFICES ASSUME NEW e \in Ends PROVE PlaceOK(e)' /\ MacsOK(e)' /\ StatusOK(e)'
    OBVIOUS
  <2>1. PlaceOK(e) /\ MacsOK(e) /\ StatusOK(e) /\ Other(e) \in Ends
    BY Zenon, <1>1, TwoEnds DEF TalkInv
  <2>2. PlaceOK(e)'
    BY Zenon, <2>1 DEF PlaceOK
  <2>3. MacsOK(e)'
    BY Zenon, <1>3, <2>1 DEF MacsOK
  <2>4. StatusOK(e)'
    BY Zenon, <1>3, <2>1 DEF StatusOK
  <2>5. QED BY <2>2, <2>3, <2>4
<1>5. HandshakeOK'
  BY Zenon, <1>1 DEF TalkInv, HandshakeOK, Meant
<1>6. SameChain'
  BY <1>1 DEF SameChain
<1>7. QED BY <1>2, <1>3, <1>4, <1>5, <1>6 DEF TalkInv

----------------------------------------------------------------------------
(* The theorems *)

\* The initial states
LEMMA InitInv ==
    Init => RlpxInv
<1> SUFFICES ASSUME Init PROVE RlpxInv
  OBVIOUS
<1>1. \A e \in Ends : conn[e] = Start /\ stream[e] = <<>>
  BY Zenon DEF Init
<1>2. \A e \in Ends : Start \in ConnsOf(e)
  BY Zenon, NoMessageType DEF Start, ConnsOf, Places
<1>3. /\ Start.at = "start" /\ Start.session = NoSession
  BY Zenon DEF Start
<1>4. TypeInv
  <2>1. DOMAIN conn = Ends /\ DOMAIN stream = Ends /\ DOMAIN caps = Ends
    BY DEF Init
  <2>2. profile \in [Ends -> AllProfiles]
    BY DEF Init, AllProfiles
  <2>3. \A e \in Ends : <<>> \in Seq(BlocksOf(Other(e)))
    OBVIOUS
  <2>4. QED BY Zenon, <1>1, <1>2, <2>1, <2>2, <2>3 DEF TypeInv
<1>5. \A e \in Ends : Said(e) = <<>>
  BY Zenon, <1>1, <1>3 DEF Said
<1>6. \A e \in Ends : PlaceOK(e)
  BY Zenon, <1>1, <1>3 DEF PlaceOK, Talking
<1>7. \A e \in Ends : MacsOK(e)
  BY <1>1, <1>3 DEF MacsOK
<1>8. \A e \in Ends : StatusOK(e)
  BY <1>5 DEF StatusOK
<1>9. HandshakeOK
  <2>1. "initiator" \in Ends /\ "receiver" \in Ends
    BY Zenon DEF Ends
  <2>2. QED BY <1>1, <1>3, <2>1 DEF HandshakeOK
<1>10. SameChain
  BY Zenon, <1>1, <1>3 DEF SameChain
<1>11. BackendOK
  <2>1. requests \in Seq(Requesters) /\ Len(requests) <= Capacity /\ holder \subseteq Requesters
    BY ConnectionAssumption DEF Init
  <2>2. DOMAIN replies = Ends /\ \A e \in Ends : replies[e] = <<>>
    BY DEF Init
  <2>3. <<>> \in Seq(Messages) /\ Len(<<>>) <= Capacity
    BY ConnectionAssumption
  <2>4. QED BY Zenon, <2>1, <2>2, <2>3 DEF BackendOK
<1>12. QED BY <1>4, <1>6, <1>7, <1>8, <1>9, <1>10, <1>11 DEF RlpxInv

\* A step keeps the invariant, and moves each end as ConnectionLife does
LEMMA NextInv ==
    ASSUME RlpxInv, [Next]_vars
    PROVE  RlpxInv' /\ \A e \in Ends : Moves(e)
<1>1. ASSUME NEW e \in Ends, Task(e) \/ Broadcast(e) \/ Periodic(e) \/ ForeignSends(e)
      PROVE  RlpxInv' /\ \A f \in Ends : Moves(f)
  <2>1. Kept(e) /\ BackendOK'
    BY Zenon, <1>1, EndKeeps
  <2>2. LifeOf(Other(e))' = LifeOf(Other(e))
    BY Zenon, <2>1 DEF Kept, LifeOf, Established
  <2>3. Moves(Other(e)) /\ Moves(e)
    BY Zenon, <2>1, <2>2 DEF Moves, Kept
  <2>4. QED BY Zenon, <2>1, <2>3, TwoEnds DEF Kept, TalkInv, RlpxInv
<1>2. ASSUME UNCHANGED <<conn, stream, profile, caps>>, BackendOK'
      PROVE  RlpxInv' /\ \A f \in Ends : Moves(f)
  BY <1>2, EndsSame DEF RlpxInv, TalkInv, Moves
<1>3. ASSUME NEW q \in Requesters, Request(q) \/ Requesting(q)
      PROVE  RlpxInv' /\ \A f \in Ends : Moves(f)
  BY <1>2, <1>3, RequesterKeeps
<1>4. CASE UNCHANGED vars
  <2>1. BackendOK'
    BY <1>4 DEF RlpxInv, BackendOK, vars
  <2>2. UNCHANGED <<conn, stream, profile, caps>>
    BY Zenon, <1>4 DEF vars
  <2>3. QED BY Zenon, <1>2, <2>1, <2>2
<1>5. QED BY Zenon, <1>1, <1>3, <1>4 DEF Next

\* The sessions that the two ends derive go together
LEMMA FreshAgree ==
    /\ FreshOf("initiator").macKey = FreshOf("receiver").macKey
    /\ FreshOf("initiator").aesKey = FreshOf("receiver").aesKey
    /\ \A e \in Ends :
         /\ FreshOf(e).remote = Local(Other(e)).node
         /\ FreshOf(e).egressMac.seed = FreshOf(Other(e)).ingressMac.seed
         /\ FreshOf(e).egressMac.init = FreshOf(Other(e)).ingressMac.init
<1> DEFINE i == Local("initiator")
           r == Local("receiver")
           nonces == <<r.nonce, i.nonce>>
<1>1. Other("initiator") = "receiver" /\ Other("receiver") = "initiator"
  BY DEF Other
<1>2. Ecdh(i.ephemeral, r.ephemeral) = Ecdh(r.ephemeral, i.ephemeral)
  BY Zenon DEF Ecdh
<1>3. /\ FreshOf("initiator") = NewSession(i, r, Auth, Ack, nonces)
      /\ FreshOf("receiver") = NewSession(r, i, Ack, Auth, nonces)
  BY Zenon, <1>1 DEF FreshOf, InitOf
<1> DEFINE a == FreshOf("initiator")
           b == FreshOf("receiver")
           secret == Ecdh(i.ephemeral, r.ephemeral)
<1> HIDE DEF i, r, nonces, a, b
<1>4. /\ a.remote = r.node /\ a.aesKey = <<secret, <<secret, nonces>>>>
      /\ a.macKey = <<secret, a.aesKey>>
      /\ a.egressMac.seed = <<a.macKey, r.nonce>> /\ a.egressMac.init = Auth
      /\ a.ingressMac.seed = <<a.macKey, i.nonce>> /\ a.ingressMac.init = Ack
  <2>1. a = NewSession(i, r, Auth, Ack, nonces)
    BY Zenon, <1>3 DEF a
  <2>2. QED BY <2>1, SessionFields
<1>5. /\ b.remote = i.node /\ b.aesKey = <<secret, <<secret, nonces>>>>
      /\ b.macKey = <<secret, b.aesKey>>
      /\ b.egressMac.seed = <<b.macKey, i.nonce>> /\ b.egressMac.init = Ack
      /\ b.ingressMac.seed = <<b.macKey, r.nonce>> /\ b.ingressMac.init = Auth
  <2>1. b = NewSession(r, i, Ack, Auth, nonces)
    BY Zenon, <1>3 DEF b
  <2>2. QED BY <1>2, <2>1, SessionFields
<1>6. /\ a.macKey = b.macKey /\ a.aesKey = b.aesKey
      /\ a.egressMac.seed = b.ingressMac.seed /\ b.egressMac.seed = a.ingressMac.seed
      /\ a.egressMac.init = b.ingressMac.init /\ b.egressMac.init = a.ingressMac.init
  BY Zenon, <1>4, <1>5
<1>7. QED BY Zenon, <1>1, <1>4, <1>5, <1>6 DEF Ends, i, r, a, b

\* What the invariant says of two ends that talk
LEMMA AgreeInv ==
    RlpxInv => EndsAgree
<1> SUFFICES ASSUME RlpxInv PROVE EndsAgree
  OBVIOUS
<1>1. TalkInv /\ SameChain /\ BackendOK /\ TypeInv
  BY Zenon DEF RlpxInv, TalkInv
<1>2. TypeOK
  <2>1. \A e \in Ends : conn[e].at \in Places
    BY Zenon, <1>1 DEF TypeInv, ConnsOf
  <2>2. ASSUME NEW e \in Ends, NEW i \in DOMAIN stream[e]
        PROVE  stream[e][i].kind \in {"handshake", "header", "data", "mac"}
    <3>1. stream[e] \in Seq(BlocksOf(Other(e)))
      BY <1>1 DEF TypeInv
    <3>2. stream[e][i] \in BlocksOf(Other(e))
      BY <3>1
    <3>3. QED BY Zenon, <3>2 DEF BlocksOf, Plain, MacBlocks, Handshakes
  <2>3. /\ holder \subseteq Requesters /\ Len(requests) <= Capacity
        /\ \A e \in Ends : Len(replies[e]) <= Capacity
    BY Zenon, <1>1 DEF BackendOK
  <2>4. QED BY Zenon, <2>1, <2>2, <2>3 DEF TypeOK, Places
<1>3. SecretsAgree
  <2> SUFFICES ASSUME Established("initiator"), Established("receiver") PROVE SecretsAgree
    BY Zenon DEF SecretsAgree
  <2>1. \A e \in Ends : Other(e) \in Ends /\ conn[e].session \in SessionsOf(e)
    BY <1>1, SessionType, TwoEnds DEF Established, Ends
  <2>2. \A e \in Ends :
          /\ conn[e].session.remote = FreshOf(e).remote
          /\ conn[e].session.macKey = FreshOf(e).macKey /\ conn[e].session.aesKey = FreshOf(e).aesKey
          /\ conn[e].session.egressMac.seed = FreshOf(e).egressMac.seed
          /\ conn[e].session.egressMac.init = FreshOf(e).egressMac.init
          /\ conn[e].session.ingressMac.seed = FreshOf(e).ingressMac.seed
          /\ conn[e].session.ingressMac.init = FreshOf(e).ingressMac.init
    BY Zenon, <2>1 DEF SessionsOf, MacsOf
  <2>3. "initiator" \in Ends /\ "receiver" \in Ends
    BY Zenon DEF Ends
  <2>4. /\ conn["initiator"].session.macKey = conn["receiver"].session.macKey
        /\ conn["initiator"].session.aesKey = conn["receiver"].session.aesKey
    BY Zenon, <2>2, <2>3, FreshAgree
  <2>5. ASSUME NEW e \in Ends
        PROVE  /\ conn[e].session.remote = Local(Other(e)).node
               /\ conn[e].session.egressMac.seed = conn[Other(e)].session.ingressMac.seed
               /\ conn[e].session.egressMac.init = conn[Other(e)].session.ingressMac.init
    BY Zenon, <2>1, <2>2, FreshAgree
  <2>6. QED BY Zenon, <2>4, <2>5 DEF SecretsAgree
<1>4. StreamsInStep
  BY Zenon, <1>1 DEF TalkInv, MacsOK, StreamsInStep, Established, Said
<1>5. QED BY <1>1, <1>2, <1>3, <1>4 DEF EndsAgree

\* The invariant, always
LEMMA InvAlways ==
    Spec => []RlpxInv
<1>1. RlpxInv /\ [Next]_vars => RlpxInv'
  BY NextInv
<1>2. QED BY <1>1, InitInv, PTL DEF Spec

\* The two ends of a connection agree on their secrets, on what has been said and on
\* the chain (handshake.rs, frame.rs, handle_peer_conn), however often select! drops a
\* read half way and whatever a foreign end sends
THEOREM EndsAlwaysAgree ==
    Spec => []EndsAgree
BY InvAlways, AgreeInv, PTL

\* Each end goes through the states that the table of peers gives a connection
\* (start_peer): the detailed connection implements ConnectionLife
THEOREM ImplementsLife ==
    Spec => LifeKept
<1>1. "initiator" \in Ends /\ "receiver" \in Ends
  BY Zenon DEF Ends
<1>2. Init => InitiatorLife!Init /\ ReceiverLife!Init
  <2>1. Init => conn["initiator"].session = NoSession /\ conn["receiver"].session = NoSession
    BY <1>1 DEF Init, Start
  <2>2. QED BY Zenon, <2>1 DEF LifeOf, Established, InitiatorLife!Init, ReceiverLife!Init
<1>3. RlpxInv /\ [Next]_vars => [InitiatorLife!Next]_(LifeOf("initiator"))
  <2>1. RlpxInv /\ [Next]_vars => Moves("initiator")
    BY <1>1, NextInv
  <2>2. Moves("initiator") => [InitiatorLife!Next]_(LifeOf("initiator"))
    BY DEF Moves, InitiatorLife!Next, InitiatorLife!Accept, InitiatorLife!Open, InitiatorLife!Fail,
           InitiatorLife!Discard, InitiatorLife!Panic
  <2>3. QED BY <2>1, <2>2
<1>4. RlpxInv /\ [Next]_vars => [ReceiverLife!Next]_(LifeOf("receiver"))
  <2>1. RlpxInv /\ [Next]_vars => Moves("receiver")
    BY <1>1, NextInv
  <2>2. Moves("receiver") => [ReceiverLife!Next]_(LifeOf("receiver"))
    BY DEF Moves, ReceiverLife!Next, ReceiverLife!Accept, ReceiverLife!Open, ReceiverLife!Fail,
           ReceiverLife!Discard, ReceiverLife!Panic
  <2>3. QED BY <2>1, <2>2
<1>5. QED BY <1>2, <1>3, <1>4, InvAlways, PTL
            DEF Spec, LifeKept, InitiatorLife!Spec, ReceiverLife!Spec

==============================================================================
