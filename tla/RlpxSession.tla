----------------------------- MODULE RlpxSession -----------------------------
(***************************************************************************)
(* The secrets and frames of an RLPx session: rlpx/handshake.rs, the       *)
(* Established state of rlpx/connection.rs and rlpx/frame.rs.              *)
(*                                                                         *)
(* Cryptography is symbolic.  A public key is named as its secret key, a   *)
(* hash or an exclusive or is the tuple of what went in, and a ciphertext  *)
(* is read with the key and at the place of the key stream it was made     *)
(* with.  A stream is cut in blocks of 16 bytes; a frame has four of them: *)
(* header, header MAC, data and frame MAC.                                 *)
(***************************************************************************)
EXTENDS Integers, Sequences

\* The session of a connection that is not established
NoSession == <<>>

\* What recovery yields for a signature over something else
OtherKey == "other key"

Ecdh(secret, public) == {secret, public}

SignSharedSecret(shared, nonce, ephemeral) == [by |-> ephemeral, over |-> <<shared, nonce>>]

RetrieveRemoteEphemeralKey(shared, nonce, signature) ==
    IF signature.over = <<shared, nonce>> THEN signature.by ELSE OtherKey

EncryptMessage(public, msg) == [to |-> public, msg |-> msg]

\* The MAC of a message for another key does not match, and assert_eq panics
DecryptFails(static, cipher) == cipher.to # static

EncodeAuthMessage(static, nonce, remote, ephemeral) ==
    EncryptMessage(remote, [signature |-> SignSharedSecret(Ecdh(static, remote), nonce, ephemeral),
                            node |-> static, nonce |-> nonce])

DecodeAuthMessage(static, cipher) ==
    LET auth == cipher.msg
    IN  [node |-> auth.node, nonce |-> auth.nonce,
         ephemeral |-> RetrieveRemoteEphemeralKey(Ecdh(static, auth.node), auth.nonce, auth.signature)]

EncodeAckMessage(ephemeral, nonce, remote) ==
    EncryptMessage(remote, [ephemeral |-> ephemeral, nonce |-> nonce])

DecodeAckMessage(cipher) == cipher.msg

\* Established::new; a side is its keys and nonce, an init message its cipher
NewSession(local, remote, localInit, remoteInit, hashedNonces) ==
    LET secret == Ecdh(local.ephemeral, remote.ephemeral)
        shared == <<secret, hashedNonces>>
        aesKey == <<secret, shared>>
        macKey == <<secret, aesKey>>
    IN  [remote |-> remote.node, macKey |-> macKey, aesKey |-> aesKey,
         egressMac  |-> [seed |-> <<macKey, remote.nonce>>, init |-> localInit, log |-> <<>>],
         ingressMac |-> [seed |-> <<macKey, local.nonce>>, init |-> remoteInit, log |-> <<>>],
         egressAes |-> 0, ingressAes |-> 0]

ForInitiator(local, remote, localInit, remoteInit) ==
    NewSession(local, remote, localInit, remoteInit, <<remote.nonce, local.nonce>>)

ForReceiver(local, remote, localInit, remoteInit) ==
    NewSession(local, remote, localInit, remoteInit, <<local.nonce, remote.nonce>>)

----------------------------------------------------------------------------
(* Frames *)

Block(kind, at, body) == [kind |-> kind, at |-> at, body |-> body]

Update(mac, block) == [mac EXCEPT !.log = Append(@, block)]

\* The message of a header, and of a block that is decrypted at the wrong place
NoMessage == [type |-> "none", id |-> 0, info |-> {}]

Header(at) == Block("header", at, NoMessage)
Data(at, msg) == Block("data", at, msg)

\* frame::write: the session after one message ...
Written(session, msg) ==
    [session EXCEPT !.egressAes = @ + 2,
                    !.egressMac = Update(Update(@, Header(session.egressAes)),
                                         Data(session.egressAes + 1, msg))]

\* ... and the blocks of its frame
Frame(session, msg) ==
    LET header == Header(session.egressAes)
        data == Data(session.egressAes + 1, msg)
        headerMac == Update(session.egressMac, header)
    IN  <<header, Block("mac", 0, headerMac), data, Block("mac", 0, Update(headerMac, data))>>

\* Faulty variant: the MAC is not compared
MacMatchesAny(mac, kind, first, second) == first.kind \in {"header", "data"}

\* The second block is the MAC of all that came before and the first one, as a header
\* or as data: the two MACs are computed in different ways
MacMatches(mac, kind, first, second) ==
    first.kind = kind /\ second.kind = "mac" /\ second.body = Update(mac, first)

\* frame::read: both of its parts take a block, and its MAC, into the session
BlockRead(session, block) ==
    [session EXCEPT !.ingressMac = Update(@, block), !.ingressAes = @ + 1]

Decrypted(session, block) == IF block.at = session.ingressAes THEN block.body ELSE NoMessage

============================================================================
