--------------------------- MODULE ConnectionLife ---------------------------
(***************************************************************************)
(* What the routing table sees of a connection: the states between which   *)
(* start_peer (rlpx/connection.rs) moves.  Discovery has these steps as    *)
(* its Conn actions; RlpxConnection, with handshake, frames and messages,  *)
(* implements them.                                                        *)
(***************************************************************************)
VARIABLE life

\* auth and ack are exchanged: the remote node is known
Accept == life = "none" /\ life' = "hello"

\* Hello is exchanged, and set_channels was called
Open == life = "hello" /\ life' = "open"

\* peer_conn_failed is entered, and left after replace_peer
Fail == life \in {"hello", "open"} /\ life' = "failing"
Discard == life = "failing" /\ life' = "done"

\* An assertion ends the task where it is
Panic == life \in {"hello", "open"} /\ life' = "panicked"

Init == life = "none"
Next == Accept \/ Open \/ Fail \/ Discard \/ Panic
Spec == Init /\ [][Next]_life

============================================================================
