--------------------------- MODULE CanonicalChain ---------------------------
(***************************************************************************)
(* What the Engine API promises its client, without tables, handlers or    *)
(* intermediate writes: a set of imported blocks that only grows along     *)
(* parent links, and a canonical chain that moves in one step from the     *)
(* chain of one imported head to the chain of another.                     *)
(***************************************************************************)
EXTENDS BlockTree

VARIABLES
    imported,   \* blocks executed and stored
    chain       \* the canonical chain, from genesis at 0 to the head

chainVars == <<imported, chain>>

\* c is the chain of imported blocks that ends in head
IsChainOf(c, head) ==
    /\ c \in [0 .. Number[head] -> imported]
    /\ c[0] = Genesis
    /\ c[Number[head]] = head
    /\ \A n \in 1 .. Number[head] : Parent[c[n]] = c[n - 1]

Init ==
    /\ imported \subseteq Blocks
    /\ Genesis \in imported
    /\ chain = [n \in {0} |-> Genesis]

\* newPayload: a sound block whose parent is there
Import(b) ==
    /\ Parent[b] \in imported
    /\ Defect[b] = "none"
    /\ imported' = imported \cup {b}
    /\ UNCHANGED chain

\* forkchoiceUpdated: an imported block becomes the head
Adopt(head) ==
    /\ IsChainOf(chain', head)
    /\ UNCHANGED imported

Next == \E b \in Blocks : Import(b) \/ Adopt(b)

Spec == Init /\ [][Next]_chainVars

==============================================================================
