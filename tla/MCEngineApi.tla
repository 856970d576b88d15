----------------------------- MODULE MCEngineApi -----------------------------
(* Small instances of EngineApi: block trees and fork choice states.       *)
EXTENDS EngineApi, TLC

\* Two branches from genesis, of three and two blocks
TreeBlocks == {"g", "a1", "a2", "a3", "b1", "b2"}
\* The same, two blocks each
ForkBlocks == {"g", "a1", "a2", "b1", "b2"}
\* Two short branches, one ending in a block whose state root is wrong
FaultyBlocks == {"g", "a1", "b1", "b2", "x2"}

\* A node that has stored nothing but genesis, and one that has stored b1
Fresh == {"g"}
OneStored == {"g", "b1"}

MCParent ==
    [b \in Blocks |->
        CASE b = "g" -> None [] b \in {"a1", "b1"} -> "g" [] b \in {"a2", "x2"} -> "a1"
          [] b = "a3" -> "a2" [] b = "b2" -> "b1" ]
MCNumber ==
    [b \in Blocks |->
        CASE b = "g" -> 0 [] b \in {"a1", "b1"} -> 1 [] b \in {"a2", "b2", "x2"} -> 2
          [] b = "a3" -> 3]
MCDefect == [b \in Blocks |-> IF b = "x2" THEN "root" ELSE "none"]

Request(h, s, f) == [head |-> h, safe |-> s, finalized |-> f]

\* Any head, with any hash as both safe and finalized
TaggedRequests == {Request(h, s, s) : h \in Hash, s \in Hash}

\* Any head without safe and finalized blocks
HeadRequests == {Request(h, None, None) : h \in Blocks}

\* Any head with any finalized block and no safe one
FinalizedRequests == {Request(h, None, f) : h \in Blocks, f \in Hash}

\* What a consistent client sends: finalized, safe and head on one branch
ConnectedRequests ==
    {r \in [head : Blocks, safe : Blocks, finalized : Blocks] :
        r.safe \in Ancestors[r.head] /\ r.finalized \in Ancestors[r.safe]}

\* Handlers are interchangeable
HandlerSymmetry == Permutations(Handlers)

==============================================================================
