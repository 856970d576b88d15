----------------------------- MODULE MCL2Proposer -----------------------------
(* Small instances of L2Proposer. *)
EXTENDS L2Proposer

\* Everything but a restart goes wrong
NoRestart == FaultKinds \ {"restart"}

\* Every block can be committed
AllDiffable == FaultKinds \ {"diff"}

==============================================================================
