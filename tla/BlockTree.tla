------------------------------ MODULE BlockTree ------------------------------
(***************************************************************************)
(* The blocks a node may be handed, as the chain code sees them: a hash, a *)
(* parent hash, a number, and the check of add_block the block would fail. *)
(* Hashes are members of Blocks; None is the zero hash and "no entry".     *)
(***************************************************************************)
EXTENDS Integers

CONSTANTS
    Blocks,      \* every block (hash) that can be delivered, genesis included
    Genesis,     \* the genesis block
    None,        \* the zero hash, and the absence of a table entry
    Parent,      \* parent_hash of each block
    Number,      \* header number of each block
    Defect,      \* the check of add_block that the block fails, or "none"
    MaxHeight    \* bound on the block numbers considered

(***************************************************************************)
(* Where add_block stops: validate_block fails ("header"), execute_block   *)
(* or validate_gas_used fails ("execution"), or the post-state or receipts *)
(* root differs after the state was written ("root").                      *)
(***************************************************************************)
DefectKinds == {"none", "header", "execution", "root"}

Heights == 0 .. MaxHeight

(***************************************************************************)
(* validate_block_header accepts a block only when its number is one above *)
(* its parent's, so only a block with a "header" defect is free of it.     *)
(***************************************************************************)
ASSUME TreeAssumption ==
    /\ None \notin Blocks
    /\ Genesis \in Blocks
    /\ MaxHeight \in Nat
    /\ Number \in [Blocks -> Heights]
    /\ Parent \in [Blocks -> Blocks \cup {None}]
    /\ Defect \in [Blocks -> DefectKinds]
    /\ Number[Genesis] = 0
    /\ Defect[Genesis] = "none"
    /\ \A b \in Blocks \ {Genesis} :
          Defect[b] # "header" =>
             Parent[b] \in Blocks /\ Number[b] = Number[Parent[b]] + 1

\* A set with the parents of its members, as far as they have an ancestry
ParentClosed(S) == \A b \in S : b = Genesis \/ Defect[b] = "header" \/ Parent[b] \in S

(***************************************************************************)
(* A block and its ancestors, by following parent hashes: what every set   *)
(* that has the block and is closed under parents contains.  Blocks with a *)
(* header defect have no meaningful ancestry.                              *)
(***************************************************************************)
Ancestors ==
    [b \in Blocks |->
        {a \in Blocks : \A S \in SUBSET Blocks : b \in S /\ ParentClosed(S) => a \in S}]

==============================================================================
