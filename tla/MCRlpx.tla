------------------------------- MODULE MCRlpx -------------------------------
(***************************************************************************)
(* RlpxConnection for TLC: the receiver may be another client.             *)
(***************************************************************************)
EXTENDS RlpxConnection, TLC

CONSTANTS q1, q2

\* An initiator that knows an outdated key; as receiver another client, also one
\* without eth, with nothing in common, with an unknown capability, on another chain,
\* or with a version of Status that is not decoded
MCProfiles ==
    [initiator |-> {[Ours EXCEPT !.target = <<"receiver", "old node">>]},
     receiver |-> {[p EXCEPT !.foreign = TRUE] : p \in
        {Ours, [Ours EXCEPT !.caps = {<<"snap", 1>>}], [Ours EXCEPT !.caps = {<<"eth", 67>>}],
         [Ours EXCEPT !.caps = {Eth, <<"les", 4>>}],
         [Ours EXCEPT !.chain = "other"], [Ours EXCEPT !.chain = "old version"]}}]

============================================================================
