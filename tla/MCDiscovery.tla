------------------------------ MODULE MCDiscovery ------------------------------
(* Two remote nodes that share a bucket, and the local node's own bucket. *)
EXTENDS Discovery, TLC

CONSTANTS me, n1, n2

ThreeNodes == {me, n1, n2}

TwoBits == (me :> <<0, 0>>) @@ (n1 :> <<1, 0>>) @@ (n2 :> <<1, 1>>)

Boot == <<n1>>

Lists == {<<n2>>, <<n1, n2>>}

Pairs == {{"revalidation", "lookup"}, {"revalidation", "connection"}}

==============================================================================
