--------------------------- MODULE MCAntiEntropy ---------------------------
(* Two nodes with equal clocks; node 1 counts one bucket, node 2 two. *)
EXTENDS AntiEntropy

MCNoSkew == [n \in Nodes |-> 0]

Pair == {<<1, 2>>, <<2, 1>>}

MCBucketOf ==
    [n \in Nodes |-> [k \in Keys |-> IF n = 1 \/ k = CHOOSE j \in Keys : TRUE THEN 0 ELSE 1]]
=============================================================================
