--------------------------- MODULE MCStoreHistory ---------------------------
(* Small instances of StoreHistory for TLC. *)
EXTENDS StoreHistory

MCSkew == [n \in Nodes |-> IF n = 1 THEN 1 ELSE 0]

Pair == {<<1, 2>>, <<2, 1>>}
=============================================================================
