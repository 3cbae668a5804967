------------------------------ MODULE MCTasks ------------------------------
(* Small instances of Tasks for TLC. *)
EXTENDS Tasks

NoSkew == [n \in Nodes |-> 0]

\* The first node is busy: its claims are stamped late.
FirstBusy == [n \in Nodes |-> IF n = 1 THEN 2 ELSE 0]

Pair == {<<1, 2>>, <<2, 1>>}

AllLinks == {l \in Nodes \X Nodes : l[1] # l[2]}
=============================================================================
