----------------------------- MODULE MCPlumtree -----------------------------
(***************************************************************************)
(* Instances of Plumtree: a triangle and two broadcasts, of one node or of *)
(* two, with a lost message; over TCP the same triangle and one broadcast, *)
(* with a lost message or with crashes, and a line and two broadcasts.     *)
(***************************************************************************)
EXTENDS Plumtree

Triangle == [n \in Nodes |-> Nodes \ {n}]
Line == [n \in Nodes |-> {p \in Nodes : p = n - 1 \/ p = n + 1}]

MCStart(suspends, neighbors, second, mortal, maxLosses) ==
    [suspends |-> suspends, neighbors |-> neighbors, publishers |-> <<{1}, second>>,
     mortal |-> mortal, maxLosses |-> maxLosses]

MCStarts == {MCStart(FALSE, Triangle, {1, 2}, {}, 1),
             MCStart(TRUE, Triangle, {}, {}, 1),
             MCStart(TRUE, Triangle, {}, {1, 3}, 0),
             MCStart(TRUE, Line, {1, 2}, {}, 0)}
=============================================================================
