----------------------------- MODULE Broadcast -----------------------------
(***************************************************************************)
(* What suprime/plumtree.py promises of a broadcast: "on_deliver [is]      *)
(* called exactly once per distinct broadcast this node receives", and     *)
(* every running node receives every broadcast of a node that keeps        *)
(* running.                                                                *)
(***************************************************************************)
EXTENDS Integers

CONSTANTS Nodes, Mids

VARIABLES
    up,         \* the nodes that run
    origin,     \* the node that broadcast a message, for the messages sent so far
    delivered   \* delivered[n]: the messages handed to the application, with how often

vars == <<up, origin, delivered>>

Init ==
    /\ up \in SUBSET Nodes
    /\ origin = [m \in Mids |-> {}]
    /\ delivered = [n \in Nodes |-> [m \in Mids |-> 0]]

\* A node delivers its own broadcast at once.
Broadcast(n, m) ==
    /\ n \in up /\ origin[m] = {}
    /\ origin' = [origin EXCEPT ![m] = {n}]
    /\ delivered' = [delivered EXCEPT ![n][m] = 1]
    /\ UNCHANGED up

Deliver(n, m) ==
    /\ n \in up /\ origin[m] # {} /\ delivered[n][m] = 0
    /\ delivered' = [delivered EXCEPT ![n][m] = 1]
    /\ UNCHANGED <<up, origin>>

Crash(n) ==
    /\ n \in up
    /\ up' = up \ {n}
    /\ UNCHANGED <<origin, delivered>>

Next == \E n \in Nodes : Crash(n) \/ \E m \in Mids : Broadcast(n, m) \/ Deliver(n, m)

\* A message whose origin stays up reaches everyone who stays up.
Fairness == \A n \in Nodes, m \in Mids : WF_vars(origin[m] \subseteq up /\ Deliver(n, m))

Spec == Init /\ [][Next]_vars /\ Fairness
=============================================================================
