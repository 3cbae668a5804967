----------------------------- MODULE PeerTable -----------------------------
(***************************************************************************)
(* The peer table of suprime/peers.py: what a node remembers of a peer,    *)
(* how news, answers and silence change it, and the leader that            *)
(* suprime/consensus.py derives from it.  Pure operators; time is counted  *)
(* in gossip intervals.                                                    *)
(***************************************************************************)
EXTENDS Integers, FiniteSets

CONSTANTS
    Nodes, None,
    SuspectAfter, DeadAfter     \* suspect_after and dead_after, in rounds

ASSUME NodesAssumption == Nodes \subseteq Nat /\ IsFiniteSet(Nodes)
ASSUME TimersAssumption == /\ SuspectAfter \in Nat /\ DeadAfter \in Nat
                           /\ SuspectAfter <= DeadAfter

\* A Peer record; age is the number of rounds since last_update, which stops
\* to matter once it has reached DeadAfter.
Peer == [heartbeat : Nat, age : 0..DeadAfter, state : {"alive", "suspect"}]

ASSUME NonePeerAssumption == None \notin Peer /\ None \notin Nat

\* A PeerTable: a record, or None, for every node.
Known(tab) == {p \in Nodes : tab[p] # None}

Alive(tab) == {p \in Known(tab) : tab[p].state = "alive"}

FreshPeer(hb) == [heartbeat |-> hb, age |-> 0, state |-> "alive"]

Refreshed_KeepsAge(peer, hb) ==
    IF peer = None THEN FreshPeer(hb) ELSE [peer EXCEPT !.heartbeat = hb, !.state = "alive"]

\* What merge stores for a peer it accepts a heartbeat from.
Refreshed(peer, hb) == FreshPeer(hb)

Merges_Self(self, p, peer, hb) == hb # None /\ (peer = None \/ hb > peer.heartbeat)

\* merge: an unknown peer, or a heartbeat that advanced.
Merges(self, p, peer, hb) ==
    hb # None /\ p # self /\ (peer = None \/ hb > peer.heartbeat)

\* apply_digest, for a digest that holds a heartbeat, or None, for every node.
MergeView(self, tab, view) ==
    [p \in Nodes |-> IF Merges(self, p, tab[p], view[p]) THEN Refreshed(tab[p], view[p])
                                                        ELSE tab[p]]

AckedPeer_ClearsSuspicionOnly(peer) ==
    IF peer = None THEN None ELSE [peer EXCEPT !.state = "alive"]

\* refresh: the answer to a probe needs no newer heartbeat.
AckedPeer(peer) == IF peer = None THEN None ELSE [peer EXCEPT !.age = 0, !.state = "alive"]

AgePeer_NeverDead(peer) ==
    IF peer # None /\ peer.age >= SuspectAfter THEN [peer EXCEPT !.state = "suspect"] ELSE peer

\* PeerTable.tick for one peer.
AgePeer(peer) ==
    IF peer = None \/ peer.age >= DeadAfter THEN None
    ELSE IF peer.age >= SuspectAfter THEN [peer EXCEPT !.state = "suspect"]
    ELSE peer

AgeTable(tab) == [p \in Nodes |-> AgePeer(tab[p])]

Older(age, cap) == IF age < cap THEN age + 1 ELSE cap

\* elect_leader: the smallest id among n and the live peers of its table.
ElectLeader(n, tab) == CHOOSE p \in {n} \cup Alive(tab) : \A q \in {n} \cup Alive(tab) : p <= q
=============================================================================
