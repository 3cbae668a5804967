----------------------------- MODULE Membership -----------------------------
(***************************************************************************)
(* Membership, heartbeat failure detection and leader election: the peer   *)
(* table of suprime/peers.py, the membership part of the gossip digests    *)
(* (suprime/gossip.py), joining and the swarm tick (suprime/node.py), and  *)
(* the leader derived from the live members (suprime/consensus.py).        *)
(*                                                                         *)
(* Time is counted in gossip intervals: in every round each running node   *)
(* ticks once, in any order, and what it sends is received, in any order,  *)
(* or lost before the round ends.                                          *)
(***************************************************************************)
EXTENDS PeerTable

CONSTANTS
    Seeds,          \* the seeds each node is started with
    Fanout,         \* how many peers a digest is pushed to
    Mortal,         \* the nodes that may crash, for good
    Groups,         \* the groups a partition may cut off from all other nodes
    MaxFaults       \* bound: crashes, partitions and lost messages, together

ASSUME SeedsAssumption == Seeds \in [Nodes -> SUBSET Nodes] /\ \A n \in Nodes : n \notin Seeds[n]
ASSUME MembershipBounds == /\ Fanout \in Nat /\ Mortal \subseteq Nodes
                           /\ Groups \subseteq SUBSET Nodes
                           /\ MaxFaults \in Nat

\* The membership part of a message: a heartbeat, or None, for every node.
View == [Nodes -> Nat \cup {None}]

Message == [type : {"join", "digest"}, src : Nodes, dst : Nodes, view : View]

VARIABLES
    status,     \* status[n]: not started yet ("new"), "up", or "down" for good
    heartbeat,  \* heartbeat[n]: the counter of its GossipService
    table,      \* table[n][p]: what n's PeerTable holds of p, or None
    leader,     \* leader[n]: the leader of its LeaderView
    knocking,   \* the nodes that await the sends of _bootstrap inside tick
    ticked,     \* the nodes that need not tick any more in this round
    net,        \* messages in flight
    cut,        \* the group that is cut off, or {} when the network is whole
    splits,     \* how often the network was partitioned (for the bound)
    losses      \* messages lost between running nodes (for the bound)

faults == <<cut, splits, losses>>
vars == <<status, heartbeat, table, leader, knocking, ticked, net, faults>>

Up == {n \in Nodes : status[n] = "up"}

Init ==
    /\ status = [n \in Nodes |-> "new"]
    /\ heartbeat = [n \in Nodes |-> 0]
    /\ table = [n \in Nodes |-> [p \in Nodes |-> None]]
    /\ leader = [n \in Nodes |-> None]
    /\ knocking = {} /\ ticked = {} /\ net = {}
    /\ cut = {} /\ splits = 0 /\ losses = 0

-----------------------------------------------------------------------------
AgedTable(n) == AgeTable(table[n])

\* A fault may still happen.
FaultsLeft == Cardinality({n \in Nodes : status[n] = "down"}) + splits + losses < MaxFaults

-----------------------------------------------------------------------------
(* Messages *)

BuildDigest_NextHeartbeat(n, tab, hb) ==
    [p \in Nodes |-> IF p = n THEN hb + 1
                     ELSE IF tab[p] = None THEN None ELSE tab[p].heartbeat]

\* build_digest: all peers, whatever their state, and n itself.
BuildDigest(n, tab, hb) ==
    [p \in Nodes |-> IF p = n THEN hb
                     ELSE IF tab[p] = None THEN None ELSE tab[p].heartbeat]

Digests(n, targets, tab, hb) ==
    [type : {"digest"}, src : {n}, dst : targets, view : {BuildDigest(n, tab, hb)}]

\* The JOIN messages of _bootstrap.
Joins(n, hb) ==
    [type : {"join"}, src : {n}, dst : Seeds[n],
     view : {[p \in Nodes |-> IF p = n THEN hb ELSE None]}]

\* can_reach.
CanReach(n, p) == (n \in cut) = (p \in cut)

\* What is in flight after sends: a send to an unreachable address raises,
\* which every caller ignores.
Sent(msgs) == net \cup {m \in msgs : CanReach(m.src, m.dst)}

\* select_targets.
Targets(tab) ==
    {T \in SUBSET Known(tab) :
        Cardinality(T) = IF Cardinality(Known(tab)) <= Fanout THEN Cardinality(Known(tab))
                                                             ELSE Fanout}

-----------------------------------------------------------------------------
(* The node *)

\* start: the first tick comes one interval later.
Start(n) ==
    /\ status[n] = "new"
    /\ status' = [status EXCEPT ![n] = "up"]
    /\ leader' = [leader EXCEPT ![n] = n]
    /\ ticked' = ticked \cup {n}
    /\ net' = Sent(Joins(n, heartbeat[n]))
    /\ UNCHANGED <<heartbeat, table, knocking, faults>>

CanTick(n) == status[n] = "up" /\ n \notin ticked

\* A tick of a node that knows a peer, or that has no seeds: age the table,
\* elect, push a digest.
Tick(n, targets) ==
    /\ CanTick(n)
    /\ Seeds[n] = {} \/ Known(AgedTable(n)) # {}
    /\ targets \in Targets(AgedTable(n))
    /\ heartbeat' = [heartbeat EXCEPT ![n] = @ + 1]
    /\ table' = [table EXCEPT ![n] = AgedTable(n)]
    /\ leader' = [leader EXCEPT ![n] = ElectLeader(n, AgedTable(n))]
    /\ net' = Sent(Digests(n, targets, AgedTable(n), heartbeat[n] + 1))
    /\ ticked' = ticked \cup {n}
    /\ UNCHANGED <<status, knocking, faults>>

Knock_OnlyAtStart(n) ==
    /\ CanTick(n)
    /\ Seeds[n] # {} /\ Known(AgedTable(n)) = {}
    /\ heartbeat' = [heartbeat EXCEPT ![n] = @ + 1]
    /\ table' = [table EXCEPT ![n] = AgedTable(n)]
    /\ knocking' = knocking \cup {n}
    /\ ticked' = ticked \cup {n}
    /\ UNCHANGED <<status, leader, net, faults>>

\* A tick of a node that knows no peer knocks on its seeds, and handles
\* messages while the sends are awaited.
Knock(n) ==
    /\ CanTick(n)
    /\ Seeds[n] # {} /\ Known(AgedTable(n)) = {}
    /\ heartbeat' = [heartbeat EXCEPT ![n] = @ + 1]
    /\ table' = [table EXCEPT ![n] = AgedTable(n)]
    /\ net' = Sent(Joins(n, heartbeat[n] + 1))
    /\ knocking' = knocking \cup {n}
    /\ ticked' = ticked \cup {n}
    /\ UNCHANGED <<status, leader, faults>>

\* The rest of that tick.
Resume(n, targets) ==
    /\ n \in knocking
    /\ targets \in Targets(table[n])
    /\ leader' = [leader EXCEPT ![n] = ElectLeader(n, table[n])]
    /\ net' = Sent(Digests(n, targets, table[n], heartbeat[n]))
    /\ knocking' = knocking \ {n}
    /\ UNCHANGED <<status, heartbeat, table, ticked, faults>>

\* _handle_join answers with a WELCOME, which is a digest.
Replies(m, tab) ==
    IF m.type = "join" THEN Digests(m.dst, {m.src}, tab, heartbeat[m.dst]) ELSE {}

\* GossipService.apply, or _handle_join.
Receive(m) ==
    LET tab == MergeView(m.dst, table[m.dst], m.view) IN
    /\ status[m.dst] = "up"
    /\ table' = [table EXCEPT ![m.dst] = tab]
    /\ net' = Sent(Replies(m, tab)) \ {m}
    /\ UNCHANGED <<status, heartbeat, leader, knocking, ticked, faults>>

\* The receiver is not running, or the network drops the message.
Lose(m) ==
    /\ IF status[m.dst] = "up" THEN FaultsLeft /\ losses' = losses + 1
                               ELSE UNCHANGED losses
    /\ net' = net \ {m}
    /\ UNCHANGED <<status, heartbeat, table, leader, knocking, ticked, cut, splits>>

Crash(n) ==
    /\ n \in Mortal /\ status[n] = "up" /\ FaultsLeft
    /\ status' = [status EXCEPT ![n] = "down"]
    /\ table' = [table EXCEPT ![n] = [p \in Nodes |-> None]]
    /\ leader' = [leader EXCEPT ![n] = None]
    /\ knocking' = knocking \ {n} /\ ticked' = ticked \ {n}
    /\ UNCHANGED <<heartbeat, net, faults>>

\* ChaosController.partition with two groups, and heal.
Partition(group) ==
    /\ cut = {} /\ FaultsLeft
    /\ cut' = group /\ splits' = splits + 1
    /\ UNCHANGED <<status, heartbeat, table, leader, knocking, ticked, net, losses>>

Heal ==
    /\ cut # {}
    /\ cut' = {}
    /\ UNCHANGED <<status, heartbeat, table, leader, knocking, ticked, net, splits, losses>>

-----------------------------------------------------------------------------
\* The heartbeats of p that exist between rounds, and how many are below h.
Copies(p) == {heartbeat[p]} \cup {table[n][p].heartbeat : n \in {q \in Nodes : table[q][p] # None}}
Rank(p, h) == Cardinality({g \in Copies(p) : g < h})

\* A round ends: all ages grow.  A heartbeat is only ever compared with other
\* heartbeats of the same node, of which its own is the greatest, so that each
\* is replaced by its rank, which keeps them finitely many.
NextRound ==
    /\ Up \subseteq ticked /\ net = {} /\ knocking = {}
    /\ ticked' = {}
    /\ table' = [n \in Nodes |-> [p \in Nodes |->
                    IF table[n][p] = None THEN None
                    ELSE [table[n][p] EXCEPT !.heartbeat = Rank(p, @),
                                             !.age = Older(@, DeadAfter)]]]
    /\ heartbeat' = [p \in Nodes |-> Rank(p, heartbeat[p])]
    /\ UNCHANGED <<status, leader, knocking, net, faults>>

Next ==
    \/ \E n \in Nodes : Start(n)
    \/ \E n \in Nodes : \E targets \in SUBSET Nodes : Tick(n, targets)
    \/ \E n \in Nodes : Knock(n)
    \/ \E n \in Nodes : \E targets \in SUBSET Nodes : Resume(n, targets)
    \/ \E m \in net : Receive(m)
    \/ \E m \in net : Lose(m)
    \/ \E n \in Nodes : Crash(n)
    \/ \E group \in Groups : Partition(group)
    \/ Heal
    \/ NextRound

Spec == Init /\ [][Next]_vars

\* Every node is started and the loops of the running ones go on: a round is
\* finite, so that rounds follow one another as long as something happens.
\* Partitions heal.
Fairness == WF_vars(Next) /\ WF_vars(Heal) /\ \A n \in Nodes : WF_vars(Start(n))

FairSpec == Spec /\ Fairness

-----------------------------------------------------------------------------
(* Properties *)

\* Every variable has its type, and no node is a peer of itself.
TypeOK ==
    /\ status \in [Nodes -> {"new", "up", "down"}]
    /\ heartbeat \in [Nodes -> Nat]
    /\ table \in [Nodes -> [Nodes -> Peer \cup {None}]]
    /\ \A n \in Nodes : table[n][n] = None
    /\ leader \in [Nodes -> Nodes \cup {None}]
    /\ knocking \subseteq Up /\ ticked \subseteq Up
    /\ net \in SUBSET Message
    /\ cut \in SUBSET Nodes /\ splits \in 0..MaxFaults /\ losses \in 0..MaxFaults

\* Nobody believes in a heartbeat that its owner has not reached: merge would
\* ignore the owner's own heartbeats until they catch up, and a live node would
\* be evicted meanwhile.
HeartbeatsAreReal ==
    \A p \in Nodes :
        /\ \A n \in Nodes : table[n][p] # None => table[n][p].heartbeat <= heartbeat[p]
        /\ \A m \in net : m.view[p] # None => m.view[p] <= heartbeat[p]

\* A tick of n evicts the running peer p.
EvictsRunning(n, p) ==
    status'[n] = "up" /\ status[p] = "up" /\ table[n][p] # None /\ table'[n][p] = None

\* Accuracy of the failure detector: in a swarm that was never partitioned a
\* tick evicts a running peer only after at least DeadAfter - 2 messages were
\* lost, and DeadAfter - 1 when nobody crashed (DeadAfter being 3 or more: a peer
\* that was heard of from others takes two rounds to hear of this node and to
\* answer, unless the others tell it).
OnlySilenceEvicts ==
    [][\A n, p \in Nodes : EvictsRunning(n, p) /\ splits = 0 =>
          /\ losses >= DeadAfter - 2
          /\ losses + Cardinality({q \in Nodes : status[q] = "down"}) >= DeadAfter - 1]_vars

\* Completeness of the failure detector: "when a peer's heartbeat stops
\* advancing it is first marked SUSPECT and, if the silence persists, DEAD and
\* evicted" (the docstring of peers.py).
CrashedAreEvicted ==
    \A n \in Nodes, p \in Mortal :
        []<>(status[p] = "down" /\ status[n] = "up" => table[n][p] = None)

\* The survivors name no crashed peer any more.
DeadForgotten == \A n \in Up, p \in Nodes : status[p] = "down" => table[n][p] = None

\* "The swarm converges on one leader without any dedicated election messages"
\* (the docstring of consensus.py): whoever crashes or is cut off for a while, in
\* the end all running nodes name the smallest of them, unless survivors give a
\* dead peer back to each other forever.
OneLeader ==
    <>[]DeadForgotten => <>[](\A n \in Up : leader[n] \in Up /\ \A p \in Up : leader[n] <= p)

\* "When the leader fails, its heartbeat goes stale, it drops out of the alive set,
\* and the next-smallest id transparently takes over" (the docstring of
\* consensus.py): a node that crashed stops for good to be anybody's leader.
LeaderFailover ==
    \A p \in Mortal : <>[](status[p] = "down" => \A n \in Up : leader[n] # p)
=============================================================================
