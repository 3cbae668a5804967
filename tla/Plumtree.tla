------------------------------ MODULE Plumtree ------------------------------
(***************************************************************************)
(* Epidemic broadcast trees (suprime/plumtree.py): full messages along     *)
(* eager links, IHAVE announcements along lazy ones; a redundant message   *)
(* prunes its link, and a message announced but not received in time       *)
(* grafts one.                                                             *)
(*                                                                         *)
(* As in HyParView, awaited sends suspend a handler over TCP and not over  *)
(* the in-memory transport, and Init chooses.                              *)
(***************************************************************************)
EXTENDS Integers, FiniteSets, Sequences, SequencesExt

CONSTANTS
    Nodes,
    Mids,           \* the messages; each is broadcast at most once
    Starts,         \* situations to start from
    GraftTimeout,   \* graft_timeout_rounds
    CacheCap        \* cache_cap

ASSUME PlumtreeAssumption == GraftTimeout \in Nat \ {0} /\ CacheCap \in Nat \ {0}

\* A start: whether sends suspend, each node's neighbours, the nodes that may
\* broadcast, those that may crash, for good, and a bound on lost messages.
Start == [suspends : BOOLEAN, neighbors : [Nodes -> SUBSET Nodes], publishers : [Mids -> SUBSET Nodes],
          mortal : SUBSET Nodes, maxLosses : Nat]

\* The neighbours come from the peer table, which never holds the node itself.
ASSUME StartsAssumption ==
    Starts \subseteq Start /\ \A s \in Starts, n \in Nodes : n \notin s.neighbors[n]

VARIABLES
    start,          \* the start chosen, which stays
    up,             \* the nodes that run
    eager, lazy,    \* the links of every node
    received,       \* received[n]: the cached messages, oldest first
    missing,        \* missing[n][m]: rounds waited for an announced message, or -1
    ihaveFrom,      \* ihaveFrom[n][m]: who announced it, oldest first
    lazyQueue,      \* lazyQueue[n]: the announcements to send
    jobs,           \* pushes and ticks suspended in a send
    wire,           \* messages in flight
    losses,         \* for the bound
    origin, delivered,  \* who broadcast, and how often on_deliver was called
    calm            \* every broadcast began in a quiet network (for the properties)

vars == <<start, up, eager, lazy, received, missing, ihaveFrom, lazyQueue, jobs, wire, losses,
          origin, delivered, calm>>

Job == [node : Nodes, then : {"announce"}, mid : Mids, sender : SUBSET Nodes]
       \cup [node : Nodes, then : {"repair"}]
       \cup [node : Nodes, then : {"graft"}, todo : SUBSET Mids]
Message == [type : {"gossip", "graft"}, src : Nodes, dst : Nodes, mid : Mids]
           \cup [type : {"ihave"}, src : Nodes, dst : Nodes, ids : SUBSET Mids]
           \cup [type : {"prune"}, src : Nodes, dst : Nodes]

Init ==
    /\ start \in Starts
    /\ up = Nodes
    /\ eager = start.neighbors /\ lazy = [n \in Nodes |-> {}]
    /\ received = [n \in Nodes |-> <<>>]
    /\ missing = [n \in Nodes |-> [m \in Mids |-> -1]]
    /\ ihaveFrom = [n \in Nodes |-> [m \in Mids |-> <<>>]]
    /\ lazyQueue = [n \in Nodes |-> {}]
    /\ jobs = {} /\ wire = {} /\ losses = 0
    /\ origin = [m \in Mids |-> {}] /\ calm = TRUE
    /\ delivered = [n \in Nodes |-> [m \in Mids |-> 0]]

-----------------------------------------------------------------------------
(* Helpers *)

Scheduled == start.suspends \/ jobs = {}

\* send; a peer that is down is not reached.
Sent(w, msgs) == w \cup {m \in msgs : m.dst \in up}

GossipMsg(n, p, m) == [type |-> "gossip", src |-> n, dst |-> p, mid |-> m]

\* The peer table drops a crashed neighbour.
Neighbors(n) == start.neighbors[n] \cap up

SyncEager_Everyone(n) == Neighbors(n)

\* _sync_neighbors, as the new eager and lazy sets: new neighbours are eager.
SyncEager(n) == (eager[n] \cup (Neighbors(n) \ lazy[n])) \cap Neighbors(n)
SyncLazy(n) == lazy[n] \cap Neighbors(n)

\* _record: the oldest message makes room.
Record(seq, m) == IF Len(seq) >= CacheCap THEN Append(Tail(seq), m) ELSE Append(seq, m)

Has(n, m) == m \in ToSet(received[n])

MoveTo(n, links, others, p) == links' = [links EXCEPT ![n] = @ \cup {p}]
                               /\ others' = [others EXCEPT ![n] = @ \ {p}]

\* _record, _deliver and _eager_push; _lazy_push follows when they are sent.
Accept(n, m, sender, push, w) ==
    /\ received' = [received EXCEPT ![n] = Record(@, m)]
    /\ delivered' = [delivered EXCEPT ![n][m] = @ + 1]
    /\ wire' = Sent(w, {GossipMsg(n, p, m) : p \in push \ sender})
    /\ jobs' = jobs \cup {[node |-> n, then |-> "announce", mid |-> m, sender |-> sender]}

-----------------------------------------------------------------------------
(* Broadcasting *)

Quiet == /\ wire = {} /\ jobs = {}
         /\ \A n \in Nodes : lazyQueue[n] = {} /\ \A m \in Mids : missing[n][m] = -1

Broadcast(n, m) ==
    /\ Scheduled /\ n \in start.publishers[m] \cap up /\ origin[m] = {}
    /\ \A k \in Mids : k < m => origin[k] # {}
    /\ origin' = [origin EXCEPT ![m] = {n}] /\ calm' = (calm /\ Quiet)
    /\ eager' = [eager EXCEPT ![n] = SyncEager(n)]
    /\ lazy' = [lazy EXCEPT ![n] = SyncLazy(n)]
    /\ Accept(n, m, {}, SyncEager(n), wire)
    /\ UNCHANGED <<start, up, missing, ihaveFrom, lazyQueue, losses>>

\* _lazy_push, to the links that are lazy by then.
LazyPush(j) ==
    /\ j.then = "announce"
    /\ lazyQueue' = [lazyQueue EXCEPT ![j.node] = @ \cup ((lazy[j.node] \ j.sender) \X {j.mid})]
    /\ jobs' = jobs \ {j}
    /\ UNCHANGED <<start, up, eager, lazy, received, missing, ihaveFrom, wire, losses,
                   origin, delivered, calm>>

-----------------------------------------------------------------------------
(* The handlers *)

Handles(m, type) == Scheduled /\ m.type = type

OnGossip(m) ==
    LET n == m.dst IN
    /\ Handles(m, "gossip") /\ ~Has(n, m.mid)
    /\ missing' = [missing EXCEPT ![n][m.mid] = -1]
    /\ ihaveFrom' = [ihaveFrom EXCEPT ![n][m.mid] = <<>>]
    /\ MoveTo(n, eager, lazy, m.src)
    /\ Accept(n, m.mid, {m.src}, eager'[n], wire \ {m})
    /\ UNCHANGED <<start, up, lazyQueue, losses, origin, calm>>

PruneMsgs_None(n, p) == {}

PruneMsgs(n, p) == {[type |-> "prune", src |-> n, dst |-> p]}

\* A redundant message prunes its link.
OnRedundantGossip(m) ==
    LET n == m.dst IN
    /\ Handles(m, "gossip") /\ Has(n, m.mid)
    /\ MoveTo(n, lazy, eager, m.src)
    /\ wire' = Sent(wire \ {m}, PruneMsgs(n, m.src))
    /\ UNCHANGED <<start, up, received, missing, ihaveFrom, lazyQueue, jobs, losses,
                   origin, delivered, calm>>

OnPrune(m) ==
    /\ Handles(m, "prune")
    /\ MoveTo(m.dst, lazy, eager, m.src)
    /\ wire' = wire \ {m}
    /\ UNCHANGED <<start, up, received, missing, ihaveFrom, lazyQueue, jobs, losses,
                   origin, delivered, calm>>

OnIhave(m) ==
    LET n == m.dst
        news == {i \in m.ids : ~Has(n, i)}
    IN  /\ Handles(m, "ihave")
        /\ missing' = [missing EXCEPT ![n] =
              [i \in Mids |-> IF i \in news /\ @[i] = -1 THEN 0 ELSE @[i]]]
        /\ ihaveFrom' = [ihaveFrom EXCEPT ![n] =
              [i \in Mids |-> IF i \in news /\ m.src \notin ToSet(@[i]) THEN Append(@[i], m.src)
                                                                       ELSE @[i]]]
        /\ wire' = wire \ {m}
        /\ UNCHANGED <<start, up, eager, lazy, received, lazyQueue, jobs, losses, origin, delivered, calm>>

GraftAnswer_LinkOnly(n, p, m) == {}

GraftAnswer(n, p, m) == IF Has(n, m) THEN {GossipMsg(n, p, m)} ELSE {}

OnGraft(m) ==
    LET n == m.dst IN
    /\ Handles(m, "graft")
    /\ MoveTo(n, eager, lazy, m.src)
    /\ wire' = Sent(wire \ {m}, GraftAnswer(n, m.src, m.mid))
    /\ UNCHANGED <<start, up, received, missing, ihaveFrom, lazyQueue, jobs, losses,
                   origin, delivered, calm>>

-----------------------------------------------------------------------------
(* The tick *)

\* A message is due after GraftTimeout rounds.
Due(n, m) == missing[n][m] >= 0 /\ ~Has(n, m) /\ missing[n][m] + 1 >= GraftTimeout

Grafts(n) == {m \in Mids : Due(n, m) /\ ihaveFrom[n][m] # <<>>}

Waited(n, m) ==
    IF missing[n][m] = -1 \/ Has(n, m) THEN -1
    ELSE IF m \in Grafts(n) THEN 0
    ELSE IF missing[n][m] < GraftTimeout THEN missing[n][m] + 1 ELSE GraftTimeout

IhaveMsgs(n) ==
    {[type |-> "ihave", src |-> n, dst |-> p, ids |-> {m \in Mids : <<p, m>> \in lazyQueue[n]}] :
       p \in {q[1] : q \in lazyQueue[n]}}

\* The ticks of other rounds change nothing.
HasWork(n) ==
    \/ lazyQueue[n] # {} \/ eager[n] # SyncEager(n) \/ lazy[n] # SyncLazy(n)
    \/ \E m \in Mids : missing[n][m] # Waited(n, m) \/ m \in Grafts(n)

\* A tick announces what is queued ...
Tick(n) ==
    /\ Scheduled /\ n \in up /\ HasWork(n)
    /\ \A j \in jobs : j.node = n => j.then = "announce"
    /\ eager' = [eager EXCEPT ![n] = SyncEager(n)]
    /\ lazy' = [lazy EXCEPT ![n] = SyncLazy(n)]
    /\ lazyQueue' = [lazyQueue EXCEPT ![n] = {}]
    /\ wire' = Sent(wire, IhaveMsgs(n))
    /\ jobs' = jobs \cup {[node |-> n, then |-> "repair"]}
    /\ UNCHANGED <<start, up, received, missing, ihaveFrom, losses, origin, delivered, calm>>

\* The ids that its loop has still to visit: a copy of the keys of _missing,
\* made once the announcements are sent.
Todo(j) == IF j.then = "repair" THEN {m \in Mids : missing[j.node][m] # -1} ELSE j.todo

\* ... and grafts what is due: the loop visits the ids in S, of which only the
\* last sends a GRAFT and suspends it.
GraftMissing(j, S) ==
    LET n == j.node
        grafts == S \cap Grafts(n)
        peers == {Head(ihaveFrom[n][m]) : m \in grafts}
    IN  /\ j.then \in {"repair", "graft"}
        /\ S \subseteq Todo(j) /\ (S = Todo(j) \/ grafts # {})
        /\ \A k, m \in grafts : k = m
        /\ missing' = [missing EXCEPT ![n] = [m \in Mids |-> IF m \in S THEN Waited(n, m) ELSE @[m]]]
        /\ ihaveFrom' = [ihaveFrom EXCEPT ![n] =
              [m \in Mids |-> IF m \in grafts THEN Tail(@[m]) ELSE @[m]]]
        /\ eager' = [eager EXCEPT ![n] = @ \cup peers]
        /\ lazy' = [lazy EXCEPT ![n] = @ \ peers]
        /\ wire' = Sent(wire, {[type |-> "graft", src |-> n, dst |-> Head(ihaveFrom[n][m]),
                                mid |-> m] : m \in grafts})
        /\ jobs' = (jobs \ {j}) \cup
              {[node |-> n, then |-> "graft", todo |-> T] : T \in {Todo(j) \ S} \ {{}}}
        /\ UNCHANGED <<start, up, received, lazyQueue, losses, origin, delivered, calm>>

-----------------------------------------------------------------------------
(* The environment *)

Lose(m) ==
    /\ Scheduled /\ losses < start.maxLosses
    /\ losses' = losses + 1
    /\ wire' = wire \ {m}
    /\ UNCHANGED <<start, up, eager, lazy, received, missing, ihaveFrom, lazyQueue, jobs,
                   origin, delivered, calm>>

Crash(n) ==
    /\ Scheduled /\ n \in start.mortal \cap up
    /\ up' = up \ {n}
    /\ wire' = {m \in wire : m.dst # n}
    /\ jobs' = {j \in jobs : j.node # n}
    /\ UNCHANGED <<start, eager, lazy, received, missing, ihaveFrom, lazyQueue, losses,
                   origin, delivered, calm>>

Handled ==
    \E m \in wire : OnGossip(m) \/ OnRedundantGossip(m) \/ OnPrune(m) \/ OnIhave(m) \/ OnGraft(m)

Resumed == \E j \in jobs : LazyPush(j) \/ \E S \in SUBSET Mids : GraftMissing(j, S)

Next ==
    \/ Handled \/ Resumed
    \/ \E n \in Nodes, m \in Mids : Broadcast(n, m)
    \/ \E n \in Nodes : Tick(n) \/ Crash(n)
    \/ \E m \in wire : Lose(m)

Spec == Init /\ [][Next]_vars

\* Messages arrive, sends end and every node ticks for ever.  A handler that
\* cannot suspend keeps the others waiting, again and again: fairness is strong.
Fairness ==
    /\ SF_vars(Handled) /\ WF_vars(Resumed)
    /\ \A n \in Nodes : SF_vars(Tick(n))

FairSpec == Spec /\ Fairness

-----------------------------------------------------------------------------
(* Properties *)

\* Every variable has its type, no link is both eager and lazy, and the cache
\* keeps its bound.
TypeOK ==
    /\ start \in Starts /\ up \subseteq Nodes
    /\ eager \in [Nodes -> SUBSET Nodes] /\ lazy \in [Nodes -> SUBSET Nodes]
    /\ \A n \in Nodes : eager[n] \cap lazy[n] = {}
    /\ \A n \in Nodes : Len(received[n]) <= CacheCap /\ ToSet(received[n]) \subseteq Mids
    /\ missing \in [Nodes -> [Mids -> -1..GraftTimeout]]
    /\ \A n \in Nodes, m \in Mids : ToSet(ihaveFrom[n][m]) \subseteq Nodes \ {n}
    /\ lazyQueue \in [Nodes -> SUBSET (Nodes \X Mids)]
    /\ jobs \subseteq Job /\ wire \subseteq Message

\* "Eager links form a spanning tree" (plumtree.py): after broadcasts that did
\* not overlap, and nothing lost, the prunes and grafts have left exactly a
\* tree, whose links both ends agree on.
EagerTree ==
    LET links == {l \in Nodes \X Nodes : l[2] \in eager[l[1]]} IN
    Quiet /\ calm /\ losses = 0 /\ up = Nodes /\ (\E m \in Mids : origin[m] # {}) =>
        /\ Cardinality(links) = 2 * (Cardinality(Nodes) - 1)
        /\ \A l \in links : <<l[2], l[1]>> \in links
        /\ \A S \in (SUBSET Nodes) \ {{}, Nodes} : \E l \in links : l[1] \in S /\ l[2] \notin S

B == INSTANCE Broadcast

\* The trees implement Broadcast: every message reaches every running node, and
\* is delivered once, although one message of any kind is lost, nodes crash,
\* and broadcasts, prunes and grafts overlap.
Broadcasts == B!Spec
=============================================================================
