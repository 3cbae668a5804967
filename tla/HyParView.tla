----------------------------- MODULE HyParView -----------------------------
(***************************************************************************)
(* The partial-view membership of suprime/hyparview.py: a small active     *)
(* view that is the overlay, a passive view of backups, forward-join walks *)
(* for newcomers, promotions and shuffles on every tick.                   *)
(*                                                                         *)
(* Handlers await their sends.  Over the in-memory transport such an await *)
(* does not suspend; over TCP it does, other handlers of the node run, and *)
(* the rest of the suspended one is a job.  Init chooses the transport.    *)
(* A node knows the address of everyone but itself that it has heard of,   *)
(* so the address book is left out.                                        *)
(***************************************************************************)
EXTENDS Integers, FiniteSets

CONSTANTS
    Nodes,
    Starts,             \* overlays to start from
    Newcomers,          \* the nodes that join them
    ARWL, PRWL, ShuffleTTL, SampleSize,
    MaxWire             \* bound: messages and suspended jobs when a tick begins

ASSUME NodesAssumption == IsFiniteSet(Nodes)
ASSUME SizesAssumption ==
    /\ ARWL \in Nat /\ PRWL \in Nat /\ ShuffleTTL \in Nat /\ SampleSize \in Nat
    /\ MaxWire \in Nat

\* What a run starts from: whether sends suspend, the limits of the views, the
\* nodes and the active views of the overlay they have formed, the nodes that
\* may crash, for good, and a bound on the calls of join.
Start == [suspends : BOOLEAN, activeSize : Nat \ {0}, passiveSize : Nat \ {0},
          up : SUBSET Nodes, active : [Nodes -> SUBSET Nodes],
          mortal : SUBSET Nodes, maxJoins : Nat]

ASSUME StartsAssumption ==
    /\ Starts \subseteq Start /\ Newcomers \subseteq Nodes
    /\ \A s \in Starts, n \in Nodes : /\ s.active[n] \subseteq s.up \ {n}
                                     /\ Cardinality(s.active[n]) <= s.activeSize

VARIABLES
    start,          \* the start chosen, which stays
    up,             \* the nodes that run
    joins,          \* calls of join so far
    active, passive,    \* the views of every node
    jobs,           \* handlers and ticks suspended in a send
    wire            \* messages in flight

vars == <<start, up, joins, active, passive, jobs, wire>>

Job == [node : Nodes, then : {"join", "spread", "walk", "adopt", "neighbor", "reply", "promote"},
        nid : Nodes]
       \cup [node : Nodes, then : {"integrate"}, nodes : SUBSET Nodes]

Message ==
    [type : {"join", "disconnect"}, src : Nodes, dst : Nodes]
    \cup [type : {"fwdjoin"}, src : Nodes, dst : Nodes, nid : Nodes, ttl : 0..ARWL]
    \cup [type : {"neighbor"}, src : Nodes, dst : Nodes, high : BOOLEAN]
    \cup [type : {"reply"}, src : Nodes, dst : Nodes, accepted : BOOLEAN]
    \cup [type : {"shuffle"}, src : Nodes, dst : Nodes, origin : Nodes, nodes : SUBSET Nodes,
          ttl : 0..ShuffleTTL]
    \cup [type : {"shuffle_reply"}, src : Nodes, dst : Nodes, nodes : SUBSET Nodes]

Init ==
    /\ start \in Starts /\ up = start.up /\ active = start.active
    /\ joins = 0 /\ passive = [n \in Nodes |-> {}]
    /\ jobs = {} /\ wire = {}

-----------------------------------------------------------------------------
(* Helpers *)

\* A handler that cannot suspend runs to its end before anything else happens.
Scheduled == start.suspends \/ jobs = {}

\* _send; a peer that is down is not reached.
Sent(w, msgs) == w \cup {m \in msgs : m.dst \in up}

NeighborMsg(n, nid, high) == [type |-> "neighbor", src |-> n, dst |-> nid, high |-> high]
ReplyMsg(n, nid, accepted) == [type |-> "reply", src |-> n, dst |-> nid, accepted |-> accepted]
FwdJoinMsg(n, to, nid, ttl) ==
    [type |-> "fwdjoin", src |-> n, dst |-> to, nid |-> nid, ttl |-> ttl]

Integrated_Self(n, act, pas, nodes) ==
    LET all == pas \cup (nodes \ act) IN {q \in SUBSET all : Cardinality(q) <= start.passiveSize}

Integrated_Unbounded(n, act, pas, nodes) == {pas \cup (nodes \ ({n} \cup act))}

\* _integrate, which takes a list in any order: the passive views that n may
\* have after _add_passive of all of nodes; each newcomer beyond the limit
\* replaces a random entry.
Integrated(n, act, pas, nodes) ==
    LET new == nodes \ ({n} \cup act \cup pas)
        all == pas \cup new
    IN  IF Cardinality(all) <= start.passiveSize THEN {all}
        ELSE {q \in SUBSET all : Cardinality(q) = start.passiveSize /\ q \cap new # {}}

\* _sample.
Samples(pool) ==
    IF Cardinality(pool) <= SampleSize THEN {pool}
    ELSE {S \in SUBSET pool : Cardinality(S) = SampleSize}

-----------------------------------------------------------------------------
(* The active view *)

\* What a handler does after _add_active(nid): w is what is in flight, js the
\* suspended jobs.
AfterAdding(n, nid, then, w, js) ==
    /\ wire' = CASE then \in {"join", "walk"} -> Sent(w, {NeighborMsg(n, nid, TRUE)})
                 [] then = "neighbor"         -> Sent(w, {ReplyMsg(n, nid, TRUE)})
                 [] OTHER                     -> w
    /\ jobs' = IF then = "join" THEN js \cup {[node |-> n, then |-> "spread", nid |-> nid]} ELSE js

Dropped_Forgotten(n, nid, victim) == {passive[n] \ {nid}}

\* _drop_random_active: the victim becomes a backup.
Dropped(n, nid, victim) ==
    Integrated(n, active[n] \ {victim}, passive[n] \ {nid}, {victim})

\* _add_active, and what follows it at once or after the DISCONNECT it awaits.
AddActive(n, nid, then, w) ==
    IF nid \in {n} \cup active[n] \/ Cardinality(active[n]) < start.activeSize
    THEN /\ active' = [active EXCEPT ![n] = @ \cup ({nid} \ {n})]
         /\ passive' = [passive EXCEPT ![n] = IF nid \in active[n] THEN @ ELSE @ \ {nid}]
         /\ AfterAdding(n, nid, then, w, jobs)
    ELSE /\ \E victim \in active[n] :
               /\ active' = [active EXCEPT ![n] = @ \ {victim}]
               /\ \E pas \in Dropped(n, nid, victim) : passive' = [passive EXCEPT ![n] = pas]
               /\ wire' = Sent(w, {[type |-> "disconnect", src |-> n, dst |-> victim]})
         /\ jobs' = jobs \cup {[node |-> n, then |-> then, nid |-> nid]}

\* _add_active goes on: nid is added, whatever the view has become.
ResumeAdd(j) ==
    /\ j.then \in {"join", "walk", "adopt", "neighbor", "reply"}
    /\ active' = [active EXCEPT ![j.node] = @ \cup {j.nid}]
    /\ AfterAdding(j.node, j.nid, j.then, wire, jobs \ {j})
    /\ UNCHANGED <<start, up, joins, passive>>

\* The end of _on_join: a FORWARD_JOIN for every other active peer.  The view
\* is iterated over with awaits; if it changes size, the others are not told.
Spread(j) ==
    LET others == active[j.node] \ {j.nid} IN
    /\ j.then = "spread"
    /\ \E told \in SUBSET others :
          /\ ~start.suspends => told = others
          /\ wire' = Sent(wire, {FwdJoinMsg(j.node, p, j.nid, ARWL) : p \in told})
    /\ jobs' = jobs \ {j}
    /\ UNCHANGED <<start, up, joins, active, passive>>

-----------------------------------------------------------------------------
(* Joining *)

Handles(m, type) == Scheduled /\ m.type = type

\* join: a newcomer may call it for several contacts, or again.
Join(n, contact) ==
    /\ Scheduled /\ joins < start.maxJoins
    /\ n \in Newcomers \cap up /\ contact \in up \ Newcomers
    /\ joins' = joins + 1
    /\ wire' = wire \cup {[type |-> "join", src |-> n, dst |-> contact]}
    /\ UNCHANGED <<start, up, active, passive, jobs>>

OnJoin(m) ==
    /\ Handles(m, "join")
    /\ AddActive(m.dst, m.src, "join", wire \ {m})
    /\ UNCHANGED <<start, up, joins>>

\* _on_forward_join: the walk ends here ...
WalkEnds(m) ==
    /\ Handles(m, "fwdjoin")
    /\ m.ttl = 0 \/ Cardinality(active[m.dst]) <= 1
    /\ AddActive(m.dst, m.nid, "walk", wire \ {m})
    /\ UNCHANGED <<start, up, joins>>

WalksOn(m) == Handles(m, "fwdjoin") /\ m.ttl # 0 /\ Cardinality(active[m.dst]) > 1

\* _add_passive on the way.
Deposited(n, m) ==
    IF m.ttl = PRWL THEN Integrated(n, active[n], passive[n], {m.nid}) ELSE {passive[n]}

\* ... goes on to another active peer ...
WalkGoesOn(m) ==
    LET n == m.dst IN
    /\ WalksOn(m)
    /\ \E pas \in Deposited(n, m) : passive' = [passive EXCEPT ![n] = pas]
    /\ \E nxt \in active[n] \ {m.src, m.nid} :
          wire' = Sent(wire \ {m}, {FwdJoinMsg(n, nxt, m.nid, m.ttl - 1)})
    /\ UNCHANGED <<start, up, joins, active, jobs>>

\* ... or has nowhere to go: the node adopts the newcomer.
WalkStrands(m) ==
    /\ WalksOn(m)
    /\ active[m.dst] \subseteq {m.src, m.nid}
    /\ AddActive(m.dst, m.nid, "adopt", wire \ {m})
    /\ UNCHANGED <<start, up, joins>>

-----------------------------------------------------------------------------
(* The neighbour protocol *)

OnNeighbor(m) ==
    LET n == m.dst
        accept == m.high \/ Cardinality(active[n]) < start.activeSize
    IN  /\ Handles(m, "neighbor")
        /\ IF accept THEN AddActive(n, m.src, "neighbor", wire \ {m})
           ELSE /\ wire' = Sent(wire \ {m}, {ReplyMsg(n, m.src, FALSE)})
                /\ UNCHANGED <<active, passive, jobs>>
        /\ UNCHANGED <<start, up, joins>>

OnNeighborReply(m) ==
    LET n == m.dst IN
    /\ Handles(m, "reply")
    /\ IF m.accepted THEN AddActive(n, m.src, "reply", wire \ {m})
       ELSE /\ \E pas \in Integrated(n, active[n], passive[n], {m.src}) :
                  passive' = [passive EXCEPT ![n] = pas]
            /\ wire' = wire \ {m}
            /\ UNCHANGED <<active, jobs>>
    /\ UNCHANGED <<start, up, joins>>

OnDisconnect(m) ==
    LET n == m.dst IN
    /\ Handles(m, "disconnect")
    /\ wire' = wire \ {m}
    /\ active' = [active EXCEPT ![n] = @ \ {m.src}]
    /\ IF m.src \in active[n]
       THEN \E pas \in Integrated(n, active'[n], passive[n], {m.src}) :
               passive' = [passive EXCEPT ![n] = pas]
       ELSE UNCHANGED passive
    /\ UNCHANGED <<start, up, joins, jobs>>

-----------------------------------------------------------------------------
(* Shuffles *)

ShuffleMsg(n, to, origin, nodes, ttl) ==
    [type |-> "shuffle", src |-> n, dst |-> to, origin |-> origin, nodes |-> nodes, ttl |-> ttl]

IntegrateJob(n, nodes) == [node |-> n, then |-> "integrate", nodes |-> nodes]

\* _on_shuffle passes the walk on, or answers the origin; it integrates what
\* was sent when that send is done.
ShuffleGoesOn(m) ==
    /\ Handles(m, "shuffle") /\ m.ttl - 1 > 0
    /\ \E nxt \in active[m.dst] \ {m.src} :
          wire' = Sent(wire \ {m}, {ShuffleMsg(m.dst, nxt, m.origin, m.nodes, m.ttl - 1)})
    /\ jobs' = jobs \cup {IntegrateJob(m.dst, m.nodes)}
    /\ UNCHANGED <<start, up, joins, active, passive>>

ShuffleEnds(m) ==
    LET n == m.dst IN
    /\ Handles(m, "shuffle") /\ (m.ttl - 1 > 0 => active[n] \subseteq {m.src})
    /\ \E sample \in Samples(active[n] \cup passive[n]) :
          wire' = Sent(wire \ {m}, {r \in {[type |-> "shuffle_reply", src |-> n, dst |-> m.origin,
                                            nodes |-> sample]} : m.origin # n})
    /\ jobs' = jobs \cup {IntegrateJob(n, m.nodes)}
    /\ UNCHANGED <<start, up, joins, active, passive>>

Integrate(j) ==
    /\ j.then = "integrate"
    /\ \E pas \in Integrated(j.node, active[j.node], passive[j.node], j.nodes) :
          passive' = [passive EXCEPT ![j.node] = pas]
    /\ jobs' = jobs \ {j}
    /\ UNCHANGED <<start, up, joins, active, wire>>

OnShuffleReply(m) ==
    LET n == m.dst IN
    /\ Handles(m, "shuffle_reply")
    /\ \E pas \in Integrated(n, active[n], passive[n], m.nodes) :
          passive' = [passive EXCEPT ![n] = pas]
    /\ wire' = wire \ {m}
    /\ UNCHANGED <<start, up, joins, active, jobs>>

-----------------------------------------------------------------------------
(* The tick *)

NeedsRepair_UnlessIsolated(n, act) ==
    act # {} /\ Cardinality(act) < start.activeSize /\ passive[n] # {}

NeedsRepair(n, act) == Cardinality(act) < start.activeSize /\ passive[n] # {}

\* One turn of the repair loop, which awaits its NEIGHBOR, or the shuffle that
\* follows the loop.  act is the active view by now.
Maintain(n, act, js) ==
    /\ active' = [active EXCEPT ![n] = act]
    /\ IF NeedsRepair(n, act)
       THEN \E candidate \in passive[n] :
               /\ passive' = [passive EXCEPT ![n] = @ \ {candidate}]
               /\ wire' = Sent(wire, {NeighborMsg(n, candidate, act = {})})
               /\ jobs' = js \cup {[node |-> n, then |-> "promote", nid |-> candidate]}
       ELSE /\ IF act = {} THEN UNCHANGED wire
               ELSE \E target \in act, sample \in Samples(act \cup passive[n]) :
                       wire' = Sent(wire, {ShuffleMsg(n, target, n, sample, ShuffleTTL)})
            /\ jobs' = js
            /\ UNCHANGED passive

Tick(n) ==
    /\ Scheduled /\ n \in up
    /\ Cardinality(wire) + Cardinality(jobs) <= MaxWire
    /\ \A j \in jobs : j.node = n => j.then # "promote"
    /\ Maintain(n, active[n], jobs)
    /\ UNCHANGED <<start, up, joins>>

\* The candidate is added without waiting for its answer.
Promote(j) ==
    /\ j.then = "promote"
    /\ Maintain(j.node, active[j.node] \cup {j.nid}, jobs \ {j})
    /\ UNCHANGED <<start, up, joins>>

\* prune_dead, called with what a failure detector that is right reports.
PruneDead(n) ==
    /\ Scheduled /\ n \in up
    /\ ~(active[n] \cup passive[n] \subseteq up)
    /\ active' = [active EXCEPT ![n] = @ \cap up]
    /\ passive' = [passive EXCEPT ![n] = @ \cap up]
    /\ UNCHANGED <<start, up, joins, jobs, wire>>

Crash(n) ==
    /\ Scheduled /\ n \in start.mortal \cap up
    /\ up' = up \ {n}
    /\ wire' = {m \in wire : m.dst # n}
    /\ jobs' = {j \in jobs : j.node # n}
    /\ UNCHANGED <<start, joins, active, passive>>

Handled ==
    \E m \in wire :
        \/ OnJoin(m) \/ WalkEnds(m) \/ WalkGoesOn(m) \/ WalkStrands(m)
        \/ OnNeighbor(m) \/ OnNeighborReply(m) \/ OnDisconnect(m)
        \/ ShuffleGoesOn(m) \/ ShuffleEnds(m) \/ OnShuffleReply(m)

Resumed == \E j \in jobs : ResumeAdd(j) \/ Spread(j) \/ Integrate(j) \/ Promote(j)

Next ==
    \/ Handled \/ Resumed
    \/ \E n, contact \in Nodes : Join(n, contact)
    \/ \E n \in Nodes : Tick(n) \/ PruneDead(n) \/ Crash(n)

Spec == Init /\ [][Next]_vars

\* Every node ticks for ever, messages arrive, sends end, and the failure
\* detector reports.  They wait for quiet moments, which recur: fairness is
\* strong.
Fairness ==
    /\ \A n \in Nodes : SF_vars(Tick(n))
    /\ SF_vars(\E n \in Nodes : PruneDead(n))
    /\ SF_vars(Handled) /\ WF_vars(Resumed)

FairSpec == Spec /\ Fairness

-----------------------------------------------------------------------------
(* Properties *)

\* Every variable has its type, and nobody is in a view of its own.
TypeOK ==
    /\ start \in Starts /\ up \in SUBSET Nodes /\ joins \in 0..start.maxJoins
    /\ active \in [Nodes -> SUBSET Nodes] /\ passive \in [Nodes -> SUBSET Nodes]
    /\ jobs \subseteq Job /\ wire \subseteq Message
    /\ \A n \in Nodes : n \notin active[n] \cup passive[n]

\* "Every node has two bounded views" (hyparview.py): the backups never exceed
\* passiveSize, whatever joins, walks, shuffles and drops meet.  When sends do
\* not suspend, the active view keeps its bound too, and no peer is in both.
ViewsBounded ==
    \A n \in Nodes :
        /\ Cardinality(passive[n]) <= start.passiveSize
        /\ ~start.suspends => /\ Cardinality(active[n]) <= start.activeSize
                        /\ active[n] \cap passive[n] = {}

\* The peers n knows, the one a suspended handler is about to add included.
Contacts(n) ==
    active[n] \cup passive[n]
    \cup {j.nid : j \in {k \in jobs : k.node = n /\ k.then \notin {"spread", "integrate"}}}

\* A node forgets a running peer only to make room among its backups: drops,
\* disconnects, rejections and promotions that interleave lose nobody.
ContactsAreKept ==
    [][\A n \in up' : \A p \in Contacts(n) \ Contacts(n)' :
          p \notin up \/ Cardinality(passive'[n]) = start.passiveSize]_vars

\* "When an active link dies, the node promotes a passive peer, so the overlay
\* self-heals": a node that knows a peer that stays up gets an active link to a
\* running peer.
LinksAreRepaired ==
    \A n \in Nodes : Contacts(n) \cap (up \ start.mortal) # {} ~> n \notin up \/ active[n] \cap up # {}
=============================================================================
