-------------------------------- MODULE Swim --------------------------------
(***************************************************************************)
(* SWIM probing (suprime/node.py) seen from one node, Self: every tick     *)
(* ages the peer table and advances the probe in flight or starts one; a   *)
(* PING without a timely answer is followed by PING_REQs to other peers,   *)
(* and an ACK refreshes its subject.  The other nodes answer, help and     *)
(* crash; what digests say of them arrives at any time, or never.          *)
(*                                                                         *)
(* Messages may be in flight for any number of rounds, and Self handles    *)
(* them while a tick awaits the sends of PING_REQs, which may take rounds. *)
(***************************************************************************)
EXTENDS PeerTable

CONSTANTS
    Self,
    MortalPeers,    \* the nodes that may crash, for good
    ProbeTimeout,   \* probe_timeout, in rounds
    IndirectK,      \* how many helpers an indirect probe asks
    MaxLosses,      \* bound: SWIM messages lost between running nodes
    MaxWire         \* bound: SWIM messages in flight when a probe is sent

Peers == Nodes \ {Self}

ASSUME SelfAssumption == Self \in Nodes /\ MortalPeers \subseteq Peers
ASSUME SwimBounds == /\ ProbeTimeout \in Nat \ {0} /\ IndirectK \in Nat
                     /\ MaxLosses \in Nat /\ MaxWire \in Nat

VARIABLES
    up,         \* the nodes that run
    peers,      \* Self's PeerTable
    probe,      \* its _probe, with the rounds since sent_at, or None
    asking,     \* rounds since the tick that awaits its PING_REQs, or None
    tickedNow,  \* Self has ticked in this round
    wire,       \* SWIM messages in flight
    lost,       \* SWIM messages lost between running nodes (for the bound)
    unprobed    \* unprobed[p]: rounds since Self sent p a PING (for the properties)

swimVars == <<up, peers, probe, asking, tickedNow, wire, lost, unprobed>>

Probe == [target : Peers, phase : {"direct", "indirect"}, age : 0..ProbeTimeout]
SwimMessage == [type : {"ping", "ping_req", "ack"}, dst : Nodes, subject : Peers]

\* A swarm in which Self has heard of everybody.
SwimInit ==
    /\ up = Nodes
    /\ peers = [p \in Nodes |-> IF p = Self THEN None ELSE FreshPeer(0)]
    /\ probe = None /\ asking = None /\ tickedNow = FALSE
    /\ wire = {} /\ lost = 0
    /\ unprobed = [p \in Peers |-> 0]

-----------------------------------------------------------------------------
(* The tick *)

SwimMsg(type, to, subject) == [type |-> type, dst |-> to, subject |-> subject]

Send(msgs) == wire' = wire \cup msgs /\ Cardinality(wire') <= MaxWire

TimedOut == probe.age >= ProbeTimeout

ProbeTargets_WithSelf(tab) == Known(tab) \cup {Self}

\* _pick_probe_target draws one of these.
ProbeTargets(tab) == Known(tab)

\* The next probe, with _send_ping.
StartProbe(tab) ==
    IF ProbeTargets(tab) = {}
    THEN probe' = None /\ UNCHANGED <<wire, unprobed>>
    ELSE \E target \in ProbeTargets(tab) :
            /\ probe' = [target |-> target, phase |-> "direct", age |-> 0]
            /\ Send({SwimMsg("ping", target, target)})
            /\ unprobed' = [unprobed EXCEPT ![target] = 0]

\* A tick ages the table; the rest is _swim_probe.
ProbeTick(tab) ==
    /\ ~tickedNow /\ asking = None
    /\ tab = AgeTable(peers)
    /\ peers' = tab
    /\ tickedNow' = TRUE
    /\ UNCHANGED <<up, lost>>

\* The probe in flight is not due yet.
TickWaits(tab) ==
    /\ ProbeTick(tab)
    /\ probe # None /\ tab[probe.target] # None /\ ~TimedOut
    /\ UNCHANGED <<probe, asking, wire, unprobed>>

Finished_UnlessIndirect(tab) == probe # None => tab[probe.target] = None

\* No probe, a target that is gone, or an indirect probe without an answer.
Finished(tab) ==
    probe # None => tab[probe.target] = None \/ (TimedOut /\ probe.phase = "indirect")

TickStartsProbe(tab) ==
    /\ ProbeTick(tab)
    /\ Finished(tab)
    /\ StartProbe(tab)
    /\ UNCHANGED asking

\* _send_ping_reqs, whose sends the tick awaits.
TickAsks(tab) ==
    LET helpers == Alive(tab) \ {probe.target}
        k == IF Cardinality(helpers) < IndirectK THEN Cardinality(helpers) ELSE IndirectK
    IN  /\ probe # None
        /\ ProbeTick(tab)
        /\ tab[probe.target] # None /\ TimedOut /\ probe.phase = "direct"
        /\ \E H \in SUBSET helpers :
              /\ Cardinality(H) = k
              /\ Send({SwimMsg("ping_req", h, probe.target) : h \in H})
        /\ asking' = 0
        /\ UNCHANGED <<probe, unprobed>>

\* The tick goes on: the probe becomes indirect, dated back to the tick, or it
\* was answered meanwhile, and the next one starts.
AfterAsking ==
    /\ asking # None
    /\ IF probe # None
       THEN /\ probe' = [probe EXCEPT !.phase = "indirect", !.age = asking]
            /\ UNCHANGED <<wire, unprobed>>
       ELSE StartProbe(peers)
    /\ asking' = None
    /\ UNCHANGED <<up, peers, tickedNow, lost>>

-----------------------------------------------------------------------------
(* The handlers *)

\* _handle_ping at the subject, which answers Self, and _handle_ping_req at a
\* helper, which pings the subject for Self.
HandlePing(m) ==
    /\ m.type \in {"ping", "ping_req"} /\ m.dst \in up
    /\ wire' = (wire \ {m}) \cup {IF m.type = "ping" THEN SwimMsg("ack", Self, m.dst)
                                                     ELSE SwimMsg("ping", m.subject, m.subject)}
    /\ UNCHANGED <<up, peers, probe, asking, tickedNow, lost, unprobed>>

EndsProbe(subject) == probe # None /\ probe.target = subject

\* _handle_ack.
HandleAck(m) ==
    /\ m.type = "ack"
    /\ peers' = [peers EXCEPT ![m.subject] = AckedPeer(@)]
    /\ probe' = IF EndsProbe(m.subject) THEN None ELSE probe
    /\ wire' = wire \ {m}
    /\ UNCHANGED <<up, asking, tickedNow, lost, unprobed>>

\* A digest with a heartbeat of p that merge accepts.  After p has crashed such
\* digests still come from nodes that have not evicted it, again and again.
Hear(p) ==
    /\ peers' = [peers EXCEPT ![p] = Refreshed(@, 0)]
    /\ UNCHANGED <<up, probe, asking, tickedNow, wire, lost, unprobed>>

LoseSwim(m) ==
    /\ IF m.dst \in up THEN lost < MaxLosses /\ lost' = lost + 1 ELSE UNCHANGED lost
    /\ wire' = wire \ {m}
    /\ UNCHANGED <<up, peers, probe, asking, tickedNow, unprobed>>

CrashPeer(p) ==
    /\ p \in MortalPeers \cap up
    /\ up' = up \ {p}
    /\ UNCHANGED <<peers, probe, asking, tickedNow, wire, lost, unprobed>>

\* A gossip interval passes; a tick that awaits its sends is not repeated.
RoundPasses ==
    /\ tickedNow \/ asking # None
    /\ tickedNow' = FALSE
    /\ peers' = [p \in Nodes |-> IF peers[p] = None THEN None
                                 ELSE [peers[p] EXCEPT !.age = Older(@, DeadAfter)]]
    /\ probe' = IF probe = None THEN None ELSE [probe EXCEPT !.age = Older(@, ProbeTimeout)]
    /\ asking' = IF asking = None THEN None ELSE Older(asking, ProbeTimeout)
    /\ unprobed' = [p \in Peers |-> Older(unprobed[p], DeadAfter)]
    /\ UNCHANGED <<up, wire, lost>>

Ticks == \E tab \in {AgeTable(peers)} : TickWaits(tab) \/ TickStartsProbe(tab) \/ TickAsks(tab)

SwimNext ==
    \/ \E tab \in {AgeTable(peers)} : TickWaits(tab)
    \/ \E tab \in {AgeTable(peers)} : TickStartsProbe(tab)
    \/ \E tab \in {AgeTable(peers)} : TickAsks(tab)
    \/ AfterAsking
    \/ \E m \in wire : HandlePing(m)
    \/ \E m \in wire : HandleAck(m)
    \/ \E p \in Peers : Hear(p)
    \/ \E m \in wire : LoseSwim(m)
    \/ \E p \in Peers : CrashPeer(p)
    \/ RoundPasses

SwimSpec == SwimInit /\ [][SwimNext]_swimVars

\* Where messages go: PINGs to their subject, ACKs to Self, PING_REQs to a third.
Routes ==
    {m \in SwimMessage : \/ m.type = "ping" /\ m.dst = m.subject
                         \/ m.type = "ack" /\ m.dst = Self
                         \/ m.type = "ping_req" /\ m.dst \notin {Self, m.subject}}

Arrives(m) == m \in wire /\ (HandlePing(m) \/ HandleAck(m) \/ LoseSwim(m))

\* The loop goes on and sends end; no message is in flight forever.
SwimFairness ==
    /\ WF_swimVars(Ticks) /\ WF_swimVars(AfterAsking) /\ WF_swimVars(RoundPasses)
    /\ \A m \in Routes : WF_swimVars(Arrives(m))

FairSwimSpec == SwimSpec /\ SwimFairness

-----------------------------------------------------------------------------
(* Properties *)

\* Every variable has its type, and Self is not in its own table.
SwimTypeOK ==
    /\ up \in SUBSET Nodes /\ Self \in up
    /\ peers \in [Nodes -> Peer \cup {None}] /\ peers[Self] = None
    /\ probe \in Probe \cup {None}
    /\ asking \in (0..ProbeTimeout) \cup {None} /\ tickedNow \in BOOLEAN
    /\ wire \in SUBSET SwimMessage
    /\ lost \in 0..MaxLosses
    /\ unprobed \in [Peers -> 0..DeadAfter]

\* "Suppresses false-positive evictions of slow-but-alive peers" (_swim_probe):
\* a running peer that was probed within DeadAfter rounds is evicted only when a
\* SWIM message was lost or is still under way, even if no digest ever arrives.
ProbedAreKept ==
    [][\A p \in Peers :
          /\ p \in up /\ peers[p] # None /\ peers'[p] = None
          => \/ unprobed[p] >= DeadAfter
             \/ lost > 0
             \/ \E m \in wire : m.subject = p]_swimVars

\* A probe never gets stuck, whatever is lost, late, evicted or crashed: it is
\* answered, becomes indirect when it is due, or makes room for the next one.
ProbesEnd ==
    \A p \in Peers, phase \in {"direct", "indirect"} :
        []<>~(probe # None /\ probe.target = p /\ probe.phase = phase /\ probe.age = ProbeTimeout)

\* Probing does not keep the dead in the table: once digests have stopped to
\* bring a crashed peer back, late ACKs and answers relayed by helpers, which need
\* no newer heartbeat (refresh), run out, and the peer is evicted for good.
DeadStayEvicted ==
    \A p \in MortalPeers :
        <>[][~Hear(p)]_swimVars => <>[](p \notin up => peers[p] = None)
=============================================================================
