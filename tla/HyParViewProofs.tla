--------------------------- MODULE HyParViewProofs ---------------------------
(***************************************************************************)
(* Proofs about HyParView, for every finite set of nodes, every overlay it *)
(* starts from, every size of the views and length of the walks, and       *)
(* handlers that suspend in their sends or do not.                         *)
(*                                                                         *)
(* ViewsBounded is not inductive: a handler that has dropped a peer to     *)
(* make room adds another one later, whatever the views have become.  What *)
(* it needs is the room a suspended handler counts on, Room: when sends do *)
(* not suspend there is one such handler at a time, and its newcomer is in *)
(* neither view.                                                           *)
(***************************************************************************)
EXTENDS HyParView, FiniteSetTheorems, TLAPS

\* What _add_active may be called for.
AddKinds == {"join", "walk", "adopt", "neighbor", "reply"}

\* A suspended handler is about to add nid to the active view.
Adds(j) == j.then \in AddKinds \cup {"promote"}

\* Nobody is about to add itself.
AddsOthers == \A j \in jobs : Adds(j) => j.nid # j.node

TypeInv == TypeOK /\ AddsOthers

\* Without suspension, one handler at a time, and room for its newcomer.
Room ==
    ~start.suspends =>
        /\ \A j, k \in jobs : j = k
        /\ \A j \in jobs : Adds(j) =>
              /\ j.nid \notin active[j.node] \cup passive[j.node]
              /\ Cardinality(active[j.node]) < start.activeSize

-----------------------------------------------------------------------------
(* Messages and jobs *)

\* The fields of a message.
LEMMA MessageType ==
    ASSUME NEW m \in Message
    PROVE  /\ m.src \in Nodes /\ m.dst \in Nodes
           /\ m.type = "fwdjoin" => m.nid \in Nodes /\ m.ttl \in 0..ARWL
           /\ m.type = "shuffle" => /\ m.origin \in Nodes /\ m.nodes \in SUBSET Nodes
                                    /\ m.ttl \in 0..ShuffleTTL
           /\ m.type = "shuffle_reply" => m.nodes \in SUBSET Nodes
BY DEF Message

\* The messages that handlers send.
LEMMA SendsType ==
    ASSUME NEW n \in Nodes, NEW p \in Nodes
    PROVE  /\ \A b \in BOOLEAN : NeighborMsg(n, p, b) \in Message /\ ReplyMsg(n, p, b) \in Message
           /\ \A q \in Nodes, ttl \in 0..ARWL : FwdJoinMsg(n, p, q, ttl) \in Message
           /\ \A q \in Nodes, S \in SUBSET Nodes, ttl \in 0..ShuffleTTL :
                 ShuffleMsg(n, p, q, S, ttl) \in Message
           /\ \A S \in SUBSET Nodes :
                 [type |-> "shuffle_reply", src |-> n, dst |-> p, nodes |-> S] \in Message
           /\ [type |-> "disconnect", src |-> n, dst |-> p] \in Message
           /\ [type |-> "join", src |-> n, dst |-> p] \in Message
<1>1. \A b \in BOOLEAN : NeighborMsg(n, p, b) \in Message
  BY DEF NeighborMsg, Message
<1>2. \A b \in BOOLEAN : ReplyMsg(n, p, b) \in Message
  BY DEF ReplyMsg, Message
<1>3. \A q \in Nodes, ttl \in 0..ARWL : FwdJoinMsg(n, p, q, ttl) \in Message
  BY DEF FwdJoinMsg, Message
<1>4. \A q \in Nodes, S \in SUBSET Nodes, ttl \in 0..ShuffleTTL :
          ShuffleMsg(n, p, q, S, ttl) \in Message
  BY DEF ShuffleMsg, Message
<1>5. \A S \in SUBSET Nodes :
          [type |-> "shuffle_reply", src |-> n, dst |-> p, nodes |-> S] \in Message
  BY DEF Message
<1>6. /\ [type |-> "disconnect", src |-> n, dst |-> p] \in Message
      /\ [type |-> "join", src |-> n, dst |-> p] \in Message
  BY DEF Message
<1> QED
  BY <1>1, <1>2, <1>3, <1>4, <1>5, <1>6

\* The messages of a walk and of a shuffle.
LEMMA WalkType ==
    ASSUME NEW n \in Nodes, NEW p \in Nodes, NEW q \in Nodes, NEW S \in SUBSET Nodes
    PROVE  /\ \A ttl \in 0..ARWL : FwdJoinMsg(n, p, q, ttl) \in Message
           /\ \A ttl \in 0..ShuffleTTL : ShuffleMsg(n, p, q, S, ttl) \in Message
BY SendsType

\* _send adds messages and nothing else.
LEMMA SentType ==
    ASSUME NEW w \in SUBSET Message, NEW msgs \in SUBSET Message
    PROVE  Sent(w, msgs) \subseteq Message
BY DEF Sent

\* The fields of a suspended job.
LEMMA JobFields ==
    ASSUME NEW j \in Job
    PROVE  /\ j.node \in Nodes
           /\ j.then = "integrate" => j.nodes \in SUBSET Nodes
           /\ j.then # "integrate" => j.nid \in Nodes
BY DEF Job

\* The jobs that handlers leave behind.
LEMMA JobType ==
    ASSUME NEW n \in Nodes
    PROVE  /\ \A then \in AddKinds \cup {"promote", "spread"}, nid \in Nodes :
                 [node |-> n, then |-> then, nid |-> nid] \in Job
           /\ \A S \in SUBSET Nodes : IntegrateJob(n, S) \in Job
<1>1. \A then \in AddKinds \cup {"promote", "spread"}, nid \in Nodes :
          [node |-> n, then |-> then, nid |-> nid] \in Job
  BY DEF Job, AddKinds
<1>2. \A S \in SUBSET Nodes : IntegrateJob(n, S) \in Job
  BY DEF Job, IntegrateJob
<1> QED
  BY <1>1, <1>2

\* What follows _add_active: a message at most, and after a JOIN the spreading.
LEMMA AfterAddingFacts ==
    ASSUME NEW n \in Nodes, NEW nid \in Nodes, NEW then \in AddKinds,
           NEW w \in SUBSET Message, NEW js \in SUBSET Job, AfterAdding(n, nid, then, w, js)
    PROVE  /\ wire' \subseteq Message /\ jobs' \subseteq Job
           /\ js \subseteq jobs' /\ jobs' \subseteq js \cup {[node |-> n, then |-> "spread", nid |-> nid]}
<1>1. wire' \subseteq Message
  <2>1. {NeighborMsg(n, nid, TRUE)} \in SUBSET Message /\ {ReplyMsg(n, nid, TRUE)} \in SUBSET Message
    BY SendsType
  <2>2. /\ Sent(w, {NeighborMsg(n, nid, TRUE)}) \subseteq Message
        /\ Sent(w, {ReplyMsg(n, nid, TRUE)}) \subseteq Message
    BY <2>1, SentType
  <2> QED
    BY <2>2 DEF AfterAdding
<1>2. [node |-> n, then |-> "spread", nid |-> nid] \in Job
  BY JobType
<1> QED
  BY <1>1, <1>2 DEF AfterAdding

\* The backups that _integrate may leave: everybody, or a full view of them.
LEMMA IntegratedFacts ==
    ASSUME NEW n, NEW act, NEW pas, NEW nodes, NEW q \in Integrated(n, act, pas, nodes)
    PROVE  /\ q \subseteq pas \cup (nodes \ ({n} \cup act))
           /\ \/ q = pas \cup (nodes \ ({n} \cup act)) /\ Cardinality(q) <= start.passiveSize
              \/ Cardinality(q) = start.passiveSize
BY DEF Integrated

\* _sample draws from what it is given.
LEMMA SamplesType == ASSUME NEW pool, NEW S \in Samples(pool) PROVE S \subseteq pool
BY DEF Samples

-----------------------------------------------------------------------------
(* Type correctness *)

\* A node that is handed other peers keeps itself out of its views.
LEMMA ViewsType ==
    ASSUME TypeInv, NEW n \in Nodes, NEW act \in SUBSET (Nodes \ {n}), NEW pas \in SUBSET (Nodes \ {n}),
           active' = [active EXCEPT ![n] = act] \/ active' = active,
           passive' = [passive EXCEPT ![n] = pas] \/ passive' = passive
    PROVE  /\ active' \in [Nodes -> SUBSET Nodes] /\ passive' \in [Nodes -> SUBSET Nodes]
           /\ \A k \in Nodes : k \notin active'[k] \cup passive'[k]
<1>1. active \in [Nodes -> SUBSET Nodes] /\ passive \in [Nodes -> SUBSET Nodes]
  BY DEF TypeInv, TypeOK
<1>2. \A k \in Nodes : k \notin active[k] /\ k \notin passive[k]
  BY DEF TypeInv, TypeOK
<1>3. active' \in [Nodes -> SUBSET Nodes] /\ \A k \in Nodes : k \notin active'[k]
  BY <1>1, <1>2
<1>4. passive' \in [Nodes -> SUBSET Nodes] /\ \A k \in Nodes : k \notin passive'[k]
  BY <1>1, <1>2
<1> QED
  BY <1>3, <1>4

\* The views of a node, and what _integrate makes of its backups.
LEMMA OwnViews ==
    ASSUME TypeInv, NEW n \in Nodes
    PROVE  /\ active[n] \in SUBSET (Nodes \ {n}) /\ passive[n] \in SUBSET (Nodes \ {n})
           /\ \A act, pas : \A nodes \in SUBSET Nodes : \A q \in Integrated(n, act, pas, nodes) :
                 pas \in SUBSET (Nodes \ {n}) => q \in SUBSET (Nodes \ {n})
<1>1. active[n] \in SUBSET (Nodes \ {n}) /\ passive[n] \in SUBSET (Nodes \ {n})
  BY DEF TypeInv, TypeOK
<1>2. ASSUME NEW act, NEW pas \in SUBSET (Nodes \ {n}), NEW nodes \in SUBSET Nodes,
             NEW q \in Integrated(n, act, pas, nodes)
      PROVE  q \in SUBSET (Nodes \ {n})
  <2>1. q \subseteq pas \cup (nodes \ ({n} \cup act))
    BY IntegratedFacts
  <2> QED
    BY <2>1
<1> QED
  BY <1>1, <1>2

\* _add_active keeps every type, and whoever waits to be added is another node.
LEMMA AddActiveType ==
    ASSUME TypeInv, NEW n \in Nodes, NEW nid \in Nodes, NEW then \in AddKinds,
           NEW w \in SUBSET Message, AddActive(n, nid, then, w)
    PROVE  /\ active' \in [Nodes -> SUBSET Nodes] /\ passive' \in [Nodes -> SUBSET Nodes]
           /\ \A k \in Nodes : k \notin active'[k] \cup passive'[k]
           /\ jobs' \subseteq Job /\ wire' \subseteq Message /\ AddsOthers'
<1>1. jobs \in SUBSET Job /\ AddsOthers
  BY DEF TypeInv, TypeOK
<1>2. active[n] \in SUBSET (Nodes \ {n}) /\ passive[n] \in SUBSET (Nodes \ {n})
  BY OwnViews
<1>t. active \in [Nodes -> SUBSET Nodes] /\ passive \in [Nodes -> SUBSET Nodes]
  BY DEF TypeInv, TypeOK
<1>3. CASE nid \in {n} \cup active[n] \/ Cardinality(active[n]) < start.activeSize
  <2>1. /\ active' = [active EXCEPT ![n] = @ \cup ({nid} \ {n})]
        /\ passive' = [passive EXCEPT ![n] = IF nid \in active[n] THEN @ ELSE @ \ {nid}]
        /\ AfterAdding(n, nid, then, w, jobs)
    BY <1>3 DEF AddActive
  <2>2. /\ wire' \subseteq Message /\ jobs' \subseteq Job
        /\ jobs' \subseteq jobs \cup {[node |-> n, then |-> "spread", nid |-> nid]}
    BY <1>1, <2>1, AfterAddingFacts
  <2>3. AddsOthers'
    <3>1. ~Adds([node |-> n, then |-> "spread", nid |-> nid])
      BY DEF Adds, AddKinds
    <3> QED
      BY <1>1, <2>2, <3>1 DEF AddsOthers, Adds
  <2>4. PICK act \in SUBSET (Nodes \ {n}) : active' = [active EXCEPT ![n] = act]
    <3>1. active[n] \cup ({nid} \ {n}) \in SUBSET (Nodes \ {n})
      BY <1>2
    <3> QED
      BY <2>1, <3>1, <1>t
  <2>5. PICK pas \in SUBSET (Nodes \ {n}) : passive' = [passive EXCEPT ![n] = pas]
    <3>1. (IF nid \in active[n] THEN passive[n] ELSE passive[n] \ {nid}) \in SUBSET (Nodes \ {n})
      BY <1>2
    <3> QED
      BY <2>1, <3>1, <1>t
  <2> QED
    BY <2>2, <2>3, <2>4, <2>5, ViewsType
<1>4. CASE ~(nid \in {n} \cup active[n] \/ Cardinality(active[n]) < start.activeSize)
  <2>1. PICK victim \in active[n] :
            /\ active' = [active EXCEPT ![n] = @ \ {victim}]
            /\ \E pas \in Dropped(n, nid, victim) : passive' = [passive EXCEPT ![n] = pas]
            /\ wire' = Sent(w, {[type |-> "disconnect", src |-> n, dst |-> victim]})
    BY <1>4 DEF AddActive
  <2>2. jobs' = jobs \cup {[node |-> n, then |-> then, nid |-> nid]}
    BY <1>4 DEF AddActive
  <2>3. PICK pas \in Dropped(n, nid, victim) : passive' = [passive EXCEPT ![n] = pas]
    BY <2>1
  <2>4. victim \in Nodes /\ passive[n] \ {nid} \in SUBSET (Nodes \ {n})
    BY <1>2
  <2>5. pas \in SUBSET (Nodes \ {n})
    <3>1. {victim} \in SUBSET Nodes
      BY <2>4
    <3> QED
      BY <2>3, <2>4, <3>1, OwnViews DEF Dropped
  <2>6. PICK act \in SUBSET (Nodes \ {n}) : active' = [active EXCEPT ![n] = act]
    <3>1. active[n] \ {victim} \in SUBSET (Nodes \ {n})
      BY <1>2
    <3> QED
      BY <2>1, <3>1, <1>t
  <2>7. wire' \subseteq Message
    <3>1. {[type |-> "disconnect", src |-> n, dst |-> victim]} \in SUBSET Message
      BY <2>4, SendsType
    <3> QED
      BY <2>1, <3>1, SentType
  <2>8. jobs' \subseteq Job
    BY <1>1, <2>2, JobType
  <2>9. AddsOthers'
    BY <1>1, <1>4, <2>2 DEF AddsOthers, Adds
  <2> QED
    BY <2>3, <2>5, <2>6, <2>7, <2>8, <2>9, ViewsType
<1> QED
  BY <1>3, <1>4

\* A turn of the tick keeps every type, and promotes another node.
LEMMA MaintainType ==
    ASSUME TypeInv, NEW n \in Nodes, NEW act \in SUBSET (Nodes \ {n}), NEW js \in SUBSET jobs,
           Maintain(n, act, js)
    PROVE  /\ active' \in [Nodes -> SUBSET Nodes] /\ passive' \in [Nodes -> SUBSET Nodes]
           /\ \A k \in Nodes : k \notin active'[k] \cup passive'[k]
           /\ jobs' \subseteq Job /\ wire' \subseteq Message /\ AddsOthers'
<1>1. jobs \in SUBSET Job /\ wire \in SUBSET Message /\ AddsOthers
  BY DEF TypeInv, TypeOK
<1>2. active[n] \in SUBSET (Nodes \ {n}) /\ passive[n] \in SUBSET (Nodes \ {n})
  BY OwnViews
<1>t. passive \in [Nodes -> SUBSET Nodes]
  BY DEF TypeInv, TypeOK
<1>3. active' = [active EXCEPT ![n] = act]
  BY DEF Maintain
<1>4. CASE NeedsRepair(n, act)
  <2>1. PICK candidate \in passive[n] :
            /\ passive' = [passive EXCEPT ![n] = @ \ {candidate}]
            /\ wire' = Sent(wire, {NeighborMsg(n, candidate, act = {})})
            /\ jobs' = js \cup {[node |-> n, then |-> "promote", nid |-> candidate]}
    BY <1>4 DEF Maintain
  <2>2. PICK pas \in SUBSET (Nodes \ {n}) : passive' = [passive EXCEPT ![n] = pas]
    <3>1. passive[n] \ {candidate} \in SUBSET (Nodes \ {n})
      BY <1>2
    <3> QED
      BY <2>1, <3>1, <1>t
  <2>3. candidate \in Nodes \ {n} /\ (act = {}) \in BOOLEAN
    BY <1>2
  <2>4. wire' \subseteq Message
    <3>1. {NeighborMsg(n, candidate, act = {})} \in SUBSET Message
      BY <2>3, SendsType
    <3> QED
      BY <1>1, <2>1, <3>1, SentType
  <2>5. jobs' \subseteq Job
    BY <1>1, <2>1, <2>3, JobType
  <2>6. AddsOthers'
    BY <1>1, <2>1, <2>3 DEF AddsOthers, Adds
  <2> QED
    BY <1>3, <2>2, <2>4, <2>5, <2>6, ViewsType
<1>5. CASE ~NeedsRepair(n, act)
  <2>1. jobs' = js /\ passive' = passive
    BY <1>5 DEF Maintain
  <2>2. wire' \subseteq Message
    <3>1. CASE act = {}
      BY <1>1, <1>5, <3>1 DEF Maintain
    <3>2. CASE act # {}
      <4>1. PICK target \in act, sample \in Samples(act \cup passive[n]) :
                wire' = Sent(wire, {ShuffleMsg(n, target, n, sample, ShuffleTTL)})
        BY <1>5, <3>2 DEF Maintain
      <4>2. sample \in SUBSET Nodes
        <5>1. sample \subseteq act \cup passive[n]
          BY SamplesType
        <5> QED
          BY <1>2, <5>1
      <4>3. ShuffleTTL \in 0..ShuffleTTL /\ target \in Nodes
        BY SizesAssumption
      <4>4. {ShuffleMsg(n, target, n, sample, ShuffleTTL)} \in SUBSET Message
        BY <4>2, <4>3, WalkType
      <4> QED
        BY <1>1, <4>1, <4>4, SentType
    <3> QED
      BY <3>1, <3>2
  <2>3. jobs' \subseteq Job /\ AddsOthers'
    BY <1>1, <2>1 DEF AddsOthers
  <2>4. passive[n] \in SUBSET (Nodes \ {n})
    BY <1>2
  <2> QED
    BY <1>3, <2>1, <2>2, <2>3, <2>4, ViewsType
<1> QED
  BY <1>4, <1>5

\* Every step keeps the types.
LEMMA TypeStep == TypeInv /\ [Next]_vars => TypeInv'
<1> SUFFICES ASSUME TypeInv, [Next]_vars
             PROVE  TypeInv'
  OBVIOUS
<1> DEFINE Rest == /\ active' \in [Nodes -> SUBSET Nodes] /\ passive' \in [Nodes -> SUBSET Nodes]
                   /\ \A k \in Nodes : k \notin active'[k] \cup passive'[k]
                   /\ jobs' \subseteq Job /\ wire' \subseteq Message /\ AddsOthers'
<1>1. /\ start \in Starts /\ up \in SUBSET Nodes /\ joins \in 0..start.maxJoins
      /\ active \in [Nodes -> SUBSET Nodes] /\ passive \in [Nodes -> SUBSET Nodes]
      /\ jobs \subseteq Job /\ wire \subseteq Message /\ AddsOthers
      /\ \A k \in Nodes : k \notin active[k] \cup passive[k]
  BY DEF TypeInv, TypeOK
<1>2. /\ \A m \in wire : wire \ {m} \in SUBSET Message
      /\ \A m \in wire : m \in Message
      /\ \A j \in jobs : jobs \ {j} \in SUBSET Job
      /\ \A j \in jobs : j \in Job
  BY <1>1
<1>3. ASSUME Rest, UNCHANGED <<start, up, joins>>
      PROVE  TypeInv'
  BY <1>1, <1>3 DEF TypeInv, TypeOK
<1>4. ASSUME NEW m \in wire, NEW nid \in Nodes, NEW then \in AddKinds,
             AddActive(m.dst, nid, then, wire \ {m})
      PROVE  Rest
  <2>1. m.dst \in Nodes /\ wire \ {m} \in SUBSET Message
    BY <1>2, MessageType
  <2> QED
    BY <1>4, <2>1, AddActiveType
<1>5. ASSUME NEW n \in Nodes, NEW pas \in SUBSET (Nodes \ {n}), passive' = [passive EXCEPT ![n] = pas],
             active' = active, jobs' \subseteq jobs, wire' \subseteq Message
      PROVE  Rest
  <2>1. active[n] \in SUBSET (Nodes \ {n})
    BY OwnViews
  <2>2. jobs' \subseteq Job /\ AddsOthers'
    BY <1>1, <1>5 DEF AddsOthers
  <2> QED
    BY <1>5, <2>1, <2>2, ViewsType
<1>6. ASSUME active' = active, passive' = passive, wire' \subseteq Message,
             NEW n \in Nodes, NEW S \in SUBSET Nodes, jobs' \subseteq jobs \cup {IntegrateJob(n, S)}
      PROVE  Rest
  <2>1. IntegrateJob(n, S) \in Job
    BY JobType
  <2>2. ~Adds(IntegrateJob(n, S))
    BY DEF Adds, AddKinds, IntegrateJob
  <2> QED
    BY <1>1, <1>6, <2>1, <2>2 DEF AddsOthers, Adds
<1> HIDE DEF Rest
<1>10. ASSUME NEW m \in wire, OnJoin(m)
       PROVE  TypeInv'
  <2>1. m.src \in Nodes /\ "join" \in AddKinds
    BY <1>2, MessageType DEF AddKinds
  <2> QED
    BY <1>3, <1>4, <1>10, <2>1 DEF OnJoin
<1>11. ASSUME NEW m \in wire, WalkEnds(m) \/ WalkStrands(m)
       PROVE  TypeInv'
  <2>1. m.type = "fwdjoin"
    BY <1>11 DEF WalkEnds, WalkStrands, WalksOn, Handles
  <2>2. m.nid \in Nodes /\ "walk" \in AddKinds /\ "adopt" \in AddKinds
    BY <1>2, <2>1, MessageType DEF AddKinds
  <2> QED
    BY <1>3, <1>4, <1>11, <2>2 DEF WalkEnds, WalkStrands
<1>12. ASSUME NEW m \in wire, WalkGoesOn(m)
       PROVE  TypeInv'
  <2>1. m.type = "fwdjoin" /\ m.ttl # 0
    BY <1>12 DEF WalkGoesOn, WalksOn, Handles
  <2>2. m.nid \in Nodes /\ m.dst \in Nodes /\ m.ttl - 1 \in 0..ARWL
    BY <1>2, <2>1, MessageType, SizesAssumption
  <2>3. PICK pas \in Deposited(m.dst, m) : passive' = [passive EXCEPT ![m.dst] = pas]
    BY <1>12 DEF WalkGoesOn
  <2>4. pas \in SUBSET (Nodes \ {m.dst})
    <3>1. passive[m.dst] \in SUBSET (Nodes \ {m.dst}) /\ {m.nid} \in SUBSET Nodes
      BY <2>2, OwnViews
    <3>2. CASE m.ttl = PRWL
      BY <2>2, <2>3, <3>1, <3>2, OwnViews DEF Deposited
    <3>3. CASE m.ttl # PRWL
      BY <2>3, <3>1, <3>3 DEF Deposited
    <3> QED
      BY <3>2, <3>3
  <2>5. PICK nxt \in active[m.dst] \ {m.src, m.nid} :
            wire' = Sent(wire \ {m}, {FwdJoinMsg(m.dst, nxt, m.nid, m.ttl - 1)})
    BY <1>12 DEF WalkGoesOn
  <2>6. wire' \subseteq Message
    <3>1. nxt \in Nodes
      BY <1>1, <2>2
    <3>2. {FwdJoinMsg(m.dst, nxt, m.nid, m.ttl - 1)} \in SUBSET Message
      BY <2>2, <3>1, SendsType
    <3> QED
      BY <1>2, <2>5, <3>2, SentType
  <2> QED
    BY <1>3, <1>5, <1>12, <2>2, <2>3, <2>4, <2>6 DEF WalkGoesOn
<1>13. ASSUME NEW m \in wire, OnNeighbor(m)
       PROVE  TypeInv'
  <2>1. m.src \in Nodes /\ m.dst \in Nodes /\ "neighbor" \in AddKinds
    BY <1>2, MessageType DEF AddKinds
  <2>2. CASE AddActive(m.dst, m.src, "neighbor", wire \ {m})
    BY <1>3, <1>4, <1>13, <2>1, <2>2 DEF OnNeighbor
  <2>3. CASE /\ wire' = Sent(wire \ {m}, {ReplyMsg(m.dst, m.src, FALSE)})
             /\ UNCHANGED <<active, passive, jobs>>
    <3>1. {ReplyMsg(m.dst, m.src, FALSE)} \in SUBSET Message
      BY <2>1, SendsType
    <3>2. wire' \subseteq Message
      <4>1. wire \ {m} \in SUBSET Message
        BY <1>2
      <4> QED
        BY <2>3, <3>1, <4>1, SentType
    <3>3. Rest
      BY <1>6, <2>1, <2>3, <3>2
    <3> QED
      BY <1>3, <1>13, <3>3 DEF OnNeighbor
  <2> QED
    BY <1>13, <2>2, <2>3 DEF OnNeighbor
<1>14. ASSUME NEW m \in wire, OnNeighborReply(m)
       PROVE  TypeInv'
  <2>1. m.src \in Nodes /\ m.dst \in Nodes /\ "reply" \in AddKinds
    BY <1>2, MessageType DEF AddKinds
  <2>2. CASE m.accepted
    BY <1>3, <1>4, <1>14, <2>1, <2>2 DEF OnNeighborReply
  <2>3. CASE ~m.accepted
    <3>1. PICK pas \in Integrated(m.dst, active[m.dst], passive[m.dst], {m.src}) :
              passive' = [passive EXCEPT ![m.dst] = pas]
      BY <1>14, <2>3 DEF OnNeighborReply
    <3>2. pas \in SUBSET (Nodes \ {m.dst})
      <4>1. {m.src} \in SUBSET Nodes
        BY <2>1
      <4> QED
        BY <2>1, <3>1, <4>1, OwnViews
    <3> QED
      BY <1>1, <1>3, <1>5, <1>14, <2>1, <2>3, <3>1, <3>2 DEF OnNeighborReply
  <2> QED
    BY <2>2, <2>3
<1>15. ASSUME NEW m \in wire, OnDisconnect(m)
       PROVE  TypeInv'
  <2>1. m.src \in Nodes /\ m.dst \in Nodes
    BY <1>2, MessageType
  <2>2. PICK act \in SUBSET (Nodes \ {m.dst}) : active' = [active EXCEPT ![m.dst] = act]
    <3>1. active[m.dst] \ {m.src} \in SUBSET (Nodes \ {m.dst})
      BY <2>1, OwnViews
    <3> QED
      BY <1>1, <1>15, <3>1 DEF OnDisconnect
  <2>3. PICK pas \in SUBSET (Nodes \ {m.dst}) :
            passive' = [passive EXCEPT ![m.dst] = pas] \/ passive' = passive
    <3>1. CASE m.src \in active[m.dst]
      <4>1. PICK pas \in Integrated(m.dst, active'[m.dst], passive[m.dst], {m.src}) :
                passive' = [passive EXCEPT ![m.dst] = pas]
        BY <1>15, <3>1 DEF OnDisconnect
      <4>2. {m.src} \in SUBSET Nodes
        BY <2>1
      <4>3. pas \in SUBSET (Nodes \ {m.dst})
        BY <2>1, <4>1, <4>2, OwnViews
      <4> QED
        BY <4>1, <4>3
    <3>2. CASE m.src \notin active[m.dst]
      BY <1>15, <3>2 DEF OnDisconnect
    <3> QED
      BY <3>1, <3>2
  <2>4. jobs' \subseteq Job /\ AddsOthers' /\ wire' \subseteq Message
    BY <1>1, <1>15 DEF OnDisconnect, AddsOthers
  <2>5. Rest
    BY <2>1, <2>2, <2>3, <2>4, ViewsType DEF Rest
  <2> QED
    BY <1>3, <1>15, <2>5 DEF OnDisconnect
<1>16. ASSUME NEW m \in wire, ShuffleGoesOn(m)
       PROVE  TypeInv'
  <2>1. m.type = "shuffle" /\ m.ttl - 1 > 0
    BY <1>16 DEF ShuffleGoesOn, Handles
  <2>2. /\ m.dst \in Nodes /\ m.origin \in Nodes /\ m.nodes \in SUBSET Nodes
        /\ m.ttl - 1 \in 0..ShuffleTTL
    BY <1>2, <2>1, MessageType, SizesAssumption
  <2>3. PICK nxt \in active[m.dst] \ {m.src} :
            wire' = Sent(wire \ {m}, {ShuffleMsg(m.dst, nxt, m.origin, m.nodes, m.ttl - 1)})
    BY <1>16 DEF ShuffleGoesOn
  <2>4. wire' \subseteq Message
    <3>1. nxt \in Nodes
      BY <1>1, <2>2
    <3>2. {ShuffleMsg(m.dst, nxt, m.origin, m.nodes, m.ttl - 1)} \in SUBSET Message
      BY <2>2, <3>1, WalkType
    <3> QED
      BY <1>2, <2>3, <3>2, SentType
  <2> QED
    BY <1>3, <1>6, <1>16, <2>2, <2>4 DEF ShuffleGoesOn
<1>17. ASSUME NEW m \in wire, ShuffleEnds(m)
       PROVE  TypeInv'
  <2>1. m.type = "shuffle"
    BY <1>17 DEF ShuffleEnds, Handles
  <2>2. m.dst \in Nodes /\ m.origin \in Nodes /\ m.nodes \in SUBSET Nodes
    BY <1>2, <2>1, MessageType
  <2> DEFINE Answer(S) == [type |-> "shuffle_reply", src |-> m.dst, dst |-> m.origin, nodes |-> S]
  <2>3. PICK sample \in Samples(active[m.dst] \cup passive[m.dst]) :
            wire' = Sent(wire \ {m}, {r \in {Answer(sample)} : m.origin # m.dst})
    BY <1>17 DEF ShuffleEnds
  <2>4. wire' \subseteq Message
    <3>1. sample \subseteq active[m.dst] \cup passive[m.dst]
      BY SamplesType
    <3>2. sample \in SUBSET Nodes
      BY <1>1, <2>2, <3>1
    <3>3. {r \in {Answer(sample)} : m.origin # m.dst} \in SUBSET Message
      BY <2>2, <3>2, SendsType
    <3> QED
      BY <1>2, <2>3, <3>3, SentType
  <2> QED
    BY <1>3, <1>6, <1>17, <2>2, <2>4 DEF ShuffleEnds
<1>18. ASSUME NEW m \in wire, OnShuffleReply(m)
       PROVE  TypeInv'
  <2>1. m.type = "shuffle_reply"
    BY <1>18 DEF OnShuffleReply, Handles
  <2>2. m.dst \in Nodes /\ m.nodes \in SUBSET Nodes
    BY <1>2, <2>1, MessageType
  <2>3. PICK pas \in Integrated(m.dst, active[m.dst], passive[m.dst], m.nodes) :
            passive' = [passive EXCEPT ![m.dst] = pas]
    BY <1>18 DEF OnShuffleReply
  <2>4. pas \in SUBSET (Nodes \ {m.dst})
    BY <2>2, <2>3, OwnViews
  <2> QED
    BY <1>1, <1>3, <1>5, <1>18, <2>2, <2>3, <2>4 DEF OnShuffleReply
<1>20. ASSUME NEW j \in jobs, ResumeAdd(j)
       PROVE  TypeInv'
  <2>1. j.then \in AddKinds
    BY <1>20 DEF ResumeAdd, AddKinds
  <2>2. j.node \in Nodes /\ j.nid \in Nodes /\ j.nid # j.node
    BY <1>1, <1>2, <2>1, JobFields DEF AddsOthers, Adds, AddKinds
  <2>3. AfterAdding(j.node, j.nid, j.then, wire, jobs \ {j})
    BY <1>20 DEF ResumeAdd
  <2>4. /\ wire' \subseteq Message /\ jobs' \subseteq Job
        /\ jobs' \subseteq (jobs \ {j}) \cup {[node |-> j.node, then |-> "spread", nid |-> j.nid]}
    BY <1>1, <1>2, <2>1, <2>2, <2>3, AfterAddingFacts
  <2>5. AddsOthers'
    <3>1. ~Adds([node |-> j.node, then |-> "spread", nid |-> j.nid])
      BY DEF Adds, AddKinds
    <3> QED
      BY <1>1, <2>4, <3>1 DEF AddsOthers, Adds
  <2>6. PICK act \in SUBSET (Nodes \ {j.node}) : active' = [active EXCEPT ![j.node] = act]
    <3>1. active[j.node] \cup {j.nid} \in SUBSET (Nodes \ {j.node})
      BY <2>2, OwnViews
    <3> QED
      BY <1>1, <1>20, <3>1 DEF ResumeAdd
  <2>7. passive' = passive /\ passive[j.node] \in SUBSET (Nodes \ {j.node})
    BY <1>20, <2>2, OwnViews DEF ResumeAdd
  <2>8. Rest
    BY <2>2, <2>4, <2>5, <2>6, <2>7, ViewsType DEF Rest
  <2> QED
    BY <1>3, <1>20, <2>8 DEF ResumeAdd
<1>21. ASSUME NEW j \in jobs, Spread(j)
       PROVE  TypeInv'
  <2>1. j.then = "spread"
    BY <1>21 DEF Spread
  <2>2. j.node \in Nodes /\ j.nid \in Nodes
    BY <1>2, <2>1, JobFields
  <2>3. PICK told \in SUBSET (active[j.node] \ {j.nid}) :
            wire' = Sent(wire, {FwdJoinMsg(j.node, p, j.nid, ARWL) : p \in told})
    BY <1>21 DEF Spread
  <2>4. wire' \subseteq Message
    <3>1. told \subseteq Nodes /\ ARWL \in 0..ARWL
      BY <1>1, <2>2, SizesAssumption
    <3>2. \A p \in told : FwdJoinMsg(j.node, p, j.nid, ARWL) \in Message
      BY <2>2, <3>1, WalkType
    <3>3. {FwdJoinMsg(j.node, p, j.nid, ARWL) : p \in told} \in SUBSET Message
      BY <3>2
    <3> QED
      BY <1>1, <2>3, <3>3, SentType
  <2>5. Rest
    BY <1>6, <1>21, <2>2, <2>4 DEF Spread
  <2> QED
    BY <1>3, <1>21, <2>5 DEF Spread
<1>22. ASSUME NEW j \in jobs, Integrate(j)
       PROVE  TypeInv'
  <2>1. j.then = "integrate"
    BY <1>22 DEF Integrate
  <2>2. j.node \in Nodes /\ j.nodes \in SUBSET Nodes
    BY <1>2, <2>1, JobFields
  <2>3. PICK pas \in Integrated(j.node, active[j.node], passive[j.node], j.nodes) :
            passive' = [passive EXCEPT ![j.node] = pas]
    BY <1>22 DEF Integrate
  <2>4. pas \in SUBSET (Nodes \ {j.node})
    BY <2>2, <2>3, OwnViews
  <2> QED
    BY <1>1, <1>3, <1>5, <1>22, <2>2, <2>3, <2>4 DEF Integrate
<1>23. ASSUME NEW j \in jobs, Promote(j)
       PROVE  TypeInv'
  <2>1. j.then = "promote"
    BY <1>23 DEF Promote
  <2>2. j.node \in Nodes /\ j.nid \in Nodes /\ j.nid # j.node
    BY <1>1, <1>2, <2>1, JobFields DEF AddsOthers, Adds
  <2>3. active[j.node] \cup {j.nid} \in SUBSET (Nodes \ {j.node})
    BY <2>2, OwnViews
  <2>4. Maintain(j.node, active[j.node] \cup {j.nid}, jobs \ {j})
    BY <1>23 DEF Promote
  <2>5. Rest
    <3>1. jobs \ {j} \in SUBSET jobs
      OBVIOUS
    <3> QED
      BY <2>2, <2>3, <2>4, <3>1, MaintainType DEF Rest
  <2> QED
    BY <1>3, <1>23, <2>5 DEF Promote
<1>24. ASSUME NEW n \in Nodes, NEW contact \in Nodes, Join(n, contact)
       PROVE  TypeInv'
  <2>1. wire' \subseteq Message
    BY <1>1, <1>24, SendsType DEF Join
  <2>2. start.maxJoins \in Nat
    BY <1>1, StartsAssumption DEF Start
  <2>3. joins' \in 0..start.maxJoins
    BY <1>1, <1>24, <2>2 DEF Join
  <2> QED
    BY <1>1, <1>24, <2>1, <2>3 DEF Join, TypeInv, TypeOK, AddsOthers
<1>25. ASSUME NEW n \in Nodes, Tick(n)
       PROVE  TypeInv'
  <2>1. active[n] \in SUBSET (Nodes \ {n}) /\ Maintain(n, active[n], jobs)
    BY <1>25, OwnViews DEF Tick
  <2>2. Rest
    BY <2>1, MaintainType DEF Rest
  <2> QED
    BY <1>3, <1>25, <2>2 DEF Tick
<1>26. ASSUME NEW n \in Nodes, PruneDead(n)
       PROVE  TypeInv'
  <2>1. active[n] \cap up \in SUBSET (Nodes \ {n}) /\ passive[n] \cap up \in SUBSET (Nodes \ {n})
    BY OwnViews
  <2>2. /\ active' = [active EXCEPT ![n] = active[n] \cap up]
        /\ passive' = [passive EXCEPT ![n] = passive[n] \cap up]
    BY <1>1, <1>26 DEF PruneDead
  <2>3. jobs' \subseteq Job /\ wire' \subseteq Message /\ AddsOthers'
    BY <1>1, <1>26 DEF PruneDead, AddsOthers
  <2>4. Rest
    BY <2>1, <2>2, <2>3, ViewsType DEF Rest
  <2> QED
    BY <1>3, <1>26, <2>4 DEF PruneDead
<1>27. ASSUME NEW n \in Nodes, Crash(n)
       PROVE  TypeInv'
  BY <1>1, <1>27 DEF Crash, TypeInv, TypeOK, AddsOthers
<1>28. CASE UNCHANGED vars
  BY <1>1, <1>28 DEF vars, TypeInv, TypeOK, AddsOthers
<1> QED
  BY <1>10, <1>11, <1>12, <1>13, <1>14, <1>15, <1>16, <1>17, <1>18, <1>20, <1>21, <1>22, <1>23,
     <1>24, <1>25, <1>26, <1>27, <1>28 DEF Next, Handled, Resumed

\* HyParView's variables have their types, and nobody is in a view of its own:
\* the peers that handlers, walks and shuffles bring in are other nodes.
THEOREM HyParViewTypeCorrect == Spec => []TypeOK
<1>1. Init => TypeInv
  BY StartsAssumption DEF Init, TypeInv, TypeOK, AddsOthers, Start
<1>2. TypeInv => TypeOK
  BY DEF TypeInv
<1> QED
  BY <1>1, <1>2, TypeStep, PTL DEF Spec

-----------------------------------------------------------------------------
(* The bounds of the views *)

BoundsInv == TypeInv /\ ViewsBounded /\ Room

\* The sizes of the sets of nodes.
LEMMA Sizes ==
    ASSUME NEW S \in SUBSET Nodes
    PROVE  /\ IsFiniteSet(S) /\ Cardinality(S) \in Nat
           /\ \A T \in SUBSET S : Cardinality(T) <= Cardinality(S)
           /\ \A x : x \notin S => Cardinality(S \cup {x}) = Cardinality(S) + 1
           /\ \A x \in S : Cardinality(S \ {x}) = Cardinality(S) - 1
<1>1. IsFiniteSet(S)
  BY FS_Subset, NodesAssumption
<1>2. Cardinality(S) \in Nat
  BY <1>1, FS_CardinalityType
<1>3. \A T \in SUBSET S : Cardinality(T) <= Cardinality(S)
  BY <1>1, FS_Subset
<1>4. \A x : x \notin S => Cardinality(S \cup {x}) = Cardinality(S) + 1
  BY <1>1, FS_AddElement
<1>5. \A x \in S : Cardinality(S \ {x}) = Cardinality(S) - 1
  BY <1>1, FS_RemoveElement
<1> QED
  BY <1>1, <1>2, <1>3, <1>4, <1>5

\* The limits of the start are positive numbers.
LEMMA Limits == ASSUME TypeInv PROVE start.activeSize \in Nat \ {0} /\ start.passiveSize \in Nat \ {0}
BY StartsAssumption DEF TypeInv, TypeOK, Start

\* A step that changes one node's views within their bounds keeps all bounds.
LEMMA BoundsKept ==
    ASSUME TypeInv, ViewsBounded, start' = start,
           NEW n \in Nodes, NEW act \in SUBSET Nodes, NEW pas \in SUBSET Nodes,
           active' = [active EXCEPT ![n] = act], passive' = [passive EXCEPT ![n] = pas],
           Cardinality(pas) <= start.passiveSize,
           ~start.suspends => Cardinality(act) <= start.activeSize /\ act \cap pas = {}
    PROVE  ViewsBounded'
<1>1. active \in [Nodes -> SUBSET Nodes] /\ passive \in [Nodes -> SUBSET Nodes]
  BY DEF TypeInv, TypeOK
<1> SUFFICES ASSUME NEW k \in Nodes
             PROVE  /\ Cardinality(passive'[k]) <= start.passiveSize
                    /\ ~start.suspends => /\ Cardinality(active'[k]) <= start.activeSize
                                          /\ active'[k] \cap passive'[k] = {}
  BY DEF ViewsBounded
<1>2. CASE k = n
  BY <1>1, <1>2
<1>3. CASE k # n
  BY <1>1, <1>3 DEF ViewsBounded
<1> QED
  BY <1>2, <1>3

\* One suspended handler at most, with room for its newcomer, is all Room asks.
LEMMA RoomKept ==
    ASSUME start' = start, NEW x, ~start.suspends => jobs' \subseteq {x},
           ~start.suspends /\ Adds(x) => /\ x.nid \notin active'[x.node] \cup passive'[x.node]
                                         /\ Cardinality(active'[x.node]) < start.activeSize
    PROVE  Room'
BY DEF Room, Adds

\* Without suspension, nothing else is suspended when a handler runs.
LEMMA Alone ==
    ASSUME Room, ~start.suspends
    PROVE  /\ Scheduled => jobs = {}
           /\ \A j \in jobs : jobs \ {j} = {}
BY DEF Room, Scheduled

\* _integrate respects the limit of the backups, and takes no active peer.
LEMMA IntegrateBounds ==
    ASSUME TypeInv, ViewsBounded, start' = start, active' = active,
           NEW n \in Nodes, NEW nodes \in SUBSET Nodes,
           NEW pas \in Integrated(n, active[n], passive[n], nodes),
           passive' = [passive EXCEPT ![n] = pas]
    PROVE  ViewsBounded'
<1>1. active \in [Nodes -> SUBSET Nodes] /\ passive \in [Nodes -> SUBSET Nodes]
  BY DEF TypeInv, TypeOK
<1>2. active[n] \in SUBSET Nodes /\ passive[n] \in SUBSET Nodes
  BY <1>1
<1>3. active' = [active EXCEPT ![n] = active[n]]
  BY <1>1
<1>4. pas \subseteq passive[n] \cup (nodes \ ({n} \cup active[n]))
  BY IntegratedFacts
<1>5. pas \in SUBSET Nodes
  BY <1>2, <1>4
<1>6. Cardinality(pas) <= start.passiveSize
  BY IntegratedFacts, Limits
<1>7. ~start.suspends => Cardinality(active[n]) <= start.activeSize /\ active[n] \cap pas = {}
  BY <1>4 DEF ViewsBounded
<1> QED
  BY <1>2, <1>3, <1>5, <1>6, <1>7, BoundsKept

\* _add_active keeps the bounds, or leaves room for what it will add.
LEMMA AddActiveBounds ==
    ASSUME BoundsInv, Scheduled, start' = start, NEW n \in Nodes, NEW nid \in Nodes, NEW then \in AddKinds,
           NEW w \in SUBSET Message, AddActive(n, nid, then, w)
    PROVE  ViewsBounded' /\ Room'
<1>1. /\ active \in [Nodes -> SUBSET Nodes] /\ passive \in [Nodes -> SUBSET Nodes]
      /\ jobs \in SUBSET Job /\ TypeInv /\ ViewsBounded /\ Room
  BY DEF BoundsInv, TypeInv, TypeOK
<1>2. active[n] \in SUBSET (Nodes \ {n}) /\ passive[n] \in SUBSET (Nodes \ {n})
  BY <1>1, OwnViews
<1>3. /\ start.activeSize \in Nat /\ start.passiveSize \in Nat
      /\ Cardinality(active[n]) \in Nat /\ Cardinality(passive[n]) \in Nat
  BY <1>1, <1>2, Limits, Sizes
<1>4. /\ Cardinality(passive[n]) <= start.passiveSize
      /\ ~start.suspends => /\ Cardinality(active[n]) <= start.activeSize
                            /\ active[n] \cap passive[n] = {}
  BY <1>1 DEF ViewsBounded
<1>5. ~start.suspends => jobs = {}
  BY <1>1, Alone
<1>6. CASE nid \in {n} \cup active[n] \/ Cardinality(active[n]) < start.activeSize
  <2> DEFINE act == active[n] \cup ({nid} \ {n})
             pas == IF nid \in active[n] THEN passive[n] ELSE passive[n] \ {nid}
             spread == [node |-> n, then |-> "spread", nid |-> nid]
  <2>1. /\ active' = [active EXCEPT ![n] = act]
        /\ passive' = [passive EXCEPT ![n] = pas]
        /\ AfterAdding(n, nid, then, w, jobs)
    BY <1>1, <1>6 DEF AddActive
  <2>2. act \in SUBSET Nodes /\ pas \in SUBSET Nodes /\ pas \in SUBSET passive[n]
    BY <1>2
  <2>3. Cardinality(pas) <= start.passiveSize
    <3>1. Cardinality(pas) <= Cardinality(passive[n]) /\ Cardinality(pas) \in Nat
      BY <1>2, <2>2, Sizes
    <3> QED
      BY <1>3, <1>4, <3>1
  <2>4. ASSUME ~start.suspends
        PROVE  Cardinality(act) <= start.activeSize /\ act \cap pas = {}
    <3>1. CASE nid \in {n} \cup active[n]
      <4>1. act = active[n]
        BY <3>1
      <4> QED
        BY <1>4, <2>2, <2>4, <4>1
    <3>2. CASE nid \notin {n} \cup active[n]
      <4>1. act = active[n] \cup {nid} /\ nid \notin active[n] /\ pas = passive[n] \ {nid}
        BY <3>2
      <4>2. Cardinality(act) = Cardinality(active[n]) + 1
        BY <1>2, <4>1, Sizes
      <4>3. Cardinality(active[n]) < start.activeSize
        BY <1>6, <3>2
      <4> QED
        BY <1>3, <1>4, <2>4, <4>1, <4>2, <4>3
    <3> QED
      BY <3>1, <3>2
  <2>5. ViewsBounded'
    <3> HIDE DEF act, pas
    <3> QED
      BY <1>1, <2>1, <2>2, <2>3, <2>4, BoundsKept
  <2>6. Room'
    <3>1. jobs' \subseteq jobs \cup {spread}
      BY <1>1, <2>1, AfterAddingFacts
    <3>2. ~Adds(spread)
      BY DEF Adds, AddKinds
    <3>3. ~start.suspends => jobs' \subseteq {spread}
      BY <1>5, <3>1
    <3> HIDE DEF spread
    <3> QED
      BY <3>2, <3>3, RoomKept
  <2> QED
    BY <2>5, <2>6
<1>7. CASE ~(nid \in {n} \cup active[n] \/ Cardinality(active[n]) < start.activeSize)
  <2>1. PICK victim \in active[n] :
            /\ active' = [active EXCEPT ![n] = @ \ {victim}]
            /\ \E pas \in Dropped(n, nid, victim) : passive' = [passive EXCEPT ![n] = pas]
    BY <1>7 DEF AddActive
  <2>2. jobs' = jobs \cup {[node |-> n, then |-> then, nid |-> nid]}
    BY <1>7 DEF AddActive
  <2>3. PICK pas \in Dropped(n, nid, victim) : passive' = [passive EXCEPT ![n] = pas]
    BY <2>1
  <2> DEFINE act == active[n] \ {victim}
             waits == [node |-> n, then |-> then, nid |-> nid]
  <2>4. active' = [active EXCEPT ![n] = act] /\ act \in SUBSET Nodes
    BY <1>1, <1>2, <2>1
  <2>5. pas \in Integrated(n, act, passive[n] \ {nid}, {victim})
    BY <2>3 DEF Dropped
  <2>6. pas \subseteq (passive[n] \ {nid}) \cup ({victim} \ ({n} \cup act))
    BY <2>5, IntegratedFacts
  <2>7. Cardinality(pas) <= start.passiveSize
    BY <1>3, <2>5, IntegratedFacts
  <2>8. pas \in SUBSET Nodes /\ nid \notin pas
    BY <1>2, <1>7, <2>6
  <2>9. Cardinality(act) = Cardinality(active[n]) - 1
    BY <1>2, Sizes
  <2>10. ASSUME ~start.suspends
         PROVE  Cardinality(act) < start.activeSize /\ act \cap pas = {}
    BY <1>3, <1>4, <2>6, <2>9, <2>10
  <2>11. nid \notin act
    BY <1>7
  <2>12. Cardinality(act) \in Nat
    BY <2>4, Sizes
  <2> HIDE DEF act
  <2>13. ViewsBounded'
    <3>1. ~start.suspends => Cardinality(act) <= start.activeSize /\ act \cap pas = {}
      BY <1>3, <2>10, <2>12
    <3> QED
      BY <1>1, <2>3, <2>4, <2>7, <2>8, <3>1, BoundsKept
  <2>14. Room'
    <3>1. active'[n] = act /\ passive'[n] = pas
      BY <1>1, <2>3, <2>4
    <3>2. waits.nid = nid /\ waits.node = n
      OBVIOUS
    <3>3. ~start.suspends => jobs' \subseteq {waits}
      BY <1>5, <2>2
    <3> HIDE DEF waits
    <3>4. ~start.suspends => /\ waits.nid \notin active'[waits.node] \cup passive'[waits.node]
                             /\ Cardinality(active'[waits.node]) < start.activeSize
      BY <2>8, <2>10, <2>11, <3>1, <3>2
    <3> QED
      BY <3>3, <3>4, RoomKept
  <2> QED
    BY <2>13, <2>14
<1> QED
  BY <1>6, <1>7

\* A turn of the tick keeps the bounds, with room for the candidate.
LEMMA MaintainBounds ==
    ASSUME BoundsInv, start' = start, NEW n \in Nodes, NEW act \in SUBSET Nodes, NEW js,
           ~start.suspends => /\ js = {} /\ Cardinality(act) <= start.activeSize
                              /\ act \cap passive[n] = {},
           Maintain(n, act, js)
    PROVE  ViewsBounded' /\ Room'
<1>1. /\ active \in [Nodes -> SUBSET Nodes] /\ passive \in [Nodes -> SUBSET Nodes]
      /\ TypeInv /\ ViewsBounded /\ Room
  BY DEF BoundsInv, TypeInv, TypeOK
<1>2. passive[n] \in SUBSET Nodes /\ Cardinality(passive[n]) <= start.passiveSize
  BY <1>1 DEF ViewsBounded
<1>3. start.passiveSize \in Nat /\ Cardinality(passive[n]) \in Nat
  BY <1>1, <1>2, Limits, Sizes
<1>4. active' = [active EXCEPT ![n] = act]
  BY DEF Maintain
<1>5. CASE NeedsRepair(n, act)
  <2>1. PICK candidate \in passive[n] :
            /\ passive' = [passive EXCEPT ![n] = @ \ {candidate}]
            /\ jobs' = js \cup {[node |-> n, then |-> "promote", nid |-> candidate]}
    BY <1>5 DEF Maintain
  <2> DEFINE pas == passive[n] \ {candidate}
             waits == [node |-> n, then |-> "promote", nid |-> candidate]
  <2>2. passive' = [passive EXCEPT ![n] = pas] /\ pas \in SUBSET Nodes
    BY <1>1, <1>2, <2>1
  <2>3. Cardinality(pas) <= start.passiveSize
    <3>1. Cardinality(pas) = Cardinality(passive[n]) - 1
      BY <1>2, Sizes
    <3> QED
      BY <1>2, <1>3, <3>1
  <2>4. /\ candidate \notin pas
        /\ ~start.suspends => act \cap pas = {} /\ candidate \notin act
    OBVIOUS
  <2> HIDE DEF pas
  <2>5. ViewsBounded'
    BY <1>1, <1>4, <2>2, <2>3, <2>4, BoundsKept
  <2>6. Room'
    <3>1. active'[n] = act /\ passive'[n] = pas
      BY <1>1, <1>4, <2>2
    <3>2. waits.nid = candidate /\ waits.node = n
      OBVIOUS
    <3>3. ~start.suspends => jobs' \subseteq {waits}
      BY <2>1
    <3>4. Cardinality(act) < start.activeSize
      BY <1>5 DEF NeedsRepair
    <3> HIDE DEF waits
    <3>5. ~start.suspends => /\ waits.nid \notin active'[waits.node] \cup passive'[waits.node]
                             /\ Cardinality(active'[waits.node]) < start.activeSize
      BY <2>4, <3>1, <3>2, <3>4
    <3> QED
      BY <3>3, <3>5, RoomKept
  <2> QED
    BY <2>5, <2>6
<1>6. CASE ~NeedsRepair(n, act)
  <2>1. jobs' = js /\ passive' = passive
    BY <1>6 DEF Maintain
  <2>2. passive' = [passive EXCEPT ![n] = passive[n]]
    BY <1>1, <2>1
  <2>3. ViewsBounded'
    BY <1>1, <1>2, <1>4, <2>2, BoundsKept
  <2>4. Room'
    BY <2>1 DEF Room
  <2> QED
    BY <2>3, <2>4
<1> QED
  BY <1>5, <1>6

\* Every step keeps the bounds, and the room that suspended handlers count on.
LEMMA BoundsStep == BoundsInv /\ [Next]_vars => BoundsInv'
<1> SUFFICES ASSUME BoundsInv, [Next]_vars
             PROVE  ViewsBounded' /\ Room'
  BY TypeStep DEF BoundsInv
<1>1. /\ active \in [Nodes -> SUBSET Nodes] /\ passive \in [Nodes -> SUBSET Nodes]
      /\ jobs \subseteq Job /\ wire \subseteq Message /\ AddsOthers
      /\ TypeInv /\ ViewsBounded /\ Room
  BY DEF BoundsInv, TypeInv, TypeOK
<1>2. /\ \A m \in wire : wire \ {m} \in SUBSET Message
      /\ \A m \in wire : m \in Message
      /\ \A j \in jobs : j \in Job
  BY <1>1
<1>3. ASSUME NEW m \in wire, NEW nid \in Nodes, NEW then \in AddKinds,
             AddActive(m.dst, nid, then, wire \ {m}), Scheduled, start' = start
      PROVE  ViewsBounded' /\ Room'
  <2>1. m.dst \in Nodes /\ wire \ {m} \in SUBSET Message
    BY <1>2, MessageType
  <2> QED
    BY <1>3, <2>1, AddActiveBounds
<1>4. ASSUME NEW n \in Nodes, NEW nodes \in SUBSET Nodes, start' = start,
             NEW pas \in Integrated(n, active[n], passive[n], nodes),
             passive' = [passive EXCEPT ![n] = pas], active' = active,
             ~start.suspends => jobs' = {}
      PROVE  ViewsBounded' /\ Room'
  <2>1. ViewsBounded'
    BY <1>1, <1>4, IntegrateBounds
  <2>2. Room'
    BY <1>4 DEF Room
  <2> QED
    BY <2>1, <2>2
<1>5. ASSUME UNCHANGED <<start, active, passive>>, NEW x, ~Adds(x), ~start.suspends => jobs' \subseteq {x}
      PROVE  ViewsBounded' /\ Room'
  <2>1. Room'
    BY <1>5, RoomKept
  <2> QED
    BY <1>1, <1>5, <2>1 DEF ViewsBounded
<1>6. ASSUME UNCHANGED <<start, active, passive>>, ~start.suspends => jobs' = {}
      PROVE  ViewsBounded' /\ Room'
  BY <1>1, <1>6 DEF ViewsBounded, Room
<1>7. ~start.suspends => /\ Scheduled => jobs = {}
                         /\ \A j \in jobs : jobs \ {j} = {}
  BY <1>1, Alone
<1>10. ASSUME NEW m \in wire, OnJoin(m)
       PROVE  ViewsBounded' /\ Room'
  <2>1. m.src \in Nodes /\ "join" \in AddKinds
    BY <1>2, MessageType DEF AddKinds
  <2> QED
    BY <1>3, <1>10, <2>1 DEF OnJoin, Handles
<1>11. ASSUME NEW m \in wire, WalkEnds(m) \/ WalkStrands(m)
       PROVE  ViewsBounded' /\ Room'
  <2>1. m.type = "fwdjoin"
    BY <1>11 DEF WalkEnds, WalkStrands, WalksOn, Handles
  <2>2. m.nid \in Nodes /\ "walk" \in AddKinds /\ "adopt" \in AddKinds
    BY <1>2, <2>1, MessageType DEF AddKinds
  <2> QED
    BY <1>3, <1>11, <2>2 DEF WalkEnds, WalkStrands, WalksOn, Handles
<1>12. ASSUME NEW m \in wire, WalkGoesOn(m)
       PROVE  ViewsBounded' /\ Room'
  <2>1. m.type = "fwdjoin" /\ Scheduled /\ start' = start /\ active' = active /\ jobs' = jobs
    BY <1>12 DEF WalkGoesOn, WalksOn, Handles
  <2>2. m.nid \in Nodes /\ m.dst \in Nodes
    BY <1>2, <2>1, MessageType
  <2>3. PICK pas \in Deposited(m.dst, m) : passive' = [passive EXCEPT ![m.dst] = pas]
    BY <1>12 DEF WalkGoesOn
  <2>4. CASE m.ttl = PRWL
    <3>1. {m.nid} \in SUBSET Nodes
      BY <2>2
    <3> QED
      BY <1>4, <1>7, <2>1, <2>2, <2>3, <2>4, <3>1 DEF Deposited
  <2>5. CASE m.ttl # PRWL
    <3>1. passive' = passive
      BY <1>1, <2>3, <2>5 DEF Deposited
    <3> QED
      BY <1>6, <1>7, <2>1, <3>1
  <2> QED
    BY <2>4, <2>5
<1>13. ASSUME NEW m \in wire, OnNeighbor(m)
       PROVE  ViewsBounded' /\ Room'
  <2>1. m.src \in Nodes /\ m.dst \in Nodes /\ "neighbor" \in AddKinds
    BY <1>2, MessageType DEF AddKinds
  <2>2. Scheduled /\ start' = start
    BY <1>13 DEF OnNeighbor, Handles
  <2>3. CASE AddActive(m.dst, m.src, "neighbor", wire \ {m})
    BY <1>3, <2>1, <2>2, <2>3
  <2>4. CASE UNCHANGED <<active, passive, jobs>>
    BY <1>6, <1>7, <2>2, <2>4
  <2> QED
    BY <1>13, <2>3, <2>4 DEF OnNeighbor
<1>14. ASSUME NEW m \in wire, OnNeighborReply(m)
       PROVE  ViewsBounded' /\ Room'
  <2>1. m.src \in Nodes /\ m.dst \in Nodes /\ "reply" \in AddKinds /\ {m.src} \in SUBSET Nodes
    BY <1>2, MessageType DEF AddKinds
  <2>2. Scheduled /\ start' = start
    BY <1>14 DEF OnNeighborReply, Handles
  <2>3. CASE m.accepted
    BY <1>3, <1>14, <2>1, <2>2, <2>3 DEF OnNeighborReply
  <2>4. CASE ~m.accepted
    <3>1. PICK pas \in Integrated(m.dst, active[m.dst], passive[m.dst], {m.src}) :
              passive' = [passive EXCEPT ![m.dst] = pas]
      BY <1>14, <2>4 DEF OnNeighborReply
    <3>2. active' = active /\ jobs' = jobs
      BY <1>14, <2>4 DEF OnNeighborReply
    <3> QED
      BY <1>4, <1>7, <2>1, <2>2, <3>1, <3>2
  <2> QED
    BY <2>3, <2>4
<1>15. ASSUME NEW m \in wire, OnDisconnect(m)
       PROVE  ViewsBounded' /\ Room'
  <2>1. m.src \in Nodes /\ m.dst \in Nodes
    BY <1>2, MessageType
  <2>2. Scheduled /\ start' = start /\ jobs' = jobs
    BY <1>15 DEF OnDisconnect, Handles
  <2>3. Room'
    BY <1>7, <2>2 DEF Room
  <2> DEFINE act == active[m.dst] \ {m.src}
  <2>4. active' = [active EXCEPT ![m.dst] = act] /\ active'[m.dst] = act /\ act \in SUBSET Nodes
    BY <1>1, <1>15, <2>1 DEF OnDisconnect
  <2>5. ~start.suspends => Cardinality(act) <= start.activeSize
    <3>1. /\ Cardinality(act) \in Nat /\ Cardinality(active[m.dst]) \in Nat /\ start.activeSize \in Nat
          /\ Cardinality(act) <= Cardinality(active[m.dst])
      <4>1. active[m.dst] \in SUBSET Nodes /\ act \in SUBSET active[m.dst]
        BY <1>1, <2>1
      <4> QED
        BY <1>1, <2>4, <4>1, Sizes, Limits
    <3> QED
      BY <1>1, <2>1, <3>1 DEF ViewsBounded
  <2>6. CASE m.src \in active[m.dst]
    <3>1. PICK pas \in Integrated(m.dst, act, passive[m.dst], {m.src}) :
              passive' = [passive EXCEPT ![m.dst] = pas]
      BY <1>15, <2>4, <2>6 DEF OnDisconnect
    <3>2. pas \subseteq passive[m.dst] \cup ({m.src} \ ({m.dst} \cup act))
      BY <3>1, IntegratedFacts
    <3>3. Cardinality(pas) <= start.passiveSize
      BY <1>1, <3>1, IntegratedFacts, Limits
    <3>4. pas \in SUBSET Nodes
      BY <1>1, <2>1, <3>2
    <3>5. ~start.suspends => act \cap pas = {}
      BY <1>1, <2>1, <3>2 DEF ViewsBounded
    <3> HIDE DEF act
    <3>6. ViewsBounded'
      BY <1>1, <2>1, <2>2, <2>4, <2>5, <3>1, <3>3, <3>4, <3>5, BoundsKept
    <3> QED
      BY <2>3, <3>6
  <2>7. CASE m.src \notin active[m.dst]
    <3>1. passive' = passive /\ active' = active
      BY <1>1, <1>15, <2>7 DEF OnDisconnect
    <3> QED
      BY <1>6, <1>7, <2>2, <3>1
  <2> QED
    BY <2>6, <2>7
<1>16. ASSUME NEW m \in wire, ShuffleGoesOn(m) \/ ShuffleEnds(m)
       PROVE  ViewsBounded' /\ Room'
  <2>1. /\ Scheduled /\ UNCHANGED <<start, active, passive>>
        /\ jobs' = jobs \cup {IntegrateJob(m.dst, m.nodes)}
    BY <1>16 DEF ShuffleGoesOn, ShuffleEnds, Handles
  <2>2. ~Adds(IntegrateJob(m.dst, m.nodes))
    BY DEF Adds, AddKinds, IntegrateJob
  <2>3. ~start.suspends => jobs' \subseteq {IntegrateJob(m.dst, m.nodes)}
    BY <1>7, <2>1
  <2> QED
    BY <1>5, <2>1, <2>2, <2>3
<1>18. ASSUME NEW m \in wire, OnShuffleReply(m)
       PROVE  ViewsBounded' /\ Room'
  <2>1. m.type = "shuffle_reply"
    BY <1>18 DEF OnShuffleReply, Handles
  <2>2. m.dst \in Nodes /\ m.nodes \in SUBSET Nodes
    BY <1>2, <2>1, MessageType
  <2>3. PICK pas \in Integrated(m.dst, active[m.dst], passive[m.dst], m.nodes) :
            passive' = [passive EXCEPT ![m.dst] = pas]
    BY <1>18 DEF OnShuffleReply
  <2>4. Scheduled /\ start' = start /\ active' = active /\ jobs' = jobs
    BY <1>18 DEF OnShuffleReply, Handles
  <2> QED
    BY <1>4, <1>7, <2>2, <2>3, <2>4
<1>20. ASSUME NEW j \in jobs, ResumeAdd(j)
       PROVE  ViewsBounded' /\ Room'
  <2>1. j.then \in AddKinds
    BY <1>20 DEF ResumeAdd, AddKinds
  <2>2. j.node \in Nodes /\ j.nid \in Nodes /\ Adds(j)
    BY <1>2, <2>1, JobFields DEF Adds, AddKinds
  <2> DEFINE spread == [node |-> j.node, then |-> "spread", nid |-> j.nid]
             act == active[j.node] \cup {j.nid}
  <2>3. jobs' \subseteq (jobs \ {j}) \cup {spread}
    <3>1. AfterAdding(j.node, j.nid, j.then, wire, jobs \ {j}) /\ jobs \ {j} \in SUBSET Job
      BY <1>1, <1>20 DEF ResumeAdd
    <3> QED
      BY <1>1, <2>1, <2>2, <3>1, AfterAddingFacts
  <2>4. ~Adds(spread)
    BY DEF Adds, AddKinds
  <2>5. /\ start' = start /\ active' = [active EXCEPT ![j.node] = act]
        /\ passive' = [passive EXCEPT ![j.node] = passive[j.node]]
    BY <1>1, <1>20 DEF ResumeAdd
  <2>6. act \in SUBSET Nodes /\ passive[j.node] \in SUBSET Nodes /\ active[j.node] \in SUBSET Nodes
    BY <1>1, <2>2
  <2>7. ASSUME ~start.suspends
        PROVE  Cardinality(act) <= start.activeSize /\ act \cap passive[j.node] = {}
    <3>1. /\ j.nid \notin active[j.node] \cup passive[j.node]
          /\ Cardinality(active[j.node]) < start.activeSize
      BY <1>1, <2>2, <2>7 DEF Room
    <3>2. Cardinality(act) = Cardinality(active[j.node]) + 1 /\ Cardinality(active[j.node]) \in Nat
      BY <2>6, <3>1, Sizes
    <3>3. active[j.node] \cap passive[j.node] = {} /\ start.activeSize \in Nat
      BY <1>1, <2>2, <2>7, Limits DEF ViewsBounded
    <3> QED
      BY <3>1, <3>2, <3>3
  <2>8. Cardinality(passive[j.node]) <= start.passiveSize
    BY <1>1, <2>2 DEF ViewsBounded
  <2> HIDE DEF act, spread
  <2>9. ViewsBounded'
    BY <1>1, <2>2, <2>5, <2>6, <2>7, <2>8, BoundsKept
  <2>10. Room'
    <3>1. ~start.suspends => jobs' \subseteq {spread}
      BY <1>7, <2>3
    <3> QED
      BY <2>4, <2>5, <3>1, RoomKept
  <2> QED
    BY <2>9, <2>10
<1>21. ASSUME NEW j \in jobs, Spread(j)
       PROVE  ViewsBounded' /\ Room'
  <2>1. jobs' = jobs \ {j} /\ UNCHANGED <<start, active, passive>>
    BY <1>21 DEF Spread
  <2> QED
    BY <1>6, <1>7, <2>1
<1>22. ASSUME NEW j \in jobs, Integrate(j)
       PROVE  ViewsBounded' /\ Room'
  <2>1. j.then = "integrate" /\ jobs' = jobs \ {j} /\ start' = start /\ active' = active
    BY <1>22 DEF Integrate
  <2>2. j.node \in Nodes /\ j.nodes \in SUBSET Nodes
    BY <1>2, <2>1, JobFields
  <2>3. PICK pas \in Integrated(j.node, active[j.node], passive[j.node], j.nodes) :
            passive' = [passive EXCEPT ![j.node] = pas]
    BY <1>22 DEF Integrate
  <2> QED
    BY <1>4, <1>7, <2>1, <2>2, <2>3
<1>23. ASSUME NEW j \in jobs, Promote(j)
       PROVE  ViewsBounded' /\ Room'
  <2>1. j.then = "promote" /\ start' = start
    BY <1>23 DEF Promote
  <2>2. j.node \in Nodes /\ j.nid \in Nodes /\ Adds(j)
    BY <1>2, <2>1, JobFields DEF Adds
  <2> DEFINE act == active[j.node] \cup {j.nid}
  <2>3. act \in SUBSET Nodes /\ active[j.node] \in SUBSET Nodes
    BY <1>1, <2>2
  <2>4. ASSUME ~start.suspends
        PROVE  Cardinality(act) <= start.activeSize /\ act \cap passive[j.node] = {}
    <3>1. /\ j.nid \notin active[j.node] \cup passive[j.node]
          /\ Cardinality(active[j.node]) < start.activeSize
      BY <1>1, <2>2, <2>4 DEF Room
    <3>2. Cardinality(act) = Cardinality(active[j.node]) + 1 /\ Cardinality(active[j.node]) \in Nat
      BY <2>3, <3>1, Sizes
    <3>3. active[j.node] \cap passive[j.node] = {} /\ start.activeSize \in Nat
      BY <1>1, <2>2, <2>4, Limits DEF ViewsBounded
    <3> QED
      BY <3>1, <3>2, <3>3
  <2>5. Maintain(j.node, act, jobs \ {j})
    BY <1>23 DEF Promote
  <2> HIDE DEF act
  <2>6. ~start.suspends => /\ jobs \ {j} = {} /\ Cardinality(act) <= start.activeSize
                           /\ act \cap passive[j.node] = {}
    BY <1>7, <2>4
  <2> QED
    BY <2>1, <2>2, <2>3, <2>5, <2>6, MaintainBounds
<1>24. ASSUME NEW n \in Nodes, NEW contact \in Nodes, Join(n, contact)
       PROVE  ViewsBounded' /\ Room'
  <2>1. Scheduled /\ jobs' = jobs /\ UNCHANGED <<start, active, passive>>
    BY <1>24 DEF Join
  <2> QED
    BY <1>6, <1>7, <2>1
<1>25. ASSUME NEW n \in Nodes, Tick(n)
       PROVE  ViewsBounded' /\ Room'
  <2>1. Scheduled /\ start' = start /\ Maintain(n, active[n], jobs)
    BY <1>25 DEF Tick
  <2>2. active[n] \in SUBSET Nodes
    BY <1>1
  <2>3. ~start.suspends => /\ jobs = {} /\ Cardinality(active[n]) <= start.activeSize
                           /\ active[n] \cap passive[n] = {}
    BY <1>1, <1>7, <2>1 DEF ViewsBounded
  <2> QED
    BY <2>1, <2>2, <2>3, MaintainBounds
<1>26. ASSUME NEW n \in Nodes, PruneDead(n)
       PROVE  ViewsBounded' /\ Room'
  <2> DEFINE act == active[n] \cap up
             pas == passive[n] \cap up
  <2>1. /\ active' = [active EXCEPT ![n] = act]
        /\ passive' = [passive EXCEPT ![n] = pas]
        /\ Scheduled /\ start' = start /\ jobs' = jobs
    BY <1>1, <1>26 DEF PruneDead
  <2>2. /\ act \in SUBSET active[n] /\ pas \in SUBSET passive[n]
        /\ active[n] \in SUBSET Nodes /\ passive[n] \in SUBSET Nodes
        /\ act \in SUBSET Nodes /\ pas \in SUBSET Nodes
    BY <1>1
  <2>3. /\ Cardinality(act) <= Cardinality(active[n]) /\ Cardinality(pas) <= Cardinality(passive[n])
        /\ Cardinality(act) \in Nat /\ Cardinality(pas) \in Nat
        /\ Cardinality(active[n]) \in Nat /\ Cardinality(passive[n]) \in Nat
        /\ start.activeSize \in Nat /\ start.passiveSize \in Nat
    BY <1>1, <2>2, Sizes, Limits
  <2>4. /\ Cardinality(pas) <= start.passiveSize
        /\ ~start.suspends => Cardinality(act) <= start.activeSize /\ act \cap pas = {}
    <3>1. /\ Cardinality(passive[n]) <= start.passiveSize
          /\ ~start.suspends => /\ Cardinality(active[n]) <= start.activeSize
                                /\ active[n] \cap passive[n] = {}
      BY <1>1 DEF ViewsBounded
    <3> QED
      BY <2>2, <2>3, <3>1
  <2> HIDE DEF act, pas
  <2>5. ViewsBounded'
    BY <1>1, <2>1, <2>2, <2>4, BoundsKept
  <2>6. Room'
    BY <1>7, <2>1 DEF Room
  <2> QED
    BY <2>5, <2>6
<1>27. ASSUME NEW n \in Nodes, Crash(n)
       PROVE  ViewsBounded' /\ Room'
  <2>1. Scheduled /\ jobs' \subseteq jobs /\ UNCHANGED <<start, active, passive>>
    BY <1>27 DEF Crash
  <2> QED
    BY <1>6, <1>7, <2>1
<1>28. CASE UNCHANGED vars
  BY <1>1, <1>28 DEF vars, ViewsBounded, Room, Adds
<1> QED
  BY <1>10, <1>11, <1>12, <1>13, <1>14, <1>15, <1>16, <1>18, <1>20, <1>21, <1>22, <1>23,
     <1>24, <1>25, <1>26, <1>27, <1>28 DEF Next, Handled, Resumed

\* "Every node has two bounded views": the backups never exceed their limit,
\* and when sends do not suspend the active view keeps its limit too and no
\* peer is in both.
THEOREM ViewsBoundedCorrect == Spec => []ViewsBounded
<1>1. Init => BoundsInv
  <2> SUFFICES ASSUME Init
               PROVE  BoundsInv
    OBVIOUS
  <2>1. TypeInv /\ Room
    BY StartsAssumption DEF Init, TypeInv, TypeOK, AddsOthers, Start, Room
  <2>2. ViewsBounded
    <3>1. Cardinality({}) = 0 /\ start.passiveSize \in Nat
      BY <2>1, FS_EmptySet, Limits
    <3> QED
      BY <3>1, StartsAssumption DEF Init, ViewsBounded
  <2> QED
    BY <2>1, <2>2 DEF BoundsInv
<1>2. BoundsInv => ViewsBounded
  BY DEF BoundsInv
<1> QED
  BY <1>1, <1>2, BoundsStep, PTL DEF Spec

-----------------------------------------------------------------------------
(* What a step may make a node forget *)

\* n keeps the peers that run, or its backups are full.
Kept(n) ==
    \/ \A p \in Contacts(n) : p \in Contacts(n)' \/ p \notin up
    \/ Cardinality(passive'[n]) = start.passiveSize

\* n's peers are those in its views and those that its handlers are about to add.
LEMMA ContactsAre ==
    ASSUME jobs \subseteq Job, NEW n, NEW p
    PROVE  p \in Contacts(n) <=> \/ p \in active[n] \/ p \in passive[n]
                                 \/ \E j \in jobs : j.node = n /\ Adds(j) /\ p = j.nid
<1>1. \A j \in jobs : Adds(j) <=> j.then \notin {"spread", "integrate"}
  BY DEF Adds, AddKinds, Job
<1> QED
  BY <1>1 DEF Contacts

\* A step keeps contacts when what the views and a handler that ends give up is
\* known otherwise: x is the handler that ends, if one does.
LEMMA KeptIf ==
    ASSUME jobs \subseteq Job, jobs' \subseteq Job, NEW n, NEW x, jobs \ {x} \subseteq jobs',
           Adds(x) /\ x \in jobs /\ x.node = n => x.nid \in Contacts(n)' \/ x.nid \notin up,
           \/ \A p \in active[n] \cup passive[n] : p \in Contacts(n)' \/ p \notin up
           \/ Cardinality(passive'[n]) = start.passiveSize
    PROVE  Kept(n)
<1> SUFFICES ASSUME Cardinality(passive'[n]) # start.passiveSize, NEW p \in Contacts(n)
             PROVE  p \in Contacts(n)' \/ p \notin up
  BY DEF Kept
<1>1. \/ p \in active[n] \cup passive[n]
      \/ \E j \in jobs : j.node = n /\ Adds(j) /\ p = j.nid
  BY ContactsAre
<1>2. CASE p \in active[n] \cup passive[n]
  BY <1>2
<1>3. ASSUME NEW j \in jobs, j.node = n /\ Adds(j) /\ p = j.nid
      PROVE  p \in Contacts(n)' \/ p \notin up
  <2>1. CASE j = x
    BY <1>3, <2>1
  <2>2. CASE j # x
    <3>1. j \in jobs'
      BY <2>2
    <3>2. p \in Contacts(n)'
      BY <1>3, <3>1 DEF Contacts, Adds, AddKinds
    <3> QED
      BY <3>2
  <2> QED
    BY <2>1, <2>2
<1> QED
  BY <1>1, <1>2, <1>3

\* Something that is no job stands for the handler that ends when none does.
LEMMA NoJob == \E x : x \notin Job /\ ~Adds(x)
<1> DEFINE none == [then |-> "integrate"]
<1>1. none \notin Job /\ ~Adds(none)
  BY DEF Job, Adds, AddKinds
<1> QED
  BY <1>1

\* Who is in a view, or in a handler that adds, is known after the step.
LEMMA KnownAfter ==
    ASSUME NEW n, NEW p
    PROVE  /\ p \in active'[n] \cup passive'[n] => p \in Contacts(n)'
           /\ \A j \in jobs' : j.node = n /\ Adds(j) /\ p = j.nid => p \in Contacts(n)'
BY DEF Contacts, Adds, AddKinds

\* _integrate forgets a backup only when it fills the view.
LEMMA IntegrateKeeps ==
    ASSUME TypeInv, jobs' \subseteq Job, NEW x, jobs \ {x} \subseteq jobs', ~Adds(x), active' = active,
           NEW n \in Nodes, NEW nodes \in SUBSET Nodes,
           NEW pas \in Integrated(n, active[n], passive[n], nodes),
           passive' = [passive EXCEPT ![n] = pas], NEW k \in Nodes
    PROVE  Kept(k)
<1>1. passive \in [Nodes -> SUBSET Nodes] /\ jobs \subseteq Job
  BY DEF TypeInv, TypeOK
<1>2. passive'[k] = IF k = n THEN pas ELSE passive[k]
  BY <1>1
<1>3. passive[n] \subseteq pas \/ Cardinality(pas) = start.passiveSize
  BY IntegratedFacts
<1>4. \/ active[k] \cup passive[k] \subseteq active'[k] \cup passive'[k]
      \/ Cardinality(passive'[k]) = start.passiveSize
  BY <1>2, <1>3
<1> QED
  BY <1>1, <1>4, KeptIf, KnownAfter

\* _add_active: the newcomer leaves the backups for the active view, or for
\* the handler that waits; the victim goes to the backups.
LEMMA AddActiveKeeps ==
    ASSUME TypeInv, NEW n \in Nodes, NEW nid \in Nodes, NEW then \in AddKinds,
           NEW w \in SUBSET Message, AddActive(n, nid, then, w), NEW k \in Nodes
    PROVE  Kept(k)
<1>1. /\ active \in [Nodes -> SUBSET Nodes] /\ passive \in [Nodes -> SUBSET Nodes]
      /\ jobs \in SUBSET Job /\ n \notin active[n] \cup passive[n]
  BY DEF TypeInv, TypeOK
<1>2. jobs' \subseteq Job
  BY AddActiveType
<1>3. CASE nid \in {n} \cup active[n] \/ Cardinality(active[n]) < start.activeSize
  <2>1. /\ active' = [active EXCEPT ![n] = @ \cup ({nid} \ {n})]
        /\ passive' = [passive EXCEPT ![n] = IF nid \in active[n] THEN @ ELSE @ \ {nid}]
        /\ AfterAdding(n, nid, then, w, jobs)
    BY <1>3 DEF AddActive
  <2>2. jobs \subseteq jobs'
    BY <1>1, <2>1, AfterAddingFacts
  <2>3. active[k] \cup passive[k] \subseteq active'[k] \cup passive'[k]
    BY <1>1, <2>1
  <2>4. \A p \in active[k] \cup passive[k] : p \in Contacts(k)'
    BY <2>3, KnownAfter
  <2>5. PICK x : x \notin jobs
    BY <1>1, NoJob
  <2> QED
    BY <1>1, <1>2, <2>2, <2>4, <2>5, KeptIf
<1>4. CASE ~(nid \in {n} \cup active[n] \/ Cardinality(active[n]) < start.activeSize)
  <2> DEFINE waits == [node |-> n, then |-> then, nid |-> nid]
  <2>1. PICK victim \in active[n] :
            /\ active' = [active EXCEPT ![n] = @ \ {victim}]
            /\ \E pas \in Dropped(n, nid, victim) : passive' = [passive EXCEPT ![n] = pas]
    BY <1>4 DEF AddActive
  <2>2. jobs' = jobs \cup {waits}
    BY <1>4 DEF AddActive
  <2>3. PICK pas \in Integrated(n, active[n] \ {victim}, passive[n] \ {nid}, {victim}) :
            passive' = [passive EXCEPT ![n] = pas]
    BY <2>1 DEF Dropped
  <2>4. \/ (passive[n] \ {nid}) \cup {victim} \subseteq pas
        \/ Cardinality(pas) = start.passiveSize
    <3>1. victim \notin {n} \cup (active[n] \ {victim})
      BY <1>1
    <3> QED
      BY <2>3, <3>1, IntegratedFacts
  <2>5. active'[k] = (IF k = n THEN active[n] \ {victim} ELSE active[k])
    BY <1>1, <2>1
  <2>6. passive'[k] = (IF k = n THEN pas ELSE passive[k])
    BY <1>1, <2>3
  <2>7. nid \in Contacts(n)'
    <3>1. waits \in jobs' /\ waits.node = n /\ waits.nid = nid /\ Adds(waits)
      BY <2>2 DEF Adds
    <3> QED
      BY <3>1, KnownAfter
  <2>8. \/ \A p \in active[k] \cup passive[k] : p \in Contacts(k)'
        \/ Cardinality(passive'[k]) = start.passiveSize
    <3>1. CASE k # n
      BY <2>5, <2>6, <3>1, KnownAfter
    <3>2. CASE k = n /\ (passive[n] \ {nid}) \cup {victim} \subseteq pas
      <4>1. ASSUME NEW p \in active[n] \cup passive[n]
            PROVE  p = nid \/ p \in active'[n] \cup passive'[n]
        BY <2>5, <2>6, <3>2
      <4> QED
        BY <2>7, <3>2, <4>1, KnownAfter
    <3>3. CASE k = n /\ Cardinality(pas) = start.passiveSize
      BY <2>6, <3>3
    <3> QED
      BY <2>4, <3>1, <3>2, <3>3
  <2>9. PICK x : x \notin jobs
    BY <1>1, NoJob
  <2> QED
    BY <1>1, <1>2, <2>2, <2>8, <2>9, KeptIf
<1> QED
  BY <1>3, <1>4

\* A turn of the tick keeps the active view, and the candidate it promotes.
LEMMA MaintainKeeps ==
    ASSUME TypeInv, NEW n \in Nodes, NEW act \in SUBSET (Nodes \ {n}), active[n] \subseteq act,
           NEW x, x \in jobs => x.node = n /\ x.nid \in act, Maintain(n, act, jobs \ {x}),
           NEW k \in Nodes
    PROVE  Kept(k)
<1>1. /\ active \in [Nodes -> SUBSET Nodes] /\ passive \in [Nodes -> SUBSET Nodes]
      /\ jobs \in SUBSET Job
  BY DEF TypeInv, TypeOK
<1>2. jobs' \subseteq Job
  <2>1. jobs \ {x} \in SUBSET jobs
    OBVIOUS
  <2> QED
    BY <2>1, MaintainType
<1>3. active'[k] = (IF k = n THEN act ELSE active[k])
  BY <1>1 DEF Maintain
<1>4. x \in jobs /\ x.node = k => x.nid \in Contacts(k)'
  BY <1>3, KnownAfter
<1>5. jobs \ {x} \subseteq jobs' /\ \A p \in active[k] \cup passive[k] : p \in Contacts(k)'
  <2>1. CASE NeedsRepair(n, act)
    <3>1. PICK candidate \in passive[n] :
              /\ passive' = [passive EXCEPT ![n] = @ \ {candidate}]
              /\ jobs' = (jobs \ {x}) \cup {[node |-> n, then |-> "promote", nid |-> candidate]}
      BY <2>1 DEF Maintain
    <3>2. candidate \in Contacts(n)'
      <4> DEFINE waits == [node |-> n, then |-> "promote", nid |-> candidate]
      <4>1. waits \in jobs' /\ waits.node = n /\ waits.nid = candidate /\ Adds(waits)
        BY <3>1 DEF Adds
      <4> QED
        BY <4>1, KnownAfter
    <3>3. ASSUME NEW p \in active[k] \cup passive[k]
          PROVE  p \in active'[k] \cup passive'[k] \/ (k = n /\ p = candidate)
      BY <1>1, <1>3, <3>1
    <3>4. \A p \in active[k] \cup passive[k] : p \in Contacts(k)'
      BY <3>2, <3>3, KnownAfter
    <3> QED
      BY <3>1, <3>4
  <2>2. CASE ~NeedsRepair(n, act)
    <3>1. jobs' = jobs \ {x} /\ passive' = passive
      BY <2>2 DEF Maintain
    <3>2. active[k] \cup passive[k] \subseteq active'[k] \cup passive'[k]
      BY <1>3, <3>1
    <3> QED
      BY <3>1, <3>2, KnownAfter
  <2> QED
    BY <2>1, <2>2
<1> QED
  BY <1>1, <1>2, <1>4, <1>5, KeptIf

\* Every step keeps the contacts of every node that still runs.
LEMMA KeptStep == ASSUME TypeInv, Next, NEW k \in up' PROVE k \in Nodes /\ Kept(k)
<1>1. /\ active \in [Nodes -> SUBSET Nodes] /\ passive \in [Nodes -> SUBSET Nodes]
      /\ jobs \subseteq Job /\ wire \subseteq Message /\ AddsOthers
      /\ \A n \in Nodes : n \notin active[n] \cup passive[n]
  BY DEF TypeInv, TypeOK
<1>2. /\ \A m \in wire : wire \ {m} \in SUBSET Message
      /\ \A m \in wire : m \in Message
      /\ \A j \in jobs : j \in Job
  BY <1>1
<1>3. TypeInv' /\ jobs' \subseteq Job /\ k \in Nodes
  BY TypeStep DEF TypeInv, TypeOK
<1>4. PICK none : none \notin jobs /\ ~Adds(none)
  BY <1>1, NoJob
<1>5. ASSUME NEW m \in wire, NEW nid \in Nodes, NEW then \in AddKinds,
             AddActive(m.dst, nid, then, wire \ {m})
      PROVE  Kept(k)
  <2>1. m.dst \in Nodes /\ wire \ {m} \in SUBSET Message
    BY <1>2, MessageType
  <2> QED
    BY <1>3, <1>5, <2>1, AddActiveKeeps
<1>6. ASSUME NEW x, jobs \ {x} \subseteq jobs', ~Adds(x), UNCHANGED <<active, passive>>
      PROVE  Kept(k)
  <2>1. \A p \in active[k] \cup passive[k] : p \in Contacts(k)'
    BY <1>6, KnownAfter
  <2> QED
    BY <1>1, <1>3, <1>6, <2>1, KeptIf
<1>7. ASSUME NEW n \in Nodes, NEW nodes \in SUBSET Nodes,
             NEW pas \in Integrated(n, active[n], passive[n], nodes),
             passive' = [passive EXCEPT ![n] = pas], active' = active,
             NEW x, jobs \ {x} \subseteq jobs', ~Adds(x)
      PROVE  Kept(k)
  BY <1>3, <1>7, IntegrateKeeps
<1>10. ASSUME NEW m \in wire, OnJoin(m)
       PROVE  Kept(k)
  <2>1. m.src \in Nodes /\ "join" \in AddKinds
    BY <1>2, MessageType DEF AddKinds
  <2> QED
    BY <1>5, <1>10, <2>1 DEF OnJoin
<1>11. ASSUME NEW m \in wire, WalkEnds(m) \/ WalkStrands(m)
       PROVE  Kept(k)
  <2>1. m.type = "fwdjoin"
    BY <1>11 DEF WalkEnds, WalkStrands, WalksOn, Handles
  <2>2. m.nid \in Nodes /\ "walk" \in AddKinds /\ "adopt" \in AddKinds
    BY <1>2, <2>1, MessageType DEF AddKinds
  <2> QED
    BY <1>5, <1>11, <2>2 DEF WalkEnds, WalkStrands
<1>12. ASSUME NEW m \in wire, WalkGoesOn(m)
       PROVE  Kept(k)
  <2>1. m.type = "fwdjoin" /\ active' = active /\ jobs' = jobs
    BY <1>12 DEF WalkGoesOn, WalksOn, Handles
  <2>2. m.nid \in Nodes /\ m.dst \in Nodes /\ {m.nid} \in SUBSET Nodes
    BY <1>2, <2>1, MessageType
  <2>3. PICK pas \in Deposited(m.dst, m) : passive' = [passive EXCEPT ![m.dst] = pas]
    BY <1>12 DEF WalkGoesOn
  <2>4. CASE m.ttl = PRWL
    BY <1>4, <1>7, <2>1, <2>2, <2>3, <2>4 DEF Deposited
  <2>5. CASE m.ttl # PRWL
    <3>1. passive' = passive
      BY <1>1, <2>3, <2>5 DEF Deposited
    <3> QED
      BY <1>4, <1>6, <2>1, <3>1
  <2> QED
    BY <2>4, <2>5
<1>13. ASSUME NEW m \in wire, OnNeighbor(m)
       PROVE  Kept(k)
  <2>1. m.src \in Nodes /\ "neighbor" \in AddKinds
    BY <1>2, MessageType DEF AddKinds
  <2>2. CASE AddActive(m.dst, m.src, "neighbor", wire \ {m})
    BY <1>5, <2>1, <2>2
  <2>3. CASE UNCHANGED <<active, passive, jobs>>
    BY <1>4, <1>6, <2>3
  <2> QED
    BY <1>13, <2>2, <2>3 DEF OnNeighbor
<1>14. ASSUME NEW m \in wire, OnNeighborReply(m)
       PROVE  Kept(k)
  <2>1. m.src \in Nodes /\ m.dst \in Nodes /\ "reply" \in AddKinds /\ {m.src} \in SUBSET Nodes
    BY <1>2, MessageType DEF AddKinds
  <2>2. CASE m.accepted
    BY <1>5, <1>14, <2>1, <2>2 DEF OnNeighborReply
  <2>3. CASE ~m.accepted
    <3>1. PICK pas \in Integrated(m.dst, active[m.dst], passive[m.dst], {m.src}) :
              passive' = [passive EXCEPT ![m.dst] = pas]
      BY <1>14, <2>3 DEF OnNeighborReply
    <3>2. active' = active /\ jobs' = jobs
      BY <1>14, <2>3 DEF OnNeighborReply
    <3> QED
      BY <1>4, <1>7, <2>1, <3>1, <3>2
  <2> QED
    BY <2>2, <2>3
<1>15. ASSUME NEW m \in wire, OnDisconnect(m)
       PROVE  Kept(k)
  <2>1. m.src \in Nodes /\ m.dst \in Nodes /\ jobs' = jobs
    BY <1>2, <1>15, MessageType DEF OnDisconnect
  <2>2. /\ active' = [active EXCEPT ![m.dst] = @ \ {m.src}]
        /\ active'[m.dst] = active[m.dst] \ {m.src}
    BY <1>1, <1>15, <2>1 DEF OnDisconnect
  <2>3. CASE m.src \in active[m.dst]
    <3>1. PICK pas \in Integrated(m.dst, active[m.dst] \ {m.src}, passive[m.dst], {m.src}) :
              passive' = [passive EXCEPT ![m.dst] = pas]
      BY <1>15, <2>2, <2>3 DEF OnDisconnect
    <3>2. m.src \notin {m.dst} \cup (active[m.dst] \ {m.src})
      BY <1>1, <2>1, <2>3
    <3>3. passive[m.dst] \cup {m.src} \subseteq pas \/ Cardinality(pas) = start.passiveSize
      BY <3>1, <3>2, IntegratedFacts
    <3>4. active'[k] = (IF k = m.dst THEN active[k] \ {m.src} ELSE active[k])
      BY <1>1, <1>3, <2>2
    <3>5. passive'[k] = (IF k = m.dst THEN pas ELSE passive[k])
      BY <1>1, <1>3, <3>1
    <3>6. \/ active[k] \cup passive[k] \subseteq active'[k] \cup passive'[k]
          \/ Cardinality(passive'[k]) = start.passiveSize
      BY <3>3, <3>4, <3>5
    <3> QED
      BY <1>1, <1>3, <1>4, <2>1, <3>6, KeptIf, KnownAfter
  <2>4. CASE m.src \notin active[m.dst]
    <3>1. passive' = passive /\ active' = active
      BY <1>1, <1>15, <2>4 DEF OnDisconnect
    <3> QED
      BY <1>4, <1>6, <2>1, <3>1
  <2> QED
    BY <2>3, <2>4
<1>16. ASSUME NEW m \in wire, ShuffleGoesOn(m) \/ ShuffleEnds(m)
       PROVE  Kept(k)
  <2>1. UNCHANGED <<active, passive>> /\ jobs \subseteq jobs'
    BY <1>16 DEF ShuffleGoesOn, ShuffleEnds
  <2> QED
    BY <1>4, <1>6, <2>1
<1>18. ASSUME NEW m \in wire, OnShuffleReply(m)
       PROVE  Kept(k)
  <2>1. m.type = "shuffle_reply"
    BY <1>18 DEF OnShuffleReply, Handles
  <2>2. m.dst \in Nodes /\ m.nodes \in SUBSET Nodes
    BY <1>2, <2>1, MessageType
  <2>3. PICK pas \in Integrated(m.dst, active[m.dst], passive[m.dst], m.nodes) :
            passive' = [passive EXCEPT ![m.dst] = pas]
    BY <1>18 DEF OnShuffleReply
  <2>4. active' = active /\ jobs' = jobs
    BY <1>18 DEF OnShuffleReply
  <2> QED
    BY <1>4, <1>7, <2>2, <2>3, <2>4
<1>20. ASSUME NEW j \in jobs, ResumeAdd(j)
       PROVE  Kept(k)
  <2>1. j.then \in AddKinds
    BY <1>20 DEF ResumeAdd, AddKinds
  <2>2. j.node \in Nodes /\ j.nid \in Nodes
    BY <1>2, <2>1, JobFields DEF AddKinds
  <2>3. jobs \ {j} \subseteq jobs'
    <3>1. AfterAdding(j.node, j.nid, j.then, wire, jobs \ {j}) /\ jobs \ {j} \in SUBSET Job
      BY <1>1, <1>20 DEF ResumeAdd
    <3> QED
      BY <1>1, <2>1, <2>2, <3>1, AfterAddingFacts
  <2>4. passive' = passive /\ active'[k] = (IF k = j.node THEN active[k] \cup {j.nid} ELSE active[k])
    BY <1>1, <1>3, <1>20 DEF ResumeAdd
  <2>5. /\ active[k] \cup passive[k] \subseteq active'[k] \cup passive'[k]
        /\ j.node = k => j.nid \in active'[k]
    BY <2>4
  <2> QED
    BY <1>1, <1>3, <2>3, <2>5, KeptIf, KnownAfter
<1>21. ASSUME NEW j \in jobs, Spread(j)
       PROVE  Kept(k)
  <2>1. jobs' = jobs \ {j} /\ UNCHANGED <<active, passive>> /\ ~Adds(j)
    BY <1>21 DEF Spread, Adds, AddKinds
  <2> QED
    BY <1>6, <2>1
<1>22. ASSUME NEW j \in jobs, Integrate(j)
       PROVE  Kept(k)
  <2>1. j.then = "integrate" /\ jobs' = jobs \ {j} /\ active' = active /\ ~Adds(j)
    BY <1>22 DEF Integrate, Adds, AddKinds
  <2>2. j.node \in Nodes /\ j.nodes \in SUBSET Nodes
    BY <1>2, <2>1, JobFields
  <2>3. PICK pas \in Integrated(j.node, active[j.node], passive[j.node], j.nodes) :
            passive' = [passive EXCEPT ![j.node] = pas]
    BY <1>22 DEF Integrate
  <2> QED
    BY <1>7, <2>1, <2>2, <2>3
<1>23. ASSUME NEW j \in jobs, Promote(j)
       PROVE  Kept(k)
  <2>1. j.then = "promote"
    BY <1>23 DEF Promote
  <2>2. j.node \in Nodes /\ j.nid \in Nodes /\ j.nid # j.node
    BY <1>1, <1>2, <2>1, JobFields DEF AddsOthers, Adds
  <2> DEFINE act == active[j.node] \cup {j.nid}
  <2>3. act \in SUBSET (Nodes \ {j.node}) /\ active[j.node] \subseteq act /\ j.nid \in act
    BY <2>2, OwnViews
  <2>4. Maintain(j.node, act, jobs \ {j})
    BY <1>23 DEF Promote
  <2> HIDE DEF act
  <2> QED
    BY <1>3, <2>2, <2>3, <2>4, MaintainKeeps
<1>24. ASSUME NEW n \in Nodes, NEW contact \in Nodes, Join(n, contact)
       PROVE  Kept(k)
  <2>1. jobs' = jobs /\ UNCHANGED <<active, passive>>
    BY <1>24 DEF Join
  <2> QED
    BY <1>4, <1>6, <2>1
<1>25. ASSUME NEW n \in Nodes, Tick(n)
       PROVE  Kept(k)
  <2>1. Maintain(n, active[n], jobs \ {none})
    <3>1. jobs \ {none} = jobs
      BY <1>4
    <3> QED
      BY <1>25, <3>1 DEF Tick
  <2>2. active[n] \in SUBSET (Nodes \ {n})
    BY OwnViews
  <2> QED
    BY <1>3, <1>4, <2>1, <2>2, MaintainKeeps
<1>26. ASSUME NEW n \in Nodes, PruneDead(n)
       PROVE  Kept(k)
  <2>1. jobs' = jobs
    BY <1>26 DEF PruneDead
  <2>2. \A p \in active[k] \cup passive[k] : p \in active'[k] \cup passive'[k] \/ p \notin up
    BY <1>1, <1>3, <1>26 DEF PruneDead
  <2> QED
    BY <1>1, <1>3, <1>4, <2>1, <2>2, KeptIf, KnownAfter
<1>27. ASSUME NEW n \in Nodes, Crash(n)
       PROVE  Kept(k)
  <2>1. k # n
    BY <1>27 DEF Crash
  <2>2. jobs' = {j \in jobs : j.node # n} /\ UNCHANGED <<active, passive>>
    BY <1>27 DEF Crash
  <2>3. ASSUME NEW p \in Contacts(k)
        PROVE  p \in Contacts(k)'
    BY <1>1, <2>1, <2>2, <2>3, ContactsAre, KnownAfter
  <2> QED
    BY <2>3 DEF Kept
<1> QED
  BY <1>3, <1>10, <1>11, <1>12, <1>13, <1>14, <1>15, <1>16, <1>18, <1>20, <1>21, <1>22, <1>23,
     <1>24, <1>25, <1>26, <1>27 DEF Next, Handled, Resumed

\* A node forgets a running peer only to make room among its backups: drops,
\* disconnects, rejections and promotions that interleave lose nobody.
THEOREM ContactsKept == Spec => ContactsAreKept
<1>1. Init => TypeInv
  BY StartsAssumption DEF Init, TypeInv, TypeOK, AddsOthers, Start
<1>2. TypeInv /\ [Next]_vars =>
          [\A n \in up' : \A p \in Contacts(n) \ Contacts(n)' :
              p \notin up \/ Cardinality(passive'[n]) = start.passiveSize]_vars
  BY KeptStep DEF Kept
<1> QED
  BY <1>1, <1>2, TypeStep, PTL DEF Spec, ContactsAreKept
=============================================================================
