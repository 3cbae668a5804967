--------------------------- MODULE PlumtreeProofs ---------------------------
(***************************************************************************)
(* Proofs about Plumtree, for any nodes, neighbourhoods and messages.      *)
(*                                                                         *)
(* Nothing remembers what was delivered but the cache of received          *)
(* messages, so that a message is delivered once only if it is still       *)
(* cached when it comes again.  OnceInv relates the two: what was          *)
(* delivered is what is cached, once, and it was broadcast.                *)
(*                                                                         *)
(* The second half proves that a broadcast which is not disturbed leaves a *)
(* spanning tree of eager links.                                           *)
(***************************************************************************)
EXTENDS Plumtree, FiniteSetTheorems, WellFoundedInduction, TLAPS

\* The links of a node lead to other nodes, and none is both eager and lazy.
LinksTyped ==
    /\ start \in Starts /\ up \subseteq Nodes
    /\ eager \in [Nodes -> SUBSET Nodes] /\ lazy \in [Nodes -> SUBSET Nodes]
    /\ \A n \in Nodes : eager[n] \cap lazy[n] = {} /\ n \notin eager[n] /\ n \notin lazy[n]

CacheTyped == received \in [Nodes -> Seq(Mids)] /\ \A n \in Nodes : Len(received[n]) <= CacheCap

WaitTyped ==
    /\ missing \in [Nodes -> [Mids -> -1..GraftTimeout]]
    /\ ihaveFrom \in [Nodes -> [Mids -> Seq(Nodes)]]
    /\ \A n \in Nodes, m \in Mids : ihaveFrom[n][m] \in Seq(Nodes \ {n})

QueueTyped ==
    /\ lazyQueue \in [Nodes -> SUBSET (Nodes \X Mids)]
    /\ \A n \in Nodes : \A q \in lazyQueue[n] : q[1] # n

\* What is on the wire goes from a node to another one that runs.
WireTyped ==
    /\ wire \subseteq Message
    /\ \A m \in wire : m.src # m.dst /\ m.dst \in up

TypeInv == LinksTyped /\ CacheTyped /\ WaitTyped /\ QueueTyped /\ jobs \subseteq Job /\ WireTyped

-----------------------------------------------------------------------------
(* Types *)

\* The invariant gives the types.
LEMMA TypeFollows == TypeInv => TypeOK
<1> SUFFICES ASSUME TypeInv PROVE TypeOK
  OBVIOUS
<1>1. \A n \in Nodes : Len(received[n]) <= CacheCap /\ ToSet(received[n]) \subseteq Mids
  BY DEF TypeInv, CacheTyped, ToSet
<1>2. ASSUME NEW n \in Nodes, NEW m \in Mids
      PROVE  ToSet(ihaveFrom[n][m]) \subseteq Nodes \ {n}
  <2>1. ihaveFrom[n][m] \in Seq(Nodes \ {n})
    BY DEF TypeInv, WaitTyped
  <2> QED
    BY <2>1 DEF ToSet
<1> QED
  BY <1>1, <1>2 DEF TypeInv, TypeOK, LinksTyped, WaitTyped, QueueTyped, WireTyped

\* A message that is cached makes room when it must.
LEMMA RecordType ==
    ASSUME NEW s \in Seq(Mids), Len(s) <= CacheCap, NEW m \in Mids
    PROVE  Record(s, m) \in Seq(Mids) /\ Len(Record(s, m)) <= CacheCap
<1>1. CASE Len(s) >= CacheCap
  <2>1. s # <<>>
    BY <1>1, PlumtreeAssumption
  <2>2. Tail(s) \in Seq(Mids) /\ Len(Tail(s)) = Len(s) - 1
    BY <2>1
  <2> QED
    BY <1>1, <2>2 DEF Record
<1>2. CASE ~(Len(s) >= CacheCap)
  BY <1>2, PlumtreeAssumption DEF Record
<1> QED
  BY <1>1, <1>2

\* What a node sends to another.
LEMMA SentType ==
    ASSUME NEW w, NEW msgs, w \subseteq Message, \A m \in w : m.src # m.dst /\ m.dst \in up,
           msgs \subseteq Message, \A m \in msgs : m.src # m.dst
    PROVE  /\ Sent(w, msgs) \subseteq Message
           /\ \A m \in Sent(w, msgs) : m.src # m.dst /\ m.dst \in up
BY DEF Sent

\* Gossip is a message.
LEMMA GossipType ==
    ASSUME NEW n \in Nodes, NEW p \in Nodes, NEW m \in Mids, n # p
    PROVE  GossipMsg(n, p, m) \in Message /\ GossipMsg(n, p, m).src # GossipMsg(n, p, m).dst
BY DEF GossipMsg, Message

\* The fields of the messages of each kind.
LEMMA MessageFields ==
    ASSUME NEW m \in Message
    PROVE  /\ m.src \in Nodes /\ m.dst \in Nodes
           /\ m.type \in {"gossip", "graft"} => m.mid \in Mids
           /\ m.type = "ihave" => m.ids \subseteq Mids
BY DEF Message

\* A link that moves from one set to the other.
LEMMA MoveType ==
    ASSUME LinksTyped, NEW n \in Nodes, NEW p \in Nodes, n # p, start' = start, up' = up,
           MoveTo(n, eager, lazy, p) \/ MoveTo(n, lazy, eager, p)
    PROVE  LinksTyped'
<1>1. CASE MoveTo(n, eager, lazy, p)
  <2>1. eager' = [eager EXCEPT ![n] = @ \cup {p}] /\ lazy' = [lazy EXCEPT ![n] = @ \ {p}]
    BY <1>1 DEF MoveTo
  <2> QED
    BY <2>1 DEF LinksTyped
<1>2. CASE MoveTo(n, lazy, eager, p)
  <2>1. lazy' = [lazy EXCEPT ![n] = @ \cup {p}] /\ eager' = [eager EXCEPT ![n] = @ \ {p}]
    BY <1>2 DEF MoveTo
  <2> QED
    BY <2>1 DEF LinksTyped
<1> QED
  BY <1>1, <1>2

\* _sync_neighbors.
LEMMA SyncType ==
    ASSUME LinksTyped, NEW n \in Nodes, start' = start, up' = up,
           eager' = [eager EXCEPT ![n] = SyncEager(n)], lazy' = [lazy EXCEPT ![n] = SyncLazy(n)]
    PROVE  LinksTyped' /\ SyncEager(n) \subseteq Nodes \ {n}
<1>1. start.neighbors[n] \subseteq Nodes /\ n \notin start.neighbors[n]
  BY StartsAssumption DEF LinksTyped, Start
<1>2. Neighbors(n) \subseteq Nodes /\ n \notin Neighbors(n)
  BY <1>1 DEF Neighbors
<1>3. SyncEager(n) \subseteq Nodes \ {n} /\ SyncLazy(n) \subseteq Nodes \ {n}
  BY <1>2 DEF SyncEager, SyncLazy
<1>4. SyncEager(n) \cap SyncLazy(n) = {}
  BY DEF SyncEager, SyncLazy, LinksTyped
<1> QED
  BY <1>3, <1>4 DEF LinksTyped

\* _record, _deliver and _eager_push.
LEMMA AcceptType ==
    ASSUME TypeInv, NEW n \in Nodes, NEW m \in Mids, NEW sender \in SUBSET Nodes,
           NEW push \in SUBSET (Nodes \ {n}), NEW w \in SUBSET wire, up' = up,
           Accept(n, m, sender, push, w)
    PROVE  CacheTyped' /\ WireTyped' /\ jobs' \subseteq Job
<1>1. received' = [received EXCEPT ![n] = Record(received[n], m)]
  BY DEF Accept
<1>2. Record(received[n], m) \in Seq(Mids) /\ Len(Record(received[n], m)) <= CacheCap
  BY RecordType DEF TypeInv, CacheTyped
<1>3. CacheTyped'
  BY <1>1, <1>2 DEF TypeInv, CacheTyped
<1>4. WireTyped'
  <2> DEFINE msgs == {GossipMsg(n, p, m) : p \in push \ sender}
  <2>1. msgs \subseteq Message /\ \A g \in msgs : g.src # g.dst
    BY GossipType
  <2>2. w \subseteq Message /\ \A g \in w : g.src # g.dst /\ g.dst \in up
    BY DEF TypeInv, WireTyped
  <2>3. wire' = Sent(w, msgs)
    BY DEF Accept
  <2> HIDE DEF msgs
  <2> QED
    BY <2>1, <2>2, <2>3, SentType DEF WireTyped
<1>5. jobs' \subseteq Job
  BY DEF Accept, TypeInv, Job
<1> QED
  BY <1>3, <1>4, <1>5

\* Whom an announcement came from, when it is due for a graft.
LEMMA GraftPeer ==
    ASSUME WaitTyped, NEW n \in Nodes, NEW m \in Grafts(n)
    PROVE  /\ m \in Mids /\ Head(ihaveFrom[n][m]) \in Nodes \ {n}
           /\ Tail(ihaveFrom[n][m]) \in Seq(Nodes \ {n})
<1>1. m \in Mids /\ ihaveFrom[n][m] # <<>>
  BY DEF Grafts
<1>2. ihaveFrom[n][m] \in Seq(Nodes \ {n})
  BY <1>1 DEF WaitTyped
<1> QED
  BY <1>1, <1>2

\* The initial state has the types.
LEMMA TypeInit == Init => TypeInv
<1> SUFFICES ASSUME Init PROVE TypeInv
  OBVIOUS
<1>1. start \in Start /\ \A n \in Nodes : n \notin start.neighbors[n]
  BY StartsAssumption DEF Init
<1>2. LinksTyped
  BY <1>1 DEF Init, LinksTyped, Start
<1>3. CacheTyped
  BY PlumtreeAssumption DEF Init, CacheTyped
<1>4. WaitTyped
  BY PlumtreeAssumption DEF Init, WaitTyped
<1>5. QueueTyped /\ jobs \subseteq Job /\ WireTyped
  BY DEF Init, QueueTyped, WireTyped
<1> QED
  BY <1>2, <1>3, <1>4, <1>5 DEF TypeInv

\* Handling a message takes it off the wire and may send others.
LEMMA AnswerType ==
    ASSUME WireTyped, up' = up, NEW m \in wire, NEW msgs,
           msgs \subseteq Message, \A g \in msgs : g.src # g.dst,
           wire' = Sent(wire \ {m}, msgs)
    PROVE  WireTyped'
<1>1. wire \ {m} \subseteq Message /\ \A g \in wire \ {m} : g.src # g.dst /\ g.dst \in up
  BY DEF WireTyped
<1> QED
  BY <1>1, SentType DEF WireTyped

\* Every step keeps the types.
LEMMA TypeNext == TypeInv /\ [Next]_vars => TypeInv'
<1> SUFFICES ASSUME TypeInv, [Next]_vars PROVE TypeInv'
  OBVIOUS
<1> USE DEF TypeInv
<1>0. ASSUME NEW m \in wire
      PROVE  /\ m.src \in Nodes /\ m.dst \in Nodes /\ m.src # m.dst
             /\ m.type \in {"gossip", "graft"} => m.mid \in Mids
             /\ m.type = "ihave" => m.ids \subseteq Mids
  BY MessageFields DEF WireTyped
<1>1. ASSUME NEW n \in Nodes, NEW m \in Mids, Broadcast(n, m)
      PROVE  TypeInv'
  <2>1. LinksTyped' /\ SyncEager(n) \subseteq Nodes \ {n}
    BY <1>1, SyncType DEF Broadcast
  <2>2. Accept(n, m, {}, SyncEager(n), wire) /\ up' = up
    BY <1>1 DEF Broadcast
  <2>3. CacheTyped' /\ WireTyped' /\ jobs' \subseteq Job
    BY <2>1, <2>2, AcceptType
  <2> QED
    BY <1>1, <2>1, <2>3 DEF Broadcast, WaitTyped, QueueTyped
<1>2. ASSUME NEW j \in jobs, LazyPush(j)
      PROVE  TypeInv'
  <2>1. j \in Job /\ j.then = "announce"
    BY <1>2 DEF LazyPush
  <2>2. j.node \in Nodes /\ j.mid \in Mids
    BY <2>1 DEF Job
  <2>3. lazyQueue' = [lazyQueue EXCEPT ![j.node] = @ \cup ((lazy[j.node] \ j.sender) \X {j.mid})]
    BY <1>2 DEF LazyPush
  <2>4. QueueTyped'
    BY <2>2, <2>3 DEF QueueTyped, LinksTyped
  <2> QED
    BY <1>2, <2>4 DEF LazyPush, LinksTyped, CacheTyped, WaitTyped, WireTyped
<1>3. ASSUME NEW m \in wire, OnGossip(m)
      PROVE  TypeInv'
  <2>1. m.src \in Nodes /\ m.dst \in Nodes /\ m.src # m.dst /\ m.mid \in Mids
    BY <1>0, <1>3 DEF OnGossip, Handles
  <2>2. MoveTo(m.dst, eager, lazy, m.src) /\ start' = start /\ up' = up
    BY <1>3 DEF OnGossip
  <2>3. LinksTyped'
    BY <2>1, <2>2, MoveType
  <2>4. eager'[m.dst] \subseteq Nodes \ {m.dst}
    BY <2>1, <2>3 DEF LinksTyped
  <2>5. Accept(m.dst, m.mid, {m.src}, eager'[m.dst], wire \ {m})
    BY <1>3 DEF OnGossip
  <2>6. CacheTyped' /\ WireTyped' /\ jobs' \subseteq Job
    BY <2>1, <2>2, <2>4, <2>5, AcceptType
  <2>7. WaitTyped'
    <3>1. missing' = [missing EXCEPT ![m.dst][m.mid] = -1]
      BY <1>3 DEF OnGossip
    <3>2. missing' \in [Nodes -> [Mids -> -1..GraftTimeout]]
      BY <2>1, <3>1, PlumtreeAssumption DEF WaitTyped
    <3>3. ihaveFrom' = [ihaveFrom EXCEPT ![m.dst][m.mid] = <<>>]
      BY <1>3 DEF OnGossip
    <3>4. ihaveFrom' \in [Nodes -> [Mids -> Seq(Nodes)]]
      BY <2>1, <3>3 DEF WaitTyped
    <3>5. \A n \in Nodes, i \in Mids : ihaveFrom'[n][i] = <<>> \/ ihaveFrom'[n][i] = ihaveFrom[n][i]
      BY <2>1, <3>3 DEF WaitTyped
    <3>6. ASSUME NEW n \in Nodes, NEW i \in Mids
          PROVE  ihaveFrom'[n][i] \in Seq(Nodes \ {n})
      <4>1. ihaveFrom[n][i] \in Seq(Nodes \ {n})
        BY DEF WaitTyped
      <4>2. <<>> \in Seq(Nodes \ {n})
        OBVIOUS
      <4> QED
        BY <3>5, <4>1, <4>2
    <3> QED
      BY <3>2, <3>4, <3>6 DEF WaitTyped
  <2>8. QueueTyped'
    BY <1>3 DEF OnGossip, QueueTyped
  <2> QED
    BY <2>3, <2>6, <2>7, <2>8
<1>4. ASSUME NEW m \in wire, OnRedundantGossip(m)
      PROVE  TypeInv'
  <2>1. m.src \in Nodes /\ m.dst \in Nodes /\ m.src # m.dst
    BY <1>0
  <2>2. LinksTyped' /\ up' = up
    BY <1>4, <2>1, MoveType DEF OnRedundantGossip
  <2>3. PruneMsgs(m.dst, m.src) \subseteq Message /\ \A g \in PruneMsgs(m.dst, m.src) : g.src # g.dst
    BY <2>1 DEF PruneMsgs, Message
  <2>4. WireTyped'
    BY <1>4, <2>2, <2>3, AnswerType DEF OnRedundantGossip
  <2> QED
    BY <1>4, <2>2, <2>4 DEF OnRedundantGossip, CacheTyped, WaitTyped, QueueTyped
<1>5. ASSUME NEW m \in wire, OnPrune(m)
      PROVE  TypeInv'
  <2>1. m.src \in Nodes /\ m.dst \in Nodes /\ m.src # m.dst
    BY <1>0
  <2>2. LinksTyped'
    BY <1>5, <2>1, MoveType DEF OnPrune
  <2> QED
    BY <1>5, <2>2 DEF OnPrune, CacheTyped, WaitTyped, QueueTyped, WireTyped
<1>6. ASSUME NEW m \in wire, OnIhave(m)
      PROVE  TypeInv'
  <2>1. m.src \in Nodes /\ m.dst \in Nodes /\ m.src # m.dst
    BY <1>0
  <2>2. PICK news : news = {i \in m.ids : ~Has(m.dst, i)}
    OBVIOUS
  <2>3. missing' = [missing EXCEPT ![m.dst] = [i \in Mids |-> IF i \in news /\ @[i] = -1 THEN 0 ELSE @[i]]]
    BY <1>6, <2>2 DEF OnIhave
  <2>4. missing' \in [Nodes -> [Mids -> -1..GraftTimeout]]
    BY <2>1, <2>3, PlumtreeAssumption DEF WaitTyped
  <2>5. ihaveFrom' = [ihaveFrom EXCEPT ![m.dst] =
            [i \in Mids |-> IF i \in news /\ m.src \notin ToSet(@[i]) THEN Append(@[i], m.src) ELSE @[i]]]
    BY <1>6, <2>2 DEF OnIhave
  <2>6. ihaveFrom \in [Nodes -> [Mids -> Seq(Nodes)]]
    BY DEF WaitTyped
  <2>7. \A n \in Nodes, i \in Mids :
           \/ ihaveFrom'[n][i] = ihaveFrom[n][i]
           \/ n = m.dst /\ ihaveFrom'[n][i] = Append(ihaveFrom[n][i], m.src)
    BY <2>1, <2>5, <2>6
  <2>8. ASSUME NEW n \in Nodes, NEW i \in Mids
        PROVE  ihaveFrom'[n][i] \in Seq(Nodes \ {n})
    <3>1. ihaveFrom[n][i] \in Seq(Nodes \ {n})
      BY DEF WaitTyped
    <3>2. n = m.dst => Append(ihaveFrom[n][i], m.src) \in Seq(Nodes \ {n})
      BY <2>1, <3>1
    <3> QED
      BY <2>7, <3>1, <3>2
  <2>9. ihaveFrom' \in [Nodes -> [Mids -> Seq(Nodes)]]
    BY <2>1, <2>5, <2>6
  <2>10. WaitTyped'
    BY <2>4, <2>8, <2>9 DEF WaitTyped
  <2> QED
    BY <1>6, <2>10 DEF OnIhave, LinksTyped, CacheTyped, QueueTyped, WireTyped
<1>7. ASSUME NEW m \in wire, OnGraft(m)
      PROVE  TypeInv'
  <2>1. m.src \in Nodes /\ m.dst \in Nodes /\ m.src # m.dst /\ m.mid \in Mids
    BY <1>0, <1>7 DEF OnGraft, Handles
  <2>2. LinksTyped' /\ up' = up
    BY <1>7, <2>1, MoveType DEF OnGraft
  <2>3. /\ GraftAnswer(m.dst, m.src, m.mid) \subseteq Message
        /\ \A g \in GraftAnswer(m.dst, m.src, m.mid) : g.src # g.dst
    BY <2>1, GossipType DEF GraftAnswer
  <2>4. WireTyped'
    BY <1>7, <2>2, <2>3, AnswerType DEF OnGraft
  <2> QED
    BY <1>7, <2>2, <2>4 DEF OnGraft, CacheTyped, WaitTyped, QueueTyped
<1>8. ASSUME NEW n \in Nodes, Tick(n)
      PROVE  TypeInv'
  <2>1. LinksTyped' /\ up' = up
    BY <1>8, SyncType DEF Tick
  <2>2. IhaveMsgs(n) \subseteq Message /\ \A g \in IhaveMsgs(n) : g.src # g.dst
    <3>1. ASSUME NEW q \in lazyQueue[n]
          PROVE  q[1] \in Nodes /\ q[1] # n
      BY DEF QueueTyped
    <3>2. ASSUME NEW p \in {q[1] : q \in lazyQueue[n]}
          PROVE  LET g == [type |-> "ihave", src |-> n, dst |-> p,
                           ids |-> {m \in Mids : <<p, m>> \in lazyQueue[n]}]
                 IN  g \in Message /\ g.src # g.dst
      BY <3>1 DEF Message
    <3> QED
      BY <3>2 DEF IhaveMsgs
  <2>3. WireTyped'
    <3>1. wire \subseteq Message /\ \A g \in wire : g.src # g.dst /\ g.dst \in up
      BY DEF WireTyped
    <3> QED
      BY <1>8, <2>1, <2>2, <3>1, SentType DEF Tick, WireTyped
  <2>4. jobs' \subseteq Job
    BY <1>8 DEF Tick, Job
  <2>5. QueueTyped'
    BY <1>8 DEF Tick, QueueTyped
  <2> QED
    BY <1>8, <2>1, <2>3, <2>4, <2>5 DEF Tick, CacheTyped, WaitTyped
<1>9. ASSUME NEW j \in jobs, NEW S \in SUBSET Mids, GraftMissing(j, S)
      PROVE  TypeInv'
  <2>1. PICK n \in Nodes : n = j.node
    BY DEF Job
  <2>0. PICK G \in SUBSET Grafts(n) : G = S \cap Grafts(n)
    OBVIOUS
  <2>2. PICK peers : peers = {Head(ihaveFrom[n][m]) : m \in G}
    OBVIOUS
  <2>3. peers \subseteq Nodes \ {n}
    BY <2>2, GraftPeer
  <2>4. LinksTyped'
    <3>1. /\ eager' = [eager EXCEPT ![n] = @ \cup peers] /\ lazy' = [lazy EXCEPT ![n] = @ \ peers]
          /\ start' = start /\ up' = up
      BY <1>9, <2>0, <2>1, <2>2 DEF GraftMissing
    <3> QED
      BY <2>3, <3>1 DEF LinksTyped
  <2>5. missing' \in [Nodes -> [Mids -> -1..GraftTimeout]]
    <3>1. \A m \in Mids : Waited(n, m) \in -1..GraftTimeout
      BY PlumtreeAssumption DEF Waited, WaitTyped
    <3>2. missing' = [missing EXCEPT ![n] = [m \in Mids |-> IF m \in S THEN Waited(n, m) ELSE @[m]]]
      BY <1>9, <2>0, <2>1 DEF GraftMissing
    <3> QED
      BY <3>1, <3>2 DEF WaitTyped
  <2>6. /\ ihaveFrom' \in [Nodes -> [Mids -> Seq(Nodes)]]
        /\ \A p \in Nodes, m \in Mids : ihaveFrom'[p][m] \in Seq(Nodes \ {p})
    <3>1. ihaveFrom' = [ihaveFrom EXCEPT ![n] =
              [m \in Mids |-> IF m \in G THEN Tail(@[m]) ELSE @[m]]]
      BY <1>9, <2>0, <2>1 DEF GraftMissing
    <3>2. ihaveFrom \in [Nodes -> [Mids -> Seq(Nodes)]]
      BY DEF WaitTyped
    <3>3. \A p \in Nodes, m \in Mids : \/ ihaveFrom'[p][m] = ihaveFrom[p][m]
                                       \/ p = n /\ m \in G /\ ihaveFrom'[p][m] = Tail(ihaveFrom[n][m])
      BY <3>1, <3>2
    <3>4. ASSUME NEW p \in Nodes, NEW m \in Mids
          PROVE  ihaveFrom'[p][m] \in Seq(Nodes \ {p})
      <4>1. ihaveFrom[p][m] \in Seq(Nodes \ {p})
        BY DEF WaitTyped
      <4>2. m \in G => Tail(ihaveFrom[n][m]) \in Seq(Nodes \ {n})
        BY GraftPeer
      <4> QED
        BY <3>3, <4>1, <4>2
    <3>5. ASSUME NEW m \in G
          PROVE  Tail(ihaveFrom[n][m]) \in Seq(Nodes)
      <4>1. m \in Mids /\ ihaveFrom[n][m] # <<>>
        BY DEF Grafts
      <4>2. ihaveFrom[n][m] \in Seq(Nodes)
        BY <3>2, <4>1
      <4> QED
        BY <4>1, <4>2
    <3>6. ihaveFrom' \in [Nodes -> [Mids -> Seq(Nodes)]]
      BY <3>1, <3>2, <3>5
    <3> QED
      BY <3>4, <3>6
  <2>7. WireTyped'
    <3> DEFINE msgs == {[type |-> "graft", src |-> n, dst |-> Head(ihaveFrom[n][m]), mid |-> m] :
                          m \in G}
    <3>1. msgs \subseteq Message /\ \A g \in msgs : g.src # g.dst
      <4>1. ASSUME NEW m \in G
            PROVE  LET g == [type |-> "graft", src |-> n, dst |-> Head(ihaveFrom[n][m]), mid |-> m]
                   IN  g \in Message /\ g.src # g.dst
        <5>1. m \in Mids /\ Head(ihaveFrom[n][m]) \in Nodes \ {n}
          BY GraftPeer
        <5> QED
          BY <5>1 DEF Message
      <4> QED
        BY <4>1
    <3>2. wire' = Sent(wire, msgs) /\ up' = up
      BY <1>9, <2>0, <2>1 DEF GraftMissing
    <3>3. wire \subseteq Message /\ \A g \in wire : g.src # g.dst /\ g.dst \in up
      BY DEF WireTyped
    <3> HIDE DEF msgs
    <3> QED
      BY <3>1, <3>2, <3>3, SentType DEF WireTyped
  <2>8. WaitTyped'
    BY <2>5, <2>6 DEF WaitTyped
  <2>9. jobs' \subseteq Job
    <3>1. j \in Job /\ j.then \in {"repair", "graft"}
      BY <1>9 DEF GraftMissing
    <3>2. Todo(j) \subseteq Mids
      BY <3>1 DEF Todo, Job
    <3>3. \A T \in {Todo(j) \ S} : [node |-> n, then |-> "graft", todo |-> T] \in Job
      BY <3>2 DEF Job
    <3>4. jobs' = (jobs \ {j}) \cup {[node |-> n, then |-> "graft", todo |-> T] : T \in {Todo(j) \ S} \ {{}}}
      BY <1>9, <2>1 DEF GraftMissing
    <3> QED
      BY <3>3, <3>4
  <2> QED
    BY <1>9, <2>4, <2>7, <2>8, <2>9 DEF GraftMissing, CacheTyped, QueueTyped
<1>10. ASSUME NEW m \in wire, Lose(m)
       PROVE  TypeInv'
  BY <1>10 DEF Lose, LinksTyped, CacheTyped, WaitTyped, QueueTyped, WireTyped
<1>11. ASSUME NEW n \in Nodes, Crash(n)
       PROVE  TypeInv'
  BY <1>11 DEF Crash, LinksTyped, CacheTyped, WaitTyped, QueueTyped, WireTyped
<1>12. CASE UNCHANGED vars
  BY <1>12 DEF vars, LinksTyped, CacheTyped, WaitTyped, QueueTyped, WireTyped
<1> QED
  BY <1>1, <1>2, <1>3, <1>4, <1>5, <1>6, <1>7, <1>8, <1>9, <1>10, <1>11, <1>12 DEF Next, Handled, Resumed

\* In every state the variables have their types, no link is both eager and
\* lazy, and the cache of messages keeps its bound: for any neighbourhoods,
\* losses and crashes, and whether sends suspend handlers or not.
THEOREM PlumtreeTypeCorrect == Spec => []TypeOK
BY TypeInit, TypeNext, TypeFollows, PTL DEF Spec

-----------------------------------------------------------------------------
(* Every broadcast is delivered at most once, and only after it was sent *)

\* No message is cached twice.
CachedOnce == \A n \in Nodes : \A i, k \in 1..Len(received[n]) :
                 received[n][i] = received[n][k] => i = k

\* What a node has cached is what it has delivered, once.
DeliveredCached ==
    /\ delivered \in [Nodes -> [Mids -> Nat]]
    /\ \A n \in Nodes, m \in Mids : delivered[n][m] = IF Has(n, m) THEN 1 ELSE 0

\* What is cached or carried by gossip has been broadcast.
Sourced ==
    /\ origin \in [Mids -> SUBSET Nodes]
    /\ \A n \in Nodes, m \in Mids : Has(n, m) => origin[m] # {}
    /\ \A g \in wire : g.type = "gossip" => origin[g.mid] # {}

OnceInv == TypeInv /\ CachedOnce /\ DeliveredCached /\ Sourced

\* A cache with room for every message evicts none.
CacheHoldsAll == IsFiniteSet(Mids) /\ Cardinality(Mids) <= CacheCap

\* A cache that lacks a message has room for it.
LEMMA RoomForNew ==
    ASSUME CacheHoldsAll, NEW s \in Seq(Mids), NEW m \in Mids, Len(s) <= CacheCap, m \notin ToSet(s),
           \A i, k \in 1..Len(s) : s[i] = s[k] => i = k
    PROVE  /\ Record(s, m) = Append(s, m)
           /\ ToSet(Record(s, m)) = ToSet(s) \cup {m}
           /\ Record(s, m) \in Seq(Mids)
           /\ \A i, k \in 1..Len(Record(s, m)) : Record(s, m)[i] = Record(s, m)[k] => i = k
<1> DEFINE t == Append(s, m)
<1>1. t \in Seq(Mids) /\ Len(t) = Len(s) + 1 /\ t[Len(s) + 1] = m
      /\ \A i \in 1..Len(s) : t[i] = s[i]
  OBVIOUS
<1>2. \A i \in 1..Len(s) : s[i] # m
  BY DEF ToSet
<1>3. \A i, k \in 1..Len(t) : t[i] = t[k] => i = k
  <2> SUFFICES ASSUME NEW i \in 1..Len(t), NEW k \in 1..Len(t), t[i] = t[k] PROVE i = k
    OBVIOUS
  <2>1. (i \in 1..Len(s) \/ i = Len(s) + 1) /\ (k \in 1..Len(s) \/ k = Len(s) + 1)
    BY <1>1
  <2> HIDE DEF t
  <2> QED
    BY <1>1, <1>2, <2>1
<1>4. ToSet(t) = ToSet(s) \cup {m}
  <2>1. ToSet(t) = {t[i] : i \in 1..Len(t)} /\ ToSet(s) = {s[i] : i \in 1..Len(s)}
    BY DEF ToSet
  <2>2. 1..Len(t) = 1..Len(s) \cup {Len(s) + 1}
    BY <1>1
  <2> HIDE DEF t
  <2> QED
    BY <1>1, <2>1, <2>2
<1>5. Len(s) < CacheCap
  <2> HIDE DEF t
  <2>1. t \in [1..Len(t) -> Mids] /\ Len(t) \in Nat
    BY <1>1
  <2>2. IsFiniteSet(1..Len(t)) /\ Cardinality(1..Len(t)) = Len(t)
    BY <1>1, <2>1, FS_Interval
  <2>3. Cardinality(Mids) \in Nat
    BY FS_CardinalityType DEF CacheHoldsAll
  <2>4. ~(Cardinality(Mids) < Cardinality(1..Len(t)))
    BY <1>3, <2>1, <2>2, FS_PigeonHole DEF CacheHoldsAll
  <2> QED
    BY <1>1, <2>2, <2>3, <2>4, PlumtreeAssumption DEF CacheHoldsAll
<1>6. Record(s, m) = t
  BY <1>5, PlumtreeAssumption DEF Record
<1> HIDE DEF t
<1> QED
  BY <1>1, <1>3, <1>4, <1>6 DEF t

\* _record, _deliver and _eager_push, for a message that has been broadcast
\* and that this node lacks.
LEMMA AcceptOnce ==
    ASSUME OnceInv, CacheHoldsAll, NEW n \in Nodes, NEW m \in Mids, ~Has(n, m),
           NEW sender, NEW push, NEW w \in SUBSET wire, Accept(n, m, sender, push, w),
           origin' \in [Mids -> SUBSET Nodes], origin'[m] # {},
           \A i \in Mids : origin[i] # {} => origin'[i] # {}
    PROVE  /\ CachedOnce' /\ DeliveredCached' /\ Sourced'
           /\ delivered[n][m] = 0 /\ delivered' = [delivered EXCEPT ![n][m] = 1]
<1>1. received' = [received EXCEPT ![n] = Record(received[n], m)]
  BY DEF Accept
<1>2. received \in [Nodes -> Seq(Mids)] /\ Len(received[n]) <= CacheCap
  BY DEF OnceInv, TypeInv, CacheTyped
<1>3. /\ ToSet(Record(received[n], m)) = ToSet(received[n]) \cup {m}
      /\ \A i, k \in 1..Len(Record(received[n], m)) :
           Record(received[n], m)[i] = Record(received[n], m)[k] => i = k
  BY <1>2, RoomForNew DEF OnceInv, CachedOnce, Has
<1>4. CachedOnce'
  BY <1>1, <1>2, <1>3 DEF OnceInv, CachedOnce
<1>5. \A p \in Nodes, i \in Mids : Has(p, i)' <=> Has(p, i) \/ (p = n /\ i = m)
  BY <1>1, <1>2, <1>3 DEF Has
<1>6. delivered[n][m] = 0 /\ delivered' = [delivered EXCEPT ![n][m] = 1]
  <2>1. delivered[n][m] = 0
    BY DEF OnceInv, DeliveredCached
  <2>2. delivered' = [delivered EXCEPT ![n][m] = delivered[n][m] + 1]
    BY DEF Accept
  <2>3. delivered[n][m] + 1 = 1
    BY <2>1
  <2> QED
    BY <2>1, <2>2, <2>3
<1>7. DeliveredCached'
  <2>1. delivered \in [Nodes -> [Mids -> Nat]]
    BY DEF OnceInv, DeliveredCached
  <2>2. delivered' \in [Nodes -> [Mids -> Nat]]
    BY <1>6, <2>1
  <2>3. ASSUME NEW p \in Nodes, NEW i \in Mids
        PROVE  delivered'[p][i] = IF Has(p, i)' THEN 1 ELSE 0
    <3>1. delivered[p][i] = IF Has(p, i) THEN 1 ELSE 0
      BY DEF OnceInv, DeliveredCached
    <3>2. delivered'[p][i] = IF p = n /\ i = m THEN 1 ELSE delivered[p][i]
      BY <1>6, <2>1
    <3> QED
      BY <1>5, <3>1, <3>2
  <2> QED
    BY <2>2, <2>3 DEF DeliveredCached
<1>8. Sourced'
  <2>1. wire' = Sent(w, {GossipMsg(n, p, m) : p \in push \ sender})
    BY DEF Accept
  <2>2. ASSUME NEW g \in wire', g.type = "gossip" PROVE origin'[g.mid] # {}
    <3>1. CASE g \in w
      <4>1. g.mid \in Mids
        BY <2>2, <3>1, MessageFields DEF OnceInv, TypeInv, WireTyped
      <4> QED
        BY <2>2, <3>1, <4>1 DEF OnceInv, Sourced
    <3>2. CASE g \notin w
      <4>1. g.mid = m
        BY <2>1, <3>2 DEF Sent, GossipMsg
      <4> QED
        BY <4>1
    <3> QED
      BY <3>1, <3>2
  <2>3. \A p \in Nodes, i \in Mids : Has(p, i)' => origin'[i] # {}
    BY <1>5 DEF OnceInv, Sourced
  <2> QED
    BY <2>2, <2>3 DEF Sourced
<1> QED
  BY <1>4, <1>6, <1>7, <1>8

\* Steps that deliver nothing, and send gossip only of what was broadcast.
LEMMA KeepOnce ==
    ASSUME OnceInv, UNCHANGED <<received, origin, delivered>>,
           \A g \in wire' : g.type = "gossip" => g \in wire \/ origin[g.mid] # {}
    PROVE  CachedOnce' /\ DeliveredCached' /\ Sourced'
<1>1. \A n, m : Has(n, m)' <=> Has(n, m)
  BY DEF Has
<1> QED
  BY <1>1 DEF OnceInv, CachedOnce, DeliveredCached, Sourced

\* Nothing is delivered at first.
LEMMA OnceInit == Init => OnceInv /\ B!Init
<1> SUFFICES ASSUME Init PROVE OnceInv /\ B!Init
  OBVIOUS
<1>1. \A n \in Nodes, m \in Mids : ~Has(n, m)
  BY DEF Init, Has, ToSet
<1>2. CachedOnce
  BY DEF Init, CachedOnce
<1>3. DeliveredCached
  BY <1>1 DEF Init, DeliveredCached
<1>4. Sourced
  BY <1>1 DEF Init, Sourced
<1>5. B!Init
  BY DEF Init, B!Init
<1> QED
  BY <1>2, <1>3, <1>4, <1>5, TypeInit DEF OnceInv

\* Every step keeps the invariant, and is a step of the promise or none.
LEMMA OnceNext ==
    ASSUME CacheHoldsAll, OnceInv, [Next]_vars
    PROVE  OnceInv' /\ [B!Next]_(B!vars)
<1>0. TypeInv'
  BY TypeNext DEF OnceInv
<1>1. ASSUME NEW n \in Nodes, NEW m \in Mids, Broadcast(n, m)
      PROVE  OnceInv' /\ B!Broadcast(n, m)
  <2>1. n \in up /\ origin[m] = {} /\ origin' = [origin EXCEPT ![m] = {n}] /\ up' = up
    BY <1>1 DEF Broadcast
  <2>2. ~Has(n, m)
    BY <2>1 DEF OnceInv, Sourced
  <2>3. /\ origin' \in [Mids -> SUBSET Nodes] /\ origin'[m] # {}
        /\ \A i \in Mids : origin[i] # {} => origin'[i] # {}
    BY <2>1 DEF OnceInv, Sourced
  <2>4. Accept(n, m, {}, SyncEager(n), wire)
    BY <1>1 DEF Broadcast
  <2>5. /\ CachedOnce' /\ DeliveredCached' /\ Sourced'
        /\ delivered' = [delivered EXCEPT ![n][m] = 1]
    BY <2>2, <2>3, <2>4, AcceptOnce
  <2> QED
    BY <1>0, <2>1, <2>5 DEF OnceInv, B!Broadcast
<1>2. ASSUME NEW m \in wire, OnGossip(m)
      PROVE  OnceInv' /\ B!Deliver(m.dst, m.mid) /\ m.dst \in Nodes /\ m.mid \in Mids
  <2>1. m.type = "gossip" /\ ~Has(m.dst, m.mid) /\ up' = up /\ origin' = origin
    BY <1>2 DEF OnGossip, Handles
  <2>2. m.dst \in Nodes /\ m.mid \in Mids /\ m.dst \in up
    BY <2>1, MessageFields DEF OnceInv, TypeInv, WireTyped
  <2>3. origin[m.mid] # {} /\ origin \in [Mids -> SUBSET Nodes]
    BY <2>1 DEF OnceInv, Sourced
  <2>4. Accept(m.dst, m.mid, {m.src}, eager'[m.dst], wire \ {m})
    BY <1>2 DEF OnGossip
  <2>5. /\ CachedOnce' /\ DeliveredCached' /\ Sourced'
        /\ delivered[m.dst][m.mid] = 0 /\ delivered' = [delivered EXCEPT ![m.dst][m.mid] = 1]
    BY <2>1, <2>2, <2>3, <2>4, AcceptOnce
  <2> QED
    BY <1>0, <2>1, <2>2, <2>3, <2>5 DEF OnceInv, B!Deliver
<1>3. ASSUME NEW n \in Nodes, Crash(n)
      PROVE  OnceInv' /\ B!Crash(n)
  <2>1. OnceInv'
    BY <1>0, <1>3, KeepOnce DEF Crash, OnceInv
  <2> QED
    BY <1>3, <2>1 DEF Crash, B!Crash
<1>4. ASSUME NEW m \in wire, OnGraft(m)
      PROVE  OnceInv' /\ UNCHANGED B!vars
  <2>1. m.dst \in Nodes /\ m.mid \in Mids
    BY <1>4, MessageFields DEF OnGraft, Handles, OnceInv, TypeInv, WireTyped
  <2>2. \A g \in GraftAnswer(m.dst, m.src, m.mid) : origin[g.mid] # {}
    BY <2>1 DEF GraftAnswer, GossipMsg, OnceInv, Sourced
  <2>3. \A g \in wire' : g \in wire \/ g \in GraftAnswer(m.dst, m.src, m.mid)
    BY <1>4 DEF OnGraft, Sent
  <2> QED
    BY <1>0, <1>4, <2>2, <2>3, KeepOnce DEF OnGraft, OnceInv, B!vars
<1>5. ASSUME NEW m \in wire, OnRedundantGossip(m) \/ OnPrune(m) \/ OnIhave(m) \/ Lose(m)
      PROVE  OnceInv' /\ UNCHANGED B!vars
  <2>1. UNCHANGED <<up, received, origin, delivered>>
    BY <1>5 DEF OnRedundantGossip, OnPrune, OnIhave, Lose
  <2>2. \A g \in wire' : g.type = "gossip" => g \in wire
    BY <1>5 DEF OnRedundantGossip, PruneMsgs, Sent, OnPrune, OnIhave, Lose
  <2> QED
    BY <1>0, <2>1, <2>2, KeepOnce DEF OnceInv, B!vars
<1>6. ASSUME NEW j \in jobs, LazyPush(j) \/ \E S \in SUBSET Mids : GraftMissing(j, S)
      PROVE  OnceInv' /\ UNCHANGED B!vars
  <2>1. ASSUME NEW S, GraftMissing(j, S)
        PROVE  /\ UNCHANGED <<up, received, origin, delivered>>
               /\ \A g \in wire' : g.type = "gossip" => g \in wire
    BY <2>1 DEF GraftMissing, Sent
  <2>2. ASSUME LazyPush(j)
        PROVE  UNCHANGED <<up, received, origin, delivered, wire>>
    BY <2>2 DEF LazyPush
  <2>3. /\ UNCHANGED <<up, received, origin, delivered>>
        /\ \A g \in wire' : g.type = "gossip" => g \in wire
    BY <1>6, <2>1, <2>2
  <2> QED
    BY <1>0, <2>3, KeepOnce DEF OnceInv, B!vars
<1>7. ASSUME NEW n \in Nodes, Tick(n)
      PROVE  OnceInv' /\ UNCHANGED B!vars
  <2>1. UNCHANGED <<up, received, origin, delivered>>
    BY <1>7 DEF Tick
  <2>2. \A g \in wire' : g.type = "gossip" => g \in wire
    BY <1>7 DEF Tick, Sent, IhaveMsgs
  <2> QED
    BY <1>0, <2>1, <2>2, KeepOnce DEF OnceInv, B!vars
<1>8. CASE UNCHANGED vars
  BY <1>0, <1>8, KeepOnce DEF OnceInv, vars, B!vars
<1> QED
  BY <1>1, <1>2, <1>3, <1>4, <1>5, <1>6, <1>7, <1>8 DEF Next, Handled, Resumed, B!Next

\* Plumtree keeps the safety part of Broadcast: on_deliver is called only for
\* messages that were broadcast, and never twice for one at the same node,
\* whatever is lost, pruned, grafted or sent again and whoever crashes, as long
\* as the cache of received messages has room for all of them.
THEOREM DeliversOnce ==
    ASSUME CacheHoldsAll
    PROVE  Spec => B!Init /\ [][B!Next]_(B!vars)
<1>1. Init => OnceInv /\ B!Init
  BY OnceInit
<1>2. OnceInv /\ [Next]_vars => OnceInv' /\ [B!Next]_(B!vars)
  BY OnceNext
<1> QED
  BY <1>1, <1>2, PTL DEF Spec

-----------------------------------------------------------------------------
(* Eager links: how a broadcast makes a tree of them *)

(***************************************************************************)
(* The argument is about pairs of nodes.  While one message spreads, H is  *)
(* the set of nodes that have it, E the eager links <<p, n>>, from p to n, *)
(* G the copies of the message under way, Pr the PRUNEs, A the GRAFTs      *)
(* (<<p, n>> when n asks p), An the IHAVEs, Q the announcements queued, Nt *)
(* those noted and not acted upon yet, and Bz the nodes that have not      *)
(* announced yet.  par[n] is the node that n got the message from, and     *)
(* rank grows along the way.                                               *)
(***************************************************************************)

\* Every node with the message but the first got it from one that had it before.
Rooted(H, o, par, rank) ==
    /\ H \subseteq Nodes /\ o \in H
    /\ par \in [Nodes -> Nodes] /\ rank \in [Nodes -> Nat] /\ par[o] = o
    /\ \A n \in H \ {o} : par[n] \in H /\ par[n] # n /\ rank[par[n]] < rank[n]

\* The link it came by is eager at both ends, and nothing is under way on it.
Settled(H, o, par, E, G, Pr, A) ==
    \A n \in H \ {o} :
        /\ <<n, par[n]>> \in E /\ <<par[n], n>> \in E
        /\ <<n, par[n]>> \notin G /\ <<par[n], n>> \notin G
        /\ <<n, par[n]>> \notin Pr /\ <<par[n], n>> \notin Pr
        /\ <<n, par[n]>> \notin A /\ <<par[n], n>> \notin A

\* A node without the message sends nothing but GRAFTs, and nobody prunes it or
\* asks it.
Silent(H, G, Pr, A, An, Q, Nt, Bz) ==
    \A n \in Nodes \ H :
        /\ n \notin Bz
        /\ \A p \in Nodes : /\ <<n, p>> \notin G /\ <<n, p>> \notin Pr /\ <<p, n>> \notin Pr
                            /\ <<n, p>> \notin A /\ <<n, p>> \notin An /\ <<n, p>> \notin Q
                            /\ <<n, p>> \notin Nt

\* What p, which has the message, does for n, which has not: it has sent it if the
\* link is eager, and otherwise announces it once.
Staged(H, E, G, A, An, Q, Nt, Bz) ==
    \A p \in H, n \in Nodes \ H :
        /\ <<p, n>> \in E <=> <<p, n>> \in G
        /\ p \in Bz => <<p, n>> \notin Q /\ <<p, n>> \notin An /\ <<p, n>> \notin Nt /\ <<p, n>> \notin A
        /\ <<p, n>> \in Q => <<p, n>> \notin An /\ <<p, n>> \notin Nt /\ <<p, n>> \notin A /\ <<p, n>> \notin G
        /\ <<p, n>> \in An => <<p, n>> \notin Nt /\ <<p, n>> \notin A /\ <<p, n>> \notin G
        /\ <<p, n>> \in Nt => <<p, n>> \notin A /\ <<p, n>> \notin G
        /\ <<p, n>> \in A => <<p, n>> \notin G

\* No link to a node without the message has been given up.
Reaching(H, E, old) ==
    \A n \in Nodes \ H, p \in Nodes : <<p, n>> \in old => <<p, n>> \in E

\* A link between nodes with the message that it did not come by is about to be
\* given up: a redundant copy, or the PRUNE for one, is under way.
Waning(H, E, G, Pr, par) ==
    \A p, n \in H : p # n /\ par[n] # p /\ par[p] # n /\ <<p, n>> \in E =>
        <<n, p>> \in G \/ <<n, p>> \in Pr \/ <<p, n>> \in G

Shape(H, E, G, Pr, A, An, Q, Nt, Bz, o, par, rank, old) ==
    /\ Rooted(H, o, par, rank)
    /\ Settled(H, o, par, E, G, Pr, A)
    /\ Silent(H, G, Pr, A, An, Q, Nt, Bz)
    /\ Staged(H, E, G, A, An, Q, Nt, Bz)
    /\ Reaching(H, E, old)
    /\ Waning(H, E, G, Pr, par)

\* The relation S1 is S with <<p, n>>, or without it; or no more than S.
With(S1, S, p, n) == \A x, y \in Nodes : <<x, y>> \in S1 <=> <<x, y>> \in S \/ (x = p /\ y = n)
Without(S1, S, p, n) == \A x, y \in Nodes : <<x, y>> \in S1 <=> <<x, y>> \in S /\ ~(x = p /\ y = n)
AtMost(S1, S) == \A x, y \in Nodes : <<x, y>> \in S1 => <<x, y>> \in S

\* n has the message, and a copy from p is redundant: n gives up the link and
\* prunes it.
LEMMA ShapeRedundant ==
    ASSUME NEW H, NEW E, NEW G, NEW Pr, NEW A, NEW An, NEW Q, NEW Nt, NEW Bz,
           NEW o, NEW par, NEW rank, NEW old,
           Shape(H, E, G, Pr, A, An, Q, Nt, Bz, o, par, rank, old),
           NEW p \in Nodes, NEW n \in Nodes, n \in H, p # n, <<p, n>> \in G,
           NEW E1, NEW G1, NEW Pr1, Without(E1, E, n, p), Without(G1, G, p, n), With(Pr1, Pr, n, p)
    PROVE  Shape(H, E1, G1, Pr1, A, An, Q, Nt, Bz, o, par, rank, old)
<1>1. p \in H
  BY DEF Shape, Silent
<1>2. \A x \in H \ {o} : ~(x = n /\ par[x] = p) /\ ~(x = p /\ par[x] = n)
  BY DEF Shape, Settled
<1>3. Settled(H, o, par, E1, G1, Pr1, A)
  <2> SUFFICES ASSUME NEW x \in H \ {o}
               PROVE  /\ <<x, par[x]>> \in E1 /\ <<par[x], x>> \in E1
                      /\ <<x, par[x]>> \notin G1 /\ <<par[x], x>> \notin G1
                      /\ <<x, par[x]>> \notin Pr1 /\ <<par[x], x>> \notin Pr1
                      /\ <<x, par[x]>> \notin A /\ <<par[x], x>> \notin A
    BY DEF Settled
  <2>1. x \in Nodes /\ par[x] \in Nodes
    BY DEF Shape, Rooted
  <2> QED
    BY <1>2, <2>1 DEF Shape, Settled, With, Without
<1>4. Silent(H, G1, Pr1, A, An, Q, Nt, Bz)
  BY <1>1 DEF Shape, Silent, With, Without
<1>5. Staged(H, E1, G1, A, An, Q, Nt, Bz)
  BY <1>1 DEF Shape, Rooted, Staged, Without
<1>6. Reaching(H, E1, old)
  BY <1>1 DEF Shape, Reaching, Without
<1>7. Waning(H, E1, G1, Pr1, par)
  <2> SUFFICES ASSUME NEW x \in H, NEW y \in H, x # y, par[y] # x, par[x] # y, <<x, y>> \in E1
               PROVE  <<y, x>> \in G1 \/ <<y, x>> \in Pr1 \/ <<x, y>> \in G1
    BY DEF Waning
  <2>1. x \in Nodes /\ y \in Nodes
    BY DEF Shape, Rooted
  <2>2. <<x, y>> \in E /\ ~(x = n /\ y = p)
    BY <2>1 DEF Without
  <2>3. <<y, x>> \in G \/ <<y, x>> \in Pr \/ <<x, y>> \in G
    BY <2>2 DEF Shape, Waning
  <2> QED
    BY <2>1, <2>2, <2>3 DEF With, Without
<1> QED
  BY <1>3, <1>4, <1>5, <1>6, <1>7 DEF Shape

\* A PRUNE of p makes n give up the link.
LEMMA ShapePrune ==
    ASSUME NEW H, NEW E, NEW G, NEW Pr, NEW A, NEW An, NEW Q, NEW Nt, NEW Bz,
           NEW o, NEW par, NEW rank, NEW old,
           Shape(H, E, G, Pr, A, An, Q, Nt, Bz, o, par, rank, old),
           NEW p \in Nodes, NEW n \in Nodes, <<p, n>> \in Pr,
           NEW E1, NEW Pr1, Without(E1, E, n, p), Without(Pr1, Pr, p, n)
    PROVE  Shape(H, E1, G, Pr1, A, An, Q, Nt, Bz, o, par, rank, old)
<1>1. p \in H /\ n \in H
  BY DEF Shape, Silent
<1>2. \A x \in H \ {o} : ~(x = n /\ par[x] = p) /\ ~(x = p /\ par[x] = n)
  BY DEF Shape, Settled
<1>3. Settled(H, o, par, E1, G, Pr1, A)
  <2> SUFFICES ASSUME NEW x \in H \ {o}
               PROVE  /\ <<x, par[x]>> \in E1 /\ <<par[x], x>> \in E1
                      /\ <<x, par[x]>> \notin G /\ <<par[x], x>> \notin G
                      /\ <<x, par[x]>> \notin Pr1 /\ <<par[x], x>> \notin Pr1
                      /\ <<x, par[x]>> \notin A /\ <<par[x], x>> \notin A
    BY DEF Settled
  <2>1. x \in Nodes /\ par[x] \in Nodes
    BY DEF Shape, Rooted
  <2> QED
    BY <1>2, <2>1 DEF Shape, Settled, Without
<1>4. Silent(H, G, Pr1, A, An, Q, Nt, Bz)
  BY DEF Shape, Silent, Without
<1>5. Staged(H, E1, G, A, An, Q, Nt, Bz)
  BY <1>1 DEF Shape, Rooted, Staged, Without
<1>6. Reaching(H, E1, old)
  BY <1>1 DEF Shape, Reaching, Without
<1>7. Waning(H, E1, G, Pr1, par)
  <2> SUFFICES ASSUME NEW x \in H, NEW y \in H, x # y, par[y] # x, par[x] # y, <<x, y>> \in E1
               PROVE  <<y, x>> \in G \/ <<y, x>> \in Pr1 \/ <<x, y>> \in G
    BY DEF Waning
  <2>1. x \in Nodes /\ y \in Nodes
    BY DEF Shape, Rooted
  <2>2. <<x, y>> \in E /\ ~(x = n /\ y = p)
    BY <2>1 DEF Without
  <2>3. <<y, x>> \in G \/ <<y, x>> \in Pr \/ <<x, y>> \in G
    BY <2>2 DEF Shape, Waning
  <2> QED
    BY <2>1, <2>2, <2>3 DEF Without
<1> QED
  BY <1>3, <1>4, <1>5, <1>6, <1>7 DEF Shape

\* S1 is no more than S with <<p, n>>, or than S without it.
Grown(S1, S, p, n) == \A x, y \in Nodes : <<x, y>> \in S1 => <<x, y>> \in S \/ (x = p /\ y = n)
Shrunk(S1, S, p, n) == \A x, y \in Nodes : <<x, y>> \in S1 => <<x, y>> \in S /\ ~(x = p /\ y = n)

\* The announcement of p arrives at n, which notes it unless it has the message.
LEMMA ShapeIhave ==
    ASSUME NEW H, NEW E, NEW G, NEW Pr, NEW A, NEW An, NEW Q, NEW Nt, NEW Bz,
           NEW o, NEW par, NEW rank, NEW old,
           Shape(H, E, G, Pr, A, An, Q, Nt, Bz, o, par, rank, old),
           NEW p \in Nodes, NEW n \in Nodes, <<p, n>> \in An,
           NEW An1, NEW Nt1, Shrunk(An1, An, p, n), Grown(Nt1, Nt, p, n)
    PROVE  Shape(H, E, G, Pr, A, An1, Q, Nt1, Bz, o, par, rank, old)
<1>1. p \in H
  BY DEF Shape, Silent
<1>2. Silent(H, G, Pr, A, An1, Q, Nt1, Bz)
  BY <1>1 DEF Shape, Silent, Shrunk, Grown
<1>3. Staged(H, E, G, A, An1, Q, Nt1, Bz)
  BY <1>1 DEF Shape, Rooted, Staged, Shrunk, Grown
<1> QED
  BY <1>2, <1>3 DEF Shape

\* n asks p, which has the message and sends it: the link is eager again.
LEMMA ShapeGraft ==
    ASSUME NEW H, NEW E, NEW G, NEW Pr, NEW A, NEW An, NEW Q, NEW Nt, NEW Bz,
           NEW o, NEW par, NEW rank, NEW old,
           Shape(H, E, G, Pr, A, An, Q, Nt, Bz, o, par, rank, old),
           NEW p \in Nodes, NEW n \in Nodes, <<p, n>> \in A,
           NEW E1, NEW G1, NEW A1, With(E1, E, p, n), With(G1, G, p, n), Shrunk(A1, A, p, n)
    PROVE  Shape(H, E1, G1, Pr, A1, An, Q, Nt, Bz, o, par, rank, old)
<1>1. p \in H
  BY DEF Shape, Silent
<1>2. \A x \in H \ {o} : ~(x = n /\ par[x] = p) /\ ~(x = p /\ par[x] = n)
  BY DEF Shape, Settled
<1>3. Settled(H, o, par, E1, G1, Pr, A1)
  <2> SUFFICES ASSUME NEW x \in H \ {o}
               PROVE  /\ <<x, par[x]>> \in E1 /\ <<par[x], x>> \in E1
                      /\ <<x, par[x]>> \notin G1 /\ <<par[x], x>> \notin G1
                      /\ <<x, par[x]>> \notin Pr /\ <<par[x], x>> \notin Pr
                      /\ <<x, par[x]>> \notin A1 /\ <<par[x], x>> \notin A1
    BY DEF Settled
  <2>1. x \in Nodes /\ par[x] \in Nodes
    BY DEF Shape, Rooted
  <2> QED
    BY <1>2, <2>1 DEF Shape, Settled, With, Shrunk
<1>4. Silent(H, G1, Pr, A1, An, Q, Nt, Bz)
  BY <1>1 DEF Shape, Silent, With, Shrunk
<1>5. Staged(H, E1, G1, A1, An, Q, Nt, Bz)
  BY <1>1 DEF Shape, Rooted, Staged, With, Shrunk
<1>6. Reaching(H, E1, old)
  BY DEF Shape, Reaching, With
<1>7. Waning(H, E1, G1, Pr, par)
  <2> SUFFICES ASSUME NEW x \in H, NEW y \in H, x # y, par[y] # x, par[x] # y, <<x, y>> \in E1
               PROVE  <<y, x>> \in G1 \/ <<y, x>> \in Pr \/ <<x, y>> \in G1
    BY DEF Waning
  <2>1. x \in Nodes /\ y \in Nodes
    BY DEF Shape, Rooted
  <2>2. <<x, y>> \in E \/ (x = p /\ y = n)
    BY <2>1 DEF With
  <2>3. <<x, y>> \in E => <<y, x>> \in G \/ <<y, x>> \in Pr \/ <<x, y>> \in G
    BY DEF Shape, Waning
  <2> QED
    BY <2>1, <2>2, <2>3 DEF With
<1> QED
  BY <1>3, <1>4, <1>5, <1>6, <1>7 DEF Shape

\* p queues announcements for its lazy links.
LEMMA ShapeLazyPush ==
    ASSUME NEW H, NEW E, NEW G, NEW Pr, NEW A, NEW An, NEW Q, NEW Nt, NEW Bz,
           NEW o, NEW par, NEW rank, NEW old,
           Shape(H, E, G, Pr, A, An, Q, Nt, Bz, o, par, rank, old),
           NEW p \in Nodes, p \in Bz, NEW Q1, NEW Bz1, Bz1 \subseteq Bz \ {p},
           \A x, y \in Nodes : <<x, y>> \in Q1 => <<x, y>> \in Q \/ (x = p /\ <<p, y>> \notin E)
    PROVE  Shape(H, E, G, Pr, A, An, Q1, Nt, Bz1, o, par, rank, old)
<1>1. p \in H
  BY DEF Shape, Silent
<1>2. Silent(H, G, Pr, A, An, Q1, Nt, Bz1)
  BY <1>1 DEF Shape, Silent
<1>3. Staged(H, E, G, A, An, Q1, Nt, Bz1)
  BY <1>1 DEF Shape, Rooted, Staged
<1> QED
  BY <1>2, <1>3 DEF Shape

\* p sends the announcements queued.
LEMMA ShapeTick ==
    ASSUME NEW H, NEW E, NEW G, NEW Pr, NEW A, NEW An, NEW Q, NEW Nt, NEW Bz,
           NEW o, NEW par, NEW rank, NEW old,
           Shape(H, E, G, Pr, A, An, Q, Nt, Bz, o, par, rank, old),
           NEW p \in Nodes, NEW Q1, NEW An1,
           \A x, y \in Nodes : <<x, y>> \in Q1 => <<x, y>> \in Q /\ x # p,
           \A x, y \in Nodes : <<x, y>> \in An1 => <<x, y>> \in An \/ (x = p /\ <<p, y>> \in Q)
    PROVE  Shape(H, E, G, Pr, A, An1, Q1, Nt, Bz, o, par, rank, old)
<1>1. Silent(H, G, Pr, A, An1, Q1, Nt, Bz)
  BY DEF Shape, Silent
<1>2. Staged(H, E, G, A, An1, Q1, Nt, Bz)
  BY DEF Shape, Rooted, Staged
<1> QED
  BY <1>1, <1>2 DEF Shape

\* n, which waited in vain, asks p, the first that announced the message.
LEMMA ShapeGraftMissing ==
    ASSUME NEW H, NEW E, NEW G, NEW Pr, NEW A, NEW An, NEW Q, NEW Nt, NEW Bz,
           NEW o, NEW par, NEW rank, NEW old,
           Shape(H, E, G, Pr, A, An, Q, Nt, Bz, o, par, rank, old),
           NEW p \in Nodes, NEW n \in Nodes, n \notin H, <<p, n>> \in Nt,
           NEW E1, NEW A1, NEW Nt1, With(E1, E, n, p), Grown(A1, A, p, n), Shrunk(Nt1, Nt, p, n)
    PROVE  Shape(H, E1, G, Pr, A1, An, Q, Nt1, Bz, o, par, rank, old)
<1>1. p \in H
  BY DEF Shape, Silent
<1>3. Settled(H, o, par, E1, G, Pr, A1)
  <2> SUFFICES ASSUME NEW x \in H \ {o}
               PROVE  /\ <<x, par[x]>> \in E1 /\ <<par[x], x>> \in E1
                      /\ <<x, par[x]>> \notin G /\ <<par[x], x>> \notin G
                      /\ <<x, par[x]>> \notin Pr /\ <<par[x], x>> \notin Pr
                      /\ <<x, par[x]>> \notin A1 /\ <<par[x], x>> \notin A1
    BY DEF Settled
  <2>1. x \in Nodes /\ par[x] \in Nodes /\ x # n /\ par[x] # n
    BY DEF Shape, Rooted
  <2> QED
    BY <2>1 DEF Shape, Settled, With, Grown
<1>4. Silent(H, G, Pr, A1, An, Q, Nt1, Bz)
  BY <1>1 DEF Shape, Silent, Grown, Shrunk
<1>5. Staged(H, E1, G, A1, An, Q, Nt1, Bz)
  BY <1>1 DEF Shape, Rooted, Staged, With, Grown, Shrunk
<1>6. Reaching(H, E1, old)
  BY DEF Shape, Reaching, With
<1>7. Waning(H, E1, G, Pr, par)
  BY DEF Shape, Rooted, Waning, With
<1> QED
  BY <1>3, <1>4, <1>5, <1>6, <1>7 DEF Shape

\* A copy from p arrives at n, which sends others along its eager links.
Forwarded(G1, G, E1, p, n) ==
    \A x, y \in Nodes : <<x, y>> \in G1 <=>
        (<<x, y>> \in G /\ ~(x = p /\ y = n)) \/ (x = n /\ y # p /\ <<n, y>> \in E1)

\* n gets the message from p, and pushes it on along its eager links.
LEMMA ShapeAccept ==
    ASSUME NEW H, NEW E, NEW G, NEW Pr, NEW A, NEW An, NEW Q, NEW Nt, NEW Bz,
           NEW o, NEW par, NEW rank, NEW old,
           Shape(H, E, G, Pr, A, An, Q, Nt, Bz, o, par, rank, old),
           NEW p \in Nodes, NEW n \in Nodes, n \notin H, <<p, n>> \in G,
           NEW E1, NEW G1, NEW Nt1, NEW Bz1, With(E1, E, n, p), AtMost(Nt1, Nt), Bz1 \subseteq Bz \cup {n},
           Forwarded(G1, G, E1, p, n), NEW H1, H1 = H \cup {n}
    PROVE  Shape(H1, E1, G1, Pr, A, An, Q, Nt1, Bz1, o,
                 [par EXCEPT ![n] = p], [rank EXCEPT ![n] = rank[p] + 1], old)
<1> DEFINE par1 == [par EXCEPT ![n] = p]
           rank1 == [rank EXCEPT ![n] = rank[p] + 1]
<1> USE DEF Forwarded
<1>0. p \in H /\ p # n /\ H \subseteq Nodes
  BY DEF Shape, Silent, Rooted
<1>1. /\ par1 \in [Nodes -> Nodes] /\ rank1 \in [Nodes -> Nat]
      /\ par1[n] = p /\ rank1[n] = rank[p] + 1
      /\ \A x \in Nodes : x # n => par1[x] = par[x] /\ rank1[x] = rank[x]
  BY DEF Shape, Rooted
<1>2. Rooted(H1, o, par1, rank1)
  BY <1>0, <1>1 DEF Shape, Rooted
<1> HIDE DEF par1, rank1
<1>3. Settled(H1, o, par1, E1, G1, Pr, A)
  <2> SUFFICES ASSUME NEW x \in H1 \ {o}
               PROVE  /\ <<x, par1[x]>> \in E1 /\ <<par1[x], x>> \in E1
                      /\ <<x, par1[x]>> \notin G1 /\ <<par1[x], x>> \notin G1
                      /\ <<x, par1[x]>> \notin Pr /\ <<par1[x], x>> \notin Pr
                      /\ <<x, par1[x]>> \notin A /\ <<par1[x], x>> \notin A
    BY DEF Settled
  <2>1. CASE x = n
    <3>1. /\ <<n, p>> \notin G /\ <<n, p>> \notin Pr /\ <<p, n>> \notin Pr /\ <<n, p>> \notin A
      BY <1>0 DEF Shape, Silent
    <3>2. <<p, n>> \in E /\ <<p, n>> \notin A
      BY <1>0 DEF Shape, Staged
    <3> QED
      BY <1>0, <1>1, <2>1, <3>1, <3>2 DEF With
  <2>2. CASE x # n
    <3>1. x \in H \ {o} /\ x \in Nodes /\ par1[x] = par[x] /\ par[x] \in H
      BY <1>0, <1>1, <2>2 DEF Shape, Rooted
    <3> QED
      BY <1>0, <2>2, <3>1 DEF Shape, Settled, With
  <2> QED
    BY <2>1, <2>2
<1>4. Silent(H1, G1, Pr, A, An, Q, Nt1, Bz1)
  BY <1>0 DEF Shape, Silent, AtMost
<1>5. Staged(H1, E1, G1, A, An, Q, Nt1, Bz1)
  <2> SUFFICES ASSUME NEW x \in H1, NEW y \in Nodes \ H1
               PROVE  /\ <<x, y>> \in E1 <=> <<x, y>> \in G1
                      /\ x \in Bz1 => <<x, y>> \notin Q /\ <<x, y>> \notin An /\ <<x, y>> \notin Nt1 /\ <<x, y>> \notin A
                      /\ <<x, y>> \in Q => <<x, y>> \notin An /\ <<x, y>> \notin Nt1 /\ <<x, y>> \notin A /\ <<x, y>> \notin G1
                      /\ <<x, y>> \in An => <<x, y>> \notin Nt1 /\ <<x, y>> \notin A /\ <<x, y>> \notin G1
                      /\ <<x, y>> \in Nt1 => <<x, y>> \notin A /\ <<x, y>> \notin G1
                      /\ <<x, y>> \in A => <<x, y>> \notin G1
    BY DEF Staged
  <2>1. CASE x = n
    <3>1. /\ <<n, y>> \notin G /\ <<n, y>> \notin Q /\ <<n, y>> \notin An /\ <<n, y>> \notin Nt
          /\ <<n, y>> \notin A
      BY DEF Shape, Silent
    <3>2. y # p /\ y # n
      BY <1>0
    <3> QED
      BY <2>1, <3>1, <3>2 DEF AtMost
  <2>2. CASE x # n
    <3>1. x \in H /\ y \in Nodes \ H /\ x \in Nodes /\ y # n
      BY <1>0, <2>2
    <3> QED
      BY <2>2, <3>1 DEF Shape, Staged, With, AtMost
  <2> QED
    BY <2>1, <2>2
<1>6. Reaching(H1, E1, old)
  BY DEF Shape, Reaching, With
<1>7. Waning(H1, E1, G1, Pr, par1)
  <2> SUFFICES ASSUME NEW x \in H1, NEW y \in H1, x # y, par1[y] # x, par1[x] # y, <<x, y>> \in E1
               PROVE  <<y, x>> \in G1 \/ <<y, x>> \in Pr \/ <<x, y>> \in G1
    BY DEF Waning
  <2>1. x \in Nodes /\ y \in Nodes
    BY <1>0
  <2>2. CASE x = n
    BY <1>1, <2>1, <2>2
  <2>3. CASE y = n
    <3>1. x \in H /\ <<x, n>> \in E /\ x # p
      BY <1>1, <2>1, <2>3 DEF With
    <3>2. <<x, n>> \in G
      BY <3>1 DEF Shape, Staged
    <3> QED
      BY <2>1, <2>3, <3>1, <3>2
  <2>4. CASE x # n /\ y # n
    <3>1. x \in H /\ y \in H /\ par[y] # x /\ par[x] # y /\ <<x, y>> \in E
      BY <1>1, <2>1, <2>4 DEF With
    <3>2. <<y, x>> \in G \/ <<y, x>> \in Pr \/ <<x, y>> \in G
      BY <3>1 DEF Shape, Waning
    <3> QED
      BY <2>1, <2>4, <3>2
  <2> QED
    BY <2>2, <2>3, <2>4
<1> QED
  BY <1>2, <1>3, <1>4, <1>5, <1>6, <1>7 DEF Shape, par1, rank1

\* A broadcast starts with one holder, which has sent the message along its
\* eager links.
LEMMA ShapeStart ==
    ASSUME NEW E, NEW G, NEW Pr, NEW A, NEW An, NEW Q, NEW Nt, NEW Bz, NEW o \in Nodes,
           Bz \subseteq {o}, \A x, y \in Nodes : <<x, y>> \in G <=> (x = o /\ <<o, y>> \in E),
           \A x, y \in Nodes : /\ <<x, y>> \notin Pr /\ <<x, y>> \notin A /\ <<x, y>> \notin An
                               /\ <<x, y>> \notin Q /\ <<x, y>> \notin Nt
    PROVE  Shape({o}, E, G, Pr, A, An, Q, Nt, Bz, o, [n \in Nodes |-> n], [n \in Nodes |-> 0], E)
<1>1. Rooted({o}, o, [n \in Nodes |-> n], [n \in Nodes |-> 0])
  BY DEF Rooted
<1>2. Settled({o}, o, [n \in Nodes |-> n], E, G, Pr, A)
  BY DEF Settled
<1>3. Silent({o}, G, Pr, A, An, Q, Nt, Bz)
  BY DEF Silent
<1>4. Staged({o}, E, G, A, An, Q, Nt, Bz)
  BY DEF Staged
<1>5. Reaching({o}, E, E)
  BY DEF Reaching
<1>6. Waning({o}, E, G, Pr, [n \in Nodes |-> n])
  BY DEF Waning
<1> QED
  BY <1>1, <1>2, <1>3, <1>4, <1>5, <1>6 DEF Shape

\* Whichever way the nodes are split, a link leads across.
Spans(R) == \A S \in (SUBSET Nodes) \ {{}, Nodes} : \E x \in S, y \in Nodes \ S : <<x, y>> \in R

\* E holds the links between a node and the one it got the message from, both
\* ways, and no others.
IsTree(E, o, par) ==
    \A x, y \in Nodes : <<x, y>> \in E <=> (y # o /\ par[y] = x) \/ (x # o /\ par[x] = y)

\* When nothing is under way any more, everybody has the message, and the links
\* it came by are the eager ones.
LEMMA ShapeDone ==
    ASSUME NEW H, NEW E, NEW G, NEW Pr, NEW A, NEW An, NEW Q, NEW Nt, NEW Bz,
           NEW o, NEW par, NEW rank, NEW old,
           Shape(H, E, G, Pr, A, An, Q, Nt, Bz, o, par, rank, old),
           \A x, y \in Nodes : <<x, y>> \notin G /\ <<x, y>> \notin Pr,
           \A x \in Nodes : <<x, x>> \notin E, Spans(old)
    PROVE  Rooted(Nodes, o, par, rank) /\ IsTree(E, o, par)
<1>1. H = Nodes
  <2> SUFFICES ASSUME H # Nodes PROVE FALSE
    OBVIOUS
  <2>1. H \in (SUBSET Nodes) \ {{}, Nodes}
    BY DEF Shape, Rooted
  <2>2. PICK x \in H, y \in Nodes \ H : <<x, y>> \in old
    BY <2>1 DEF Spans
  <2>3. x \in Nodes /\ <<x, y>> \in E
    BY <2>1, <2>2 DEF Shape, Reaching
  <2>4. <<x, y>> \in G
    BY <2>3 DEF Shape, Staged
  <2> QED
    BY <2>3, <2>4
<1>2. Rooted(Nodes, o, par, rank)
  BY <1>1 DEF Shape
<1>3. ASSUME NEW x \in Nodes, NEW y \in Nodes, <<x, y>> \in E
      PROVE  (y # o /\ par[y] = x) \/ (x # o /\ par[x] = y)
  <2>1. x # y
    BY <1>3
  <2>2. par[y] = x \/ par[x] = y
    BY <1>1, <1>3, <2>1 DEF Shape, Waning
  <2> QED
    BY <1>2, <2>1, <2>2 DEF Rooted
<1>4. ASSUME NEW x \in Nodes, x # o
      PROVE  <<x, par[x]>> \in E /\ <<par[x], x>> \in E
  BY <1>1, <1>4 DEF Shape, Settled
<1> QED
  BY <1>2, <1>3, <1>4 DEF IsTree

\* A set of nodes has one of least rank.
LEMMA LeastRank ==
    ASSUME NEW S, S # {}, S \subseteq Nodes, NEW rank \in [Nodes -> Nat]
    PROVE  \E x \in S : \A y \in S : ~(rank[y] < rank[x])
<1> DEFINE R == OpToRel(<, Nat)
           T == {rank[x] : x \in S}
<1>1. IsWellFoundedOn(R, Nat)
  BY NatLessThanWellFounded
<1>2. \A i, k \in Nat : i < k => <<i, k>> \in R
  BY DEF OpToRel
<1>3. T \subseteq Nat /\ T # {}
  OBVIOUS
<1> HIDE DEF R
<1>4. \E i \in T : \A k \in T : ~(<<k, i>> \in R)
  <2> HIDE DEF T
  <2> QED
    BY <1>1, <1>3, WFMin
<1>5. PICK z \in S : \A k \in T : ~(<<k, rank[z]>> \in R)
  BY <1>4
<1> QED
  BY <1>2, <1>3, <1>5

\* Such links form one piece.
LEMMA TreeSpans ==
    ASSUME NEW E, NEW o, NEW par, NEW rank, Rooted(Nodes, o, par, rank), IsTree(E, o, par)
    PROVE  Spans(E)
<1> SUFFICES ASSUME NEW S \in SUBSET Nodes, S # {}, S # Nodes
             PROVE  \E x \in S, y \in Nodes \ S : <<x, y>> \in E
  BY DEF Spans
<1>0. rank \in [Nodes -> Nat] /\ \A n \in Nodes \ {o} : par[n] \in Nodes /\ rank[par[n]] < rank[n]
  BY DEF Rooted
<1>1. CASE o \in S
  <2>1. PICK n \in Nodes \ S : \A y \in Nodes \ S : ~(rank[y] < rank[n])
    BY <1>0, LeastRank
  <2>2. n # o /\ par[n] \in S
    BY <1>0, <1>1, <2>1
  <2> QED
    BY <1>0, <2>1, <2>2 DEF IsTree
<1>2. CASE o \notin S
  <2>1. PICK n \in S : \A y \in S : ~(rank[y] < rank[n])
    BY <1>0, LeastRank
  <2>2. n # o /\ par[n] \in Nodes \ S
    BY <1>0, <1>2, <2>1
  <2> QED
    BY <1>0, <2>1, <2>2 DEF IsTree
<1> QED
  BY <1>1, <1>2

\* There are two for every node but the first.
LEMMA TreeCount ==
    ASSUME NEW E, NEW o, NEW par, NEW rank, Rooted(Nodes, o, par, rank), IsTree(E, o, par),
           IsFiniteSet(Nodes), E \subseteq Nodes \X Nodes
    PROVE  Cardinality(E) = 2 * (Cardinality(Nodes) - 1)
<1> DEFINE N == Nodes \ {o}
           U == {<<n, par[n]>> : n \in N}
           D == {<<par[n], n>> : n \in N}
<1>0. /\ o \in Nodes /\ rank \in [Nodes -> Nat]
      /\ \A n \in N : par[n] \in Nodes /\ rank[par[n]] < rank[n]
  BY DEF Rooted
<1>1. IsFiniteSet(N) /\ Cardinality(N) = Cardinality(Nodes) - 1
  BY <1>0, FS_RemoveElement
<1>2. IsFiniteSet(U) /\ Cardinality(U) = Cardinality(N)
  <2> DEFINE f == [n \in N |-> <<n, par[n]>>]
  <2>0. f \in [N -> U] /\ (\A n, k \in N : f[n] = f[k] => n = k) /\ (\A l \in U : \E n \in N : f[n] = l)
    OBVIOUS
  <2>1. f \in Bijection(N, U)
    <3> HIDE DEF f, N, U
    <3> QED
      BY <2>0 DEF Bijection, Injection, Surjection, IsInjective
  <2> HIDE DEF f, N, U
  <2>2. ExistsBijection(N, U)
    BY <2>1 DEF ExistsBijection
  <2> QED
    BY <1>1, <2>2, FS_Bijection
<1>3. IsFiniteSet(D) /\ Cardinality(D) = Cardinality(N)
  <2> DEFINE f == [n \in N |-> <<par[n], n>>]
  <2>0. f \in [N -> D] /\ (\A n, k \in N : f[n] = f[k] => n = k) /\ (\A l \in D : \E n \in N : f[n] = l)
    OBVIOUS
  <2>1. f \in Bijection(N, D)
    <3> HIDE DEF f, N, D
    <3> QED
      BY <2>0 DEF Bijection, Injection, Surjection, IsInjective
  <2> HIDE DEF f, N, D
  <2>2. ExistsBijection(N, D)
    BY <2>1 DEF ExistsBijection
  <2> QED
    BY <1>1, <2>2, FS_Bijection
<1>4. U \cap D = {}
  <2> SUFFICES ASSUME NEW n \in N, NEW k \in N, <<n, par[n]>> = <<par[k], k>> PROVE FALSE
    OBVIOUS
  <2>1. n = par[k] /\ k = par[n] /\ rank[n] \in Nat /\ rank[k] \in Nat
    BY <1>0
  <2> QED
    BY <1>0, <2>1
<1>5. E = U \cup D
  <2>1. ASSUME NEW l \in E PROVE l \in U \cup D
    <3>1. PICK x \in Nodes, y \in Nodes : l = <<x, y>>
      BY <2>1
    <3> QED
      BY <2>1, <3>1 DEF IsTree
  <2>2. ASSUME NEW n \in N PROVE <<n, par[n]>> \in E /\ <<par[n], n>> \in E
    BY <1>0 DEF IsTree
  <2> QED
    BY <2>1, <2>2
<1>6. Cardinality(Nodes) \in Nat
  BY FS_CardinalityType
<1>7. Cardinality(U \cup D) = Cardinality(U) + Cardinality(D) - Cardinality(U \cap D)
  <2> HIDE DEF U, D
  <2> QED
    BY <1>2, <1>3, FS_Union
<1>8. Cardinality(U \cap D) = 0
  BY <1>4, FS_EmptySet
<1> HIDE DEF U, D, N
<1> QED
  BY <1>1, <1>2, <1>3, <1>5, <1>6, <1>7, <1>8

-----------------------------------------------------------------------------
(* Eager links: the states of a broadcast *)

PruneMsg(n, p) == [type |-> "prune", src |-> n, dst |-> p]
GraftMsg(n, p, m) == [type |-> "graft", src |-> n, dst |-> p, mid |-> m]
IhaveMsg(n, p, m) == [type |-> "ihave", src |-> n, dst |-> p, ids |-> {m}]

\* The relations above, for message m.
Holders(rc, m) == {n \in Nodes : m \in ToSet(rc[n])}
LinksOf(e) == {l \in Nodes \X Nodes : l[2] \in e[l[1]]}
Pushed(W, m) == {l \in Nodes \X Nodes : GossipMsg(l[1], l[2], m) \in W}
Pruned(W) == {l \in Nodes \X Nodes : PruneMsg(l[1], l[2]) \in W}
Asked(W, m) == {l \in Nodes \X Nodes : GraftMsg(l[2], l[1], m) \in W}
Announced(W, m) == {l \in Nodes \X Nodes : IhaveMsg(l[1], l[2], m) \in W}
Queued(q, m) == {l \in Nodes \X Nodes : <<l[2], m>> \in q[l[1]]}
Noted(f, m) == {l \in Nodes \X Nodes : l[1] \in ToSet(f[l[2]][m])}
Busy(J) == {n \in Nodes : \E j \in J : j.then = "announce" /\ j.node = n}

Formed(m, o, par, rank, old) ==
    Shape(Holders(received, m), LinksOf(eager), Pushed(wire, m), Pruned(wire), Asked(wire, m),
          Announced(wire, m), Queued(lazyQueue, m), Noted(ihaveFrom, m), Busy(jobs), o, par, rank, old)

\* Everything under way is about m and between neighbours, and a node notes an
\* announcement once.
MailAbout(W, nb, m) ==
    \A w \in W : \E x, y \in Nodes :
        /\ x # y /\ y \in nb[x] /\ x \in nb[y]
        /\ w \in {GossipMsg(x, y, m), PruneMsg(x, y), GraftMsg(x, y, m), IhaveMsg(x, y, m)}
JobsAbout(J, m) ==
    /\ \A j \in J : j.then = "announce" => j.mid = m
    /\ \A i, j \in J : i.then = "announce" /\ j.then = "announce" /\ i.node = j.node => i = j
QueueAbout(q, nb, m) == \A n \in Nodes : q[n] \subseteq nb[n] \X {m}
WaitAbout(ms, f, nb, m) ==
    \A n \in Nodes :
        /\ \A k \in Mids \ {m} : ms[n][k] = -1
        /\ ToSet(f[n][m]) \subseteq nb[n]
        /\ \A i, k \in 1..Len(f[n][m]) : f[n][m][i] = f[n][m][k] => i = k

About(m) ==
    /\ m \in Mids /\ origin[m] # {}
    /\ MailAbout(wire, start.neighbors, m) /\ JobsAbout(jobs, m)
    /\ QueueAbout(lazyQueue, start.neighbors, m) /\ WaitAbout(missing, ihaveFrom, start.neighbors, m)

Growing(m, o, par, rank, old) == About(m) /\ Spans(old) /\ Formed(m, o, par, rank, old)

\* Every neighbour is linked, and nobody has heard of a message that was not
\* broadcast.
Tidy ==
    /\ \A n \in Nodes : eager[n] \cup lazy[n] = start.neighbors[n]
    /\ \A k \in Mids : origin[k] = {} => \A n \in Nodes : ihaveFrom[n][k] = <<>>

\* The messages of different kinds, ends or ids differ.
LEMMA MailDistinct ==
    ASSUME NEW m, NEW x \in Nodes, NEW y \in Nodes, NEW p \in Nodes, NEW n \in Nodes
    PROVE  /\ GossipMsg(x, y, m) = GossipMsg(p, n, m) <=> x = p /\ y = n
           /\ PruneMsg(x, y) = PruneMsg(p, n) <=> x = p /\ y = n
           /\ GraftMsg(x, y, m) = GraftMsg(p, n, m) <=> x = p /\ y = n
           /\ IhaveMsg(x, y, m) = IhaveMsg(p, n, m) <=> x = p /\ y = n
           /\ GossipMsg(x, y, m) # PruneMsg(p, n) /\ GossipMsg(x, y, m) # GraftMsg(p, n, m)
           /\ GossipMsg(x, y, m) # IhaveMsg(p, n, m) /\ PruneMsg(x, y) # GraftMsg(p, n, m)
           /\ PruneMsg(x, y) # IhaveMsg(p, n, m) /\ GraftMsg(x, y, m) # IhaveMsg(p, n, m)
<1> DEFINE Fields(w) == <<w.type, w.src, w.dst>>
<1>1. /\ Fields(GossipMsg(x, y, m)) = <<"gossip", x, y>> /\ Fields(GossipMsg(p, n, m)) = <<"gossip", p, n>>
      /\ Fields(PruneMsg(x, y)) = <<"prune", x, y>> /\ Fields(PruneMsg(p, n)) = <<"prune", p, n>>
      /\ Fields(GraftMsg(x, y, m)) = <<"graft", x, y>> /\ Fields(GraftMsg(p, n, m)) = <<"graft", p, n>>
      /\ Fields(IhaveMsg(x, y, m)) = <<"ihave", x, y>> /\ Fields(IhaveMsg(p, n, m)) = <<"ihave", p, n>>
  BY DEF GossipMsg, PruneMsg, GraftMsg, IhaveMsg
<1> HIDE DEF Fields
<1> QED
  BY <1>1

\* What a message about m is, by its type.
LEMMA MailFields ==
    ASSUME NEW W, NEW nb, NEW m, MailAbout(W, nb, m), NEW w \in W
    PROVE  /\ w.src \in Nodes /\ w.dst \in Nodes /\ w.src # w.dst
           /\ w.dst \in nb[w.src] /\ w.src \in nb[w.dst]
           /\ w.type = "gossip" => w = GossipMsg(w.src, w.dst, m) /\ w.mid = m
           /\ w.type = "prune" => w = PruneMsg(w.src, w.dst)
           /\ w.type = "graft" => w = GraftMsg(w.src, w.dst, m) /\ w.mid = m
           /\ w.type = "ihave" => w = IhaveMsg(w.src, w.dst, m) /\ w.ids = {m}
<1>1. PICK x \in Nodes, y \in Nodes :
          /\ x # y /\ y \in nb[x] /\ x \in nb[y]
          /\ w \in {GossipMsg(x, y, m), PruneMsg(x, y), GraftMsg(x, y, m), IhaveMsg(x, y, m)}
  BY DEF MailAbout
<1>2. w.src = x /\ w.dst = y
  BY <1>1 DEF GossipMsg, PruneMsg, GraftMsg, IhaveMsg
<1>3. /\ w.type = "gossip" => w = GossipMsg(x, y, m) /\ w.mid = m
      /\ w.type = "prune" => w = PruneMsg(x, y)
      /\ w.type = "graft" => w = GraftMsg(x, y, m) /\ w.mid = m
      /\ w.type = "ihave" => w = IhaveMsg(x, y, m) /\ w.ids = {m}
  <2>1. CASE w = GossipMsg(x, y, m)
    BY <2>1 DEF GossipMsg
  <2>2. CASE w = PruneMsg(x, y)
    BY <2>2 DEF PruneMsg
  <2>3. CASE w = GraftMsg(x, y, m)
    BY <2>3 DEF GraftMsg
  <2>4. CASE w = IhaveMsg(x, y, m)
    BY <2>4 DEF IhaveMsg
  <2> QED
    BY <1>1, <2>1, <2>2, <2>3, <2>4
<1> QED
  BY <1>1, <1>2, <1>3

\* Messages under way that are handled, and others sent to a neighbour.
LEMMA MailStep ==
    ASSUME NEW W, NEW nb, NEW m, MailAbout(W, nb, m), NEW W1, NEW new, W1 \subseteq W \cup new,
           \A w \in new : \E x, y \in Nodes :
               /\ x # y /\ y \in nb[x] /\ x \in nb[y]
               /\ w \in {GossipMsg(x, y, m), PruneMsg(x, y), GraftMsg(x, y, m), IhaveMsg(x, y, m)}
    PROVE  MailAbout(W1, nb, m)
BY DEF MailAbout

\* A link that moves between eager and lazy.
LEMMA TidyMove ==
    ASSUME TypeInv, Tidy, NEW n \in Nodes, NEW p \in start.neighbors[n], start' = start,
           UNCHANGED origin, UNCHANGED ihaveFrom, MoveTo(n, eager, lazy, p) \/ MoveTo(n, lazy, eager, p)
    PROVE  Tidy'
<1>1. eager \in [Nodes -> SUBSET Nodes] /\ lazy \in [Nodes -> SUBSET Nodes]
  BY DEF TypeInv, LinksTyped
<1>2. \A x \in Nodes : eager'[x] \cup lazy'[x] = start.neighbors[x]
  BY <1>1 DEF Tidy, MoveTo
<1> QED
  BY <1>2 DEF Tidy

\* A PRUNE.
LEMMA GrowPrune ==
    ASSUME TypeInv, Tidy, NEW m, NEW o, NEW par, NEW rank, NEW old,
           Growing(m, o, par, rank, old), NEW w \in wire, OnPrune(w)
    PROVE  Tidy' /\ Growing(m, o, par, rank, old)'
<1> DEFINE p == w.src
           n == w.dst
<1>0. MailAbout(wire, start.neighbors, m) /\ m \in Mids
  BY DEF Growing, About
<1>1. /\ p \in Nodes /\ n \in Nodes /\ p # n /\ p \in start.neighbors[n] /\ w = PruneMsg(p, n)
      /\ w.type = "prune"
  BY <1>0, MailFields DEF OnPrune, Handles
<1>2. /\ wire' = wire \ {w} /\ MoveTo(n, lazy, eager, p)
      /\ UNCHANGED <<start, up, received, missing, ihaveFrom, lazyQueue, jobs, origin>>
  BY DEF OnPrune
<1>3. Tidy'
  BY <1>1, <1>2, TidyMove
<1>4. eager \in [Nodes -> SUBSET Nodes] /\ eager' = [eager EXCEPT ![n] = @ \ {p}]
  BY <1>2 DEF MoveTo, TypeInv, LinksTyped
<1> HIDE DEF p, n
<1>5. Without(LinksOf(eager'), LinksOf(eager), n, p)
  BY <1>1, <1>4 DEF Without, LinksOf
<1>6. Without(Pruned(wire'), Pruned(wire), p, n) /\ <<p, n>> \in Pruned(wire)
  BY <1>1, <1>2, MailDistinct DEF Without, Pruned
<1>7. Pushed(wire', m) = Pushed(wire, m) /\ Asked(wire', m) = Asked(wire, m)
      /\ Announced(wire', m) = Announced(wire, m)
  BY <1>1, <1>2, MailDistinct DEF Pushed, Asked, Announced
<1>8. Formed(m, o, par, rank, old)'
  <2>1. Formed(m, o, par, rank, old)
    BY DEF Growing
  <2>2. Shape(Holders(received, m), LinksOf(eager'), Pushed(wire, m), Pruned(wire'), Asked(wire, m),
              Announced(wire, m), Queued(lazyQueue, m), Noted(ihaveFrom, m), Busy(jobs), o, par, rank, old)
    BY <1>1, <1>5, <1>6, <2>1, ShapePrune DEF Formed
  <2> QED
    BY <1>2, <1>7, <2>2 DEF Formed
<1>9. MailAbout(wire', start.neighbors, m)
  BY <1>0, <1>2 DEF MailAbout
<1> QED
  BY <1>2, <1>3, <1>8, <1>9 DEF Growing, About

\* A redundant copy.
LEMMA GrowRedundant ==
    ASSUME TypeInv, Tidy, up = Nodes, NEW m, NEW o, NEW par, NEW rank, NEW old,
           Growing(m, o, par, rank, old), NEW w \in wire, OnRedundantGossip(w)
    PROVE  Tidy' /\ Growing(m, o, par, rank, old)'
<1> DEFINE p == w.src
           n == w.dst
<1>0. MailAbout(wire, start.neighbors, m) /\ m \in Mids
  BY DEF Growing, About
<1>1. /\ p \in Nodes /\ n \in Nodes /\ p # n /\ p \in start.neighbors[n] /\ n \in start.neighbors[p]
      /\ w = GossipMsg(p, n, m) /\ w.mid = m /\ w.type = "gossip"
  BY <1>0, MailFields DEF OnRedundantGossip, Handles
<1>2. /\ wire' = Sent(wire \ {w}, PruneMsgs(n, p)) /\ MoveTo(n, lazy, eager, p) /\ Has(n, w.mid)
      /\ UNCHANGED <<start, up, received, missing, ihaveFrom, lazyQueue, jobs, origin>>
  BY DEF OnRedundantGossip
<1>3. Tidy'
  BY <1>1, <1>2, TidyMove
<1>4. eager \in [Nodes -> SUBSET Nodes] /\ eager' = [eager EXCEPT ![n] = @ \ {p}]
  BY <1>2 DEF MoveTo, TypeInv, LinksTyped
<1> HIDE DEF p, n
<1>a. wire' = (wire \ {w}) \cup {PruneMsg(n, p)}
  BY <1>1, <1>2 DEF Sent, PruneMsgs, PruneMsg
<1>5. Without(LinksOf(eager'), LinksOf(eager), n, p)
  BY <1>1, <1>4 DEF Without, LinksOf
<1>6. /\ Without(Pushed(wire', m), Pushed(wire, m), p, n) /\ <<p, n>> \in Pushed(wire, m)
      /\ With(Pruned(wire'), Pruned(wire), n, p)
  <2>1. Without(Pushed(wire', m), Pushed(wire, m), p, n)
    BY <1>1, <1>a, MailDistinct DEF Without, Pushed
  <2>2. With(Pruned(wire'), Pruned(wire), n, p)
    BY <1>1, <1>a, MailDistinct DEF With, Pruned
  <2> QED
    BY <1>1, <2>1, <2>2 DEF Pushed
<1>7. Asked(wire', m) = Asked(wire, m) /\ Announced(wire', m) = Announced(wire, m)
  BY <1>1, <1>a, MailDistinct DEF Asked, Announced
<1>8. Formed(m, o, par, rank, old)'
  <2>1. Formed(m, o, par, rank, old) /\ n \in Holders(received, m)
    BY <1>1, <1>2 DEF Growing, Holders, Has
  <2>2. Shape(Holders(received, m), LinksOf(eager'), Pushed(wire', m), Pruned(wire'), Asked(wire, m),
              Announced(wire, m), Queued(lazyQueue, m), Noted(ihaveFrom, m), Busy(jobs), o, par, rank, old)
    BY <1>1, <1>5, <1>6, <2>1, ShapeRedundant DEF Formed
  <2> QED
    BY <1>2, <1>7, <2>2 DEF Formed
<1>9. MailAbout(wire', start.neighbors, m)
  BY <1>0, <1>1, <1>a DEF MailAbout
<1> QED
  BY <1>2, <1>3, <1>8, <1>9 DEF Growing, About

\* A GRAFT, which the asked node answers with the message.
LEMMA GrowGraft ==
    ASSUME TypeInv, Tidy, up = Nodes, NEW m, NEW o, NEW par, NEW rank, NEW old,
           Growing(m, o, par, rank, old), NEW w \in wire, OnGraft(w)
    PROVE  Tidy' /\ Growing(m, o, par, rank, old)'
<1> DEFINE n == w.src
           p == w.dst
<1>0. MailAbout(wire, start.neighbors, m) /\ m \in Mids
  BY DEF Growing, About
<1>1. /\ p \in Nodes /\ n \in Nodes /\ p # n /\ p \in start.neighbors[n] /\ n \in start.neighbors[p]
      /\ w = GraftMsg(n, p, m) /\ w.mid = m /\ w.type = "graft"
  BY <1>0, MailFields DEF OnGraft, Handles
<1>2. /\ wire' = Sent(wire \ {w}, GraftAnswer(p, n, w.mid)) /\ MoveTo(p, eager, lazy, n)
      /\ UNCHANGED <<start, up, received, missing, ihaveFrom, lazyQueue, jobs, origin>>
  BY DEF OnGraft
<1>3. Tidy'
  BY <1>1, <1>2, TidyMove
<1>4. eager \in [Nodes -> SUBSET Nodes] /\ eager' = [eager EXCEPT ![p] = @ \cup {n}]
  BY <1>2 DEF MoveTo, TypeInv, LinksTyped
<1> HIDE DEF p, n
<1>a. Formed(m, o, par, rank, old) /\ <<p, n>> \in Asked(wire, m)
  BY <1>1 DEF Growing, Asked
<1>b. Has(p, m)
  BY <1>1, <1>a DEF Formed, Shape, Silent, Holders, Has
<1>c. wire' = (wire \ {w}) \cup {GossipMsg(p, n, m)}
  BY <1>1, <1>2, <1>b DEF Sent, GraftAnswer, GossipMsg
<1>5. With(LinksOf(eager'), LinksOf(eager), p, n)
  BY <1>1, <1>4 DEF With, LinksOf
<1>6. With(Pushed(wire', m), Pushed(wire, m), p, n) /\ Shrunk(Asked(wire', m), Asked(wire, m), p, n)
  BY <1>1, <1>c, MailDistinct DEF With, Shrunk, Asked, Pushed
<1>7. Pruned(wire') = Pruned(wire) /\ Announced(wire', m) = Announced(wire, m)
  <2>1. Pruned(wire') = Pruned(wire)
    BY <1>1, <1>c, MailDistinct DEF Pruned
  <2>2. Announced(wire', m) = Announced(wire, m)
    BY <1>1, <1>c, MailDistinct DEF Announced
  <2> QED
    BY <2>1, <2>2
<1>8. Formed(m, o, par, rank, old)'
  <2>2. Shape(Holders(received, m), LinksOf(eager'), Pushed(wire', m), Pruned(wire), Asked(wire', m),
              Announced(wire, m), Queued(lazyQueue, m), Noted(ihaveFrom, m), Busy(jobs), o, par, rank, old)
    BY <1>1, <1>5, <1>6, <1>a, ShapeGraft DEF Formed
  <2> QED
    BY <1>2, <1>7, <2>2 DEF Formed
<1>9. MailAbout(wire', start.neighbors, m)
  BY <1>0, <1>1, <1>c DEF MailAbout
<1> QED
  BY <1>2, <1>3, <1>8, <1>9 DEF Growing, About

\* A sequence without duplicates that gets a new member ...
LEMMA AppendNew ==
    ASSUME NEW S, NEW s \in Seq(S), NEW p \in S, p \notin ToSet(s),
           \A i, k \in 1..Len(s) : s[i] = s[k] => i = k
    PROVE  /\ ToSet(Append(s, p)) = ToSet(s) \cup {p}
           /\ \A i, k \in 1..Len(Append(s, p)) : Append(s, p)[i] = Append(s, p)[k] => i = k
<1> DEFINE t == Append(s, p)
<1>1. t \in Seq(S) /\ Len(t) = Len(s) + 1 /\ t[Len(s) + 1] = p /\ \A i \in 1..Len(s) : t[i] = s[i]
  OBVIOUS
<1>2. \A i \in 1..Len(s) : s[i] # p
  BY DEF ToSet
<1>3. ToSet(t) = {t[i] : i \in 1..Len(t)} /\ ToSet(s) = {s[i] : i \in 1..Len(s)}
  <2> HIDE DEF t
  <2> QED
    BY <1>1 DEF ToSet
<1>4. 1..Len(t) = 1..Len(s) \cup {Len(s) + 1}
  BY <1>1
<1> HIDE DEF t
<1>5. \A i, k \in 1..Len(t) : t[i] = t[k] => i = k
  BY <1>1, <1>2, <1>4
<1>6. ToSet(t) = ToSet(s) \cup {p}
  BY <1>1, <1>3, <1>4
<1> QED
  BY <1>5, <1>6 DEF t

\* ... or loses its first.
LEMMA TailLess ==
    ASSUME NEW S, NEW s \in Seq(S), s # <<>>, \A i, k \in 1..Len(s) : s[i] = s[k] => i = k
    PROVE  /\ Head(s) \in ToSet(s) /\ ToSet(Tail(s)) = ToSet(s) \ {Head(s)}
           /\ \A i, k \in 1..Len(Tail(s)) : Tail(s)[i] = Tail(s)[k] => i = k
<1> DEFINE t == Tail(s)
<1>1. /\ t \in Seq(S) /\ Len(t) = Len(s) - 1 /\ Len(s) \in Nat \ {0} /\ \A i \in 1..Len(t) : t[i] = s[i + 1]
      /\ Head(s) = s[1]
  OBVIOUS
<1> HIDE DEF t
<1>3. ToSet(t) = {t[i] : i \in 1..Len(t)} /\ ToSet(s) = {s[i] : i \in 1..Len(s)}
  BY <1>1 DEF ToSet
<1>4. ASSUME NEW i \in 1..Len(t) PROVE i + 1 \in 1..Len(s) /\ i + 1 # 1 /\ t[i] = s[i + 1]
  BY <1>1
<1>5. \A i, k \in 1..Len(t) : t[i] = t[k] => i = k
  BY <1>4
<1>6. ASSUME NEW i \in 1..Len(s), i # 1 PROVE i - 1 \in 1..Len(t) /\ t[i - 1] = s[i]
  BY <1>1, <1>6
<1>7. 1 \in 1..Len(s)
  BY <1>1
<1>8. ToSet(t) \subseteq ToSet(s) \ {Head(s)}
  BY <1>1, <1>3, <1>4, <1>7
<1>9. ToSet(s) \ {Head(s)} \subseteq ToSet(t)
  BY <1>1, <1>3, <1>6
<1> QED
  BY <1>1, <1>3, <1>5, <1>7, <1>8, <1>9 DEF t

\* An IHAVE.
LEMMA GrowIhave ==
    ASSUME TypeInv, Tidy, NEW m, NEW o, NEW par, NEW rank, NEW old,
           Growing(m, o, par, rank, old), NEW w \in wire, OnIhave(w)
    PROVE  Tidy' /\ Growing(m, o, par, rank, old)'
<1> DEFINE p == w.src
           n == w.dst
           s == ihaveFrom[n][m]
<1>0. MailAbout(wire, start.neighbors, m) /\ m \in Mids /\ origin[m] # {}
      /\ WaitAbout(missing, ihaveFrom, start.neighbors, m)
  BY DEF Growing, About
<1>1. /\ p \in Nodes /\ n \in Nodes /\ p # n /\ p \in start.neighbors[n]
      /\ w = IhaveMsg(p, n, m) /\ w.ids = {m} /\ w.type = "ihave"
  BY <1>0, MailFields DEF OnIhave, Handles
<1>2. /\ wire' = wire \ {w}
      /\ UNCHANGED <<start, up, eager, lazy, received, lazyQueue, jobs, origin>>
  BY DEF OnIhave
<1>3. /\ missing' = [missing EXCEPT ![n] =
            [i \in Mids |-> IF i \in {k \in {m} : ~Has(n, k)} /\ @[i] = -1 THEN 0 ELSE @[i]]]
      /\ ihaveFrom' = [ihaveFrom EXCEPT ![n] =
            [i \in Mids |-> IF i \in {k \in {m} : ~Has(n, k)} /\ p \notin ToSet(@[i]) THEN Append(@[i], p)
                                                                                  ELSE @[i]]]
  BY <1>1 DEF OnIhave
<1>4. /\ missing \in [Nodes -> [Mids -> -1..GraftTimeout]] /\ ihaveFrom \in [Nodes -> [Mids -> Seq(Nodes)]]
      /\ \A x \in Nodes, k \in Mids : ihaveFrom[x][k] \in Seq(Nodes \ {x})
  BY DEF TypeInv, WaitTyped
<1> HIDE DEF p, n
<1>5. \A x \in Nodes, k \in Mids : x # n \/ k # m => missing'[x][k] = missing[x][k]
                                                    /\ ihaveFrom'[x][k] = ihaveFrom[x][k]
  BY <1>1, <1>3, <1>4
<1>6. ihaveFrom'[n][m] = s \/ (ihaveFrom'[n][m] = Append(s, p) /\ p \notin ToSet(s))
  BY <1>0, <1>1, <1>3, <1>4
<1>7. Tidy'
  BY <1>0, <1>2, <1>5 DEF Tidy
<1>8. /\ ToSet(ihaveFrom'[n][m]) \subseteq ToSet(s) \cup {p}
      /\ \A i, k \in 1..Len(ihaveFrom'[n][m]) : ihaveFrom'[n][m][i] = ihaveFrom'[n][m][k] => i = k
  <2>1. s \in Seq(Nodes \ {n}) /\ p \in Nodes \ {n}
    BY <1>0, <1>1, <1>4
  <2>2. \A i, k \in 1..Len(s) : s[i] = s[k] => i = k
    BY <1>0, <1>1 DEF WaitAbout
  <2> HIDE DEF s
  <2>3. CASE ihaveFrom'[n][m] = s
    BY <2>2, <2>3
  <2>4. CASE ihaveFrom'[n][m] = Append(s, p) /\ p \notin ToSet(s)
    BY <2>1, <2>2, <2>4, AppendNew
  <2> QED
    BY <1>6, <2>3, <2>4
<1>9. WaitAbout(missing', ihaveFrom', start.neighbors, m)
  <2> SUFFICES ASSUME NEW x \in Nodes
               PROVE  /\ \A k \in Mids \ {m} : missing'[x][k] = -1
                      /\ ToSet(ihaveFrom'[x][m]) \subseteq start.neighbors[x]
                      /\ \A i, k \in 1..Len(ihaveFrom'[x][m]) :
                           ihaveFrom'[x][m][i] = ihaveFrom'[x][m][k] => i = k
    BY DEF WaitAbout
  <2>1. \A k \in Mids \ {m} : missing'[x][k] = -1
    BY <1>0, <1>5 DEF WaitAbout
  <2>2. CASE x = n
    <3>1. ToSet(s) \subseteq start.neighbors[n]
      BY <1>0, <1>1 DEF WaitAbout
    <3> QED
      BY <1>1, <1>8, <2>1, <2>2, <3>1
  <2>3. CASE x # n
    <3>1. ihaveFrom'[x][m] = ihaveFrom[x][m]
      BY <1>0, <1>5, <2>3
    <3> QED
      BY <1>0, <2>1, <3>1 DEF WaitAbout
  <2> QED
    BY <2>2, <2>3
<1>10. Grown(Noted(ihaveFrom', m), Noted(ihaveFrom, m), p, n)
  <2> SUFFICES ASSUME NEW x \in Nodes, NEW y \in Nodes, x \in ToSet(ihaveFrom'[y][m])
               PROVE  x \in ToSet(ihaveFrom[y][m]) \/ (x = p /\ y = n)
    BY DEF Grown, Noted
  <2> QED
    BY <1>0, <1>5, <1>8
<1>11. Shrunk(Announced(wire', m), Announced(wire, m), p, n) /\ <<p, n>> \in Announced(wire, m)
  BY <1>1, <1>2, MailDistinct DEF Shrunk, Announced
<1>12. Pushed(wire', m) = Pushed(wire, m) /\ Asked(wire', m) = Asked(wire, m) /\ Pruned(wire') = Pruned(wire)
  <2>0. \A x, y \in Nodes : GossipMsg(x, y, m) # w
    BY <1>1, MailDistinct
  <2>1. Pushed(wire', m) = Pushed(wire, m)
    BY <1>2, <2>0 DEF Pushed
  <2>2. Asked(wire', m) = Asked(wire, m)
    BY <1>1, <1>2, MailDistinct DEF Asked
  <2>3. Pruned(wire') = Pruned(wire)
    BY <1>1, <1>2, MailDistinct DEF Pruned
  <2> QED
    BY <2>1, <2>2, <2>3
<1>13. Formed(m, o, par, rank, old)'
  <2>1. Formed(m, o, par, rank, old)
    BY DEF Growing
  <2>2. Shape(Holders(received, m), LinksOf(eager), Pushed(wire, m), Pruned(wire), Asked(wire, m),
              Announced(wire', m), Queued(lazyQueue, m), Noted(ihaveFrom', m), Busy(jobs), o, par, rank, old)
    BY <1>1, <1>10, <1>11, <2>1, ShapeIhave DEF Formed
  <2> QED
    BY <1>2, <1>12, <2>2 DEF Formed
<1>14. MailAbout(wire', start.neighbors, m)
  BY <1>0, <1>2 DEF MailAbout
<1> QED
  BY <1>2, <1>7, <1>9, <1>13, <1>14 DEF Growing, About

\* While every neighbour runs and is linked, there is nothing to synchronise.
LEMMA SameLinks ==
    ASSUME TypeInv, Tidy, up = Nodes, NEW n \in Nodes
    PROVE  SyncEager(n) = eager[n] /\ SyncLazy(n) = lazy[n]
<1>1. start.neighbors[n] \subseteq Nodes
  BY StartsAssumption DEF TypeInv, LinksTyped, Start
<1>2. eager[n] \cup lazy[n] = start.neighbors[n] /\ eager[n] \cap lazy[n] = {}
  BY DEF Tidy, TypeInv, LinksTyped
<1> QED
  BY <1>1, <1>2 DEF SyncEager, SyncLazy, Neighbors

\* _lazy_push.
LEMMA GrowLazyPush ==
    ASSUME TypeInv, Tidy, NEW m, NEW o, NEW par, NEW rank, NEW old,
           Growing(m, o, par, rank, old), NEW j \in jobs, LazyPush(j)
    PROVE  Tidy' /\ Growing(m, o, par, rank, old)'
<1> DEFINE p == j.node
<1>0. JobsAbout(jobs, m) /\ QueueAbout(lazyQueue, start.neighbors, m) /\ m \in Mids
  BY DEF Growing, About
<1>1. p \in Nodes /\ j.then = "announce" /\ j.mid = m
  BY <1>0 DEF LazyPush, JobsAbout, TypeInv, Job
<1>2. /\ lazyQueue' = [lazyQueue EXCEPT ![p] = @ \cup ((lazy[p] \ j.sender) \X {m})] /\ jobs' = jobs \ {j}
      /\ UNCHANGED <<start, up, eager, lazy, received, missing, ihaveFrom, wire, origin>>
  BY <1>1 DEF LazyPush
<1>3. /\ lazyQueue \in [Nodes -> SUBSET (Nodes \X Mids)] /\ lazy[p] \subseteq Nodes
      /\ lazy[p] \subseteq start.neighbors[p] /\ lazy[p] \cap eager[p] = {}
  BY <1>1 DEF TypeInv, QueueTyped, LinksTyped, Tidy
<1> HIDE DEF p
<1>4. Tidy'
  BY <1>2 DEF Tidy
<1>5. QueueAbout(lazyQueue', start.neighbors, m)
  BY <1>0, <1>1, <1>2, <1>3 DEF QueueAbout
<1>6. JobsAbout(jobs', m)
  BY <1>0, <1>2 DEF JobsAbout
<1>7. Busy(jobs') \subseteq Busy(jobs) \ {p} /\ p \in Busy(jobs)
  BY <1>0, <1>1, <1>2 DEF Busy, JobsAbout, p
<1>8. \A x, y \in Nodes : <<x, y>> \in Queued(lazyQueue', m) =>
          <<x, y>> \in Queued(lazyQueue, m) \/ (x = p /\ <<p, y>> \notin LinksOf(eager))
  <2> SUFFICES ASSUME NEW x \in Nodes, NEW y \in Nodes, <<y, m>> \in lazyQueue'[x]
               PROVE  <<y, m>> \in lazyQueue[x] \/ (x = p /\ y \notin eager[p])
    BY <1>1 DEF Queued, LinksOf
  <2> QED
    BY <1>1, <1>2, <1>3
<1>9. Formed(m, o, par, rank, old)'
  <2>1. Formed(m, o, par, rank, old)
    BY DEF Growing
  <2>2. Shape(Holders(received, m), LinksOf(eager), Pushed(wire, m), Pruned(wire), Asked(wire, m),
              Announced(wire, m), Queued(lazyQueue', m), Noted(ihaveFrom, m), Busy(jobs'), o, par, rank, old)
    BY <1>1, <1>7, <1>8, <2>1, ShapeLazyPush DEF Formed
  <2> QED
    BY <1>2, <2>2 DEF Formed
<1> QED
  BY <1>2, <1>4, <1>5, <1>6, <1>9 DEF Growing, About

\* Neighbourhood is mutual, and leads from every node to every other.
Overlay ==
    \A s \in Starts : /\ \A x, y \in Nodes : y \in s.neighbors[x] => x \in s.neighbors[y]
                      /\ Spans(LinksOf(s.neighbors))

\* A neighbour is another node, which has this one as a neighbour.
LEMMA Mutual ==
    ASSUME TypeInv, Overlay, NEW x \in Nodes, NEW y \in start.neighbors[x]
    PROVE  y \in Nodes /\ y # x /\ x \in start.neighbors[y]
<1>1. start \in Starts /\ start \in Start
  BY StartsAssumption DEF TypeInv, LinksTyped
<1>2. start.neighbors \in [Nodes -> SUBSET Nodes]
  BY <1>1 DEF Start
<1>3. y \in Nodes /\ y # x
  BY <1>1, <1>2, StartsAssumption
<1> QED
  BY <1>1, <1>3 DEF Overlay

\* The first half of a tick.
LEMMA GrowTick ==
    ASSUME TypeInv, Tidy, up = Nodes, Overlay, NEW m, NEW o, NEW par, NEW rank, NEW old,
           Growing(m, o, par, rank, old), NEW n \in Nodes, Tick(n)
    PROVE  Tidy' /\ Growing(m, o, par, rank, old)'
<1>0. /\ JobsAbout(jobs, m) /\ QueueAbout(lazyQueue, start.neighbors, m) /\ m \in Mids
      /\ MailAbout(wire, start.neighbors, m)
  BY DEF Growing, About
<1>1. /\ lazyQueue' = [lazyQueue EXCEPT ![n] = {}] /\ jobs' = jobs \cup {[node |-> n, then |-> "repair"]}
      /\ wire' = Sent(wire, IhaveMsgs(n))
      /\ UNCHANGED <<start, up, received, missing, ihaveFrom, origin>>
  BY DEF Tick
<1>2. eager' = eager /\ lazy' = lazy
  <2>1. eager' = [eager EXCEPT ![n] = eager[n]] /\ lazy' = [lazy EXCEPT ![n] = lazy[n]]
    BY SameLinks DEF Tick
  <2> QED
    BY <2>1 DEF TypeInv, LinksTyped
<1>3. lazyQueue \in [Nodes -> SUBSET (Nodes \X Mids)] /\ lazyQueue[n] \subseteq start.neighbors[n] \X {m}
  BY <1>0 DEF TypeInv, QueueTyped, QueueAbout
<1>4. ASSUME NEW w \in IhaveMsgs(n)
      PROVE  \E y \in start.neighbors[n] : w = IhaveMsg(n, y, m) /\ <<y, m>> \in lazyQueue[n]
  <2>1. PICK q \in lazyQueue[n] :
            w = [type |-> "ihave", src |-> n, dst |-> q[1], ids |-> {k \in Mids : <<q[1], k>> \in lazyQueue[n]}]
    BY <1>4 DEF IhaveMsgs
  <2>2. q[1] \in start.neighbors[n] /\ q = <<q[1], m>>
    BY <1>3, <2>1
  <2>3. {k \in Mids : <<q[1], k>> \in lazyQueue[n]} = {m}
    BY <1>0, <1>3, <2>1, <2>2
  <2> QED
    BY <2>1, <2>2, <2>3 DEF IhaveMsg
<1>5. wire' \subseteq wire \cup IhaveMsgs(n) /\ wire \subseteq wire'
  BY <1>1 DEF Sent
<1>6. Tidy'
  BY <1>1, <1>2 DEF Tidy
<1>7. MailAbout(wire', start.neighbors, m)
  <2>1. ASSUME NEW w \in IhaveMsgs(n)
        PROVE  \E x, y \in Nodes :
                 /\ x # y /\ y \in start.neighbors[x] /\ x \in start.neighbors[y]
                 /\ w \in {GossipMsg(x, y, m), PruneMsg(x, y), GraftMsg(x, y, m), IhaveMsg(x, y, m)}
    <3>1. PICK y \in start.neighbors[n] : w = IhaveMsg(n, y, m)
      BY <1>4, <2>1
    <3>2. y \in Nodes /\ y # n /\ n \in start.neighbors[y]
      BY Mutual
    <3> QED
      BY <3>1, <3>2
  <2> QED
    BY <1>0, <1>5, <2>1, MailStep
<1>8. QueueAbout(lazyQueue', start.neighbors, m)
  BY <1>0, <1>1, <1>3 DEF QueueAbout
<1>9. JobsAbout(jobs', m) /\ Busy(jobs') = Busy(jobs)
  <2>1. \A j \in jobs' : j.then = "announce" => j \in jobs
    BY <1>1
  <2>2. jobs \subseteq jobs'
    BY <1>1
  <2> QED
    BY <1>0, <2>1, <2>2 DEF JobsAbout, Busy
<1>10. \A x, y \in Nodes : <<x, y>> \in Queued(lazyQueue', m) => <<x, y>> \in Queued(lazyQueue, m) /\ x # n
  BY <1>1, <1>3 DEF Queued
<1>11. /\ Pushed(wire', m) = Pushed(wire, m) /\ Asked(wire', m) = Asked(wire, m) /\ Pruned(wire') = Pruned(wire)
       /\ \A x, y \in Nodes : <<x, y>> \in Announced(wire', m) =>
            <<x, y>> \in Announced(wire, m) \/ (x = n /\ <<n, y>> \in Queued(lazyQueue, m))
  <2>1. ASSUME NEW x \in Nodes, NEW y \in Nodes
        PROVE  /\ GossipMsg(x, y, m) \notin IhaveMsgs(n) /\ GraftMsg(y, x, m) \notin IhaveMsgs(n)
               /\ PruneMsg(x, y) \notin IhaveMsgs(n)
               /\ IhaveMsg(x, y, m) \in IhaveMsgs(n) => x = n /\ <<y, m>> \in lazyQueue[n]
    <3>1. ASSUME NEW w \in IhaveMsgs(n)
          PROVE  /\ w # GossipMsg(x, y, m) /\ w # GraftMsg(y, x, m) /\ w # PruneMsg(x, y)
                 /\ w = IhaveMsg(x, y, m) => x = n /\ <<y, m>> \in lazyQueue[n]
      <4>1. PICK z \in start.neighbors[n] : w = IhaveMsg(n, z, m) /\ <<z, m>> \in lazyQueue[n]
        BY <1>4, <3>1
      <4>2. z \in Nodes
        BY Mutual
      <4> QED
        BY <4>1, <4>2, MailDistinct
    <3> QED
      BY <3>1
  <2>2. Pushed(wire', m) = Pushed(wire, m)
    BY <1>5, <2>1 DEF Pushed
  <2>3. Asked(wire', m) = Asked(wire, m)
    BY <1>5, <2>1 DEF Asked
  <2>4. Pruned(wire') = Pruned(wire)
    BY <1>5, <2>1 DEF Pruned
  <2>5. \A x, y \in Nodes : <<x, y>> \in Announced(wire', m) =>
            <<x, y>> \in Announced(wire, m) \/ (x = n /\ <<n, y>> \in Queued(lazyQueue, m))
    BY <1>5, <2>1 DEF Announced, Queued
  <2> QED
    BY <2>2, <2>3, <2>4, <2>5
<1>12. Formed(m, o, par, rank, old)'
  <2>1. Formed(m, o, par, rank, old)
    BY DEF Growing
  <2>2. Shape(Holders(received, m), LinksOf(eager), Pushed(wire, m), Pruned(wire), Asked(wire, m),
              Announced(wire', m), Queued(lazyQueue', m), Noted(ihaveFrom, m), Busy(jobs), o, par, rank, old)
    BY <1>10, <1>11, <2>1, ShapeTick DEF Formed
  <2> QED
    BY <1>1, <1>2, <1>9, <1>11, <2>2 DEF Formed
<1> QED
  BY <1>1, <1>2, <1>6, <1>7, <1>8, <1>9, <1>12 DEF Growing, About

\* The second half of a tick.
LEMMA GrowGraftMissing ==
    ASSUME TypeInv, Tidy, up = Nodes, Overlay, NEW m, NEW o, NEW par, NEW rank, NEW old,
           Growing(m, o, par, rank, old), NEW j \in jobs, NEW S \in SUBSET Mids, GraftMissing(j, S)
    PROVE  Tidy' /\ Growing(m, o, par, rank, old)'
<1> DEFINE n == j.node
           s == ihaveFrom[n][m]
           p == Head(s)
           G == S \cap Grafts(n)
<1>0. /\ JobsAbout(jobs, m) /\ m \in Mids /\ origin[m] # {} /\ MailAbout(wire, start.neighbors, m)
      /\ WaitAbout(missing, ihaveFrom, start.neighbors, m)
  BY DEF Growing, About
<1>1. n \in Nodes /\ j.then \in {"repair", "graft"}
  BY DEF GraftMissing, TypeInv, Job
<1>2. /\ missing' = [missing EXCEPT ![n] = [k \in Mids |-> IF k \in S THEN Waited(n, k) ELSE @[k]]]
      /\ ihaveFrom' = [ihaveFrom EXCEPT ![n] = [k \in Mids |-> IF k \in G THEN Tail(@[k]) ELSE @[k]]]
      /\ eager' = [eager EXCEPT ![n] = @ \cup {Head(ihaveFrom[n][k]) : k \in G}]
      /\ lazy' = [lazy EXCEPT ![n] = @ \ {Head(ihaveFrom[n][k]) : k \in G}]
      /\ wire' = Sent(wire, {[type |-> "graft", src |-> n, dst |-> Head(ihaveFrom[n][k]), mid |-> k] :
                               k \in G})
      /\ jobs' = (jobs \ {j}) \cup
            {[node |-> n, then |-> "graft", todo |-> T] : T \in {Todo(j) \ S} \ {{}}}
      /\ UNCHANGED <<start, up, received, lazyQueue, origin>>
  BY DEF GraftMissing
<1>3. /\ missing \in [Nodes -> [Mids -> -1..GraftTimeout]] /\ ihaveFrom \in [Nodes -> [Mids -> Seq(Nodes)]]
      /\ s \in Seq(Nodes \ {n}) /\ eager \in [Nodes -> SUBSET Nodes] /\ lazy \in [Nodes -> SUBSET Nodes]
  BY <1>0, <1>1 DEF TypeInv, WaitTyped, LinksTyped
<1> HIDE DEF n, s, G
<1>4. \A x \in Nodes : \A k \in Mids \ {m} : missing'[x][k] = -1
  BY <1>0, <1>1, <1>2, <1>3 DEF WaitAbout, Waited
<1>5. G \subseteq {m}
  BY <1>0, <1>1 DEF G, Grafts, Due, WaitAbout
<1>6. JobsAbout(jobs', m) /\ Busy(jobs') = Busy(jobs)
  <2>1. \A i \in jobs : i.then = "announce" => i \in jobs'
    BY <1>1, <1>2
  <2>2. \A i \in jobs' : i.then = "announce" => i \in jobs
    BY <1>2
  <2> QED
    BY <1>0, <2>1, <2>2 DEF JobsAbout, Busy
<1>7. Formed(m, o, par, rank, old)
  BY DEF Growing
<1>8. CASE G = {}
  <2>1. eager' = eager /\ lazy' = lazy /\ wire' = wire
    BY <1>1, <1>2, <1>3, <1>8 DEF Sent
  <2>2. ihaveFrom' = ihaveFrom
    <3>1. ihaveFrom' = [ihaveFrom EXCEPT ![n] = [k \in Mids |-> ihaveFrom[n][k]]]
      BY <1>1, <1>2, <1>3, <1>8
    <3>2. ihaveFrom[n] = [k \in Mids |-> ihaveFrom[n][k]]
      BY <1>1, <1>3
    <3> QED
      BY <1>1, <1>3, <3>1, <3>2
  <2>3. Tidy'
    BY <1>2, <2>1, <2>2 DEF Tidy
  <2>4. WaitAbout(missing', ihaveFrom', start.neighbors, m)
    BY <1>0, <1>4, <2>2 DEF WaitAbout
  <2>5. Formed(m, o, par, rank, old)'
    BY <1>2, <1>6, <1>7, <2>1, <2>2 DEF Formed
  <2> QED
    BY <1>2, <1>6, <2>1, <2>3, <2>4, <2>5 DEF Growing, About
<1>9. CASE G = {m}
  <2>1. ~Has(n, m) /\ s # <<>>
    BY <1>9 DEF G, Grafts, Due, s
  <2>2. \A i, k \in 1..Len(s) : s[i] = s[k] => i = k
    BY <1>0, <1>1 DEF WaitAbout, s
  <2>3. /\ p \in ToSet(s) /\ ToSet(Tail(s)) = ToSet(s) \ {p}
        /\ \A i, k \in 1..Len(Tail(s)) : Tail(s)[i] = Tail(s)[k] => i = k
    BY <1>3, <2>1, <2>2, TailLess
  <2>4. ToSet(s) \subseteq start.neighbors[n]
    BY <1>0, <1>1 DEF WaitAbout, s
  <2>5. p \in start.neighbors[n] /\ p \in Nodes /\ p # n /\ n \in start.neighbors[p]
    BY <1>1, <2>3, <2>4, Mutual
  <2>6. /\ eager' = [eager EXCEPT ![n] = @ \cup {p}] /\ lazy' = [lazy EXCEPT ![n] = @ \ {p}]
        /\ wire' = wire \cup {GraftMsg(n, p, m)}
    <3>1. {Head(ihaveFrom[n][k]) : k \in G} = {p}
      BY <1>9 DEF s
    <3>2. {[type |-> "graft", src |-> n, dst |-> Head(ihaveFrom[n][k]), mid |-> k] : k \in G}
            = {GraftMsg(n, p, m)}
      BY <1>9 DEF GraftMsg, s
    <3>3. wire' = wire \cup {w \in {GraftMsg(n, p, m)} : w.dst \in up}
      BY <1>2, <3>2 DEF Sent
    <3>4. GraftMsg(n, p, m).dst \in up
      BY <2>5 DEF GraftMsg
    <3> HIDE DEF p
    <3>5. wire' = wire \cup {GraftMsg(n, p, m)}
      BY <3>3, <3>4
    <3> QED
      BY <1>2, <3>1, <3>5
  <2>7. ihaveFrom'[n][m] = Tail(s)
    BY <1>0, <1>1, <1>2, <1>3, <1>9 DEF s
  <2>8. \A x \in Nodes, k \in Mids : x # n \/ k # m => ihaveFrom'[x][k] = ihaveFrom[x][k]
    BY <1>1, <1>2, <1>3, <1>9
  <2> HIDE DEF p
  <2>9. Tidy'
    <3>1. \A x \in Nodes : eager'[x] \cup lazy'[x] = start.neighbors[x]
      BY <1>1, <1>3, <2>5, <2>6 DEF Tidy
    <3>2. \A k \in Mids : origin[k] = {} => \A x \in Nodes : ihaveFrom'[x][k] = <<>>
      BY <1>0, <2>8 DEF Tidy
    <3> QED
      BY <1>2, <3>1, <3>2 DEF Tidy
  <2>10. WaitAbout(missing', ihaveFrom', start.neighbors, m)
    <3> SUFFICES ASSUME NEW x \in Nodes
                 PROVE  /\ ToSet(ihaveFrom'[x][m]) \subseteq start.neighbors[x]
                        /\ \A i, k \in 1..Len(ihaveFrom'[x][m]) :
                             ihaveFrom'[x][m][i] = ihaveFrom'[x][m][k] => i = k
      BY <1>4 DEF WaitAbout
    <3>1. CASE x = n
      <4>1. PICK t : t = Tail(s)
        OBVIOUS
      <4>2. ToSet(t) \subseteq start.neighbors[n] /\ \A i, k \in 1..Len(t) : t[i] = t[k] => i = k
        BY <2>3, <2>4, <4>1
      <4>3. ihaveFrom'[x][m] = t
        BY <2>7, <3>1, <4>1
      <4> QED
        BY <3>1, <4>2, <4>3
    <3>2. CASE x # n
      <4>1. ihaveFrom'[x][m] = ihaveFrom[x][m]
        BY <1>0, <2>8, <3>2
      <4> QED
        BY <1>0, <4>1 DEF WaitAbout
    <3> QED
      BY <3>1, <3>2
  <2>11. MailAbout(wire', start.neighbors, m)
    BY <1>0, <1>1, <2>5, <2>6 DEF MailAbout
  <2>12. With(LinksOf(eager'), LinksOf(eager), n, p)
    BY <1>1, <1>3, <2>5, <2>6 DEF With, LinksOf
  <2>13. Grown(Asked(wire', m), Asked(wire, m), p, n)
    BY <1>1, <2>5, <2>6, MailDistinct DEF Grown, Asked
  <2>14. Shrunk(Noted(ihaveFrom', m), Noted(ihaveFrom, m), p, n) /\ <<p, n>> \in Noted(ihaveFrom, m)
    <3>1. ASSUME NEW x \in Nodes, NEW y \in Nodes, x \in ToSet(ihaveFrom'[y][m])
          PROVE  x \in ToSet(ihaveFrom[y][m]) /\ ~(x = p /\ y = n)
      BY <1>0, <2>3, <2>7, <2>8, <3>1 DEF s
    <3> QED
      BY <1>1, <2>3, <2>5, <3>1 DEF Shrunk, Noted, s
  <2>15. Pushed(wire', m) = Pushed(wire, m)
    BY <1>1, <2>5, <2>6, MailDistinct DEF Pushed
  <2>16. Pruned(wire') = Pruned(wire)
    BY <1>1, <2>5, <2>6, MailDistinct DEF Pruned
  <2>17. Announced(wire', m) = Announced(wire, m)
    BY <1>1, <2>5, <2>6, MailDistinct DEF Announced
  <2>18. n \notin Holders(received, m)
    BY <2>1 DEF Holders, Has
  <2>19. Shape(Holders(received, m), LinksOf(eager'), Pushed(wire, m), Pruned(wire), Asked(wire', m),
               Announced(wire, m), Queued(lazyQueue, m), Noted(ihaveFrom', m), Busy(jobs), o, par, rank, old)
    BY <1>1, <1>7, <2>5, <2>12, <2>13, <2>14, <2>18, ShapeGraftMissing DEF Formed
  <2>20. Formed(m, o, par, rank, old)'
    BY <1>2, <1>6, <2>15, <2>16, <2>17, <2>19 DEF Formed
  <2> QED
    BY <1>2, <1>6, <2>9, <2>10, <2>11, <2>20 DEF Growing, About
<1> QED
  BY <1>5, <1>8, <1>9

\* _record, _deliver and _eager_push, for a message that the node lacks.
LEMMA AcceptParts ==
    ASSUME OnceInv, CacheHoldsAll, up = Nodes, NEW n \in Nodes, NEW m \in Mids, ~Has(n, m),
           NEW sender, NEW push \in SUBSET Nodes, NEW W, Accept(n, m, sender, push, W)
    PROVE  /\ Holders(received', m) = Holders(received, m) \cup {n}
           /\ wire' = W \cup {GossipMsg(n, y, m) : y \in push \ sender}
           /\ jobs' = jobs \cup {[node |-> n, then |-> "announce", mid |-> m, sender |-> sender]}
<1>1. received' = [received EXCEPT ![n] = Record(received[n], m)]
  BY DEF Accept
<1>2. received \in [Nodes -> Seq(Mids)] /\ Len(received[n]) <= CacheCap
  BY DEF OnceInv, TypeInv, CacheTyped
<1>3. ToSet(Record(received[n], m)) = ToSet(received[n]) \cup {m}
  BY <1>2, RoomForNew DEF OnceInv, CachedOnce, Has
<1>4. Holders(received', m) = Holders(received, m) \cup {n}
  <2>1. \A x \in Nodes : m \in ToSet(received'[x]) <=> m \in ToSet(received[x]) \/ x = n
    BY <1>1, <1>2, <1>3
  <2> QED
    BY <2>1 DEF Holders
<1>5. wire' = W \cup {GossipMsg(n, y, m) : y \in push \ sender}
  <2> DEFINE msgs == {GossipMsg(n, y, m) : y \in push \ sender}
  <2>1. \A g \in msgs : g.dst \in up
    BY DEF GossipMsg
  <2>2. wire' = W \cup {g \in msgs : g.dst \in up}
    BY DEF Accept, Sent
  <2> HIDE DEF msgs
  <2>3. wire' = W \cup msgs
    BY <2>1, <2>2
  <2> QED
    BY <2>3 DEF msgs
<1> QED
  BY <1>4, <1>5 DEF Accept

\* A first copy.
LEMMA GrowAccept ==
    ASSUME OnceInv, CacheHoldsAll, Tidy, up = Nodes, Overlay, NEW m, NEW o, NEW par, NEW rank, NEW old,
           Growing(m, o, par, rank, old), NEW w \in wire, OnGossip(w)
    PROVE  Tidy' /\ \E par1, rank1 : Growing(m, o, par1, rank1, old)'
<1> DEFINE p == w.src
           n == w.dst
           job == [node |-> n, then |-> "announce", mid |-> m, sender |-> {p}]
<1>0. /\ MailAbout(wire, start.neighbors, m) /\ m \in Mids /\ origin[m] # {} /\ JobsAbout(jobs, m)
      /\ WaitAbout(missing, ihaveFrom, start.neighbors, m) /\ Formed(m, o, par, rank, old)
  BY DEF Growing, About
<1>1. /\ p \in Nodes /\ n \in Nodes /\ p # n /\ p \in start.neighbors[n] /\ n \in start.neighbors[p]
      /\ w = GossipMsg(p, n, m) /\ w.mid = m /\ w.type = "gossip"
  BY <1>0, MailFields DEF OnGossip, Handles
<1>2. /\ missing' = [missing EXCEPT ![n][m] = -1] /\ ihaveFrom' = [ihaveFrom EXCEPT ![n][m] = <<>>]
      /\ eager' = [eager EXCEPT ![n] = @ \cup {p}] /\ lazy' = [lazy EXCEPT ![n] = @ \ {p}]
      /\ Accept(n, m, {p}, eager'[n], wire \ {w}) /\ ~Has(n, m)
      /\ UNCHANGED <<start, up, lazyQueue, origin>>
  BY <1>1 DEF OnGossip, MoveTo
<1>3. /\ missing \in [Nodes -> [Mids -> -1..GraftTimeout]] /\ ihaveFrom \in [Nodes -> [Mids -> Seq(Nodes)]]
      /\ eager \in [Nodes -> SUBSET Nodes] /\ lazy \in [Nodes -> SUBSET Nodes]
  BY DEF OnceInv, TypeInv, WaitTyped, LinksTyped
<1> HIDE DEF p, n
<1>4. eager'[n] \in SUBSET Nodes
  BY <1>1, <1>2, <1>3
<1>5. /\ Holders(received', m) = Holders(received, m) \cup {n}
      /\ wire' = (wire \ {w}) \cup {GossipMsg(n, y, m) : y \in eager'[n] \ {p}}
      /\ jobs' = jobs \cup {job}
  BY <1>0, <1>1, <1>2, <1>4, AcceptParts
<1>6. \A x \in Nodes : eager'[x] \cup lazy'[x] = start.neighbors[x]
  BY <1>1, <1>2, <1>3 DEF Tidy
<1>7. \A x \in Nodes, k \in Mids : x # n \/ k # m => missing'[x][k] = missing[x][k]
                                                    /\ ihaveFrom'[x][k] = ihaveFrom[x][k]
  BY <1>1, <1>2, <1>3
<1>8. missing'[n][m] = -1 /\ ihaveFrom'[n][m] = <<>>
  BY <1>0, <1>1, <1>2, <1>3
<1>9. Tidy'
  BY <1>0, <1>2, <1>6, <1>7 DEF Tidy
<1>10. ToSet(ihaveFrom'[n][m]) = {} /\ Len(ihaveFrom'[n][m]) = 0
  BY <1>8 DEF ToSet
<1>11. WaitAbout(missing', ihaveFrom', start.neighbors, m)
  <2> SUFFICES ASSUME NEW x \in Nodes
               PROVE  /\ \A k \in Mids \ {m} : missing'[x][k] = -1
                      /\ ToSet(ihaveFrom'[x][m]) \subseteq start.neighbors[x]
                      /\ \A i, k \in 1..Len(ihaveFrom'[x][m]) :
                           ihaveFrom'[x][m][i] = ihaveFrom'[x][m][k] => i = k
    BY DEF WaitAbout
  <2>1. \A k \in Mids \ {m} : missing'[x][k] = -1
    BY <1>0, <1>7 DEF WaitAbout
  <2>2. CASE x = n
    BY <1>10, <2>1, <2>2
  <2>3. CASE x # n
    <3>1. ihaveFrom'[x][m] = ihaveFrom[x][m]
      BY <1>0, <1>7, <2>3
    <3> QED
      BY <1>0, <2>1, <3>1 DEF WaitAbout
  <2> QED
    BY <2>2, <2>3
<1>12. AtMost(Noted(ihaveFrom', m), Noted(ihaveFrom, m))
  <2>1. ASSUME NEW x \in Nodes, NEW y \in Nodes, x \in ToSet(ihaveFrom'[y][m])
        PROVE  x \in ToSet(ihaveFrom[y][m])
    BY <1>0, <1>7, <1>10, <2>1
  <2> QED
    BY <2>1 DEF AtMost, Noted
<1>13. n \notin Holders(received, m) /\ n \notin Busy(jobs)
  <2>1. n \notin Holders(received, m)
    BY <1>2 DEF Holders, Has
  <2> QED
    BY <1>0, <1>1, <2>1 DEF Formed, Shape, Silent
<1>14. JobsAbout(jobs', m) /\ Busy(jobs') \subseteq Busy(jobs) \cup {n}
  <2>1. job.then = "announce" /\ job.node = n /\ job.mid = m
    OBVIOUS
  <2>2. \A j \in jobs : j.then = "announce" => j.node # n
    BY <1>1, <1>13 DEF Busy
  <2> HIDE DEF job
  <2>3. JobsAbout(jobs', m)
    BY <1>0, <1>5, <2>1, <2>2 DEF JobsAbout
  <2> QED
    BY <1>5, <2>1, <2>3 DEF Busy
<1>15. MailAbout(wire', start.neighbors, m)
  <2>1. ASSUME NEW y \in eager'[n]
        PROVE  y \in Nodes /\ n # y /\ y \in start.neighbors[n] /\ n \in start.neighbors[y]
    BY <1>1, <1>6, <2>1, Mutual DEF OnceInv
  <2> DEFINE new == {GossipMsg(n, y, m) : y \in eager'[n] \ {p}}
  <2>2. \A g \in new : \E x, y \in Nodes :
               /\ x # y /\ y \in start.neighbors[x] /\ x \in start.neighbors[y]
               /\ g \in {GossipMsg(x, y, m), PruneMsg(x, y), GraftMsg(x, y, m), IhaveMsg(x, y, m)}
    BY <1>1, <2>1
  <2>3. wire' \subseteq wire \cup new
    BY <1>5
  <2> HIDE DEF new
  <2> QED
    BY <1>0, <2>2, <2>3, MailStep
<1>16. With(LinksOf(eager'), LinksOf(eager), n, p)
  BY <1>1, <1>2, <1>3 DEF With, LinksOf
<1>17. Forwarded(Pushed(wire', m), Pushed(wire, m), LinksOf(eager'), p, n)
  <2> SUFFICES ASSUME NEW x \in Nodes, NEW y \in Nodes
               PROVE  GossipMsg(x, y, m) \in wire' <=>
                        (GossipMsg(x, y, m) \in wire /\ ~(x = p /\ y = n)) \/ (x = n /\ y # p /\ y \in eager'[n])
    BY <1>1 DEF Forwarded, Pushed, LinksOf
  <2>1. GossipMsg(x, y, m) = w <=> x = p /\ y = n
    BY <1>1, MailDistinct
  <2>2. GossipMsg(x, y, m) \in {GossipMsg(n, z, m) : z \in eager'[n] \ {p}} <=> x = n /\ y # p /\ y \in eager'[n]
    BY <1>1, <1>4, MailDistinct
  <2> QED
    BY <1>5, <2>1, <2>2
<1>18. Pruned(wire') = Pruned(wire)
  <2>1. ASSUME NEW x \in Nodes, NEW y \in Nodes
        PROVE  PruneMsg(x, y) # w /\ \A z \in eager'[n] : PruneMsg(x, y) # GossipMsg(n, z, m)
    <3>1. \A u, v \in Nodes : PruneMsg(x, y) # GossipMsg(u, v, m)
      BY MailDistinct
    <3> QED
      BY <1>1, <1>4, <3>1
  <2> QED
    BY <1>5, <2>1 DEF Pruned
<1>19. Asked(wire', m) = Asked(wire, m)
  <2>1. ASSUME NEW x \in Nodes, NEW y \in Nodes
        PROVE  GraftMsg(x, y, m) # w /\ \A z \in eager'[n] : GraftMsg(x, y, m) # GossipMsg(n, z, m)
    <3>1. \A u, v \in Nodes : GraftMsg(x, y, m) # GossipMsg(u, v, m)
      BY MailDistinct
    <3> QED
      BY <1>1, <1>4, <3>1
  <2> QED
    BY <1>5, <2>1 DEF Asked
<1>20. Announced(wire', m) = Announced(wire, m)
  <2>1. ASSUME NEW x \in Nodes, NEW y \in Nodes
        PROVE  IhaveMsg(x, y, m) # w /\ \A z \in eager'[n] : IhaveMsg(x, y, m) # GossipMsg(n, z, m)
    <3>1. \A u, v \in Nodes : IhaveMsg(x, y, m) # GossipMsg(u, v, m)
      BY MailDistinct
    <3> QED
      BY <1>1, <1>4, <3>1
  <2> QED
    BY <1>5, <2>1 DEF Announced
<1>21. <<p, n>> \in Pushed(wire, m)
  BY <1>1 DEF Pushed
<1> DEFINE par1 == [par EXCEPT ![n] = p]
           rank1 == [rank EXCEPT ![n] = rank[p] + 1]
<1>22. Shape(Holders(received', m), LinksOf(eager'), Pushed(wire', m), Pruned(wire), Asked(wire, m),
             Announced(wire, m), Queued(lazyQueue, m), Noted(ihaveFrom', m), Busy(jobs'), o, par1, rank1, old)
  BY <1>0, <1>1, <1>5, <1>12, <1>13, <1>14, <1>16, <1>17, <1>21, ShapeAccept DEF Formed
<1> HIDE DEF par1, rank1
<1>23. Formed(m, o, par1, rank1, old)'
  BY <1>2, <1>18, <1>19, <1>20, <1>22 DEF Formed
<1>24. Growing(m, o, par1, rank1, old)'
  BY <1>0, <1>2, <1>11, <1>14, <1>15, <1>23 DEF Growing, About
<1> QED
  BY <1>9, <1>24

\* A broadcast in a quiet network, whose eager links span it.
LEMMA GrowStart ==
    ASSUME OnceInv, CacheHoldsAll, Tidy, up = Nodes, Overlay, Quiet, Spans(LinksOf(eager)),
           NEW n \in Nodes, NEW m \in Mids, Broadcast(n, m)
    PROVE  Tidy' /\ \E o, par, rank, old : Growing(m, o, par, rank, old)'
<1> DEFINE job == [node |-> n, then |-> "announce", mid |-> m, sender |-> {}]
           par == [x \in Nodes |-> x]
           rank == [x \in Nodes |-> 0]
<1>0. TypeInv /\ origin \in [Mids -> SUBSET Nodes]
  BY DEF OnceInv, Sourced
<1>1. /\ wire = {} /\ jobs = {} /\ \A x \in Nodes : lazyQueue[x] = {}
      /\ \A x \in Nodes, k \in Mids : missing[x][k] = -1
  BY DEF Quiet
<1>2. /\ origin[m] = {} /\ origin' = [origin EXCEPT ![m] = {n}] /\ Accept(n, m, {}, SyncEager(n), wire)
      /\ eager' = [eager EXCEPT ![n] = SyncEager(n)] /\ lazy' = [lazy EXCEPT ![n] = SyncLazy(n)]
      /\ UNCHANGED <<start, up, missing, ihaveFrom, lazyQueue>>
  BY DEF Broadcast
<1>3. SyncEager(n) = eager[n] /\ SyncLazy(n) = lazy[n]
  BY <1>0, SameLinks
<1>4. eager \in [Nodes -> SUBSET Nodes] /\ lazy \in [Nodes -> SUBSET Nodes]
  BY <1>0 DEF TypeInv, LinksTyped
<1>5. eager' = eager /\ lazy' = lazy
  BY <1>2, <1>3, <1>4
<1>6. \A x \in Nodes : ~Has(x, m)
  BY <1>2 DEF OnceInv, Sourced
<1>7. /\ Holders(received', m) = Holders(received, m) \cup {n}
      /\ wire' = wire \cup {GossipMsg(n, y, m) : y \in eager[n] \ {}}
      /\ jobs' = jobs \cup {job}
  <2>1. Accept(n, m, {}, eager[n], wire) /\ eager[n] \in SUBSET Nodes /\ ~Has(n, m)
    BY <1>2, <1>3, <1>4, <1>6
  <2> QED
    BY <2>1, AcceptParts
<1>8. Holders(received', m) = {n}
  BY <1>6, <1>7 DEF Holders, Has
<1>9. wire' = {GossipMsg(n, y, m) : y \in eager[n]} /\ jobs' = {job}
  BY <1>1, <1>7
<1>10. \A x \in Nodes : ihaveFrom'[x][m] = <<>>
  BY <1>2 DEF Tidy
<1>11. Tidy'
  BY <1>0, <1>2, <1>5 DEF Tidy
<1>12. MailAbout(wire', start.neighbors, m)
  <2>1. ASSUME NEW y \in eager[n]
        PROVE  y \in Nodes /\ n # y /\ y \in start.neighbors[n] /\ n \in start.neighbors[y]
    BY <1>0, <2>1, Mutual DEF Tidy
  <2> QED
    BY <1>9, <2>1 DEF MailAbout
<1>13. JobsAbout(jobs', m) /\ Busy(jobs') \subseteq {n}
  BY <1>9 DEF JobsAbout, Busy
<1>14. QueueAbout(lazyQueue', start.neighbors, m)
  BY <1>1, <1>2 DEF QueueAbout
<1>15. WaitAbout(missing', ihaveFrom', start.neighbors, m)
  BY <1>1, <1>2, <1>10 DEF WaitAbout, ToSet
<1>16. \A x, y \in Nodes : <<x, y>> \in Pushed(wire', m) <=> (x = n /\ <<n, y>> \in LinksOf(eager))
  <2> SUFFICES ASSUME NEW x \in Nodes, NEW y \in Nodes
               PROVE  GossipMsg(x, y, m) \in wire' <=> (x = n /\ y \in eager[n])
    BY DEF Pushed, LinksOf
  <2> QED
    BY <1>4, <1>9, MailDistinct
<1>17. \A x, y \in Nodes : /\ <<x, y>> \notin Pruned(wire') /\ <<x, y>> \notin Asked(wire', m)
                           /\ <<x, y>> \notin Announced(wire', m) /\ <<x, y>> \notin Queued(lazyQueue', m)
                           /\ <<x, y>> \notin Noted(ihaveFrom', m)
  <2> SUFFICES ASSUME NEW x \in Nodes, NEW y \in Nodes
               PROVE  /\ <<x, y>> \notin Pruned(wire') /\ <<x, y>> \notin Asked(wire', m)
                      /\ <<x, y>> \notin Announced(wire', m) /\ <<x, y>> \notin Queued(lazyQueue', m)
                      /\ <<x, y>> \notin Noted(ihaveFrom', m)
    OBVIOUS
  <2>1. /\ \A u, v \in Nodes : PruneMsg(x, y) # GossipMsg(u, v, m)
        /\ \A u, v \in Nodes : GraftMsg(y, x, m) # GossipMsg(u, v, m)
        /\ \A u, v \in Nodes : IhaveMsg(x, y, m) # GossipMsg(u, v, m)
    BY MailDistinct
  <2>2. PruneMsg(x, y) \notin wire' /\ GraftMsg(y, x, m) \notin wire' /\ IhaveMsg(x, y, m) \notin wire'
    BY <1>4, <1>9, <2>1
  <2>3. lazyQueue'[x] = {} /\ ToSet(ihaveFrom'[y][m]) = {}
    BY <1>1, <1>2, <1>10 DEF ToSet
  <2> QED
    BY <2>2, <2>3 DEF Pruned, Asked, Announced, Queued, Noted
<1>18. Shape({n}, LinksOf(eager), Pushed(wire', m), Pruned(wire'), Asked(wire', m), Announced(wire', m),
             Queued(lazyQueue', m), Noted(ihaveFrom', m), Busy(jobs'), n, par, rank, LinksOf(eager))
  BY <1>13, <1>16, <1>17, ShapeStart
<1> HIDE DEF par, rank
<1>19. PICK eo : eo = LinksOf(eager)
  OBVIOUS
<1>20. Formed(m, n, par, rank, eo)'
  BY <1>5, <1>8, <1>18, <1>19 DEF Formed
<1>21. About(m)'
  <2>1. origin'[m] # {}
    BY <1>0, <1>2
  <2> QED
    BY <1>2, <1>12, <1>13, <1>14, <1>15, <2>1 DEF About
<1>22. Growing(m, n, par, rank, eo)'
  BY <1>19, <1>20, <1>21 DEF Growing
<1> QED
  BY <1>11, <1>22

\* When the network is quiet, the eager links are the ones that the last
\* message came by.
LEMMA GrownTree ==
    ASSUME TypeInv, Quiet, NEW m, NEW o, NEW par, NEW rank, NEW old, Growing(m, o, par, rank, old)
    PROVE  Rooted(Nodes, o, par, rank) /\ IsTree(LinksOf(eager), o, par)
<1>1. \A x, y \in Nodes : <<x, y>> \notin Pushed(wire, m) /\ <<x, y>> \notin Pruned(wire)
  BY DEF Quiet, Pushed, Pruned
<1>2. \A x \in Nodes : <<x, x>> \notin LinksOf(eager)
  BY DEF LinksOf, TypeInv, LinksTyped
<1>3. Spans(old) /\ Formed(m, o, par, rank, old)
  BY DEF Growing
<1> QED
  BY <1>1, <1>2, <1>3, ShapeDone DEF Formed

\* Nothing was lost, nobody crashed, and every broadcast began in a quiet network.
Smooth == calm /\ losses = 0 /\ up = Nodes

\* Nothing was broadcast yet.
Idle == Quiet /\ Spans(LinksOf(eager)) /\ \A k \in Mids : origin[k] = {}

TreeInv ==
    /\ losses \in Nat
    /\ Smooth => Tidy /\ (Idle \/ \E m, o, par, rank, old : Growing(m, o, par, rank, old))

\* It holds at first: every neighbour is eager.
LEMMA TreeInit ==
    ASSUME Overlay, Init
    PROVE  TreeInv
<1>1. start \in Starts /\ eager = start.neighbors
  BY DEF Init
<1>2. Spans(LinksOf(eager))
  BY <1>1 DEF Overlay
<1>3. Idle
  BY <1>2 DEF Idle, Init, Quiet
<1>4. Tidy
  BY DEF Init, Tidy
<1> QED
  BY <1>3, <1>4 DEF TreeInv, Init

\* Where nothing is under way and every neighbour is linked, a tick has nothing
\* to do.
LEMMA NoTick ==
    ASSUME TypeInv, Tidy, Quiet, up = Nodes, NEW n \in Nodes
    PROVE  ~Tick(n)
<1>1. lazyQueue[n] = {} /\ eager[n] = SyncEager(n) /\ lazy[n] = SyncLazy(n)
  BY SameLinks DEF Quiet
<1>2. ASSUME NEW k \in Mids PROVE missing[n][k] = Waited(n, k) /\ k \notin Grafts(n)
  BY DEF Quiet, Waited, Grafts, Due
<1> QED
  BY <1>1, <1>2 DEF Tick, HasWork

\* Every step keeps it.
LEMMA TreeNext ==
    ASSUME CacheHoldsAll, Overlay, OnceInv, TreeInv, [Next]_vars
    PROVE  TreeInv'
<1>0. TypeInv
  BY DEF OnceInv
<1>1. losses' \in Nat
  <2>1. losses' = losses \/ \E w \in wire : Lose(w)
    BY DEF Next, Handled, Resumed, vars, Broadcast, Tick, Crash, OnGossip, OnRedundantGossip,
           OnPrune, OnIhave, OnGraft, LazyPush, GraftMissing
  <2>2. losses' = losses \/ losses' = losses + 1
    BY <2>1 DEF Lose
  <2> QED
    BY <2>2 DEF TreeInv
<1> SUFFICES ASSUME Smooth'
             PROVE  Tidy' /\ (Idle' \/ \E m, o, par, rank, old : Growing(m, o, par, rank, old)')
  BY <1>1 DEF TreeInv
<1>2. \A n \in Nodes : ~Crash(n)
  <2> SUFFICES ASSUME NEW n \in Nodes, Crash(n) PROVE FALSE
    OBVIOUS
  <2>1. up' = up \ {n} /\ up' = Nodes
    BY DEF Crash, Smooth
  <2> QED
    BY <2>1
<1>3. \A w \in wire : ~Lose(w)
  <2> SUFFICES ASSUME NEW w \in wire, Lose(w) PROVE FALSE
    OBVIOUS
  <2>1. losses' = losses + 1 /\ losses' = 0 /\ losses \in Nat
    BY DEF Lose, Smooth, TreeInv
  <2> QED
    BY <2>1
<1>4. losses' = losses /\ up' = up
  BY <1>2, <1>3 DEF Next, Handled, Resumed, vars, Broadcast, Tick, OnGossip, OnRedundantGossip,
         OnPrune, OnIhave, OnGraft, LazyPush, GraftMissing
<1>5. (\A n \in Nodes, m \in Mids : ~Broadcast(n, m)) => calm' = calm
  BY <1>2, <1>3 DEF Next, Handled, Resumed, vars, Tick, OnGossip, OnRedundantGossip,
         OnPrune, OnIhave, OnGraft, LazyPush, GraftMissing
<1>6. \A n \in Nodes, m \in Mids : Broadcast(n, m) => calm /\ Quiet
  BY DEF Broadcast, Smooth
<1>7. Smooth
  BY <1>4, <1>5, <1>6 DEF Smooth
<1>8. up = Nodes /\ Tidy /\ (Idle \/ \E m, o, par, rank, old : Growing(m, o, par, rank, old))
  BY <1>7 DEF TreeInv, Smooth
<1>9. CASE \E n \in Nodes, m \in Mids : Broadcast(n, m)
  <2>1. PICK n \in Nodes, m \in Mids : Broadcast(n, m)
    BY <1>9
  <2>2. Quiet
    BY <1>6, <2>1
  <2>3. Spans(LinksOf(eager))
    <3>1. CASE Idle
      BY <3>1 DEF Idle
    <3>2. CASE \E k, o, par, rank, old : Growing(k, o, par, rank, old)
      <4>1. PICK k, o, par, rank, old : Growing(k, o, par, rank, old)
        BY <3>2
      <4>2. Rooted(Nodes, o, par, rank) /\ IsTree(LinksOf(eager), o, par)
        BY <1>0, <2>2, <4>1, GrownTree
      <4> QED
        BY <4>2, TreeSpans
    <3> QED
      BY <1>8, <3>1, <3>2
  <2>4. Tidy' /\ \E o, par, rank, old : Growing(m, o, par, rank, old)'
    BY <1>8, <2>1, <2>2, <2>3, GrowStart
  <2> QED
    BY <2>4
<1>10. CASE UNCHANGED vars
  <2>1. Tidy'
    BY <1>8, <1>10 DEF Tidy, vars
  <2>2. Idle => Idle'
    BY <1>10 DEF Idle, Quiet, vars
  <2>3. ASSUME NEW m, NEW o, NEW par, NEW rank, NEW old, Growing(m, o, par, rank, old)
        PROVE  Growing(m, o, par, rank, old)'
    BY <1>10, <2>3 DEF Growing, About, Formed, vars
  <2> QED
    BY <1>8, <2>1, <2>2, <2>3
<1>11. CASE Handled \/ Resumed \/ \E n \in Nodes : Tick(n)
  <2>1. ~Idle
    <3>1. Quiet => ~Handled /\ ~Resumed
      BY DEF Quiet, Handled, Resumed
    <3> QED
      BY <1>0, <1>8, <1>11, <3>1, NoTick DEF Idle
  <2>2. PICK m, o, par, rank, old : Growing(m, o, par, rank, old)
    BY <1>8, <2>1
  <2>3. ASSUME NEW w \in wire, OnGossip(w)
        PROVE  Tidy' /\ \E par1, rank1 : Growing(m, o, par1, rank1, old)'
    BY <1>8, <2>2, <2>3, GrowAccept
  <2>4. ASSUME NEW w \in wire, OnRedundantGossip(w) PROVE Tidy' /\ Growing(m, o, par, rank, old)'
    BY <1>0, <1>8, <2>2, <2>4, GrowRedundant
  <2>5. ASSUME NEW w \in wire, OnPrune(w) PROVE Tidy' /\ Growing(m, o, par, rank, old)'
    BY <1>0, <1>8, <2>2, <2>5, GrowPrune
  <2>6. ASSUME NEW w \in wire, OnIhave(w) PROVE Tidy' /\ Growing(m, o, par, rank, old)'
    BY <1>0, <1>8, <2>2, <2>6, GrowIhave
  <2>7. ASSUME NEW w \in wire, OnGraft(w) PROVE Tidy' /\ Growing(m, o, par, rank, old)'
    BY <1>0, <1>8, <2>2, <2>7, GrowGraft
  <2>8. ASSUME NEW j \in jobs, LazyPush(j) PROVE Tidy' /\ Growing(m, o, par, rank, old)'
    BY <1>0, <1>8, <2>2, <2>8, GrowLazyPush
  <2>9. ASSUME NEW j \in jobs, NEW S \in SUBSET Mids, GraftMissing(j, S)
        PROVE  Tidy' /\ Growing(m, o, par, rank, old)'
    BY <1>0, <1>8, <2>2, <2>9, GrowGraftMissing
  <2>10. ASSUME NEW n \in Nodes, Tick(n) PROVE Tidy' /\ Growing(m, o, par, rank, old)'
    BY <1>0, <1>8, <2>2, <2>10, GrowTick
  <2>11. Tidy' /\ \E par1, rank1 : Growing(m, o, par1, rank1, old)'
    BY <1>11, <2>3, <2>4, <2>5, <2>6, <2>7, <2>8, <2>9, <2>10 DEF Handled, Resumed
  <2> QED
    BY <2>11
<1> QED
  BY <1>2, <1>3, <1>9, <1>10, <1>11 DEF Next

\* The invariant gives the tree.
LEMMA TreeFollows ==
    ASSUME IsFiniteSet(Nodes), TypeInv, TreeInv
    PROVE  EagerTree
<1> DEFINE links == {l \in Nodes \X Nodes : l[2] \in eager[l[1]]}
<1> SUFFICES ASSUME Quiet, Smooth, \E m \in Mids : origin[m] # {}
             PROVE  /\ Cardinality(links) = 2 * (Cardinality(Nodes) - 1)
                    /\ \A l \in links : <<l[2], l[1]>> \in links
                    /\ \A S \in (SUBSET Nodes) \ {{}, Nodes} : \E l \in links : l[1] \in S /\ l[2] \notin S
  BY DEF EagerTree, Smooth
<1>1. PICK m, o, par, rank, old : Growing(m, o, par, rank, old)
  BY DEF TreeInv, Idle
<1>2. Rooted(Nodes, o, par, rank) /\ IsTree(LinksOf(eager), o, par)
  BY <1>1, GrownTree
<1>3. links = LinksOf(eager) /\ LinksOf(eager) \subseteq Nodes \X Nodes
  BY DEF LinksOf
<1> HIDE DEF links
<1>4. Cardinality(links) = 2 * (Cardinality(Nodes) - 1)
  BY <1>2, <1>3, TreeCount
<1>5. ASSUME NEW l \in links PROVE <<l[2], l[1]>> \in links
  <2>1. PICK x \in Nodes, y \in Nodes : l = <<x, y>>
    BY <1>3, <1>5
  <2> QED
    BY <1>2, <1>3, <1>5, <2>1 DEF IsTree
<1>6. ASSUME NEW S \in (SUBSET Nodes) \ {{}, Nodes} PROVE \E l \in links : l[1] \in S /\ l[2] \notin S
  <2>1. PICK x \in S, y \in Nodes \ S : <<x, y>> \in links
    BY <1>2, <1>3, <1>6, TreeSpans DEF Spans
  <2> QED
    BY <2>1
<1> QED
  BY <1>4, <1>5, <1>6

\* Once a broadcast in a quiet network is over, the eager links form a spanning
\* tree with both ends agreed, whatever the neighbourhoods (as long as they are
\* mutual and connect the nodes), however the copies, prunes, announcements and
\* grafts overtook each other, and however many broadcasts came before it.
THEOREM EagerTreeCorrect ==
    ASSUME CacheHoldsAll, Overlay, IsFiniteSet(Nodes)
    PROVE  Spec => []EagerTree
<1>1. Init => OnceInv /\ TreeInv
  BY OnceInit, TreeInit
<1>2. OnceInv /\ TreeInv /\ [Next]_vars => OnceInv' /\ TreeInv'
  BY OnceNext, TreeNext
<1>3. OnceInv /\ TreeInv => EagerTree
  BY TreeFollows DEF OnceInv
<1> QED
  BY <1>1, <1>2, <1>3, PTL DEF Spec

=============================================================================
