---------------------------- MODULE DetectorProofs ----------------------------
(***************************************************************************)
(* Proofs about the two failure detectors that work on a PeerTable:        *)
(* heartbeats (Membership), for every finite set of nodes, every seeding,  *)
(* fanout and pair of timers, and whatever crashes, is cut off or lost;    *)
(* and probes (Swim), for every timer and every bound on losses and        *)
(* messages in flight.  The two share no variable.                         *)
(*                                                                         *)
(* ProbedAreKept speaks of one step.  What makes it true is an invariant   *)
(* over the life of a probe, AnsweredKeepYoung: when no PING to a running  *)
(* peer and no ACK of it is under way, its record is at most as old as the *)
(* last PING.  A PING_REQ is not counted: one to a helper that has crashed *)
(* disappears although nothing was lost between running nodes.             *)
(***************************************************************************)
EXTENDS Membership, Swim, FiniteSetTheorems, WellFoundedInduction, TLAPS

-----------------------------------------------------------------------------
(* Operators *)

\* A nonempty set of natural numbers has a smallest member.
LEMMA SmallestExists ==
    ASSUME NEW S \in SUBSET Nat, S # {}
    PROVE  \E p \in S : \A q \in S : p <= q
<1> DEFINE R == OpToRel(<, Nat)
<1>1. IsWellFoundedOn(R, Nat)
  BY NatLessThanWellFounded
<1>2. \A x, y \in Nat : <<y, x>> \in R <=> y < x
  BY DEF OpToRel
<1> HIDE DEF R
<1>3. PICK x \in S : \A y \in S : ~(<<y, x>> \in R)
  BY <1>1, WFMin
<1>4. ASSUME NEW y \in S PROVE x <= y
  <2>1. x \in Nat /\ y \in Nat
    OBVIOUS
  <2>2. ~(y < x)
    BY <1>2, <1>3, <2>1
  <2> QED
    BY <2>1, <2>2
<1> QED
  BY <1>4

\* The leader that a node elects is itself or a peer it believes to be alive.
LEMMA ElectLeaderType ==
    ASSUME NEW n \in Nodes, NEW tab
    PROVE  ElectLeader(n, tab) \in {n} \cup Alive(tab) /\ ElectLeader(n, tab) \in Nodes
<1> DEFINE C == {n} \cup Alive(tab)
<1>1. C \in SUBSET Nat /\ C # {} /\ C \subseteq Nodes
  BY NodesAssumption DEF Alive, Known
<1> HIDE DEF C
<1>2. \E p \in C : \A q \in C : p <= q
  BY <1>1, SmallestExists
<1>3. ElectLeader(n, tab) = CHOOSE p \in C : \A q \in C : p <= q
  BY DEF ElectLeader, C
<1> QED
  BY <1>1, <1>2, <1>3 DEF C

\* Silence removes a peer or suspects it, and keeps its heartbeat.
LEMMA AgeTableType ==
    ASSUME NEW tab \in [Nodes -> Peer \cup {None}]
    PROVE  /\ AgeTable(tab) \in [Nodes -> Peer \cup {None}]
           /\ \A p \in Nodes : AgeTable(tab)[p] # None =>
                 tab[p] # None /\ AgeTable(tab)[p].heartbeat = tab[p].heartbeat
BY DEF AgeTable, AgePeer, Peer

\* A digest brings in the heartbeats it names, and never one of the node itself.
LEMMA MergeViewType ==
    ASSUME NEW n \in Nodes, NEW tab \in [Nodes -> Peer \cup {None}], NEW view \in View
    PROVE  /\ MergeView(n, tab, view) \in [Nodes -> Peer \cup {None}]
           /\ MergeView(n, tab, view)[n] = tab[n]
           /\ \A p \in Nodes :
                 \/ MergeView(n, tab, view)[p] = tab[p]
                 \/ view[p] # None /\ MergeView(n, tab, view)[p].heartbeat = view[p]
<1>1. 0 \in 0..DeadAfter
  BY TimersAssumption
<1>2. ASSUME NEW hb \in Nat PROVE FreshPeer(hb) \in Peer /\ FreshPeer(hb).heartbeat = hb
  BY <1>1 DEF FreshPeer, Peer
<1>3. \A p \in Nodes : view[p] # None => view[p] \in Nat
  BY DEF View
<1> QED
  BY <1>2, <1>3 DEF MergeView, Merges, Refreshed

\* A digest names the heartbeats of the table, and the node's own.
LEMMA BuildDigestType ==
    ASSUME NEW n \in Nodes, NEW tab \in [Nodes -> Peer \cup {None}], NEW hb \in Nat
    PROVE  /\ BuildDigest(n, tab, hb) \in View
           /\ BuildDigest(n, tab, hb)[n] = hb
           /\ \A p \in Nodes \ {n} : BuildDigest(n, tab, hb)[p] # None =>
                 tab[p] # None /\ BuildDigest(n, tab, hb)[p] = tab[p].heartbeat
BY NonePeerAssumption DEF BuildDigest, View, Peer

\* The ranks that replace heartbeats at the end of a round are ordered like them.
LEMMA RankMonotone ==
    ASSUME NEW p \in Nodes, Copies(p) \subseteq Nat, NEW g \in Nat, NEW h \in Nat, g <= h
    PROVE  Rank(p, g) \in Nat /\ Rank(p, h) \in Nat /\ Rank(p, g) <= Rank(p, h)
<1> DEFINE Below(k) == {c \in Copies(p) : c < k}
<1>1. Below(g) \in SUBSET Nat /\ Below(h) \in SUBSET Nat /\ Below(g) \in SUBSET Below(h)
  OBVIOUS
<1>2. \A c \in Below(h) : c <= h
  OBVIOUS
<1>3. IsFiniteSet(Below(h))
  BY <1>1, <1>2, FS_BoundedSetOfNaturals
<1>4. IsFiniteSet(Below(g)) /\ Cardinality(Below(g)) <= Cardinality(Below(h))
  BY <1>1, <1>3, FS_Subset
<1>5. Cardinality(Below(g)) \in Nat /\ Cardinality(Below(h)) \in Nat
  BY <1>3, <1>4, FS_CardinalityType
<1> QED
  BY <1>4, <1>5 DEF Rank

-----------------------------------------------------------------------------
(* Type correctness *)

Tables == [Nodes -> [Nodes -> Peer \cup {None}]]

\* What is sent is a message.
LEMMA SentType ==
    ASSUME TypeOK, NEW msgs \in SUBSET Message
    PROVE  Sent(msgs) \in SUBSET Message /\ \A m \in Sent(msgs) : m \in net \/ m \in msgs
BY DEF Sent, TypeOK

\* A digest is a message, to each of its targets.
LEMMA DigestsType ==
    ASSUME NEW n \in Nodes, NEW targets \in SUBSET Nodes,
           NEW tab \in [Nodes -> Peer \cup {None}], NEW hb \in Nat
    PROVE  /\ Digests(n, targets, tab, hb) \in SUBSET Message
           /\ \A m \in Digests(n, targets, tab, hb) : m.view = BuildDigest(n, tab, hb)
BY BuildDigestType DEF Digests, Message

\* A JOIN is a message that tells of its sender only.
LEMMA JoinsType ==
    ASSUME NEW n \in Nodes, NEW hb \in Nat
    PROVE  /\ Joins(n, hb) \in SUBSET Message
           /\ \A m \in Joins(n, hb) : \A p \in Nodes :
                 m.view[p] = IF p = n THEN hb ELSE None
<1>1. Seeds[n] \subseteq Nodes
  BY SeedsAssumption
<1> QED
  BY <1>1 DEF Joins, Message, View

\* The faults that may still happen keep their counters within the bound.
LEMMA FaultsBounded ==
    ASSUME TypeOK, FaultsLeft
    PROVE  splits + 1 \in 0..MaxFaults /\ losses + 1 \in 0..MaxFaults
<1> DEFINE D == {n \in Nodes : status[n] = "down"}
<1>1. Cardinality(D) \in Nat
  BY NodesAssumption, FS_Subset, FS_CardinalityType
<1> HIDE DEF D
<1>2. Cardinality(D) + splits + losses < MaxFaults
  BY DEF FaultsLeft, D
<1> QED
  BY <1>1, <1>2, MembershipBounds DEF TypeOK

\* Every heartbeat in a table counts among the copies that are ranked.
LEMMA CopiesType ==
    ASSUME TypeOK, NEW p \in Nodes
    PROVE  /\ Copies(p) \subseteq Nat
           /\ \A n \in Nodes : table[n][p] # None => table[n][p].heartbeat \in Nat
<1>1. \A n \in Nodes : table[n][p] \in Peer \cup {None}
  BY DEF TypeOK
<1>2. \A n \in Nodes : table[n][p] # None => table[n][p].heartbeat \in Nat
  BY <1>1 DEF Peer
<1> QED
  BY <1>2 DEF Copies, TypeOK

\* Every step keeps the types, and no node becomes a peer of itself.
LEMMA TypeStep == TypeOK /\ [Next]_vars => TypeOK'
<1> SUFFICES ASSUME TypeOK, [Next]_vars PROVE TypeOK'
  OBVIOUS
<1>0. /\ \A n \in Nodes : /\ table[n] \in [Nodes -> Peer \cup {None}]
                          /\ table[n][n] = None
                          /\ heartbeat[n] \in Nat /\ heartbeat[n] + 1 \in Nat
                          /\ AgedTable(n) \in [Nodes -> Peer \cup {None}]
                          /\ AgedTable(n)[n] = None
      /\ \A m \in net : m.src \in Nodes /\ m.dst \in Nodes /\ m.view \in View
  BY AgeTableType DEF TypeOK, AgedTable, Message
<1>1. ASSUME NEW n \in Nodes, Start(n) PROVE TypeOK'
  <2>1. net' \in SUBSET Message
    BY <1>0, <1>1, JoinsType, SentType DEF Start
  <2> QED
    BY <1>1, <2>1 DEF Start, TypeOK, Up, faults
<1>2. ASSUME NEW n \in Nodes, NEW targets \in SUBSET Nodes, Tick(n, targets) PROVE TypeOK'
  <2>1. net' \in SUBSET Message
    BY <1>0, <1>2, DigestsType, SentType DEF Tick
  <2>2. ElectLeader(n, AgedTable(n)) \in Nodes
    BY ElectLeaderType
  <2> QED
    BY <1>0, <1>2, <2>1, <2>2 DEF Tick, CanTick, TypeOK, Up, faults
<1>3. ASSUME NEW n \in Nodes, Knock(n) PROVE TypeOK'
  <2>1. net' \in SUBSET Message
    BY <1>0, <1>3, JoinsType, SentType DEF Knock
  <2> QED
    BY <1>0, <1>3, <2>1 DEF Knock, CanTick, TypeOK, Up, faults
<1>4. ASSUME NEW n \in Nodes, NEW targets \in SUBSET Nodes, Resume(n, targets) PROVE TypeOK'
  <2>1. net' \in SUBSET Message
    BY <1>0, <1>4, DigestsType, SentType DEF Resume
  <2>2. ElectLeader(n, table[n]) \in Nodes
    BY ElectLeaderType
  <2> QED
    BY <1>4, <2>1, <2>2 DEF Resume, TypeOK, Up, faults
<1>5. ASSUME NEW m \in net, Receive(m) PROVE TypeOK'
  <2> DEFINE tab == MergeView(m.dst, table[m.dst], m.view)
  <2>1. tab \in [Nodes -> Peer \cup {None}] /\ tab[m.dst] = None
    BY <1>0, MergeViewType
  <2> HIDE DEF tab
  <2>2. Replies(m, tab) \in SUBSET Message
    BY <1>0, <2>1, DigestsType DEF Replies
  <2>3. net' \in SUBSET Message
    BY <1>5, <2>2, SentType DEF Receive, tab
  <2>4. table' = [table EXCEPT ![m.dst] = tab]
    BY <1>5 DEF Receive, tab
  <2>5. table' \in Tables /\ \A n \in Nodes : table'[n][n] = None
    BY <1>0, <2>1, <2>4 DEF TypeOK, Tables
  <2> QED
    BY <1>5, <2>3, <2>5 DEF Receive, TypeOK, Tables, Up, faults
<1>6. ASSUME NEW m \in net, Lose(m) PROVE TypeOK'
  BY <1>6, FaultsBounded DEF Lose, TypeOK, Up
<1>7. ASSUME NEW n \in Nodes, Crash(n) PROVE TypeOK'
  BY <1>7 DEF Crash, TypeOK, Up, faults
<1>8. ASSUME NEW group \in Groups, Partition(group) PROVE TypeOK'
  BY <1>8, FaultsBounded, MembershipBounds DEF Partition, TypeOK, Up
<1>9. CASE Heal
  BY <1>9 DEF Heal, TypeOK, Up
<1>10. CASE NextRound
  <2>1. \A p \in Nodes : Rank(p, heartbeat[p]) \in Nat
    BY <1>0, CopiesType, RankMonotone
  <2>2. ASSUME NEW n \in Nodes, NEW p \in Nodes, table[n][p] # None
        PROVE  [table[n][p] EXCEPT !.heartbeat = Rank(p, @), !.age = Older(@, DeadAfter)] \in Peer
    <3>1. table[n][p] \in Peer
      BY <1>0, <2>2
    <3>2. Rank(p, table[n][p].heartbeat) \in Nat
      BY <2>2, CopiesType, RankMonotone
    <3>3. Older(table[n][p].age, DeadAfter) \in 0..DeadAfter
      BY <3>1, TimersAssumption DEF Older, Peer
    <3> QED
      BY <3>1, <3>2, <3>3 DEF Peer
  <2>3. table' \in Tables /\ \A n \in Nodes : table'[n][n] = None
    BY <1>0, <1>10, <2>2 DEF NextRound, Tables
  <2> QED
    BY <1>10, <2>1, <2>3 DEF NextRound, TypeOK, Tables, Up, faults
<1>11. CASE UNCHANGED vars
  BY <1>11 DEF vars, TypeOK, Up, faults
<1> QED
  BY <1>1, <1>2, <1>3, <1>4, <1>5, <1>6, <1>7, <1>8, <1>9, <1>10, <1>11 DEF Next

\* Type correctness: no node is ever a peer of itself, whatever a digest names,
\* and only running nodes tick or wait for the answer to a JOIN.
THEOREM MembershipTypeCorrect == Spec => []TypeOK
<1>1. Init => TypeOK
  BY MembershipBounds DEF Init, TypeOK, Up
<1> QED
  BY <1>1, TypeStep, PTL DEF Spec

-----------------------------------------------------------------------------
(* Heartbeats *)

\* Tables whose heartbeats their owners have reached, when the owners' counters
\* are hb.
RealTable(tab, hb) ==
    \A p \in Nodes : tab[p] # None => tab[p].heartbeat <= hb[p]

RealView(view, hb) == \A p \in Nodes : view[p] # None => view[p] <= hb[p]

\* A digest of a real table is real.
LEMMA BuildDigestReal ==
    ASSUME NEW n \in Nodes, NEW tab \in [Nodes -> Peer \cup {None}],
           NEW hb \in [Nodes -> Nat], RealTable(tab, hb)
    PROVE  RealView(BuildDigest(n, tab, hb[n]), hb)
<1>1. hb[n] \in Nat /\ hb[n] <= hb[n]
  OBVIOUS
<1> QED
  BY <1>1, BuildDigestType DEF RealTable, RealView

\* Counters only grow during a round.
LEMMA RealGrows ==
    ASSUME TypeOK, HeartbeatsAreReal, NEW hb \in [Nodes -> Nat],
           \A p \in Nodes : heartbeat[p] <= hb[p]
    PROVE  /\ \A n \in Nodes : RealTable(table[n], hb)
           /\ \A m \in net : RealView(m.view, hb)
<1>1. \A n, p \in Nodes : table[n][p] # None => table[n][p].heartbeat \in Nat
  BY CopiesType
<1>2. \A m \in net : \A p \in Nodes : m.view[p] # None => m.view[p] \in Nat
  BY DEF TypeOK, Message, View
<1>3. \A p \in Nodes : heartbeat[p] \in Nat /\ hb[p] \in Nat
  BY DEF TypeOK
<1>4. \A n, p \in Nodes : table[n][p] # None => table[n][p].heartbeat <= hb[p]
  BY <1>1, <1>3 DEF HeartbeatsAreReal
<1>5. \A m \in net : \A p \in Nodes : m.view[p] # None => m.view[p] <= hb[p]
  BY <1>2, <1>3 DEF HeartbeatsAreReal
<1> QED
  BY <1>4, <1>5 DEF RealTable, RealView

\* Nobody believes in a heartbeat that its owner has not reached: heartbeats are
\* only copied, from tables to digests and back, while their owners count on.
THEOREM HeartbeatsCorrect == Spec => []HeartbeatsAreReal
<1>1. Init => HeartbeatsAreReal
  BY DEF Init, HeartbeatsAreReal
<1>2. TypeOK /\ TypeOK' /\ HeartbeatsAreReal /\ [Next]_vars => HeartbeatsAreReal'
  <2> SUFFICES ASSUME TypeOK, TypeOK', HeartbeatsAreReal, [Next]_vars
               PROVE  HeartbeatsAreReal'
    OBVIOUS
  <2>0. /\ \A n \in Nodes : /\ table[n] \in [Nodes -> Peer \cup {None}]
                            /\ heartbeat[n] \in Nat
                            /\ AgedTable(n) \in [Nodes -> Peer \cup {None}]
        /\ heartbeat' \in [Nodes -> Nat]
        /\ \A m \in net : m.src \in Nodes /\ m.dst \in Nodes /\ m.view \in View
    BY AgeTableType DEF TypeOK, AgedTable, Message
  <2>1. SUFFICES /\ \A n \in Nodes : RealTable(table'[n], heartbeat')
                 /\ \A m \in net' : RealView(m.view, heartbeat')
    BY DEF HeartbeatsAreReal, RealTable, RealView
  <2>2. ASSUME \A p \in Nodes : heartbeat[p] <= heartbeat'[p]
        PROVE  /\ \A n \in Nodes : RealTable(table[n], heartbeat')
               /\ \A n \in Nodes : RealTable(AgedTable(n), heartbeat')
               /\ \A m \in net : RealView(m.view, heartbeat')
    <3>1. /\ \A n \in Nodes : RealTable(table[n], heartbeat')
          /\ \A m \in net : RealView(m.view, heartbeat')
      BY <2>0, <2>2, RealGrows
    <3>2. \A n \in Nodes : RealTable(AgedTable(n), heartbeat')
      BY <2>0, <3>1, AgeTableType DEF RealTable, AgedTable
    <3> QED
      BY <3>1, <3>2
  <2>3. ASSUME NEW n \in Nodes, Start(n)
        PROVE  /\ \A q \in Nodes : RealTable(table'[q], heartbeat')
               /\ \A m \in net' : RealView(m.view, heartbeat')
    <3>1. heartbeat' = heartbeat /\ table' = table /\ net' = Sent(Joins(n, heartbeat[n]))
      BY <2>3 DEF Start
    <3>2. \A m \in Joins(n, heartbeat[n]) : RealView(m.view, heartbeat)
      BY <2>0, JoinsType DEF RealView
    <3>3. \A p \in Nodes : heartbeat[p] <= heartbeat'[p]
      BY <2>0, <3>1
    <3> QED
      BY <2>0, <2>2, <3>1, <3>2, <3>3, JoinsType, SentType
  <2>4. ASSUME NEW n \in Nodes, heartbeat' = [heartbeat EXCEPT ![n] = @ + 1]
        PROVE  heartbeat'[n] = heartbeat[n] + 1 /\ \A p \in Nodes : heartbeat[p] <= heartbeat'[p]
    BY <2>0, <2>4 DEF TypeOK
  <2>5. ASSUME NEW n \in Nodes, NEW targets \in SUBSET Nodes, Tick(n, targets)
        PROVE  /\ \A q \in Nodes : RealTable(table'[q], heartbeat')
               /\ \A m \in net' : RealView(m.view, heartbeat')
    <3> DEFINE msgs == Digests(n, targets, AgedTable(n), heartbeat[n] + 1)
    <3>1. /\ heartbeat'[n] = heartbeat[n] + 1
          /\ \A p \in Nodes : heartbeat[p] <= heartbeat'[p]
      BY <2>4, <2>5 DEF Tick
    <3>2. table' = [table EXCEPT ![n] = AgedTable(n)] /\ net' = Sent(msgs)
      BY <2>5 DEF Tick
    <3>3. \A q \in Nodes : RealTable(table'[q], heartbeat')
      BY <2>2, <3>1, <3>2 DEF TypeOK
    <3>4. msgs \in SUBSET Message /\ \A m \in msgs : RealView(m.view, heartbeat')
      <4>1. RealView(BuildDigest(n, AgedTable(n), heartbeat'[n]), heartbeat')
        BY <2>0, <2>2, <3>1, BuildDigestReal
      <4>2. heartbeat[n] + 1 \in Nat
        BY <2>0
      <4> QED
        BY <2>0, <3>1, <4>1, <4>2, DigestsType
    <3> HIDE DEF msgs
    <3> QED
      BY <2>2, <3>1, <3>2, <3>3, <3>4, SentType
  <2>6. ASSUME NEW n \in Nodes, Knock(n)
        PROVE  /\ \A q \in Nodes : RealTable(table'[q], heartbeat')
               /\ \A m \in net' : RealView(m.view, heartbeat')
    <3> DEFINE msgs == Joins(n, heartbeat[n] + 1)
    <3>1. /\ heartbeat'[n] = heartbeat[n] + 1
          /\ \A p \in Nodes : heartbeat[p] <= heartbeat'[p]
      BY <2>4, <2>6 DEF Knock
    <3>2. table' = [table EXCEPT ![n] = AgedTable(n)] /\ net' = Sent(msgs)
      BY <2>6 DEF Knock
    <3>3. \A q \in Nodes : RealTable(table'[q], heartbeat')
      BY <2>2, <3>1, <3>2 DEF TypeOK
    <3>4. heartbeat[n] + 1 \in Nat /\ heartbeat'[n] <= heartbeat'[n]
      BY <2>0
    <3>5. msgs \in SUBSET Message /\ \A m \in msgs : RealView(m.view, heartbeat')
      BY <3>1, <3>4, JoinsType DEF RealView
    <3> HIDE DEF msgs
    <3> QED
      BY <2>2, <3>1, <3>2, <3>3, <3>5, SentType
  <2>7. ASSUME NEW n \in Nodes, NEW targets \in SUBSET Nodes, Resume(n, targets)
        PROVE  /\ \A q \in Nodes : RealTable(table'[q], heartbeat')
               /\ \A m \in net' : RealView(m.view, heartbeat')
    <3> DEFINE msgs == Digests(n, targets, table[n], heartbeat[n])
    <3>1. heartbeat' = heartbeat /\ table' = table /\ net' = Sent(msgs)
      BY <2>7 DEF Resume
    <3>2. \A p \in Nodes : heartbeat[p] <= heartbeat'[p]
      BY <2>0, <3>1
    <3>3. RealView(BuildDigest(n, table[n], heartbeat[n]), heartbeat')
      BY <2>0, <2>2, <3>1, <3>2, BuildDigestReal
    <3>4. msgs \in SUBSET Message /\ \A m \in msgs : RealView(m.view, heartbeat')
      BY <2>0, <3>3, DigestsType
    <3> HIDE DEF msgs
    <3> QED
      BY <2>2, <3>1, <3>2, <3>4, SentType
  <2>8. ASSUME NEW m \in net, Receive(m)
        PROVE  /\ \A q \in Nodes : RealTable(table'[q], heartbeat')
               /\ \A r \in net' : RealView(r.view, heartbeat')
    <3> DEFINE tab == MergeView(m.dst, table[m.dst], m.view)
    <3>1. heartbeat' = heartbeat /\ table' = [table EXCEPT ![m.dst] = tab]
      BY <2>8 DEF Receive
    <3>2. \A p \in Nodes : heartbeat[p] <= heartbeat'[p]
      BY <2>0, <3>1
    <3>3. tab \in [Nodes -> Peer \cup {None}]
      BY <2>0, MergeViewType
    <3>4. RealTable(tab, heartbeat')
      <4>1. RealTable(table[m.dst], heartbeat') /\ RealView(m.view, heartbeat')
        BY <2>0, <2>2, <3>2
      <4>2. ASSUME NEW p \in Nodes
            PROVE  \/ tab[p] = table[m.dst][p]
                   \/ m.view[p] # None /\ tab[p].heartbeat = m.view[p]
        BY <2>0, MergeViewType
      <4> HIDE DEF tab
      <4> QED
        BY <4>1, <4>2 DEF RealTable, RealView
    <3>5. net' = Sent(Replies(m, tab)) \ {m}
      BY <2>8 DEF Receive
    <3> HIDE DEF tab
    <3>6. RealView(BuildDigest(m.dst, tab, heartbeat[m.dst]), heartbeat')
      BY <2>0, <3>1, <3>3, <3>4, BuildDigestReal
    <3>7. /\ Replies(m, tab) \in SUBSET Message
          /\ \A r \in Replies(m, tab) : RealView(r.view, heartbeat')
      BY <2>0, <3>3, <3>6, DigestsType DEF Replies
    <3>8. \A r \in net' : RealView(r.view, heartbeat')
      BY <2>2, <3>2, <3>5, <3>7, SentType
    <3>9. \A q \in Nodes : RealTable(table'[q], heartbeat')
      BY <2>2, <3>1, <3>2, <3>4 DEF TypeOK
    <3> QED
      BY <3>8, <3>9
  <2>9. ASSUME NEW n \in Nodes, Crash(n)
        PROVE  /\ \A q \in Nodes : RealTable(table'[q], heartbeat')
               /\ \A m \in net' : RealView(m.view, heartbeat')
    <3>1. /\ heartbeat' = heartbeat /\ net' = net
          /\ table' = [table EXCEPT ![n] = [p \in Nodes |-> None]]
      BY <2>9 DEF Crash
    <3>2. \A p \in Nodes : heartbeat[p] <= heartbeat'[p]
      BY <2>0, <3>1
    <3> QED
      BY <2>2, <3>1, <3>2 DEF RealTable, TypeOK
  <2>10. ASSUME \/ \E m \in net : Lose(m)
                \/ \E group \in Groups : Partition(group)
                \/ Heal \/ UNCHANGED vars
         PROVE  /\ \A q \in Nodes : RealTable(table'[q], heartbeat')
                /\ \A m \in net' : RealView(m.view, heartbeat')
    <3>1. heartbeat' = heartbeat /\ table' = table /\ net' \subseteq net
      BY <2>10 DEF Lose, Partition, Heal, vars
    <3>2. \A p \in Nodes : heartbeat[p] <= heartbeat'[p]
      BY <2>0, <3>1
    <3> QED
      BY <2>2, <3>1, <3>2
  <2>11. ASSUME NextRound
         PROVE  /\ \A q \in Nodes : RealTable(table'[q], heartbeat')
                /\ \A m \in net' : RealView(m.view, heartbeat')
    <3>1. net' = {}
      BY <2>11 DEF NextRound
    <3>2. ASSUME NEW n \in Nodes, NEW p \in Nodes, table'[n][p] # None
          PROVE  table'[n][p].heartbeat <= heartbeat'[p]
      <4>1. table[n][p] # None /\ table[n][p] \in Peer
        BY <2>0, <2>11, <3>2 DEF NextRound
      <4>2. table'[n][p].heartbeat = Rank(p, table[n][p].heartbeat)
        BY <2>11, <4>1 DEF NextRound, Peer
      <4>3. heartbeat'[p] = Rank(p, heartbeat[p])
        BY <2>11 DEF NextRound
      <4>4. table[n][p].heartbeat \in Nat /\ table[n][p].heartbeat <= heartbeat[p]
        BY <4>1, CopiesType DEF HeartbeatsAreReal
      <4> QED
        BY <2>0, <4>2, <4>3, <4>4, CopiesType, RankMonotone
    <3> QED
      BY <3>1, <3>2 DEF RealTable
  <2> QED
    BY <2>3, <2>5, <2>6, <2>7, <2>8, <2>9, <2>10, <2>11 DEF Next
<1> QED
  BY <1>1, <1>2, MembershipTypeCorrect, PTL DEF Spec

-----------------------------------------------------------------------------
(* Accuracy of the heartbeat detector *)

\* Every digest goes to all known peers.
FullFanout == Cardinality(Nodes) <= Fanout + 1

\* Nobody has heard of a node that is not started, nor it of anybody; and what
\* was never partitioned is whole.
NewAreUnknown ==
    /\ \A n \in Nodes : status[n] = "new" =>
          /\ \A p \in Nodes : table[n][p] = None /\ table[p][n] = None
          /\ \A m \in net : m.view[n] = None
    /\ splits = 0 => cut = {}

\* A message that tells p of n is under way.
Telling(n, p) == \E m \in net : m.dst = p /\ m.view[n] # None

\* News of p for n is under way.
Answering(p, n) ==
    \E m \in net : m.dst = n /\ m.view[p] # None /\ m.view[p] > table[n][p].heartbeat

\* How old n's record of p may be.  A peer that does not know n yet has to be told
\* before it answers, and each of the two takes a round when nobody else tells.
Heard(n, p) ==
    /\ table[n][p].age <= losses + 2
    /\ table[p][n] = None => /\ table[n][p].age <= losses + 1
                             /\ table[n][p].age = losses + 1 => n \notin ticked \/ Telling(n, p)
    /\ table[n][p].age = losses + 2 => p \notin ticked \/ Answering(p, n)

FewLosses == splits = 0 /\ losses < DeadAfter - 2

RunningAreHeard ==
    FewLosses => \A n, p \in Up : table[n][p] # None => Heard(n, p)

\* With a fanout for all, the targets of a push are the peers it knows.
LEMMA TargetsAll ==
    ASSUME FullFanout, NEW n \in Nodes, NEW tab, tab[n] = None, NEW T \in Targets(tab)
    PROVE  T = Known(tab)
<1>1. Known(tab) \in SUBSET (Nodes \ {n}) /\ T \in SUBSET Known(tab)
  BY DEF Known, Targets
<1>2. IsFiniteSet(Nodes) /\ IsFiniteSet(Nodes \ {n})
  BY NodesAssumption, FS_Subset
<1>3. Cardinality(Nodes \ {n}) = Cardinality(Nodes) - 1
  BY <1>2, FS_RemoveElement
<1>4. IsFiniteSet(Known(tab)) /\ Cardinality(Known(tab)) <= Cardinality(Nodes \ {n})
  BY <1>1, <1>2, FS_Subset
<1>5. /\ Cardinality(Known(tab)) \in Nat /\ Cardinality(Nodes) \in Nat
      /\ Cardinality(Nodes \ {n}) \in Nat
  BY <1>2, <1>4, FS_CardinalityType
<1>6. Cardinality(Known(tab)) <= Fanout
  BY <1>3, <1>4, <1>5, MembershipBounds DEF FullFanout
<1>7. Cardinality(T) = Cardinality(Known(tab))
  BY <1>6 DEF Targets
<1> QED
  BY <1>1, <1>4, <1>7, FS_Subset

\* When the network is whole all that is sent is under way.
LEMMA SentWhole ==
    ASSUME cut = {}, NEW msgs
    PROVE  \A m : m \in net \/ m \in msgs => m \in Sent(msgs)
BY DEF Sent, CanReach

\* A digest for one of its targets.
LEMMA DigestFor ==
    ASSUME NEW n \in Nodes, NEW targets \in SUBSET Nodes, NEW p \in targets,
           NEW tab, NEW hb
    PROVE  \E m \in Digests(n, targets, tab, hb) :
              m.dst = p /\ m.view = BuildDigest(n, tab, hb)
<1> DEFINE m == [type |-> "digest", src |-> n, dst |-> p, view |-> BuildDigest(n, tab, hb)]
<1>1. m \in Digests(n, targets, tab, hb)
  BY DEF Digests
<1>2. m.dst = p /\ m.view = BuildDigest(n, tab, hb)
  OBVIOUS
<1> QED
  BY <1>1, <1>2

\* Silence keeps a record below DeadAfter, and its age.
LEMMA AgeTableKeeps ==
    ASSUME NEW tab \in [Nodes -> Peer \cup {None}], NEW p \in Nodes
    PROVE  /\ AgeTable(tab)[p] # None => tab[p] # None /\ AgeTable(tab)[p].age = tab[p].age
           /\ tab[p] # None /\ tab[p].age < DeadAfter => AgeTable(tab)[p] # None
<1>1. tab[p] \in Peer \cup {None}
  OBVIOUS
<1>2. CASE tab[p] = None
  BY <1>2 DEF AgeTable, AgePeer
<1>3. CASE tab[p] \in Peer
  <2>1. tab[p].age \in Nat /\ tab[p] # None
    BY <1>3, NonePeerAssumption DEF Peer
  <2>2. [tab[p] EXCEPT !.state = "suspect"] \in Peer
    BY <1>3 DEF Peer
  <2>3. [tab[p] EXCEPT !.state = "suspect"].age = tab[p].age
    BY <1>3 DEF Peer
  <2> QED
    BY <1>3, <2>1, <2>2, <2>3, NonePeerAssumption, TimersAssumption DEF AgeTable, AgePeer
<1> QED
  BY <1>1, <1>2, <1>3

\* The table new results from old: a record is fresh, or as it was; and one is
\* fresh where view tells of an unknown peer, or has news.
FreshFrom(n, old, view, new) ==
    \A p \in Nodes :
        /\ new[p] = old[p] \/ (new[p] # None /\ new[p].age = 0)
        /\ p # n /\ view[p] # None /\ (old[p] = None \/ view[p] > old[p].heartbeat) =>
              new[p] # None /\ new[p].age = 0

\* A digest makes fresh records where it has news.
LEMMA MergeViewFresh ==
    ASSUME NEW n \in Nodes, NEW tab \in [Nodes -> Peer \cup {None}], NEW view \in View
    PROVE  FreshFrom(n, tab, view, MergeView(n, tab, view))
<1>1. \A h \in Nat : FreshPeer(h) # None /\ FreshPeer(h).age = 0
  <2>1. \A h \in Nat : FreshPeer(h) \in Peer
    BY TimersAssumption DEF FreshPeer, Peer
  <2> QED
    BY <2>1, NonePeerAssumption DEF FreshPeer
<1>2. \A p \in Nodes : view[p] # None => view[p] \in Nat
  BY DEF View
<1> QED
  BY <1>1, <1>2 DEF MergeView, Merges, Refreshed, FreshFrom

\* A round that ends keeps the records, older.
LEMMA RoundKeeps ==
    ASSUME TypeOK, NextRound, NEW n \in Nodes, NEW p \in Nodes, table[n][p] # None
    PROVE  table'[n][p] # None /\ table'[n][p].age = Older(table[n][p].age, DeadAfter)
<1>1. table[n][p] \in Peer /\ table[n][p].age \in 0..DeadAfter
  BY DEF TypeOK, Peer
<1>2. PICK h : h = Rank(p, table[n][p].heartbeat)
  OBVIOUS
<1>3. PICK a : a = Older(table[n][p].age, DeadAfter)
  OBVIOUS
<1>4. h \in Nat
  BY <1>2, CopiesType, RankMonotone
<1>5. a \in 0..DeadAfter
  BY <1>1, <1>3, TimersAssumption DEF Older
<1>6. table'[n][p] = [[table[n][p] EXCEPT !.heartbeat = h] EXCEPT !.age = a]
  BY <1>2, <1>3 DEF NextRound
<1>7. table'[n][p] \in Peer /\ table'[n][p].age = a
  BY <1>1, <1>4, <1>5, <1>6 DEF Peer
<1> QED
  BY <1>3, <1>7, NonePeerAssumption

\* A step that leaves n's record of p and p's knowledge of n alone, ends no wait
\* for a tick and takes no message to either away keeps the bound.
LEMMA HeardKept ==
    ASSUME NEW n \in Nodes, NEW p \in Nodes, Heard(n, p),
           table'[n][p].age = table[n][p].age,
           table'[n][p].heartbeat = table[n][p].heartbeat,
           table'[p][n] = None => table[p][n] = None,
           losses' = losses,
           n \in ticked' => n \in ticked,
           p \in ticked' => p \in ticked,
           \A m \in net : m.dst = n \/ m.dst = p => m \in net'
    PROVE  Heard(n, p)'
<1>1. Telling(n, p) => Telling(n, p)'
  BY DEF Telling
<1>2. Answering(p, n) => Answering(p, n)'
  BY DEF Answering
<1> QED
  BY <1>1, <1>2 DEF Heard

\* Only a node that is started is ever heard of, and only a partition cuts.
LEMMA NewStep ==
    ASSUME TypeOK, NewAreUnknown, [Next]_vars
    PROVE  NewAreUnknown'
<1>0. /\ \A n \in Nodes : /\ table[n] \in [Nodes -> Peer \cup {None}]
                          /\ heartbeat[n] \in Nat /\ heartbeat[n] + 1 \in Nat
                          /\ AgedTable(n) \in [Nodes -> Peer \cup {None}]
                          /\ status[n] \in {"new", "up", "down"}
      /\ \A m \in net : m.src \in Nodes /\ m.dst \in Nodes /\ m.view \in View
      /\ splits \in Nat /\ DOMAIN table = Nodes /\ DOMAIN status = Nodes
  BY AgeTableType, MembershipBounds DEF TypeOK, AgedTable, Message
<1>d. ASSUME NEW w \in Nodes, NEW n \in Nodes, w # n, NEW targets \in SUBSET Nodes,
             NEW tab \in [Nodes -> Peer \cup {None}], NEW hb \in Nat, tab[w] = None
      PROVE  \A m \in Digests(n, targets, tab, hb) : m.view[w] = None
  BY <1>d, DigestsType, BuildDigestType
<1>j. ASSUME NEW w \in Nodes, NEW n \in Nodes, w # n, NEW hb \in Nat
      PROVE  \A m \in Joins(n, hb) : m.view[w] = None
  BY <1>j, JoinsType
<1>s. \A msgs : \A m \in Sent(msgs) : m \in net \/ m \in msgs
  BY DEF Sent
<1>a. \A n, p \in Nodes : table[n][p] = None => AgedTable(n)[p] = None
  BY DEF AgedTable, AgeTable, AgePeer
<1>1. ASSUME NEW n \in Nodes, Start(n) PROVE NewAreUnknown'
  <2>1. ASSUME NEW w \in Nodes, status'[w] = "new"
        PROVE  status[w] = "new" /\ w # n
    BY <1>0, <1>1, <2>1 DEF Start
  <2>2. ASSUME NEW w \in Nodes, status'[w] = "new"
        PROVE  \A m \in net' : m.view[w] = None
    BY <1>0, <1>1, <1>j, <1>s, <2>1, <2>2 DEF Start, NewAreUnknown
  <2> QED
    BY <1>1, <2>1, <2>2 DEF Start, NewAreUnknown, faults
<1>2. ASSUME NEW n \in Nodes, NEW targets \in SUBSET Nodes, Tick(n, targets) PROVE NewAreUnknown'
  <2>1. /\ status' = status /\ cut' = cut /\ splits' = splits /\ status[n] = "up"
        /\ table' = [table EXCEPT ![n] = AgedTable(n)]
        /\ net' = Sent(Digests(n, targets, AgedTable(n), heartbeat[n] + 1))
    BY <1>2 DEF Tick, CanTick, faults
  <2>2. ASSUME NEW w \in Nodes, status[w] = "new"
        PROVE  /\ \A p \in Nodes : table'[w][p] = None /\ table'[p][w] = None
               /\ \A m \in net' : m.view[w] = None
    <3>1. w # n /\ AgedTable(n)[w] = None
      BY <1>a, <2>1, <2>2 DEF NewAreUnknown
    <3>2. \A p \in Nodes : table'[w][p] = None /\ table'[p][w] = None
      BY <1>0, <2>1, <2>2, <3>1 DEF NewAreUnknown
    <3>3. \A m \in net' : m.view[w] = None
      BY <1>0, <1>d, <1>s, <2>1, <2>2, <3>1 DEF NewAreUnknown
    <3> QED
      BY <3>2, <3>3
  <2> QED
    BY <2>1, <2>2 DEF NewAreUnknown
<1>3. ASSUME NEW n \in Nodes, Knock(n) PROVE NewAreUnknown'
  <2>1. /\ status' = status /\ cut' = cut /\ splits' = splits /\ status[n] = "up"
        /\ table' = [table EXCEPT ![n] = AgedTable(n)]
        /\ net' = Sent(Joins(n, heartbeat[n] + 1))
    BY <1>3 DEF Knock, CanTick, faults
  <2>2. ASSUME NEW w \in Nodes, status[w] = "new"
        PROVE  /\ \A p \in Nodes : table'[w][p] = None /\ table'[p][w] = None
               /\ \A m \in net' : m.view[w] = None
    <3>1. w # n /\ AgedTable(n)[w] = None
      BY <1>a, <2>1, <2>2 DEF NewAreUnknown
    <3>2. \A p \in Nodes : table'[w][p] = None /\ table'[p][w] = None
      BY <1>0, <2>1, <2>2, <3>1 DEF NewAreUnknown
    <3>3. \A m \in net' : m.view[w] = None
      BY <1>0, <1>j, <1>s, <2>1, <2>2, <3>1 DEF NewAreUnknown
    <3> QED
      BY <3>2, <3>3
  <2> QED
    BY <2>1, <2>2 DEF NewAreUnknown
<1>4. ASSUME NEW n \in Nodes, NEW targets \in SUBSET Nodes, Resume(n, targets) PROVE NewAreUnknown'
  <2>1. /\ status' = status /\ cut' = cut /\ splits' = splits /\ status[n] = "up"
        /\ table' = table
        /\ net' = Sent(Digests(n, targets, table[n], heartbeat[n]))
    BY <1>4 DEF Resume, faults, TypeOK, Up
  <2>2. ASSUME NEW w \in Nodes, status[w] = "new"
        PROVE  \A m \in net' : m.view[w] = None
    <3>1. w # n /\ table[n][w] = None
      BY <2>1, <2>2 DEF NewAreUnknown
    <3> QED
      BY <1>0, <1>d, <1>s, <2>1, <2>2, <3>1 DEF NewAreUnknown
  <2> QED
    BY <2>1, <2>2 DEF NewAreUnknown
<1>5. ASSUME NEW m \in net, Receive(m) PROVE NewAreUnknown'
  <2> DEFINE tab == MergeView(m.dst, table[m.dst], m.view)
  <2>1. /\ status' = status /\ cut' = cut /\ splits' = splits /\ status[m.dst] = "up"
        /\ table' = [table EXCEPT ![m.dst] = tab]
        /\ net' = Sent(Replies(m, tab)) \ {m}
    BY <1>5 DEF Receive, faults
  <2>2. tab \in [Nodes -> Peer \cup {None}]
    BY <1>0, MergeViewType
  <2>3. \A p \in Nodes : tab[p] = table[m.dst][p] \/ m.view[p] # None
    <3>1. PICK d, old, view : d = m.dst /\ old = table[m.dst] /\ view = m.view
      OBVIOUS
    <3>2. d \in Nodes /\ old \in [Nodes -> Peer \cup {None}] /\ view \in View
      BY <1>0, <3>1
    <3>3. \A p \in Nodes : MergeView(d, old, view)[p] = old[p] \/ view[p] # None
      BY <3>2, MergeViewType
    <3> QED
      BY <3>1, <3>3
  <2> HIDE DEF tab
  <2>4. ASSUME NEW w \in Nodes, status[w] = "new"
        PROVE  /\ \A p \in Nodes : table'[w][p] = None /\ table'[p][w] = None
               /\ \A r \in net' : r.view[w] = None
    <3>1. w # m.dst /\ tab[w] = None
      BY <1>0, <2>1, <2>3, <2>4 DEF NewAreUnknown
    <3>2. \A p \in Nodes : table'[w][p] = None /\ table'[p][w] = None
      BY <1>0, <2>1, <2>4, <3>1 DEF NewAreUnknown
    <3>3. \A r \in Replies(m, tab) : r.view[w] = None
      <4>1. m.dst \in Nodes /\ {m.src} \in SUBSET Nodes /\ heartbeat[m.dst] \in Nat
        BY <1>0
      <4>2. \A r \in Digests(m.dst, {m.src}, tab, heartbeat[m.dst]) : r.view[w] = None
        BY <1>d, <2>2, <3>1, <4>1
      <4> QED
        BY <4>2 DEF Replies
    <3>4. \A r \in net' : r.view[w] = None
      BY <1>s, <2>1, <2>4, <3>3 DEF NewAreUnknown
    <3> QED
      BY <3>2, <3>4
  <2> QED
    BY <2>1, <2>4 DEF NewAreUnknown
<1>6. ASSUME NEW m \in net, Lose(m) PROVE NewAreUnknown'
  BY <1>6 DEF Lose, NewAreUnknown
<1>7. ASSUME NEW n \in Nodes, Crash(n) PROVE NewAreUnknown'
  BY <1>0, <1>7 DEF Crash, NewAreUnknown, faults
<1>8. ASSUME NEW group \in Groups, Partition(group) PROVE NewAreUnknown'
  <2>1. splits' # 0
    BY <1>0, <1>8 DEF Partition
  <2> QED
    BY <1>8, <2>1 DEF Partition, NewAreUnknown
<1>9. CASE Heal
  BY <1>9 DEF Heal, NewAreUnknown
<1>10. CASE NextRound
  <2>1. \A n, p \in Nodes : table[n][p] = None => table'[n][p] = None
    BY <1>10 DEF NextRound
  <2> QED
    BY <1>10, <2>1 DEF NextRound, NewAreUnknown, faults
<1>11. CASE UNCHANGED vars
  BY <1>11 DEF vars, faults, NewAreUnknown
<1> QED
  BY <1>1, <1>2, <1>3, <1>4, <1>5, <1>6, <1>7, <1>8, <1>9, <1>10, <1>11 DEF Next, NewAreUnknown

\* While few messages are lost, running peers that know of each other are heard of
\* in time: each step keeps the bound on the age of their records.
LEMMA HeardStep ==
    ASSUME FullFanout, TypeOK, TypeOK', HeartbeatsAreReal, NewAreUnknown, RunningAreHeard,
           [Next]_vars
    PROVE  RunningAreHeard'
<1> SUFFICES ASSUME FewLosses', NEW n \in Up', NEW p \in Up', table'[n][p] # None
             PROVE  Heard(n, p)'
  BY DEF RunningAreHeard
<1>0. /\ \A q \in Nodes : /\ table[q] \in [Nodes -> Peer \cup {None}]
                          /\ table[q][q] = None
                          /\ heartbeat[q] \in Nat /\ heartbeat[q] + 1 \in Nat
                          /\ AgedTable(q) \in [Nodes -> Peer \cup {None}]
                          /\ AgedTable(q)[q] = None
      /\ \A m \in net : m.src \in Nodes /\ m.dst \in Nodes /\ m.view \in View
      /\ splits \in Nat /\ losses \in Nat /\ DOMAIN table = Nodes /\ DOMAIN status = Nodes
  BY AgeTableType, MembershipBounds DEF TypeOK, AgedTable, Message
<1>n. n \in Nodes /\ p \in Nodes /\ n # p /\ status'[n] = "up" /\ status'[p] = "up"
  BY DEF Up, TypeOK
<1>p. \A q, r \in Nodes : table[q][r] # None =>
         table[q][r] \in Peer /\ table[q][r].age \in Nat /\ table[q][r].heartbeat \in Nat
  BY <1>0 DEF Peer
<1>d. DeadAfter \in Nat
  BY TimersAssumption
<1>h. ASSUME FewLosses, NEW q \in Nodes, NEW r \in Nodes, status[q] = "up", status[r] = "up",
             table[q][r] # None
      PROVE  Heard(q, r) /\ table[q][r].age < DeadAfter
  <2>1. Heard(q, r)
    BY <1>h DEF RunningAreHeard, Up
  <2> QED
    BY <1>0, <1>d, <1>h, <1>p, <2>1 DEF Heard, FewLosses
<1>f. splits' = splits /\ losses' = losses => FewLosses
  BY DEF FewLosses
<1>c. FewLosses => cut = {}
  BY DEF FewLosses, NewAreUnknown
<1>a. \A q, r \in Nodes : AgedTable(q)[r] # None =>
         /\ table[q][r] # None
         /\ AgedTable(q)[r].heartbeat = table[q][r].heartbeat
         /\ AgedTable(q)[r].age = table[q][r].age
  BY <1>0, AgeTableType, AgeTableKeeps DEF AgedTable
<1>k. \A q, r \in Nodes : table[q][r] # None /\ table[q][r].age < DeadAfter =>
         AgedTable(q)[r] # None
  BY <1>0, AgeTableKeeps DEF AgedTable
<1>1. ASSUME NEW q \in Nodes, Start(q) PROVE Heard(n, p)'
  <2>1. /\ status' = [status EXCEPT ![q] = "up"] /\ status[q] = "new" /\ table' = table
        /\ ticked' = ticked \cup {q} /\ net' = Sent(Joins(q, heartbeat[q]))
        /\ losses' = losses /\ FewLosses
    BY <1>1, <1>f DEF Start, faults
  <2>2. n # q /\ p # q
    BY <1>n, <2>1 DEF NewAreUnknown
  <2>3. Heard(n, p)
    BY <1>0, <1>h, <1>n, <2>1, <2>2
  <2>4. \A m \in net : m \in net'
    BY <1>c, <2>1, SentWhole
  <2> QED
    BY <1>n, <2>1, <2>2, <2>3, <2>4, HeardKept
<1>2. ASSUME NEW q \in Nodes, NEW targets \in SUBSET Nodes, Tick(q, targets) PROVE Heard(n, p)'
  <2> DEFINE msgs == Digests(q, targets, AgedTable(q), heartbeat[q] + 1)
  <2>1. /\ status' = status /\ ticked' = ticked \cup {q} /\ status[q] = "up"
        /\ table' = [table EXCEPT ![q] = AgedTable(q)]
        /\ net' = Sent(msgs) /\ targets \in Targets(AgedTable(q))
        /\ losses' = losses /\ FewLosses
    BY <1>2, <1>f DEF Tick, CanTick, faults
  <2>2. targets = Known(AgedTable(q))
    BY <1>0, <2>1, TargetsAll
  <2>3. \A m : m \in net \/ m \in msgs => m \in net'
    BY <1>c, <2>1, SentWhole
  <2>4. ASSUME NEW r \in Nodes, AgedTable(q)[r] # None
        PROVE  \E m \in net' : m.dst = r /\ m.view[q] = heartbeat[q] + 1
    <3>1. r \in targets
      BY <2>2, <2>4 DEF Known
    <3>2. PICK m \in msgs : m.dst = r /\ m.view = BuildDigest(q, AgedTable(q), heartbeat[q] + 1)
      BY <3>1, DigestFor
    <3>3. m.view[q] = heartbeat[q] + 1
      BY <1>0, <3>2, BuildDigestType
    <3> QED
      BY <2>3, <3>2, <3>3
  <2>5. table[n][p] # None
    BY <1>0, <1>a, <1>n, <2>1
  <2>6. Heard(n, p) /\ table[n][p].age < DeadAfter
    BY <1>h, <1>n, <2>1, <2>5
  <2> HIDE DEF msgs
  <2>7. CASE q # n /\ q # p
    <3>1. table'[n] = table[n] /\ table'[p] = table[p]
      BY <1>n, <2>1, <2>7
    <3> QED
      BY <1>n, <2>1, <2>3, <2>6, <2>7, <3>1, HeardKept
  <2>8. CASE q = n
    <3>1. /\ table'[n] = AgedTable(n) /\ table'[p] = table[p]
          /\ AgedTable(n)[p] # None
      BY <1>0, <1>n, <2>1, <2>8
    <3>2. /\ table'[n][p].age = table[n][p].age
          /\ table'[n][p].heartbeat = table[n][p].heartbeat
      BY <1>a, <1>n, <3>1
    <3>3. Telling(n, p)'
      <4>1. PICK m \in net' : m.dst = p /\ m.view[n] = heartbeat[n] + 1
        BY <1>n, <2>4, <2>8, <3>1
      <4>2. heartbeat[n] + 1 # None
        BY <1>0, <1>n, NonePeerAssumption
      <4> QED
        BY <4>1, <4>2 DEF Telling
    <3>4. Answering(p, n) => Answering(p, n)'
      BY <2>3, <3>2 DEF Answering
    <3>5. p \in ticked' => p \in ticked
      BY <1>n, <2>1, <2>8
    <3> QED
      BY <2>1, <2>6, <3>1, <3>2, <3>3, <3>4, <3>5 DEF Heard
  <2>9. CASE q = p
    <3>1. table'[n] = table[n] /\ table'[p] = AgedTable(p)
      BY <1>0, <1>n, <2>1, <2>9
    <3>2. table[p][n] # None => AgedTable(p)[n] # None
      BY <1>h, <1>k, <1>n, <2>1
    <3>3. AgedTable(p)[n] # None => Answering(p, n)'
      <4> SUFFICES ASSUME AgedTable(p)[n] # None PROVE Answering(p, n)'
        OBVIOUS
      <4>1. PICK m \in net' : m.dst = n /\ m.view[p] = heartbeat[p] + 1
        BY <1>n, <2>4, <2>9
      <4>2. heartbeat[p] + 1 # None
        BY <1>0, <1>n, NonePeerAssumption
      <4>3. table[n][p].heartbeat <= heartbeat[p] /\ table[n][p].heartbeat \in Nat
        BY <1>n, <1>p, <2>5 DEF HeartbeatsAreReal
      <4>4. heartbeat[p] + 1 > table[n][p].heartbeat
        BY <1>0, <1>n, <4>3
      <4> QED
        BY <3>1, <4>1, <4>2, <4>4 DEF Answering
    <3>4. Telling(n, p) => Telling(n, p)'
      BY <2>3 DEF Telling
    <3>5. n \in ticked' => n \in ticked
      BY <1>n, <2>1, <2>9
    <3>6. table[p][n] = None => table[n][p].age # losses + 2
      BY <1>0, <1>n, <1>p, <2>5, <2>6 DEF Heard
    <3> QED
      BY <2>1, <2>6, <3>1, <3>2, <3>3, <3>4, <3>5, <3>6 DEF Heard
  <2> QED
    BY <2>7, <2>8, <2>9
<1>3. ASSUME NEW q \in Nodes, Knock(q) PROVE Heard(n, p)'
  <2>1. /\ status' = status /\ ticked' = ticked \cup {q} /\ status[q] = "up"
        /\ table' = [table EXCEPT ![q] = AgedTable(q)]
        /\ net' = Sent(Joins(q, heartbeat[q] + 1)) /\ Known(AgedTable(q)) = {}
        /\ losses' = losses /\ FewLosses
    BY <1>3, <1>f DEF Knock, CanTick, faults
  <2>2. \A r \in Nodes : AgedTable(q)[r] = None
    BY <2>1 DEF Known
  <2>3. \A m \in net : m \in net'
    BY <1>c, <2>1, SentWhole
  <2>4. q # n /\ table'[n] = table[n]
    BY <1>0, <1>n, <2>1, <2>2
  <2>5. Heard(n, p)
    BY <1>h, <1>n, <2>1, <2>4
  <2>6. CASE q # p
    <3>1. table'[p] = table[p]
      BY <1>n, <2>1, <2>6
    <3> QED
      BY <1>n, <2>1, <2>3, <2>4, <2>5, <2>6, <3>1, HeardKept
  <2>7. CASE q = p
    <3>1. table[p][n] = None
      BY <1>h, <1>k, <1>n, <2>1, <2>2, <2>7
    <3>2. table[n][p].age # losses + 2
      BY <1>0, <1>n, <1>p, <2>4, <2>5, <3>1 DEF Heard
    <3>3. Telling(n, p) => Telling(n, p)'
      BY <2>3 DEF Telling
    <3>4. n \in ticked' => n \in ticked
      BY <2>1, <2>4
    <3> QED
      BY <2>1, <2>4, <2>5, <3>1, <3>2, <3>3, <3>4 DEF Heard
  <2> QED
    BY <2>6, <2>7
<1>4. ASSUME NEW q \in Nodes, NEW targets \in SUBSET Nodes, Resume(q, targets) PROVE Heard(n, p)'
  <2>1. /\ status' = status /\ ticked' = ticked /\ table' = table
        /\ net' = Sent(Digests(q, targets, table[q], heartbeat[q]))
        /\ losses' = losses /\ FewLosses
    BY <1>4, <1>f DEF Resume, faults
  <2>2. Heard(n, p)
    BY <1>h, <1>n, <2>1
  <2>3. \A m \in net : m \in net'
    BY <1>c, <2>1, SentWhole
  <2> QED
    BY <1>n, <2>1, <2>2, <2>3, HeardKept
<1>5. ASSUME NEW m \in net, Receive(m) PROVE Heard(n, p)'
  <2> DEFINE tab == MergeView(m.dst, table[m.dst], m.view)
  <2>1. /\ status' = status /\ ticked' = ticked /\ status[m.dst] = "up"
        /\ table' = [table EXCEPT ![m.dst] = tab]
        /\ net' = Sent(Replies(m, tab)) \ {m}
        /\ losses' = losses /\ FewLosses
    BY <1>5, <1>f DEF Receive, faults
  <2>2. m.dst \in Nodes /\ m.view \in View
    BY <1>0
  <2>3. FreshFrom(m.dst, table[m.dst], m.view, tab)
    <3>1. table[m.dst] \in [Nodes -> Peer \cup {None}]
      BY <1>0, <2>2
    <3> QED
      BY <2>2, <3>1, MergeViewFresh
  <2> HIDE DEF tab
  <2>4. \A r \in net : r # m => r \in net'
    BY <1>c, <2>1, SentWhole
  <2>5. \A r \in Nodes : table'[r] = IF r = m.dst THEN tab ELSE table[r]
    BY <1>0, <2>1, <2>2
  <2>6. CASE m.dst = n /\ tab[p] # table[n][p]
    <3>1. table'[n][p].age = 0
      BY <1>n, <2>3, <2>5, <2>6 DEF FreshFrom
    <3> QED
      BY <1>0, <2>1, <3>1 DEF Heard
  <2>7. CASE ~(m.dst = n /\ tab[p] # table[n][p])
    <3>1. table'[n][p] = table[n][p]
      BY <1>n, <2>5, <2>7
    <3>2. Heard(n, p)
      BY <1>h, <1>n, <2>1, <3>1
    <3>3. table'[p][n] = None => table[p][n] = None
      BY <1>n, <2>3, <2>5 DEF FreshFrom
    <3>4. Telling(n, p) /\ table'[p][n] = None => Telling(n, p)'
      <4> SUFFICES ASSUME Telling(n, p), table'[p][n] = None PROVE Telling(n, p)'
        OBVIOUS
      <4>1. PICK r \in net : r.dst = p /\ r.view[n] # None
        BY DEF Telling
      <4>2. r # m
        BY <1>n, <2>3, <2>5, <3>3, <4>1 DEF FreshFrom
      <4> QED
        BY <2>4, <4>1, <4>2 DEF Telling
    <3>5. Answering(p, n) => Answering(p, n)' \/ table'[n][p].age = 0
      <4> SUFFICES ASSUME Answering(p, n) PROVE Answering(p, n)' \/ table'[n][p].age = 0
        OBVIOUS
      <4>1. PICK r \in net : /\ r.dst = n /\ r.view[p] # None
                             /\ r.view[p] > table[n][p].heartbeat
        BY DEF Answering
      <4>2. CASE r = m
        BY <1>n, <2>3, <2>5, <4>1, <4>2 DEF FreshFrom
      <4>3. CASE r # m
        BY <2>4, <3>1, <4>1, <4>3 DEF Answering
      <4> QED
        BY <4>2, <4>3
    <3>6. losses + 2 # 0
      BY <1>0
    <3> QED
      BY <2>1, <3>1, <3>2, <3>3, <3>4, <3>5, <3>6 DEF Heard
  <2> QED
    BY <2>6, <2>7
<1>6. ASSUME NEW m \in net, Lose(m) PROVE Heard(n, p)'
  <2>1. /\ status' = status /\ ticked' = ticked /\ table' = table /\ net' = net \ {m}
        /\ splits' = splits
        /\ IF status[m.dst] = "up" THEN losses' = losses + 1 ELSE losses' = losses
    BY <1>6 DEF Lose
  <2>2. FewLosses
    BY <1>0, <1>d, <2>1 DEF FewLosses
  <2>3. Heard(n, p) /\ table[n][p].age \in Nat
    BY <1>h, <1>n, <1>p, <2>1, <2>2
  <2>4. CASE status[m.dst] = "up"
    <3>1. losses' = losses + 1
      BY <2>1, <2>4
    <3>2. table[n][p].age <= losses + 2 /\ (table[p][n] = None => table[n][p].age <= losses + 1)
      BY <2>3 DEF Heard
    <3>3. /\ table[n][p].age <= losses' + 2 /\ table[n][p].age # losses' + 2
          /\ table[p][n] = None => table[n][p].age <= losses' + 1 /\ table[n][p].age # losses' + 1
      BY <1>0, <2>3, <3>1, <3>2
    <3> QED
      BY <2>1, <3>3 DEF Heard
  <2>5. CASE status[m.dst] # "up"
    <3>1. losses' = losses /\ m.dst # n /\ m.dst # p
      BY <1>n, <2>1, <2>5
    <3> QED
      BY <1>n, <2>1, <2>3, <3>1, HeardKept
  <2> QED
    BY <2>4, <2>5
<1>7. ASSUME NEW q \in Nodes, Crash(q) PROVE Heard(n, p)'
  <2>1. /\ status' = [status EXCEPT ![q] = "down"] /\ ticked' = ticked \ {q} /\ net' = net
        /\ table' = [table EXCEPT ![q] = [r \in Nodes |-> None]]
        /\ losses' = losses /\ FewLosses
    BY <1>7, <1>f DEF Crash, faults
  <2>2. q # n /\ q # p
    BY <1>0, <1>n, <2>1
  <2>3. /\ table'[n] = table[n] /\ table'[p] = table[p]
        /\ status[n] = "up" /\ status[p] = "up"
    BY <1>0, <1>n, <2>1, <2>2
  <2>4. Heard(n, p)
    BY <1>h, <1>n, <2>1, <2>3
  <2> QED
    BY <1>n, <2>1, <2>3, <2>4, HeardKept
<1>8. ASSUME NEW group \in Groups, Partition(group) PROVE Heard(n, p)'
  <2>1. splits' # 0
    BY <1>0, <1>8 DEF Partition
  <2> QED
    BY <2>1 DEF FewLosses
<1>9. CASE Heal \/ UNCHANGED vars
  <2>1. /\ status' = status /\ ticked' = ticked /\ table' = table /\ net' = net
        /\ losses' = losses /\ FewLosses
    BY <1>9, <1>f DEF Heal, vars, faults
  <2>2. Heard(n, p)
    BY <1>h, <1>n, <2>1
  <2> QED
    BY <1>n, <2>1, <2>2, HeardKept
<1>10. CASE NextRound
  <2>1. /\ status' = status /\ ticked' = {} /\ net = {} /\ Up \subseteq ticked
        /\ losses' = losses /\ FewLosses
    BY <1>10, <1>f DEF NextRound, faults
  <2>2. table[n][p] # None /\ (table'[p][n] = None => table[p][n] = None)
    <3>1. \A q, r \in Nodes : table[q][r] = None => table'[q][r] = None
      BY <1>10 DEF NextRound
    <3>2. \A q, r \in Nodes : table'[q][r] = None => table[q][r] = None
      BY <1>10, RoundKeeps
    <3> QED
      BY <1>n, <3>1, <3>2
  <2>3. table'[n][p].age = Older(table[n][p].age, DeadAfter)
    BY <1>10, <1>n, <2>2, RoundKeeps
  <2>4. Heard(n, p) /\ table[n][p].age < DeadAfter /\ table[n][p].age \in Nat
    BY <1>h, <1>n, <1>p, <2>1, <2>2
  <2>5. ~Telling(n, p) /\ ~Answering(p, n) /\ n \in ticked /\ p \in ticked
    BY <1>n, <2>1 DEF Telling, Answering, Up
  <2>6. /\ table[n][p].age <= losses + 1
        /\ table[p][n] = None => table[n][p].age <= losses
    <3>1. /\ table[n][p].age <= losses + 2 /\ table[n][p].age # losses + 2
          /\ table[p][n] = None => /\ table[n][p].age <= losses + 1
                                   /\ table[n][p].age # losses + 1
      BY <2>4, <2>5 DEF Heard
    <3>2. losses \in Nat /\ table[n][p].age \in Nat
      BY <1>0, <2>4
    <3> QED
      BY <3>1, <3>2
  <2>7. table'[n][p].age = table[n][p].age + 1
    BY <2>3, <2>4 DEF Older
  <2>8. /\ table'[n][p].age <= losses' + 2
        /\ table'[p][n] = None => table'[n][p].age <= losses' + 1
    BY <1>0, <2>1, <2>2, <2>4, <2>6, <2>7
  <2> QED
    BY <2>1, <2>8 DEF Heard
<1> QED
  BY <1>1, <1>2, <1>3, <1>4, <1>5, <1>6, <1>7, <1>8, <1>9, <1>10 DEF Next

\* Accuracy of the failure detector, where every digest goes to all known peers
\* (as in a swarm of up to fanout + 1 nodes): in a swarm that was never
\* partitioned, whatever crashes, a tick evicts a running peer only after at least
\* DeadAfter - 2 messages to running nodes were lost.
THEOREM SilenceEvicts ==
    ASSUME FullFanout
    PROVE  Spec => [][\A n, p \in Nodes :
                         EvictsRunning(n, p) /\ splits = 0 => losses >= DeadAfter - 2]_vars
<1> DEFINE I == TypeOK /\ HeartbeatsAreReal
           J == NewAreUnknown /\ RunningAreHeard
           A == \A n, p \in Nodes :
                   EvictsRunning(n, p) /\ splits = 0 => losses >= DeadAfter - 2
<1>1. Init => J
  BY DEF Init, NewAreUnknown, RunningAreHeard, Up
<1>2. I /\ I' /\ J /\ [Next]_vars => J'
  BY NewStep, HeardStep
<1>3. I /\ J /\ [Next]_vars => [A]_vars
  <2> SUFFICES ASSUME I, J, [Next]_vars, NEW n \in Nodes, NEW p \in Nodes,
                      EvictsRunning(n, p), splits = 0, ~(losses >= DeadAfter - 2)
               PROVE  FALSE
    OBVIOUS
  <2>1. /\ \A q \in Nodes : table[q] \in [Nodes -> Peer \cup {None}]
        /\ table[n][p] \in Peer
        /\ losses \in Nat /\ DeadAfter \in Nat /\ DOMAIN table = Nodes /\ DOMAIN status = Nodes
        /\ \A m \in net : m.dst \in Nodes /\ m.view \in View
    BY TimersAssumption, MembershipBounds DEF TypeOK, EvictsRunning, Message
  <2>2. /\ status'[n] = "up" /\ status[p] = "up" /\ table[n][p] # None /\ table'[n][p] = None
    BY DEF EvictsRunning
  <2>3. FewLosses
    BY <2>1 DEF FewLosses
  <2>4. status[n] = "up" => table[n][p].age < DeadAfter
    <3> SUFFICES ASSUME status[n] = "up" PROVE table[n][p].age < DeadAfter
      OBVIOUS
    <3>1. Heard(n, p)
      BY <2>2, <2>3 DEF RunningAreHeard, Up
    <3>2. table[n][p].age \in Nat
      BY <2>1 DEF Peer
    <3> QED
      BY <2>1, <2>3, <3>1, <3>2 DEF Heard, FewLosses
  <2>5. status[n] = "up" => AgedTable(n)[p] # None
    BY <2>1, <2>2, <2>4, AgeTableKeeps DEF AgedTable
  <2>6. ASSUME NEW q \in Nodes, \/ \E targets \in SUBSET Nodes : Tick(q, targets)
                                \/ Knock(q)
        PROVE  FALSE
    <3>1. /\ status' = status /\ table' = [table EXCEPT ![q] = AgedTable(q)]
      BY <2>6 DEF Tick, Knock
    <3> QED
      BY <2>1, <2>2, <2>5, <3>1
  <2>7. ASSUME NEW m \in net, Receive(m) PROVE FALSE
    <3>1. FreshFrom(m.dst, table[m.dst], m.view, MergeView(m.dst, table[m.dst], m.view))
      BY <2>1, MergeViewFresh
    <3> QED
      BY <2>1, <2>2, <2>7, <3>1 DEF Receive, FreshFrom
  <2>8. ASSUME NEW q \in Nodes, Crash(q) PROVE FALSE
    BY <2>1, <2>2, <2>8 DEF Crash
  <2>9. ASSUME NextRound PROVE FALSE
    BY <2>2, <2>9, RoundKeeps
  <2>10. ASSUME table' = table PROVE FALSE
    BY <2>2, <2>10
  <2> QED
    BY <2>6, <2>7, <2>8, <2>9, <2>10
       DEF Next, vars, Start, Resume, Lose, Partition, Heal
<1>4. Spec => []I
  BY MembershipTypeCorrect, HeartbeatsCorrect, PTL
<1> QED
  BY <1>1, <1>2, <1>3, <1>4, PTL DEF Spec

-----------------------------------------------------------------------------
(* Swim *)

\* PINGs go to their subjects and ACKs to Self.
Addressed ==
    \A m \in wire : /\ m.type = "ping" => m.dst = m.subject
                    /\ m.type = "ack" => m.dst = Self

\* A PING to p or an ACK of it is under way.
UnderWay(p) == \E m \in wire : m.subject = p /\ m.type \in {"ping", "ack"}

AnsweredKeepYoung ==
    \A p \in Peers :
        p \in up /\ lost = 0 /\ peers[p] # None /\ ~UnderWay(p) =>
            peers[p].age <= unprobed[p]

SwimTypeInv == SwimTypeOK /\ Addressed
SwimInv == SwimTypeInv /\ AnsweredKeepYoung

-----------------------------------------------------------------------------
(* Operators *)

\* Silence removes a peer or suspects it; only the silence of DeadAfter rounds
\* removes it.
LEMMA AgedPeers ==
    ASSUME NEW tab \in [Nodes -> Peer \cup {None}]
    PROVE  /\ AgeTable(tab) \in [Nodes -> Peer \cup {None}]
           /\ \A p \in Nodes :
                 IF AgeTable(tab)[p] = None THEN tab[p] # None => tab[p].age >= DeadAfter
                 ELSE tab[p] # None /\ AgeTable(tab)[p].age = tab[p].age
<1>1. ASSUME NEW peer \in Peer
      PROVE  /\ [peer EXCEPT !.state = "suspect"] \in Peer
             /\ [peer EXCEPT !.state = "suspect"].age = peer.age
  BY DEF Peer
<1>2. ASSUME NEW peer \in Peer \cup {None}
      PROVE  /\ AgePeer(peer) \in Peer \cup {None}
             /\ AgePeer(peer) = None => peer = None \/ peer.age >= DeadAfter
             /\ AgePeer(peer) # None => peer # None /\ AgePeer(peer).age = peer.age
  BY <1>1, NonePeerAssumption DEF AgePeer
<1> QED
  BY <1>2 DEF AgeTable

\* Ages grow together, up to the cap.
LEMMA OlderType ==
    ASSUME NEW cap \in Nat, NEW a \in 0..cap
    PROVE  /\ Older(a, cap) \in 0..cap
           /\ \A b \in 0..cap : a <= b => Older(a, cap) <= Older(b, cap)
BY DEF Older

\* A probe sends a PING to a known peer, or there is nobody to probe.
LEMMA StartProbeFacts ==
    ASSUME SwimTypeOK, NEW tab \in [Nodes -> Peer \cup {None}], tab[Self] = None, StartProbe(tab)
    PROVE  /\ probe' \in Probe \cup {None} /\ wire' \in SUBSET SwimMessage
           /\ unprobed' \in [Peers -> 0..DeadAfter]
           /\ Addressed => Addressed'
           /\ \/ UNCHANGED <<wire, unprobed>>
              \/ \E p \in Peers : /\ wire' = wire \cup {SwimMsg("ping", p, p)}
                                  /\ \A q \in Peers \ {p} : unprobed'[q] = unprobed[q]
<1>1. CASE ProbeTargets(tab) = {}
  BY <1>1 DEF StartProbe, SwimTypeOK, Addressed
<1>2. CASE ProbeTargets(tab) # {}
  <2>1. PICK p \in ProbeTargets(tab) :
            /\ probe' = [target |-> p, phase |-> "direct", age |-> 0]
            /\ wire' = wire \cup {SwimMsg("ping", p, p)}
            /\ unprobed' = [unprobed EXCEPT ![p] = 0]
    BY <1>2 DEF StartProbe, Send
  <2>2. p \in Peers /\ p \in Nodes
    BY DEF ProbeTargets, Known, Peers
  <2>3. 0 \in 0..ProbeTimeout /\ 0 \in 0..DeadAfter
    BY SwimBounds, TimersAssumption
  <2>4. probe' \in Probe
    BY <2>1, <2>2, <2>3 DEF Probe
  <2>5. SwimMsg("ping", p, p) \in SwimMessage
    BY <2>2 DEF SwimMsg, SwimMessage
  <2>6. /\ unprobed' \in [Peers -> 0..DeadAfter]
        /\ \A q \in Peers \ {p} : unprobed'[q] = unprobed[q]
    BY <2>1, <2>2, <2>3 DEF SwimTypeOK
  <2>7. Addressed => Addressed'
    BY <2>1 DEF Addressed, SwimMsg
  <2> QED
    BY <2>1, <2>2, <2>4, <2>5, <2>6, <2>7 DEF SwimTypeOK
<1> QED
  BY <1>1, <1>2

-----------------------------------------------------------------------------
(* Type correctness *)

\* The types that every step keeps.
LEMMA SwimTypeStep == SwimTypeInv /\ [SwimNext]_swimVars => SwimTypeInv'
<1> SUFFICES ASSUME SwimTypeInv, [SwimNext]_swimVars PROVE SwimTypeInv'
  OBVIOUS
<1> USE DEF SwimTypeInv
<1>0. /\ AgeTable(peers) \in [Nodes -> Peer \cup {None}] /\ AgeTable(peers)[Self] = None
      /\ Self \in Nodes /\ Peers \subseteq Nodes /\ ProbeTimeout \in Nat /\ DeadAfter \in Nat
      /\ 0 \in 0..ProbeTimeout
  BY AgedPeers, SelfAssumption, SwimBounds, TimersAssumption DEF SwimTypeOK, Peers
<1>1. ASSUME NEW tab, TickWaits(tab) PROVE SwimTypeInv'
  BY <1>0, <1>1 DEF TickWaits, ProbeTick, SwimTypeOK, Addressed
<1>2. ASSUME NEW tab, TickStartsProbe(tab) PROVE SwimTypeInv'
  <2>1. tab = AgeTable(peers) /\ StartProbe(tab)
    BY <1>2 DEF TickStartsProbe, ProbeTick
  <2>2. /\ probe' \in Probe \cup {None} /\ wire' \in SUBSET SwimMessage
        /\ unprobed' \in [Peers -> 0..DeadAfter] /\ Addressed'
    BY <1>0, <2>1, StartProbeFacts
  <2> QED
    BY <1>0, <1>2, <2>2 DEF TickStartsProbe, ProbeTick, SwimTypeOK
<1>3. ASSUME NEW tab, TickAsks(tab) PROVE SwimTypeInv'
  <2>1. probe \in Probe /\ probe.target \in Peers
    BY <1>3 DEF TickAsks, SwimTypeOK, Probe
  <2>2. PICK H \in SUBSET (Alive(tab) \ {probe.target}) :
            wire' = wire \cup {SwimMsg("ping_req", h, probe.target) : h \in H}
    BY <1>3 DEF TickAsks, Send
  <2>3. H \subseteq Nodes
    BY DEF Alive, Known
  <2>4. wire' \in SUBSET SwimMessage
    BY <2>1, <2>2, <2>3 DEF SwimMsg, SwimMessage, SwimTypeOK
  <2>5. Addressed'
    BY <2>2 DEF SwimMsg, Addressed
  <2> QED
    BY <1>0, <1>3, <2>4, <2>5 DEF TickAsks, ProbeTick, SwimTypeOK
<1>4. CASE AfterAsking
  <2>1. CASE probe # None
    <3>1. probe \in Probe /\ asking \in 0..ProbeTimeout
      BY <1>4, <2>1 DEF AfterAsking, SwimTypeOK
    <3>2. [probe EXCEPT !.phase = "indirect", !.age = asking] \in Probe
      BY <3>1 DEF Probe
    <3> QED
      BY <1>4, <2>1, <3>2 DEF AfterAsking, SwimTypeOK, Addressed
  <2>2. CASE probe = None
    <3>1. StartProbe(peers)
      BY <1>4, <2>2 DEF AfterAsking
    <3>2. /\ probe' \in Probe \cup {None} /\ wire' \in SUBSET SwimMessage
          /\ unprobed' \in [Peers -> 0..DeadAfter] /\ Addressed'
      BY <3>1, StartProbeFacts DEF SwimTypeOK
    <3> QED
      BY <1>4, <3>2 DEF AfterAsking, SwimTypeOK
  <2> QED
    BY <2>1, <2>2
<1>5. ASSUME NEW m \in wire, HandlePing(m) PROVE SwimTypeInv'
  <2> DEFINE answer == IF m.type = "ping" THEN SwimMsg("ack", Self, m.dst)
                                          ELSE SwimMsg("ping", m.subject, m.subject)
  <2>1. m \in SwimMessage /\ m.subject \in Peers
    BY DEF SwimTypeOK, SwimMessage
  <2>2. m.type = "ping" => m.dst \in Peers
    BY <2>1 DEF Addressed
  <2>3. answer \in SwimMessage
    BY <1>0, <2>1, <2>2 DEF SwimMsg, SwimMessage
  <2>4. wire' = (wire \ {m}) \cup {answer}
    BY <1>5 DEF HandlePing
  <2>5. Addressed'
    BY <2>4 DEF Addressed, SwimMsg
  <2> HIDE DEF answer
  <2>6. wire' \in SUBSET SwimMessage
    BY <2>3, <2>4 DEF SwimTypeOK
  <2> QED
    BY <1>5, <2>5, <2>6 DEF HandlePing, SwimTypeOK
<1>6. ASSUME NEW m \in wire, HandleAck(m) PROVE SwimTypeInv'
  <2>1. m.subject \in Peers /\ m.subject \in Nodes /\ m.subject # Self
    BY DEF SwimTypeOK, SwimMessage, Peers
  <2>2. 0 \in 0..DeadAfter
    BY <1>0
  <2>3. AckedPeer(peers[m.subject]) \in Peer \cup {None}
    BY <2>1, <2>2 DEF AckedPeer, SwimTypeOK, Peer
  <2>4. Addressed'
    BY <1>6 DEF HandleAck, Addressed
  <2> QED
    BY <1>6, <2>1, <2>3, <2>4 DEF HandleAck, SwimTypeOK
<1>7. ASSUME NEW p \in Peers, Hear(p) PROVE SwimTypeInv'
  <2>1. p \in Nodes /\ p # Self
    BY DEF Peers
  <2>2. 0 \in Nat /\ 0 \in 0..DeadAfter
    BY <1>0
  <2>3. FreshPeer(0) \in Peer
    BY <2>2 DEF FreshPeer, Peer
  <2> QED
    BY <1>7, <2>1, <2>3 DEF Hear, Refreshed, SwimTypeOK, Addressed
<1>8. ASSUME NEW m \in wire, LoseSwim(m) PROVE SwimTypeInv'
  <2>1. lost' \in 0..MaxLosses
    BY <1>8, SwimBounds DEF LoseSwim, SwimTypeOK
  <2> QED
    BY <1>8, <2>1 DEF LoseSwim, SwimTypeOK, Addressed
<1>9. ASSUME NEW p \in Peers, CrashPeer(p) PROVE SwimTypeInv'
  BY <1>9 DEF CrashPeer, SwimTypeOK, Addressed, Peers
<1>10. CASE RoundPasses
  <2>1. ASSUME NEW p \in Nodes, peers[p] # None
        PROVE  [peers[p] EXCEPT !.age = Older(@, DeadAfter)] \in Peer
    <3>1. peers[p] \in Peer /\ peers[p].age \in 0..DeadAfter
      BY <2>1 DEF SwimTypeOK, Peer
    <3>2. Older(peers[p].age, DeadAfter) \in 0..DeadAfter
      BY <1>0, <3>1, OlderType
    <3> QED
      BY <3>1, <3>2 DEF Peer
  <2>2. peers' \in [Nodes -> Peer \cup {None}] /\ peers'[Self] = None
    BY <1>0, <1>10, <2>1 DEF RoundPasses, SwimTypeOK
  <2>3. probe' \in Probe \cup {None}
    <3>1. ASSUME probe # None PROVE [probe EXCEPT !.age = Older(@, ProbeTimeout)] \in Probe
      <4>1. probe \in Probe /\ probe.age \in 0..ProbeTimeout
        BY <3>1 DEF SwimTypeOK, Probe
      <4>2. Older(probe.age, ProbeTimeout) \in 0..ProbeTimeout
        BY <1>0, <4>1, OlderType
      <4> QED
        BY <4>1, <4>2 DEF Probe
    <3> QED
      BY <1>10, <3>1 DEF RoundPasses
  <2>4. asking' \in (0..ProbeTimeout) \cup {None}
    BY <1>0, <1>10, OlderType DEF RoundPasses, SwimTypeOK
  <2>5. unprobed' \in [Peers -> 0..DeadAfter]
    BY <1>0, <1>10, OlderType DEF RoundPasses, SwimTypeOK
  <2> QED
    BY <1>10, <2>2, <2>3, <2>4, <2>5 DEF RoundPasses, SwimTypeOK, Addressed
<1>11. CASE UNCHANGED swimVars
  BY <1>11 DEF swimVars, SwimTypeOK, Addressed
<1> QED
  BY <1>1, <1>2, <1>3, <1>4, <1>5, <1>6, <1>7, <1>8, <1>9, <1>10, <1>11 DEF SwimNext

\* The swarm in which Self has heard of everybody.
LEMMA SwimInvInit == SwimInit => SwimInv
<1> SUFFICES ASSUME SwimInit PROVE SwimInv
  OBVIOUS
<1>1. /\ 0 \in 0..DeadAfter /\ 0 \in Nat /\ 0 \in 0..MaxLosses
      /\ Self \in Nodes
  BY SelfAssumption, SwimBounds, TimersAssumption
<1>2. FreshPeer(0) \in Peer /\ FreshPeer(0).age = 0
  BY <1>1 DEF FreshPeer, Peer
<1>3. SwimTypeOK
  BY <1>1, <1>2 DEF SwimInit, SwimTypeOK
<1>4. Addressed
  BY DEF SwimInit, Addressed
<1>5. AnsweredKeepYoung
  BY <1>2 DEF SwimInit, AnsweredKeepYoung, Peers
<1> QED
  BY <1>3, <1>4, <1>5 DEF SwimInv, SwimTypeInv

\* Type correctness: Self never probes itself and is never in its own table.
\* It rests on Addressed, as an ACK names its sender as the subject.
THEOREM SwimTypeCorrect == SwimSpec => []SwimTypeOK
<1>1. SwimInit => SwimTypeInv
  BY SwimInvInit DEF SwimInv
<1>2. SwimTypeInv => SwimTypeOK
  BY DEF SwimTypeInv
<1> QED
  BY <1>1, <1>2, SwimTypeStep, PTL DEF SwimSpec

-----------------------------------------------------------------------------
(* Probed peers are kept *)

\* A step after which fewer peers run, nothing is lost, every record that is
\* left is as old as before, and what was under way still is.
LEMMA NothingAged ==
    ASSUME SwimInv, up' \subseteq up, lost = lost' \/ lost' > 0,
           NEW p \in Peers,
           UnderWay(p) => UnderWay(p)' \/ lost' > 0 \/ p \notin up',
           peers'[p] # None => peers[p] # None /\ peers'[p].age = peers[p].age,
           unprobed'[p] = unprobed[p],
           p \in up' /\ lost' = 0 /\ peers'[p] # None /\ ~UnderWay(p)'
    PROVE  peers'[p].age <= unprobed'[p]
BY DEF SwimInv, AnsweredKeepYoung

\* When no PING of a running peer and no ACK is under way, what Self knows of
\* the peer is at most as old as the last PING, unless a message was lost.
LEMMA YoungStep == SwimInv /\ SwimTypeInv' /\ [SwimNext]_swimVars => AnsweredKeepYoung'
<1> SUFFICES ASSUME SwimInv, SwimTypeInv', [SwimNext]_swimVars,
                    NEW p \in Peers,
                    p \in up' /\ lost' = 0 /\ peers'[p] # None /\ ~UnderWay(p)'
             PROVE  peers'[p].age <= unprobed'[p]
  BY DEF AnsweredKeepYoung
<1>0. /\ peers \in [Nodes -> Peer \cup {None}] /\ Peers \subseteq Nodes
      /\ AgeTable(peers)[p] # None => peers[p] # None /\ AgeTable(peers)[p].age = peers[p].age
      /\ unprobed \in [Peers -> 0..DeadAfter] /\ DeadAfter \in Nat
  BY AgedPeers, TimersAssumption DEF SwimInv, SwimTypeInv, SwimTypeOK, Peers
<1>1. ASSUME NEW tab, TickWaits(tab) \/ TickAsks(tab)
      PROVE  peers'[p].age <= unprobed'[p]
  <2>1. /\ UNCHANGED <<up, lost, unprobed>> /\ wire \subseteq wire'
        /\ peers' = AgeTable(peers)
    BY <1>1 DEF TickWaits, TickAsks, ProbeTick, Send
  <2> QED
    BY <1>0, <2>1, NothingAged DEF UnderWay
<1>2. ASSUME NEW tab \in [Nodes -> Peer \cup {None}], tab[Self] = None, StartProbe(tab)
      PROVE  wire \subseteq wire' /\ unprobed'[p] = unprobed[p]
  <2>1. CASE UNCHANGED <<wire, unprobed>>
    BY <2>1
  <2>2. ASSUME NEW q \in Peers, wire' = wire \cup {SwimMsg("ping", q, q)},
               \A r \in Peers \ {q} : unprobed'[r] = unprobed[r]
        PROVE  wire \subseteq wire' /\ unprobed'[p] = unprobed[p]
    <3>1. /\ SwimMsg("ping", q, q) \in wire'
          /\ SwimMsg("ping", q, q).subject = q /\ SwimMsg("ping", q, q).type = "ping"
      BY <2>2 DEF SwimMsg
    <3>2. q # p
      BY <3>1 DEF UnderWay
    <3> QED
      BY <2>2, <3>2
  <2> QED
    BY <1>2, <2>1, <2>2, StartProbeFacts DEF SwimInv, SwimTypeInv
<1>3. ASSUME NEW tab, TickStartsProbe(tab) PROVE peers'[p].age <= unprobed'[p]
  <2>1. UNCHANGED <<up, lost>> /\ tab = AgeTable(peers) /\ peers' = tab /\ StartProbe(tab)
    BY <1>3 DEF TickStartsProbe, ProbeTick
  <2>2. tab \in [Nodes -> Peer \cup {None}] /\ tab[Self] = None
    BY <2>1 DEF SwimTypeInv, SwimTypeOK
  <2> QED
    BY <1>0, <1>2, <2>1, <2>2, NothingAged DEF UnderWay
<1>4. CASE AfterAsking
  <2>1. UNCHANGED <<up, lost, peers>>
    BY <1>4 DEF AfterAsking
  <2>2. wire \subseteq wire' /\ unprobed'[p] = unprobed[p]
    BY <1>2, <1>4 DEF AfterAsking, SwimInv, SwimTypeInv, SwimTypeOK
  <2> QED
    BY <2>1, <2>2, NothingAged DEF UnderWay
<1>5. ASSUME NEW m \in wire, HandlePing(m) PROVE peers'[p].age <= unprobed'[p]
  <2>1. UNCHANGED <<up, lost, peers, unprobed>>
    BY <1>5 DEF HandlePing
  <2> DEFINE answer == IF m.type = "ping" THEN SwimMsg("ack", Self, m.dst)
                                          ELSE SwimMsg("ping", m.subject, m.subject)
  <2>2. wire' = (wire \ {m}) \cup {answer}
    BY <1>5 DEF HandlePing
  <2>3. answer.subject = m.subject /\ answer.type \in {"ping", "ack"}
    BY <1>5 DEF HandlePing, SwimMsg, SwimInv, SwimTypeInv, Addressed
  <2> HIDE DEF answer
  <2>4. UnderWay(p) => UnderWay(p)'
    BY <2>2, <2>3 DEF UnderWay
  <2> QED
    BY <2>1, <2>4, NothingAged
<1>6. ASSUME NEW m \in wire, HandleAck(m) PROVE peers'[p].age <= unprobed'[p]
  <2>1. /\ UNCHANGED <<up, lost, unprobed>> /\ wire' = wire \ {m}
        /\ peers' = [peers EXCEPT ![m.subject] = AckedPeer(@)]
    BY <1>6 DEF HandleAck
  <2>2. CASE m.subject = p
    <3>1. peers[p] # None /\ peers[p] \in Peer /\ peers'[p].age = 0
      BY <1>0, <2>1, <2>2 DEF AckedPeer, Peer
    <3> QED
      BY <1>0, <2>1, <3>1
  <2>3. CASE m.subject # p
    BY <1>0, <2>1, <2>3, NothingAged DEF UnderWay
  <2> QED
    BY <2>2, <2>3
<1>7. ASSUME NEW q \in Peers, Hear(q) PROVE peers'[p].age <= unprobed'[p]
  <2>1. /\ UNCHANGED <<up, lost, unprobed, wire>>
        /\ peers' = [peers EXCEPT ![q] = FreshPeer(0)]
    BY <1>7 DEF Hear, Refreshed
  <2>2. CASE q = p
    BY <1>0, <2>1, <2>2 DEF FreshPeer
  <2>3. CASE q # p
    BY <1>0, <2>1, <2>3, NothingAged DEF UnderWay
  <2> QED
    BY <2>2, <2>3
<1>8. ASSUME NEW m \in wire, LoseSwim(m) PROVE peers'[p].age <= unprobed'[p]
  <2>1. UNCHANGED <<up, peers, unprobed>> /\ wire' = wire \ {m}
    BY <1>8 DEF LoseSwim
  <2>2. lost \in Nat /\ Self \in up
    BY SwimBounds DEF SwimInv, SwimTypeInv, SwimTypeOK
  <2>3. m.dst \notin up /\ lost' = lost
    BY <1>8, <2>2 DEF LoseSwim
  <2>4. UnderWay(p) => UnderWay(p)'
    BY <2>1, <2>2, <2>3 DEF UnderWay, SwimInv, SwimTypeInv, Addressed
  <2> QED
    BY <2>1, <2>3, <2>4, NothingAged
<1>9. ASSUME NEW q \in Peers, CrashPeer(q) PROVE peers'[p].age <= unprobed'[p]
  BY <1>9, NothingAged DEF CrashPeer, UnderWay
<1>10. CASE RoundPasses
  <2>1. UNCHANGED <<up, lost, wire>> /\ unprobed'[p] = Older(unprobed[p], DeadAfter)
    BY <1>10 DEF RoundPasses
  <2>2. peers[p] # None /\ peers[p] \in Peer
    BY <1>0, <1>10 DEF RoundPasses
  <2>3. peers'[p].age = Older(peers[p].age, DeadAfter) /\ peers[p].age \in 0..DeadAfter
    BY <1>0, <1>10, <2>2 DEF RoundPasses, Peer
  <2>4. ~UnderWay(p)
    BY <2>1 DEF UnderWay
  <2>5. peers[p].age <= unprobed[p]
    BY <2>1, <2>2, <2>4 DEF SwimInv, AnsweredKeepYoung
  <2> QED
    BY <1>0, <2>1, <2>3, <2>5, OlderType
<1>11. CASE UNCHANGED swimVars
  BY <1>11, NothingAged DEF swimVars, UnderWay
<1> QED
  BY <1>1, <1>3, <1>4, <1>5, <1>6, <1>7, <1>8, <1>9, <1>10, <1>11 DEF SwimNext

\* SWIM suppresses false evictions: a running peer that was probed within
\* DeadAfter rounds is evicted only when a SWIM message was lost or is still
\* under way.  Only a tick evicts, and AnsweredKeepYoung says that the record it
\* finds silent for DeadAfter rounds is of a peer not probed for as long.
THEOREM ProbedKept == SwimSpec => ProbedAreKept
<1>1. SwimInit => SwimInv
  BY SwimInvInit
<1>2. SwimInv /\ [SwimNext]_swimVars => SwimInv'
  <2>1. SwimInv /\ [SwimNext]_swimVars => SwimTypeInv'
    BY SwimTypeStep DEF SwimInv
  <2> QED
    BY <2>1, YoungStep DEF SwimInv
<1>3. SwimInv /\ [SwimNext]_swimVars =>
          [\A p \in Peers :
              /\ p \in up /\ peers[p] # None /\ peers'[p] = None
              => \/ unprobed[p] >= DeadAfter
                 \/ lost > 0
                 \/ \E m \in wire : m.subject = p]_swimVars
  <2> SUFFICES ASSUME SwimInv, SwimNext, NEW p \in Peers,
                      p \in up, peers[p] # None, peers'[p] = None
               PROVE  \/ unprobed[p] >= DeadAfter
                      \/ lost > 0
                      \/ \E m \in wire : m.subject = p
    OBVIOUS
  <2>0. peers \in [Nodes -> Peer \cup {None}] /\ Peers \subseteq Nodes /\ lost \in Nat
    BY SwimBounds DEF SwimInv, SwimTypeInv, SwimTypeOK, Peers
  <2>1. peers' = AgeTable(peers)
    <3>1. ASSUME NEW m, HandleAck(m) PROVE peers'[p] # None
      <4>1. peers[p] \in Peer /\ 0 \in 0..DeadAfter
        BY <2>0, TimersAssumption
      <4>2. AckedPeer(peers[p]) # None
        BY <4>1, NonePeerAssumption DEF AckedPeer, Peer
      <4> QED
        BY <2>0, <3>1, <4>2 DEF HandleAck
    <3>2. ASSUME NEW q, Hear(q) PROVE peers'[p] # None
      <4>1. FreshPeer(0) # None
        BY NonePeerAssumption, TimersAssumption DEF FreshPeer, Peer
      <4> QED
        BY <2>0, <3>2, <4>1 DEF Hear, Refreshed
    <3>3. ASSUME RoundPasses PROVE peers'[p] # None
      <4>1. peers[p] \in Peer /\ peers'[p] = [peers[p] EXCEPT !.age = Older(@, DeadAfter)]
        BY <2>0, <3>3 DEF RoundPasses
      <4>2. peers[p].age \in 0..DeadAfter
        BY <4>1 DEF Peer
      <4>3. Older(peers[p].age, DeadAfter) \in 0..DeadAfter
        BY <4>2, TimersAssumption, OlderType
      <4> QED
        BY <4>1, <4>3, NonePeerAssumption DEF Peer
    <3>4. ASSUME \/ AfterAsking
                 \/ \E m \in wire : HandlePing(m) \/ LoseSwim(m)
                 \/ \E q \in Peers : CrashPeer(q)
          PROVE  peers' = peers
      BY <3>4 DEF AfterAsking, HandlePing, LoseSwim, CrashPeer
    <3> QED
      BY <3>1, <3>2, <3>3, <3>4 DEF SwimNext, TickWaits, TickStartsProbe, TickAsks, ProbeTick
  <2>2. peers[p] \in Peer /\ peers[p].age >= DeadAfter
    BY <2>0, <2>1, AgedPeers
  <2>3. CASE lost = 0 /\ ~UnderWay(p)
    <3>1. peers[p].age <= unprobed[p]
      BY <2>3 DEF SwimInv, AnsweredKeepYoung
    <3>2. peers[p].age \in Nat /\ unprobed[p] \in Nat /\ DeadAfter \in Nat
      BY <2>2, TimersAssumption DEF SwimInv, SwimTypeInv, SwimTypeOK, Peer
    <3> QED
      BY <2>2, <3>1, <3>2
  <2>4. CASE ~(lost = 0 /\ ~UnderWay(p))
    BY <2>0, <2>4 DEF UnderWay
  <2> QED
    BY <2>3, <2>4
<1> QED
  BY <1>1, <1>2, <1>3, PTL DEF SwimSpec, ProbedAreKept
=============================================================================
