---------------------------- MODULE TasksProofs ----------------------------
(***************************************************************************)
(* Proofs about Tasks, for any number of nodes, and with any clocks, loads *)
(* and crashes.                                                            *)
(*                                                                         *)
(* A claim is written once, by its node, so that every copy is a copy of   *)
(* the one the node itself holds (OwnClaims): what nodes know of claims    *)
(* differs only in which claims they know.                                 *)
(***************************************************************************)
EXTENDS Tasks, TLAPS

\* Nothing is ever deleted, and the entry of a task is a state of a task.
AllLive ==
    \A d \in S!Digests :
        /\ \A k \in BoardKeys : d[k] # None => S!Live(d[k])
        /\ \A t \in TaskIds : d[TaskKey(t)] # None =>
              d[TaskKey(t)].value.state \in {"pending", "done", "failed"}

\* Every copy of a claim is the claim that its node holds.
OwnClaims ==
    \A d \in S!Digests, t \in TaskIds, n \in Nodes :
        d[ClaimKey(t, n)] # None => d[ClaimKey(t, n)] = data[n][ClaimKey(t, n)]

\* A handler runs for a task that the node has marked as executed.
RunningExecuted == \A n \in Nodes : running[n] # None => running[n] \in executed[n]

TypeInv == TypeOK /\ AllLive /\ OwnClaims /\ RunningExecuted

-----------------------------------------------------------------------------
(* Entries and digests *)

\* The keys of tasks and of claims are different.
LEMMA KeysDiffer ==
    /\ \A t \in TaskIds : TaskKey(t) \in BoardKeys
    /\ \A t \in TaskIds, n \in Nodes : ClaimKey(t, n) \in BoardKeys
    /\ \A t, u \in TaskIds : TaskKey(t) = TaskKey(u) => t = u
    /\ \A t, u \in TaskIds, n, p \in Nodes : ClaimKey(t, n) = ClaimKey(u, p) => t = u /\ n = p
    /\ \A t, u \in TaskIds, n \in Nodes : TaskKey(t) # ClaimKey(u, n)
BY DEF TaskKey, ClaimKey, BoardKeys

\* The entries that a node writes.
LEMMA EntryWritten ==
    ASSUME NEW n \in Nodes, NEW ts \in Nat, NEW v \in BoardValues
    PROVE  /\ S!NewEntry(v, ts, n, FALSE) \in S!Entry /\ S!Live(S!NewEntry(v, ts, n, FALSE))
           /\ S!NewEntry(v, ts, n, FALSE).value = v /\ S!NewEntry(v, ts, n, FALSE) # None
<1> DEFINE e == S!NewEntry(v, ts, n, FALSE)
<1>1. e \in S!Entry
  BY DEF S!NewEntry, S!Entry
<1>2. e # None
  BY <1>1, NoneAssumption
<1>3. e.value = v
  BY DEF S!NewEntry
<1>4. e.deleted = FALSE
  BY DEF S!NewEntry
<1> HIDE DEF e
<1>5. S!Live(e)
  BY <1>2, <1>4 DEF S!Live
<1> QED
  BY <1>1, <1>2, <1>3, <1>5 DEF e

\* A live entry is no tombstone.
LEMMA LiveEntry == ASSUME NEW e, S!Live(e) PROVE ~S!IsTombstone(e) /\ e # None
BY DEF S!Live, S!IsTombstone

\* A merge yields one of the two entries, and forgets none.
LEMMA MergeFacts ==
    ASSUME NEW d \in S!Digest, NEW f \in S!Digest
    PROVE  /\ S!MergeDigest(d, f) \in S!Digest
           /\ \A k \in BoardKeys : /\ S!MergeDigest(d, f)[k] \in {d[k], f[k]}
                                   /\ S!MergeDigest(d, f)[k] = None <=> d[k] = None /\ f[k] = None
<1>1. ASSUME NEW k \in BoardKeys
      PROVE  /\ S!MergeDigest(d, f)[k] \in {d[k], f[k]}
             /\ S!MergeDigest(d, f)[k] = None <=> d[k] = None /\ f[k] = None
  BY DEF S!MergeDigest, S!MergeEntry, S!Supersedes
<1>2. S!MergeDigest(d, f) \in S!Digest
  BY <1>1 DEF S!MergeDigest, S!Digest
<1> QED
  BY <1>1, <1>2

-----------------------------------------------------------------------------
(* What a step does to the store *)

\* Every step of the store: digests stay, or are of the nodes that keep them.
StoreTyped ==
    /\ data \in [Nodes -> S!Digest] /\ highest \in [Nodes -> Nat] /\ now \in Nat
    /\ net \in SUBSET S!Message /\ \A m \in net : m.src # m.dst

\* TypeOK of the store follows from its types when nothing is deleted.
LEMMA StoreTypeOK ==
    StoreTyped /\ AllLive <=> S!TypeOK /\ AllLive
<1>1. ASSUME AllLive, NEW d \in S!Digests, NEW k \in BoardKeys, S!IsTombstone(d[k])
      PROVE  FALSE
  BY <1>1, LiveEntry DEF AllLive, S!IsTombstone
<1> QED
  BY <1>1 DEF StoreTyped, S!TypeOK

\* n writes e under k.
Wrote(n, k, e) ==
    /\ data' = [data EXCEPT ![n] = [@ EXCEPT ![k] = e]]
    /\ e \in S!Entry /\ S!Live(e) /\ e # None
    /\ net' = net /\ now' = now /\ highest' \in [Nodes -> Nat]

\* set.
LEMMA SetFacts ==
    ASSUME StoreTyped, NEW n \in Nodes, NEW k \in BoardKeys, NEW v \in BoardValues, S!Set(n, k, v)
    PROVE  \E e : Wrote(n, k, e) /\ e.value = v
<1>1. PICK ts : ts = S!NextTs(S!Clock(n), highest[n])
  OBVIOUS
<1>2. ts \in Nat
  BY <1>1, SkewAssumption DEF StoreTyped, S!NextTs, S!Clock
<1>3. PICK e : e = S!NewEntry(v, ts, n, FALSE)
  OBVIOUS
<1>4. e \in S!Entry /\ S!Live(e) /\ e.value = v /\ e # None
  BY <1>2, <1>3, EntryWritten
<1>5. data' = [data EXCEPT ![n] = [@ EXCEPT ![k] = e]] /\ net' = net /\ now' = now
  BY <1>1, <1>3 DEF S!Set, S!Commit
<1>6. highest' \in [Nodes -> Nat]
  BY <1>1, <1>2 DEF S!Set, S!Commit, StoreTyped
<1>7. Wrote(n, k, e)
  BY <1>4, <1>5, <1>6 DEF Wrote
<1> QED
  BY <1>4, <1>7

\* A message that arrives is merged.
LEMMA ReceiveFacts ==
    ASSUME StoreTyped, NEW m \in net, S!Receive(m)
    PROVE  /\ m.dst \in Nodes /\ m.digest \in S!Digest
           /\ data' = [data EXCEPT ![m.dst] = S!MergeDigest(data[m.dst], m.digest)]
           /\ net' = net \ {m} /\ now' = now /\ highest' \in [Nodes -> Nat]
<1>1. m.dst \in Nodes /\ m.digest \in S!Digest /\ data[m.dst] \in S!Digest
  BY DEF StoreTyped, S!Message
<1>2. ASSUME NEW h \in S!OwnStamps(m.dst, highest[m.dst], data[m.dst], m.digest)
      PROVE  h \in Nat
  BY <1>1, <1>2, NoneAssumption DEF S!OwnStamps, S!Digest, S!Entry, StoreTyped
<1>3. highest' \in [Nodes -> Nat]
  BY <1>2 DEF S!Receive, StoreTyped
<1> QED
  BY <1>1, <1>3 DEF S!Receive

\* What is invariant of the store.
StoreInv == StoreTyped /\ AllLive /\ OwnClaims

\* The store's steps that write nothing: whatever is there afterwards was
\* there before, key by key, and no node forgets.
Derived ==
    /\ \A d \in S!Digests' : \E f, g \in S!Digests : \A k \in BoardKeys : d[k] \in {f[k], g[k]}
    /\ \A n \in Nodes, k \in BoardKeys : data[n][k] # None => data'[n][k] # None

\* Such a step changes no claim.
LEMMA DerivedKeeps ==
    ASSUME StoreInv, Derived, StoreTyped'
    PROVE  StoreInv' /\ \A t \in TaskIds, n \in Nodes :
                           data[n][ClaimKey(t, n)] # None => data'[n][ClaimKey(t, n)] = data[n][ClaimKey(t, n)]
<1>1. AllLive'
  <2> SUFFICES ASSUME NEW d \in S!Digests'
               PROVE  /\ \A k \in BoardKeys : d[k] # None => S!Live(d[k])
                      /\ \A t \in TaskIds : d[TaskKey(t)] # None =>
                            d[TaskKey(t)].value.state \in {"pending", "done", "failed"}
    BY DEF AllLive, S!Live
  <2>1. PICK f \in S!Digests, g \in S!Digests : \A k \in BoardKeys : d[k] \in {f[k], g[k]}
    BY DEF Derived
  <2> QED
    BY <2>1, KeysDiffer DEF StoreInv, AllLive
<1>2. ASSUME NEW t \in TaskIds, NEW n \in Nodes, data[n][ClaimKey(t, n)] # None
      PROVE  data'[n][ClaimKey(t, n)] = data[n][ClaimKey(t, n)]
  <2>1. data'[n] \in S!Digests'
    BY DEF S!Digests
  <2>2. PICK f \in S!Digests, g \in S!Digests : \A k \in BoardKeys : data'[n][k] \in {f[k], g[k]}
    BY <2>1 DEF Derived
  <2>3. data'[n][ClaimKey(t, n)] # None
    BY <1>2, KeysDiffer DEF Derived
  <2> QED
    BY <2>2, <2>3, KeysDiffer DEF StoreInv, OwnClaims
<1>3. OwnClaims'
  <2> SUFFICES ASSUME NEW d \in S!Digests', NEW t \in TaskIds, NEW n \in Nodes,
                      d[ClaimKey(t, n)] # None
               PROVE  d[ClaimKey(t, n)] = data'[n][ClaimKey(t, n)]
    BY DEF OwnClaims
  <2>1. PICK f \in S!Digests, g \in S!Digests : \A k \in BoardKeys : d[k] \in {f[k], g[k]}
    BY DEF Derived
  <2>2. d[ClaimKey(t, n)] = data[n][ClaimKey(t, n)]
    BY <2>1, KeysDiffer DEF StoreInv, OwnClaims
  <2> QED
    BY <1>2, <2>2
<1> QED
  BY <1>1, <1>2, <1>3 DEF StoreInv

\* Gossip, and what does not touch the replicas.
LEMMA SendDerived ==
    ASSUME StoreInv, data' = data, \A m \in net' : m \in net \/ \E n \in Nodes : m.digest = data[n]
    PROVE  Derived
<1>1. ASSUME NEW d \in S!Digests'
      PROVE  d \in S!Digests
  BY DEF S!Digests
<1> QED
  BY <1>1 DEF Derived

\* A merge.
LEMMA ReceiveDerived ==
    ASSUME StoreInv, NEW m \in net, S!Receive(m)
    PROVE  Derived
<1>1. /\ m.dst \in Nodes /\ m.digest \in S!Digest /\ data \in [Nodes -> S!Digest]
      /\ data' = [data EXCEPT ![m.dst] = S!MergeDigest(data[m.dst], m.digest)] /\ net' = net \ {m}
  BY ReceiveFacts DEF StoreInv, StoreTyped
<1>2. \A k \in BoardKeys :
         /\ S!MergeDigest(data[m.dst], m.digest)[k] \in {data[m.dst][k], m.digest[k]}
         /\ S!MergeDigest(data[m.dst], m.digest)[k] = None <=> data[m.dst][k] = None /\ m.digest[k] = None
  BY <1>1, MergeFacts
<1>3. data[m.dst] \in S!Digests /\ m.digest \in S!Digests
  BY <1>1 DEF S!Digests
<1>4. ASSUME NEW d \in S!Digests'
      PROVE  \E f, g \in S!Digests : \A k \in BoardKeys : d[k] \in {f[k], g[k]}
  <2>1. CASE d = data'[m.dst]
    BY <1>1, <1>2, <1>3, <2>1
  <2>2. CASE d \in S!Digests
    BY <2>2
  <2>3. d = data'[m.dst] \/ d \in S!Digests
    BY <1>1 DEF S!Digests
  <2> QED
    BY <2>1, <2>2, <2>3
<1>5. \A n \in Nodes, k \in BoardKeys : data[n][k] # None => data'[n][k] # None
  BY <1>1, <1>2
<1> QED
  BY <1>4, <1>5 DEF Derived

\* A write of a task's state, or of a claim that its node does not hold yet.
LEMMA WriteKeeps ==
    ASSUME StoreInv, NEW n \in Nodes, NEW k \in BoardKeys, NEW e, Wrote(n, k, e),
           \A t \in TaskIds : k = TaskKey(t) => e.value.state \in {"pending", "done", "failed"},
           \A t \in TaskIds, p \in Nodes : k = ClaimKey(t, p) => p = n /\ data[n][k] = None
    PROVE  StoreInv'
<1>1. /\ data \in [Nodes -> S!Digest] /\ data' = [data EXCEPT ![n] = [@ EXCEPT ![k] = e]]
      /\ e \in S!Entry /\ S!Live(e) /\ e # None /\ net' = net /\ now' = now /\ highest' \in [Nodes -> Nat]
  BY DEF StoreInv, StoreTyped, Wrote
<1>2. \A p \in Nodes, j \in BoardKeys : data'[p][j] = IF p = n /\ j = k THEN e ELSE data[p][j]
  BY <1>1 DEF S!Digest
<1>3. StoreTyped'
  BY <1>1 DEF StoreInv, StoreTyped, S!Digest
<1>4. ASSUME NEW d \in S!Digests'
      PROVE  \/ d \in S!Digests
             \/ d = data'[n] /\ \A j \in BoardKeys : d[j] = IF j = k THEN e ELSE data[n][j]
  BY <1>1, <1>2 DEF S!Digests
<1>5. data[n] \in S!Digests
  BY DEF S!Digests
<1>6. AllLive'
  <2> SUFFICES ASSUME NEW d \in S!Digests'
               PROVE  /\ \A j \in BoardKeys : d[j] # None => S!Live(d[j])
                      /\ \A t \in TaskIds : d[TaskKey(t)] # None =>
                            d[TaskKey(t)].value.state \in {"pending", "done", "failed"}
    BY DEF AllLive, S!Live
  <2> QED
    BY <1>1, <1>4, <1>5, KeysDiffer DEF StoreInv, AllLive
<1>7. OwnClaims'
  <2> SUFFICES ASSUME NEW d \in S!Digests', NEW t \in TaskIds, NEW p \in Nodes,
                      d[ClaimKey(t, p)] # None
               PROVE  d[ClaimKey(t, p)] = data'[p][ClaimKey(t, p)]
    BY DEF OwnClaims
  <2>1. ClaimKey(t, p) \in BoardKeys
    BY KeysDiffer
  <2>2. CASE ClaimKey(t, p) # k
    <3>1. data'[p][ClaimKey(t, p)] = data[p][ClaimKey(t, p)]
      BY <1>2, <2>1, <2>2
    <3> QED
      BY <1>4, <1>5, <2>1, <2>2, <3>1 DEF StoreInv, OwnClaims
  <2>3. CASE ClaimKey(t, p) = k
    <3>1. p = n /\ data[n][k] = None
      BY <2>3
    <3>2. d \notin S!Digests
      BY <2>3, <3>1 DEF StoreInv, OwnClaims
    <3> QED
      BY <1>2, <1>4, <2>3, <3>1, <3>2
  <2> QED
    BY <2>2, <2>3
<1> QED
  BY <1>3, <1>6, <1>7 DEF StoreInv

-----------------------------------------------------------------------------
(* Types *)

\* What TypeOK says of the task board.
BoardTyped ==
    /\ up \subseteq Nodes /\ ticking \subseteq up /\ ticked \subseteq up
    /\ todo \in [Nodes -> SUBSET (TaskIds \X {"pending", "done", "failed"})]
    /\ running \in [Nodes -> TaskIds \cup {None}]
    /\ claimAge \in [Nodes -> [TaskIds -> 0..Grace]]
    /\ executed \in [Nodes -> SUBSET TaskIds]

\* The invariant in two halves, of the store and of the task board.
LEMMA TypeParts == TypeInv <=> StoreInv /\ BoardTyped /\ RunningExecuted
BY StoreTypeOK DEF TypeInv, TypeOK, StoreInv, BoardTyped

\* The same of the next state.
LEMMA TypePartsNext == TypeInv' <=> StoreInv' /\ BoardTyped' /\ RunningExecuted'
BY TypeParts, PTL

\* A step that leaves the store alone keeps its half.
LEMMA StoreFrame ==
    ASSUME StoreInv, UNCHANGED store
    PROVE  StoreInv'
<1>1. StoreTyped'
  BY DEF StoreInv, StoreTyped, store
<1>2. Derived
  BY SendDerived DEF store
<1> QED
  BY <1>1, <1>2, DerivedKeeps

\* A node's write of a task's state keeps the store's half.
LEMMA WriteTask ==
    ASSUME StoreInv, NEW n \in Nodes, NEW t \in TaskIds, NEW s \in {"pending", "done", "failed"},
           S!Set(n, TaskKey(t), TaskValue(s))
    PROVE  /\ StoreInv'
           /\ \E e : Wrote(n, TaskKey(t), e) /\ e.value = TaskValue(s)
<1>1. TaskKey(t) \in BoardKeys /\ TaskValue(s) \in BoardValues
  BY KeysDiffer DEF TaskValue, BoardValues
<1>2. PICK e : Wrote(n, TaskKey(t), e) /\ e.value = TaskValue(s)
  BY <1>1, SetFacts DEF StoreInv
<1>3. e.value.state \in {"pending", "done", "failed"}
  BY <1>2 DEF TaskValue
<1>4. StoreInv'
  BY <1>1, <1>2, <1>3, WriteKeeps, KeysDiffer
<1> QED
  BY <1>2, <1>4

\* _maybe_claim: the node has its claim afterwards, an old one if it had one,
\* and nothing else changes.
LEMMA ClaimFacts ==
    ASSUME StoreInv, NEW n \in Nodes, NEW t \in TaskIds, MaybeClaim(n, t)
    PROVE  /\ StoreInv'
           /\ net' = net /\ now' = now
           /\ data'[n][ClaimKey(t, n)] # None
           /\ \A p \in Nodes, k \in BoardKeys :
                 p # n \/ k # ClaimKey(t, n) => data'[p][k] = data[p][k]
           /\ data[n][ClaimKey(t, n)] # None => data' = data
<1> DEFINE k == ClaimKey(t, n)
<1>1. k \in BoardKeys /\ data[n] \in S!Digests
  BY KeysDiffer DEF S!Digests
<1>2. CASE S!Live(data[n][k])
  <2>1. UNCHANGED store
    BY <1>2 DEF MaybeClaim
  <2>2. StoreInv'
    BY <2>1, StoreFrame
  <2>3. data[n][k] # None
    BY <1>2, LiveEntry
  <2> QED
    BY <2>1, <2>2, <2>3 DEF store
<1>3. CASE ~S!Live(data[n][k])
  <2>1. data[n][k] = None
    BY <1>1, <1>3 DEF StoreInv, AllLive
  <2>2. S!Set(n, k, ClaimValue(S!Clock(n) + Load[n]))
    BY <1>3 DEF MaybeClaim
  <2>3. S!Clock(n) + Load[n] \in Nat
    BY SkewAssumption, LoadAssumption DEF S!Clock, StoreInv, StoreTyped
  <2>4. ClaimValue(S!Clock(n) + Load[n]) \in BoardValues
    BY <2>3 DEF ClaimValue, BoardValues
  <2>5. PICK e : Wrote(n, k, e)
    BY <1>1, <2>2, <2>4, SetFacts DEF StoreInv
  <2>6. StoreInv'
    BY <1>1, <2>1, <2>5, WriteKeeps, KeysDiffer
  <2>7. data \in [Nodes -> S!Digest]
    BY DEF StoreInv, StoreTyped
  <2>8. /\ data' = [data EXCEPT ![n] = [@ EXCEPT ![k] = e]]
        /\ e # None /\ net' = net /\ now' = now
    BY <2>5 DEF Wrote
  <2>9. \A p \in Nodes, j \in BoardKeys : data'[p][j] = IF p = n /\ j = k THEN e ELSE data[p][j]
    BY <2>7, <2>8 DEF S!Digest
  <2> QED
    BY <1>1, <2>1, <2>6, <2>8, <2>9
<1> QED
  BY <1>2, <1>3

\* What evaluate reads of a task is a state of a task.
LEMMA StateType ==
    ASSUME StoreInv, NEW n \in Nodes, NEW t \in TaskIds
    PROVE  State(n, t) \in {"pending", "done", "failed", None}
<1>1. data[n] \in S!Digests
  BY DEF S!Digests
<1> QED
  BY <1>1, LiveEntry DEF State, StoreInv, AllLive

\* The invariant holds initially.
LEMMA TypeInit == Init => TypeInv
<1> SUFFICES ASSUME Init PROVE StoreInv /\ BoardTyped /\ RunningExecuted
  BY TypeParts
<1>1. data = [n \in Nodes |-> S!EmptyDigest] /\ highest = [n \in Nodes |-> 0] /\ now = 0 /\ net = {}
  BY DEF Init, S!Init
<1>2. S!EmptyDigest \in S!Digest /\ \A k \in BoardKeys : S!EmptyDigest[k] = None
  BY DEF S!EmptyDigest, S!Digest
<1>3. StoreTyped
  BY <1>1, <1>2 DEF StoreTyped
<1>4. \A d \in S!Digests : d = S!EmptyDigest
  BY <1>1 DEF S!Digests
<1>5. StoreInv
  BY <1>2, <1>3, <1>4, KeysDiffer DEF StoreInv, AllLive, OwnClaims
<1>6. BoardTyped
  BY GraceAssumption DEF Init, BoardTyped
<1>7. RunningExecuted
  BY DEF Init, RunningExecuted
<1> QED
  BY <1>5, <1>6, <1>7

\* Every step keeps it.
LEMMA TypeNext == TypeInv /\ [Next]_vars => TypeInv'
<1> SUFFICES ASSUME TypeInv, [Next]_vars PROVE StoreInv' /\ BoardTyped' /\ RunningExecuted'
  BY TypePartsNext
<1> USE DEF board
<1>0. StoreInv /\ BoardTyped /\ RunningExecuted
  BY TypeParts
<1>1. ASSUME NEW n \in Nodes, NEW t \in TaskIds, Submit(n, t)
      PROVE  StoreInv' /\ BoardTyped' /\ RunningExecuted'
  <2>1. StoreInv'
    BY <1>0, <1>1, WriteTask DEF Submit
  <2> QED
    BY <1>0, <1>1, <2>1 DEF Submit, BoardTyped, RunningExecuted
<1>2. ASSUME NEW n \in Nodes, BeginTick(n)
      PROVE  StoreInv' /\ BoardTyped' /\ RunningExecuted'
  <2>1. StoreInv'
    BY <1>0, <1>2, StoreFrame DEF BeginTick
  <2>2. \A t \in TaskIds : State(n, t) # None => State(n, t) \in {"pending", "done", "failed"}
    BY <1>0, StateType
  <2>3. {<<t, State(n, t)>> : t \in {s \in TaskIds : State(n, s) # None}}
            \in SUBSET (TaskIds \X {"pending", "done", "failed"})
    BY <2>2
  <2>4. todo' \in [Nodes -> SUBSET (TaskIds \X {"pending", "done", "failed"})]
    BY <1>0, <1>2, <2>3 DEF BeginTick, BoardTyped
  <2> QED
    BY <1>0, <1>2, <2>1, <2>4 DEF BeginTick, BoardTyped, RunningExecuted
<1>3. ASSUME NEW n \in Nodes, NEW tc \in todo[n], Visiting(n, tc)
      PROVE  /\ tc \in TaskIds \X {"pending", "done", "failed"}
             /\ todo' \in [Nodes -> SUBSET (TaskIds \X {"pending", "done", "failed"})]
             /\ up' = up /\ ticking' = ticking /\ ticked' = ticked
  BY <1>0, <1>3 DEF Visiting, BoardTyped
<1>4. ASSUME NEW n \in Nodes, NEW tc \in todo[n], VisitSettled(n, tc)
      PROVE  StoreInv' /\ BoardTyped' /\ RunningExecuted'
  <2>1. StoreInv' /\ running' = running /\ executed' = executed /\ Visiting(n, tc)
    BY <1>0, <1>4, StoreFrame DEF VisitSettled
  <2>2. claimAge' \in [Nodes -> [TaskIds -> 0..Grace]]
    BY <1>0, <1>4, GraceAssumption DEF VisitSettled, BoardTyped
  <2> QED
    BY <1>0, <1>3, <2>1, <2>2 DEF BoardTyped, RunningExecuted
<1>5. ASSUME NEW n \in Nodes, NEW tc \in todo[n], VisitForeign(n, tc)
      PROVE  StoreInv' /\ BoardTyped' /\ RunningExecuted'
  <2>1. /\ StoreInv' /\ running' = running /\ executed' = executed /\ claimAge' = claimAge
        /\ Visiting(n, tc)
    BY <1>0, <1>5, StoreFrame DEF VisitForeign
  <2> QED
    BY <1>0, <1>3, <2>1 DEF BoardTyped, RunningExecuted
<1>6. ASSUME NEW n \in Nodes, NEW tc \in todo[n], VisitPending(n, tc)
      PROVE  StoreInv' /\ BoardTyped' /\ RunningExecuted'
  <2>1. Visiting(n, tc) /\ MaybeClaim(n, tc[1])
    BY <1>6 DEF VisitPending
  <2>2. tc[1] \in TaskIds
    BY <1>3, <2>1
  <2>3. StoreInv'
    BY <1>0, <2>1, <2>2, ClaimFacts
  <2>4. claimAge' \in [Nodes -> [TaskIds -> 0..Grace]]
    <3> DEFINE age == IF claimAge[n][tc[1]] < Grace THEN claimAge[n][tc[1]] + 1 ELSE Grace
    <3>1. age \in 0..Grace
      BY <1>0, <2>2, GraceAssumption DEF BoardTyped
    <3>2. claimAge' = [claimAge EXCEPT ![n][tc[1]] = age]
      BY <1>6 DEF VisitPending
    <3> QED
      BY <1>0, <2>2, <3>1, <3>2 DEF BoardTyped
  <2>5. \/ /\ executed' = [executed EXCEPT ![n] = @ \cup {tc[1]}]
           /\ running' = [running EXCEPT ![n] = tc[1]]
        \/ executed' = executed /\ running' = running
    BY <1>6 DEF VisitPending
  <2>6. executed \in [Nodes -> SUBSET TaskIds] /\ running \in [Nodes -> TaskIds \cup {None}]
    BY <1>0 DEF BoardTyped
  <2>7. executed' \in [Nodes -> SUBSET TaskIds] /\ running' \in [Nodes -> TaskIds \cup {None}]
    BY <2>2, <2>5, <2>6
  <2>8. \A p \in Nodes : \/ running'[p] = running[p] /\ executed[p] \subseteq executed'[p]
                         \/ running'[p] \in executed'[p]
    BY <2>2, <2>5, <2>6
  <2>9. RunningExecuted'
    BY <1>0, <2>8 DEF RunningExecuted
  <2> QED
    BY <1>0, <1>3, <2>1, <2>3, <2>4, <2>7, <2>9 DEF BoardTyped
<1>7. ASSUME NEW n \in Nodes, NEW outcome \in {"done", "failed"}, Finish(n, outcome)
      PROVE  StoreInv' /\ BoardTyped' /\ RunningExecuted'
  <2>1. running[n] \in TaskIds
    BY <1>0, <1>7 DEF Finish, BoardTyped
  <2>2. S!Set(n, TaskKey(running[n]), TaskValue(outcome))
    BY <1>7 DEF Finish
  <2>3. StoreInv'
    BY <1>0, <2>1, <2>2, WriteTask
  <2>4. running' = [running EXCEPT ![n] = None] /\ running' \in [Nodes -> TaskIds \cup {None}]
    BY <1>0, <1>7 DEF Finish, BoardTyped
  <2>5. RunningExecuted'
    BY <1>0, <1>7, <2>4 DEF Finish, BoardTyped, RunningExecuted
  <2> QED
    BY <1>0, <1>7, <2>3, <2>4, <2>5 DEF Finish, BoardTyped
<1>8. ASSUME NEW n \in Nodes, NEW targets \in SUBSET (Nodes \ {n}), EndTick(n, targets)
      PROVE  StoreInv' /\ BoardTyped' /\ RunningExecuted'
  <2>1. /\ data' = data /\ highest' = highest /\ now' = now
        /\ net' = net \/ net' = net \cup [src : {n}, dst : targets, digest : {data[n]}]
    BY <1>8 DEF EndTick, S!Gossip, store
  <2>2. \A m \in net' : m \in net \/ (m \in S!Message /\ m.src # m.dst /\ m.digest = data[n])
    <3>1. data[n] \in S!Digest
      BY <1>0 DEF StoreInv, StoreTyped
    <3>2. ASSUME NEW m \in [src : {n}, dst : targets, digest : {data[n]}]
          PROVE  m \in S!Message /\ m.src # m.dst /\ m.digest = data[n]
      BY <3>1 DEF S!Message
    <3> QED
      BY <2>1, <3>2
  <2>3. StoreTyped'
    BY <1>0, <2>1, <2>2 DEF StoreInv, StoreTyped
  <2>4. StoreInv'
    BY <1>0, <2>1, <2>2, <2>3, SendDerived, DerivedKeeps
  <2> QED
    BY <1>0, <1>8, <2>4 DEF EndTick, BoardTyped, RunningExecuted
<1>9. ASSUME NEW m \in net, Receive(m)
      PROVE  StoreInv' /\ BoardTyped' /\ RunningExecuted'
  <2>1. StoreTyped /\ S!Receive(m)
    BY <1>0, <1>9 DEF Receive, StoreInv
  <2>2. /\ m.dst \in Nodes /\ m.digest \in S!Digest /\ data \in [Nodes -> S!Digest]
        /\ data' = [data EXCEPT ![m.dst] = S!MergeDigest(data[m.dst], m.digest)]
        /\ net' = net \ {m} /\ now' = now /\ highest' \in [Nodes -> Nat]
    BY <2>1, ReceiveFacts DEF StoreTyped
  <2>3. data' \in [Nodes -> S!Digest]
    BY <2>2, MergeFacts
  <2>4. StoreTyped'
    BY <2>1, <2>2, <2>3 DEF StoreTyped
  <2>5. StoreInv'
    BY <1>0, <2>1, <2>4, ReceiveDerived, DerivedKeeps
  <2> QED
    BY <1>0, <1>9, <2>5 DEF Receive, BoardTyped, RunningExecuted
<1>10. ASSUME NEW m \in net, Lose(m)
       PROVE  StoreInv' /\ BoardTyped' /\ RunningExecuted'
  <2>1. data' = data /\ highest' = highest /\ now' = now /\ net' = net \ {m}
    BY <1>10 DEF Lose, S!Lose
  <2>2. StoreTyped'
    BY <1>0, <2>1 DEF StoreInv, StoreTyped
  <2>3. StoreInv'
    BY <1>0, <2>1, <2>2, SendDerived, DerivedKeeps
  <2> QED
    BY <1>0, <1>10, <2>3 DEF Lose, BoardTyped, RunningExecuted
<1>11. ASSUME NextRound
       PROVE  StoreInv' /\ BoardTyped' /\ RunningExecuted'
  <2>1. data' = data /\ highest' = highest /\ net' = net /\ (now' = now \/ now' = now + 1)
    BY <1>11 DEF NextRound, S!Tick, S!TimePasses, store
  <2>2. StoreTyped'
    BY <1>0, <2>1 DEF StoreInv, StoreTyped
  <2>3. StoreInv'
    BY <1>0, <2>1, <2>2, SendDerived, DerivedKeeps
  <2> QED
    BY <1>0, <1>11, <2>3 DEF NextRound, BoardTyped, RunningExecuted
<1>12. ASSUME NEW n \in Nodes, Crash(n)
       PROVE  StoreInv' /\ BoardTyped' /\ RunningExecuted'
  <2>1. StoreInv'
    BY <1>0, <1>12, StoreFrame DEF Crash
  <2> QED
    BY <1>0, <1>12, <2>1 DEF Crash, BoardTyped, RunningExecuted
<1>13. CASE UNCHANGED vars
  <2>1. StoreInv'
    BY <1>0, <1>13, StoreFrame DEF vars
  <2> QED
    BY <1>0, <1>13, <2>1 DEF vars, BoardTyped, RunningExecuted
<1> QED
  BY <1>1, <1>2, <1>4, <1>5, <1>6, <1>7, <1>8, <1>9, <1>10, <1>11, <1>12, <1>13 DEF Next

\* In every state the variables have their types, and a crashed node neither
\* ticks nor has ticked: for any clocks, loads, crashes and losses.
THEOREM TasksTypeCorrect == Spec => []TypeOK
<1>1. TypeInv => TypeOK
  BY DEF TypeInv
<1> QED
  BY <1>1, TypeInit, TypeNext, PTL DEF Spec

\* "Claims never conflict ... they all survive replication": every copy of a
\* claim, on any replica, is the claim that its node holds.
THEOREM ClaimsSurviveCorrect == Spec => []ClaimsSurvive
<1>1. ASSUME TypeInv
      PROVE  ClaimsSurvive
  <2> SUFFICES ASSUME NEW t \in TaskIds, NEW n \in Nodes, NEW p \in Nodes,
                      S!Live(data[p][ClaimKey(t, n)])
               PROVE  data[n][ClaimKey(t, n)] = data[p][ClaimKey(t, n)]
    BY DEF ClaimsSurvive
  <2>1. data[p] \in S!Digests /\ data[p][ClaimKey(t, n)] # None
    BY LiveEntry DEF S!Digests
  <2> QED
    BY <1>1, <2>1 DEF TypeInv, OwnClaims
<1> QED
  BY <1>1, TypeInit, TypeNext, PTL DEF Spec

-----------------------------------------------------------------------------
(* At most one execution *)

\* What a digest knows of the task t: its entry, and who claimed it.
HasTask(d, t) == d[TaskKey(t)] # None
Known(d, t) == {n \in Nodes : d[ClaimKey(t, n)] # None}

\* n has visited its tasks in this round.
Past(n) == n \in ticked \/ (n \in ticking /\ todo[n] = {})

\* n had visited t in k rounds before this one.
Before(n, t, k) == claimAge[n][t] >= k + 1 \/ (claimAge[n][t] >= k /\ ~Past(n))

\* Every node that is up knows the task, or the claim of q, or will when what
\* is on its way to it arrives.
TaskHeard(t) ==
    \A p \in up : \/ HasTask(data[p], t)
                  \/ \E m \in net : m.dst = p /\ HasTask(m.digest, t)
ClaimHeard(q, t) ==
    \A p \in up : \/ q \in Known(data[p], t)
                  \/ \E m \in net : m.dst = p /\ q \in Known(m.digest, t)

\* All nodes know the claims of C, no other claim is on its way, and nobody is
\* left who could make one.
Complete(C, t) ==
    /\ \A p \in up : Known(data[p], t) = C
    /\ up \cap Workers \subseteq C
    /\ \A m \in net : Known(m.digest, t) \subseteq C

\* How a tick goes on, while no handler runs.
TickShape(t) ==
    /\ \A d \in S!Digests : HasTask(d, t) => d[TaskKey(t)].value.state = "pending"
    /\ \A n \in Nodes : todo[n] \subseteq {<<t, "pending">>}
    /\ \A n \in Nodes : todo[n] # {} => HasTask(data[n], t)
    /\ \A n \in up : todo[n] # {} => n \in ticking
    /\ ticking \cap ticked = {}

\* A node that has visited the task has told everyone of it when its tick ends.
TaskSpreads(t) ==
    \A n \in Nodes : claimAge[n][t] >= 1 =>
        HasTask(data[n], t) /\ (n \in up \ ticking => TaskHeard(t))

\* A claim that its node has sent, it has sent to all.
ClaimSpreads(t) ==
    \A q \in Nodes :
        \/ \E p \in Nodes \ {q} : q \in Known(data[p], t)
        \/ \E m \in net : q \in Known(m.digest, t)
        \/ q \in up \ ticking /\ q \in Known(data[q], t)
        => ClaimHeard(q, t)

\* A round after a node's first visit everyone has the task, and claims it.
SecondRound(t) ==
    \A n \in up : Before(n, t, 1) =>
        /\ \A p \in up : HasTask(data[p], t)
        /\ \A p \in up \cap Workers : Past(p) => p \in Known(data[p], t)

\* Another round later everyone knows all claims.
ThirdRound(t) == \A n \in up : Before(n, t, 2) => \E C \in SUBSET Nodes : Complete(C, t)

Waiting(t) ==
    /\ \A n \in Nodes : executed[n] = {}
    /\ TickShape(t) /\ TaskSpreads(t) /\ ClaimSpreads(t) /\ SecondRound(t) /\ ThirdRound(t)

\* Everyone knows all claims, and the one node that wins executes, if any.
Decided(t) ==
    \E C \in SUBSET Nodes, w \in Nodes :
        /\ Complete(C, t)
        /\ \A p \in up : Winner(data[p], t) = w
        /\ \A p \in Nodes : t \in executed[p] => p = w

OnceInv(t) == Waiting(t) \/ Decided(t)

-----------------------------------------------------------------------------
(* How tasks and claims spread *)

\* Nobody forgets, what arrives is kept, and a claim is never written again.
Flow(t) ==
    /\ up' \subseteq up
    /\ \A p \in Nodes : /\ HasTask(data[p], t) => HasTask(data'[p], t)
                        /\ Known(data[p], t) \subseteq Known(data'[p], t)
    /\ \A m \in net : \/ m \in net'
                      \/ m.dst \notin up
                      \/ /\ HasTask(m.digest, t) => HasTask(data'[m.dst], t)
                         /\ Known(m.digest, t) \subseteq Known(data'[m.dst], t)
    /\ \A q \in Nodes : data[q][ClaimKey(t, q)] # None =>
          data'[q][ClaimKey(t, q)] = data[q][ClaimKey(t, q)]

\* The digests that a step sees: those it had, with a claim of a ticking node,
\* with what a message brings, or with a task of its own.
Sources(t) ==
    /\ \A p \in Nodes : \A q \in Known(data'[p], t) :
          \/ q \in Known(data[p], t)
          \/ \E m \in net : q \in Known(m.digest, t)
          \/ q = p /\ p \in ticking'
    /\ net' \subseteq net
    /\ up' \ ticking' \subseteq up \ ticking

\* A write of the task's state.
LEMMA TaskWritten ==
    ASSUME StoreInv, NEW n \in Nodes, NEW t \in TaskIds, NEW e, Wrote(n, TaskKey(t), e)
    PROVE  /\ net' = net
           /\ \A p \in Nodes : /\ Known(data'[p], t) = Known(data[p], t)
                               /\ HasTask(data[p], t) => HasTask(data'[p], t)
           /\ \A p \in Nodes : data'[p][TaskKey(t)] = IF p = n THEN e ELSE data[p][TaskKey(t)]
           /\ \A p, q \in Nodes : data'[p][ClaimKey(t, q)] = data[p][ClaimKey(t, q)]
<1>1. /\ data \in [Nodes -> S!Digest] /\ data' = [data EXCEPT ![n] = [@ EXCEPT ![TaskKey(t)] = e]]
      /\ e # None /\ net' = net
  BY DEF StoreInv, StoreTyped, Wrote
<1>2. \A p \in Nodes, k \in BoardKeys : data'[p][k] = IF p = n /\ k = TaskKey(t) THEN e ELSE data[p][k]
  BY <1>1 DEF S!Digest
<1>3. \A p, q \in Nodes : data'[p][ClaimKey(t, q)] = data[p][ClaimKey(t, q)]
  BY <1>2, KeysDiffer
<1>4. \A p \in Nodes : data'[p][TaskKey(t)] = IF p = n THEN e ELSE data[p][TaskKey(t)]
  BY <1>2, KeysDiffer
<1>5. \A p \in Nodes : Known(data'[p], t) = Known(data[p], t)
  BY <1>3 DEF Known
<1>6. \A p \in Nodes : HasTask(data[p], t) => HasTask(data'[p], t)
  BY <1>1, <1>4 DEF HasTask
<1> QED
  BY <1>1, <1>3, <1>4, <1>5, <1>6

\* A claim.
LEMMA ClaimWritten ==
    ASSUME StoreInv, NEW n \in Nodes, NEW t \in TaskIds, MaybeClaim(n, t)
    PROVE  /\ net' = net
           /\ \A p \in Nodes : /\ data'[p][TaskKey(t)] = data[p][TaskKey(t)]
                               /\ Known(data'[p], t) = Known(data[p], t) \cup (IF p = n THEN {n} ELSE {})
           /\ \A q \in Nodes : data[q][ClaimKey(t, q)] # None =>
                 data'[q][ClaimKey(t, q)] = data[q][ClaimKey(t, q)]
<1>1. /\ net' = net
      /\ data'[n][ClaimKey(t, n)] # None
      /\ \A p \in Nodes, k \in BoardKeys :
            p # n \/ k # ClaimKey(t, n) => data'[p][k] = data[p][k]
      /\ data[n][ClaimKey(t, n)] # None => data' = data
  BY ClaimFacts
<1>2. \A p \in Nodes : data'[p][TaskKey(t)] = data[p][TaskKey(t)]
  BY <1>1, KeysDiffer
<1>3. \A p, q \in Nodes : p # n \/ q # n => data'[p][ClaimKey(t, q)] = data[p][ClaimKey(t, q)]
  BY <1>1, KeysDiffer
<1>4. \A p \in Nodes : Known(data'[p], t) = Known(data[p], t) \cup (IF p = n THEN {n} ELSE {})
  BY <1>1, <1>3 DEF Known
<1>5. \A q \in Nodes : data[q][ClaimKey(t, q)] # None =>
         data'[q][ClaimKey(t, q)] = data[q][ClaimKey(t, q)]
  BY <1>1, <1>3
<1> QED
  BY <1>1, <1>2, <1>4, <1>5

\* A message that arrives.
LEMMA MessageMerged ==
    ASSUME StoreInv, StoreInv', NEW m \in net, S!Receive(m), NEW t \in TaskIds
    PROVE  /\ m.dst \in Nodes /\ net' = net \ {m}
           /\ \A p \in Nodes : p # m.dst => data'[p] = data[p]
           /\ Known(data'[m.dst], t) = Known(data[m.dst], t) \cup Known(m.digest, t)
           /\ HasTask(data'[m.dst], t) <=> HasTask(data[m.dst], t) \/ HasTask(m.digest, t)
           /\ \A q \in Nodes : data[q][ClaimKey(t, q)] # None =>
                 data'[q][ClaimKey(t, q)] = data[q][ClaimKey(t, q)]
<1>1. /\ m.dst \in Nodes /\ m.digest \in S!Digest /\ data \in [Nodes -> S!Digest]
      /\ data' = [data EXCEPT ![m.dst] = S!MergeDigest(data[m.dst], m.digest)] /\ net' = net \ {m}
  BY ReceiveFacts DEF StoreInv, StoreTyped
<1>2. \A k \in BoardKeys : data'[m.dst][k] = None <=> data[m.dst][k] = None /\ m.digest[k] = None
  BY <1>1, MergeFacts
<1>3. Known(data'[m.dst], t) = Known(data[m.dst], t) \cup Known(m.digest, t)
  BY <1>2, KeysDiffer DEF Known
<1>4. HasTask(data'[m.dst], t) <=> HasTask(data[m.dst], t) \/ HasTask(m.digest, t)
  BY <1>2, KeysDiffer DEF HasTask
<1>5. \A p \in Nodes : p # m.dst => data'[p] = data[p]
  BY <1>1
<1>6. \A q \in Nodes : data[q][ClaimKey(t, q)] # None =>
         data'[q][ClaimKey(t, q)] = data[q][ClaimKey(t, q)]
  BY ReceiveDerived, DerivedKeeps DEF StoreInv
<1> QED
  BY <1>1, <1>3, <1>4, <1>5, <1>6

\* A tick that ends in step tells every peer what the node knows.
LEMMA ToldAll ==
    ASSUME Sync = TRUE, NEW n \in Nodes, NEW targets \in SUBSET (Nodes \ {n}), EndTick(n, targets)
    PROVE  /\ data' = data /\ n \in up /\ up' = up /\ ticking' = ticking \ {n} /\ ticked' = ticked \cup {n}
           /\ n \in ticking /\ todo[n] = {} /\ UNCHANGED board
           /\ net \subseteq net'
           /\ \A m \in net' : m \in net \/ m.digest = data[n]
           /\ \A p \in Nodes \ {n} : \E m \in net' : m.dst = p /\ m.digest = data[n]
<1>1. targets = Nodes \ {n} /\ data' = data
  BY DEF EndTick, S!Gossip, store
<1>2. net' = net \cup [src : {n}, dst : targets, digest : {data[n]}]
  <2>1. CASE targets = {}
    <3>1. [src : {n}, dst : targets, digest : {data[n]}] = {}
      BY <2>1
    <3> QED
      BY <2>1, <3>1 DEF EndTick, store
  <2>2. CASE targets # {}
    BY <2>2 DEF EndTick, S!Gossip
  <2> QED
    BY <2>1, <2>2
<1>3. ASSUME NEW p \in Nodes \ {n}
      PROVE  \E m \in net' : m.dst = p /\ m.digest = data[n]
  <2>1. [src |-> n, dst |-> p, digest |-> data[n]] \in net'
    BY <1>1, <1>2
  <2> QED
    BY <2>1
<1> QED
  BY <1>1, <1>2, <1>3 DEF EndTick

\* Every step of an only task spreads what is known and forgets nothing.
LEMMA FlowNext ==
    ASSUME Sync = TRUE, NEW t \in TaskIds, \A u \in TaskIds : u = t, TypeInv, TypeInv', [Next]_vars
    PROVE  Flow(t)
<1> USE DEF board
<1>0. StoreInv /\ StoreInv' /\ BoardTyped
  BY TypeParts, TypePartsNext
<1>1. ASSUME NEW n \in Nodes, NEW u \in TaskIds, Submit(n, u)
      PROVE  Flow(t)
  <2>1. PICK e : Wrote(n, TaskKey(t), e)
    BY <1>0, <1>1, WriteTask DEF Submit
  <2> QED
    BY <1>0, <1>1, <2>1, TaskWritten DEF Submit, Flow
<1>2. ASSUME data' = data, up' \subseteq up,
             \A m \in net : m \in net' \/ m.dst \notin up
      PROVE  Flow(t)
  BY <1>2 DEF Flow
<1>3. ASSUME NEW n \in Nodes, BeginTick(n)
      PROVE  Flow(t)
  BY <1>2, <1>3 DEF BeginTick, store
<1>4. ASSUME NEW n \in Nodes, NEW tc \in todo[n], VisitSettled(n, tc) \/ VisitForeign(n, tc)
      PROVE  Flow(t)
  BY <1>2, <1>4 DEF VisitSettled, VisitForeign, Visiting, store
<1>5. ASSUME NEW n \in Nodes, NEW tc \in todo[n], VisitPending(n, tc)
      PROVE  Flow(t)
  <2>1. tc[1] = t
    BY <1>0 DEF BoardTyped
  <2>2. MaybeClaim(n, t) /\ up' = up
    BY <1>5, <2>1 DEF VisitPending, Visiting
  <2>3. /\ net' = net
        /\ \A p \in Nodes : /\ data'[p][TaskKey(t)] = data[p][TaskKey(t)]
                            /\ Known(data'[p], t) = Known(data[p], t) \cup (IF p = n THEN {n} ELSE {})
        /\ \A q \in Nodes : data[q][ClaimKey(t, q)] # None =>
              data'[q][ClaimKey(t, q)] = data[q][ClaimKey(t, q)]
    BY <1>0, <2>2, ClaimWritten
  <2> QED
    BY <2>2, <2>3 DEF Flow, HasTask
<1>6. ASSUME NEW n \in Nodes, NEW outcome \in {"done", "failed"}, Finish(n, outcome)
      PROVE  Flow(t)
  <2>1. running[n] = t
    BY <1>0, <1>6 DEF Finish, BoardTyped
  <2>2. PICK e : Wrote(n, TaskKey(t), e)
    BY <1>0, <1>6, <2>1, WriteTask DEF Finish
  <2> QED
    BY <1>0, <1>6, <2>2, TaskWritten DEF Finish, Flow
<1>7. ASSUME NEW n \in Nodes, NEW targets \in SUBSET (Nodes \ {n}), EndTick(n, targets)
      PROVE  Flow(t)
  BY <1>2, <1>7, ToldAll
<1>8. ASSUME NEW m \in net, Receive(m)
      PROVE  Flow(t)
  <2>1. S!Receive(m) /\ up' = up
    BY <1>8 DEF Receive
  <2>2. /\ m.dst \in Nodes /\ net' = net \ {m}
        /\ \A p \in Nodes : p # m.dst => data'[p] = data[p]
        /\ Known(data'[m.dst], t) = Known(data[m.dst], t) \cup Known(m.digest, t)
        /\ HasTask(data'[m.dst], t) <=> HasTask(data[m.dst], t) \/ HasTask(m.digest, t)
        /\ \A q \in Nodes : data[q][ClaimKey(t, q)] # None =>
              data'[q][ClaimKey(t, q)] = data[q][ClaimKey(t, q)]
    BY <1>0, <2>1, MessageMerged
  <2> QED
    BY <2>1, <2>2 DEF Flow
<1>9. ASSUME NEW m \in net, Lose(m)
      PROVE  Flow(t)
  BY <1>2, <1>9 DEF Lose, S!Lose
<1>10. ASSUME NextRound
       PROVE  Flow(t)
  BY <1>2, <1>10 DEF NextRound, S!Tick, store
<1>11. ASSUME NEW n \in Nodes, Crash(n)
       PROVE  Flow(t)
  BY <1>2, <1>11 DEF Crash, store
<1>12. CASE UNCHANGED vars
  BY <1>2, <1>12 DEF vars, store
<1> QED
  BY <1>1, <1>3, <1>4, <1>5, <1>6, <1>7, <1>8, <1>9, <1>10, <1>11, <1>12 DEF Next

\* What everyone hears of, everyone goes on to hear of.
LEMMA HeardKept ==
    ASSUME BoardTyped, NEW t \in TaskIds, Flow(t)
    PROVE  /\ TaskHeard(t) => TaskHeard(t)'
           /\ \A q \in Nodes : ClaimHeard(q, t) => ClaimHeard(q, t)'
<1>1. ASSUME TaskHeard(t) PROVE TaskHeard(t)'
  <2> SUFFICES ASSUME NEW p \in up'
               PROVE  \/ HasTask(data'[p], t)
                      \/ \E m \in net' : m.dst = p /\ HasTask(m.digest, t)
    BY DEF TaskHeard, HasTask
  <2>1. p \in up /\ p \in Nodes
    BY DEF Flow, BoardTyped
  <2>2. CASE HasTask(data[p], t)
    BY <2>1, <2>2 DEF Flow
  <2>3. CASE \E m \in net : m.dst = p /\ HasTask(m.digest, t)
    BY <2>1, <2>3 DEF Flow
  <2> QED
    BY <1>1, <2>1, <2>2, <2>3 DEF TaskHeard
<1>2. ASSUME NEW q \in Nodes, ClaimHeard(q, t) PROVE ClaimHeard(q, t)'
  <2> SUFFICES ASSUME NEW p \in up'
               PROVE  \/ q \in Known(data'[p], t)
                      \/ \E m \in net' : m.dst = p /\ q \in Known(m.digest, t)
    BY DEF ClaimHeard, Known
  <2>1. p \in up /\ p \in Nodes
    BY DEF Flow, BoardTyped
  <2>2. CASE q \in Known(data[p], t)
    BY <2>1, <2>2 DEF Flow
  <2>3. CASE \E m \in net : m.dst = p /\ q \in Known(m.digest, t)
    BY <2>1, <2>3 DEF Flow
  <2> QED
    BY <1>2, <2>1, <2>2, <2>3 DEF ClaimHeard
<1> QED
  BY <1>1, <1>2

\* Once all claims are known, no step makes another.
LEMMA CompleteKept ==
    ASSUME Sync = TRUE, NEW t \in TaskIds, \A u \in TaskIds : u = t, TypeInv, TypeInv', [Next]_vars,
           NEW C, Complete(C, t)
    PROVE  Complete(C, t)'
<1> USE DEF board
<1>0. StoreInv /\ StoreInv' /\ BoardTyped
  BY TypeParts, TypePartsNext
<1>a. ASSUME up' \subseteq up, \A p \in up : Known(data'[p], t) = C,
             \A m \in net' : Known(m.digest, t) \subseteq C
      PROVE  Complete(C, t)'
  BY <1>a DEF Complete, Known
<1>b. /\ \A p \in up : Known(data[p], t) = C /\ p \in Nodes
      /\ up \cap Workers \subseteq C
      /\ \A m \in net : Known(m.digest, t) \subseteq C
  BY <1>0 DEF Complete, BoardTyped
<1>1. ASSUME NEW n \in Nodes, NEW u \in TaskIds, Submit(n, u)
      PROVE  Complete(C, t)'
  <2>1. PICK e : Wrote(n, TaskKey(t), e)
    BY <1>0, <1>1, WriteTask DEF Submit
  <2>2. net' = net /\ \A p \in Nodes : Known(data'[p], t) = Known(data[p], t)
    BY <1>0, <2>1, TaskWritten
  <2> QED
    BY <1>a, <1>b, <1>1, <2>2 DEF Submit
<1>2. ASSUME data' = data, up' \subseteq up, net' \subseteq net
      PROVE  Complete(C, t)'
  BY <1>2, <1>a, <1>b
<1>3. ASSUME NEW n \in Nodes, BeginTick(n)
      PROVE  Complete(C, t)'
  BY <1>2, <1>3 DEF BeginTick, store
<1>4. ASSUME NEW n \in Nodes, NEW tc \in todo[n], VisitSettled(n, tc) \/ VisitForeign(n, tc)
      PROVE  Complete(C, t)'
  BY <1>2, <1>4 DEF VisitSettled, VisitForeign, Visiting, store
<1>5. ASSUME NEW n \in Nodes, NEW tc \in todo[n], VisitPending(n, tc)
      PROVE  Complete(C, t)'
  <2>1. tc[1] = t
    BY <1>0 DEF BoardTyped
  <2>2. MaybeClaim(n, t) /\ up' = up /\ n \in up /\ n \in Workers
    BY <1>5, <2>1 DEF VisitPending, Visiting
  <2>3. net' = net /\ \A p \in Nodes :
           Known(data'[p], t) = Known(data[p], t) \cup (IF p = n THEN {n} ELSE {})
    BY <1>0, <2>2, ClaimWritten
  <2>4. n \in C
    BY <1>b, <2>2
  <2>5. \A p \in up : Known(data'[p], t) = C
    BY <1>b, <2>3, <2>4
  <2> QED
    BY <1>a, <1>b, <2>2, <2>3, <2>5
<1>6. ASSUME NEW n \in Nodes, NEW outcome \in {"done", "failed"}, Finish(n, outcome)
      PROVE  Complete(C, t)'
  <2>1. running[n] = t
    BY <1>0, <1>6 DEF Finish, BoardTyped
  <2>2. PICK e : Wrote(n, TaskKey(t), e)
    BY <1>0, <1>6, <2>1, WriteTask DEF Finish
  <2>3. net' = net /\ \A p \in Nodes : Known(data'[p], t) = Known(data[p], t)
    BY <1>0, <2>2, TaskWritten
  <2> QED
    BY <1>a, <1>b, <1>6, <2>3 DEF Finish
<1>7. ASSUME NEW n \in Nodes, NEW targets \in SUBSET (Nodes \ {n}), EndTick(n, targets)
      PROVE  Complete(C, t)'
  <2>1. data' = data /\ n \in up /\ up' = up /\ \A m \in net' : m \in net \/ m.digest = data[n]
    BY <1>7, ToldAll
  <2> QED
    BY <1>a, <1>b, <2>1
<1>8. ASSUME NEW m \in net, Receive(m)
      PROVE  Complete(C, t)'
  <2>1. S!Receive(m) /\ up' = up
    BY <1>8 DEF Receive
  <2>2. /\ m.dst \in Nodes /\ net' = net \ {m}
        /\ \A p \in Nodes : p # m.dst => data'[p] = data[p]
        /\ Known(data'[m.dst], t) = Known(data[m.dst], t) \cup Known(m.digest, t)
    BY <1>0, <2>1, MessageMerged
  <2>3. \A p \in up : Known(data'[p], t) = C
    BY <1>b, <2>2
  <2> QED
    BY <1>a, <1>b, <2>1, <2>2, <2>3
<1>9. ASSUME NEW m \in net, Lose(m)
      PROVE  Complete(C, t)'
  BY <1>2, <1>9 DEF Lose, S!Lose
<1>10. ASSUME NextRound
       PROVE  Complete(C, t)'
  BY <1>2, <1>10 DEF NextRound, S!Tick, store
<1>11. ASSUME NEW n \in Nodes, Crash(n)
       PROVE  Complete(C, t)'
  BY <1>2, <1>11 DEF Crash, store
<1>12. CASE UNCHANGED vars
  BY <1>2, <1>12 DEF vars, store
<1> QED
  BY <1>1, <1>3, <1>4, <1>5, <1>6, <1>7, <1>8, <1>9, <1>10, <1>11, <1>12 DEF Next

\* The winner depends on the claims that a digest knows, and on nothing else.
LEMMA SameWinner ==
    ASSUME NEW t \in TaskIds, NEW d, NEW f, Known(d, t) = Known(f, t),
           \A q \in Known(d, t) : /\ d[ClaimKey(t, q)] = f[ClaimKey(t, q)]
                                  /\ S!Live(d[ClaimKey(t, q)])
    PROVE  Claims(d, t) = Claims(f, t) /\ Winner(d, t) = Winner(f, t)
<1>1. {p \in Nodes : S!Live(d[ClaimKey(t, p)])} = Known(d, t)
  BY LiveEntry DEF Known
<1>2. {p \in Nodes : S!Live(f[ClaimKey(t, p)])} = Known(d, t)
  BY LiveEntry DEF Known
<1>3. Claims(d, t) = Claims(f, t)
  BY <1>1, <1>2 DEF Claims
<1>4. Winner(d, t) = Winner(f, t)
  BY <1>3 DEF Winner
<1> QED
  BY <1>3, <1>4

\* Nodes that know the same claims agree on the winner, and so does a node with
\* itself when a step brings no claim.
LEMMA WinnerKept ==
    ASSUME NEW t \in TaskIds, TypeInv, TypeInv', NEW C, Flow(t),
           NEW p \in Nodes, NEW q \in Nodes, Known(data[p], t) = C, Known(data[q], t) = C
    PROVE  /\ Winner(data[p], t) = Winner(data[q], t)
           /\ Known(data'[p], t) = C => Winner(data'[p], t) = Winner(data[p], t)
<1>0. StoreInv /\ StoreInv'
  BY TypeParts, TypePartsNext
<1>1. data[p] \in S!Digests /\ data[q] \in S!Digests /\ data'[p] \in S!Digests'
  BY DEF S!Digests
<1>2. ASSUME NEW r \in C
      PROVE  /\ r \in Nodes /\ S!Live(data[p][ClaimKey(t, r)])
             /\ data[p][ClaimKey(t, r)] = data[r][ClaimKey(t, r)]
             /\ data[q][ClaimKey(t, r)] = data[r][ClaimKey(t, r)]
  BY <1>0, <1>1, KeysDiffer DEF StoreInv, AllLive, OwnClaims, Known
<1>3. Winner(data[p], t) = Winner(data[q], t)
  BY <1>2, SameWinner
<1>4. ASSUME Known(data'[p], t) = C
      PROVE  Winner(data'[p], t) = Winner(data[p], t)
  <2>1. ASSUME NEW r \in C
        PROVE  data'[p][ClaimKey(t, r)] = data[p][ClaimKey(t, r)]
    <3>1. r \in Nodes /\ data'[p][ClaimKey(t, r)] # None /\ data[p][ClaimKey(t, r)] # None
      BY <1>4, <2>1 DEF Known
    <3>2. data'[p][ClaimKey(t, r)] = data'[r][ClaimKey(t, r)]
      BY <1>0, <1>1, <3>1 DEF StoreInv, OwnClaims
    <3>3. data'[r][ClaimKey(t, r)] = data[r][ClaimKey(t, r)]
      BY <1>2, <2>1, <3>1 DEF Flow
    <3> QED
      BY <1>2, <2>1, <3>2, <3>3
  <2> QED
    BY <1>2, <1>4, <2>1, SameWinner
<1> QED
  BY <1>3, <1>4

\* A node that marks the task as executed is up, and the winner of the claims
\* that it knows.
LEMMA ExecutedStep ==
    ASSUME NEW t \in TaskIds, \A u \in TaskIds : u = t, TypeInv, [Next]_vars,
           NEW n \in Nodes, t \in executed'[n], t \notin executed[n]
    PROVE  \E tc \in todo[n] : /\ VisitPending(n, tc) /\ tc[1] = t
                               /\ executed' = [executed EXCEPT ![n] = @ \cup {t}]
                               /\ Winner(data'[n], t) = n
<1>0. BoardTyped
  BY TypeParts
<1>1. executed' # executed
  OBVIOUS
<1>2. PICK p \in Nodes : \E tc \in todo[p] : VisitPending(p, tc)
  <2>1. CASE UNCHANGED vars
    BY <1>1, <2>1 DEF vars, board
  <2>2. CASE Next
    BY <1>1, <2>2 DEF Next, Submit, BeginTick, VisitSettled, VisitForeign, Finish, EndTick, Receive, Lose,
                      NextRound, Crash, board
  <2> QED
    BY <2>1, <2>2
<1>3. PICK tc \in todo[p] : VisitPending(p, tc)
  BY <1>2
<1>4. tc[1] = t
  BY <1>0 DEF BoardTyped
<1>5. executed' = [executed EXCEPT ![p] = @ \cup {t}] /\ Winner(data'[p], t) = p
  BY <1>1, <1>3, <1>4 DEF VisitPending
<1>6. p = n
  BY <1>0, <1>5 DEF BoardTyped
<1> QED
  BY <1>3, <1>4, <1>5, <1>6

\* What is decided stays decided.
LEMMA DecidedKept ==
    ASSUME Sync = TRUE, NEW t \in TaskIds, \A u \in TaskIds : u = t, TypeInv, TypeInv', [Next]_vars,
           Decided(t)
    PROVE  Decided(t)'
<1>0. BoardTyped /\ BoardTyped' /\ Flow(t)
  BY TypeParts, TypePartsNext, FlowNext
<1>1. PICK C \in SUBSET Nodes, w \in Nodes :
         /\ Complete(C, t)
         /\ \A p \in up : Winner(data[p], t) = w
         /\ \A p \in Nodes : t \in executed[p] => p = w
  BY DEF Decided
<1>2. Complete(C, t)'
  BY <1>1, CompleteKept
<1>3. ASSUME NEW p \in up'
      PROVE  Winner(data'[p], t) = w
  <2>1. p \in up /\ p \in Nodes
    BY <1>0 DEF Flow, BoardTyped
  <2>2. Known(data[p], t) = C /\ Known(data'[p], t) = C
    BY <1>1, <1>2, <2>1 DEF Complete, Known
  <2> QED
    BY <1>0, <1>1, <2>1, <2>2, WinnerKept
<1>4. ASSUME NEW p \in Nodes, t \in executed'[p]
      PROVE  p = w
  <2>1. CASE t \in executed[p]
    BY <1>1, <2>1
  <2>2. CASE t \notin executed[p]
    <3>1. PICK tc \in todo[p] : VisitPending(p, tc) /\ Winner(data'[p], t) = p
      BY <1>4, <2>2, ExecutedStep
    <3>2. p \in up'
      BY <3>1 DEF VisitPending, Visiting
    <3> QED
      BY <1>3, <3>1, <3>2
  <2> QED
    BY <2>1, <2>2
<1>5. /\ Complete(C, t)'
      /\ \A p \in up' : Winner(data'[p], t) = w
      /\ \A p \in Nodes : t \in executed'[p] => p = w
  BY <1>2, <1>3, <1>4
<1>6. (\A p \in up : Winner(data[p], t) = w)' <=> \A p \in up' : Winner(data'[p], t) = w
  BY DEF Winner, Claims, S!Live
<1> QED
  BY <1>5, <1>6 DEF Decided

\* The first execution decides.
LEMMA FirstExecution ==
    ASSUME Sync = TRUE, Grace >= 3, NEW t \in TaskIds, \A u \in TaskIds : u = t,
           TypeInv, TypeInv', [Next]_vars, Waiting(t),
           NEW n \in Nodes, t \in executed'[n]
    PROVE  Decided(t)'
<1>0. BoardTyped /\ BoardTyped' /\ Flow(t)
  BY TypeParts, TypePartsNext, FlowNext
<1>1. \A p \in Nodes : executed[p] = {}
  BY DEF Waiting
<1>2. PICK tc \in todo[n] : /\ VisitPending(n, tc) /\ tc[1] = t
                            /\ executed' = [executed EXCEPT ![n] = @ \cup {t}]
                            /\ Winner(data'[n], t) = n
  BY <1>1, ExecutedStep
<1>3. n \in up /\ up' = up /\ n \in ticking /\ n \notin ticked /\ ~Past(n)
  BY <1>2 DEF VisitPending, Visiting, Waiting, TickShape, Past
<1>4. claimAge[n][t] >= 2
  <2>1. claimAge[n][t] \in 0..Grace
    BY <1>0 DEF BoardTyped
  <2>2. executed # executed'
    BY <1>0, <1>1, <1>2 DEF BoardTyped
  <2>3. (IF claimAge[n][t] < Grace THEN claimAge[n][t] + 1 ELSE Grace) >= Grace
    BY <1>2, <2>2 DEF VisitPending, Settled
  <2> QED
    BY <2>1, <2>3, GraceAssumption
<1>5. Before(n, t, 2)
  BY <1>3, <1>4 DEF Before
<1>6. PICK C \in SUBSET Nodes : Complete(C, t)
  BY <1>3, <1>5 DEF Waiting, ThirdRound
<1>7. Complete(C, t)'
  BY <1>6, CompleteKept
<1>8. ASSUME NEW p \in up'
      PROVE  p \in Nodes /\ Known(data[p], t) = C /\ Known(data'[p], t) = C
  BY <1>0, <1>3, <1>6, <1>7 DEF Complete, Known, BoardTyped
<1>9. ASSUME NEW p \in up'
      PROVE  Winner(data'[p], t) = n
  <2>1. Winner(data'[p], t) = Winner(data[p], t) /\ Winner(data[p], t) = Winner(data[n], t)
    BY <1>0, <1>3, <1>8, WinnerKept
  <2>2. Winner(data'[n], t) = Winner(data[n], t)
    BY <1>0, <1>3, <1>8, WinnerKept
  <2> QED
    BY <1>2, <2>1, <2>2
<1>10. \A p \in Nodes : t \in executed'[p] => p = n
  BY <1>0, <1>1, <1>2 DEF BoardTyped
<1>11. (\A p \in up : Winner(data[p], t) = n)' <=> \A p \in up' : Winner(data'[p], t) = n
  BY DEF Winner, Claims, S!Live
<1> QED
  BY <1>7, <1>9, <1>10, <1>11 DEF Decided

-----------------------------------------------------------------------------
(* Waiting for the claims to settle *)

\* Within a round no node's past grows, whoever has the task claims it in its
\* tick, and only such a tick ages a claim.
RoundStep(t) ==
    /\ \A n \in up', k \in {1, 2} : Before(n, t, k)' => Before(n, t, k)
    /\ \A p \in up' \cap Workers :
          HasTask(data[p], t) /\ Past(p)' => Past(p) \/ p \in Known(data'[p], t)
    /\ \A n \in Nodes : claimAge'[n][t] >= 1 =>
          claimAge[n][t] >= 1 \/ (HasTask(data'[n], t) /\ n \in ticking')

\* The task's entries say that it is pending.
AllPending(t) == \A d \in S!Digests : HasTask(d, t) => d[TaskKey(t)].value.state = "pending"

\* A step that writes nothing keeps them so.
LEMMA PendingDerived ==
    ASSUME NEW t \in TaskIds, AllPending(t), Derived
    PROVE  AllPending(t)'
<1> SUFFICES ASSUME NEW d \in S!Digests', HasTask(d, t)
             PROVE  d[TaskKey(t)].value.state = "pending"
  BY DEF AllPending, HasTask
<1>1. PICK f \in S!Digests, g \in S!Digests : \A k \in BoardKeys : d[k] \in {f[k], g[k]}
  BY DEF Derived
<1> QED
  BY <1>1, KeysDiffer DEF AllPending, HasTask

\* A step that leaves the ticks of the nodes that stay up alone.
LEMMA TicksSame ==
    ASSUME NEW t \in TaskIds, BoardTyped, TickShape(t), Flow(t), AllPending(t)',
           todo' = todo, claimAge' = claimAge,
           \A p \in up' : (p \in ticking' <=> p \in ticking) /\ (p \in ticked' <=> p \in ticked),
           ticking' \subseteq ticking, ticked' \subseteq ticked
    PROVE  TickShape(t)' /\ RoundStep(t)
<1>1. TickShape(t)'
  <2>1. /\ \A n \in Nodes : todo'[n] \subseteq {<<t, "pending">>}
        /\ \A n \in Nodes : todo'[n] # {} => HasTask(data'[n], t)
        /\ \A n \in up' : todo'[n] # {} => n \in ticking'
        /\ ticking' \cap ticked' = {}
    BY DEF TickShape, Flow, BoardTyped
  <2> QED
    BY <2>1 DEF TickShape, AllPending, HasTask
<1>2. \A p \in up' : Past(p)' <=> Past(p)
  BY DEF Past
<1>3. \A n \in up', k \in {1, 2} : Before(n, t, k)' => Before(n, t, k)
  BY <1>2 DEF Before
<1> QED
  BY <1>1, <1>2, <1>3 DEF RoundStep

\* A visit of the task: the node was not past its visits, and is afterwards.
LEMMA VisitStep ==
    ASSUME NEW t \in TaskIds, BoardTyped, BoardTyped', TickShape(t), Flow(t), AllPending(t)',
           NEW n \in Nodes, NEW tc \in todo[n], Visiting(n, tc),
           \A p \in Nodes : claimAge'[p][t] = claimAge[p][t]
                            \/ (p = n /\ claimAge'[p][t] <= claimAge[p][t] + 1),
           n \in Workers => n \in Known(data'[n], t)
    PROVE  TickShape(t)' /\ RoundStep(t)
<1>1. /\ tc = <<t, "pending">> /\ todo[n] = {tc} /\ n \in up /\ n \in ticking /\ n \notin ticked
      /\ HasTask(data[n], t)
  BY DEF TickShape, Visiting
<1>2. /\ todo \in [Nodes -> SUBSET (TaskIds \X {"pending", "done", "failed"})]
      /\ todo' = [todo EXCEPT ![n] = {}] /\ up' = up /\ ticking' = ticking /\ ticked' = ticked
  BY <1>1 DEF BoardTyped, Visiting
<1>3. TickShape(t)'
  <2>1. /\ \A p \in Nodes : todo'[p] \subseteq {<<t, "pending">>}
        /\ \A p \in Nodes : todo'[p] # {} => HasTask(data'[p], t)
        /\ \A p \in up' : todo'[p] # {} => p \in ticking'
        /\ ticking' \cap ticked' = {}
    BY <1>2 DEF TickShape, Flow, BoardTyped
  <2> QED
    BY <2>1 DEF TickShape, AllPending, HasTask
<1>4. ~Past(n) /\ Past(n)' /\ \A p \in up' : p # n => (Past(p)' <=> Past(p))
  BY <1>1, <1>2 DEF Past, BoardTyped
<1>5. \A p \in Nodes : claimAge[p][t] \in Nat /\ claimAge'[p][t] \in Nat
  BY GraceAssumption DEF BoardTyped
<1>6. ASSUME NEW p \in up', NEW k \in {1, 2}, Before(p, t, k)'
      PROVE  Before(p, t, k)
  <2>1. p \in Nodes
    BY DEF BoardTyped
  <2>2. CASE p # n
    BY <1>4, <1>6, <2>1, <2>2 DEF Before
  <2>3. CASE p = n
    BY <1>4, <1>5, <1>6, <2>1, <2>3 DEF Before
  <2> QED
    BY <2>2, <2>3
<1>7. \A p \in up' \cap Workers :
         HasTask(data[p], t) /\ Past(p)' => Past(p) \/ p \in Known(data'[p], t)
  BY <1>4
<1>8. \A p \in Nodes : claimAge'[p][t] >= 1 =>
         claimAge[p][t] >= 1 \/ (HasTask(data'[p], t) /\ p \in ticking')
  BY <1>1, <1>2 DEF Flow
<1> QED
  BY <1>3, <1>6, <1>7, <1>8 DEF RoundStep

\* A tick begins: the node reads the task if it has it.
LEMMA BeginStep ==
    ASSUME Sync = TRUE, NEW t \in TaskIds, \A u \in TaskIds : u = t, TypeInv, BoardTyped,
           TickShape(t), Flow(t), AllPending(t)', NEW n \in Nodes, BeginTick(n)
    PROVE  TickShape(t)' /\ RoundStep(t)
<1>0. StoreInv
  BY TypeParts
<1>1. /\ n \in up /\ n \notin ticking /\ n \notin ticked /\ ticking' = ticking \cup {n}
      /\ up' = up /\ ticked' = ticked /\ claimAge' = claimAge /\ data' = data
  BY DEF BeginTick, store
<1>2. PICK T : T = {<<u, State(n, u)>> : u \in {s \in TaskIds : State(n, s) # None}}
  OBVIOUS
<1>3. todo' = [todo EXCEPT ![n] = T]
  BY <1>2 DEF BeginTick
<1>4. data[n] \in S!Digests
  BY DEF S!Digests
<1>5. HasTask(data[n], t) => State(n, t) = "pending"
  BY <1>0, <1>4, KeysDiffer DEF TickShape, HasTask, State, StoreInv, AllLive
<1>6. ~HasTask(data[n], t) => State(n, t) = None
  BY LiveEntry DEF HasTask, State
<1>7. T = IF HasTask(data[n], t) THEN {<<t, "pending">>} ELSE {}
  <2>1. CASE HasTask(data[n], t)
    <3>1. State(n, t) = "pending" /\ "pending" # None
      BY <1>5, <2>1, NoneAssumption
    <3> QED
      BY <1>2, <2>1, <3>1
  <2>2. CASE ~HasTask(data[n], t)
    BY <1>2, <1>6, <2>2
  <2> QED
    BY <2>1, <2>2
<1>8. /\ todo'[n] = IF HasTask(data[n], t) THEN {<<t, "pending">>} ELSE {}
      /\ \A p \in Nodes : p # n => todo'[p] = todo[p]
  BY <1>3, <1>7 DEF BoardTyped
<1>9. TickShape(t)'
  <2>1. /\ \A p \in Nodes : todo'[p] \subseteq {<<t, "pending">>}
        /\ \A p \in Nodes : todo'[p] # {} => HasTask(data'[p], t)
        /\ \A p \in up' : todo'[p] # {} => p \in ticking'
        /\ ticking' \cap ticked' = {}
    BY <1>1, <1>8 DEF TickShape, BoardTyped
  <2> QED
    BY <2>1 DEF TickShape, AllPending, HasTask
<1>10. /\ ~Past(n) /\ (HasTask(data[n], t) => ~Past(n)')
       /\ \A p \in up' : p # n => (Past(p)' <=> Past(p))
  BY <1>1, <1>8 DEF Past, BoardTyped
<1>11. \A p \in up', k \in {1, 2} : Before(p, t, k)' => Before(p, t, k)
  <2>1. ASSUME NEW p \in up', NEW k \in {1, 2}, Before(p, t, k)'
        PROVE  Before(p, t, k)
    <3>1. claimAge[p][t] \in Nat
      BY <1>1, GraceAssumption DEF BoardTyped
    <3> QED
      BY <1>1, <1>10, <2>1, <3>1 DEF Before
  <2> QED
    BY <2>1
<1> QED
  BY <1>1, <1>9, <1>10, <1>11 DEF RoundStep

\* A tick ends: the node stays past its visits.
LEMMA EndStep ==
    ASSUME Sync = TRUE, NEW t \in TaskIds, BoardTyped, TickShape(t), Flow(t), AllPending(t)',
           NEW n \in Nodes, NEW targets \in SUBSET (Nodes \ {n}), EndTick(n, targets)
    PROVE  TickShape(t)' /\ RoundStep(t)
<1>1. /\ n \in up /\ up' = up /\ ticking' = ticking \ {n} /\ ticked' = ticked \cup {n}
      /\ n \in ticking /\ todo[n] = {} /\ todo' = todo /\ claimAge' = claimAge
  BY ToldAll DEF board
<1>2. TickShape(t)'
  <2>1. /\ \A p \in Nodes : todo'[p] \subseteq {<<t, "pending">>}
        /\ \A p \in Nodes : todo'[p] # {} => HasTask(data'[p], t)
        /\ \A p \in up' : todo'[p] # {} => p \in ticking'
        /\ ticking' \cap ticked' = {}
    BY <1>1 DEF TickShape, Flow, BoardTyped
  <2> QED
    BY <2>1 DEF TickShape, AllPending, HasTask
<1>3. \A p \in up' : Past(p)' <=> Past(p)
  BY <1>1 DEF Past
<1>4. \A p \in up', k \in {1, 2} : Before(p, t, k)' => Before(p, t, k)
  BY <1>1, <1>3 DEF Before
<1> QED
  BY <1>1, <1>2, <1>3, <1>4 DEF RoundStep

\* What has spread goes on to spread, when no tick ends.
LEMMA SourcesSpread ==
    ASSUME NEW t \in TaskIds, BoardTyped, BoardTyped', TaskSpreads(t), ClaimSpreads(t),
           Flow(t), Sources(t), RoundStep(t)
    PROVE  TaskSpreads(t)' /\ ClaimSpreads(t)'
<1>1. TaskSpreads(t)'
  <2> SUFFICES ASSUME NEW n \in Nodes, claimAge'[n][t] >= 1
               PROVE  HasTask(data'[n], t) /\ (n \in up' \ ticking' => TaskHeard(t)')
    BY DEF TaskSpreads, HasTask
  <2>1. CASE claimAge[n][t] >= 1
    <3>1. HasTask(data'[n], t)
      BY <2>1 DEF TaskSpreads, Flow
    <3>2. n \in up' \ ticking' => TaskHeard(t)
      BY <2>1 DEF TaskSpreads, Sources
    <3> QED
      BY <3>1, <3>2, HeardKept
  <2>2. CASE HasTask(data'[n], t) /\ n \in ticking'
    BY <2>2
  <2> QED
    BY <2>1, <2>2 DEF RoundStep
<1>2. ClaimSpreads(t)'
  <2> SUFFICES ASSUME NEW q \in Nodes,
                      \/ \E p \in Nodes \ {q} : q \in Known(data'[p], t)
                      \/ \E m \in net' : q \in Known(m.digest, t)
                      \/ q \in up' \ ticking' /\ q \in Known(data'[q], t)
               PROVE  ClaimHeard(q, t)'
    BY DEF ClaimSpreads, Known
  <2>1. ASSUME NEW p \in Nodes, q \in Known(data'[p], t), p # q \/ q \in up' \ ticking'
        PROVE  ClaimHeard(q, t)
    <3>1. CASE q \in Known(data[p], t)
      BY <2>1, <3>1 DEF ClaimSpreads, Sources
    <3>2. CASE \E m \in net : q \in Known(m.digest, t)
      BY <3>2 DEF ClaimSpreads
    <3>3. CASE q = p /\ p \in ticking'
      BY <2>1, <3>3
    <3> QED
      BY <2>1, <3>1, <3>2, <3>3 DEF Sources
  <2>2. ASSUME NEW m \in net', q \in Known(m.digest, t)
        PROVE  ClaimHeard(q, t)
    BY <2>2 DEF ClaimSpreads, Sources
  <2>3. ClaimHeard(q, t)
    BY <2>1, <2>2
  <2> QED
    BY <2>3, HeardKept
<1> QED
  BY <1>1, <1>2

\* And when a tick ends, since it tells everyone.
LEMMA EndSpread ==
    ASSUME Sync = TRUE, NEW t \in TaskIds, BoardTyped, TaskSpreads(t), ClaimSpreads(t), Flow(t),
           NEW n \in Nodes, NEW targets \in SUBSET (Nodes \ {n}), EndTick(n, targets)
    PROVE  TaskSpreads(t)' /\ ClaimSpreads(t)'
<1>1. /\ data' = data /\ n \in up /\ up' = up /\ ticking' = ticking \ {n} /\ claimAge' = claimAge
      /\ \A m \in net' : m \in net \/ m.digest = data[n]
      /\ \A p \in Nodes \ {n} : \E m \in net' : m.dst = p /\ m.digest = data[n]
  BY ToldAll DEF board
<1>2. HasTask(data[n], t) => TaskHeard(t)'
  <2> SUFFICES ASSUME HasTask(data[n], t), NEW p \in up'
               PROVE  \/ HasTask(data'[p], t)
                      \/ \E m \in net' : m.dst = p /\ HasTask(m.digest, t)
    BY DEF TaskHeard, HasTask
  <2> QED
    BY <1>1 DEF BoardTyped
<1>3. n \in Known(data[n], t) => ClaimHeard(n, t)'
  <2> SUFFICES ASSUME n \in Known(data[n], t), NEW p \in up'
               PROVE  \/ n \in Known(data'[p], t)
                      \/ \E m \in net' : m.dst = p /\ n \in Known(m.digest, t)
    BY DEF ClaimHeard, Known
  <2> QED
    BY <1>1 DEF BoardTyped
<1>4. TaskSpreads(t)'
  <2> SUFFICES ASSUME NEW p \in Nodes, claimAge'[p][t] >= 1
               PROVE  HasTask(data'[p], t) /\ (p \in up' \ ticking' => TaskHeard(t)')
    BY DEF TaskSpreads, HasTask
  <2> QED
    BY <1>1, <1>2, HeardKept DEF TaskSpreads
<1>5. ClaimSpreads(t)'
  <2> SUFFICES ASSUME NEW q \in Nodes,
                      \/ \E p \in Nodes \ {q} : q \in Known(data'[p], t)
                      \/ \E m \in net' : q \in Known(m.digest, t)
                      \/ q \in up' \ ticking' /\ q \in Known(data'[q], t)
               PROVE  ClaimHeard(q, t)'
    BY DEF ClaimSpreads, Known
  <2>1. CASE q = n /\ n \in Known(data[n], t)
    BY <1>3, <2>1
  <2>2. CASE q # n \/ n \notin Known(data[n], t)
    <3>1. \/ \E p \in Nodes \ {q} : q \in Known(data[p], t)
          \/ \E m \in net : q \in Known(m.digest, t)
          \/ q \in up \ ticking /\ q \in Known(data[q], t)
      BY <1>1, <2>2
    <3>2. ClaimHeard(q, t)
      BY <3>1 DEF ClaimSpreads
    <3> QED
      BY <3>2, HeardKept
  <2> QED
    BY <2>1, <2>2
<1> QED
  BY <1>4, <1>5

\* Within a round, what nodes do while they wait.
LEMMA WaitingKept ==
    ASSUME Sync = TRUE, NEW t \in TaskIds, \A u \in TaskIds : u = t, TypeInv, TypeInv', [Next]_vars,
           Waiting(t), \A n \in Nodes : executed'[n] = {},
           TickShape(t)', RoundStep(t), TaskSpreads(t)', ClaimSpreads(t)'
    PROVE  Waiting(t)'
<1>0. BoardTyped /\ BoardTyped' /\ Flow(t)
  BY TypeParts, TypePartsNext, FlowNext
<1>1. SecondRound(t)'
  <2> SUFFICES ASSUME NEW n \in up', Before(n, t, 1)'
               PROVE  /\ \A p \in up' : HasTask(data'[p], t)
                      /\ \A p \in up' \cap Workers : Past(p)' => p \in Known(data'[p], t)
    BY DEF SecondRound, HasTask, Known
  <2>1. n \in up /\ up' \subseteq up /\ up \subseteq Nodes
    BY <1>0 DEF Flow, BoardTyped
  <2>2. Before(n, t, 1)
    BY DEF RoundStep
  <2>3. /\ \A p \in up : HasTask(data[p], t)
        /\ \A p \in up \cap Workers : Past(p) => p \in Known(data[p], t)
    BY <2>1, <2>2 DEF Waiting, SecondRound
  <2>4. \A p \in up' : HasTask(data'[p], t)
    BY <1>0, <2>1, <2>3 DEF Flow
  <2>5. ASSUME NEW p \in up' \cap Workers, Past(p)'
        PROVE  p \in Known(data'[p], t)
    <3>1. Past(p) \/ p \in Known(data'[p], t)
      BY <2>1, <2>3, <2>5 DEF RoundStep
    <3>2. Past(p) => p \in Known(data'[p], t)
      BY <1>0, <2>1, <2>3 DEF Flow
    <3> QED
      BY <3>1, <3>2
  <2> QED
    BY <2>4, <2>5
<1>2. ThirdRound(t)'
  <2> SUFFICES ASSUME NEW n \in up', Before(n, t, 2)'
               PROVE  \E C \in SUBSET Nodes : Complete(C, t)'
    BY DEF ThirdRound
  <2>1. n \in up /\ Before(n, t, 2)
    BY <1>0 DEF Flow, RoundStep
  <2>2. PICK C \in SUBSET Nodes : Complete(C, t)
    BY <2>1 DEF Waiting, ThirdRound
  <2> QED
    BY <2>2, CompleteKept
<1> QED
  BY <1>1, <1>2 DEF Waiting

\* A round ends when everyone has ticked and everything has arrived: who has
\* visited the task in this round has told everyone of it, and when everyone
\* who can has claimed it, everyone knows all claims.
LEMMA RoundEnds ==
    ASSUME Sync = TRUE, NEW t \in TaskIds, \A u \in TaskIds : u = t, TypeInv, TypeInv', NextRound,
           Waiting(t)
    PROVE  Waiting(t)'
<1>0. BoardTyped /\ RunningExecuted /\ StoreInv
  BY TypeParts
<1>1. \A n \in Nodes : running[n] = None
  BY <1>0 DEF Waiting, RunningExecuted
<1>2. Busy = {}
  BY <1>0, <1>1 DEF Busy, BoardTyped
<1>3. /\ data' = data /\ net' = net /\ net = {} /\ up' = up /\ up \subseteq ticked
      /\ ticking = {} /\ ticking' = {} /\ ticked' = {}
      /\ todo' = todo /\ claimAge' = claimAge /\ executed' = executed
  BY <1>2 DEF NextRound, S!Tick, store, board
<1>4. TickShape(t)'
  <2>1. S!Digests' = S!Digests
    BY <1>3 DEF S!Digests
  <2>2. AllPending(t)'
    BY <1>3, <2>1 DEF AllPending, Waiting, TickShape, HasTask
  <2> QED
    BY <1>3, <2>2 DEF Waiting, TickShape, AllPending, HasTask
<1>5. TaskSpreads(t)' /\ ClaimSpreads(t)'
  BY <1>3 DEF Waiting, TaskSpreads, ClaimSpreads, TaskHeard, ClaimHeard, HasTask, Known
<1>6. \A p \in up : Past(p) /\ ~Past(p)'
  BY <1>3 DEF Past
<1>7. \A p \in up : claimAge[p][t] \in Nat
  BY <1>0, GraceAssumption DEF BoardTyped
<1>8. SecondRound(t)'
  <2> SUFFICES ASSUME NEW n \in up, Before(n, t, 1)'
               PROVE  \A p \in up : HasTask(data[p], t)
    BY <1>3, <1>6 DEF SecondRound, HasTask
  <2>1. claimAge[n][t] >= 1
    BY <1>3, <1>7 DEF Before
  <2>2. TaskHeard(t)
    BY <1>0, <1>3, <2>1 DEF Waiting, TaskSpreads, BoardTyped
  <2> QED
    BY <1>3, <2>2 DEF TaskHeard
<1>9. ThirdRound(t)'
  <2> SUFFICES ASSUME NEW n \in up, Before(n, t, 2)'
               PROVE  \E C \in SUBSET Nodes : Complete(C, t)'
    BY <1>3 DEF ThirdRound
  <2>1. claimAge[n][t] >= 2
    BY <1>3, <1>7 DEF Before
  <2>2. Before(n, t, 1)
    BY <1>7, <2>1 DEF Before
  <2>3. \A p \in up \cap Workers : p \in Known(data[p], t)
    BY <1>6, <2>2 DEF Waiting, SecondRound
  <2>4. ASSUME NEW p \in up, NEW q \in Known(data[p], t)
        PROVE  \A r \in up : q \in Known(data[r], t)
    <3>1. q \in Nodes /\ p \in Nodes
      BY <1>0 DEF Known, BoardTyped
    <3>2. ClaimHeard(q, t)
      BY <1>3, <2>4, <3>1 DEF Waiting, ClaimSpreads
    <3> QED
      BY <1>3, <3>2 DEF ClaimHeard
  <2>5. PICK C : C = Known(data[n], t)
    OBVIOUS
  <2>6. C \in SUBSET Nodes /\ \A p \in up : Known(data[p], t) = C
    <3>1. \A p \in up : Known(data[p], t) \subseteq C
      BY <2>4, <2>5
    <3>2. \A p \in up : C \subseteq Known(data[p], t)
      BY <2>4, <2>5
    <3>3. C \subseteq Nodes
      BY <2>5 DEF Known
    <3> QED
      BY <3>1, <3>2, <3>3
  <2>7. up \cap Workers \subseteq C
    BY <2>3, <2>6
  <2>8. Complete(C, t)
    BY <1>3, <2>6, <2>7 DEF Complete
  <2>9. Complete(C, t)'
    BY <1>3, <2>8 DEF Complete, Known
  <2> QED
    BY <2>6, <2>9
<1> QED
  BY <1>3, <1>4, <1>5, <1>8, <1>9 DEF Waiting

\* Nobody has executed: the next step is the first execution, or all go on to
\* wait.
LEMMA WaitingNext ==
    ASSUME Sync = TRUE, Grace >= 3, NEW t \in TaskIds, \A u \in TaskIds : u = t,
           TypeInv, TypeInv', [Next]_vars, Waiting(t)
    PROVE  OnceInv(t)'
<1> USE DEF board
<1>0. /\ BoardTyped /\ BoardTyped' /\ StoreInv /\ StoreInv' /\ RunningExecuted /\ Flow(t)
      /\ TickShape(t) /\ AllPending(t) /\ TaskSpreads(t) /\ ClaimSpreads(t)
  BY TypeParts, TypePartsNext, FlowNext DEF Waiting, TickShape, AllPending
<1>1. CASE \E n \in Nodes : t \in executed'[n]
  BY <1>1, FirstExecution DEF OnceInv
<1>2. CASE \A n \in Nodes : t \notin executed'[n]
  <2>0. \A n \in Nodes : executed'[n] = {}
    BY <1>0, <1>2 DEF BoardTyped
  <2>a. ASSUME TickShape(t)', RoundStep(t), Sources(t)
        PROVE  Waiting(t)'
    BY <1>0, <2>0, <2>a, SourcesSpread, WaitingKept
  <2>b. ASSUME data' = data, \A m \in net' : m \in net \/ \E n \in Nodes : m.digest = data[n]
        PROVE  AllPending(t)'
    BY <1>0, <2>b, SendDerived, PendingDerived
  <2>1. ASSUME NEW n \in Nodes, NEW u \in TaskIds, Submit(n, u)
        PROVE  Waiting(t)'
    <3>1. PICK e : Wrote(n, TaskKey(t), e) /\ e.value = TaskValue("pending")
      BY <1>0, <2>1, WriteTask DEF Submit
    <3>2. /\ net' = net
          /\ \A p \in Nodes : Known(data'[p], t) = Known(data[p], t)
          /\ \A p \in Nodes : data'[p][TaskKey(t)] = IF p = n THEN e ELSE data[p][TaskKey(t)]
      BY <1>0, <3>1, TaskWritten
    <3>3. e.value.state = "pending"
      BY <3>1 DEF TaskValue
    <3>4. AllPending(t)'
      <4> SUFFICES ASSUME NEW d \in S!Digests', d[TaskKey(t)] # None
                   PROVE  d[TaskKey(t)].value.state = "pending"
        BY DEF AllPending, HasTask
      <4>1. CASE \E p \in Nodes : d = data'[p]
        <5>1. PICK p \in Nodes : d = data'[p]
          BY <4>1
        <5>2. data[p] \in S!Digests
          BY DEF S!Digests
        <5> QED
          BY <1>0, <3>2, <3>3, <5>1, <5>2 DEF AllPending, HasTask
      <4>2. CASE \E m \in net : d = m.digest
        <5>1. d \in S!Digests
          BY <4>2 DEF S!Digests
        <5> QED
          BY <1>0, <5>1 DEF AllPending, HasTask
      <4> QED
        BY <3>2, <4>1, <4>2 DEF S!Digests
    <3>5. TickShape(t)' /\ RoundStep(t)
      BY <1>0, <2>1, <3>4, TicksSame DEF Submit
    <3>6. Sources(t)
      BY <2>1, <3>2 DEF Sources, Submit
    <3> QED
      BY <2>a, <3>5, <3>6
  <2>2. ASSUME NEW n \in Nodes, BeginTick(n)
        PROVE  Waiting(t)'
    <3>1. data' = data /\ net' = net /\ up' = up /\ ticking' = ticking \cup {n}
      BY <2>2 DEF BeginTick, store
    <3>2. AllPending(t)'
      BY <2>b, <3>1
    <3>3. TickShape(t)' /\ RoundStep(t)
      BY <1>0, <2>2, <3>2, BeginStep
    <3>4. Sources(t)
      BY <3>1 DEF Sources
    <3> QED
      BY <2>a, <3>3, <3>4
  <2>3. ASSUME NEW n \in Nodes, NEW tc \in todo[n],
               VisitSettled(n, tc) \/ VisitForeign(n, tc) \/ VisitPending(n, tc)
        PROVE  Waiting(t)'
    <3>1. tc = <<t, "pending">> /\ n \in ticking /\ Visiting(n, tc) /\ ticking' = ticking /\ up' = up
      BY <1>0, <2>3 DEF TickShape, VisitSettled, VisitForeign, VisitPending, Visiting
    <3>2. CASE VisitForeign(n, tc)
      <4>1. data' = data /\ net' = net /\ claimAge' = claimAge /\ n \notin Workers
        BY <3>2 DEF VisitForeign, store
      <4>2. AllPending(t)'
        BY <2>b, <4>1
      <4>3. TickShape(t)' /\ RoundStep(t)
        BY <1>0, <3>1, <4>1, <4>2, VisitStep
      <4>4. Sources(t)
        BY <3>1, <4>1 DEF Sources
      <4> QED
        BY <2>a, <4>3, <4>4
    <3>3. CASE VisitPending(n, tc)
      <4>1. MaybeClaim(n, t)
        BY <3>1, <3>3 DEF VisitPending
      <4>2. /\ net' = net
            /\ \A p \in Nodes : /\ data'[p][TaskKey(t)] = data[p][TaskKey(t)]
                                /\ Known(data'[p], t) = Known(data[p], t) \cup (IF p = n THEN {n} ELSE {})
        BY <1>0, <4>1, ClaimWritten
      <4>3. AllPending(t)'
        <5> SUFFICES ASSUME NEW d \in S!Digests', d[TaskKey(t)] # None
                     PROVE  d[TaskKey(t)].value.state = "pending"
          BY DEF AllPending, HasTask
        <5>1. \E f \in S!Digests : f[TaskKey(t)] = d[TaskKey(t)]
          BY <4>2 DEF S!Digests
        <5> QED
          BY <1>0, <5>1 DEF AllPending, HasTask
      <4>4. \A p \in Nodes : claimAge'[p][t] = claimAge[p][t]
                             \/ (p = n /\ claimAge'[p][t] <= claimAge[p][t] + 1)
        <5> DEFINE age == IF claimAge[n][t] < Grace THEN claimAge[n][t] + 1 ELSE Grace
        <5>1. claimAge' = [claimAge EXCEPT ![n][t] = age]
          BY <3>1, <3>3 DEF VisitPending
        <5>2. claimAge \in [Nodes -> [TaskIds -> 0..Grace]]
          BY <1>0 DEF BoardTyped
        <5>3. age <= claimAge[n][t] + 1
          BY <5>2, GraceAssumption
        <5> QED
          BY <5>1, <5>2, <5>3
      <4>5. n \in Known(data'[n], t)
        BY <4>2
      <4>6. TickShape(t)' /\ RoundStep(t)
        BY <1>0, <3>1, <4>3, <4>4, <4>5, VisitStep
      <4>7. Sources(t)
        BY <3>1, <4>2 DEF Sources
      <4> QED
        BY <2>a, <4>6, <4>7
    <3>4. ~VisitSettled(n, tc)
      BY <3>1 DEF VisitSettled
    <3> QED
      BY <2>3, <3>2, <3>3, <3>4
  <2>4. ASSUME NEW n \in Nodes, NEW outcome \in {"done", "failed"}, Finish(n, outcome)
        PROVE  Waiting(t)'
    BY <1>0, <2>4 DEF Waiting, RunningExecuted, Finish
  <2>5. ASSUME NEW n \in Nodes, NEW targets \in SUBSET (Nodes \ {n}), EndTick(n, targets)
        PROVE  Waiting(t)'
    <3>1. data' = data /\ \A m \in net' : m \in net \/ m.digest = data[n]
      BY <2>5, ToldAll
    <3>2. AllPending(t)'
      BY <2>b, <3>1
    <3>3. TickShape(t)' /\ RoundStep(t)
      BY <1>0, <2>5, <3>2, EndStep
    <3>4. TaskSpreads(t)' /\ ClaimSpreads(t)'
      BY <1>0, <2>5, EndSpread
    <3> QED
      BY <2>0, <3>3, <3>4, WaitingKept
  <2>6. ASSUME NEW m \in net, Receive(m)
        PROVE  Waiting(t)'
    <3>1. S!Receive(m) /\ up' = up /\ ticking' = ticking /\ ticked' = ticked
      BY <2>6 DEF Receive
    <3>2. AllPending(t)'
      BY <1>0, <3>1, ReceiveDerived, PendingDerived
    <3>3. TickShape(t)' /\ RoundStep(t)
      BY <1>0, <2>6, <3>2, TicksSame DEF Receive
    <3>4. /\ m.dst \in Nodes /\ net' = net \ {m}
          /\ \A p \in Nodes : p # m.dst => data'[p] = data[p]
          /\ Known(data'[m.dst], t) = Known(data[m.dst], t) \cup Known(m.digest, t)
      BY <1>0, <3>1, MessageMerged
    <3>5. Sources(t)
      BY <3>1, <3>4 DEF Sources
    <3> QED
      BY <2>a, <3>3, <3>5
  <2>7. ASSUME data' = data, net' \subseteq net, todo' = todo, claimAge' = claimAge,
               \A p \in up' : (p \in ticking' <=> p \in ticking) /\ (p \in ticked' <=> p \in ticked),
               up' \subseteq up, ticking' \subseteq ticking, ticked' \subseteq ticked
        PROVE  Waiting(t)'
    <3>1. AllPending(t)'
      BY <2>b, <2>7
    <3>2. TickShape(t)' /\ RoundStep(t)
      BY <1>0, <2>7, <3>1, TicksSame
    <3>3. Sources(t)
      BY <2>7 DEF Sources
    <3> QED
      BY <2>a, <3>2, <3>3
  <2>8. ASSUME NEW m \in net, Lose(m)
        PROVE  Waiting(t)'
    BY <2>7, <2>8 DEF Lose, S!Lose
  <2>9. ASSUME NextRound
        PROVE  Waiting(t)'
    BY <2>9, RoundEnds
  <2>10. ASSUME NEW n \in Nodes, Crash(n)
         PROVE  Waiting(t)'
    BY <2>7, <2>10 DEF Crash, store
  <2>11. ASSUME UNCHANGED vars
         PROVE  Waiting(t)'
    <3>1. /\ data' = data /\ net' = net /\ todo' = todo /\ claimAge' = claimAge
          /\ up' = up /\ ticking' = ticking /\ ticked' = ticked
      BY <2>11 DEF vars, store
    <3> QED
      BY <2>7, <3>1
  <2>12. Waiting(t)'
    BY <2>1, <2>2, <2>3, <2>4, <2>5, <2>6, <2>8, <2>9, <2>10, <2>11 DEF Next
  <2> QED
    BY <2>12 DEF OnceInv
<1> QED
  BY <1>1, <1>2

\* Nobody knows anything initially.
LEMMA OnceInit ==
    ASSUME NEW t \in TaskIds, Init
    PROVE  Waiting(t)
<1>1. /\ data = [n \in Nodes |-> S!EmptyDigest] /\ net = {} /\ ticking = {} /\ ticked = {} /\ up = Nodes
      /\ \A n \in Nodes : todo[n] = {} /\ executed[n] = {} /\ claimAge[n][t] = 0
  BY DEF Init, S!Init
<1>2. \A d \in S!Digests : ~HasTask(d, t) /\ Known(d, t) = {}
  BY <1>1, KeysDiffer DEF S!Digests, S!EmptyDigest, HasTask, Known
<1>3. \A n \in Nodes : data[n] \in S!Digests
  BY DEF S!Digests
<1>4. TickShape(t)
  BY <1>1, <1>2 DEF TickShape
<1>5. TaskSpreads(t) /\ ClaimSpreads(t)
  BY <1>1, <1>2, <1>3 DEF TaskSpreads, ClaimSpreads
<1>6. SecondRound(t) /\ ThirdRound(t)
  BY <1>1 DEF SecondRound, ThirdRound, Before
<1> QED
  BY <1>1, <1>4, <1>5, <1>6 DEF Waiting

\* "Together these avoid duplicate execution even when the winner is not the
\* first node to claim" (evaluate): in a swarm whose rounds are in step, with a
\* claim_grace_rounds of three or more and one task at a time, no two nodes
\* execute the task, for any number of nodes and workers, any clocks and loads,
\* any order of ticks and deliveries within a round and any crashes.  Two
\* rounds would not do: the claims of the nodes that learn of the task in the
\* second are known to everyone only in the third.
THEOREM AtMostOnceCorrect ==
    ASSUME Sync = TRUE, Grace >= 3, \A t, u \in TaskIds : t = u
    PROVE  Spec => []AtMostOnce
<1> DEFINE Inv == TypeInv /\ \A t \in TaskIds : OnceInv(t)
<1>1. Init => Inv
  BY TypeInit, OnceInit DEF OnceInv
<1>2. Inv /\ [Next]_vars => Inv'
  <2> SUFFICES ASSUME Inv, [Next]_vars PROVE Inv'
    OBVIOUS
  <2>1. TypeInv /\ TypeInv'
    BY TypeNext
  <2>2. ASSUME NEW t \in TaskIds
        PROVE  OnceInv(t)'
    <3>1. CASE Waiting(t)
      BY <2>1, <3>1, WaitingNext
    <3>2. CASE Decided(t)
      BY <2>1, <3>2, DecidedKept DEF OnceInv
    <3> QED
      BY <3>1, <3>2 DEF OnceInv
  <2> QED
    BY <2>1, <2>2
<1>3. Inv => AtMostOnce
  BY DEF OnceInv, Waiting, Decided, AtMostOnce
<1> QED
  BY <1>1, <1>2, <1>3, PTL DEF Spec
=============================================================================
