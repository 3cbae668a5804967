--------------------------- MODULE KVStoreProofs ---------------------------
(***************************************************************************)
(* Proofs about KVStore, for every finite set of nodes, every values, ttls *)
(* and quorums, and any number of operations.                              *)
(*                                                                         *)
(* QuorumReads follows from two quorums that meet, but the code counts     *)
(* answers and does not remember who gave them.  QuorumInv says that the   *)
(* counts stand for sets of nodes: those that hold a write, and those that *)
(* answered a read and held nothing newer; unless the write is lost, which *)
(* takes two clocks that differ (StrictQuorumReadsCorrect).                *)
(*                                                                         *)
(* PutsLast and IndexAgrees are about one writer.  Its replicas then form  *)
(* a chain: of two of them one is a past state of the other, so that a     *)
(* merge yields a state the writer has been in, for all keys at once.      *)
(***************************************************************************)
EXTENDS KVStore, FiniteSetTheorems, TLAPS

\* Requests are numbered from 1; every message belongs to one, and what is
\* written is an entry.
Numbered ==
    /\ requests \in Seq(Request)
    /\ \A m \in wire : m.req \in DOMAIN requests /\ (m.type = "write_req" => m.entry # None)
    /\ \A i \in DOMAIN requests : requests[i].kind = "put" => requests[i].best # None

\* x is a version no older than e.
Holds(x, e) == x # None /\ ~GT(e, x)

\* e is lost to the writes that U records; or x is still no older.
Lost(U, e) == \E u \in U : GT(e, u[1]) /\ ~GT(e, u[2])

Keeps(U, x, e) == Lost(U, e) \/ Holds(x, e)

\* No entry is ahead of its writer's clock, and a tombstone holds no value.
Proper(e) ==
    e # None => e.ts <= now + start.skew[e.origin] /\ (IsTombstone(e) => e.value = None)

\* So it is on the replicas, on the way and in the requests.
AllProper ==
    /\ \A n \in Nodes, k \in Keys : Proper(data[n][k])
    /\ \A m \in wire : m.type \in {"write_req", "read_resp"} => Proper(m.entry)
    /\ \A i \in DOMAIN requests : Proper(requests[i].best)

TypeInv == TypeOK /\ Numbered /\ AllProper

\* What is on its way belongs to a request of its kind, is the only message
\* between the two nodes, and a write that was acknowledged has been applied.
WireInv ==
    /\ \A m, k \in wire : m.req = k.req /\ m.node = k.node => m = k
    /\ \A m \in wire :
          /\ m.node # requests[m.req].node
          /\ m.type \in {"write_req", "write_resp"} <=> requests[m.req].kind = "put"
          /\ m.type = "write_req" => m.entry = requests[m.req].best
          /\ m.type = "write_resp" => Keeps(undercuts, data[m.node][Val], requests[m.req].best)

\* D are as many nodes as request i counts, and has nothing more to hear from:
\* the node that made it and those that answered.
Heard(D, i) ==
    Cardinality(D) = requests[i].answers + 1 /\ \A m \in wire : m.req = i => m.node \notin D

\* D hold what request i wrote.
Acknowledged(D, i) ==
    Heard(D, i) /\ \A p \in D : Keeps(undercuts, data[p][Val], requests[i].best)

PutInv ==
    \A i \in DOMAIN requests :
        requests[i].kind = "put" => \E D \in SUBSET Nodes : Acknowledged(D, i)

\* R is a write quorum that holds e.
Stored(R, e) == Cardinality(R) >= start.w /\ \A p \in R : Keeps(undercuts, data[p][Val], e)

AckInv == \A e \in acked : \E R \in SUBSET Nodes : Stored(R, e)

\* Request i has heard only of nodes D outside a quorum R that held e when the
\* read began; what a node of R has answered since is new enough.
Missed(D, R, i, e) ==
    /\ Heard(D, i) /\ D \cap R = {} /\ Stored(R, e)
    /\ \A m \in wire :
          m.req = i /\ m.type = "read_resp" /\ m.node \in R => Keeps(undercuts, m.entry, e)

\* That is so as long as a read has not seen a write of its floor.
GetInv ==
    \A i \in DOMAIN requests : requests[i].kind = "get" =>
        \A e \in requests[i].floor :
            \/ Keeps(undercuts, requests[i].best, e)
            \/ \E D, R \in SUBSET Nodes : Missed(D, R, i, e)

QuorumInv == WireInv /\ PutInv /\ AckInv /\ GetInv

-----------------------------------------------------------------------------
\* One node writes, with the local API.
Solo(n) == start.locals = {n} /\ start.quorums = {}

\* f is d, or a later state of the same replica.
Below(d, f) ==
    \A k \in Keys : d[k] = f[k] \/ d[k] = None \/ (f[k] # None /\ GT(f[k], d[k]))

\* The replicas form a chain whose last element is the writer.
Chain(n) ==
    /\ \A p \in Nodes : Below(data[p], data[n])
    /\ \A p, q \in Nodes : Below(data[p], data[q]) \/ Below(data[q], data[p])

\* A value whose timestamp is in L has no expiry.
Endures(d, L) == Live(d[Val]) /\ d[Val].ts \in L => ~Live(d[Exp])

\* So it is, on every replica, for values stored without a ttl.
NoExpiry == \A p \in Nodes : Endures(data[p], lasting)

\* The index of d has what d holds, and nothing else; a value that had expired
\* when the index was made is not in it.
Indexes(d, t) ==
    \A v \in UserValues : /\ Live(d[Idx(v)]) => Old(d) = v
                          /\ Old(d) = v => Live(d[Idx(v)]) \/ Expired(d, t)

\* So does the writer's, once it is made.
IndexInv(n) ==
    /\ Live(data[n][Exp]) => data[n][Exp].value \in Nat
    /\ n \notin indexed => \A v \in UserValues : data[n][Idx(v)] = None
    /\ n \in indexed => Indexes(data[n], Clock(n))

\* Every entry is the writer's.
Own(n) == \A p \in Nodes, k \in Keys : data[p][k] # None => data[p][k].origin = n

\* No request is ever made.
SoloInv(n) ==
    /\ requests = <<>> /\ wire = {} /\ lasting \subseteq 0..Clock(n)
    /\ Own(n) /\ Chain(n) /\ NoExpiry /\ IndexInv(n)

SoloInvs == \A n \in Nodes : Solo(n) => SoloInv(n)

-----------------------------------------------------------------------------
(* Versions *)

\* The order of versions is total and transitive.
LEMMA VersionOrder ==
    ASSUME NEW e \in Entry, NEW f \in Entry, NEW g \in Entry
    PROVE  /\ ~GT(e, e)
           /\ GT(e, f) => ~GT(f, e)
           /\ GT(e, f) /\ GT(f, g) => GT(e, g)
           /\ ~GT(e, f) /\ ~GT(f, g) => ~GT(e, g)
<1>1. /\ e.ts \in Nat /\ f.ts \in Nat /\ g.ts \in Nat
      /\ e.origin \in Nat /\ f.origin \in Nat /\ g.origin \in Nat
  BY NodesAssumption DEF Entry
<1> QED
  BY <1>1 DEF GT

\* A merge yields one of the two entries, which is no older than either.
LEMMA MergeHolds ==
    ASSUME NEW x \in Entry \cup {None}, NEW e \in Entry
    PROVE  /\ MergeEntry(x, e) \in Entry /\ MergeEntry(x, e) \in {x, e}
           /\ Holds(MergeEntry(x, e), e)
           /\ x # None => Holds(MergeEntry(x, e), x)
<1>1. CASE x = None
  BY <1>1, NoneAssumption, VersionOrder DEF MergeEntry, Supersedes, Holds
<1>2. CASE x \in Entry
  BY <1>2, NoneAssumption, VersionOrder DEF MergeEntry, Supersedes, Holds
<1> QED
  BY <1>1, <1>2

\* What is no older than something no older than e is no older than e.
LEMMA HoldsMore ==
    ASSUME NEW x \in Entry \cup {None}, NEW y \in Entry \cup {None}, NEW e \in Entry,
           Holds(x, e), Holds(y, x)
    PROVE  Holds(y, e)
BY NoneAssumption, VersionOrder DEF Holds

\* The keys of the store are different keys.
LEMMA KeysDiffer ==
    /\ Val \in Keys /\ Exp \in Keys /\ Val # Exp
    /\ \A v \in UserValues : Idx(v) \in Keys /\ Idx(v) # Val /\ Idx(v) # Exp
    /\ \A u, v \in UserValues : Idx(u) = Idx(v) => u = v
BY KeysAssumption DEF Val, Exp, Idx

-----------------------------------------------------------------------------
(* Type correctness *)

\* n wrote e at time t.
WrittenAt(e, n, t) ==
    e \in Entry /\ e.ts = t /\ e.origin = n /\ (IsTombstone(e) => e.value = None)

\* f is d after local writes of n at time t.
Rewritten(n, d, f, t) ==
    f \in Digest /\ \A k \in Keys : f[k] = d[k] \/ WrittenAt(f[k], n, t)

\* The entries a node writes.
LEMMA WritesType ==
    ASSUME NEW n \in Nodes, NEW t \in Nat, NEW v \in Values
    PROVE  /\ WrittenAt(NewEntry(v, t, n, FALSE), n, t) /\ Live(NewEntry(v, t, n, FALSE))
           /\ NewEntry(v, t, n, FALSE).value = v
<1> DEFINE e == NewEntry(v, t, n, FALSE)
<1>1. e \in Entry
  BY DEF NewEntry, Entry
<1>2. e # None
  BY <1>1, NoneAssumption
<1>3. e.ts = t /\ e.origin = n /\ e.value = v
  BY DEF NewEntry
<1>4. e.deleted = FALSE
  BY DEF NewEntry
<1> HIDE DEF e
<1>5. Live(e) /\ ~IsTombstone(e)
  BY <1>2, <1>4 DEF Live, IsTombstone
<1>6. WrittenAt(e, n, t)
  BY <1>1, <1>3, <1>5 DEF WrittenAt
<1> QED
  BY <1>3, <1>5, <1>6 DEF e

\* The tombstones a node writes.
LEMMA TombstoneType ==
    ASSUME NEW n \in Nodes, NEW t \in Nat
    PROVE  WrittenAt(Tombstone(n, t), n, t) /\ ~Live(Tombstone(n, t)) /\ Tombstone(n, t) # None
<1> DEFINE e == Tombstone(n, t)
<1>1. e \in Entry
  BY DEF NewEntry, Entry, Tombstone
<1>2. e # None
  BY <1>1, NoneAssumption
<1>3. e.ts = t /\ e.origin = n /\ e.value = None
  BY DEF NewEntry, Tombstone
<1>4. e.deleted = TRUE
  BY DEF NewEntry, Tombstone
<1> HIDE DEF e
<1>5. ~Live(e)
  BY <1>4 DEF Live
<1>6. WrittenAt(e, n, t)
  BY <1>1, <1>3 DEF WrittenAt
<1> QED
  BY <1>2, <1>5, <1>6 DEF e

\* _reindex writes index entries and tombstones of them.
LEMMA ReindexedWrites ==
    ASSUME NEW n \in Nodes, NEW d \in Digest, NEW v \in UserValues \cup {None}, NEW t \in Nat
    PROVE  Rewritten(n, d, Reindexed(n, d, v, t), t)
<1>1. 1 \in Values
  BY ValuesAssumption
<1>2. WrittenAt(NewEntry(1, t, n, FALSE), n, t) /\ WrittenAt(Tombstone(n, t), n, t)
  BY <1>1, WritesType, TombstoneType
<1> DEFINE f == Reindexed(n, d, v, t)
<1>3. ASSUME NEW k \in Keys
      PROVE  f[k] = d[k] \/ f[k] = NewEntry(1, t, n, FALSE) \/ f[k] = Tombstone(n, t)
  BY DEF Reindexed
<1>4. f = [k \in Keys |-> f[k]]
  BY DEF Reindexed
<1> HIDE DEF f
<1>5. f \in Digest
  BY <1>2, <1>3, <1>4 DEF Digest, WrittenAt
<1>6. Rewritten(n, d, f, t)
  BY <1>2, <1>3, <1>5 DEF Rewritten
<1> QED
  BY <1>6 DEF f

\* put, delete and the local part of quorum_put: on top of the index they write
\* the value and the expiry.
LEMMA UpdateWrites ==
    ASSUME NEW n \in Nodes, NEW d \in Digest, NEW g, NEW t, Rewritten(n, d, g, t),
           NEW x \in Entry \cup {None}, NEW y \in Entry \cup {None},
           x = d[Val] \/ WrittenAt(x, n, t), y = d[Exp] \/ WrittenAt(y, n, t)
    PROVE  Rewritten(n, d, [g EXCEPT ![Val] = x, ![Exp] = y], t)
<1>1. g \in Digest
  BY DEF Rewritten
<1>2. [g EXCEPT ![Val] = x, ![Exp] = y] \in Digest
  BY <1>1 DEF Digest
<1>3. ASSUME NEW k \in Keys
      PROVE  [g EXCEPT ![Val] = x, ![Exp] = y][k] = IF k = Exp THEN y ELSE IF k = Val THEN x ELSE g[k]
  BY <1>1, KeysDiffer DEF Digest
<1> QED
  BY <1>2, <1>3 DEF Rewritten

\* delete.
LEMMA DeleteWrites ==
    ASSUME NEW n \in Nodes, NEW d \in Digest, NEW t \in Nat
    PROVE  Rewritten(n, d, AfterDelete(n, d, t), t)
<1> DEFINE g == Reindexed(n, d, None, t)
           x == IF d[Val] = None THEN None ELSE Tombstone(n, t)
           y == IF Live(d[Exp]) THEN Tombstone(n, t) ELSE d[Exp]
<1>1. Rewritten(n, d, g, t)
  BY ReindexedWrites
<1>2. Val \in Keys /\ Exp \in Keys /\ Val # Exp /\ \A v \in UserValues \cup {None} : v = None \/ Idx(v) # Val
  BY KeysDiffer
<1>3. g \in Digest /\ g[Val] = d[Val] /\ g[Exp] = d[Exp]
  <2>1. g \in Digest
    BY <1>1 DEF Rewritten
  <2>2. \A w : Idx(w) # Val /\ Idx(w) # Exp
    BY DEF Idx, Val, Exp
  <2> QED
    BY <1>2, <2>1, <2>2 DEF Reindexed
<1>4. AfterDelete(n, d, t) = [g EXCEPT ![Val] = x, ![Exp] = y]
  BY <1>2, <1>3 DEF AfterDelete, Digest
<1>5. WrittenAt(Tombstone(n, t), n, t) /\ Tombstone(n, t) \in Entry
  BY TombstoneType DEF WrittenAt
<1>6. d[Val] \in Entry \cup {None} /\ d[Exp] \in Entry \cup {None}
  BY <1>2 DEF Digest
<1>7. x \in Entry \cup {None} /\ y \in Entry \cup {None}
  BY <1>5, <1>6
<1>8. /\ x = d[Val] \/ WrittenAt(x, n, t)
      /\ y = d[Exp] \/ WrittenAt(y, n, t)
  BY <1>5
<1> HIDE DEF g, x, y
<1>9. Rewritten(n, d, [g EXCEPT ![Val] = x, ![Exp] = y], t)
  BY <1>1, <1>7, <1>8, UpdateWrites
<1> QED
  BY <1>4, <1>9

\* put and the local part of quorum_put; y is the expiry they leave.
LEMMA PutWrites ==
    ASSUME NEW n \in Nodes, NEW d \in Digest, NEW v \in UserValues, NEW t \in Nat,
           NEW y \in Entry \cup {None}, y = d[Exp] \/ WrittenAt(y, n, t)
    PROVE  Rewritten(n, d, [Reindexed(n, d, v, t) EXCEPT ![Val] = NewEntry(v, t, n, FALSE),
                                                         ![Exp] = y], t)
<1> DEFINE g == Reindexed(n, d, v, t)
           x == NewEntry(v, t, n, FALSE)
<1>1. Rewritten(n, d, g, t)
  BY ReindexedWrites
<1>2. WrittenAt(x, n, t) /\ x \in Entry \cup {None}
  <2>1. v \in Values
    BY KeysAssumption
  <2>2. WrittenAt(x, n, t)
    BY <2>1, WritesType
  <2> QED
    BY <2>2 DEF WrittenAt
<1> HIDE DEF g, x
<1>3. Rewritten(n, d, [g EXCEPT ![Val] = x, ![Exp] = y], t)
  BY <1>1, <1>2, UpdateWrites
<1> QED
  BY <1>3 DEF g, x

\* create_index.
Backfilled(n, d, t) ==
    [k \in Keys |-> IF \E v \in Scan(d, t) : k = Idx(v) THEN NewEntry(1, t, n, FALSE) ELSE d[k]]

\* The backfill writes index entries.
LEMMA BackfillWrites ==
    ASSUME NEW n \in Nodes, NEW d \in Digest, NEW t \in Nat
    PROVE  Rewritten(n, d, Backfilled(n, d, t), t)
<1> DEFINE f == Backfilled(n, d, t)
<1>1. WrittenAt(NewEntry(1, t, n, FALSE), n, t)
  BY ValuesAssumption, WritesType
<1>2. ASSUME NEW k \in Keys
      PROVE  f[k] = d[k] \/ f[k] = NewEntry(1, t, n, FALSE)
  BY DEF Backfilled
<1>3. f = [k \in Keys |-> f[k]]
  BY DEF Backfilled
<1> HIDE DEF f
<1>4. f \in Digest
  BY <1>1, <1>2, <1>3 DEF Digest, WrittenAt
<1>5. Rewritten(n, d, f, t)
  BY <1>1, <1>2, <1>4 DEF Rewritten
<1> QED
  BY <1>5 DEF f

\* If n's value is replaced by an older one in a step, that is recorded.
ValueKept(n) ==
    data[n][Val] # None =>
        /\ data'[n][Val] # None
        /\ GT(data[n][Val], data'[n][Val]) => <<data'[n][Val], data[n][Val]>> \in undercuts'

\* What the replicas owe to a step: types, tombstones, time, and that no value
\* is replaced by an older one unless that is recorded.
DataKept ==
    /\ data' \in [Nodes -> Digest]
    /\ \A n \in Nodes, k \in Keys : Proper(data[n][k])'
    /\ undercuts \subseteq undercuts'
    /\ \A n \in Nodes : ValueKept(n)

\* The entries of a replica.
LEMMA DataType ==
    ASSUME TypeInv, NEW n \in Nodes
    PROVE  /\ data[n] \in Digest
           /\ \A k \in Keys : data[n][k] \in Entry \cup {None} /\ Proper(data[n][k])
<1>1. data \in [Nodes -> Digest]
  BY DEF TypeInv, TypeOK
<1> QED
  BY <1>1 DEF TypeInv, AllProper, Digest

\* Time is a natural number, within its bound.
LEMMA TimeType == ASSUME TypeInv PROVE now \in Nat /\ start.maxNow \in Nat /\ start \in Starts
BY StartsAssumption DEF TypeInv, TypeOK, Start

\* What a clock reads is a natural number, and the next reading is later.
LEMMA ReadingType ==
    ASSUME TypeInv, NEW n \in Nodes
    PROVE  /\ start.skew[n] \in Nat /\ Reading(n) = now + 1 + start.skew[n] /\ Reading(n) \in Nat
           /\ Clock(n) = now + start.skew[n] /\ Clock(n) \in Nat /\ Clock(n) < Reading(n)
<1>1. now \in Nat /\ start.skew[n] \in Nat
  BY TimeType, StartsAssumption DEF Start
<1> QED
  BY <1>1 DEF Reading, Clock

\* An expiry is an entry.
LEMMA ExpiryWrites ==
    ASSUME TypeInv, now < start.maxNow, NEW n \in Nodes, NEW t, t = Reading(n), NEW ttl \in TTLs
    PROVE  /\ WrittenAt(NewEntry(t + ttl, t, n, FALSE), n, t) /\ t + ttl \in Nat /\ t + ttl \in Values
           /\ NewEntry(t + ttl, t, n, FALSE) \in Entry
<1>1. t + ttl \in Values /\ t \in Nat /\ t + ttl \in Nat
  <2>1. start \in Starts /\ now + 1 \in 1..start.maxNow /\ t = now + 1 + start.skew[n] /\ t \in Nat
    BY TimeType, ReadingType
  <2> QED
    BY <2>1, ValuesAssumption, TTLAssumption
<1>2. WrittenAt(NewEntry(t + ttl, t, n, FALSE), n, t)
  BY <1>1, WritesType
<1> QED
  BY <1>1, <1>2 DEF WrittenAt

\* What is proper stays so while time does not go back.
LEMMA StaysProper ==
    ASSUME TypeInv, start' = start, now' \in Nat, now <= now', NEW e \in Entry \cup {None}, Proper(e)
    PROVE  Proper(e)'
<1>1. ASSUME e # None
      PROVE  e.ts \in Nat /\ start.skew[e.origin] \in Nat /\ now \in Nat
  <2>1. e.ts \in Nat /\ e.origin \in Nodes
    BY <1>1 DEF Entry
  <2> QED
    BY <2>1, ReadingType, TimeType
<1> QED
  BY <1>1 DEF Proper

\* What a replica holds no older value of than before is kept.
LEMMA NewerKept ==
    ASSUME TypeInv, NEW n \in Nodes, data[n][Val] # None => Holds(data'[n][Val], data[n][Val]),
           data'[n][Val] \in Entry \cup {None}
    PROVE  ValueKept(n)
BY DEF ValueKept, Holds

\* What _next_version writes to the value is recorded when it is older.
Recorded(n) ==
    /\ undercuts \subseteq undercuts' /\ undercuts' \subseteq Entry \X Entry
    /\ data[n][Val] # None /\ GT(data[n][Val], data'[n][Val]) =>
          <<data'[n][Val], data[n][Val]>> \in undercuts'

\* So do put, delete, the reaping and quorum_put.
LEMMA UndercutsRecorded ==
    ASSUME TypeInv, NEW n \in Nodes, NEW f, Rewritten(n, data[n], f, Reading(n)),
           data' = [data EXCEPT ![n] = f], Undercuts(n)
    PROVE  Recorded(n)
<1>1. PICK old \in Entry \cup {None} : old = data[n][Val]
  BY DataType, KeysDiffer
<1>2. PICK new : new = data'[n][Val]
  OBVIOUS
<1>3. undercuts \subseteq Entry \X Entry /\ data \in [Nodes -> Digest]
  BY DEF TypeInv, TypeOK
<1>4. new = old \/ new \in Entry
  BY <1>1, <1>2, <1>3, KeysDiffer DEF Rewritten, WrittenAt
<1>5. undercuts' = IF old # None /\ GT(old, new) THEN undercuts \cup {<<new, old>>} ELSE undercuts
  BY <1>1, <1>2 DEF Undercuts
<1>6. old # None /\ GT(old, new) => <<new, old>> \in Entry \X Entry
  BY <1>1, <1>4
<1> QED
  BY <1>1, <1>2, <1>3, <1>5, <1>6 DEF Recorded

\* A local write bears the time of its writer's clock.
LEMMA RewrittenStep ==
    ASSUME TypeInv, NEW n \in Nodes, NEW f, Rewritten(n, data[n], f, Reading(n)),
           data' = [data EXCEPT ![n] = f], now' = now + 1, start' = start, Recorded(n)
    PROVE  DataKept
<1>1. data \in [Nodes -> Digest] /\ f \in Digest /\ now \in Nat /\ now' \in Nat /\ now <= now'
  BY TimeType DEF TypeInv, TypeOK, Rewritten
<1>2. data' \in [Nodes -> Digest]
  BY <1>1
<1>3. \A p \in Nodes : data'[p] = IF p = n THEN f ELSE data[p]
  BY <1>1
<1>4. ASSUME NEW p \in Nodes, NEW k \in Keys
      PROVE  Proper(data[p][k])'
  <2>1. data[p][k] \in Entry \cup {None} /\ Proper(data[p][k])
    BY DataType
  <2>2. CASE data'[p][k] = data[p][k]
    <3>1. PICK e \in Entry \cup {None} : e = data[p][k]
      BY <2>1
    <3>2. Proper(e)'
      BY <1>1, <2>1, <3>1, StaysProper
    <3> QED
      BY <2>2, <3>1, <3>2 DEF Proper
  <2>3. CASE WrittenAt(data'[p][k], n, Reading(n))
    <3>1. PICK e : e = data'[p][k]
      OBVIOUS
    <3>2. /\ e \in Entry /\ e.ts = now' + start'.skew[n] /\ e.origin = n
          /\ (IsTombstone(e) => e.value = None) /\ e.ts \in Nat
      BY <1>1, <2>3, <3>1, ReadingType DEF WrittenAt
    <3> QED
      BY <3>1, <3>2 DEF Proper
  <2> QED
    BY <1>3, <2>2, <2>3 DEF Rewritten
<1>5. ASSUME NEW p \in Nodes
      PROVE  ValueKept(p)
  <2>1. data[p][Val] \in Entry \cup {None} /\ Val \in Keys
    BY DataType, KeysDiffer
  <2>2. CASE p = n
    <3>1. data'[n][Val] = data[n][Val] \/ data'[n][Val] \in Entry
      BY <1>3, <2>1 DEF Rewritten, WrittenAt
    <3> QED
      BY <2>2, <3>1, NoneAssumption DEF Recorded, ValueKept
  <2>3. CASE p # n
    BY <1>3, <2>1, <2>3, VersionOrder DEF ValueKept
  <2> QED
    BY <2>2, <2>3
<1> QED
  BY <1>2, <1>4, <1>5 DEF DataKept, Recorded

\* A replica that merges a digest.
LEMMA ReplicateStep ==
    ASSUME TypeInv, NEW n \in Nodes, NEW p \in Nodes, UNCHANGED <<start, now, undercuts>>,
           data' = [data EXCEPT ![p] = MergeDigest(@, data[n])]
    PROVE  DataKept
<1>1. data \in [Nodes -> Digest] /\ data[n] \in Digest /\ data[p] \in Digest
  BY DataType DEF TypeInv, TypeOK
<1>2. ASSUME NEW k \in Keys
      PROVE  /\ MergeDigest(data[p], data[n])[k] \in {data[p][k], data[n][k]}
             /\ MergeDigest(data[p], data[n])[k] \in Entry \cup {None}
             /\ data[p][k] # None => Holds(MergeDigest(data[p], data[n])[k], data[p][k])
  <2>1. data[p][k] \in Entry \cup {None} /\ data[n][k] \in Entry \cup {None}
    BY DataType
  <2>2. CASE data[n][k] = None
    BY <2>1, <2>2, VersionOrder DEF MergeDigest, Holds
  <2>3. CASE data[n][k] \in Entry
    <3>1. MergeDigest(data[p], data[n])[k] = MergeEntry(data[p][k], data[n][k])
      BY <2>3, NoneAssumption DEF MergeDigest
    <3> QED
      BY <2>1, <2>3, <3>1, MergeHolds
  <2> QED
    BY <2>1, <2>2, <2>3
<1>3. MergeDigest(data[p], data[n]) \in Digest
  BY <1>2 DEF MergeDigest, Digest
<1>4. data' \in [Nodes -> Digest]
  BY <1>1, <1>3
<1>5. ASSUME NEW q \in Nodes, NEW k \in Keys
      PROVE  Proper(data[q][k])' /\ (data[q][k] # None => Holds(data'[q][k], data[q][k]))
  <2>1. /\ data[q][k] \in Entry \cup {None} /\ Proper(data[q][k]) /\ Proper(data[n][k])
    BY DataType
  <2>2. data'[q][k] = IF q = p THEN MergeDigest(data[p], data[n])[k] ELSE data[q][k]
    BY <1>1
  <2>3. data'[q][k] \in {data[q][k], data[n][k]}
    BY <1>2, <2>2
  <2>4. Proper(data[q][k])'
    BY <2>1, <2>3 DEF Proper
  <2>5. data[q][k] # None => Holds(data'[q][k], data[q][k])
    BY <1>2, <2>1, <2>2, VersionOrder DEF Holds
  <2> QED
    BY <2>4, <2>5
<1>6. \A q \in Nodes : ValueKept(q)
  BY <1>4, <1>5, NewerKept, KeysDiffer DEF Digest
<1> QED
  BY <1>4, <1>5, <1>6 DEF DataKept

\* A replica that merges one entry of the value.
LEMMA MergeStep ==
    ASSUME TypeInv, NEW p \in Nodes, NEW e \in Entry, Proper(e), UNCHANGED <<start, now, undercuts>>,
           data' = [data EXCEPT ![p][Val] = MergeEntry(@, e)]
    PROVE  DataKept /\ Holds(data'[p][Val], e)
<1>1. data \in [Nodes -> Digest] /\ data[p] \in Digest /\ Val \in Keys
  BY DataType, KeysDiffer DEF TypeInv, TypeOK
<1>2. data[p][Val] \in Entry \cup {None}
  BY <1>1, DataType
<1>3. /\ MergeEntry(data[p][Val], e) \in Entry /\ MergeEntry(data[p][Val], e) \in {data[p][Val], e}
      /\ Holds(MergeEntry(data[p][Val], e), e)
      /\ data[p][Val] # None => Holds(MergeEntry(data[p][Val], e), data[p][Val])
  BY <1>2, MergeHolds
<1>4. ASSUME NEW q \in Nodes, NEW k \in Keys
      PROVE  data'[q][k] = IF q = p /\ k = Val THEN MergeEntry(data[p][Val], e) ELSE data[q][k]
  BY <1>1 DEF Digest
<1>5. data' \in [Nodes -> Digest]
  BY <1>1, <1>3 DEF Digest
<1>6. ASSUME NEW q \in Nodes, NEW k \in Keys
      PROVE  Proper(data[q][k])' /\ (data[q][k] # None => Holds(data'[q][k], data[q][k]))
  <2>1. data[q][k] \in Entry \cup {None} /\ Proper(data[q][k])
    BY DataType
  <2>2. data'[q][k] \in {data[q][k], e}
    BY <1>3, <1>4
  <2>3. Proper(data[q][k])'
    BY <2>1, <2>2 DEF Proper
  <2>4. data[q][k] # None => Holds(data'[q][k], data[q][k])
    BY <1>3, <1>4, <2>1, VersionOrder DEF Holds
  <2> QED
    BY <2>3, <2>4
<1>7. \A q \in Nodes : ValueKept(q)
  BY <1>1, <1>5, <1>6, NewerKept DEF Digest
<1> QED
  BY <1>1, <1>3, <1>4, <1>5, <1>6, <1>7 DEF DataKept

\* The fields of a request.
LEMMA RequestType ==
    ASSUME TypeInv, NEW i \in DOMAIN requests
    PROVE  /\ requests[i] \in Request /\ requests[i].node \in Nodes
           /\ requests[i].kind \in {"put", "get"} /\ requests[i].answers \in Nat
           /\ requests[i].best \in Entry \cup {None} /\ requests[i].floor \subseteq Entry
           /\ Proper(requests[i].best) /\ (requests[i].kind = "put" => requests[i].best # None)
<1>1. requests[i] \in Request
  BY DEF TypeInv, TypeOK
<1>2. Proper(requests[i].best) /\ (requests[i].kind = "put" => requests[i].best # None)
  BY DEF TypeInv, AllProper, Numbered
<1> QED
  BY <1>1, <1>2 DEF Request

\* The fields of a message.
LEMMA MessageType ==
    ASSUME TypeInv, NEW m \in wire
    PROVE  /\ m \in Message /\ m.node \in Nodes /\ m.req \in DOMAIN requests
           /\ m.type \in {"write_req", "read_resp"} =>
                 m.entry \in Entry \cup {None} /\ Proper(m.entry)
           /\ m.type = "write_req" => m.entry # None
<1>1. m \in Message /\ m.req \in DOMAIN requests /\ (m.type = "write_req" => m.entry # None)
  BY DEF TypeInv, TypeOK, Numbered
<1>2. m.type \in {"write_req", "read_resp"} => Proper(m.entry)
  BY DEF TypeInv, AllProper
<1> QED
  BY <1>1, <1>2 DEF Message

\* The messages of the quorum protocol that carry an entry.
LEMMA EntryMessage ==
    ASSUME NEW type \in {"write_req", "read_resp"}, NEW i \in Nat, NEW p \in Nodes,
           NEW e \in Entry \cup {None}
    PROVE  [type |-> type, req |-> i, node |-> p, entry |-> e] \in Message
BY DEF Message

\* The messages of the quorum protocol that carry none.
LEMMA PlainMessage ==
    ASSUME NEW type \in {"read_req", "write_resp"}, NEW i \in Nat, NEW p \in Nodes
    PROVE  [type |-> type, req |-> i, node |-> p] \in Message
BY DEF Message

\* A request that got one more answer.
LEMMA AnsweredType ==
    ASSUME NEW r \in Request, NEW b \in Entry \cup {None}
    PROVE  /\ [r EXCEPT !.answers = @ + 1, !.best = b] \in Request
           /\ [r EXCEPT !.answers = @ + 1, !.best = b].best = b
<1>1. r.answers + 1 \in Nat
  BY DEF Request
<1>2. PICK q : q = [r EXCEPT !.answers = r.answers + 1]
  OBVIOUS
<1>3. q \in Request
  BY <1>1, <1>2 DEF Request
<1>4. [q EXCEPT !.best = b] \in Request
  BY <1>3 DEF Request
<1>5. [q EXCEPT !.best = b].best = b
  BY <1>3 DEF Request
<1>6. [r EXCEPT !.answers = @ + 1, !.best = b] = [q EXCEPT !.best = b]
  BY <1>2
<1> QED
  BY <1>4, <1>5, <1>6

\* What TypeInv says of everything but the replicas.
RestInv ==
    /\ start \in Starts /\ now \in 0..start.maxNow
    /\ indexed \subseteq Nodes /\ lasting \subseteq Nat /\ acked \subseteq Entry
    /\ undercuts \subseteq Entry \X Entry
    /\ wire \subseteq Message /\ Numbered
    /\ \A m \in wire : m.type \in {"write_req", "read_resp"} => Proper(m.entry)
    /\ \A i \in DOMAIN requests : Proper(requests[i].best)

\* TypeInv is about the replicas and the rest.
LEMMA TypeParts ==
    /\ TypeInv => RestInv
    /\ DataKept /\ RestInv' => TypeInv'
<1>1. TypeInv => RestInv
  BY DEF TypeInv, TypeOK, AllProper, RestInv
<1>2. ASSUME DataKept, RestInv'
      PROVE  TypeInv'
  <2>1. \A n \in Nodes, k \in Keys : IsTombstone(data'[n][k]) => data'[n][k].value = None
    BY <1>2 DEF DataKept, Proper, IsTombstone
  <2>2. \A i \in DOMAIN requests' : requests'[i] \in Request
    BY <1>2 DEF RestInv, Numbered
  <2> QED
    BY <1>2, <2>1, <2>2 DEF TypeInv, TypeOK, AllProper, RestInv, DataKept
<1> QED
  BY <1>1, <1>2

\* Steps that leave the quorum protocol alone.
LEMMA LocalRest ==
    ASSUME TypeInv, UNCHANGED <<start, requests, wire, acked>>, indexed' \subseteq Nodes,
           lasting' \subseteq Nat, undercuts' \subseteq Entry \X Entry,
           now' \in 0..start.maxNow, now <= now'
    PROVE  RestInv'
<1>1. RestInv /\ now \in Nat /\ now' \in Nat
  BY TypeParts, TimeType
<1>2. ASSUME NEW m \in wire, m.type \in {"write_req", "read_resp"}
      PROVE  Proper(m.entry)'
  <2>1. m.entry \in Entry \cup {None} /\ Proper(m.entry)
    BY <1>2, MessageType
  <2> QED
    BY <1>1, <2>1, StaysProper
<1>3. ASSUME NEW i \in DOMAIN requests
      PROVE  Proper(requests[i].best)'
  <2>1. requests[i].best \in Entry \cup {None} /\ Proper(requests[i].best)
    BY RequestType
  <2>2. PICK e \in Entry \cup {None} : e = requests[i].best
    BY <2>1
  <2>3. Proper(e)'
    BY <1>1, <2>1, <2>2, StaysProper
  <2> QED
    BY <2>2, <2>3 DEF Proper
<1> QED
  BY <1>1, <1>2, <1>3 DEF RestInv, Numbered

\* A quorum operation makes request r and sends messages[p] to every p in P.
Asked(P, r, messages) ==
    requests' = Append(requests, r) /\ wire' = wire \cup {messages[p] : p \in P}

\* messages[p] is request i's write_req of e, or its read_req, to p.
WriteReqs(messages, i, e) ==
    \A p \in Nodes : messages[p] = [type |-> "write_req", req |-> i, node |-> p, entry |-> e]

ReadReqs(messages, i) == \A p \in Nodes : messages[p] = [type |-> "read_req", req |-> i, node |-> p]

\* The request that a quorum operation makes, and its messages.
LEMMA AskFacts ==
    ASSUME TypeInv, start' = start, NEW n \in Nodes, NEW kind \in {"put", "get"}, NEW quorum,
           NEW local \in Entry \cup {None}, NEW messages, Ask(n, kind, quorum, local, messages)
    PROVE  \E P \in SUBSET (Nodes \ {n}), r \in Request :
              /\ r.kind = kind /\ r.node = n /\ r.answers = 0 /\ r.best = local /\ r.floor = acked
              /\ Asked(P, r, messages)
<1>1. PICK P \in SUBSET (Nodes \ {n}) :
          /\ requests' = Append(requests,
                [kind |-> kind, node |-> n, need |-> Cardinality(P), answers |-> 0,
                 open |-> TRUE, best |-> local, floor |-> acked])
          /\ wire' = wire \cup {messages[p] : p \in P}
  BY DEF Ask
<1>2. Cardinality(P) \in Nat
  <2>1. IsFiniteSet(P)
    BY FiniteAssumption, FS_Subset
  <2> QED
    BY <2>1, FS_CardinalityType
<1> DEFINE r == [kind |-> kind, node |-> n, need |-> Cardinality(P), answers |-> 0,
                 open |-> TRUE, best |-> local, floor |-> acked]
<1>3. r \in Request
  BY <1>2 DEF Request, TypeInv, TypeOK
<1>4. r.kind = kind /\ r.node = n /\ r.answers = 0 /\ r.best = local /\ r.floor = acked
  OBVIOUS
<1> HIDE DEF r
<1>5. Asked(P, r, messages)
  BY <1>1 DEF r, Asked
<1> QED
  BY <1>1, <1>3, <1>4, <1>5

\* A new request and its messages are well typed.
LEMMA AskRest ==
    ASSUME TypeInv, UNCHANGED <<start, indexed, acked>>, now' \in 0..start.maxNow, now <= now',
           lasting' \subseteq Nat, undercuts' \subseteq Entry \X Entry,
           NEW P \in SUBSET Nodes, NEW r \in Request, NEW messages,
           Asked(P, r, messages), Proper(r.best)', r.kind = "put" => r.best # None,
           \A p \in P : /\ messages[p] \in Message /\ messages[p].req = Len(requests) + 1
                        /\ messages[p].type = "write_req" => messages[p].entry # None
                        /\ messages[p].type \in {"write_req", "read_resp"} => Proper(messages[p].entry)'
    PROVE  RestInv'
<1>1. RestInv /\ now \in Nat /\ now' \in Nat /\ requests \in Seq(Request)
  BY TypeParts, TimeType DEF TypeInv, Numbered
<1>2. /\ requests' \in Seq(Request) /\ DOMAIN requests' = DOMAIN requests \cup {Len(requests) + 1}
      /\ \A i \in DOMAIN requests : requests'[i] = requests[i]
      /\ requests'[Len(requests) + 1] = r
  BY <1>1 DEF Asked
<1>3. ASSUME NEW m \in wire
      PROVE  /\ m.req \in DOMAIN requests' /\ (m.type = "write_req" => m.entry # None)
             /\ m.type \in {"write_req", "read_resp"} => Proper(m.entry)'
  BY <1>1, <1>2, MessageType, StaysProper
<1>4. ASSUME NEW i \in DOMAIN requests'
      PROVE  Proper(requests[i].best)'
  <2>1. CASE i \in DOMAIN requests
    <3>1. PICK e \in Entry \cup {None} : e = requests[i].best
      BY <2>1, RequestType
    <3>2. Proper(e)'
      BY <1>1, <2>1, <3>1, RequestType, StaysProper
    <3> QED
      BY <1>2, <2>1, <3>1, <3>2 DEF Proper
  <2>2. CASE i = Len(requests) + 1
    BY <1>2, <2>2 DEF Proper
  <2> QED
    BY <1>2, <2>1, <2>2
<1>5. /\ wire' \subseteq Message
      /\ \A m \in wire' : m.req \in DOMAIN requests' /\ (m.type = "write_req" => m.entry # None)
  BY <1>1, <1>2, <1>3 DEF RestInv, Asked
<1>6. \A m \in wire' : m.type \in {"write_req", "read_resp"} => Proper(m.entry)'
  BY <1>3 DEF Asked
<1>7. \A i \in DOMAIN requests' : requests'[i].kind = "put" => requests'[i].best # None
  BY <1>1, <1>2 DEF RestInv, Numbered
<1> QED
  BY <1>1, <1>2, <1>4, <1>5, <1>6, <1>7 DEF RestInv, Numbered

\* What put leaves, and the local part of quorum_put.
LEMMA PutFacts ==
    ASSUME TypeInv, now < start.maxNow, NEW n \in Nodes, NEW v \in UserValues,
           NEW ttl \in TTLs \cup {None}
    PROVE  /\ Rewritten(n, data[n], AfterPut(n, data[n], v, ttl, Reading(n)), Reading(n))
           /\ LET expiry == IF ttl = None THEN data[n][Exp]
                            ELSE NewEntry(Reading(n) + ttl, Reading(n), n, FALSE)
              IN  Rewritten(n, data[n], [Reindexed(n, data[n], v, Reading(n)) EXCEPT
                      ![Val] = NewEntry(v, Reading(n), n, FALSE), ![Exp] = expiry], Reading(n))
<1>1. /\ data[n] \in Digest /\ data[n][Exp] \in Entry \cup {None}
      /\ Reading(n) \in Nat
  BY DataType, KeysDiffer, ReadingType
<1> DEFINE new == NewEntry(Reading(n) + ttl, Reading(n), n, FALSE)
           x == WithExpiry(n, data[n], ttl, Reading(n))
           y == IF ttl = None THEN data[n][Exp] ELSE new
<1>2. ttl # None => WrittenAt(new, n, Reading(n)) /\ new \in Entry
  BY <1>1, ExpiryWrites
<1>3. WrittenAt(Tombstone(n, Reading(n)), n, Reading(n)) /\ Tombstone(n, Reading(n)) \in Entry
  <2>1. WrittenAt(Tombstone(n, Reading(n)), n, Reading(n))
    BY <1>1, TombstoneType
  <2> QED
    BY <2>1 DEF WrittenAt
<1>4. x \in Entry \cup {None} /\ (x = data[n][Exp] \/ WrittenAt(x, n, Reading(n)))
  BY <1>1, <1>2, <1>3 DEF WithExpiry
<1>5. y \in Entry \cup {None} /\ (y = data[n][Exp] \/ WrittenAt(y, n, Reading(n)))
  BY <1>1, <1>2
<1> HIDE DEF x, y
<1>6. Rewritten(n, data[n], [Reindexed(n, data[n], v, Reading(n)) EXCEPT
                      ![Val] = NewEntry(v, Reading(n), n, FALSE), ![Exp] = x], Reading(n))
  BY <1>1, <1>4, PutWrites
<1>7. Rewritten(n, data[n], [Reindexed(n, data[n], v, Reading(n)) EXCEPT
                      ![Val] = NewEntry(v, Reading(n), n, FALSE), ![Exp] = y], Reading(n))
  BY <1>1, <1>5, PutWrites
<1> QED
  BY <1>6, <1>7 DEF AfterPut, x, y

\* A step that leaves the replicas alone.
LEMMA SameData ==
    ASSUME TypeInv, UNCHANGED <<start, data, undercuts>>, now' \in Nat, now <= now'
    PROVE  DataKept
<1>1. data \in [Nodes -> Digest] /\ now \in Nat
  BY TimeType DEF TypeInv, TypeOK
<1>2. ASSUME NEW p \in Nodes, NEW k \in Keys
      PROVE  Proper(data[p][k])' /\ (data[p][k] # None => Holds(data'[p][k], data[p][k]))
  <2>1. PICK e \in Entry \cup {None} : e = data[p][k] /\ Proper(e)
    BY DataType
  <2>2. Proper(e)'
    BY <1>1, <2>1, StaysProper
  <2>3. Proper(data[p][k])'
    BY <2>1, <2>2 DEF Proper
  <2> QED
    BY <2>1, <2>3, VersionOrder DEF Holds
<1>3. \A q \in Nodes : ValueKept(q)
  BY <1>1, <1>2, NewerKept, KeysDiffer DEF Digest
<1> QED
  BY <1>1, <1>2, <1>3 DEF DataKept

\* The local operations write, once, at the next instant.
LEMMA LocalStep ==
    ASSUME TypeInv, NEW n \in Nodes,
           \/ \E v \in start.values, ttl \in start.ttls : Put(n, v, ttl)
           \/ Delete(n) \/ Reap(n) \/ CreateIndex(n)
    PROVE  /\ Operate /\ n \in start.locals /\ UNCHANGED <<start, requests, wire, acked>>
           /\ indexed' \subseteq Nodes /\ lasting' \subseteq lasting \cup {Reading(n)} /\ Recorded(n)
           /\ \E f : Rewritten(n, data[n], f, Reading(n)) /\ data' = [data EXCEPT ![n] = f]
<1>1. /\ data[n] \in Digest /\ Reading(n) \in Nat /\ data \in [Nodes -> Digest] /\ indexed \subseteq Nodes
      /\ start.values \subseteq UserValues /\ start.ttls \subseteq TTLs \cup {None}
  BY DataType, ReadingType, TimeType, StartsAssumption DEF TypeInv, TypeOK, Start
<1>2. ASSUME NEW v \in start.values, NEW ttl \in start.ttls, Put(n, v, ttl)
      PROVE  \E f : Rewritten(n, data[n], f, Reading(n)) /\ data' = [data EXCEPT ![n] = f]
  <2>1. /\ data' = [data EXCEPT ![n] = AfterPut(n, data[n], v, ttl, Reading(n))]
        /\ now < start.maxNow
    BY <1>1, <1>2 DEF Put, Operate
  <2> QED
    BY <1>1, <2>1, PutFacts
<1>3. ASSUME Delete(n) \/ Reap(n)
      PROVE  \E f : Rewritten(n, data[n], f, Reading(n)) /\ data' = [data EXCEPT ![n] = f]
  <2>1. data' = [data EXCEPT ![n] = AfterDelete(n, data[n], Reading(n))]
    BY <1>1, <1>3 DEF Delete, Reap, Operate
  <2> QED
    BY <1>1, <2>1, DeleteWrites
<1>4. ASSUME CreateIndex(n)
      PROVE  \E f : Rewritten(n, data[n], f, Reading(n)) /\ data' = [data EXCEPT ![n] = f]
  <2>1. data' = [data EXCEPT ![n] = Backfilled(n, data[n], Reading(n))]
    BY <1>1, <1>4 DEF CreateIndex, Operate, Backfilled
  <2> QED
    BY <1>1, <2>1, BackfillWrites
<1>5. \E f : Rewritten(n, data[n], f, Reading(n)) /\ data' = [data EXCEPT ![n] = f]
  BY <1>2, <1>3, <1>4
<1>6. Recorded(n)
  <2>1. CASE Undercuts(n)
    BY <1>5, <2>1, UndercutsRecorded
  <2>2. CASE CreateIndex(n)
    <3>1. data'[n] = Backfilled(n, data[n], Reading(n)) /\ undercuts' = undercuts
      BY <1>1, <2>2 DEF CreateIndex, Backfilled
    <3>2. data'[n][Val] = data[n][Val]
      <4>1. \A v \in UserValues : Val # Idx(v)
        BY KeysDiffer
      <4> QED
        BY <3>1, <4>1, KeysDiffer DEF Backfilled, Scan
    <3>3. data[n][Val] \in Entry \cup {None} /\ undercuts \subseteq Entry \X Entry
      BY DataType, KeysDiffer DEF TypeInv, TypeOK
    <3> QED
      BY <3>1, <3>2, <3>3, VersionOrder DEF Recorded
  <2> QED
    BY <2>1, <2>2 DEF Put, Delete, Reap
<1> QED
  BY <1>1, <1>5, <1>6 DEF Put, Delete, Reap, CreateIndex, Operate, Lasts

\* n made request r, to write v, and sent it to P.
PutAsked(n, v, P, r, messages) ==
    /\ Asked(P, r, messages) /\ r.kind = "put" /\ r.node = n /\ r.answers = 0
    /\ r.best = NewEntry(v, Reading(n), n, FALSE)
    /\ r.best \in Entry /\ r.best.ts = Reading(n) /\ r.best.origin = n /\ ~IsTombstone(r.best)
    /\ WriteReqs(messages, Len(requests) + 1, r.best)

\* quorum_put writes locally and asks quorum - 1 peers to write the same entry.
LEMMA QuorumPutFacts ==
    ASSUME TypeInv, NEW n \in Nodes, NEW v \in start.values, NEW ttl \in start.ttls, QuorumPut(n, v, ttl)
    PROVE  /\ \E f : /\ Rewritten(n, data[n], f, Reading(n)) /\ data' = [data EXCEPT ![n] = f]
                     /\ f[Val] = NewEntry(v, Reading(n), n, FALSE)
           /\ \E P \in SUBSET (Nodes \ {n}), r \in Request : \E messages : PutAsked(n, v, P, r, messages)
           /\ Recorded(n)
<1>1. /\ data[n] \in Digest /\ data \in [Nodes -> Digest] /\ Reading(n) \in Nat
      /\ v \in UserValues /\ ttl \in TTLs \cup {None} /\ v \in Values /\ start' = start
      /\ now < start.maxNow /\ now' = now + 1
  BY DataType, ReadingType, TimeType, StartsAssumption, KeysAssumption
     DEF TypeInv, TypeOK, Start, QuorumPut, Operate
<1>2. PICK e : e = NewEntry(v, Reading(n), n, FALSE)
  OBVIOUS
<1>3. WrittenAt(e, n, Reading(n)) /\ Live(e)
  BY <1>1, <1>2, WritesType
<1>4. e \in Entry /\ e.ts = Reading(n) /\ e.origin = n /\ ~IsTombstone(e)
  BY <1>3 DEF WrittenAt, Live, IsTombstone
<1> DEFINE expiry == IF ttl = None THEN data[n][Exp] ELSE NewEntry(Reading(n) + ttl, Reading(n), n, FALSE)
           f == [Reindexed(n, data[n], v, Reading(n)) EXCEPT ![Val] = NewEntry(v, Reading(n), n, FALSE),
                                                          ![Exp] = expiry]
<1>5. data' = [data EXCEPT ![n] = f]
  BY <1>1 DEF QuorumPut
<1>6. Rewritten(n, data[n], f, Reading(n))
  BY <1>1, PutFacts
<1>7. f[Val] = NewEntry(v, Reading(n), n, FALSE)
  BY KeysDiffer DEF Reindexed
<1> HIDE DEF f
<1>8. PICK messages : messages = [p \in Nodes |-> [type |-> "write_req", req |-> Len(requests) + 1,
                                                   node |-> p, entry |-> e]]
  OBVIOUS
<1>9. Ask(n, "put", start.w, e, messages)
  BY <1>1, <1>2, <1>8 DEF QuorumPut
<1>10. \E P \in SUBSET (Nodes \ {n}), r \in Request :
          /\ r.kind = "put" /\ r.node = n /\ r.answers = 0 /\ r.best = e /\ r.floor = acked
          /\ Asked(P, r, messages)
  BY <1>1, <1>4, <1>9, AskFacts
<1>11. \E g : /\ Rewritten(n, data[n], g, Reading(n)) /\ data' = [data EXCEPT ![n] = g]
              /\ g[Val] = NewEntry(v, Reading(n), n, FALSE)
  BY <1>5, <1>6, <1>7
<1>12. PICK P \in SUBSET (Nodes \ {n}), r \in Request :
          r.kind = "put" /\ r.node = n /\ r.answers = 0 /\ r.best = e /\ Asked(P, r, messages)
  BY <1>10
<1>13. WriteReqs(messages, Len(requests) + 1, r.best)
  BY <1>8, <1>12 DEF WriteReqs
<1>14. r.best = NewEntry(v, Reading(n), n, FALSE) /\ r.best \in Entry /\ r.best.ts = Reading(n)
       /\ r.best.origin = n /\ ~IsTombstone(r.best)
  BY <1>2, <1>4, <1>12
<1>15. PutAsked(n, v, P, r, messages)
  BY <1>12, <1>13, <1>14 DEF PutAsked
<1>16. Recorded(n)
  BY <1>5, <1>6, UndercutsRecorded DEF QuorumPut
<1> QED
  BY <1>11, <1>15, <1>16

\* n made request r, to read, and sent it to P.
GetAsked(n, P, r, messages) ==
    /\ Asked(P, r, messages)
    /\ r.kind = "get" /\ r.node = n /\ r.answers = 0 /\ r.best = data[n][Val] /\ r.floor = acked
    /\ ReadReqs(messages, Len(requests) + 1)

\* quorum_get reads its own entry and asks quorum - 1 peers for theirs.
LEMMA QuorumGetFacts ==
    ASSUME TypeInv, NEW n \in Nodes, QuorumGet(n)
    PROVE  \E P \in SUBSET (Nodes \ {n}), r \in Request : \E messages : GetAsked(n, P, r, messages)
<1>1. PICK local \in Entry \cup {None} : local = data[n][Val]
  BY DataType, KeysDiffer
<1>2. PICK messages : messages = [p \in Nodes |-> [type |-> "read_req", req |-> Len(requests) + 1,
                                                   node |-> p]]
  OBVIOUS
<1>3. Ask(n, "get", start.r, local, messages) /\ start' = start
  BY <1>1, <1>2 DEF QuorumGet
<1>4. \E P \in SUBSET (Nodes \ {n}), r \in Request :
          /\ r.kind = "get" /\ r.node = n /\ r.answers = 0 /\ r.best = local /\ r.floor = acked
          /\ Asked(P, r, messages)
  BY <1>3, AskFacts
<1>5. ReadReqs(messages, Len(requests) + 1)
  BY <1>2 DEF ReadReqs
<1> QED
  BY <1>1, <1>4, <1>5 DEF GetAsked

\* An answer changes the request it belongs to, if that still waits.
LEMMA OnResponseFacts ==
    ASSUME TypeInv, NEW m \in wire, OnResponse(m)
    PROVE  /\ requests' \in Seq(Request) /\ DOMAIN requests' = DOMAIN requests
           /\ \A i \in DOMAIN requests' : /\ Proper(requests[i].best)'
                                          /\ requests'[i].kind = "put" => requests'[i].best # None
           /\ \A i \in DOMAIN requests : i # m.req => requests'[i] = requests[i]
           /\ \/ requests' = requests
              \/ LET r == requests[m.req]
                     s == requests'[m.req]
                 IN  /\ s.answers = r.answers + 1 /\ s.kind = r.kind /\ s.node = r.node
                     /\ s.floor = r.floor
                     /\ s.best = IF m.type = "read_resp" THEN Best(r.best, m.entry) ELSE r.best
<1>1. requests \in Seq(Request) /\ m.req \in DOMAIN requests /\ now' = now /\ start' = start
  BY MessageType DEF TypeInv, Numbered, OnResponse
<1>2. CASE ~requests[m.req].open
  <2>1. requests' = requests
    BY <1>2 DEF OnResponse
  <2>2. ASSUME NEW i \in DOMAIN requests'
        PROVE  Proper(requests[i].best)' /\ (requests'[i].kind = "put" => requests'[i].best # None)
    BY <1>1, <2>1, RequestType DEF Proper
  <2> QED
    BY <1>1, <2>1, <2>2
<1>3. CASE requests[m.req].open
  <2> DEFINE r == requests[m.req]
             best == IF m.type = "read_resp" THEN Best(r.best, m.entry) ELSE r.best
             s == [r EXCEPT !.answers = @ + 1, !.best = best]
  <2>1. requests' = [requests EXCEPT ![m.req] = s]
    BY <1>1, <1>3 DEF OnResponse
  <2>2. r \in Request /\ r.best \in Entry \cup {None} /\ Proper(r.best) /\ r.answers \in Nat
    BY <1>1, RequestType
  <2>3. m.type = "read_resp" => m.entry \in Entry \cup {None} /\ Proper(m.entry)
    BY MessageType
  <2>4. best \in Entry \cup {None} /\ Proper(best) /\ (r.kind = "put" => best # None)
    <3>1. CASE m.type # "read_resp" \/ m.entry = None
      BY <1>1, <2>2, <3>1, RequestType DEF Best
    <3>2. CASE m.type = "read_resp" /\ m.entry # None
      BY <2>2, <2>3, <3>2, MergeHolds, NoneAssumption DEF Best
    <3> QED
      BY <3>1, <3>2
  <2>5. s \in Request /\ s.best = best
    <3> HIDE DEF r, best
    <3> QED
      BY <2>2, <2>4, AnsweredType
  <2>6. s.answers = r.answers + 1 /\ s.kind = r.kind /\ s.node = r.node /\ s.floor = r.floor
    BY <2>2 DEF Request
  <2>7. PICK c : c = best
    OBVIOUS
  <2>8. PICK d \in Request : d = s
    BY <2>5
  <2>9. requests' \in Seq(Request) /\ DOMAIN requests' = DOMAIN requests
    BY <1>1, <2>1, <2>5
  <2>10. /\ requests'[m.req] = d
         /\ \A i \in DOMAIN requests : i # m.req => requests'[i] = requests[i]
    BY <1>1, <2>1, <2>8
  <2>11. Proper(d.best) /\ d.best = best /\ (d.kind = "put" => d.best # None)
    BY <2>4, <2>5, <2>6, <2>8
  <2> HIDE DEF s
  <2>12. ASSUME NEW i \in DOMAIN requests'
         PROVE  Proper(requests[i].best)' /\ (requests'[i].kind = "put" => requests'[i].best # None)
    <3>1. CASE i = m.req
      BY <1>1, <2>10, <2>11, <3>1 DEF Proper
    <3>2. CASE i # m.req
      BY <1>1, <2>9, <2>10, <3>2, RequestType DEF Proper
    <3> QED
      BY <3>1, <3>2
  <2> QED
    BY <2>6, <2>8, <2>9, <2>10, <2>11, <2>12
<1> QED
  BY <1>2, <1>3

\* The initial states.
LEMMA KVInit == Init => TypeInv
<1> SUFFICES ASSUME Init
             PROVE  TypeInv
  OBVIOUS
<1>1. /\ start \in Starts /\ start.maxNow \in Nat /\ data \in [Nodes -> Digest]
      /\ \A n \in Nodes, k \in Keys : data[n][k] = None
  BY StartsAssumption DEF Init, Start, Digest
<1>2. requests = <<>> /\ requests \in Seq(Request) /\ DOMAIN requests = {}
  BY DEF Init
<1> QED
  BY <1>1, <1>2 DEF Init, TypeInv, TypeOK, Numbered, AllProper, Proper, IsTombstone

\* Every step keeps the types, and replaces no entry by an older one.
LEMMA TypeStep == ASSUME TypeInv, [Next]_vars PROVE TypeInv' /\ DataKept /\ start' = start
<1>1. /\ RestInv /\ now \in Nat /\ start.maxNow \in Nat /\ start \in Starts
      /\ now \in 0..start.maxNow /\ lasting \subseteq Nat /\ indexed \subseteq Nodes
      /\ data \in [Nodes -> Digest] /\ wire \subseteq Message /\ requests \in Seq(Request)
      /\ start.values \subseteq UserValues /\ start.ttls \subseteq TTLs \cup {None}
      /\ acked \subseteq Entry /\ undercuts \subseteq Entry \X Entry
      /\ \A n \in Nodes : Reading(n) \in Nat
  BY ReadingType, TypeParts, TimeType, StartsAssumption DEF TypeInv, TypeOK, Numbered, Start
<1>2. ASSUME DataKept, RestInv', start' = start
      PROVE  TypeInv' /\ DataKept /\ start' = start
  BY <1>2, TypeParts
<1>3. Operate => now' \in Nat /\ now <= now' /\ now' = now + 1 /\ now' \in 1..start.maxNow
                 /\ now' \in 0..start.maxNow /\ now < start.maxNow
  BY <1>1 DEF Operate
<1>4. ASSUME NEW n \in Nodes,
             \/ \E v \in start.values, ttl \in start.ttls : Put(n, v, ttl)
             \/ Delete(n) \/ Reap(n) \/ CreateIndex(n)
      PROVE  TypeInv' /\ DataKept /\ start' = start
  <2>1. /\ Operate /\ n \in start.locals /\ UNCHANGED <<start, requests, wire, acked>>
        /\ indexed' \subseteq Nodes /\ lasting' \subseteq lasting \cup {Reading(n)} /\ Recorded(n)
        /\ \E f : Rewritten(n, data[n], f, Reading(n)) /\ data' = [data EXCEPT ![n] = f]
    BY <1>4, LocalStep
  <2>2. DataKept
    BY <1>3, <2>1, RewrittenStep
  <2>3. RestInv'
    <3>1. lasting' \subseteq Nat /\ undercuts' \subseteq Entry \X Entry
      BY <1>1, <2>1 DEF Recorded
    <3> QED
      BY <1>1, <1>3, <2>1, <3>1, LocalRest
  <2> QED
    BY <1>2, <2>1, <2>2, <2>3
<1>5. ASSUME NEW n \in Nodes, NEW v \in start.values, NEW ttl \in start.ttls, QuorumPut(n, v, ttl)
      PROVE  TypeInv' /\ DataKept /\ start' = start
  <2>1. /\ Operate /\ UNCHANGED <<start, indexed, acked>> /\ lasting' \subseteq Nat
        /\ Recorded(n) /\ undercuts' \subseteq Entry \X Entry
    <3>1. /\ Operate /\ UNCHANGED <<start, indexed, acked>>
          /\ lasting' = IF ttl = None THEN lasting \cup {Reading(n)} ELSE lasting
      BY <1>5 DEF QuorumPut, Lasts
    <3>2. Recorded(n)
      BY <1>5, QuorumPutFacts
    <3>3. undercuts' \subseteq Entry \X Entry
      BY <3>2 DEF Recorded
    <3> QED
      BY <1>1, <3>1, <3>2, <3>3
  <2> PICK P \in SUBSET (Nodes \ {n}), r \in Request : \E messages : PutAsked(n, v, P, r, messages)
    BY <1>5, QuorumPutFacts
  <2> PICK messages : PutAsked(n, v, P, r, messages)
    OBVIOUS
  <2>2. /\ Asked(P, r, messages)
        /\ r.best \in Entry /\ r.best.ts = Reading(n) /\ r.best.origin = n /\ ~IsTombstone(r.best)
        /\ WriteReqs(messages, Len(requests) + 1, r.best)
    BY DEF PutAsked
  <2>3. DataKept
    <3>1. PICK f : Rewritten(n, data[n], f, Reading(n)) /\ data' = [data EXCEPT ![n] = f]
      BY <1>5, QuorumPutFacts
    <3> QED
      BY <1>3, <2>1, <3>1, RewrittenStep
  <2>4. Proper(r.best)' /\ r.best # None
    BY <1>1, <1>3, <2>1, <2>2, NoneAssumption, ReadingType DEF Proper
  <2>5. ASSUME NEW p \in P
        PROVE  /\ messages[p] \in Message /\ messages[p].req = Len(requests) + 1
               /\ messages[p].type = "write_req" => messages[p].entry # None
               /\ messages[p].type \in {"write_req", "read_resp"} => Proper(messages[p].entry)'
    <3>1. Len(requests) + 1 \in Nat
      BY <1>1
    <3>2. [type |-> "write_req", req |-> Len(requests) + 1, node |-> p, entry |-> r.best] \in Message
      BY <2>2, <3>1, EntryMessage
    <3>3. /\ messages[p] \in Message
          /\ messages[p].entry = r.best /\ messages[p].req = Len(requests) + 1
      BY <2>2, <3>2 DEF WriteReqs
    <3> QED
      BY <2>4, <3>3 DEF Proper
  <2>6. RestInv'
    BY <1>3, <2>1, <2>2, <2>4, <2>5, AskRest
  <2> QED
    BY <1>2, <2>1, <2>3, <2>6
<1>6. ASSUME NEW n \in Nodes, QuorumGet(n)
      PROVE  TypeInv' /\ DataKept /\ start' = start
  <2>1. UNCHANGED <<start, data, now, indexed, lasting, acked, undercuts>>
    BY <1>6 DEF QuorumGet
  <2>2. DataKept
    BY <1>1, <2>1, SameData
  <2> PICK P \in SUBSET (Nodes \ {n}), r \in Request : \E messages : GetAsked(n, P, r, messages)
    BY <1>6, QuorumGetFacts
  <2> PICK messages : GetAsked(n, P, r, messages)
    OBVIOUS
  <2>3. /\ Asked(P, r, messages) /\ r.kind = "get"
        /\ r.best = data[n][Val]
        /\ ReadReqs(messages, Len(requests) + 1)
    BY DEF GetAsked
  <2>4. Proper(r.best)'
    BY <2>1, <2>3, DataType, KeysDiffer DEF Proper
  <2>5. ASSUME NEW p \in P
        PROVE  /\ messages[p] \in Message /\ messages[p].req = Len(requests) + 1
               /\ messages[p].type = "write_req" => messages[p].entry # None
               /\ messages[p].type \in {"write_req", "read_resp"} => Proper(messages[p].entry)'
    <3>1. Len(requests) + 1 \in Nat
      BY <1>1
    <3>2. [type |-> "read_req", req |-> Len(requests) + 1, node |-> p] \in Message
      BY <3>1, PlainMessage
    <3>3. /\ messages[p] \in Message
          /\ messages[p].type = "read_req" /\ messages[p].req = Len(requests) + 1
      BY <2>3, <3>2 DEF ReadReqs
    <3> QED
      BY <3>3
  <2>6. RestInv'
    BY <1>1, <2>1, <2>3, <2>4, <2>5, AskRest
  <2> QED
    BY <1>2, <2>1, <2>2, <2>6
<1>7. ASSUME NEW n \in Nodes, NEW p \in Nodes, Replicate(n, p)
      PROVE  TypeInv' /\ DataKept /\ start' = start
  <2>1. DataKept
    BY <1>7, ReplicateStep DEF Replicate
  <2>2. RestInv'
    BY <1>1, <1>7, LocalRest DEF Replicate
  <2> QED
    BY <1>2, <1>7, <2>1, <2>2 DEF Replicate
<1>8. ASSUME NEW m \in wire, OnWriteReq(m)
      PROVE  TypeInv' /\ DataKept /\ start' = start
  <2> DEFINE answer == [type |-> "write_resp", req |-> m.req, node |-> m.node]
  <2>1. /\ m.type = "write_req" /\ UNCHANGED <<start, now, indexed, requests, lasting, acked, undercuts>>
        /\ data' = [data EXCEPT ![m.node][Val] = MergeEntry(@, m.entry)]
        /\ wire' = (wire \ {m}) \cup {answer}
    BY <1>8 DEF OnWriteReq
  <2>2. m.node \in Nodes /\ m.entry \in Entry /\ Proper(m.entry) /\ m.req \in DOMAIN requests
    BY <2>1, MessageType
  <2>3. DataKept
    BY <2>1, <2>2, MergeStep
  <2>4. answer \in Message /\ answer.req = m.req /\ answer.type = "write_resp"
    <3>1. m.req \in Nat
      BY <1>1, <2>2
    <3> QED
      BY <2>2, <3>1, PlainMessage
  <2>5. RestInv'
    <3> HIDE DEF answer
    <3>1. /\ wire' \subseteq Message
          /\ \A k \in wire' : /\ k.req \in DOMAIN requests' /\ (k.type = "write_req" => k.entry # None)
                              /\ k.type \in {"write_req", "read_resp"} => Proper(k.entry)'
      BY <1>1, <2>1, <2>2, <2>4 DEF RestInv, Numbered, Proper
    <3>2. \A i \in DOMAIN requests' : Proper(requests[i].best)'
      BY <1>1, <2>1 DEF RestInv, Proper
    <3> QED
      BY <1>1, <2>1, <3>1, <3>2 DEF RestInv, Numbered
  <2> QED
    BY <1>2, <2>1, <2>3, <2>5
<1>9. ASSUME NEW m \in wire, OnReadReq(m)
      PROVE  TypeInv' /\ DataKept /\ start' = start
  <2> DEFINE answer == [type |-> "read_resp", req |-> m.req, node |-> m.node, entry |-> data[m.node][Val]]
  <2>1. /\ UNCHANGED <<start, data, now, indexed, requests, lasting, acked, undercuts>>
        /\ wire' = (wire \ {m}) \cup {answer}
    BY <1>9 DEF OnReadReq
  <2>2. m.node \in Nodes /\ m.req \in DOMAIN requests
    BY MessageType
  <2>3. data[m.node][Val] \in Entry \cup {None} /\ Proper(data[m.node][Val])
    BY <2>2, DataType, KeysDiffer
  <2>4. /\ answer \in Message /\ answer.req = m.req /\ answer.type = "read_resp"
        /\ answer.entry = data[m.node][Val]
    <3>1. m.req \in Nat
      BY <1>1, <2>2
    <3> QED
      BY <2>2, <2>3, <3>1, EntryMessage
  <2>5. RestInv'
    <3>1. PICK a : a = answer
      OBVIOUS
    <3> HIDE DEF answer
    <3>2. /\ wire' = (wire \ {m}) \cup {a} /\ a \in Message /\ a.req = m.req /\ a.type = "read_resp"
          /\ Proper(a.entry)
      BY <2>1, <2>3, <2>4, <3>1
    <3>3. /\ wire' \subseteq Message
          /\ \A k \in wire' : /\ k.req \in DOMAIN requests' /\ (k.type = "write_req" => k.entry # None)
                              /\ k.type \in {"write_req", "read_resp"} => Proper(k.entry)'
      BY <1>1, <2>1, <2>2, <3>2 DEF RestInv, Numbered, Proper
    <3>4. \A i \in DOMAIN requests' : Proper(requests[i].best)'
      BY <1>1, <2>1 DEF RestInv, Proper
    <3> QED
      BY <1>1, <2>1, <3>3, <3>4 DEF RestInv, Numbered
  <2>6. DataKept
    BY <1>1, <2>1, SameData
  <2> QED
    BY <1>2, <2>1, <2>5, <2>6
<1>10. ASSUME NEW m \in wire, OnResponse(m)
       PROVE  TypeInv' /\ DataKept /\ start' = start
  <2>1. wire' = wire \ {m} /\ UNCHANGED <<start, data, now, indexed, lasting, acked, undercuts>>
    BY <1>10 DEF OnResponse
  <2>2. DataKept
    BY <1>1, <2>1, SameData
  <2>3. /\ requests' \in Seq(Request) /\ DOMAIN requests' = DOMAIN requests
        /\ \A i \in DOMAIN requests' : /\ Proper(requests[i].best)'
                                       /\ requests'[i].kind = "put" => requests'[i].best # None
    BY <1>10, OnResponseFacts
  <2>4. RestInv'
    <3>1. \A k \in wire' : k.type \in {"write_req", "read_resp"} => Proper(k.entry)'
      BY <1>1, <2>1 DEF RestInv, Proper
    <3> QED
      BY <1>1, <2>1, <2>3, <3>1 DEF RestInv, Numbered
  <2> QED
    BY <1>2, <2>1, <2>2, <2>4
<1>11. ASSUME NEW i \in DOMAIN requests, Finish(i)
       PROVE  TypeInv' /\ DataKept /\ start' = start
  <2>1. UNCHANGED <<start, now, indexed, wire, lasting, undercuts>> /\ requests' = [requests EXCEPT ![i].open = FALSE]
    BY <1>11 DEF Finish
  <2>2. /\ requests[i] \in Request /\ requests[i].node \in Nodes
        /\ requests[i].best \in Entry \cup {None} /\ Proper(requests[i].best)
    BY RequestType
  <2>3. DataKept
    <3>1. CASE requests[i].kind = "put" \/ requests[i].best = None
      <4>1. data' = data
        BY <1>11, <3>1 DEF Finish
      <4> QED
        BY <1>1, <2>1, <4>1, SameData
    <3>2. CASE requests[i].kind # "put" /\ requests[i].best # None
      <4>1. data' = [data EXCEPT ![requests[i].node][Val] = MergeEntry(@, requests[i].best)]
        BY <1>11, <3>2 DEF Finish
      <4>2. requests[i].best \in Entry
        BY <2>2, <3>2
      <4> QED
        BY <2>1, <2>2, <4>1, <4>2, MergeStep
    <3> QED
      BY <3>1, <3>2
  <2>4. acked' \subseteq Entry
    <3>1. CASE acked' = acked
      BY <1>1, <3>1
    <3>2. CASE requests[i].kind = "put" /\ acked' = acked \cup {requests[i].best}
      BY <1>1, <2>2, <3>2, RequestType DEF Request
    <3> QED
      BY <1>11, <3>1, <3>2 DEF Finish
  <2>5. requests' \in Seq(Request) /\ DOMAIN requests' = DOMAIN requests
    <3>1. [requests[i] EXCEPT !.open = FALSE] \in Request
      BY <2>2 DEF Request
    <3> QED
      BY <1>1, <2>1, <3>1
  <2>6. \A k \in DOMAIN requests : /\ requests'[k].best = requests[k].best
                                   /\ requests'[k].kind = requests[k].kind
    BY <1>1, <2>1, <2>2 DEF Request
  <2>7. RestInv'
    <3>1. \A k \in wire' : k.type \in {"write_req", "read_resp"} => Proper(k.entry)'
      BY <1>1, <2>1 DEF RestInv, Proper
    <3>2. \A k \in DOMAIN requests' : Proper(requests[k].best)'
      BY <1>1, <2>1, <2>5, <2>6 DEF RestInv, Proper
    <3> QED
      BY <1>1, <2>1, <2>4, <2>5, <2>6, <3>1, <3>2 DEF RestInv, Numbered
  <2> QED
    BY <1>2, <2>1, <2>3, <2>7
<1>12. CASE Tick
  <2>1. DataKept
    BY <1>1, <1>3, <1>12, SameData DEF Tick
  <2>2. RestInv'
    BY <1>1, <1>3, <1>12, LocalRest DEF Tick
  <2> QED
    BY <1>2, <1>12, <2>1, <2>2 DEF Tick
<1>13. CASE UNCHANGED vars
  <2>1. DataKept
    BY <1>1, <1>13, SameData DEF vars
  <2>2. RestInv'
    BY <1>1, <1>13, LocalRest DEF vars
  <2> QED
    BY <1>2, <1>13, <2>1, <2>2 DEF vars
<1> QED
  BY <1>4, <1>5, <1>6, <1>7, <1>8, <1>9, <1>10, <1>11, <1>12, <1>13 DEF Next

\* KVStore's variables have their types, whatever is written, expires, times
\* out or comes late; a tombstone holds no value on any replica.
THEOREM KVStoreTypeCorrect == Spec => []TypeOK
<1>1. Init => TypeInv
  BY KVInit
<1>2. TypeInv => TypeOK
  BY DEF TypeInv
<1> QED
  BY <1>1, <1>2, TypeStep, PTL DEF Spec

-----------------------------------------------------------------------------
(* Quorum reads *)

\* What is lost stays lost, and what keeps a write goes on keeping it.
LEMMA KeptStays ==
    ASSUME undercuts \subseteq undercuts', NEW x, NEW e, Keeps(undercuts, x, e)
    PROVE  Keeps(undercuts', x, e)
BY DEF Keeps, Lost

\* What is no older than something that keeps a write keeps it.
LEMMA KeepsMore ==
    ASSUME NEW U, NEW x \in Entry \cup {None}, NEW y \in Entry \cup {None}, NEW e \in Entry,
           Keeps(U, x, e), x # None => Holds(y, x)
    PROVE  Keeps(U, y, e)
<1>1. CASE Lost(U, e)
  BY <1>1 DEF Keeps
<1>2. CASE Holds(x, e)
  <2>1. Holds(y, e)
    BY <1>2, HoldsMore DEF Holds
  <2> QED
    BY <2>1 DEF Keeps
<1> QED
  BY <1>1, <1>2 DEF Keeps

\* A replica that keeps a write goes on keeping it: if it replaces the write, or
\* what took its place, by something older, the write is lost.
LEMMA HeldStays ==
    ASSUME TypeInv, DataKept, NEW p \in Nodes, NEW e \in Entry, Keeps(undercuts, data[p][Val], e)
    PROVE  Keeps(undercuts', data'[p][Val], e)
<1>1. PICK x \in Entry \cup {None}, y \in Entry \cup {None} : x = data[p][Val] /\ y = data'[p][Val]
  BY DataType, KeysDiffer DEF DataKept, Digest
<1>2. Keeps(undercuts', x, e)
  BY <1>1, KeptStays DEF DataKept
<1>3. x # None => y # None /\ (GT(x, y) => <<y, x>> \in undercuts')
  BY <1>1 DEF DataKept, ValueKept
<1>4. CASE ~Holds(x, e)
  BY <1>1, <1>2, <1>4 DEF Keeps
<1>5. CASE Holds(x, e) /\ ~GT(x, y)
  BY <1>1, <1>2, <1>3, <1>5, KeepsMore DEF Holds
<1>6. CASE Holds(x, e) /\ GT(x, y) /\ ~Holds(y, e)
  <2>1. x # None /\ ~GT(e, x) /\ y # None /\ GT(e, y) /\ <<y, x>> \in undercuts'
    BY <1>3, <1>6 DEF Holds
  <2>2. PICK u : u = <<y, x>>
    OBVIOUS
  <2>3. u \in undercuts' /\ GT(e, u[1]) /\ ~GT(e, u[2])
    BY <2>1, <2>2
  <2>4. Lost(undercuts', e)
    BY <2>3 DEF Lost
  <2> QED
    BY <1>1, <2>4 DEF Keeps
<1>7. CASE Holds(y, e)
  BY <1>1, <1>7 DEF Keeps
<1> QED
  BY <1>4, <1>5, <1>6, <1>7

\* So a write quorum goes on holding it.
LEMMA StoredStays ==
    ASSUME TypeInv, DataKept, start' = start, NEW R \in SUBSET Nodes, NEW e \in Entry, Stored(R, e)
    PROVE  Stored(R, e)'
<1>1. \A p \in R : Keeps(undercuts', data'[p][Val], e)
  BY HeldStays DEF Stored
<1> QED
  BY <1>1 DEF Stored

\* The requests stay, and what they write.
RequestsKept ==
    /\ DOMAIN requests \subseteq DOMAIN requests'
    /\ \A i \in DOMAIN requests : /\ requests'[i].kind = requests[i].kind
                                  /\ requests'[i].node = requests[i].node
                                  /\ requests[i].kind = "put" => requests'[i].best = requests[i].best

\* Messages that stay on the wire remain what they were.
LEMMA WireKept ==
    ASSUME TypeInv, WireInv, DataKept, RequestsKept, NEW m \in wire
    PROVE  /\ m.node # requests'[m.req].node
           /\ m.type \in {"write_req", "write_resp"} <=> requests'[m.req].kind = "put"
           /\ m.type = "write_req" => m.entry = requests'[m.req].best
           /\ m.type = "write_resp" => Keeps(undercuts', data'[m.node][Val], requests'[m.req].best)
<1>1. m.req \in DOMAIN requests /\ m.node \in Nodes
  BY MessageType
<1>2. /\ requests'[m.req].kind = requests[m.req].kind /\ requests'[m.req].node = requests[m.req].node
      /\ requests[m.req].kind = "put" => requests'[m.req].best = requests[m.req].best
  BY <1>1 DEF RequestsKept
<1>3. m.type = "write_resp" => Keeps(undercuts', data'[m.node][Val], requests[m.req].best)
  <2>1. SUFFICES ASSUME m.type = "write_resp"
                 PROVE  Keeps(undercuts', data'[m.node][Val], requests[m.req].best)
    OBVIOUS
  <2>2. Keeps(undercuts, data[m.node][Val], requests[m.req].best) /\ requests[m.req].kind = "put"
    BY <2>1 DEF WireInv
  <2>3. PICK e \in Entry : e = requests[m.req].best
    BY <1>1, <2>2, RequestType
  <2> QED
    BY <1>1, <2>2, <2>3, HeldStays
<1> QED
  BY <1>2, <1>3 DEF WireInv

\* In steps that send nothing they are all there is.
LEMMA WireSubset ==
    ASSUME TypeInv, WireInv, DataKept, RequestsKept, wire' \subseteq wire
    PROVE  WireInv'
<1>1. \A m, k \in wire' : m.req = k.req /\ m.node = k.node => m = k
  BY DEF WireInv
<1> QED
  BY <1>1, WireKept DEF WireInv

\* A message that takes another's place between the same two nodes.
LEMMA WireReplaced ==
    ASSUME TypeInv, WireInv, DataKept, RequestsKept, NEW m \in wire, NEW a,
           wire' = (wire \ {m}) \cup {a}, a.req = m.req, a.node = m.node,
           a.type \in {"write_req", "write_resp"} <=> m.type \in {"write_req", "write_resp"},
           a.type # "write_req",
           a.type = "write_resp" => Keeps(undercuts', data'[a.node][Val], requests'[a.req].best)
    PROVE  WireInv'
<1>1. \A k, l \in wire' : k.req = l.req /\ k.node = l.node => k = l
  BY DEF WireInv
<1>2. ASSUME NEW k \in wire'
      PROVE  /\ k.node # requests'[k.req].node
             /\ k.type \in {"write_req", "write_resp"} <=> requests'[k.req].kind = "put"
             /\ k.type = "write_req" => k.entry = requests'[k.req].best
             /\ k.type = "write_resp" => Keeps(undercuts', data'[k.node][Val], requests'[k.req].best)
  <2>1. CASE k \in wire
    BY <2>1, WireKept
  <2>2. CASE k = a
    <3>1. /\ m.node # requests'[m.req].node
          /\ m.type \in {"write_req", "write_resp"} <=> requests'[m.req].kind = "put"
      BY WireKept
    <3> QED
      BY <2>2, <3>1
  <2> QED
    BY <2>1, <2>2
<1> QED
  BY <1>1, <1>2 DEF WireInv

\* Request i counts and returns what it did, and what is on its way to it is
\* what was or what its sender holds.
Quiet(i) ==
    /\ i \in DOMAIN requests /\ i \in DOMAIN requests'
    /\ requests'[i].kind = requests[i].kind /\ requests'[i].answers = requests[i].answers
    /\ requests'[i].best = requests[i].best /\ requests'[i].floor = requests[i].floor
    /\ \A m \in wire' : m.req = i =>
          \/ m \in wire
          \/ /\ \E k \in wire : k.req = i /\ k.node = m.node
             /\ m.type = "read_resp" => m.entry = data[m.node][Val]

\* Then it has heard of the same nodes.
LEMMA HeardStays ==
    ASSUME NEW i, Quiet(i), NEW D, Heard(D, i)
    PROVE  Heard(D, i)'
BY DEF Heard, Quiet

\* And the invariants about it go on holding.
LEMMA QuietKept ==
    ASSUME TypeInv, PutInv, GetInv, DataKept, start' = start, NEW i, Quiet(i)
    PROVE  /\ requests'[i].kind = "put" => \E D \in SUBSET Nodes : Acknowledged(D, i)'
           /\ requests'[i].kind = "get" => \A e \in requests'[i].floor :
                 Keeps(undercuts', requests'[i].best, e) \/ \E D, R \in SUBSET Nodes : Missed(D, R, i, e)'
<1>1. /\ i \in DOMAIN requests
      /\ requests'[i].kind = requests[i].kind
      /\ requests'[i].best = requests[i].best /\ requests'[i].floor = requests[i].floor
  BY DEF Quiet
<1>2. ASSUME requests[i].kind = "put"
      PROVE  \E D \in SUBSET Nodes : Acknowledged(D, i)'
  <2>1. PICK D \in SUBSET Nodes : Acknowledged(D, i)
    BY <1>1, <1>2 DEF PutInv
  <2>2. PICK b \in Entry : b = requests[i].best
    BY <1>1, <1>2, RequestType
  <2>3. \A p \in D : Keeps(undercuts', data'[p][Val], b)
    BY <2>1, <2>2, HeldStays DEF Acknowledged
  <2>4. Heard(D, i)'
    BY <2>1, HeardStays DEF Acknowledged
  <2>5. Acknowledged(D, i)'
    BY <1>1, <2>2, <2>3, <2>4 DEF Acknowledged
  <2> QED
    BY <2>5
<1>3. ASSUME requests[i].kind = "get", NEW e \in requests[i].floor,
             ~Keeps(undercuts', requests[i].best, e)
      PROVE  \E D, R \in SUBSET Nodes : Missed(D, R, i, e)'
  <2> undercuts \subseteq undercuts'
    BY DEF DataKept
  <2>0. ~Keeps(undercuts, requests[i].best, e)
    BY <1>3, KeptStays
  <2>1. PICK D \in SUBSET Nodes, R \in SUBSET Nodes : Missed(D, R, i, e)
    BY <1>1, <1>3, <2>0 DEF GetInv
  <2>2. e \in Entry
    BY <1>1, <1>3, RequestType
  <2>3. Heard(D, i)' /\ Stored(R, e)'
    BY <2>1, <2>2, HeardStays, StoredStays DEF Missed
  <2>4. \A m \in wire' : m.req = i /\ m.type = "read_resp" /\ m.node \in R => Keeps(undercuts', m.entry, e)
    <3>1. ASSUME NEW m \in wire', m.req = i, m.type = "read_resp", m.node \in R
          PROVE  Keeps(undercuts, m.entry, e)
      BY <2>1, <3>1 DEF Missed, Stored, Quiet
    <3> QED
      BY <3>1, KeptStays
  <2>5. Missed(D, R, i, e)'
    BY <2>1, <2>3, <2>4 DEF Missed
  <2> QED
    BY <2>5
<1> QED
  BY <1>1, <1>2, <1>3

\* What a full quorum acknowledged stays stored by one.
LEMMA AckKept ==
    ASSUME TypeInv, AckInv, DataKept, start' = start, NEW e \in acked
    PROVE  \E R \in SUBSET Nodes : Stored(R, e)'
<1>1. e \in Entry
  BY DEF TypeInv, TypeOK
<1>2. PICK R \in SUBSET Nodes : Stored(R, e)
  BY DEF AckInv
<1>3. Stored(R, e)'
  BY <1>1, <1>2, StoredStays
<1> QED
  BY <1>3

\* Steps that make no request, count no answer and acknowledge nothing.
LEMMA QuietStep ==
    ASSUME TypeInv, QuorumInv, DataKept, start' = start, acked' = acked, WireInv',
           DOMAIN requests' = DOMAIN requests, \A i \in DOMAIN requests : Quiet(i)
    PROVE  QuorumInv'
<1>1. PutInv' /\ GetInv'
  BY QuietKept DEF QuorumInv, PutInv, GetInv
<1>2. AckInv'
  BY AckKept DEF QuorumInv, AckInv
<1> QED
  BY <1>1, <1>2 DEF QuorumInv

\* Steps that leave the quorum protocol alone.
LEMMA LocalQuorum ==
    ASSUME TypeInv, QuorumInv, DataKept, UNCHANGED <<start, requests, wire, acked>>
    PROVE  QuorumInv'
<1>1. WireInv'
  BY WireSubset DEF QuorumInv, RequestsKept
<1>2. \A i \in DOMAIN requests : Quiet(i)
  BY DEF Quiet
<1> QED
  BY <1>1, <1>2, QuietStep

\* messages[p] goes to p, for request j.
Addressed(P, messages, j) == \A p \in P : messages[p].req = j /\ messages[p].node = p

\* Request j is new, is r, made by n, and leaves the others alone.
Joined(n, P, r, messages, j) ==
    /\ DOMAIN requests' = DOMAIN requests \cup {j} /\ requests'[j] = r
    /\ \A m \in wire : m.req # j
    /\ \A m \in wire' : m \in wire \/ \E p \in P : m = messages[p]
    /\ \A i \in DOMAIN requests : Quiet(i)
    /\ RequestsKept /\ Heard({n}, j)'

\* A new request leaves the others alone; it has heard of its own node.
LEMMA AskedFacts ==
    ASSUME TypeInv, NEW n \in Nodes, NEW P \in SUBSET (Nodes \ {n}), NEW r \in Request, NEW messages,
           Asked(P, r, messages), r.node = n, r.answers = 0, NEW j, j = Len(requests) + 1,
           Addressed(P, messages, j)
    PROVE  Joined(n, P, r, messages, j)
<1>1. requests \in Seq(Request) /\ j \notin DOMAIN requests
  BY DEF TypeInv, Numbered
<1>2. /\ DOMAIN requests' = DOMAIN requests \cup {j} /\ requests'[j] = r
      /\ \A i \in DOMAIN requests : requests'[i] = requests[i]
  BY <1>1 DEF Asked
<1>3. \A m \in wire : m.req # j
  BY <1>1, MessageType
<1>4. \A m \in wire' : m \in wire \/ \E p \in P : m = messages[p]
  BY DEF Asked
<1>6. \A i \in DOMAIN requests : Quiet(i)
  BY <1>1, <1>2, <1>4 DEF Quiet, Addressed
<1>7. RequestsKept
  BY <1>2 DEF RequestsKept
<1>8. Cardinality({n}) = 1
  BY FS_Singleton
<1>9. \A m \in wire' : m.req = j => m.node # n
  BY <1>3, <1>4 DEF Addressed
<1>10. Heard({n}, j)'
  BY <1>2, <1>8, <1>9 DEF Heard
<1> QED
  BY <1>2, <1>3, <1>4, <1>6, <1>7, <1>10 DEF Joined

\* Only the new request is left to look at.
LEMMA AskStep ==
    ASSUME TypeInv, QuorumInv, DataKept, start' = start, acked' = acked, WireInv', NEW j,
           DOMAIN requests' = DOMAIN requests \cup {j}, \A i \in DOMAIN requests : Quiet(i),
           requests'[j].kind = "put" => \E D \in SUBSET Nodes : Acknowledged(D, j)',
           requests'[j].kind = "get" => \A e \in requests'[j].floor :
              Keeps(undercuts', requests'[j].best, e) \/ \E D, R \in SUBSET Nodes : Missed(D, R, j, e)'
    PROVE  QuorumInv'
<1>1. PutInv' /\ GetInv'
  BY QuietKept DEF QuorumInv, PutInv, GetInv
<1>2. AckInv'
  BY AckKept DEF QuorumInv, AckInv
<1> QED
  BY <1>1, <1>2 DEF QuorumInv

\* quorum_put: the writer holds what it writes.
LEMMA QuorumPutStep ==
    ASSUME TypeInv, QuorumInv, DataKept, NEW n \in Nodes, NEW v \in start.values, NEW ttl \in start.ttls,
           QuorumPut(n, v, ttl)
    PROVE  QuorumInv'
<1>1. start' = start /\ acked' = acked /\ data \in [Nodes -> Digest]
  BY DEF QuorumPut, TypeInv, TypeOK
<1> PICK P \in SUBSET (Nodes \ {n}), r \in Request : \E messages : PutAsked(n, v, P, r, messages)
  BY QuorumPutFacts
<1> PICK messages : PutAsked(n, v, P, r, messages)
  OBVIOUS
<1>2. /\ Asked(P, r, messages) /\ r.kind = "put" /\ r.node = n /\ r.answers = 0
      /\ r.best = NewEntry(v, Reading(n), n, FALSE) /\ r.best \in Entry
      /\ WriteReqs(messages, Len(requests) + 1, r.best)
  BY DEF PutAsked
<1>3. PICK f : data' = [data EXCEPT ![n] = f] /\ f[Val] = NewEntry(v, Reading(n), n, FALSE)
  BY QuorumPutFacts
<1>4. Keeps(undercuts', data'[n][Val], r.best)
  BY <1>1, <1>2, <1>3, NoneAssumption, VersionOrder DEF Holds, Keeps
<1>5. PICK j : j = Len(requests) + 1
  OBVIOUS
<1>6. ASSUME NEW p \in P
      PROVE  /\ messages[p].req = j /\ messages[p].node = p
             /\ messages[p].type = "write_req" /\ messages[p].entry = r.best
  <2>1. messages[p] = [type |-> "write_req", req |-> j, node |-> p, entry |-> r.best]
    BY <1>2, <1>5 DEF WriteReqs
  <2> QED
    BY <2>1
<1>7. /\ DOMAIN requests' = DOMAIN requests \cup {j} /\ requests'[j] = r
      /\ \A m \in wire : m.req # j
      /\ \A m \in wire' : m \in wire \/ \E p \in P : m = messages[p]
      /\ \A i \in DOMAIN requests : Quiet(i)
      /\ RequestsKept /\ Heard({n}, j)'
  <2>1. Addressed(P, messages, j)
    BY <1>6 DEF Addressed
  <2>2. Joined(n, P, r, messages, j)
    BY <1>2, <1>5, <2>1, AskedFacts
  <2> QED
    BY <2>2 DEF Joined
<1>8. WireInv'
  <2>1. \A m, k \in wire' : m.req = k.req /\ m.node = k.node => m = k
    BY <1>5, <1>6, <1>7 DEF QuorumInv, WireInv
  <2>2. ASSUME NEW m \in wire'
        PROVE  /\ m.node # requests'[m.req].node
               /\ m.type \in {"write_req", "write_resp"} <=> requests'[m.req].kind = "put"
               /\ m.type = "write_req" => m.entry = requests'[m.req].best
               /\ m.type = "write_resp" => Keeps(undercuts', data'[m.node][Val], requests'[m.req].best)
    <3>1. CASE m \in wire
      BY <1>7, <3>1, WireKept DEF QuorumInv
    <3>2. CASE \E p \in P : m = messages[p]
      <4>1. PICK p \in P : m = messages[p]
        BY <3>2
      <4>2. p # n /\ requests'[m.req] = r /\ m.node = p
        BY <1>6, <1>7, <4>1
      <4> QED
        BY <1>2, <1>6, <4>1, <4>2
    <3> QED
      BY <1>7, <3>1, <3>2
  <2> QED
    BY <2>1, <2>2 DEF WireInv
<1>9. Acknowledged({n}, j)'
  BY <1>4, <1>7 DEF Acknowledged
<1> QED
  BY <1>1, <1>2, <1>7, <1>8, <1>9, AskStep

\* quorum_get: its own node is not one of a quorum that holds a write it does
\* not have, and nothing was asked before.
LEMMA QuorumGetStep ==
    ASSUME TypeInv, QuorumInv, DataKept, NEW n \in Nodes, QuorumGet(n)
    PROVE  QuorumInv'
<1>1. start' = start /\ acked' = acked /\ data' = data /\ undercuts' = undercuts
  BY DEF QuorumGet
<1> PICK P \in SUBSET (Nodes \ {n}), r \in Request : \E messages : GetAsked(n, P, r, messages)
  BY QuorumGetFacts
<1> PICK messages : GetAsked(n, P, r, messages)
  OBVIOUS
<1>2. /\ Asked(P, r, messages)
      /\ r.kind = "get" /\ r.node = n /\ r.answers = 0 /\ r.best = data[n][Val] /\ r.floor = acked
      /\ ReadReqs(messages, Len(requests) + 1)
  BY DEF GetAsked
<1>5. PICK j : j = Len(requests) + 1
  OBVIOUS
<1>6. ASSUME NEW p \in P
      PROVE  messages[p].req = j /\ messages[p].node = p /\ messages[p].type = "read_req"
  <2>1. messages[p] = [type |-> "read_req", req |-> j, node |-> p]
    BY <1>2, <1>5 DEF ReadReqs
  <2> QED
    BY <2>1
<1>7. /\ DOMAIN requests' = DOMAIN requests \cup {j} /\ requests'[j] = r
      /\ \A m \in wire : m.req # j
      /\ \A m \in wire' : m \in wire \/ \E p \in P : m = messages[p]
      /\ \A i \in DOMAIN requests : Quiet(i)
      /\ RequestsKept /\ Heard({n}, j)'
  <2>1. Addressed(P, messages, j)
    BY <1>6 DEF Addressed
  <2>2. Joined(n, P, r, messages, j)
    BY <1>2, <1>5, <2>1, AskedFacts
  <2> QED
    BY <2>2 DEF Joined
<1>8. WireInv'
  <2>1. \A m, k \in wire' : m.req = k.req /\ m.node = k.node => m = k
    BY <1>5, <1>6, <1>7 DEF QuorumInv, WireInv
  <2>2. ASSUME NEW m \in wire'
        PROVE  /\ m.node # requests'[m.req].node
               /\ m.type \in {"write_req", "write_resp"} <=> requests'[m.req].kind = "put"
               /\ m.type = "write_req" => m.entry = requests'[m.req].best
               /\ m.type = "write_resp" => Keeps(undercuts', data'[m.node][Val], requests'[m.req].best)
    <3>1. CASE m \in wire
      BY <1>7, <3>1, WireKept DEF QuorumInv
    <3>2. CASE \E p \in P : m = messages[p]
      <4>1. PICK p \in P : m = messages[p]
        BY <3>2
      <4>2. p # n /\ requests'[m.req] = r /\ m.node = p
        BY <1>6, <1>7, <4>1
      <4> QED
        BY <1>2, <1>6, <4>1, <4>2
    <3> QED
      BY <1>7, <3>1, <3>2
  <2> QED
    BY <2>1, <2>2 DEF WireInv
<1>9. ASSUME NEW e \in acked, ~Keeps(undercuts, data[n][Val], e)
      PROVE  \E D, R \in SUBSET Nodes : Missed(D, R, j, e)'
  <2>1. PICK R \in SUBSET Nodes : Stored(R, e)
    BY <1>9 DEF QuorumInv, AckInv
  <2>2. n \notin R
    BY <1>9, <2>1 DEF Stored
  <2>3. Stored(R, e)'
    BY <1>1, <2>1 DEF Stored
  <2>4. \A m \in wire' : m.req = j => m.type # "read_resp"
    BY <1>6, <1>7
  <2>5. Missed({n}, R, j, e)'
    BY <1>7, <2>2, <2>3, <2>4 DEF Missed
  <2> QED
    BY <2>5
<1>10. \A e \in requests'[j].floor :
          Keeps(undercuts', requests'[j].best, e) \/ \E D, R \in SUBSET Nodes : Missed(D, R, j, e)'
  BY <1>1, <1>2, <1>7, <1>9
<1> QED
  BY <1>1, <1>2, <1>7, <1>8, <1>10, AskStep

\* A write_req is applied before it is acknowledged.
LEMMA OnWriteReqStep ==
    ASSUME TypeInv, QuorumInv, DataKept, NEW m \in wire, OnWriteReq(m)
    PROVE  QuorumInv'
<1>1. PICK a : a = [type |-> "write_resp", req |-> m.req, node |-> m.node]
  OBVIOUS
<1>2. /\ m.type = "write_req" /\ UNCHANGED <<start, now, requests, acked, undercuts>>
      /\ data' = [data EXCEPT ![m.node][Val] = MergeEntry(@, m.entry)]
      /\ wire' = (wire \ {m}) \cup {a}
  BY <1>1 DEF OnWriteReq
<1>3. m.node \in Nodes /\ m.entry \in Entry /\ Proper(m.entry)
  BY <1>2, MessageType
<1>4. Keeps(undercuts', data'[m.node][Val], m.entry)
  BY <1>2, <1>3, MergeStep DEF Keeps
<1>5. a.type = "write_resp" /\ a.req = m.req /\ a.node = m.node
  BY <1>1
<1>6. m.entry = requests[m.req].best
  BY <1>2 DEF QuorumInv, WireInv
<1>7. RequestsKept
  BY <1>2 DEF RequestsKept
<1>8. WireInv'
  BY <1>2, <1>4, <1>5, <1>6, <1>7, WireReplaced DEF QuorumInv
<1>9. \A i \in DOMAIN requests : Quiet(i)
  BY <1>2, <1>5 DEF Quiet
<1> QED
  BY <1>2, <1>8, <1>9, QuietStep

\* A read_req is answered with what the replica holds.
LEMMA OnReadReqStep ==
    ASSUME TypeInv, QuorumInv, DataKept, NEW m \in wire, OnReadReq(m)
    PROVE  QuorumInv'
<1>1. PICK a : a = [type |-> "read_resp", req |-> m.req, node |-> m.node, entry |-> data[m.node][Val]]
  OBVIOUS
<1>2. /\ m.type = "read_req" /\ UNCHANGED <<start, data, requests, acked>>
      /\ wire' = (wire \ {m}) \cup {a}
  BY <1>1 DEF OnReadReq
<1>3. a.type = "read_resp" /\ a.req = m.req /\ a.node = m.node /\ a.entry = data[m.node][Val]
  BY <1>1
<1>4. RequestsKept
  BY <1>2 DEF RequestsKept
<1>5. WireInv'
  BY <1>2, <1>3, <1>4, WireReplaced DEF QuorumInv
<1>6. \A i \in DOMAIN requests : Quiet(i)
  BY <1>2, <1>3 DEF Quiet
<1> QED
  BY <1>2, <1>5, <1>6, QuietStep

\* A set of nodes that one more node joins.
LEMMA OneMore ==
    ASSUME NEW D \in SUBSET Nodes, NEW p \in Nodes, p \notin D
    PROVE  D \cup {p} \in SUBSET Nodes /\ Cardinality(D \cup {p}) = Cardinality(D) + 1
<1>1. IsFiniteSet(D)
  BY FiniteAssumption, FS_Subset
<1> QED
  BY <1>1, FS_AddElement

\* The newest version across the quorum is no older than the one so far, nor
\* than the answer.
LEMMA BestKeeps ==
    ASSUME NEW b \in Entry \cup {None}, NEW x \in Entry \cup {None}, NEW e \in Entry, NEW U,
           Keeps(U, b, e) \/ Keeps(U, x, e)
    PROVE  Keeps(U, Best(b, x), e)
<1>1. CASE x = None
  BY <1>1 DEF Best, Keeps, Holds
<1>2. CASE x # None
  <2>1. x \in Entry /\ Best(b, x) = MergeEntry(b, x)
    BY <1>2 DEF Best
  <2>2. /\ MergeEntry(b, x) \in Entry /\ Holds(MergeEntry(b, x), x)
        /\ b # None => Holds(MergeEntry(b, x), b)
    BY <2>1, MergeHolds
  <2> QED
    BY <2>1, <2>2, KeepsMore
<1> QED
  BY <1>1, <1>2

\* An answer that is counted.
Counted(m) ==
    /\ requests'[m.req].answers = requests[m.req].answers + 1
    /\ requests'[m.req].kind = requests[m.req].kind /\ requests'[m.req].node = requests[m.req].node
    /\ requests'[m.req].floor = requests[m.req].floor
    /\ requests'[m.req].best = IF m.type = "read_resp" THEN Best(requests[m.req].best, m.entry)
                                                       ELSE requests[m.req].best

\* One more node has been heard of when an answer is counted, and nothing more
\* is to be heard from it.
LEMMA CountedHeard ==
    ASSUME TypeInv, WireInv, NEW m \in wire, wire' = wire \ {m}, Counted(m),
           NEW D \in SUBSET Nodes, Heard(D, m.req)
    PROVE  \E E \in SUBSET Nodes : /\ E = D \cup {m.node}
                                   /\ Cardinality(E) = requests'[m.req].answers + 1
                                   /\ \A k \in wire' : k.req = m.req => k.node \notin E
<1>1. m.node \in Nodes /\ m.req \in DOMAIN requests /\ m.node \notin D
  BY MessageType DEF Heard
<1>2. requests[m.req].answers \in Nat
  BY <1>1, RequestType
<1>3. D \cup {m.node} \in SUBSET Nodes /\ Cardinality(D \cup {m.node}) = Cardinality(D) + 1
  BY <1>1, OneMore
<1>4. Cardinality(D) = requests[m.req].answers + 1
  BY DEF Heard
<1>5. \A k \in wire' : k.req = m.req => k.node \notin D \cup {m.node}
  BY DEF Heard, WireInv
<1> QED
  BY <1>2, <1>3, <1>4, <1>5 DEF Counted

\* A counted answer stands for one more node that holds the write, or for one
\* more that a read has heard of.
LEMMA OnResponseStep ==
    ASSUME TypeInv, QuorumInv, DataKept, NEW m \in wire, OnResponse(m)
    PROVE  QuorumInv'
<1>1. /\ m.type \in {"write_resp", "read_resp"} /\ wire' = wire \ {m}
      /\ UNCHANGED <<start, data, acked, undercuts>> /\ WireInv
  BY DEF OnResponse, QuorumInv
<1>2. m.node \in Nodes /\ m.req \in DOMAIN requests
      /\ (m.type = "read_resp" => m.entry \in Entry \cup {None})
  BY MessageType
<1>3. /\ DOMAIN requests' = DOMAIN requests
      /\ \A i \in DOMAIN requests : i # m.req => requests'[i] = requests[i]
      /\ requests' = requests \/ Counted(m)
  BY OnResponseFacts DEF Counted
<1>4. /\ m.type = "write_resp" <=> requests[m.req].kind = "put"
      /\ m.type = "write_resp" => Keeps(undercuts, data[m.node][Val], requests[m.req].best)
  BY <1>1 DEF WireInv
<1>5. RequestsKept
  BY <1>1, <1>3, <1>4 DEF RequestsKept, Counted
<1>6. WireInv'
  BY <1>1, <1>5, WireSubset
<1>7. \A i \in DOMAIN requests : i # m.req => Quiet(i)
  BY <1>1, <1>3 DEF Quiet
<1>8. CASE requests' = requests
  <2>1. \A i \in DOMAIN requests : Quiet(i)
    BY <1>1, <1>8 DEF Quiet
  <2> QED
    BY <1>1, <1>3, <1>6, <2>1, QuietStep
<1>9. CASE Counted(m)
  <2>1. PICK i : i = m.req
    OBVIOUS
  <2>2. /\ i \in DOMAIN requests /\ requests[i].best \in Entry \cup {None}
        /\ requests[i].floor \subseteq Entry /\ requests[i].kind \in {"put", "get"}
        /\ requests'[i].kind = requests[i].kind /\ requests'[i].floor = requests[i].floor
    BY <1>2, <1>9, <2>1, RequestType DEF Counted
  <2>3. ASSUME requests[i].kind = "put"
        PROVE  \E D \in SUBSET Nodes : Acknowledged(D, i)'
    <3>1. PICK D \in SUBSET Nodes : Acknowledged(D, i)
      BY <2>2, <2>3 DEF QuorumInv, PutInv
    <3>2. PICK E \in SUBSET Nodes : /\ E = D \cup {m.node}
                                    /\ Cardinality(E) = requests'[i].answers + 1
                                    /\ \A k \in wire' : k.req = i => k.node \notin E
      BY <1>1, <1>9, <2>1, <3>1, CountedHeard DEF Acknowledged
    <3>3. requests'[i].best = requests[i].best /\ Keeps(undercuts, data[m.node][Val], requests[i].best)
      BY <1>4, <1>9, <2>1, <2>3 DEF Counted
    <3>4. Acknowledged(E, i)'
      BY <1>1, <3>1, <3>2, <3>3 DEF Acknowledged, Heard
    <3> QED
      BY <3>4
  <2>4. ASSUME requests[i].kind = "get", NEW e \in requests[i].floor, ~Keeps(undercuts', requests'[i].best, e)
        PROVE  \E D, R \in SUBSET Nodes : Missed(D, R, i, e)'
    <3>1. e \in Entry /\ m.type = "read_resp" /\ requests'[i].best = Best(requests[i].best, m.entry)
      BY <1>1, <1>4, <1>9, <2>1, <2>2, <2>4 DEF Counted
    <3>2. ~Keeps(undercuts, requests[i].best, e) /\ ~Keeps(undercuts, m.entry, e)
      <4>1. ~Keeps(undercuts, Best(requests[i].best, m.entry), e)
        BY <1>1, <2>4, <3>1
      <4> QED
        BY <1>2, <2>2, <3>1, <4>1, BestKeeps
    <3>3. PICK D \in SUBSET Nodes, R \in SUBSET Nodes : Missed(D, R, i, e)
      BY <2>2, <2>4, <3>2 DEF QuorumInv, GetInv
    <3>4. m.node \notin R
      BY <2>1, <3>1, <3>2, <3>3 DEF Missed
    <3>5. PICK E \in SUBSET Nodes : /\ E = D \cup {m.node}
                                    /\ Cardinality(E) = requests'[i].answers + 1
                                    /\ \A k \in wire' : k.req = i => k.node \notin E
      BY <1>1, <1>9, <2>1, <3>3, CountedHeard DEF Missed
    <3>6. E \cap R = {}
      BY <3>3, <3>4, <3>5 DEF Missed
    <3>7. Stored(R, e)' /\ Heard(E, i)'
      BY <1>1, <3>3, <3>5 DEF Missed, Stored, Heard
    <3>8. \A k \in wire' : k.req = i /\ k.type = "read_resp" /\ k.node \in R =>
               Keeps(undercuts', k.entry, e)
      BY <1>1, <3>3 DEF Missed
    <3>9. Missed(E, R, i, e)'
      BY <3>6, <3>7, <3>8 DEF Missed
    <3> QED
      BY <3>9
  <2>5. PutInv'
    <3>1. ASSUME NEW j \in DOMAIN requests', requests'[j].kind = "put"
          PROVE  \E D \in SUBSET Nodes : Acknowledged(D, j)'
      BY <1>1, <1>3, <1>7, <2>1, <2>2, <2>3, <3>1, QuietKept DEF QuorumInv
    <3> QED
      BY <3>1 DEF PutInv
  <2>6. GetInv'
    <3>1. ASSUME NEW j \in DOMAIN requests', requests'[j].kind = "get", NEW e \in requests'[j].floor
          PROVE  Keeps(undercuts', requests'[j].best, e) \/ \E D, R \in SUBSET Nodes : Missed(D, R, j, e)'
      BY <1>1, <1>3, <1>7, <2>1, <2>2, <2>4, <3>1, QuietKept DEF QuorumInv
    <3> QED
      BY <3>1 DEF GetInv
  <2>7. AckInv'
    BY <1>1, AckKept DEF QuorumInv, AckInv
  <2> QED
    BY <1>6, <2>5, <2>6, <2>7 DEF QuorumInv
<1> QED
  BY <1>3, <1>8, <1>9

\* A write that reports a full quorum is held by one.
LEMMA FinishStep ==
    ASSUME TypeInv, QuorumInv, DataKept, NEW i \in DOMAIN requests, Finish(i)
    PROVE  QuorumInv'
<1>1. /\ start' = start /\ wire' = wire /\ requests' = [requests EXCEPT ![i].open = FALSE]
      /\ requests \in Seq(Request) /\ requests[i] \in Request
  BY RequestType DEF Finish, TypeInv, Numbered
<1>2. /\ DOMAIN requests' = DOMAIN requests
      /\ \A k \in DOMAIN requests : /\ requests'[k].kind = requests[k].kind
                                    /\ requests'[k].node = requests[k].node
                                    /\ requests'[k].answers = requests[k].answers
                                    /\ requests'[k].best = requests[k].best
                                    /\ requests'[k].floor = requests[k].floor
  BY <1>1 DEF Request
<1>3. RequestsKept
  BY <1>2 DEF RequestsKept
<1>4. WireInv'
  BY <1>1, <1>3, WireSubset DEF QuorumInv
<1>5. \A k \in DOMAIN requests : Quiet(k)
  BY <1>1, <1>2 DEF Quiet
<1>6. PutInv' /\ GetInv'
  BY <1>1, <1>2, <1>5, QuietKept DEF QuorumInv, PutInv, GetInv
<1>7. ASSUME NEW e \in acked', e \notin acked
      PROVE  \E R \in SUBSET Nodes : Stored(R, e)'
  <2>1. /\ requests[i].kind = "put" /\ requests[i].answers + 1 >= start.w
        /\ e = requests[i].best
    BY <1>7 DEF Finish
  <2>2. PICK R \in SUBSET Nodes : Acknowledged(R, i)
    BY <2>1 DEF QuorumInv, PutInv
  <2>3. Stored(R, e)
    BY <2>1, <2>2 DEF Acknowledged, Heard, Stored
  <2>4. e \in Entry
    BY <2>1, RequestType
  <2>5. Stored(R, e)'
    BY <1>1, <2>3, <2>4, StoredStays
  <2> QED
    BY <2>5
<1>8. AckInv'
  BY <1>1, <1>7, AckKept DEF QuorumInv, AckInv
<1> QED
  BY <1>4, <1>6, <1>8 DEF QuorumInv

\* Every step keeps the invariant of the quorums.
LEMMA QuorumStep == ASSUME TypeInv, QuorumInv, [Next]_vars PROVE QuorumInv'
<1>1. DataKept /\ start' = start
  BY TypeStep
<1>2. ASSUME NEW n \in Nodes,
             \/ \E v \in start.values, ttl \in start.ttls : Put(n, v, ttl)
             \/ Delete(n) \/ Reap(n) \/ CreateIndex(n)
      PROVE  QuorumInv'
  BY <1>1, <1>2, LocalStep, LocalQuorum
<1>3. ASSUME NEW n \in Nodes, NEW v \in start.values, NEW ttl \in start.ttls, QuorumPut(n, v, ttl)
      PROVE  QuorumInv'
  BY <1>1, <1>3, QuorumPutStep
<1>4. ASSUME NEW n \in Nodes, QuorumGet(n)
      PROVE  QuorumInv'
  BY <1>1, <1>4, QuorumGetStep
<1>5. ASSUME NEW n \in Nodes, NEW p \in Nodes, Replicate(n, p)
      PROVE  QuorumInv'
  BY <1>1, <1>5, LocalQuorum DEF Replicate
<1>6. ASSUME NEW m \in wire, OnWriteReq(m) \/ OnReadReq(m) \/ OnResponse(m)
      PROVE  QuorumInv'
  BY <1>1, <1>6, OnWriteReqStep, OnReadReqStep, OnResponseStep
<1>7. ASSUME NEW i \in DOMAIN requests, Finish(i)
      PROVE  QuorumInv'
  BY <1>1, <1>7, FinishStep
<1>8. CASE Tick \/ UNCHANGED vars
  BY <1>1, <1>8, LocalQuorum DEF Tick, vars
<1> QED
  BY <1>2, <1>3, <1>4, <1>5, <1>6, <1>7, <1>8 DEF Next

\* The two quorums of every start have a node in common.
QuorumsMeet == \A s \in Starts : s.w + s.r > Cardinality(Nodes)

\* A read that got all its answers has heard of a node that holds the write.
LEMMA QuorumsIntersect ==
    ASSUME QuorumsMeet, TypeInv, QuorumInv
    PROVE  QuorumReads
<1> SUFFICES ASSUME NEW i \in DOMAIN requests, requests[i].kind = "get",
                    requests[i].answers + 1 >= start.r, NEW e \in requests[i].floor, ~Undercut(e)
             PROVE  Holds(requests[i].best, e)
  BY DEF QuorumReads, Holds
<1>1. SUFFICES ASSUME NEW D \in SUBSET Nodes, NEW R \in SUBSET Nodes, Missed(D, R, i, e)
               PROVE  FALSE
  BY DEF QuorumInv, GetInv, Keeps, Lost, Undercut
<1>2. start.w + start.r > Cardinality(Nodes) /\ start.w \in Nat /\ start.r \in Nat
  BY StartsAssumption DEF QuorumsMeet, TypeInv, TypeOK, Start
<1>3. Cardinality(D) >= start.r /\ Cardinality(R) >= start.w /\ D \cap R = {}
  BY <1>1 DEF Missed, Heard, Stored
<1>4. Cardinality(D) \in Nat /\ Cardinality(R) \in Nat /\ Cardinality(Nodes) \in Nat
  BY FiniteAssumption, FS_Subset, FS_CardinalityType
<1>5. Cardinality(D) + Cardinality(R) > Cardinality(Nodes)
  BY <1>2, <1>3, <1>4
<1> QED
  BY <1>3, <1>5, FiniteAssumption, FS_MajoritiesIntersect

\* Quorum reads: when w + r exceeds the number of replicas, a quorum_get that
\* got all its answers returns a version no older than every write that a full
\* quorum had acknowledged when it began, for any number of replicas, clients
\* and operations, whatever the clocks read and whatever is timed out, lost or
\* late; except for a write that a node has replaced by an older one of its own.
THEOREM QuorumReadsCorrect == ASSUME QuorumsMeet PROVE Spec => []QuorumReads
<1>1. Init => TypeInv /\ QuorumInv
  <2>1. ASSUME Init
        PROVE  QuorumInv
    <3>1. requests = <<>> /\ DOMAIN requests = {} /\ wire = {} /\ acked = {}
      BY <2>1 DEF Init
    <3> QED
      BY <3>1 DEF QuorumInv, WireInv, PutInv, AckInv, GetInv
  <2> QED
    BY <2>1, KVInit
<1>2. TypeInv /\ QuorumInv /\ [Next]_vars => (TypeInv /\ QuorumInv)'
  BY TypeStep, QuorumStep
<1>3. TypeInv /\ QuorumInv => QuorumReads
  BY QuorumsIntersect
<1> QED
  BY <1>1, <1>2, <1>3, PTL DEF Spec

\* All clocks read the same.
ClocksAgree == \A s \in Starts, n, p \in Nodes : s.skew[n] = s.skew[p]

\* Then what a node writes is newer than what it replaces.
LEMMA WritesNewer ==
    ASSUME ClocksAgree, TypeInv, NEW n \in Nodes, NEW f, Rewritten(n, data[n], f, Reading(n)),
           data' = [data EXCEPT ![n] = f], Undercuts(n)
    PROVE  undercuts' = undercuts
<1>1. PICK old \in Entry \cup {None} : old = data[n][Val] /\ Proper(old)
  BY DataType, KeysDiffer
<1>2. PICK new : new = f[Val] /\ (new = old \/ WrittenAt(new, n, Reading(n)))
  BY <1>1, KeysDiffer DEF Rewritten
<1>3. data'[n][Val] = new
  <2>1. data \in [Nodes -> Digest]
    BY DEF TypeInv, TypeOK
  <2> QED
    BY <1>2, <2>1
<1>4. ASSUME old # None
      PROVE  ~GT(old, new)
  <2>1. CASE new = old
    BY <1>1, <1>4, <2>1, VersionOrder
  <2>2. CASE WrittenAt(new, n, Reading(n))
    <3>1. old \in Entry /\ old.ts \in Nat /\ old.origin \in Nodes
      BY <1>1, <1>4 DEF Entry
    <3>2. start.skew[old.origin] = start.skew[n]
      BY <3>1, TimeType DEF ClocksAgree
    <3>3. old.ts <= now + start.skew[n]
      BY <1>1, <1>4, <3>2 DEF Proper
    <3>4. new.ts = now + 1 + start.skew[n] /\ start.skew[n] \in Nat /\ now \in Nat
      BY <2>2, ReadingType, TimeType DEF WrittenAt
    <3> QED
      BY <3>1, <3>3, <3>4 DEF GT
  <2> QED
    BY <1>2, <2>1, <2>2
<1> QED
  BY <1>1, <1>3, <1>4 DEF Undercuts

\* No step undercuts anything.
LEMMA UndercutStep == ASSUME ClocksAgree, TypeInv, [Next]_vars PROVE undercuts' = undercuts
<1>1. ASSUME NEW n \in Nodes,
             \/ \E v \in start.values, ttl \in start.ttls : Put(n, v, ttl)
             \/ Delete(n) \/ Reap(n)
      PROVE  undercuts' = undercuts
  <2>1. PICK f : Rewritten(n, data[n], f, Reading(n)) /\ data' = [data EXCEPT ![n] = f]
    BY <1>1, LocalStep
  <2>2. Undercuts(n)
    BY <1>1 DEF Put, Delete, Reap
  <2> QED
    BY <2>1, <2>2, WritesNewer
<1>2. ASSUME NEW n \in Nodes, NEW v \in start.values, NEW ttl \in start.ttls, QuorumPut(n, v, ttl)
      PROVE  undercuts' = undercuts
  <2>1. PICK f : Rewritten(n, data[n], f, Reading(n)) /\ data' = [data EXCEPT ![n] = f]
    BY <1>2, QuorumPutFacts
  <2>2. Undercuts(n)
    BY <1>2 DEF QuorumPut
  <2> QED
    BY <2>1, <2>2, WritesNewer
<1>3. ASSUME NEW n \in Nodes, CreateIndex(n) \/ QuorumGet(n) \/ \E p \in Nodes : Replicate(n, p)
      PROVE  undercuts' = undercuts
  BY <1>3 DEF CreateIndex, QuorumGet, Replicate
<1>4. ASSUME NEW m \in wire, OnWriteReq(m) \/ OnReadReq(m) \/ OnResponse(m)
      PROVE  undercuts' = undercuts
  BY <1>4 DEF OnWriteReq, OnReadReq, OnResponse
<1>5. ASSUME NEW i \in DOMAIN requests, Finish(i)
      PROVE  undercuts' = undercuts
  BY <1>5 DEF Finish
<1>6. CASE Tick \/ UNCHANGED vars
  BY <1>6 DEF Tick, vars
<1> QED
  BY <1>1, <1>2, <1>3, <1>4, <1>5, <1>6 DEF Next

\* QuorumReads without its exception.
StrictQuorumReads ==
    \A i \in DOMAIN requests :
        LET r == requests[i] IN
        r.kind = "get" /\ ~r.open /\ r.answers + 1 >= start.r
        => \A e \in r.floor : r.best # None /\ ~GT(e, r.best)

\* When the clocks agree, a quorum_get that got all its answers returns a version
\* no older than every write that a full quorum had acknowledged: store.set and
\* store.delete, which do not compare versions, then never replace a newer one.
THEOREM StrictQuorumReadsCorrect ==
    ASSUME QuorumsMeet, ClocksAgree PROVE Spec => []StrictQuorumReads
<1>1. Init => TypeInv /\ undercuts = {}
  BY KVInit DEF Init
<1>2. TypeInv /\ undercuts = {} /\ [Next]_vars => (TypeInv /\ undercuts = {})'
  BY TypeStep, UndercutStep
<1>3. undercuts = {} /\ QuorumReads => StrictQuorumReads
  BY DEF QuorumReads, StrictQuorumReads, Undercut
<1> QED
  BY <1>1, <1>2, <1>3, QuorumReadsCorrect, PTL DEF Spec

-----------------------------------------------------------------------------
(* One writer *)

\* A replica is below itself, and below what its superior is below.
LEMMA BelowOrder ==
    ASSUME NEW d \in Digest, NEW f \in Digest, NEW g \in Digest
    PROVE  Below(d, d) /\ (Below(d, f) /\ Below(f, g) => Below(d, g))
<1>1. Below(d, d)
  BY DEF Below
<1>2. ASSUME Below(d, f), Below(f, g), NEW k \in Keys
      PROVE  d[k] = g[k] \/ d[k] = None \/ (g[k] # None /\ GT(g[k], d[k]))
  <2>1. d[k] \in Entry \cup {None} /\ f[k] \in Entry \cup {None} /\ g[k] \in Entry \cup {None}
    BY DEF Digest
  <2>2. /\ d[k] = f[k] \/ d[k] = None \/ (f[k] # None /\ GT(f[k], d[k]))
        /\ f[k] = g[k] \/ f[k] = None \/ (g[k] # None /\ GT(g[k], f[k]))
    BY <1>2 DEF Below
  <2> QED
    BY <2>1, <2>2, VersionOrder
<1> QED
  BY <1>1, <1>2 DEF Below

\* The merge of two states of a chain is the later one.
LEMMA BelowMerge ==
    ASSUME NEW d \in Digest, NEW f \in Digest
    PROVE  /\ Below(d, f) => MergeDigest(d, f) = f
           /\ Below(f, d) => MergeDigest(d, f) = d
<1>1. ASSUME NEW k \in Keys
      PROVE  d[k] \in Entry \cup {None} /\ f[k] \in Entry \cup {None}
  BY DEF Digest
<1>2. ASSUME Below(d, f)
      PROVE  MergeDigest(d, f) = f
  <2>1. ASSUME NEW k \in Keys
        PROVE  (IF f[k] = None THEN d[k] ELSE MergeEntry(d[k], f[k])) = f[k]
    BY <1>1, <1>2, VersionOrder DEF Below, MergeEntry, Supersedes
  <2> QED
    BY <2>1 DEF MergeDigest, Digest
<1>3. ASSUME Below(f, d)
      PROVE  MergeDigest(d, f) = d
  <2>1. ASSUME NEW k \in Keys
        PROVE  (IF f[k] = None THEN d[k] ELSE MergeEntry(d[k], f[k])) = d[k]
    BY <1>1, <1>3, VersionOrder DEF Below, MergeEntry, Supersedes
  <2> QED
    BY <2>1 DEF MergeDigest, Digest
<1> QED
  BY <1>2, <1>3

\* An entry of the writer's is not ahead of its clock.
LEMMA OwnTime ==
    ASSUME TypeInv, NEW n \in Nodes, Own(n), NEW p \in Nodes, NEW k \in Keys, data[p][k] # None
    PROVE  data[p][k].ts <= Clock(n) /\ data[p][k].ts \in Nat
<1>1. PICK e \in Entry : e = data[p][k] /\ Proper(e) /\ e.origin = n
  BY DataType DEF Own
<1>2. e # None /\ e.ts \in Nat
  BY <1>1, NoneAssumption DEF Entry
<1> QED
  BY <1>1, <1>2, ReadingType DEF Proper

\* A local write puts the writer above what it was.
LEMMA WriteAbove ==
    ASSUME TypeInv, NEW n \in Nodes, Own(n), NEW f, Rewritten(n, data[n], f, Reading(n))
    PROVE  f \in Digest /\ Below(data[n], f)
<1>1. Clock(n) \in Nat /\ Reading(n) \in Nat /\ Clock(n) < Reading(n) /\ f \in Digest
  BY ReadingType DEF Rewritten
<1>2. ASSUME NEW k \in Keys
      PROVE  data[n][k] = f[k] \/ data[n][k] = None \/ (f[k] # None /\ GT(f[k], data[n][k]))
  <2>1. CASE f[k] = data[n][k]
    BY <2>1
  <2>2. CASE WrittenAt(f[k], n, Reading(n)) /\ data[n][k] # None
    <3>1. f[k] \in Entry /\ f[k].ts = Reading(n) /\ f[k] # None
      BY <2>2, NoneAssumption DEF WrittenAt
    <3>2. data[n][k].ts <= Clock(n) /\ data[n][k].ts \in Nat
      BY <2>2, OwnTime
    <3> QED
      BY <1>1, <3>1, <3>2 DEF GT
  <2> QED
    BY <2>1, <2>2 DEF Rewritten
<1> QED
  BY <1>1, <1>2 DEF Below

\* So the chain goes on.
LEMMA ChainWrite ==
    ASSUME TypeInv, NEW n \in Nodes, Own(n), Chain(n), NEW f, Rewritten(n, data[n], f, Reading(n)),
           data' = [data EXCEPT ![n] = f]
    PROVE  Chain(n)'
<1>1. data \in [Nodes -> Digest] /\ f \in Digest /\ Below(data[n], f)
  BY WriteAbove DEF TypeInv, TypeOK
<1>2. \A p \in Nodes : data'[p] = IF p = n THEN f ELSE data[p]
  BY <1>1
<1>3. \A p \in Nodes : Below(data[p], f)
  BY <1>1, BelowOrder DEF Chain
<1>4. Below(f, f)
  BY <1>1, BelowOrder
<1>5. \A p \in Nodes : Below(data'[p], data'[n])
  BY <1>2, <1>3, <1>4
<1>6. \A p, q \in Nodes : Below(data'[p], data'[q]) \/ Below(data'[q], data'[p])
  BY <1>2, <1>3, <1>4 DEF Chain
<1> QED
  BY <1>5, <1>6 DEF Chain

\* In a chain, a gossip round moves no replica to a state that none was in,
\* and the writer learns nothing.
LEMMA ChainReplicate ==
    ASSUME TypeInv, NEW n \in Nodes, Chain(n), NEW a \in Nodes, NEW b \in Nodes, Replicate(a, b)
    PROVE  data'[n] = data[n] /\ \A p \in Nodes : \E q \in Nodes : data'[p] = data[q]
<1>1. data \in [Nodes -> Digest] /\ data[a] \in Digest /\ data[b] \in Digest
  BY DEF TypeInv, TypeOK
<1>2. \A p \in Nodes : data'[p] = IF p = b THEN MergeDigest(data[b], data[a]) ELSE data[p]
  BY <1>1 DEF Replicate
<1>3. MergeDigest(data[b], data[a]) \in {data[a], data[b]}
  BY <1>1, BelowMerge DEF Chain
<1>4. b = n => MergeDigest(data[b], data[a]) = data[b]
  BY <1>1, BelowMerge DEF Chain
<1> QED
  BY <1>2, <1>3, <1>4

\* What _reindex leaves: the index is of the new value.
LEMMA ReindexedFacts ==
    ASSUME NEW n \in Nodes, NEW d \in Digest, NEW t \in Nat, NEW v \in UserValues \cup {None},
           NEW u \in UserValues
    PROVE  /\ n \notin indexed => Reindexed(n, d, v, t)[Idx(u)] = d[Idx(u)]
           /\ n \in indexed /\ (Live(d[Idx(u)]) => Old(d) = u) =>
                 (Live(Reindexed(n, d, v, t)[Idx(u)]) <=> u = v)
<1>1. Idx(u) \in Keys /\ u # None /\ (v # None => (Idx(u) = Idx(v) <=> u = v))
  BY KeysDiffer, KeysAssumption, NoneAssumption
<1>2. Live(NewEntry(1, t, n, FALSE)) /\ ~Live(Tombstone(n, t))
  BY ValuesAssumption, WritesType, TombstoneType
<1>3. Reindexed(n, d, v, t)[Idx(u)] =
         IF n \notin indexed THEN d[Idx(u)]
         ELSE IF v # None /\ Idx(u) = Idx(v) THEN NewEntry(1, t, n, FALSE)
         ELSE IF Old(d) # None /\ Idx(u) = Idx(Old(d)) /\ d[Idx(u)] # None THEN Tombstone(n, t)
         ELSE d[Idx(u)]
  BY <1>1 DEF Reindexed
<1>4. Live(d[Idx(u)]) => d[Idx(u)] # None
  BY DEF Live
<1>5. CASE n \notin indexed
  BY <1>3, <1>5
<1>6. CASE n \in indexed /\ u = v
  BY <1>1, <1>2, <1>3, <1>6
<1>7. CASE n \in indexed /\ u # v
  <2>1. CASE Live(d[Idx(u)]) /\ Old(d) = u
    BY <1>1, <1>2, <1>3, <1>4, <1>7, <2>1
  <2>2. CASE ~Live(d[Idx(u)])
    BY <1>1, <1>2, <1>3, <1>7, <2>2
  <2> QED
    BY <1>7, <2>1, <2>2
<1> QED
  BY <1>5, <1>6, <1>7

\* What an operation leaves: an index of what it holds, whose expiry is a time.
Sound(n, f, t) ==
    /\ Live(f[Exp]) => f[Exp].value \in Nat
    /\ n \notin indexed => \A v \in UserValues : f[Idx(v)] = None
    /\ n \in indexed => Indexes(f, t)

\* put.
LEMMA PutSound ==
    ASSUME TypeInv, now < start.maxNow, NEW n \in Nodes, IndexInv(n), NEW v \in UserValues,
           NEW ttl \in TTLs \cup {None}, NEW f, f = AfterPut(n, data[n], v, ttl, Reading(n))
    PROVE  /\ Sound(n, f, Reading(n))
           /\ f[Val].ts = Reading(n) /\ (ttl = None => ~Live(f[Exp]))
<1>1. PICK d \in Digest, t \in Nat : d = data[n] /\ t = Reading(n)
  BY DataType, ReadingType
<1>2. PICK g : g = Reindexed(n, d, v, t)
  OBVIOUS
<1>3. /\ f[Val] = NewEntry(v, t, n, FALSE) /\ f[Exp] = WithExpiry(n, d, ttl, t)
      /\ \A u \in UserValues : f[Idx(u)] = g[Idx(u)]
  BY <1>1, <1>2, KeysDiffer DEF AfterPut, Reindexed
<1>4. WrittenAt(f[Val], n, t) /\ Live(f[Val]) /\ f[Val].value = v
  <2>1. v \in Values
    BY KeysAssumption
  <2>2. PICK x : x = NewEntry(v, t, n, FALSE)
    OBVIOUS
  <2>3. WrittenAt(x, n, t) /\ Live(x) /\ x.value = v
    BY <2>1, <2>2, WritesType
  <2> QED
    BY <1>3, <2>2, <2>3
<1>5. f[Val].ts = Reading(n) /\ Old(f) = v
  BY <1>1, <1>4 DEF WrittenAt, Old
<1>6. (Live(f[Exp]) => f[Exp].value \in Nat) /\ (ttl = None => ~Live(f[Exp]))
  <2>1. CASE ttl = None
    BY <1>3, <2>1, TombstoneType DEF WithExpiry
  <2>2. CASE ttl \in TTLs
    <3>1. f[Exp] = NewEntry(t + ttl, t, n, FALSE)
      BY <1>3, <2>2, TTLAssumption DEF WithExpiry
    <3>2. t + ttl \in Nat /\ t + ttl \in Values
      BY <1>1, <2>2, ExpiryWrites
    <3> QED
      BY <2>2, <3>1, <3>2, TTLAssumption, WritesType
  <2> QED
    BY <2>1, <2>2
<1>7. n \notin indexed => \A u \in UserValues : f[Idx(u)] = None
  BY <1>1, <1>2, <1>3, ReindexedFacts DEF IndexInv
<1>8. n \in indexed => Indexes(f, Reading(n))
  <2>1. ASSUME n \in indexed, NEW u \in UserValues
        PROVE  Live(f[Idx(u)]) <=> u = v
    <3>1. Live(d[Idx(u)]) => Old(d) = u
      BY <1>1, <2>1 DEF IndexInv, Indexes
    <3> QED
      BY <1>2, <1>3, <2>1, <3>1, ReindexedFacts
  <2> QED
    BY <1>5, <2>1 DEF Indexes
<1> QED
  BY <1>5, <1>6, <1>7, <1>8 DEF Sound

\* delete, and the reaping of what has expired.
LEMMA DeleteSound ==
    ASSUME TypeInv, NEW n \in Nodes, IndexInv(n), NEW f, f = AfterDelete(n, data[n], Reading(n))
    PROVE  Sound(n, f, Reading(n)) /\ ~Live(f[Val])
<1>1. PICK d \in Digest, t \in Nat : d = data[n] /\ t = Reading(n)
  BY DataType, ReadingType
<1>2. PICK g : g = Reindexed(n, d, None, t)
  OBVIOUS
<1>3. /\ Val \in Keys /\ Exp \in Keys /\ Val # Exp
      /\ \A w : Idx(w) # Val /\ Idx(w) # Exp
  BY KeysDiffer DEF Idx, Val, Exp
<1>4. g[Val] = d[Val] /\ g[Exp] = d[Exp] /\ g = [k \in Keys |-> g[k]]
  BY <1>2, <1>3 DEF Reindexed
<1>5. f = [g EXCEPT ![Val] = IF @ = None THEN None ELSE Tombstone(n, t),
                    ![Exp] = IF Live(@) THEN Tombstone(n, t) ELSE @]
  BY <1>1, <1>2 DEF AfterDelete
<1>6. /\ f[Val] = IF d[Val] = None THEN None ELSE Tombstone(n, t)
      /\ f[Exp] = IF Live(d[Exp]) THEN Tombstone(n, t) ELSE d[Exp]
      /\ \A u \in UserValues : f[Idx(u)] = g[Idx(u)]
  BY <1>3, <1>4, <1>5, KeysDiffer
<1>7. ~Live(Tombstone(n, t)) /\ ~Live(None)
  BY TombstoneType DEF Live
<1>8. ~Live(f[Val]) /\ ~Live(f[Exp]) /\ Old(f) = None
  BY <1>6, <1>7 DEF Old
<1>9. n \notin indexed => \A u \in UserValues : f[Idx(u)] = None
  BY <1>1, <1>2, <1>6, ReindexedFacts DEF IndexInv
<1>10. n \in indexed => Indexes(f, Reading(n))
  <2>1. ASSUME n \in indexed, NEW u \in UserValues
        PROVE  ~Live(f[Idx(u)]) /\ u # None
    <3>1. Live(d[Idx(u)]) => Old(d) = u
      BY <1>1, <2>1 DEF IndexInv, Indexes
    <3>2. u # None
      BY KeysAssumption, NoneAssumption
    <3> QED
      BY <1>2, <1>6, <2>1, <3>1, <3>2, ReindexedFacts
  <2> QED
    BY <1>8, <2>1 DEF Indexes
<1> QED
  BY <1>8, <1>9, <1>10 DEF Sound

\* What has expired stays so as time passes, and on clocks that are ahead.
LEMMA StaysExpired ==
    ASSUME NEW d, NEW t \in Nat, NEW u \in Nat, t <= u, Live(d[Exp]) => d[Exp].value \in Nat,
           Expired(d, t)
    PROVE  Expired(d, u)
BY DEF Expired

\* create_index: the index has what scan shows.
LEMMA BackfillSound ==
    ASSUME TypeInv, NEW n \in Nodes, IndexInv(n), NEW f, f = Backfilled(n, data[n], Reading(n))
    PROVE  /\ f[Val] = data[n][Val] /\ f[Exp] = data[n][Exp]
           /\ Indexes(f, Reading(n))
<1>1. PICK d \in Digest, t \in Nat : d = data[n] /\ t = Reading(n)
  BY DataType, ReadingType
<1>2. /\ Val \in Keys /\ Exp \in Keys
      /\ \A w : Idx(w) # Val /\ Idx(w) # Exp
  BY KeysDiffer DEF Idx, Val, Exp
<1>3. f[Val] = d[Val] /\ f[Exp] = d[Exp]
  BY <1>1, <1>2 DEF Backfilled
<1>4. Old(f) = Old(d) /\ (Expired(f, t) <=> Expired(d, t))
  BY <1>3 DEF Old, Expired
<1>5. Live(NewEntry(1, t, n, FALSE)) /\ ~Live(None)
  BY ValuesAssumption, WritesType DEF Live
<1>6. ASSUME NEW u \in UserValues
      PROVE  /\ Live(f[Idx(u)]) => Old(f) = u
             /\ Old(f) = u => Live(f[Idx(u)]) \/ Expired(f, t)
  <2>1. f[Idx(u)] = IF Old(d) = u /\ ~Expired(d, t) THEN NewEntry(1, t, n, FALSE) ELSE d[Idx(u)]
    <3>1. (\E v \in Scan(d, t) : Idx(u) = Idx(v)) <=> Old(d) = u /\ ~Expired(d, t)
      BY KeysDiffer DEF Scan
    <3> QED
      BY <1>1, <3>1, KeysDiffer DEF Backfilled
  <2>2. Live(d[Idx(u)]) => Old(d) = u
    BY <1>1, <1>5 DEF IndexInv, Indexes
  <2> QED
    BY <1>4, <1>5, <2>1, <2>2
<1> QED
  BY <1>1, <1>3, <1>6 DEF Indexes

\* What is not from the future was not stored at the next instant.
LEMMA EnduresMore ==
    ASSUME TypeInv, NEW n \in Nodes, Own(n), NEW p \in Nodes, Endures(data[p], lasting),
           NEW L \in SUBSET (lasting \cup {Reading(n)})
    PROVE  Endures(data[p], L)
<1>1. SUFFICES ASSUME Live(data[p][Val]), data[p][Val].ts \in L
               PROVE  ~Live(data[p][Exp])
  BY DEF Endures
<1>2. data[p][Val] # None
  BY <1>1 DEF Live
<1>3. data[p][Val].ts <= Clock(n) /\ data[p][Val].ts \in Nat
  BY <1>2, OwnTime, KeysDiffer
<1>4. data[p][Val].ts \in lasting
  BY <1>1, <1>3, ReadingType
<1> QED
  BY <1>1, <1>4 DEF Endures

\* The writer's operations: each keeps the chain, the expiries and the index.
LEMMA SoloWrite ==
    ASSUME TypeInv, NEW n \in Nodes, SoloInv(n), Operate, indexed' \in {indexed, indexed \cup {n}},
           UNCHANGED <<start, requests, wire>>, lasting' \subseteq lasting \cup {Reading(n)},
           NEW f, Rewritten(n, data[n], f, Reading(n)), data' = [data EXCEPT ![n] = f],
           Endures(f, lasting'), Live(f[Exp]) => f[Exp].value \in Nat,
           n \notin indexed' => \A v \in UserValues : f[Idx(v)] = None,
           n \in indexed' => Indexes(f, Reading(n))
    PROVE  SoloInv(n)'
<1>1. /\ now \in Nat /\ now' = now + 1 /\ data \in [Nodes -> Digest] /\ data'[n] = f
      /\ Own(n) /\ \A p \in Nodes : data'[p] = IF p = n THEN f ELSE data[p]
  BY TimeType DEF Operate, TypeInv, TypeOK, SoloInv
<1>2. Chain(n)' /\ Own(n)'
  <2>1. Chain(n)'
    BY <1>1, ChainWrite DEF SoloInv
  <2>2. ASSUME NEW p \in Nodes, NEW k \in Keys, data'[p][k] # None
        PROVE  data'[p][k].origin = n
    BY <1>1, <2>2 DEF Own, Rewritten, WrittenAt
  <2> QED
    BY <2>1, <2>2 DEF Own
<1>3. Clock(n)' = Reading(n) /\ lasting' \subseteq 0..Clock(n)'
  <2>1. Clock(n)' = Reading(n)
    BY <1>1, ReadingType DEF Clock
  <2>2. lasting \subseteq 0..Clock(n)
    BY DEF SoloInv
  <2> QED
    BY <2>1, <2>2, ReadingType
<1>4. NoExpiry'
  <2>1. ASSUME NEW p \in Nodes
        PROVE  Endures(data'[p], lasting')
    <3>1. CASE p = n
      BY <1>1, <3>1
    <3>2. CASE p # n
      <4>1. Endures(data[p], lasting)
        BY DEF SoloInv, NoExpiry
      <4>2. Endures(data[p], lasting')
        BY <1>1, <4>1, EnduresMore
      <4> QED
        BY <1>1, <3>2, <4>2
    <3> QED
      BY <3>1, <3>2
  <2> QED
    BY <2>1 DEF NoExpiry
<1>5. IndexInv(n)'
  <2>1. n \in indexed' => Indexes(data'[n], Clock(n)')
    BY <1>1, <1>3
  <2>2. (Indexes(data[n], Clock(n)))' <=> Indexes(data'[n], Clock(n)')
    BY DEF Indexes, Old, Expired
  <2> QED
    BY <1>1, <2>1, <2>2 DEF IndexInv
<1> QED
  BY <1>2, <1>3, <1>4, <1>5 DEF SoloInv

\* put with and without a ttl, delete, the reaping and create_index.
LEMMA SoloLocal ==
    ASSUME TypeInv, NEW n \in Nodes, SoloInv(n),
           \/ \E v \in start.values, ttl \in start.ttls : Put(n, v, ttl)
           \/ Delete(n) \/ Reap(n) \/ CreateIndex(n)
    PROVE  SoloInv(n)'
<1>1. /\ Operate /\ UNCHANGED <<start, requests, wire>> /\ lasting' \subseteq lasting \cup {Reading(n)}
      /\ data[n] \in Digest /\ Reading(n) \in Nat /\ data \in [Nodes -> Digest]
      /\ start.values \subseteq UserValues /\ start.ttls \subseteq TTLs \cup {None} /\ IndexInv(n)
  BY LocalStep, DataType, ReadingType, StartsAssumption DEF TypeInv, TypeOK, Start, SoloInv
<1>2. now' = now + 1 /\ now < start.maxNow
  BY <1>1 DEF Operate
<1>3. ASSUME NEW v \in start.values, NEW ttl \in start.ttls, Put(n, v, ttl)
      PROVE  SoloInv(n)'
  <2>1. PICK f : f = AfterPut(n, data[n], v, ttl, Reading(n))
    OBVIOUS
  <2>2. /\ data' = [data EXCEPT ![n] = f] /\ indexed' = indexed
        /\ lasting' = IF ttl = None THEN lasting \cup {Reading(n)} ELSE lasting
    BY <1>1, <1>2, <1>3, <2>1 DEF Put, Lasts
  <2>3. Rewritten(n, data[n], f, Reading(n))
    BY <1>1, <1>2, <2>1, PutFacts
  <2>4. Sound(n, f, Reading(n)) /\ f[Val].ts = Reading(n) /\ (ttl = None => ~Live(f[Exp]))
    BY <1>1, <1>2, <2>1, PutSound
  <2>5. Reading(n) \notin lasting
    BY <1>1, ReadingType DEF SoloInv
  <2>6. Endures(f, lasting')
    BY <2>2, <2>4, <2>5 DEF Endures
  <2> QED
    BY <1>1, <2>2, <2>3, <2>4, <2>6, SoloWrite DEF Sound
<1>4. ASSUME Delete(n) \/ Reap(n)
      PROVE  SoloInv(n)'
  <2>1. PICK f : f = AfterDelete(n, data[n], Reading(n))
    OBVIOUS
  <2>2. data' = [data EXCEPT ![n] = f] /\ indexed' = indexed
    BY <1>1, <1>2, <1>4, <2>1 DEF Delete, Reap
  <2>3. Rewritten(n, data[n], f, Reading(n))
    BY <1>1, <2>1, DeleteWrites
  <2>4. Sound(n, f, Reading(n)) /\ ~Live(f[Val])
    BY <1>1, <2>1, DeleteSound
  <2>5. Endures(f, lasting')
    BY <2>4 DEF Endures
  <2> QED
    BY <1>1, <2>2, <2>3, <2>4, <2>5, SoloWrite DEF Sound
<1>5. ASSUME CreateIndex(n)
      PROVE  SoloInv(n)'
  <2>1. PICK f : f = Backfilled(n, data[n], Reading(n))
    OBVIOUS
  <2>2. data' = [data EXCEPT ![n] = f] /\ indexed' = indexed \cup {n} /\ lasting' = lasting
    BY <1>1, <1>2, <1>5, <2>1 DEF CreateIndex, Backfilled
  <2>3. Rewritten(n, data[n], f, Reading(n))
    BY <1>1, <2>1, BackfillWrites
  <2>4. f[Val] = data[n][Val] /\ f[Exp] = data[n][Exp] /\ Indexes(f, Reading(n))
    BY <1>1, <2>1, BackfillSound
  <2>5. Endures(f, lasting')
    BY <2>2, <2>4 DEF Endures, SoloInv, NoExpiry
  <2>6. Live(f[Exp]) => f[Exp].value \in Nat
    BY <1>1, <2>4 DEF IndexInv
  <2> QED
    BY <1>1, <2>2, <2>3, <2>4, <2>5, <2>6, SoloWrite
<1> QED
  BY <1>3, <1>4, <1>5

\* Time passes.
LEMMA SoloTick ==
    ASSUME TypeInv, NEW n \in Nodes, SoloInv(n), now' \in {now, now + 1},
           UNCHANGED <<start, data, indexed, requests, wire, lasting>>
    PROVE  SoloInv(n)'
<1>1. /\ Clock(n) \in Nat /\ Clock(n)' \in Nat /\ Clock(n) <= Clock(n)'
      /\ lasting \subseteq 0..Clock(n)' /\ IndexInv(n)
  <2>1. now \in Nat /\ now' \in Nat /\ now <= now' /\ lasting \subseteq 0..Clock(n) /\ IndexInv(n)
    BY TimeType DEF SoloInv
  <2>2. Clock(n)' = now' + start.skew[n] /\ start.skew[n] \in Nat /\ Clock(n) = now + start.skew[n]
    BY ReadingType DEF Clock
  <2> QED
    BY <2>1, <2>2
<1>2. Own(n)' /\ Chain(n)' /\ NoExpiry'
  <2>1. Chain(n)'
    BY DEF SoloInv, Chain, Below
  <2>2. NoExpiry'
    BY DEF SoloInv, NoExpiry, Endures
  <2>3. Own(n)'
    BY DEF SoloInv, Own
  <2> QED
    BY <2>1, <2>2, <2>3
<1>3. Expired(data[n], Clock(n)) => Expired(data[n], Clock(n)')
  BY <1>1, StaysExpired DEF IndexInv
<1>4. n \in indexed => Indexes(data[n], Clock(n)')
  BY <1>1, <1>3 DEF IndexInv, Indexes
<1>5. (Indexes(data[n], Clock(n)))' <=> Indexes(data[n], Clock(n)')
  BY DEF Indexes, Old, Expired
<1>6. IndexInv(n)'
  BY <1>1, <1>4, <1>5 DEF IndexInv
<1> QED
  BY <1>1, <1>2, <1>6 DEF SoloInv

\* Gossip.
LEMMA SoloReplicate ==
    ASSUME TypeInv, NEW n \in Nodes, SoloInv(n), NEW a \in Nodes, NEW b \in Nodes, Replicate(a, b)
    PROVE  SoloInv(n)'
<1>1. UNCHANGED <<start, now, indexed, requests, wire, lasting>> /\ Chain(n) /\ Clock(n)' = Clock(n)
  BY DEF Replicate, SoloInv, Clock
<1>2. data'[n] = data[n] /\ \A p \in Nodes : \E q \in Nodes : data'[p] = data[q]
  BY <1>1, ChainReplicate
<1>3. \A p \in Nodes : Below(data'[p], data'[n])
  BY <1>1, <1>2 DEF Chain
<1>4. \A p, q \in Nodes : Below(data'[p], data'[q]) \/ Below(data'[q], data'[p])
  BY <1>1, <1>2 DEF Chain
<1>5. \A p \in Nodes : Endures(data'[p], lasting')
  BY <1>1, <1>2 DEF SoloInv, NoExpiry
<1>6. (Indexes(data[n], Clock(n)))' <=> Indexes(data'[n], Clock(n)')
  BY DEF Indexes, Old, Expired
<1>7. IndexInv(n)'
  BY <1>1, <1>2, <1>6 DEF SoloInv, IndexInv
<1>8. Chain(n)' /\ NoExpiry'
  BY <1>3, <1>4, <1>5 DEF Chain, NoExpiry
<1>9. Own(n)'
  BY <1>2 DEF SoloInv, Own
<1> QED
  BY <1>1, <1>7, <1>8, <1>9 DEF SoloInv

\* Every step keeps what one writer promises.
LEMMA SoloStep == ASSUME TypeInv, SoloInvs, [Next]_vars PROVE SoloInvs'
<1>1. start' = start
  BY TypeStep
<1> SUFFICES ASSUME NEW n \in Nodes, Solo(n)
             PROVE  SoloInv(n)'
  BY <1>1 DEF SoloInvs, Solo
<1>2. /\ SoloInv(n) /\ start.locals = {n} /\ start.quorums = {}
      /\ requests = <<>> /\ DOMAIN requests = {} /\ wire = {}
  BY DEF SoloInvs, SoloInv, Solo
<1>3. ASSUME NEW m \in Nodes,
             \/ \E v \in start.values, ttl \in start.ttls : Put(m, v, ttl)
             \/ Delete(m) \/ Reap(m) \/ CreateIndex(m)
      PROVE  SoloInv(n)'
  <2>1. m = n
    BY <1>2, <1>3, LocalStep
  <2> QED
    BY <1>2, <1>3, <2>1, SoloLocal
<1>4. ASSUME NEW m \in Nodes,
             QuorumGet(m) \/ \E v \in start.values, ttl \in start.ttls : QuorumPut(m, v, ttl)
      PROVE  FALSE
  BY <1>2, <1>4 DEF QuorumGet, QuorumPut, Ask
<1>5. ASSUME NEW a \in Nodes, NEW b \in Nodes, Replicate(a, b)
      PROVE  SoloInv(n)'
  BY <1>2, <1>5, SoloReplicate
<1>6. CASE Tick \/ UNCHANGED vars
  BY <1>2, <1>6, SoloTick DEF Tick, Operate, vars
<1> QED
  BY <1>2, <1>3, <1>4, <1>5, <1>6 DEF Next

\* The initial states.
LEMMA SoloInit == Init => SoloInvs
<1> SUFFICES ASSUME Init, NEW n \in Nodes
             PROVE  SoloInv(n)
  BY DEF SoloInvs
<1>1. /\ \A p \in Nodes, k \in Keys : data[p][k] = None
      /\ requests = <<>> /\ wire = {} /\ lasting = {} /\ indexed = {}
  BY DEF Init
<1>2. \A p \in Nodes : ~Live(data[p][Val]) /\ ~Live(data[p][Exp])
  BY <1>1, KeysDiffer DEF Live
<1>3. Chain(n)
  BY <1>1 DEF Chain, Below
<1>4. NoExpiry /\ IndexInv(n)
  BY <1>1, <1>2, KeysDiffer DEF NoExpiry, Endures, IndexInv
<1> QED
  BY <1>1, <1>3, <1>4 DEF SoloInv, Own

\* TypeInv and SoloInvs together are inductive.
LEMMA SoloInvariant == Spec => [](TypeInv /\ SoloInvs)
<1>1. Init => TypeInv /\ SoloInvs
  BY KVInit, SoloInit
<1>2. TypeInv /\ SoloInvs /\ [Next]_vars => (TypeInv /\ SoloInvs)'
  BY TypeStep, SoloStep
<1> QED
  BY <1>1, <1>2, PTL DEF Spec

\* As long as one node is the only writer and uses put, no replica takes a value
\* for expired that was stored without a ttl: whatever was stored, deleted and
\* reaped before, and in whatever order the replicas heard of it.
THEOREM PutsLastCorrect == Spec => []PutsLast
<1>1. TypeInv /\ SoloInvs => PutsLast
  <2> SUFFICES ASSUME TypeInv, SoloInvs, start.quorums = {}, Cardinality(start.locals) = 1
               PROVE  OnlyTtlExpires
    BY DEF PutsLast
  <2>1. start.locals \subseteq Nodes
    BY StartsAssumption DEF TypeInv, TypeOK, Start
  <2>2. PICK n : start.locals = {n}
    <3>1. IsFiniteSet(start.locals)
      BY <2>1, FiniteAssumption, FS_Subset
    <3> QED
      BY <3>1, FS_Singleton
  <2>3. SoloInv(n)
    BY <2>1, <2>2 DEF SoloInvs, Solo
  <2> QED
    BY <2>3 DEF SoloInv, NoExpiry, Endures, OnlyTtlExpires, Expired
<1> QED
  BY <1>1, SoloInvariant, PTL

\* query_index answers what scan shows, at a node that is the only writer and has
\* called create_index, at whatever time it did, and at its up-to-date replicas
\* whose clocks are not behind.
THEOREM IndexAgreesCorrect == Spec => []IndexAgrees
<1>1. TypeInv /\ SoloInvs => IndexAgrees
  <2> SUFFICES ASSUME TypeInv, SoloInvs, NEW n \in start.locals, NEW p \in Nodes,
                      start.locals = {n}, start.quorums = {}, n \in indexed, data[p] = data[n],
                      start.skew[p] >= start.skew[n], NEW v \in UserValues
               PROVE  QueryIndex(data[p], v, Clock(p)) <=> v \in Scan(data[p], Clock(p))
    BY DEF IndexAgrees
  <2>1. n \in Nodes
    BY StartsAssumption DEF TypeInv, TypeOK, Start
  <2>2. Indexes(data[n], Clock(n)) /\ (Live(data[n][Exp]) => data[n][Exp].value \in Nat)
    BY <2>1 DEF SoloInvs, Solo, SoloInv, IndexInv
  <2>3. Clock(n) \in Nat /\ Clock(p) \in Nat /\ Clock(n) <= Clock(p)
    BY <2>1, ReadingType, TimeType
  <2>4. Expired(data[n], Clock(n)) => Expired(data[n], Clock(p))
    BY <2>2, <2>3, StaysExpired
  <2>5. /\ Live(data[n][Idx(v)]) => Old(data[n]) = v
        /\ Old(data[n]) = v => Live(data[n][Idx(v)]) \/ Expired(data[n], Clock(p))
    BY <2>2, <2>4 DEF Indexes
  <2> QED
    BY <2>5 DEF QueryIndex, Scan
<1> QED
  BY <1>1, SoloInvariant, PTL
=============================================================================
