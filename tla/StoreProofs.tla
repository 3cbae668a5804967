----------------------------- MODULE StoreProofs -----------------------------
(***************************************************************************)
(* Proofs about Store, about its history of writes and purges and about    *)
(* the store with anti-entropy, for every set of nodes, keys and values,   *)
(* every skew of the clocks, every way to count buckets and every bound.   *)
(*                                                                         *)
(* That versions identify writes is not inductive: nothing in it keeps a   *)
(* node from minting a version again.  The strengthening is Fresh: every   *)
(* entry that exists is older than the next version of its origin.         *)
(***************************************************************************)
EXTENDS StoreHistory, AntiEntropy, TLAPS

Fresh ==
    \A d \in Digests : \A k \in Keys :
        d[k] # None => d[k].ts < NextTs(Clock(d[k].origin), highest[d[k].origin])

\* What every step but a write does to the entries that exist: none is new.
NothingNew ==
    \A d \in Digests' : \A k \in Keys :
        d[k] # None => \E f \in Digests : f[k] = d[k]

\* The bound of Fresh never falls: not when a node forgets _highest_ts either.
NextNeverFalls ==
    \A n \in Nodes :
        NextTs(Clock(n), highest[n]) <= NextTs(now' + Skew[n], highest'[n])

\* A digest in flight or on a replica is a digest.
LEMMA DigestsType == TypeOK => Digests \subseteq Digest
BY DEF TypeOK, Digests, Message

\* Merging yields, per key, one of the two entries it was given.
LEMMA MergeDigestType ==
    ASSUME NEW d \in Digest, NEW f \in Digest
    PROVE  /\ MergeDigest(d, f) \in Digest
           /\ \A k \in Keys : MergeDigest(d, f)[k] \in {d[k], f[k]}
BY DEF MergeDigest, MergeEntry, Digest

\* A timestamp that merge_entry raises _highest_ts to is a timestamp, and is
\* at least the old one.
LEMMA OwnStampsType ==
    ASSUME NEW n \in Nodes, NEW h \in Nat, NEW d \in Digest, NEW f \in Digest,
           NEW m \in OwnStamps(n, h, d, f), IsMaxOf(OwnStamps(n, h, d, f), m)
    PROVE  m \in Nat /\ h <= m
BY DEF OwnStamps, IsMaxOf, Digest, Entry

\* _next_version is past both the clock and every version of our own.
LEMMA NextTsType ==
    ASSUME NEW c \in Nat, NEW h \in Nat
    PROVE  NextTs(c, h) \in Nat /\ NextTs(c, h) >= c /\ NextTs(c, h) > h
BY DEF NextTs

\* It is monotone in both.
LEMMA NextTsMonotone ==
    ASSUME NEW c \in Nat, NEW h \in Nat, NEW c2 \in Nat, NEW h2 \in Nat,
           c <= c2, h <= h2 \/ h < c2
    PROVE  NextTs(c, h) <= NextTs(c2, h2)
BY DEF NextTs

-----------------------------------------------------------------------------
(* Type correctness *)

\* Every step of the store keeps the types.
LEMMA TypeStep == TypeOK /\ [Next]_vars => TypeOK'
<1> SUFFICES ASSUME TypeOK, [Next]_vars PROVE TypeOK'
  OBVIOUS
<1> USE DEF TypeOK
<1>1. ASSUME NEW n \in Nodes, NEW k \in Keys, NEW v \in Values \cup {None},
             NEW b \in BOOLEAN, b => v = None, Commit(n, k, v, b)
      PROVE  TypeOK'
  <2> DEFINE ts == NextTs(Clock(n), highest[n])
             e == NewEntry(v, ts, n, b)
  <2>0. Clock(n) \in Nat /\ highest[n] \in Nat
    BY SkewAssumption DEF Clock
  <2>1. ts \in Nat
    BY <2>0, NextTsType
  <2>2. e \in Entry /\ (IsTombstone(e) => e.value = None)
    BY <2>1, <1>1 DEF NewEntry, Entry, IsTombstone
  <2>3. data' \in [Nodes -> Digest]
    BY <1>1, <2>2 DEF Commit, Digest
  <2>4. \A d \in Digests' : \A j \in Keys :
            d[j] = e \/ \E f \in Digests : d[j] = f[j]
    BY <1>1 DEF Commit, Digests, Digest
  <2> QED
    BY <1>1, <2>1, <2>2, <2>3, <2>4 DEF Commit
<1>2. ASSUME NEW n \in Nodes, NEW targets \in SUBSET (Nodes \ {n}), Gossip(n, targets)
      PROVE  TypeOK'
  <2>1. net' \in SUBSET Message /\ \A m \in net' : m.src # m.dst
    BY <1>2 DEF Gossip, Message
  <2>2. Digests' \subseteq Digests
    BY <1>2 DEF Gossip, Digests, Message
  <2> QED
    BY <1>2, <2>1, <2>2 DEF Gossip
<1>3. ASSUME NEW m \in net, Receive(m) PROVE TypeOK'
  <2> DEFINE n == m.dst
  <2>1. n \in Nodes /\ m.digest \in Digest /\ data[n] \in Digest
    BY DEF Message
  <2>2. data' \in [Nodes -> Digest]
    BY <1>3, <2>1, MergeDigestType DEF Receive
  <2>3. highest' \in [Nodes -> Nat]
    BY <1>3, <2>1, OwnStampsType DEF Receive
  <2>4. \A d \in Digests' : \A j \in Keys : \E f \in Digests : d[j] = f[j]
    BY <1>3, <2>1, MergeDigestType DEF Receive, Digests
  <2> QED
    BY <1>3, <2>2, <2>3, <2>4 DEF Receive
<1>4. ASSUME NEW m \in net, Lose(m) PROVE TypeOK'
  BY <1>4 DEF Lose, Digests
<1>5. ASSUME NEW n \in Nodes, CollectGarbage(n) PROVE TypeOK'
  <2>1. data' \in [Nodes -> Digest]
    BY <1>5 DEF CollectGarbage, Digest
  <2>2. \A d \in Digests' : \A j \in Keys : d[j] = None \/ \E f \in Digests : d[j] = f[j]
    BY <1>5 DEF CollectGarbage, Digests, Digest
  <2> QED
    BY <1>5, <2>1, <2>2 DEF CollectGarbage, IsTombstone
<1>6. ASSUME NEW n \in Nodes, Restart(n) PROVE TypeOK'
  <2>1. data' \in [Nodes -> Digest] /\ highest' \in [Nodes -> Nat] /\ now' \in Nat
    BY <1>6 DEF Restart, TimePasses, Digest, EmptyDigest
  <2>2. \A d \in Digests' : \A j \in Keys : d[j] = None \/ \E f \in Digests : d[j] = f[j]
    BY <1>6 DEF Restart, Digests, EmptyDigest
  <2> QED
    BY <1>6, <2>1, <2>2 DEF Restart, IsTombstone
<1>7. CASE Tick
  BY <1>7 DEF Tick, TimePasses, Digests
<1>8. CASE UNCHANGED vars
  BY <1>8 DEF vars, Digests
<1> QED
  BY <1>1, <1>2, <1>3, <1>4, <1>5, <1>6, <1>7, <1>8 DEF Next, Set, Delete

\* Type correctness is inductive by itself.
THEOREM TypeCorrect == Spec => []TypeOK
<1>1. Init => TypeOK
  BY SkewAssumption DEF Init, TypeOK, Digests, Digest, EmptyDigest, IsTombstone
<1> QED
  BY <1>1, TypeStep, PTL DEF Spec

-----------------------------------------------------------------------------
(* Versions *)

\* A step that writes nothing keeps what it did not touch.
LEMMA NothingNewKeeps ==
    ASSUME TypeOK, TypeOK', Fresh, VersionsIdentifyWrites, NothingNew, NextNeverFalls
    PROVE  Fresh' /\ VersionsIdentifyWrites'
<1>1. VersionsIdentifyWrites'
  BY DEF VersionsIdentifyWrites, NothingNew
<1>2. ASSUME NEW d \in Digests', NEW k \in Keys, d[k] # None
      PROVE  d[k].ts < NextTs(Clock(d[k].origin), highest[d[k].origin])'
  <2>1. PICK f \in Digests : f[k] = d[k]
    BY <1>2 DEF NothingNew
  <2> DEFINE o == f[k].origin
  <2>2. o \in Nodes /\ f[k].ts \in Nat
    BY <2>1, <1>2, DigestsType DEF Digest, Entry
  <2>3. f[k].ts < NextTs(Clock(o), highest[o])
    BY <2>1, <1>2 DEF Fresh
  <2>4. NextTs(Clock(o), highest[o]) <= NextTs(now' + Skew[o], highest'[o])
    BY <2>2 DEF NextNeverFalls
  <2>5. /\ NextTs(Clock(o), highest[o]) \in Nat
        /\ NextTs(now' + Skew[o], highest'[o]) \in Nat
    <3>1. /\ now + Skew[o] \in Nat /\ highest[o] \in Nat
          /\ now' + Skew[o] \in Nat /\ highest'[o] \in Nat
      BY <2>2, SkewAssumption DEF TypeOK
    <3> QED
      BY <3>1, NextTsType DEF Clock
  <2> QED
    BY <2>1, <2>2, <2>3, <2>4, <2>5 DEF Clock
<1> QED
  BY <1>1, <1>2 DEF Fresh

\* If a clock does not go back and no _highest_ts falls, neither do the bounds.
LEMMA MonotoneNext ==
    ASSUME TypeOK, TypeOK', now' >= now, \A n \in Nodes : highest'[n] >= highest[n]
    PROVE  NextNeverFalls
<1>1. \A n \in Nodes : /\ now + Skew[n] \in Nat /\ highest[n] \in Nat
                        /\ now' + Skew[n] \in Nat /\ highest'[n] \in Nat
                        /\ now + Skew[n] <= now' + Skew[n]
  BY SkewAssumption DEF TypeOK
<1> QED
  BY <1>1, NextTsMonotone DEF NextNeverFalls, Clock

\* The inductive invariant of VersionsIdentifyWrites.
VersionsInv == TypeOK /\ Fresh /\ VersionsIdentifyWrites

\* The new entry of a write, and that it is the only one.
LEMMA CommitFacts ==
    ASSUME TypeOK, NEW n \in Nodes, NEW k \in Keys, NEW v, NEW b, Commit(n, k, v, b)
    PROVE  LET ts == NextTs(Clock(n), highest[n])
               e == NewEntry(v, ts, n, b)
           IN  /\ ts \in Nat /\ ts > highest[n] /\ ts >= Clock(n)
               /\ e.ts = ts /\ e.origin = n /\ data'[n][k] = e
               /\ highest'[n] = ts
               /\ \A p \in Nodes \ {n} : highest'[p] = highest[p]
               /\ \A d \in Digests' : \A j \in Keys :
                     (d[j] = e /\ j = k) \/ \E f \in Digests : d[j] = f[j]
<1>1. Clock(n) \in Nat /\ highest[n] \in Nat
  BY SkewAssumption DEF Clock, TypeOK
<1>2. \A d \in Digests' : \A j \in Keys :
          \/ d[j] = NewEntry(v, NextTs(Clock(n), highest[n]), n, b) /\ j = k
          \/ \E f \in Digests : d[j] = f[j]
  BY DEF Commit, Digests, Digest, TypeOK
<1> QED
  BY <1>1, <1>2, NextTsType DEF Commit, TypeOK, Digest, NewEntry

\* A write is stored under a version that no entry has.
LEMMA CommitKeepsVersions ==
    ASSUME VersionsInv, TypeOK', NEW n \in Nodes, NEW k \in Keys,
           NEW v, NEW b, Commit(n, k, v, b)
    PROVE  Fresh' /\ VersionsIdentifyWrites'
<1> DEFINE ts == NextTs(Clock(n), highest[n])
           e == NewEntry(v, ts, n, b)
<1> USE DEF VersionsInv
<1>1. /\ ts \in Nat /\ ts > highest[n] /\ highest'[n] = ts
      /\ \A p \in Nodes \ {n} : highest'[p] = highest[p]
  BY CommitFacts
<1>2. e.ts = ts /\ e.origin = n
  BY DEF NewEntry
<1>3. \A d \in Digests' : \A j \in Keys :
          \/ d[j] = e /\ j = k
          \/ \E f \in Digests : d[j] = f[j]
  BY CommitFacts
<1>4. \A f \in Digests : \A j \in Keys :
          f[j] # None /\ f[j].origin = n => f[j].ts < ts /\ f[j].ts \in Nat
  BY DigestsType DEF Fresh, Digest, Entry
<1>5. VersionsIdentifyWrites'
  BY <1>1, <1>2, <1>3, <1>4 DEF VersionsIdentifyWrites
<1>6. Fresh'
  <2>1. \A p \in Nodes : /\ NextTs(Clock(p), highest[p]) \in Nat
                          /\ NextTs(Clock(p), highest[p])' \in Nat
                          /\ NextTs(Clock(p), highest[p]) <= NextTs(Clock(p), highest[p])'
    <3>1. \A p \in Nodes : /\ Clock(p) \in Nat /\ Clock(p)' = Clock(p)
                            /\ highest[p] \in Nat /\ highest'[p] \in Nat
                            /\ highest[p] <= highest'[p]
      <4>1. now \in Nat /\ now' = now /\ \A p \in Nodes : Skew[p] \in Nat
        BY SkewAssumption DEF Commit, TypeOK
      <4>2. \A p \in Nodes : highest[p] \in Nat /\ highest'[p] \in Nat
        BY DEF TypeOK
      <4> QED
        BY <1>1, <4>1, <4>2 DEF Clock
    <3>2. ASSUME NEW p \in Nodes
          PROVE  NextTs(Clock(p), highest[p]) <= NextTs(Clock(p)', highest'[p])
      BY <3>1, NextTsMonotone
    <3> QED
      BY <3>1, <3>2, NextTsType
  <2>2. ts < NextTs(Clock(n), highest[n])'
    <3>1. Clock(n)' \in Nat /\ highest'[n] \in Nat
      <4>1. now' \in Nat /\ Skew[n] \in Nat
        BY SkewAssumption DEF TypeOK
      <4> QED
        BY <1>1, <4>1 DEF Clock
    <3> QED
      BY <1>1, <3>1, NextTsType
  <2>3. ASSUME NEW d \in Digests', NEW j \in Keys, d[j] # None
        PROVE  d[j].ts < NextTs(Clock(d[j].origin), highest[d[j].origin])'
    <3>1. CASE d[j] = e
      BY <3>1, <1>2, <2>2
    <3>2. CASE \E f \in Digests : d[j] = f[j]
      <4>1. PICK f \in Digests : d[j] = f[j]
        BY <3>2
      <4>2. f[j].origin \in Nodes /\ f[j].ts \in Nat
        BY <4>1, <2>3, DigestsType DEF Digest, Entry
      <4>3. f[j].ts < NextTs(Clock(f[j].origin), highest[f[j].origin])
        BY <4>1, <2>3 DEF Fresh
      <4> QED
        BY <4>1, <4>2, <4>3, <2>1
    <3> QED
      BY <3>1, <3>2, <1>3
  <2> QED
    BY <2>3 DEF Fresh
<1> QED
  BY <1>5, <1>6

\* The steps that are not writes.
OtherStep ==
    \/ \E n \in Nodes : \E targets \in SUBSET (Nodes \ {n}) : Gossip(n, targets)
    \/ \E m \in net : Receive(m) \/ Lose(m)
    \/ \E n \in Nodes : CollectGarbage(n) \/ Restart(n)
    \/ Tick
    \/ UNCHANGED vars

\* They make no new entry.
LEMMA OtherStepsNothingNew ==
    ASSUME TypeOK, TypeOK', OtherStep
    PROVE  NothingNew /\ NextNeverFalls
<1>1. ASSUME NEW n \in Nodes, NEW targets \in SUBSET (Nodes \ {n}), Gossip(n, targets)
      PROVE  NothingNew /\ NextNeverFalls
  <2>1. NothingNew
    BY <1>1 DEF Gossip, Digests, NothingNew
  <2> QED
    BY <1>1, <2>1, MonotoneNext DEF Gossip, TypeOK
<1>2. ASSUME NEW m \in net, Receive(m)
      PROVE  NothingNew /\ NextNeverFalls
  <2> DEFINE n == m.dst
  <2>1. n \in Nodes /\ m.digest \in Digest /\ data[n] \in Digest /\ highest[n] \in Nat
    BY DEF Message, TypeOK
  <2>2. NothingNew
    BY <1>2, <2>1, MergeDigestType DEF Receive, Digests, NothingNew, TypeOK
  <2>3. \A p \in Nodes : highest'[p] >= highest[p]
    BY <1>2, <2>1, OwnStampsType DEF Receive, TypeOK
  <2> QED
    BY <1>2, <2>2, <2>3, MonotoneNext DEF Receive, TypeOK
<1>3. ASSUME NEW m \in net, Lose(m)
      PROVE  NothingNew /\ NextNeverFalls
  <2>1. NothingNew
    BY <1>3 DEF Lose, Digests, NothingNew
  <2> QED
    BY <1>3, <2>1, MonotoneNext DEF Lose, TypeOK
<1>4. ASSUME NEW n \in Nodes, CollectGarbage(n)
      PROVE  NothingNew /\ NextNeverFalls
  <2>1. NothingNew
    BY <1>4 DEF CollectGarbage, Digests, NothingNew, TypeOK
  <2> QED
    BY <1>4, <2>1, MonotoneNext DEF CollectGarbage, TypeOK
<1>5. ASSUME NEW n \in Nodes, Restart(n)
      PROVE  NothingNew /\ NextNeverFalls
  <2>1. NothingNew
    BY <1>5 DEF Restart, Digests, NothingNew, TypeOK, EmptyDigest
  <2>2. NextNeverFalls
    <3>1. ASSUME NEW p \in Nodes
          PROVE  /\ now + Skew[p] \in Nat /\ highest[p] \in Nat
                 /\ now' + Skew[p] \in Nat /\ highest'[p] \in Nat
                 /\ now + Skew[p] <= now' + Skew[p]
                 /\ highest[p] <= highest'[p] \/ highest[p] < now' + Skew[p]
      <4>1. now \in Nat /\ now' = now + 1 /\ Skew[p] \in Nat
        BY <1>5, SkewAssumption DEF Restart, TimePasses, TypeOK
      <4>2. highest[p] \in Nat /\ highest'[p] \in Nat
        BY DEF TypeOK
      <4>3. IF p = n THEN highest[p] < now + 1 + Skew[p] ELSE highest'[p] = highest[p]
        BY <1>5 DEF Restart, TypeOK
      <4> QED
        BY <4>1, <4>2, <4>3
    <3> QED
      BY <3>1, NextTsMonotone DEF NextNeverFalls, Clock
  <2> QED
    BY <2>1, <2>2
<1>6. ASSUME Tick PROVE NothingNew /\ NextNeverFalls
  <2>1. NothingNew
    BY <1>6 DEF Tick, Digests, NothingNew
  <2> QED
    BY <1>6, <2>1, MonotoneNext DEF Tick, TimePasses, TypeOK
<1>7. ASSUME UNCHANGED vars PROVE NothingNew /\ NextNeverFalls
  <2>1. NothingNew
    BY <1>7 DEF vars, Digests, NothingNew
  <2> QED
    BY <1>7, <2>1, MonotoneNext DEF vars, TypeOK
<1> QED
  BY <1>1, <1>2, <1>3, <1>4, <1>5, <1>6, <1>7 DEF OtherStep

\* The inductive invariant holds.
THEOREM VersionsInvariant == Spec => []VersionsInv
<1>1. Init => Fresh /\ VersionsIdentifyWrites
  BY DEF Init, Fresh, VersionsIdentifyWrites, Digests, EmptyDigest
<1>2. VersionsInv /\ TypeOK' /\ [Next]_vars => Fresh' /\ VersionsIdentifyWrites'
  BY OtherStepsNothingNew, CommitKeepsVersions, NothingNewKeeps
  DEF VersionsInv, Next, Set, Delete, OtherStep
<1> QED
  BY <1>1, <1>2, TypeCorrect, PTL DEF Spec, VersionsInv

\* No step of the store gives a second entry the version of a first.
THEOREM VersionsCorrect == Spec => []VersionsIdentifyWrites
BY VersionsInvariant, PTL DEF VersionsInv

-----------------------------------------------------------------------------
(* Merging *)

\* Two entries agree if an equal version makes them equal.
Agree(e, f) == e.ts = f.ts /\ e.origin = f.origin => e = f

\* On entries that agree, keeping the greater version is a join.
LEMMA MergeEntryIsJoin ==
    ASSUME NEW e \in Entry, NEW f \in Entry, NEW g \in Entry,
           Agree(e, f), Agree(f, g), Agree(e, g)
    PROVE  /\ MergeEntry(e, e) = e
           /\ MergeEntry(e, f) = MergeEntry(f, e)
           /\ MergeEntry(MergeEntry(e, f), g) = MergeEntry(e, MergeEntry(f, g))
<1> None \notin Entry
  BY NoneAssumption
<1> e.ts \in Int /\ f.ts \in Int /\ g.ts \in Int
  BY DEF Entry
<1> e.origin \in Nodes /\ f.origin \in Nodes /\ g.origin \in Nodes
  BY DEF Entry
<1> \A n \in Nodes : n \in Int
  BY NodesAssumption
<1> QED
  BY DEF Agree, MergeEntry, Supersedes, GT

\* The docstring's claim, of the digests that exist in any reachable state.
THEOREM MergeCorrect == Spec => []MergeIsJoin
<1>1. TypeOK /\ VersionsIdentifyWrites => MergeIsJoin
  <2> SUFFICES ASSUME TypeOK, VersionsIdentifyWrites,
                      NEW d \in Digests, NEW f \in Digests, NEW g \in Digests
               PROVE  /\ MergeDigest(d, d) = d
                      /\ MergeDigest(d, f) = MergeDigest(f, d)
                      /\ MergeDigest(MergeDigest(d, f), g) = MergeDigest(d, MergeDigest(f, g))
    BY DEF MergeIsJoin
  <2>1. d \in Digest /\ f \in Digest /\ g \in Digest
    BY DigestsType
  <2>2. /\ MergeDigest(d, f) \in Digest /\ MergeDigest(f, g) \in Digest
        /\ MergeDigest(f, d) \in Digest /\ MergeDigest(d, d) \in Digest
        /\ MergeDigest(MergeDigest(d, f), g) \in Digest
        /\ MergeDigest(d, MergeDigest(f, g)) \in Digest
    BY <2>1, MergeDigestType
  <2>3. ASSUME NEW k \in Keys
        PROVE  /\ MergeDigest(d, d)[k] = d[k]
               /\ MergeDigest(d, f)[k] = MergeDigest(f, d)[k]
               /\ MergeDigest(MergeDigest(d, f), g)[k] = MergeDigest(d, MergeDigest(f, g))[k]
    <3>1. \A x, y \in {d, f, g} : x[k] # None /\ y[k] # None => Agree(x[k], y[k])
      BY DEF VersionsIdentifyWrites, Agree
    <3>2. \A x \in {d, f, g} : x[k] # None => x[k] \in Entry
      BY <2>1 DEF Digest
    <3>3. \A x \in Entry : MergeEntry(None, x) = x
      BY DEF MergeEntry, Supersedes
    <3>4. None \notin Entry /\ \A x, y \in Entry : MergeEntry(x, y) \in Entry
      BY NoneAssumption DEF MergeEntry
    <3> QED
      BY <3>1, <3>2, <3>3, <3>4, MergeEntryIsJoin DEF MergeDigest
  <2> QED
    BY <2>1, <2>2, <2>3 DEF Digest
<1> QED
  BY <1>1, TypeCorrect, VersionsCorrect, PTL

-----------------------------------------------------------------------------
(* Histories *)

\* The history variables only observe the store.
LEMMA HistoryImplementsStore == HSpec => Spec
<1>1. HInit => Init
  BY DEF HInit
<1>2. [HNext]_hvars => [Next]_vars
  BY DEF HNext, HSet, HDelete, HCollectGarbage, HOther, hvars, Next
<1> QED
  BY <1>1, <1>2, PTL DEF HSpec, Spec

\* What a write commits is an entry.
LEMMA CommittedEntry ==
    ASSUME TypeOK, NEW n \in Nodes, NEW k \in Keys, NEW v \in Values \cup {None},
           NEW b \in BOOLEAN, Commit(n, k, v, b)
    PROVE  data'[n][k] \in Entry
<1>1. /\ data'[n][k] = NewEntry(v, NextTs(Clock(n), highest[n]), n, b)
      /\ NextTs(Clock(n), highest[n]) \in Nat
  BY CommitFacts
<1> QED
  BY <1>1 DEF NewEntry, Entry

\* Both history variables hold entries.
THEOREM HistoryTypeCorrect == HSpec => []HTypeOK
<1>1. HInit /\ TypeOK => HTypeOK
  BY DEF HInit, HTypeOK
<1>2. HTypeOK /\ TypeOK' /\ [HNext]_hvars => HTypeOK'
  <2> SUFFICES ASSUME HTypeOK, TypeOK', [HNext]_hvars
               PROVE  written' \subseteq Keys \X Entry /\ purged' \subseteq Keys \X Entry
    BY DEF HTypeOK
  <2>1. ASSUME NEW n \in Nodes, NEW k \in Keys, NEW v \in Values \cup {None},
               NEW b \in BOOLEAN, Commit(n, k, v, b), HWrite(n, k)
        PROVE  written' \subseteq Keys \X Entry /\ purged' \subseteq Keys \X Entry
    <3>1. data'[n][k] \in Entry
      BY <2>1, CommittedEntry DEF HTypeOK
    <3> QED
      BY <2>1, <3>1 DEF HWrite, HTypeOK
  <2>2. ASSUME NEW n \in Nodes, HCollectGarbage(n)
        PROVE  written' \subseteq Keys \X Entry /\ purged' \subseteq Keys \X Entry
    <3>1. \A k \in Purgeable(n) : k \in Keys /\ data[n][k] \in Entry
      BY DEF Purgeable, IsTombstone, HTypeOK, TypeOK, Digest
    <3> QED
      BY <2>2, <3>1 DEF HCollectGarbage, HTypeOK
  <2> QED
    BY <2>1, <2>2 DEF HNext, HSet, HDelete, Set, Delete, HOther, HTypeOK, hvars
<1> QED
  BY <1>1, <1>2, HistoryImplementsStore, TypeCorrect, PTL DEF HSpec

-----------------------------------------------------------------------------
(* Garbage collection *)

\* The tombstone is past the propagation window.
Aged(e) == now - (e.ts - Skew[e.origin]) > Window

\* The inductive invariant of NoResurrection.  A tombstone past the window has
\* displaced all older copies whether it has been purged or not, and a purged
\* one is past the window: that no older copy can appear any more follows from
\* its age, since every node's clock has passed it.
PurgeInv ==
    /\ \A d \in Digests : \A k \in Keys :
          IsTombstone(d[k]) /\ Aged(d[k]) => OlderGone(k, d[k])
    /\ \A p \in purged : Aged(p[2]) /\ OlderGone(p[1], p[2])

\* A tombstone past the window stays past it.
LEMMA AgedStable ==
    ASSUME TypeOK, TypeOK', now' >= now, NEW e \in Entry, Aged(e)
    PROVE  Aged(e)'
<1>1. e.ts \in Nat /\ e.origin \in Nodes
  BY DEF Entry
<1>2. Skew[e.origin] \in Nat /\ now \in Nat /\ now' \in Nat /\ Window \in Nat
  BY <1>1, SkewAssumption, BoundsAssumption DEF TypeOK
<1> QED
  BY <1>1, <1>2 DEF Aged

\* No node can write an older copy than a tombstone past the window.
LEMMA WriteAfterAged ==
    ASSUME MinAgeIsSafe, TypeOK, NEW e \in Entry, Aged(e), NEW n \in Nodes, NEW f,
           f.ts \in Nat, f.ts >= Clock(n)
    PROVE  ~GT(e, f)
<1>1. e.ts \in Nat /\ e.origin \in Nodes
  BY DEF Entry
<1>2. /\ Skew[e.origin] \in Nat /\ Skew[n] \in Nat /\ now \in Nat /\ Window \in Nat
      /\ Window + Skew[n] >= Skew[e.origin]
  BY <1>1, SkewAssumption, BoundsAssumption DEF TypeOK, MinAgeIsSafe
<1> QED
  BY <1>1, <1>2 DEF Aged, GT, Clock

\* A tombstone that is old enough to be purged is past the window.
LEMMA PurgeableAged ==
    ASSUME MinAgeIsSafe, TypeOK, NEW n \in Nodes, NEW k \in Purgeable(n)
    PROVE  Aged(data[n][k])
<1> DEFINE e == data[n][k]
<1>1. e \in Entry /\ Clock(n) - e.ts >= MinAge
  BY DEF Purgeable, IsTombstone, TypeOK, Digest
<1>2. e.ts \in Nat /\ e.origin \in Nodes
  BY <1>1 DEF Entry
<1>3. /\ Skew[e.origin] \in Nat /\ Skew[n] \in Nat /\ now \in Nat
      /\ Window \in Nat /\ MinAge \in Nat
      /\ MinAge + Skew[e.origin] > Window + Skew[n]
  BY <1>2, SkewAssumption, BoundsAssumption DEF TypeOK, MinAgeIsSafe
<1> QED
  BY <1>1, <1>2, <1>3 DEF Aged, Clock

\* Steps that make no new entry keep OlderGone.
LEMMA NothingNewKeepsOlderGone ==
    ASSUME NothingNew, NEW k \in Keys, NEW e, OlderGone(k, e)
    PROVE  OlderGone(k, e)'
BY DEF NothingNew, OlderGone

\* A tombstone that was purged never has older copies again.
THEOREM GarbageCollectionCorrect == HSpec => []NoResurrection
<1> SUFFICES ASSUME MinAgeIsSafe PROVE HSpec => []PurgeInv
  <2>1. CASE ~MinAgeIsSafe
    <3>1. NoResurrection
      BY <2>1 DEF NoResurrection
    <3> QED
      BY <3>1, PTL
  <2>2. CASE MinAgeIsSafe
    <3>1. PurgeInv => NoResurrection
      BY DEF PurgeInv, NoResurrection
    <3> QED
      BY <2>2, <3>1, PTL
  <2> QED
    BY <2>1, <2>2
<1>1. HInit => PurgeInv
  BY DEF HInit, Init, PurgeInv, Digests, EmptyDigest, IsTombstone
<1>2. HTypeOK /\ PurgeInv /\ HTypeOK' /\ [HNext]_hvars => PurgeInv'
  <2> SUFFICES ASSUME HTypeOK, PurgeInv, HTypeOK', [HNext]_hvars PROVE PurgeInv'
    OBVIOUS
  <2> USE DEF HTypeOK
  <2>0. [Next]_vars
    BY DEF HNext, HSet, HDelete, HCollectGarbage, HOther, hvars, Next
  <2>1. ASSUME NEW n \in Nodes, NEW k \in Keys, NEW v \in Values \cup {None},
               NEW b \in BOOLEAN, Commit(n, k, v, b), purged' = purged
        PROVE  PurgeInv'
    <3>0. PICK new \in Entry : new = data'[n][k]
      BY <2>1, CommittedEntry
    <3>1. new.ts \in Nat /\ new.ts >= Clock(n) /\ new.origin = n
      BY <2>1, <3>0, CommitFacts DEF Entry
    <3>2. \A d \in Digests' : \A j \in Keys :
              (d[j] = new /\ j = k) \/ \E f \in Digests : d[j] = f[j]
      BY <2>1, <3>0, CommitFacts
    <3>3. ~Aged(new)'
      <4>1. now' = now /\ now \in Nat /\ Skew[n] \in Nat /\ Window \in Nat
        BY <2>1, SkewAssumption, BoundsAssumption DEF Commit, TypeOK
      <4> QED
        BY <3>1, <4>1 DEF Aged, Clock
    <3>4. ASSUME NEW e \in Entry, NEW j \in Keys, Aged(e), OlderGone(j, e)
          PROVE  OlderGone(j, e)'
      BY <3>1, <3>2, <3>4, WriteAfterAged DEF OlderGone
    <3>5. \A e : Aged(e)' <=> Aged(e)
      BY <2>1 DEF Commit, Aged
    <3>6. \A d \in Digests : \A j \in Keys : d[j] = None \/ d[j] \in Entry
      BY DigestsType DEF Digest
    <3>7. ASSUME NEW d \in Digests', NEW j \in Keys, IsTombstone(d[j]), Aged(d[j])'
          PROVE  OlderGone(j, d[j])'
      <4>1. PICK f \in Digests : d[j] = f[j]
        BY <3>2, <3>3, <3>7
      <4>2. f[j] \in Entry /\ OlderGone(j, f[j]) /\ Aged(f[j])
        BY <4>1, <3>5, <3>6, <3>7 DEF PurgeInv, IsTombstone
      <4> QED
        BY <4>1, <4>2, <3>4
    <3>8. ASSUME NEW p \in purged'
          PROVE  Aged(p[2])' /\ OlderGone(p[1], p[2])'
      <4>1. p[1] \in Keys /\ p[2] \in Entry /\ Aged(p[2]) /\ OlderGone(p[1], p[2])
        BY <2>1 DEF PurgeInv
      <4> QED
        BY <4>1, <3>4, <3>5
    <3> QED
      BY <3>7, <3>8 DEF PurgeInv
  <2>2. ASSUME NothingNew, now' \in Nat, now' >= now, purged' = purged,
               now' # now => now' = now + 1 /\ WindowRespected
        PROVE  PurgeInv'
    <3>1. ASSUME NEW d \in Digests', NEW k \in Keys, IsTombstone(d[k]), Aged(d[k])'
          PROVE  OlderGone(k, d[k])'
      <4>1. PICK f \in Digests : f[k] = d[k]
        BY <2>2, <3>1 DEF NothingNew, IsTombstone
      <4>2. OlderGone(k, f[k])
        <5>1. CASE now' = now
          BY <5>1, <4>1, <3>1 DEF PurgeInv, Aged
        <5>2. CASE now' # now
          <6>1. IsTombstone(f[k]) /\ now + 1 - (f[k].ts - Skew[f[k].origin]) > Window
            <7>1. now' = now + 1 /\ Aged(f[k])' /\ IsTombstone(f[k])
              BY <5>2, <2>2, <4>1, <3>1
            <7>2. f[k].ts \in Nat /\ f[k].origin \in Nodes
              BY <4>1, <7>1, DigestsType DEF IsTombstone, Digest, Entry
            <7>3. now \in Nat /\ Window \in Nat /\ Skew[f[k].origin] \in Nat
              BY <7>2, SkewAssumption, BoundsAssumption DEF TypeOK
            <7> QED
              BY <7>1, <7>2, <7>3 DEF Aged
          <6> QED
            BY <5>2, <2>2, <4>1, <6>1 DEF WindowRespected
        <5> QED
          BY <5>1, <5>2
      <4> QED
        BY <4>1, <4>2, <2>2, NothingNewKeepsOlderGone
    <3>2. ASSUME NEW p \in purged' PROVE Aged(p[2])' /\ OlderGone(p[1], p[2])'
      <4>1. p[1] \in Keys /\ p[2] \in Entry /\ Aged(p[2]) /\ OlderGone(p[1], p[2])
        BY <2>2 DEF PurgeInv
      <4> QED
        BY <4>1, <2>2, AgedStable, NothingNewKeepsOlderGone
    <3> QED
      BY <3>1, <3>2 DEF PurgeInv
  <2>3. ASSUME NEW n \in Nodes, HCollectGarbage(n) PROVE PurgeInv'
    <3>1. NothingNew /\ now' = now
      BY <2>3 DEF HCollectGarbage, CollectGarbage, NothingNew, Digests, TypeOK
    <3>2. ASSUME NEW k \in Purgeable(n)
          PROVE  k \in Keys /\ Aged(data[n][k]) /\ OlderGone(k, data[n][k])
      <4>1. k \in Keys /\ IsTombstone(data[n][k]) /\ data[n] \in Digests
        BY DEF Purgeable, Digests
      <4> QED
        BY <4>1, PurgeableAged DEF PurgeInv
    <3>3. \A p \in purged' : /\ p[1] \in Keys /\ p[2] \in Entry
                             /\ Aged(p[2]) /\ OlderGone(p[1], p[2])
      BY <2>3, <3>2 DEF HCollectGarbage, PurgeInv
    <3>4. \A p \in purged' : Aged(p[2])' /\ OlderGone(p[1], p[2])'
      BY <3>1, <3>3, NothingNewKeepsOlderGone DEF Aged
    <3>5. ASSUME NEW d \in Digests', NEW k \in Keys, IsTombstone(d[k]), Aged(d[k])'
          PROVE  OlderGone(k, d[k])'
      <4>1. PICK f \in Digests : f[k] = d[k]
        BY <3>1, <3>5 DEF NothingNew, IsTombstone
      <4>2. OlderGone(k, f[k])
        BY <3>1, <3>5, <4>1 DEF PurgeInv, Aged
      <4> QED
        BY <4>1, <4>2, <3>1, NothingNewKeepsOlderGone
    <3> QED
      BY <3>4, <3>5 DEF PurgeInv
  <2>4. ASSUME HOther \/ UNCHANGED hvars PROVE PurgeInv'
    <3>1. /\ purged' = purged
          /\ now' = now \/ (now' = now + 1 /\ WindowRespected)
      BY <2>4 DEF HOther, hvars, vars, Gossip, Receive, Lose, Restart, Tick, TimePasses
    <3>2. now' \in Nat /\ now' >= now
      BY <3>1 DEF TypeOK
    <3>3. NothingNew
      BY <2>4, OtherStepsNothingNew DEF hvars, HOther, OtherStep
    <3> QED
      BY <2>2, <3>1, <3>2, <3>3
  <2> QED
    BY <2>1, <2>3, <2>4 DEF HNext, HSet, HDelete, HWrite, Set, Delete
<1> QED
  BY <1>1, <1>2, HistoryTypeCorrect, PTL DEF HSpec

-----------------------------------------------------------------------------
(* Refinement *)

\* Every entry that exists was written, and every write is older than the next
\* version of its node, though no replica may hold it any more.
WrittenInv ==
    /\ \A d \in Digests : \A k \in Keys : d[k] # None => <<k, d[k]>> \in written
    /\ \A w \in written : w[2].ts < NextTs(Clock(w[2].origin), highest[w[2].origin])

\* Every entry that exists was written, and every node's next version is past
\* all its writes.
LEMMA WrittenInvariant == HSpec => []WrittenInv
<1>1. HInit => WrittenInv
  BY DEF HInit, Init, WrittenInv, Digests, EmptyDigest
<1>2. HTypeOK /\ WrittenInv /\ HTypeOK' /\ [HNext]_hvars => WrittenInv'
  <2> SUFFICES ASSUME HTypeOK, WrittenInv, HTypeOK', [HNext]_hvars PROVE WrittenInv'
    OBVIOUS
  <2> USE DEF HTypeOK
  <2>1. \A n \in Nodes : /\ Clock(n) \in Nat /\ highest[n] \in Nat
                          /\ Clock(n)' \in Nat /\ highest'[n] \in Nat
    <3>1. /\ now \in Nat /\ now' \in Nat
          /\ \A n \in Nodes : Skew[n] \in Nat /\ highest[n] \in Nat /\ highest'[n] \in Nat
      BY SkewAssumption DEF TypeOK
    <3> QED
      BY <3>1 DEF Clock
  <2>2. ASSUME NextNeverFalls, NEW w \in written
        PROVE  w[2].ts < NextTs(Clock(w[2].origin), highest[w[2].origin])'
    <3>1. w[2].ts \in Nat /\ w[2].origin \in Nodes
      BY DEF Entry
    <3>2. NextTs(Clock(w[2].origin), highest[w[2].origin])
          <= NextTs(Clock(w[2].origin), highest[w[2].origin])'
      BY <2>2, <3>1 DEF NextNeverFalls, Clock
    <3>3. w[2].ts < NextTs(Clock(w[2].origin), highest[w[2].origin])
      BY DEF WrittenInv
    <3>4. /\ NextTs(Clock(w[2].origin), highest[w[2].origin]) \in Nat
          /\ NextTs(Clock(w[2].origin), highest[w[2].origin])' \in Nat
      BY <2>1, <3>1, NextTsType
    <3> QED
      BY <3>1, <3>2, <3>3, <3>4
  <2>3. ASSUME NEW n \in Nodes, NEW k \in Keys, NEW v \in Values \cup {None},
               NEW b \in BOOLEAN, Commit(n, k, v, b), HWrite(n, k)
        PROVE  WrittenInv'
    <3>0. PICK new \in Entry : new = data'[n][k]
      BY <2>3, CommittedEntry
    <3>1. new.origin = n /\ new.ts \in Nat /\ new.ts = highest'[n] /\ new.ts > highest[n]
      BY <2>3, <3>0, CommitFacts
    <3>2. NextNeverFalls
      <4>1. now' = now /\ \A p \in Nodes : highest'[p] >= highest[p]
        BY <2>1, <2>3, <3>1, CommitFacts DEF Commit
      <4> QED
        BY <4>1, MonotoneNext DEF TypeOK
    <3>3. new.ts < NextTs(Clock(n), highest[n])'
      BY <2>1, <3>1, NextTsType
    <3>4. written' = written \cup {<<k, new>>}
      BY <2>3, <3>0 DEF HWrite
    <3>5. \A d \in Digests' : \A j \in Keys :
              (d[j] = new /\ j = k) \/ \E f \in Digests : d[j] = f[j]
      BY <2>3, <3>0, CommitFacts
    <3>6. \A d \in Digests' : \A j \in Keys : d[j] # None => <<j, d[j]>> \in written'
      BY <3>4, <3>5 DEF WrittenInv
    <3>7. ASSUME NEW w \in written'
          PROVE  w[2].ts < NextTs(Clock(w[2].origin), highest[w[2].origin])'
      BY <2>2, <3>1, <3>2, <3>3, <3>4
    <3> QED
      BY <3>6, <3>7 DEF WrittenInv
  <2>4. ASSUME NothingNew, NextNeverFalls, written' = written PROVE WrittenInv'
    BY <2>2, <2>4 DEF WrittenInv, NothingNew
  <2>5. ASSUME HOther \/ (\E n \in Nodes : HCollectGarbage(n)) \/ UNCHANGED hvars
        PROVE  WrittenInv'
    <3>1. OtherStep /\ written' = written
      BY <2>5 DEF HOther, HCollectGarbage, hvars, OtherStep
    <3> QED
      BY <2>4, <3>1, OtherStepsNothingNew
  <2> QED
    BY <2>3, <2>5 DEF HNext, HSet, HDelete, Set, Delete
<1> QED
  BY <1>1, <1>2, HistoryTypeCorrect, PTL DEF HSpec

\* Every behaviour of the store is one of the register.
THEOREM StoreImplementsLWWRegister == HSpec => ImplementsLWWRegister
<1>1. HInit => LWW!Init
  BY DEF HInit, Init, LWW!Init, EmptyDigest
<1>2. HTypeOK /\ WrittenInv /\ HTypeOK' /\ [HNext]_hvars => [LWW!Next]_(LWW!vars)
  <2> SUFFICES ASSUME HTypeOK, WrittenInv, HTypeOK', [HNext]_hvars
               PROVE  [LWW!Next]_(LWW!vars)
    OBVIOUS
  <2> USE DEF HTypeOK
  <2>1. ASSUME NEW n \in Nodes, NEW k \in Keys, NEW v \in Values \cup {None},
               NEW b \in BOOLEAN, Commit(n, k, v, b), HWrite(n, k)
        PROVE  LWW!Write(n, k)
    <3>1. /\ data'[n][k] \in Entry /\ data'[n][k].origin = n
          /\ data'[n][k].ts = NextTs(Clock(n), highest[n])
      BY <2>1, CommitFacts, CommittedEntry
    <3>2. \A w \in written : w[2].origin = n => w[2].ts < data'[n][k].ts
      BY <3>1 DEF WrittenInv
    <3>3. data' = [data EXCEPT ![n][k] = data'[n][k]]
      <4>1. data'[n][k] = NewEntry(v, NextTs(Clock(n), highest[n]), n, b)
        BY <2>1, CommitFacts
      <4> QED
        BY <2>1, <4>1 DEF Commit
    <3> QED
      BY <2>1, <3>1, <3>2, <3>3 DEF LWW!Write, LWW!Entry, Entry, HWrite
  <2>2. ASSUME NEW m \in net, Receive(m), written' = written
        PROVE  LWW!Adopt(m.dst)
    <3> DEFINE n == m.dst
               d == MergeDigest(data[n], m.digest)
    <3>1. /\ n \in Nodes /\ m.digest \in Digest /\ data[n] \in Digest
          /\ m.digest \in Digests /\ data[n] \in Digests
      BY DEF TypeOK, Message, Digests
    <3>2. d \in Digest /\ \A k \in Keys : d[k] \in {data[n][k], m.digest[k]}
      BY <3>1, MergeDigestType
    <3>3. \A k \in Keys : d[k] # None => <<k, d[k]>> \in written
      BY <3>1, <3>2 DEF WrittenInv
    <3>4. \A k \in Keys : d[k] # data[n][k] => d[k] # None /\ Supersedes(d[k], data[n][k])
      BY DEF MergeDigest, MergeEntry
    <3>5. d \in [Keys -> {w[2] : w \in written} \cup {None}]
      <4>1. \A k \in Keys : d[k] \in {w[2] : w \in written} \cup {None}
        <5> TAKE k \in Keys
        <5>1. CASE d[k] = None
          BY <5>1
        <5>2. CASE d[k] # None
          <6>1. <<k, d[k]>> \in written /\ <<k, d[k]>>[2] = d[k]
            BY <5>2, <3>3
          <6> QED
            BY <6>1
        <5> QED
          BY <5>1, <5>2
      <4> QED
        BY <4>1, <3>2 DEF Digest
    <3>6. data' = [data EXCEPT ![n] = d]
      BY <2>2 DEF Receive
    <3> HIDE DEF d
    <3>7. \A k \in Keys : d[k] # data[n][k] => /\ <<k, d[k]>> \in written
                                             /\ Supersedes(d[k], data[n][k])
      BY <3>3, <3>4
    <3> QED
      BY <2>2, <3>5, <3>6, <3>7 DEF LWW!Adopt, LWW!Supersedes, LWW!GT, Supersedes, GT
  <2>3. ASSUME NEW n \in Nodes, HCollectGarbage(n) PROVE LWW!Forget(n)
    <3>1. Purgeable(n) \in SUBSET {k \in Keys : IsTombstone(data[n][k])}
      BY DEF Purgeable
    <3>2. /\ data' = [data EXCEPT ![n] = [k \in Keys |-> IF k \in Purgeable(n)
                                                           THEN None ELSE @[k]]]
          /\ written' = written
      BY <2>3 DEF HCollectGarbage, CollectGarbage
    <3> HIDE DEF Purgeable
    <3> QED
      BY <3>1, <3>2 DEF LWW!Forget, LWW!IsTombstone, IsTombstone
  <2>4. ASSUME NEW n \in Nodes, Restart(n), written' = written PROVE LWW!Reset(n)
    BY <2>4 DEF Restart, LWW!Reset, EmptyDigest
  <2>5. ASSUME NEW m \in net, Receive(m), written' = written PROVE LWW!Next
    BY <2>2, <2>5 DEF TypeOK, Message, LWW!Next
  <2>6. ASSUME \/ \E n \in Nodes : \E targets \in SUBSET (Nodes \ {n}) : Gossip(n, targets)
               \/ \E m \in net : Lose(m)
               \/ Tick
               \/ UNCHANGED vars,
               written' = written
        PROVE  UNCHANGED LWW!vars
    BY <2>6 DEF Gossip, Lose, Tick, vars, LWW!vars
  <2> QED
    BY <2>1, <2>3, <2>4, <2>5, <2>6
    DEF HNext, HSet, HDelete, HOther, Set, Delete, hvars, LWW!Next
<1> QED
  BY <1>1, <1>2, HistoryTypeCorrect, WrittenInvariant, PTL
  DEF HSpec, ImplementsLWWRegister, LWW!Spec

-----------------------------------------------------------------------------
(* Anti-entropy *)

\* The messages of anti-entropy: what is pushed is a part of some digest, and
\* what is asked for is answered to a node.
AETyped ==
    \A m \in ae :
        /\ m.type \in {"digest", "pull", "push"} /\ m.src \in Nodes /\ m.dst \in Nodes
        /\ m.type = "push" => m.entries \in Digest
                              /\ \A k \in Keys : IsTombstone(m.entries[k]) => m.entries[k].value = None

\* What a node pushes is a digest, as its replica is.
LEMMA PushType ==
    ASSUME TypeOK, NEW n \in Nodes, NEW p \in Nodes, NEW B
    PROVE  LET m == PushMsg(n, p, B) IN
           /\ m.type = "push" /\ m.src \in Nodes /\ m.dst \in Nodes
           /\ m.entries \in Digest
           /\ \A k \in Keys : IsTombstone(m.entries[k]) => m.entries[k].value = None
<1>1. data[n] \in Digest /\ data[n] \in Digests
  BY DEF TypeOK, Digests
<1>2. EntriesFor(n, B) \in Digest
  BY <1>1 DEF EntriesFor, Digest
<1>3. \A k \in Keys : EntriesFor(n, B)[k] \in {None, data[n][k]}
  BY DEF EntriesFor
<1>4. \A k \in Keys : IsTombstone(data[n][k]) => data[n][k].value = None
  BY <1>1 DEF TypeOK
<1>5. \A k \in Keys : IsTombstone(EntriesFor(n, B)[k]) => EntriesFor(n, B)[k].value = None
  BY <1>3, <1>4 DEF IsTombstone
<1> QED
  BY <1>2, <1>5 DEF PushMsg

\* A push that arrives keeps the types.
LEMMA PushTyped ==
    ASSUME TypeOK, AETyped, NEW m \in ae, OnPush(m)
    PROVE  TypeOK'
<1> DEFINE n == m.dst
<1>1. /\ n \in Nodes /\ m.entries \in Digest /\ data[n] \in Digest
      /\ \A k \in Keys : IsTombstone(m.entries[k]) => m.entries[k].value = None
  BY DEF AETyped, OnPush, TypeOK
<1>2. data' = [data EXCEPT ![n] = MergeDigest(data[n], m.entries)] /\ now' = now /\ net' = net
  BY DEF OnPush
<1>3. data' \in [Nodes -> Digest]
  BY <1>1, <1>2, MergeDigestType DEF TypeOK
<1>4. highest' \in [Nodes -> Nat]
  <2>1. PICK h \in OwnStamps(n, highest[n], data[n], m.entries) :
           IsMaxOf(OwnStamps(n, highest[n], data[n], m.entries), h) /\ highest' = [highest EXCEPT ![n] = h]
    BY DEF OnPush
  <2>2. highest[n] \in Nat
    BY <1>1 DEF TypeOK
  <2>3. h \in Nat
    BY <1>1, <2>1, <2>2, OwnStampsType
  <2> QED
    BY <2>1, <2>3 DEF TypeOK
<1>5. ASSUME NEW d \in Digests', NEW k \in Keys
      PROVE  d[k] = m.entries[k] \/ \E f \in Digests : d[k] = f[k]
  <2>1. data[n] \in Digests
    BY <1>1 DEF Digests
  <2>2. CASE d \in Digests
    BY <2>2
  <2>3. CASE d = MergeDigest(data[n], m.entries)
    BY <1>1, <2>1, <2>3, MergeDigestType
  <2> QED
    BY <1>1, <1>2, <2>2, <2>3 DEF Digests, TypeOK
<1>6. \A d \in Digests' : \A k \in Keys : IsTombstone(d[k]) => d[k].value = None
  BY <1>1, <1>5 DEF TypeOK
<1> QED
  BY <1>2, <1>3, <1>4, <1>6 DEF TypeOK, IsTombstone

\* The types of the store and of the messages are invariant.
LEMMA AETypesKept == TypeOK /\ AETyped /\ [AENext]_aevars => TypeOK' /\ AETyped'
<1> SUFFICES ASSUME TypeOK, AETyped, [AENext]_aevars PROVE TypeOK' /\ AETyped'
  OBVIOUS
<1>0. ASSUME UNCHANGED <<data, highest, now, net>> PROVE TypeOK'
  BY <1>0, TypeStep DEF vars
<1>1. CASE StoreStep
  <2>1. TypeOK'
    BY <1>1, TypeStep DEF StoreStep
  <2> QED
    BY <1>1, <2>1 DEF StoreStep, AETyped, IsTombstone
<1>2. ASSUME NEW n \in Nodes, NEW p \in Nodes, AETick(n, p)
      PROVE  TypeOK' /\ AETyped'
  <2>1. TypeOK'
    BY <1>0, <1>2 DEF AETick
  <2>2. ASSUME NEW m \in ae'
        PROVE  m \in ae \/ (m.type = "digest" /\ m.src \in Nodes /\ m.dst \in Nodes)
    BY <1>2 DEF AETick
  <2> QED
    BY <2>1, <2>2 DEF AETyped, IsTombstone
<1>3. ASSUME NEW m \in ae, OnDigest(m)
      PROVE  TypeOK' /\ AETyped'
  <2>1. TypeOK' /\ m.src \in Nodes /\ m.dst \in Nodes
    BY <1>0, <1>3 DEF OnDigest, AETyped
  <2>2. PICK B : B = DiffBuckets(BucketHashes(m.dst), m.hashes)
    OBVIOUS
  <2>3. \A x \in ae' : \/ x \in ae
                       \/ x = PushMsg(m.dst, m.src, B)
                       \/ x.type = "pull" /\ x.src \in Nodes /\ x.dst \in Nodes
    BY <1>3, <2>1, <2>2 DEF OnDigest
  <2> QED
    BY <2>1, <2>3, PushType DEF AETyped, IsTombstone
<1>4. ASSUME NEW m \in ae, OnPull(m)
      PROVE  TypeOK' /\ AETyped'
  <2>1. TypeOK' /\ m.src \in Nodes /\ m.dst \in Nodes
    BY <1>0, <1>4 DEF OnPull, AETyped
  <2>2. \A x \in ae' : x \in ae \/ x = PushMsg(m.dst, m.src, m.buckets)
    BY <1>4 DEF OnPull
  <2> QED
    BY <2>1, <2>2, PushType DEF AETyped, IsTombstone
<1>5. ASSUME NEW m \in ae, OnPush(m)
      PROVE  TypeOK' /\ AETyped'
  <2>1. ae' \subseteq ae
    BY <1>5 DEF OnPush
  <2> QED
    BY <1>5, <2>1, PushTyped DEF AETyped, IsTombstone
<1>6. ASSUME NEW m \in ae, AELose(m)
      PROVE  TypeOK' /\ AETyped'
  BY <1>0, <1>6 DEF AELose, AETyped, IsTombstone
<1>7. CASE UNCHANGED aevars
  BY <1>0, <1>7 DEF aevars, AETyped, IsTombstone
<1> QED
  BY <1>1, <1>2, <1>3, <1>4, <1>5, <1>6, <1>7 DEF AENext

\* The digests that exist, those pushed by anti-entropy included.
AllDigests == Digests \cup {m.entries : m \in {x \in ae : x.type = "push"}}

\* Fresh and VersionsIdentifyWrites, of all of them.
AEFresh ==
    \A d \in AllDigests : \A k \in Keys :
        d[k] # None => d[k].ts < NextTs(Clock(d[k].origin), highest[d[k].origin])

AEVersions ==
    \A d, f \in AllDigests : \A k \in Keys :
        /\ d[k] # None
        /\ f[k] # None
        /\ d[k].ts = f[k].ts
        /\ d[k].origin = f[k].origin
        => d[k] = f[k]

AENothingNew ==
    \A d \in AllDigests' : \A k \in Keys :
        d[k] # None => \E f \in AllDigests : f[k] = d[k]

AEVersionsInv == TypeOK /\ AETyped /\ AEFresh /\ AEVersions

\* They are digests.
LEMMA AllDigestsType == TypeOK /\ AETyped => AllDigests \subseteq Digest
BY DigestsType DEF AllDigests, AETyped

\* The versions that nodes would mint next are numbers.
LEMMA NextIsNat ==
    ASSUME TypeOK, TypeOK', NEW n \in Nodes
    PROVE  /\ NextTs(Clock(n), highest[n]) \in Nat
           /\ NextTs(Clock(n), highest[n])' \in Nat
           /\ NextTs(Clock(n), highest[n])' = NextTs(now' + Skew[n], highest'[n])
<1>1. /\ now + Skew[n] \in Nat /\ highest[n] \in Nat
      /\ now' + Skew[n] \in Nat /\ highest'[n] \in Nat
  BY SkewAssumption DEF TypeOK
<1> QED
  BY <1>1, NextTsType DEF Clock

\* A step that makes no entry keeps them.
LEMMA AEKeeps ==
    ASSUME AEVersionsInv, TypeOK', AENothingNew, NextNeverFalls
    PROVE  AEFresh' /\ AEVersions'
<1>1. AEVersions'
  BY DEF AEVersionsInv, AEVersions, AENothingNew
<1>2. ASSUME NEW d \in AllDigests', NEW k \in Keys, d[k] # None
      PROVE  d[k].ts < NextTs(Clock(d[k].origin), highest[d[k].origin])'
  <2>1. PICK f \in AllDigests : f[k] = d[k]
    BY <1>2 DEF AENothingNew
  <2>2. PICK o \in Nodes : o = f[k].origin /\ f[k].ts \in Nat
    BY <1>2, <2>1, AllDigestsType DEF AEVersionsInv, Digest, Entry
  <2>3. f[k].ts < NextTs(Clock(o), highest[o])
    BY <1>2, <2>1, <2>2 DEF AEVersionsInv, AEFresh
  <2>4. NextTs(Clock(o), highest[o]) <= NextTs(now' + Skew[o], highest'[o])
    BY DEF NextNeverFalls
  <2>5. f[k].ts < NextTs(Clock(o), highest[o])'
    BY <2>2, <2>3, <2>4, NextIsNat DEF AEVersionsInv
  <2> QED
    BY <2>1, <2>2, <2>5
<1> QED
  BY <1>1, <1>2 DEF AEFresh

\* A write keeps them.
LEMMA AECommitKeeps ==
    ASSUME AEVersionsInv, TypeOK', NEW n \in Nodes, NEW k \in Keys,
           NEW v, NEW b, Commit(n, k, v, b), ae' = ae
    PROVE  AEFresh' /\ AEVersions'
<1> USE DEF AEVersionsInv
<1>1. PICK ts \in Nat : /\ ts = NextTs(Clock(n), highest[n])
                        /\ ts > highest[n] /\ highest'[n] = ts
                        /\ \A p \in Nodes \ {n} : highest'[p] = highest[p]
  BY CommitFacts
<1>2. PICK e : e = NewEntry(v, ts, n, b) /\ e.ts = ts /\ e.origin = n
  <2>1. NewEntry(v, ts, n, b).ts = ts /\ NewEntry(v, ts, n, b).origin = n
    BY DEF NewEntry
  <2> QED
    BY <2>1
<1>3. \A d \in AllDigests' : \A j \in Keys :
          (d[j] = e /\ j = k) \/ \E f \in AllDigests : d[j] = f[j]
  <2>1. \A d \in Digests' : \A j \in Keys :
            (d[j] = e /\ j = k) \/ \E f \in Digests : d[j] = f[j]
    BY <1>1, <1>2, CommitFacts
  <2> QED
    BY <2>1 DEF AllDigests
<1>4. \A f \in AllDigests : \A j \in Keys :
          f[j] # None => f[j].ts \in Nat /\ f[j].origin \in Nodes
  BY AllDigestsType DEF Digest, Entry
<1>5. \A f \in AllDigests : \A j \in Keys : f[j] # None /\ f[j].origin = n => f[j].ts < ts
  BY <1>1 DEF AEFresh
<1>6. AEVersions'
  BY <1>2, <1>3, <1>4, <1>5 DEF AEVersions
<1>7. NextNeverFalls
  <2>1. highest \in [Nodes -> Nat] /\ now \in Nat /\ now' = now
    BY DEF Commit, TypeOK
  <2>2. \A p \in Nodes : highest'[p] >= highest[p]
    BY <1>1, <2>1
  <2> QED
    BY <2>1, <2>2, MonotoneNext
<1>8. ts < NextTs(Clock(n), highest[n])'
  <2>1. now' + Skew[n] \in Nat
    BY SkewAssumption DEF TypeOK
  <2>2. NextTs(now' + Skew[n], ts) > ts
    BY <2>1, NextTsType
  <2> QED
    BY <1>1, <2>2, NextIsNat
<1>9. ASSUME NEW d \in AllDigests', NEW j \in Keys, d[j] # None
      PROVE  d[j].ts < NextTs(Clock(d[j].origin), highest[d[j].origin])'
  <2>1. CASE d[j] = e
    BY <1>2, <1>8, <2>1
  <2>2. CASE \E f \in AllDigests : d[j] = f[j]
    <3>1. PICK f \in AllDigests : d[j] = f[j]
      BY <2>2
    <3>2. PICK o \in Nodes : o = f[j].origin /\ f[j].ts \in Nat
      BY <1>4, <1>9, <3>1
    <3>3. f[j].ts < NextTs(Clock(o), highest[o])
      BY <1>9, <3>1, <3>2 DEF AEFresh
    <3>4. NextTs(Clock(o), highest[o]) <= NextTs(now' + Skew[o], highest'[o])
      BY <1>7 DEF NextNeverFalls
    <3>5. f[j].ts < NextTs(Clock(o), highest[o])'
      BY <3>2, <3>3, <3>4, NextIsNat
    <3> QED
      BY <3>1, <3>2, <3>5
  <2> QED
    BY <1>3, <2>1, <2>2
<1> QED
  BY <1>6, <1>9 DEF AEFresh

\* Every step keeps them.
LEMMA AEVersionsNext == AEVersionsInv /\ [AENext]_aevars => AEVersionsInv'
<1> SUFFICES ASSUME AEVersionsInv, [AENext]_aevars PROVE AEVersionsInv'
  OBVIOUS
<1>0. TypeOK' /\ AETyped' /\ TypeOK /\ AETyped
  BY AETypesKept DEF AEVersionsInv
<1> SUFFICES AEFresh' /\ AEVersions'
  BY <1>0 DEF AEVersionsInv
<1>a. ASSUME UNCHANGED <<data, highest, now, net>>, AENothingNew
      PROVE  AEFresh' /\ AEVersions'
  <2>1. NextNeverFalls
    BY <1>0, <1>a, MonotoneNext DEF TypeOK
  <2> QED
    BY <1>0, <1>a, <2>1, AEKeeps
<1>1. CASE StoreStep
  <2>1. ASSUME NEW n \in Nodes, NEW k \in Keys, NEW v, NEW b, Commit(n, k, v, b)
        PROVE  AEFresh' /\ AEVersions'
    BY <1>0, <1>1, <2>1, AECommitKeeps DEF StoreStep
  <2>2. CASE OtherStep
    <3>1. NothingNew /\ NextNeverFalls
      BY <1>0, <2>2, OtherStepsNothingNew
    <3>2. AENothingNew
      BY <1>1, <3>1 DEF StoreStep, NothingNew, AENothingNew, AllDigests
    <3> QED
      BY <1>0, <3>1, <3>2, AEKeeps
  <2> QED
    BY <1>1, <2>1, <2>2 DEF StoreStep, Next, Set, Delete, OtherStep
<1>2. ASSUME NEW n \in Nodes, NEW p \in Nodes, AETick(n, p)
      PROVE  AEFresh' /\ AEVersions'
  <2>1. UNCHANGED <<data, highest, now, net>> /\ \A x \in ae' : x \in ae \/ x.type = "digest"
    BY <1>2 DEF AETick
  <2>2. AENothingNew
    BY <2>1 DEF AENothingNew, AllDigests, Digests
  <2> QED
    BY <1>a, <2>1, <2>2
<1>b. ASSUME NEW n \in Nodes, NEW p, NEW B, UNCHANGED <<data, highest, now, net>>,
             \A x \in ae' : x.type = "push" => x \in ae \/ x = PushMsg(n, p, B)
      PROVE  AEFresh' /\ AEVersions'
  <2>1. data[n] \in AllDigests
    BY DEF AllDigests, Digests
  <2>2. \A k \in Keys : PushMsg(n, p, B).entries[k] \in {None, data[n][k]}
    BY DEF PushMsg, EntriesFor
  <2>3. Digests' = Digests
    BY <1>b DEF Digests
  <2>4. \A d \in AllDigests' : d \in AllDigests \/ d = PushMsg(n, p, B).entries
    BY <1>b, <2>3 DEF AllDigests
  <2>5. AENothingNew
    BY <2>1, <2>2, <2>4 DEF AENothingNew
  <2> QED
    BY <1>a, <1>b, <2>5
<1>3. ASSUME NEW m \in ae, OnDigest(m)
      PROVE  AEFresh' /\ AEVersions'
  <2>1. m.dst \in Nodes
    BY <1>0 DEF AETyped
  <2>2. PICK B : B = DiffBuckets(BucketHashes(m.dst), m.hashes)
    OBVIOUS
  <2>3. \A x \in ae' : x.type = "push" => x \in ae \/ x = PushMsg(m.dst, m.src, B)
    BY <1>3, <2>2 DEF OnDigest
  <2> QED
    BY <1>3, <1>b, <2>1, <2>3 DEF OnDigest
<1>4. ASSUME NEW m \in ae, OnPull(m)
      PROVE  AEFresh' /\ AEVersions'
  <2>1. m.dst \in Nodes
    BY <1>0 DEF AETyped
  <2>2. \A x \in ae' : x.type = "push" => x \in ae \/ x = PushMsg(m.dst, m.src, m.buckets)
    BY <1>4 DEF OnPull
  <2> QED
    BY <1>4, <1>b, <2>1, <2>2 DEF OnPull
<1>5. ASSUME NEW m \in ae, OnPush(m)
      PROVE  AEFresh' /\ AEVersions'
  <2>1. PICK n \in Nodes : n = m.dst /\ m.entries \in Digest /\ data[n] \in Digest /\ highest[n] \in Nat
    BY <1>0, <1>5 DEF AETyped, OnPush, TypeOK
  <2>2. m.entries \in AllDigests /\ data[n] \in AllDigests
    BY <1>5 DEF OnPush, AllDigests, Digests
  <2>3. \A d \in AllDigests' : d \in AllDigests \/ d = MergeDigest(data[n], m.entries)
    <3>1. data' = [data EXCEPT ![n] = MergeDigest(data[n], m.entries)] /\ net' = net /\ ae' \subseteq ae
      BY <1>5, <2>1 DEF OnPush
    <3>2. \A d \in Digests' : d \in Digests \/ d = MergeDigest(data[n], m.entries)
      BY <1>0, <3>1 DEF Digests, TypeOK
    <3> QED
      BY <3>1, <3>2 DEF AllDigests
  <2>4. \A k \in Keys : MergeDigest(data[n], m.entries)[k] \in {data[n][k], m.entries[k]}
    BY <2>1, MergeDigestType
  <2>5. AENothingNew
    BY <2>2, <2>3, <2>4 DEF AENothingNew
  <2>6. \A p \in Nodes : highest'[p] >= highest[p]
    <3>1. PICK h \in OwnStamps(n, highest[n], data[n], m.entries) :
             IsMaxOf(OwnStamps(n, highest[n], data[n], m.entries), h) /\ highest' = [highest EXCEPT ![n] = h]
      BY <1>5, <2>1 DEF OnPush
    <3>2. h \in Nat /\ highest[n] <= h
      BY <2>1, <3>1, OwnStampsType
    <3> QED
      BY <1>0, <3>1, <3>2 DEF TypeOK
  <2>7. NextNeverFalls
    BY <1>0, <1>5, <2>6, MonotoneNext DEF OnPush, TypeOK
  <2> QED
    BY <1>0, <2>5, <2>7, AEKeeps
<1>6. ASSUME NEW m \in ae, AELose(m)
      PROVE  AEFresh' /\ AEVersions'
  <2>1. AENothingNew
    BY <1>6 DEF AELose, AENothingNew, AllDigests, Digests
  <2> QED
    BY <1>6, <1>a, <2>1 DEF AELose
<1>7. CASE UNCHANGED aevars
  <2>1. AENothingNew
    BY <1>7 DEF aevars, AENothingNew, AllDigests, Digests
  <2> QED
    BY <1>7, <1>a, <2>1 DEF aevars
<1> QED
  BY <1>1, <1>2, <1>3, <1>4, <1>5, <1>6, <1>7 DEF AENext

\* The inductive invariant of the store with both roads.
LEMMA AEVersionsInvariant == AESpec => []AEVersionsInv
<1>1. AEInit => AEVersionsInv
  <2> SUFFICES ASSUME AEInit PROVE AEVersionsInv
    OBVIOUS
  <2>1. TypeOK /\ AETyped
    BY SkewAssumption DEF AEInit, Init, TypeOK, AETyped, Digests, Digest, EmptyDigest, IsTombstone
  <2>2. \A d \in AllDigests : \A k \in Keys : d[k] = None
    BY DEF AEInit, Init, AllDigests, Digests, EmptyDigest
  <2> QED
    BY <2>1, <2>2 DEF AEVersionsInv, AEFresh, AEVersions
<1> QED
  BY <1>1, AEVersionsNext, PTL DEF AESpec

\* Anti-entropy keeps what gossip keeps: with pushes and pulls under way as well,
\* lost or late, two entries of one key with one version are one write.
THEOREM AEVersionsCorrect == AESpec => []VersionsIdentifyWrites
<1>1. AEVersionsInv => VersionsIdentifyWrites
  BY DEF AEVersionsInv, AEVersions, VersionsIdentifyWrites, AllDigests
<1> QED
  BY <1>1, AEVersionsInvariant, PTL

\* Where two nodes sort keys alike, equal fingerprints of a bucket are equal
\* contents, values included, although bucket_hashes leaves the values out.
FingerprintsTell ==
    \A n, p \in Nodes : BucketOf[n] = BucketOf[p] =>
        \A b \in Buckets : BucketHashes(n)[b] = BucketHashes(p)[b] =>
            \A k \in Keys : BucketOf[n][k] = b => data[n][k] = data[p][k]

\* Anti-entropy overlooks no difference between two replicas that count buckets
\* alike: what is not pushed or pulled is equal on both sides.
THEOREM FingerprintsCorrect == AESpec => []FingerprintsTell
<1>1. ASSUME AEVersionsInv PROVE FingerprintsTell
  <2> SUFFICES ASSUME NEW n \in Nodes, NEW p \in Nodes, BucketOf[n] = BucketOf[p], NEW b \in Buckets,
                      BucketHashes(n)[b] = BucketHashes(p)[b], NEW k \in Keys, BucketOf[n][k] = b
               PROVE  data[n][k] = data[p][k]
    BY DEF FingerprintsTell
  <2>1. {Hashed(n, j) : j \in Held(n, b)} = {Hashed(p, j) : j \in Held(p, b)}
    BY DEF BucketHashes
  <2>2. \A q, r \in Nodes, i, j \in Keys :
           Hashed(q, i) = Hashed(r, j) =>
             i = j /\ data[q][i].ts = data[r][j].ts /\ data[q][i].origin = data[r][j].origin
    BY DEF Hashed
  <2>3. ASSUME data[n][k] # None PROVE data[p][k] # None /\ data[n][k] = data[p][k]
    <3>1. k \in Held(n, b)
      BY <2>3 DEF Held
    <3>2. PICK j \in Held(p, b) : Hashed(n, k) = Hashed(p, j)
      BY <2>1, <3>1
    <3>3. j = k /\ data[n][k].ts = data[p][k].ts /\ data[n][k].origin = data[p][k].origin
      BY <2>2, <3>2 DEF Held
    <3>4. data[p][k] # None
      BY <3>2, <3>3 DEF Held
    <3> QED
      BY <1>1, <2>3, <3>3, <3>4 DEF AEVersionsInv, AEVersions, AllDigests, Digests
  <2>4. ASSUME data[p][k] # None PROVE data[n][k] # None
    <3>1. k \in Held(p, b)
      BY <2>4 DEF Held
    <3>2. PICK j \in Held(n, b) : Hashed(n, j) = Hashed(p, k)
      BY <2>1, <3>1
    <3>3. j = k
      BY <2>2, <3>2 DEF Held
    <3> QED
      BY <3>2, <3>3 DEF Held
  <2> QED
    BY <2>3, <2>4
<1> QED
  BY <1>1, AEVersionsInvariant, PTL
=============================================================================
