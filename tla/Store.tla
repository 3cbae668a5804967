-------------------------------- MODULE Store --------------------------------
(***************************************************************************)
(* The replicated last-writer-wins store (suprime/store.py) and the gossip *)
(* that carries it between nodes (suprime/gossip.py, node.gossip_once):    *)
(* local writes and deletes, digests pushed to any subset of the peers,    *)
(* messages delayed, reordered and lost, tombstone garbage collection and  *)
(* restarts that lose all memory.                                          *)
(*                                                                         *)
(* Every node reads a wall clock of its own, now + Skew[n].                *)
(***************************************************************************)
EXTENDS Versions, FiniteSets

CONSTANTS
    Skew,       \* how far each node's wall clock is ahead of real time
    Links,      \* the pairs of nodes that are not partitioned forever
    MinAge,     \* collect_garbage's min_age (SwarmNode's tombstone_gc_after)
    Window,     \* worst-case time for a delete to displace older copies
    MaxNow,     \* bound: real time stops here
    MaxTs,      \* bound: no version is minted past this timestamp
    MaxNet      \* bound: gossip messages in flight

ASSUME SkewAssumption == Skew \in [Nodes -> Nat]
ASSUME LinksAssumption == Links \subseteq Nodes \X Nodes
ASSUME BoundsAssumption ==
    MinAge \in Nat /\ Window \in Nat /\ MaxNow \in Nat /\ MaxTs \in Nat /\ MaxNet \in Nat

VARIABLES
    data,       \* data[n]: the _data of node n
    highest,    \* highest[n]: its _highest_ts
    now,        \* real time
    net         \* gossip messages in flight

vars == <<data, highest, now, net>>

Message == [src : Nodes, dst : Nodes, digest : Digest]

EmptyDigest == [k \in Keys |-> None]

Init ==
    /\ data = [n \in Nodes |-> EmptyDigest]
    /\ highest = [n \in Nodes |-> 0]
    /\ now = 0
    /\ net = {}

-----------------------------------------------------------------------------
Clock(n) == now + Skew[n]

\* set and delete share this: a fresh version, stored without a comparison.
Commit(n, k, value, deleted) ==
    LET ts == NextTs(Clock(n), highest[n]) IN
    /\ ts <= MaxTs
    /\ data' = [data EXCEPT ![n][k] = NewEntry(value, ts, n, deleted)]
    /\ highest' = [highest EXCEPT ![n] = ts]
    /\ UNCHANGED <<now, net>>

Set(n, k, v) == Commit(n, k, v, FALSE)

Delete_KeepsValue(n, k) ==
    /\ data[n][k] # None
    /\ Commit(n, k, data[n][k].value, TRUE)

\* delete: a key that was never held is left alone; a key that is already a
\* tombstone gets a newer one.
Delete(n, k) ==
    /\ data[n][k] # None
    /\ Commit(n, k, None, TRUE)

\* gossip_once: one digest to the peers select_targets drew.  targets is the
\* part of that draw whose send did not fail and whose message is not
\* dropped on the way out.
Gossip(n, targets) ==
    /\ targets # {}
    /\ net' = net \cup [src : {n}, dst : targets, digest : {data[n]}]
    /\ Cardinality(net') <= MaxNet
    /\ UNCHANGED <<data, highest, now>>

\* GossipService.apply on the store part of a digest.  _on_message drops a
\* message whose id it has seen, so a message is applied once.
Receive(m) ==
    LET n == m.dst IN
    /\ data' = [data EXCEPT ![n] = MergeDigest(@, m.digest)]
    /\ \E h \in OwnStamps(n, highest[n], data[n], m.digest) :
          /\ IsMaxOf(OwnStamps(n, highest[n], data[n], m.digest), h)
          /\ highest' = [highest EXCEPT ![n] = h]
    /\ net' = net \ {m}
    /\ UNCHANGED now

\* The network loses a message, or its receiver was down.
Lose(m) ==
    /\ net' = net \ {m}
    /\ UNCHANGED <<data, highest, now>>

Purgeable_AnyAge(n) == {k \in Keys : IsTombstone(data[n][k])}

\* The stale list of collect_garbage.
Purgeable(n) ==
    {k \in Keys : IsTombstone(data[n][k]) /\ Clock(n) - data[n][k].ts >= MinAge}

CollectGarbage(n) ==
    /\ Purgeable(n) # {}
    /\ data' = [data EXCEPT ![n] = [k \in Keys |-> IF k \in Purgeable(n) THEN None ELSE @[k]]]
    /\ UNCHANGED <<highest, now, net>>

-----------------------------------------------------------------------------
\* The digests that exist: those of the replicas and those in flight.
Digests == {data[n] : n \in Nodes} \cup {m.digest : m \in net}

\* No replica and no message holds a copy of k older than e.
OlderGone(k, e) == \A d \in Digests : d[k] # None => ~GT(e, d[k])

\* The docstring of collect_garbage requires of a deployment that a delete
\* displaces every older copy, on a replica or in flight, within a window.
WindowRespected ==
    \A d \in Digests : \A k \in Keys :
        /\ IsTombstone(d[k])
        /\ now + 1 - (d[k].ts - Skew[d[k].origin]) > Window
        => OlderGone(k, d[k])

TimePasses ==
    /\ now < MaxNow
    /\ WindowRespected
    /\ now' = now + 1

Tick == TimePasses /\ UNCHANGED <<data, highest, net>>

\* A node without a persist_dir stops and starts again under its old identity
\* with an empty store.  The outage takes time, and by its end the wall clock
\* is past every version the node minted.
Restart(n) ==
    /\ TimePasses
    /\ highest[n] < now + 1 + Skew[n]
    /\ data' = [data EXCEPT ![n] = EmptyDigest]
    /\ highest' = [highest EXCEPT ![n] = 0]
    /\ UNCHANGED net

Next ==
    \/ \E n \in Nodes, k \in Keys, v \in Values : Set(n, k, v)
    \/ \E n \in Nodes, k \in Keys : Delete(n, k)
    \/ \E n \in Nodes : \E targets \in SUBSET (Nodes \ {n}) : Gossip(n, targets)
    \/ \E m \in net : Receive(m)
    \/ \E m \in net : Lose(m)
    \/ \E n \in Nodes : CollectGarbage(n)
    \/ \E n \in Nodes : Restart(n)
    \/ Tick

Spec == Init /\ [][Next]_vars

\* Every node gossips forever and draws every peer again and again.  A link
\* over which digests are sent again and again delivers again and again: this
\* is only assumed of Links, the others may lose everything.  No message is
\* in flight forever.
Fairness ==
    /\ WF_vars(\E m \in net : Receive(m) \/ Lose(m))
    /\ \A l \in Links :
          /\ SF_vars(\E targets \in SUBSET (Nodes \ {l[1]}) :
                        l[2] \in targets /\ Gossip(l[1], targets))
          /\ SF_vars(\E m \in net : m.src = l[1] /\ m.dst = l[2] /\ Receive(m))

FairSpec == Spec /\ Fairness

-----------------------------------------------------------------------------
(* Properties *)

\* Every variable has its type, a deleted entry carries no value (delete
\* drops it), and no node gossips to itself.
TypeOK ==
    /\ data \in [Nodes -> Digest]
    /\ highest \in [Nodes -> Nat]
    /\ now \in Nat
    /\ net \in SUBSET Message
    /\ \A m \in net : m.src # m.dst
    /\ \A d \in Digests : \A k \in Keys : IsTombstone(d[k]) => d[k].value = None

\* A version names one write: two entries for one key with equal versions,
\* on replicas or in flight, are the same entry.  merge_entry keeps the entry
\* it has on a tie and anti-entropy compares versions only, so without this
\* replicas that saw the same writes would differ forever.  It has to survive
\* writes faster than the clock ticks, skewed clocks and restarts that forget
\* _highest_ts.
VersionsIdentifyWrites ==
    \A d, f \in Digests : \A k \in Keys :
        /\ d[k] # None
        /\ f[k] # None
        /\ d[k].ts = f[k].ts
        /\ d[k].origin = f[k].origin
        => d[k] = f[k]

\* "The merge is commutative, associative and idempotent" (the docstring of
\* store.py), on any digests that can meet: merging them in any order, in any
\* grouping and any number of times gives one result.
MergeIsJoin ==
    \A d, f \in Digests :
        /\ MergeDigest(d, d) = d
        /\ MergeDigest(d, f) = MergeDigest(f, d)
        /\ \A g \in Digests :
              MergeDigest(MergeDigest(d, f), g) = MergeDigest(d, MergeDigest(f, g))

\* What get, items and keys show of a replica.
Shown(d) == [k \in Keys |-> IF Live(d[k]) THEN d[k] ELSE None]

\* The store converges: once writes, deletes and restarts stop (the bounds on
\* time and timestamps stop them) every replica ends up showing the same entry
\* for every key, whatever was delayed, reordered or lost on the way, and
\* although tombstones are purged and learnt again.
Convergence == <>[](\A n, p \in Nodes : Shown(data[n]) = Shown(data[p]))
=============================================================================
