---------------------------- MODULE AntiEntropy ----------------------------
(***************************************************************************)
(* The Store with its second road, suprime/antientropy.py: a node sends a  *)
(* peer one fingerprint per bucket of keys, the peer pushes its entries of *)
(* the buckets that differ and pulls the sender's.                         *)
(*                                                                         *)
(* A fingerprint hashes the versions of a bucket's entries; the hash is    *)
(* taken to be injective, and is the set it hashes.  Every node counts     *)
(* buckets in its own way: the "n" a digest carries is not looked at.      *)
(***************************************************************************)
EXTENDS Store

CONSTANTS
    Buckets,
    BucketOf,   \* BucketOf[n][k]: _bucket_of(k, n_buckets of node n)
    MaxLost,    \* bound: anti-entropy messages lost
    MaxAE,      \* bound: anti-entropy messages in flight when a round begins
    MaxTsBoth   \* bound: as MaxTs, when both roads work

ASSUME BucketsAssumption == BucketOf \in [Nodes -> [Keys -> Buckets]]
ASSUME AEBounds == MaxAE \in Nat /\ MaxLost \in Nat /\ MaxTsBoth \in Nat

VARIABLES
    roads,      \* what works: gossip, whose messages are in net, anti-entropy or
                \* both; nothing gets through on a road that does not work
    ae,         \* anti-entropy messages in flight
    lost        \* those lost so far

aevars == <<data, highest, now, net, roads, ae, lost>>

AEInit ==
    /\ Init
    /\ roads \in {{"gossip"}, {"antientropy"}, {"gossip", "antientropy"}}
    /\ ae = {} /\ lost = 0

-----------------------------------------------------------------------------
Held(n, b) == {k \in Keys : BucketOf[n][k] = b /\ data[n][k] # None}

Hashed_TimestampOnly(n, k) ==
    [key |-> k, ts |-> data[n][k].ts, origin |-> 1, deleted |-> FALSE]

\* What one entry adds to its bucket's fingerprint.
Hashed(n, k) ==
    [key |-> k, ts |-> data[n][k].ts, origin |-> data[n][k].origin,
     deleted |-> data[n][k].deleted]

\* bucket_hashes; a bucket without entries has no fingerprint.
BucketHashes(n) == [b \in Buckets |-> {Hashed(n, k) : k \in Held(n, b)}]

DiffBuckets(local, remote) == {b \in Buckets : local[b] # remote[b]}

\* entries_for_buckets.
EntriesFor(n, buckets) ==
    [k \in Keys |-> IF BucketOf[n][k] \in buckets THEN data[n][k] ELSE None]

PushMsg(n, p, buckets) ==
    [type |-> "push", src |-> n, dst |-> p, entries |-> EntriesFor(n, buckets)]

\* _tick: a digest to a random peer.
AETick(n, p) ==
    /\ "antientropy" \in roads /\ <<n, p>> \in Links /\ Cardinality(ae) <= MaxAE
    /\ ae' = ae \cup {[type |-> "digest", src |-> n, dst |-> p, hashes |-> BucketHashes(n)]}
    /\ UNCHANGED <<data, highest, now, net, roads, lost>>

\* _on_digest.
OnDigest(m) ==
    LET n == m.dst
        mismatched == DiffBuckets(BucketHashes(n), m.hashes)
    IN  /\ m.type = "digest"
        /\ ae' = (ae \ {m}) \cup IF mismatched = {} THEN {}
                                 ELSE {PushMsg(n, m.src, mismatched),
                                       [type |-> "pull", src |-> n, dst |-> m.src,
                                        buckets |-> mismatched]}
        /\ UNCHANGED <<data, highest, now, net, roads, lost>>

\* _on_pull.
OnPull(m) ==
    /\ m.type = "pull"
    /\ ae' = (ae \ {m}) \cup {PushMsg(m.dst, m.src, m.buckets)}
    /\ UNCHANGED <<data, highest, now, net, roads, lost>>

\* _on_push: apply_digest.
OnPush(m) ==
    LET n == m.dst
        stamps == OwnStamps(n, highest[n], data[n], m.entries)
    IN  /\ m.type = "push"
        /\ data' = [data EXCEPT ![n] = MergeDigest(@, m.entries)]
        /\ \E h \in stamps : IsMaxOf(stamps, h) /\ highest' = [highest EXCEPT ![n] = h]
        /\ ae' = ae \ {m}
        /\ UNCHANGED <<now, net, roads, lost>>

AELose(m) ==
    /\ lost < MaxLost /\ lost' = lost + 1
    /\ ae' = ae \ {m}
    /\ UNCHANGED <<data, highest, now, net, roads>>

\* The deployment's window (see WindowRespected) covers pushed entries too.
PushesRespectWindow ==
    \A d \in Digests, k \in Keys :
        IsTombstone(d[k]) /\ now + 1 - (d[k].ts - Skew[d[k].origin]) > Window
        => \A m \in ae : m.type = "push" /\ m.entries[k] # None => ~GT(d[k], m.entries[k])

\* The store goes on writing, deleting, purging and restarting; it gossips
\* when that road works.
StoreStep ==
    /\ Next
    /\ net' # net => "gossip" \in roads
    /\ now' # now => PushesRespectWindow
    /\ Cardinality(roads) = 2 => \A n \in Nodes : highest'[n] <= MaxTsBoth
    /\ UNCHANGED <<roads, ae, lost>>

AENext ==
    \/ StoreStep
    \/ \E n, p \in Nodes : AETick(n, p)
    \/ \E m \in ae : OnDigest(m) \/ OnPull(m) \/ OnPush(m) \/ AELose(m)

AESpec == AEInit /\ [][AENext]_aevars

\* As for gossip: ticks draw every peer again and again.
AEFairness ==
    /\ WF_aevars(\/ \E m \in ae : OnDigest(m) \/ OnPull(m) \/ OnPush(m)
                 \/ StoreStep /\ \E m \in net : Receive(m) \/ Lose(m))
    /\ \A l \in Links :
          /\ SF_aevars(StoreStep /\ \E m \in net : m.src = l[1] /\ m.dst = l[2] /\ Receive(m))
          /\ SF_aevars(\/ AETick(l[1], l[2])
                       \/ /\ StoreStep
                          /\ \E targets \in SUBSET (Nodes \ {l[1]}) :
                                l[2] \in targets /\ Gossip(l[1], targets))

AEFairSpec == AESpec /\ AEFairness
=============================================================================
