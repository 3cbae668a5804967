----------------------------- MODULE LWWRegister -----------------------------
(***************************************************************************)
(* What the replicated store promises, without gossip: a replica holds a   *)
(* written entry or nothing, a local write is stored under a version no    *)
(* other write has, a replica otherwise only moves to a written entry with *)
(* a greater version, and only a tombstone is ever dropped, except by a    *)
(* restart, which drops everything.                                        *)
(***************************************************************************)
EXTENDS Versions

VARIABLES
    data,       \* data[n]: the entry, or None, that replica n holds per key
    written     \* every <<key, entry>> that was ever written by set or delete

vars == <<data, written>>

Init ==
    /\ data = [n \in Nodes |-> [k \in Keys |-> None]]
    /\ written = {}

\* Replica n writes an entry, live or deleted, under a version greater than
\* those of all its other writes.
Write(n, k) ==
    LET e == data'[n][k] IN
    /\ e \in Entry
    /\ e.origin = n
    /\ \A w \in written : w[2].origin = n => w[2].ts < e.ts
    /\ data' = [data EXCEPT ![n][k] = e]
    /\ written' = written \cup {<<k, e>>}

\* Replica n learns of other writes, for any number of keys at once.
Adopt(n) ==
    /\ \E d \in [Keys -> {w[2] : w \in written} \cup {None}] :
          /\ \A k \in Keys : d[k] # data[n][k] => /\ <<k, d[k]>> \in written
                                                 /\ Supersedes(d[k], data[n][k])
          /\ data' = [data EXCEPT ![n] = d]
    /\ UNCHANGED written

\* Replica n drops tombstones.
Forget(n) ==
    /\ \E T \in SUBSET {k \in Keys : IsTombstone(data[n][k])} :
          data' = [data EXCEPT ![n] = [k \in Keys |-> IF k \in T THEN None ELSE @[k]]]
    /\ UNCHANGED written

Reset(n) ==
    /\ data' = [data EXCEPT ![n] = [k \in Keys |-> None]]
    /\ UNCHANGED written

Next == \E n \in Nodes : \/ \E k \in Keys : Write(n, k)
                         \/ Adopt(n)
                         \/ Forget(n)
                         \/ Reset(n)

Spec == Init /\ [][Next]_vars
=============================================================================
