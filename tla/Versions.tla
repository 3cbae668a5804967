------------------------------ MODULE Versions ------------------------------
(***************************************************************************)
(* The versioned entries of suprime/store.py and the last-writer-wins rule *)
(* that merges them.  Every other module that touches the replicated store *)
(* is built from these operators.                                          *)
(*                                                                         *)
(* Node identities are the strings of identity.py, whose only use here is  *)
(* their total order; they are modelled by natural numbers.  A timestamp   *)
(* is a natural number whose unit is the 1e-6 s nudge of _next_version.    *)
(***************************************************************************)
EXTENDS Integers

CONSTANTS
    Nodes,      \* node identities
    Keys,       \* keys of the store
    Values,     \* application values
    None        \* Python's None: no entry, or the value of a tombstone

ASSUME NodesAssumption == Nodes \subseteq Nat

\* Entry, with its Version (ts, origin) flattened into it.
Entry == [value : Values \cup {None}, ts : Nat, origin : Nodes, deleted : BOOLEAN]

ASSUME NoneAssumption == None \notin Entry /\ None \notin Values

\* A replica's _data, and equally the digest() that gossip ships: one entry,
\* or None, per key.
Digest == [Keys -> Entry \cup {None}]

NewEntry(value, ts, origin, deleted) ==
    [value |-> value, ts |-> ts, origin |-> origin, deleted |-> deleted]

\* Version.__gt__: by timestamp, then by origin.
GT(e, f) == e.ts > f.ts \/ (e.ts = f.ts /\ e.origin > f.origin)

GT_TimestampOnly(e, f) == e.ts > f.ts

Supersedes_NoOriginTieBreak(e, current) ==
    current # None => GT_TimestampOnly(e, current)

\* The test of merge_entry.
Supersedes(e, current) == current # None => GT(e, current)

MergeEntry_LastReceived(current, e) == e

MergeEntry(current, e) == IF Supersedes(e, current) THEN e ELSE current

\* apply_digest: merge_entry for every key that the digest holds.
MergeDigest(local, digest) ==
    [k \in Keys |-> IF digest[k] = None THEN local[k]
                                        ELSE MergeEntry(local[k], digest[k])]

\* The timestamps that _highest_ts is raised to while node n merges digest
\* into local: those of its own entries, when they are accepted.
OwnStamps(n, high, local, digest) ==
    {high} \cup {digest[k].ts : k \in {j \in Keys : /\ digest[j] # None
                                                    /\ Supersedes(digest[j], local[j])
                                                    /\ digest[j].origin = n}}

NextTs_ReusesEqual(reading, high) == IF reading < high THEN high + 1 ELSE reading

\* _next_version: the clock's reading, nudged past every version of our own.
NextTs(reading, high) == IF reading <= high THEN high + 1 ELSE reading

IsMaxOf(S, m) == m \in S /\ \A x \in S : x <= m

Live(e) == e # None /\ ~e.deleted

IsTombstone(e) == e # None /\ e.deleted
=============================================================================
