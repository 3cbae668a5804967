---------------------------- MODULE StoreHistory ----------------------------
(***************************************************************************)
(* Store with two history variables, which record what no replica knows:   *)
(* every write that was ever made, and every tombstone collect_garbage has *)
(* purged.  They state what garbage collection must never do and what the  *)
(* store implements.                                                       *)
(***************************************************************************)
EXTENDS Store

VARIABLES
    written,    \* every <<key, entry>> that set or delete committed
    purged      \* every <<key, tombstone>> that a replica purged

hvars == <<vars, written, purged>>

HInit == Init /\ written = {} /\ purged = {}

\* Exactly the key that n writes gets a new own entry.
HWrite(n, k) ==
    /\ written' = written \cup {<<k, data'[n][k]>>}
    /\ UNCHANGED purged

HSet(n, k, v) == Set(n, k, v) /\ HWrite(n, k)

HDelete(n, k) == Delete(n, k) /\ HWrite(n, k)

HCollectGarbage(n) ==
    /\ CollectGarbage(n)
    /\ purged' = purged \cup {<<k, data[n][k]>> : k \in Purgeable(n)}
    /\ UNCHANGED written

HOther ==
    /\ \/ \E n \in Nodes : \E targets \in SUBSET (Nodes \ {n}) : Gossip(n, targets)
       \/ \E m \in net : Receive(m)
       \/ \E m \in net : Lose(m)
       \/ \E n \in Nodes : Restart(n)
       \/ Tick
    /\ UNCHANGED <<written, purged>>

HNext ==
    \/ \E n \in Nodes, k \in Keys, v \in Values : HSet(n, k, v)
    \/ \E n \in Nodes, k \in Keys : HDelete(n, k)
    \/ \E n \in Nodes : HCollectGarbage(n)
    \/ HOther

HSpec == HInit /\ [][HNext]_hvars

-----------------------------------------------------------------------------
(* Properties *)

\* The store's variables have their types, and the histories of what set,
\* delete and collect_garbage did hold entries of keys.
HTypeOK ==
    /\ TypeOK
    /\ written \subseteq Keys \X Entry
    /\ purged \subseteq Keys \X Entry

\* What min_age must exceed for garbage collection to be safe: the propagation
\* window, plus the most by which two clocks disagree (the age of a tombstone
\* is measured with the clock of the replica that purges it against a
\* timestamp of the clock that minted it).
MinAgeIsSafe ==
    \A n, p \in Nodes : /\ MinAge + Skew[p] > Window + Skew[n]
                        /\ Window + Skew[p] >= Skew[n]

\* "This bounds memory without risking resurrection" (collect_garbage): once
\* a replica has purged a tombstone, no replica and no message will ever again
\* hold a copy of the key that is older than the tombstone.
NoResurrection ==
    MinAgeIsSafe => \A p \in purged : OlderGone(p[1], p[2])

\* The store implements the last-writer-wins register.
LWW == INSTANCE LWWRegister
ImplementsLWWRegister == LWW!Spec
=============================================================================
