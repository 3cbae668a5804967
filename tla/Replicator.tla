----------------------------- MODULE Replicator -----------------------------
(***************************************************************************)
(* suprime/replicate.py: a CRDT that every node holds a replica of, kept   *)
(* in step by digests that are sent when they changed, and every           *)
(* full_sync_every-th tick in any case, to peers drawn at random.          *)
(*                                                                         *)
(* history and seen say what applications did, for the properties: which   *)
(* operations there were, and whose effect has reached a replica.          *)
(***************************************************************************)
EXTENDS CRDTs

CONSTANTS
    FullSyncEvery,  \* full_sync_every
    MaxOps,         \* bound: operations, for each type
    MaxClock,       \* bound: clock readings of an LWWMap
    MaxSyncs        \* bound: messages in flight when a node sends

ASSUME FullSyncAssumption ==
    FullSyncEvery \in Nat \ {0} /\ MaxOps \in [Kinds -> Nat] /\ {MaxClock, MaxSyncs} \subseteq Nat

\* None is not the entry of an LWWMap.
ASSUME NoneAssumption == None \notin MapEntry

VARIABLES
    kind,       \* the type of the object, which stays
    crdt,       \* crdt[n]: the object of node n
    lastSent,   \* _last_sent, or None
    ticks,      \* _ticks, modulo full_sync_every
    syncs,      \* CRDT_SYNC messages in flight
    history,    \* the operations so far
    seen        \* seen[n]: those that crdt[n] reflects

rvars == <<kind, crdt, lastSent, ticks, syncs, history, seen>>

InitReplicator(k) ==
    /\ kind = k
    /\ crdt = [n \in Nodes |-> Fresh(k)]
    /\ lastSent = [n \in Nodes |-> None]
    /\ ticks = [n \in Nodes |-> 0]
    /\ syncs = {} /\ history = <<>>
    /\ seen = [n \in Nodes |-> {}]

-----------------------------------------------------------------------------
(* Operations *)

\* An operation op(arg) gives n's object the state s, which reflects it and the
\* earlier operations O.
OperateOver(n, O, op, arg, s) ==
    /\ Len(history) < MaxOps[kind]
    /\ crdt' = [crdt EXCEPT ![n] = s]
    /\ history' = Append(history, [node |-> n, op |-> op, arg |-> arg, past |-> seen[n],
                                   list |-> IF kind = "RGA" THEN VisibleIds(s) ELSE <<>>])
    /\ seen' = [seen EXCEPT ![n] = O \cup {Len(history')}]
    /\ UNCHANGED <<kind, lastSent, ticks, syncs>>

\* Mostly what it has seen.
Operate(n, op, arg, s) == OperateOver(n, seen[n], op, arg, s)

\* Every write of a map or a register is of another value.
NewValue == Len(history) + 1

Count(n) ==
    /\ kind \in {"GCounter", "PNCounter"}
    /\ Operate(n, "increment", 1, [crdt[n] EXCEPT !.p = Increment(@, n, 1)])

Decrement(n) ==
    /\ kind = "PNCounter"
    /\ Operate(n, "decrement", 1, [crdt[n] EXCEPT !.n = Increment(@, n, 1)])

AddElement(n, e) == kind = "ORSet" /\ Operate(n, "add", e, Add(crdt[n], n, e))

RemoveElement(n, e) == kind = "ORSet" /\ Operate(n, "remove", e, RemoveObserved(crdt[n], e))

\* LWWMap.set, at a node whose clock goes on.  It does not compare stamps: the
\* entry of a node whose clock is ahead is replaced, and only another replica can
\* bring it back.
SetEntry(n, ts) ==
    /\ kind = "LWWMap"
    /\ \A i \in DOMAIN history : history[i].node = n => history[i].arg.ts < ts
    /\ LET entry == [value |-> NewValue, ts |-> ts, origin |-> n]
           older == {i \in seen[n] : NewerThan(entry, history[i].arg)}
       IN  OperateOver(n, older, "set", entry, [entry |-> entry])

SetRegister(n) ==
    kind = "MVRegister" /\ Operate(n, "write", NewValue, WriteRegister(crdt[n], n, NewValue))

InsertElement(n, i) ==
    /\ kind = "RGA"
    /\ i <= Len(VisibleIds(crdt[n])) + 1
    /\ Operate(n, "insert", [at |-> i, id |-> <<crdt[n].counter + 1, n>>], Insert(crdt[n], n, i))

DeleteElement(n, i) ==
    /\ kind = "RGA"
    /\ i <= Len(VisibleIds(crdt[n]))
    /\ Operate(n, "delete", VisibleIds(crdt[n])[i], DeleteAt(crdt[n], i))

-----------------------------------------------------------------------------
(* Replication *)

MustSend_OnlyChanges(n) == lastSent[n] # DigestOf(kind, crdt[n])

\* A full sync is due, or the digest is not the one sent last.
MustSend(n) ==
    ticks[n] + 1 = FullSyncEvery \/ lastSent[n] # DigestOf(kind, crdt[n])

\* _tick with something to send; targets is the part of the draw whose message
\* gets on its way, to arrive before or after others.
Sync(n, targets) ==
    /\ MustSend(n)
    /\ Cardinality(syncs) < MaxSyncs
    /\ ticks' = [ticks EXCEPT ![n] = (@ + 1) % FullSyncEvery]
    /\ lastSent' = [lastSent EXCEPT ![n] = DigestOf(kind, crdt[n])]
    /\ syncs' = syncs \cup [src : {n}, dst : targets, digest : {DigestOf(kind, crdt[n])},
                            seen : {seen[n]}]
    /\ UNCHANGED <<kind, crdt, history, seen>>

\* _tick of a node whose object did not change.
StayQuiet(n) ==
    /\ ~MustSend(n)
    /\ ticks' = [ticks EXCEPT ![n] = (@ + 1) % FullSyncEvery]
    /\ UNCHANGED <<kind, crdt, lastSent, syncs, history, seen>>

\* _on_sync.
OnSync(m) ==
    /\ crdt' = [crdt EXCEPT ![m.dst] = Merge(kind, @, m.digest)]
    /\ seen' = [seen EXCEPT ![m.dst] = @ \cup m.seen]
    /\ syncs' = syncs \ {m}
    /\ UNCHANGED <<kind, lastSent, ticks, history>>

LoseSync(m) == syncs' = syncs \ {m} /\ UNCHANGED <<kind, crdt, lastSent, ticks, history, seen>>

NextReplicator ==
    \/ \E n \in Nodes : Count(n) \/ Decrement(n) \/ SetRegister(n) \/ StayQuiet(n)
    \/ \E n \in Nodes, e \in Elements : AddElement(n, e) \/ RemoveElement(n, e)
    \/ \E n \in Nodes, ts \in 1..MaxClock : SetEntry(n, ts)
    \/ \E n \in Nodes, i \in 1..MaxOps[kind] : InsertElement(n, i) \/ DeleteElement(n, i)
    \/ \E n \in Nodes : \E targets \in SUBSET (Nodes \ {n}) : Sync(n, targets)
    \/ \E m \in syncs : OnSync(m) \/ LoseSync(m)

\* Nodes tick, every peer is drawn again and again, links deliver again and
\* again, and messages do not stay on their way.
FairReplicator ==
    /\ \A n \in Nodes :
          /\ WF_rvars(StayQuiet(n))
          /\ \A p \in Nodes \ {n} :
                /\ SF_rvars(\E targets \in SUBSET (Nodes \ {n}) : p \in targets /\ Sync(n, targets))
                /\ SF_rvars(\E m \in syncs : m.src = n /\ m.dst = p /\ OnSync(m))
    /\ WF_rvars(\E m \in syncs : OnSync(m) \/ LoseSync(m))

-----------------------------------------------------------------------------
(* Properties *)

ReplicatorTypeOK ==
    /\ kind \in Kinds /\ ticks \in [Nodes -> 0..(FullSyncEvery - 1)]
    /\ seen \in [Nodes -> SUBSET DOMAIN history]
    /\ \A m \in syncs : m.src # m.dst /\ m.seen \subseteq DOMAIN history
    /\ kind # "RGA" => /\ crdt \in [Nodes -> State(kind)]
                       /\ lastSent \in [Nodes -> State(kind) \cup {None}]
                       /\ \A m \in syncs : m.digest \in State(kind)

Does(i, op, arg) == history[i].op = op /\ history[i].arg = arg

\* What an object should read as after the operations O: the sum of what was
\* counted; the elements with an add that no remove had observed; the entry
\* with the greatest stamp; the writes that no other write had observed; the
\* elements inserted and not deleted.
Meaning(O) ==
    CASE kind \in {"GCounter", "PNCounter"} ->
            Cardinality({i \in O : history[i].op = "increment"})
            - Cardinality({i \in O : history[i].op = "decrement"})
      [] kind = "ORSet" ->
            {e \in Elements : \E i \in O : Does(i, "add", e)
                                           /\ \A j \in O : Does(j, "remove", e) => i \notin history[j].past}
      [] kind = "LWWMap" ->
            IF O = {} THEN None
            ELSE LET last == CHOOSE i \in O : \A j \in O \ {i} : NewerThan(history[i].arg, history[j].arg)
                 IN  history[last].arg.value
      [] kind = "MVRegister" ->
            {history[i].arg : i \in {j \in O : \A k \in O : j \notin history[k].past}}
      [] kind = "RGA" ->
            {history[i].arg.id : i \in {j \in O : history[j].op = "insert"}}
            \ {history[i].arg : i \in {j \in O : history[j].op = "delete"}}

Lists == {history[i].list : i \in DOMAIN history} \cup {VisibleIds(crdt[n]) : n \in Nodes}

\* An element is inserted at the visible position asked for, and two elements
\* that anyone saw in some order are in this order everywhere, forever.
ListsAgree ==
    /\ \A i \in DOMAIN history :
          history[i].op = "insert" => history[i].list[history[i].arg.at] = history[i].arg.id
    /\ \A l, m \in Lists :
          ~\E i, j \in DOMAIN l, x, y \in DOMAIN m :
              i < j /\ x < y /\ l[i] = m[y] /\ l[j] = m[x]

\* "Replicas that observe the same set of operations - in any order, with any
\* duplication - converge to the same state" (crdt.py): every replica reads at
\* all times as the operations that reached it mean, and the sequences of
\* rga.py order their elements alike.
ReadsAsMeant ==
    /\ \A n \in Nodes : Read(kind, crdt[n]) = Meaning(seen[n])
    /\ kind = "RGA" => ListsAgree

\* Once applications pause, every operation has reached every replica in the
\* end, although what is lost was taken for sent (the periodic full sync of
\* replicate.py).  Of an LWWMap, every entry that a replica still has or hides
\* behind a newer one.
OperationsSpread ==
    []<>(\A n \in Nodes : seen[n] = IF kind = "LWWMap" THEN UNION {seen[p] : p \in Nodes}
                                                       ELSE DOMAIN history)
=============================================================================
