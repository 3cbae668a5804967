------------------------------ MODULE KVStore ------------------------------
(***************************************************************************)
(* The key-value database of suprime/kvstore.py over the replicated store: *)
(* put, get, delete and sweep_expired with TTLs that are reaped lazily, a  *)
(* secondary index, and quorum reads and writes whose answers race their   *)
(* time-outs.                                                              *)
(*                                                                         *)
(* One key of the database is modelled, which is several keys of the       *)
(* store: its value, its expiry and one index entry for each value (the    *)
(* index maps a value to itself).                                          *)
(*                                                                         *)
(* Every node reads a wall clock of its own, ahead of the others by its    *)
(* skew.  Every operation happens at an instant of its own, so that the    *)
(* versions it mints need no nudge, and can share a timestamp: they are of *)
(* different keys of the store.                                            *)
(***************************************************************************)
EXTENDS Versions, FiniteSets, Sequences

CONSTANTS
    UserValues,     \* the values applications store
    TTLs,           \* the ttl arguments
    Starts          \* situations to start from

\* A start: the nodes whose local and whose quorum API is used, with which
\* values and ttls, how far each node's clock is ahead, the quorums w and r, and
\* bounds on time and on the number of quorum operations.
Start == [locals : SUBSET Nodes, quorums : SUBSET Nodes, values : SUBSET UserValues,
          ttls : SUBSET (TTLs \cup {None}), skew : [Nodes -> Nat],
          w : Nat, r : Nat, maxNow : Nat, maxRequests : Nat]

ASSUME StartsAssumption == Starts \subseteq Start
ASSUME TTLAssumption == TTLs \subseteq Nat /\ None \notin TTLs

Val == <<"val", None>>
Exp == <<"exp", None>>
Idx(v) == <<"idx", v>>

ASSUME KeysAssumption ==
    Keys = {Val, Exp} \cup {Idx(v) : v \in UserValues} /\ UserValues \subseteq Values

\* Index entries and expiries are values too, and nodes are finitely many.
ASSUME ValuesAssumption ==
    /\ 1 \in Values
    /\ \A s \in Starts, ttl \in TTLs, n \in Nodes :
          \A t \in 1..s.maxNow : t + s.skew[n] + ttl \in Values
ASSUME FiniteAssumption == IsFiniteSet(Nodes)

VARIABLES
    start,      \* the start chosen, which stays
    data,       \* data[n]: the entries of node n's store
    now,        \* real time
    indexed,    \* the nodes that have called create_index
    requests,   \* the quorum operations so far, with what _pending holds of them
    wire,       \* quorum messages in flight; a lost one stays forever
    lasting,    \* timestamps of values stored without a ttl (for the properties)
    acked,      \* values that a full write quorum acknowledged (for the properties)
    undercuts   \* <<new, old>> for every write of a node's own, new, that replaced a
                \* newer version, old, in its store (for the properties)

vars == <<start, data, now, indexed, requests, wire, lasting, acked, undercuts>>

Request ==
    [kind : {"put", "get"}, node : Nodes, need : Nat, answers : Nat, open : BOOLEAN,
     best : Entry \cup {None}, floor : SUBSET Entry]

Message ==
    [type : {"write_req", "read_resp"}, req : Nat, node : Nodes, entry : Entry \cup {None}]
    \cup [type : {"read_req", "write_resp"}, req : Nat, node : Nodes]

Init ==
    /\ start \in Starts
    /\ data = [n \in Nodes |-> [k \in Keys |-> None]]
    /\ now = 0 /\ indexed = {} /\ requests = <<>> /\ wire = {}
    /\ lasting = {} /\ acked = {} /\ undercuts = {}

-----------------------------------------------------------------------------
(* What the local operations do to a store d at time t *)

Tombstone(n, t) == NewEntry(None, t, n, TRUE)

\* store.get of the value.
Old(d) == IF Live(d[Val]) THEN d[Val].value ELSE None

\* _is_expired.
Expired(d, t) == Live(d[Exp]) /\ t >= d[Exp].value

Reindexed_KeepsOld(n, d, new, t) ==
    [k \in Keys |-> IF n \in indexed /\ new # None /\ k = Idx(new) THEN NewEntry(1, t, n, FALSE)
                                                                   ELSE d[k]]

\* _reindex: an index entry has the value True, here 1; delete leaves a key
\* alone that the store does not hold.
Reindexed(n, d, new, t) ==
    [k \in Keys |->
       IF n \notin indexed THEN d[k]
       ELSE IF new # None /\ k = Idx(new) THEN NewEntry(1, t, n, FALSE)
       ELSE IF Old(d) # None /\ k = Idx(Old(d)) /\ d[k] # None THEN Tombstone(n, t)
       ELSE d[k]]

WithExpiry_KeepsOld(n, d, ttl, t) ==
    IF ttl # None THEN NewEntry(t + ttl, t, n, FALSE) ELSE d[Exp]

\* The expiry after a put.
WithExpiry(n, d, ttl, t) ==
    IF ttl # None THEN NewEntry(t + ttl, t, n, FALSE)
    ELSE IF Live(d[Exp]) THEN Tombstone(n, t)
    ELSE d[Exp]

\* put.
AfterPut(n, d, v, ttl, t) ==
    [Reindexed(n, d, v, t) EXCEPT ![Val] = NewEntry(v, t, n, FALSE),
                                  ![Exp] = WithExpiry(n, d, ttl, t)]

AfterDelete_KeepsValue(n, d, t) ==
    [Reindexed(n, d, None, t) EXCEPT ![Val] = IF @ = None THEN None
                                              ELSE NewEntry(@.value, t, n, TRUE),
                                     ![Exp] = IF Live(@) THEN Tombstone(n, t) ELSE @]

\* delete.
AfterDelete(n, d, t) ==
    [Reindexed(n, d, None, t) EXCEPT ![Val] = IF @ = None THEN None ELSE Tombstone(n, t),
                                     ![Exp] = IF Live(@) THEN Tombstone(n, t) ELSE @]

-----------------------------------------------------------------------------
(* The local API *)

Operate == now < start.maxNow /\ now' = now + 1

\* What n's clock reads when it operates, and when it is asked.
Reading(n) == now + 1 + start.skew[n]
Clock(n) == now + start.skew[n]

Lasts(n, ttl) == lasting' = IF ttl = None THEN lasting \cup {Reading(n)} ELSE lasting

\* set and delete do not compare versions: a node whose clock is behind replaces
\* what came from one whose clock is ahead.
Undercuts(n) ==
    LET old == data[n][Val]
        new == data'[n][Val]
    IN  undercuts' = IF old # None /\ GT(old, new) THEN undercuts \cup {<<new, old>>}
                                                   ELSE undercuts

Put(n, v, ttl) ==
    /\ Operate /\ n \in start.locals
    /\ data' = [data EXCEPT ![n] = AfterPut(n, @, v, ttl, Reading(n))]
    /\ Lasts(n, ttl) /\ Undercuts(n)
    /\ UNCHANGED <<start, indexed, requests, wire, acked>>

Delete(n) ==
    /\ Operate /\ n \in start.locals
    /\ data' = [data EXCEPT ![n] = AfterDelete(n, @, Reading(n))]
    /\ Undercuts(n)
    /\ UNCHANGED <<start, indexed, requests, wire, lasting, acked>>

\* get reaps what has expired, and so does sweep_expired, if there is a value.
Reap(n) ==
    /\ Operate /\ n \in start.locals
    /\ Expired(data[n], Reading(n))
    /\ data' = [data EXCEPT ![n] = AfterDelete(n, @, Reading(n))]
    /\ Undercuts(n)
    /\ UNCHANGED <<start, indexed, requests, wire, lasting, acked>>

\* scan: the value that is shown, if any.
Scan(d, t) == {v \in UserValues : Old(d) = v /\ ~Expired(d, t)}

\* query_index finds the key under v.
QueryIndex(d, v, t) == Live(d[Idx(v)]) /\ ~Expired(d, t)

\* create_index, with its backfill of what scan shows.
CreateIndex(n) ==
    /\ Operate /\ n \in start.locals
    /\ indexed' = indexed \cup {n}
    /\ data' = [data EXCEPT ![n] = [k \in Keys |->
                   IF \E v \in Scan(data[n], Reading(n)) : k = Idx(v)
                   THEN NewEntry(1, Reading(n), n, FALSE) ELSE data[n][k]]]
    /\ UNCHANGED <<start, requests, wire, lasting, acked, undercuts>>

Tick == Operate /\ UNCHANGED <<start, data, indexed, requests, wire, lasting, acked, undercuts>>

\* A gossip round of the store, whose message carries every entry (see Store).
Replicate(n, p) ==
    /\ n # p
    /\ data' = [data EXCEPT ![p] = MergeDigest(@, data[n])]
    /\ UNCHANGED <<start, now, indexed, requests, wire, lasting, acked, undercuts>>

-----------------------------------------------------------------------------
(* The quorum API *)

\* The request that is made, with messages[p], to quorum - 1 of the peers that
\* are taken to be alive; without peers it is over at once.
Ask(n, kind, quorum, local, messages) ==
    /\ n \in start.quorums /\ Len(requests) < start.maxRequests
    /\ \E P \in SUBSET (Nodes \ {n}) :
          /\ Cardinality(P) < quorum
          /\ requests' = Append(requests,
                [kind |-> kind, node |-> n, need |-> Cardinality(P), answers |-> 0,
                 open |-> TRUE, best |-> local, floor |-> acked])
          /\ wire' = wire \cup {messages[p] : p \in P}

\* quorum_put until it waits for its answers.
QuorumPut(n, v, ttl) ==
    LET entry == NewEntry(v, Reading(n), n, FALSE)
        writeReqs == [p \in Nodes |-> [type |-> "write_req", req |-> Len(requests) + 1, node |-> p,
                                       entry |-> entry]]
        expiry == IF ttl = None THEN data[n][Exp]
                  ELSE NewEntry(Reading(n) + ttl, Reading(n), n, FALSE)
    IN  /\ Operate
        /\ data' = [data EXCEPT ![n] = [Reindexed(n, @, v, Reading(n)) EXCEPT ![Val] = entry,
                                                                           ![Exp] = expiry]]
        /\ Lasts(n, ttl) /\ Undercuts(n)
        /\ Ask(n, "put", start.w, entry, writeReqs)
        /\ UNCHANGED <<start, indexed, acked>>

\* quorum_get until it waits; the local entry is read now.
QuorumGet(n) ==
    LET readReqs == [p \in Nodes |-> [type |-> "read_req", req |-> Len(requests) + 1, node |-> p]] IN
    /\ Ask(n, "get", start.r, data[n][Val], readReqs)
    /\ UNCHANGED <<start, data, now, indexed, lasting, acked, undercuts>>

\* _on_write_req.
OnWriteReq(m) ==
    /\ m.type = "write_req"
    /\ data' = [data EXCEPT ![m.node][Val] = MergeEntry(@, m.entry)]
    /\ wire' = (wire \ {m}) \cup {[type |-> "write_resp", req |-> m.req, node |-> m.node]}
    /\ UNCHANGED <<start, now, indexed, requests, lasting, acked, undercuts>>

\* _on_read_req.
OnReadReq(m) ==
    /\ m.type = "read_req"
    /\ wire' = (wire \ {m}) \cup {[type |-> "read_resp", req |-> m.req, node |-> m.node,
                                   entry |-> data[m.node][Val]]}
    /\ UNCHANGED <<start, data, now, indexed, requests, lasting, acked, undercuts>>

Best_Last(best, entry) == IF entry = None THEN best ELSE entry

\* The newest version across the quorum.
Best(best, entry) == IF entry = None THEN best ELSE MergeEntry(best, entry)

\* _on_write_resp and _on_read_resp; an answer that comes too late is dropped.
OnResponse(m) ==
    /\ m.type \in {"write_resp", "read_resp"}
    /\ wire' = wire \ {m}
    /\ requests' = IF ~requests[m.req].open THEN requests
                   ELSE [requests EXCEPT ![m.req].answers = @ + 1,
                                         ![m.req].best =
                            IF m.type = "read_resp" THEN Best(@, m.entry) ELSE @]
    /\ UNCHANGED <<start, data, now, indexed, lasting, acked, undercuts>>

\* The future is set, or its time-out passes: quorum_put reports its
\* acknowledgements, quorum_get folds the winner into its own replica.
Finish(i) ==
    LET r == requests[i] IN
    /\ r.open
    /\ requests' = [requests EXCEPT ![i].open = FALSE]
    /\ IF r.kind = "put"
       THEN /\ acked' = IF r.answers + 1 >= start.w THEN acked \cup {r.best} ELSE acked
            /\ UNCHANGED data
       ELSE /\ data' = IF r.best = None THEN data
                       ELSE [data EXCEPT ![r.node][Val] = MergeEntry(@, r.best)]
            /\ UNCHANGED acked
    /\ UNCHANGED <<start, now, indexed, wire, lasting, undercuts>>

Next ==
    \/ \E n \in Nodes, v \in start.values, ttl \in start.ttls : Put(n, v, ttl)
    \/ \E n \in Nodes, v \in start.values, ttl \in start.ttls : QuorumPut(n, v, ttl)
    \/ \E n \in Nodes : Delete(n) \/ Reap(n) \/ CreateIndex(n) \/ QuorumGet(n)
    \/ \E n, p \in Nodes : Replicate(n, p)
    \/ \E m \in wire : OnWriteReq(m) \/ OnReadReq(m) \/ OnResponse(m)
    \/ \E i \in DOMAIN requests : Finish(i)
    \/ Tick

Spec == Init /\ [][Next]_vars

-----------------------------------------------------------------------------
(* Properties *)

\* Every variable has its type, and a tombstone holds no value.
TypeOK ==
    /\ \A n \in Nodes, k \in Keys : IsTombstone(data[n][k]) => data[n][k].value = None
    /\ start \in Starts /\ data \in [Nodes -> Digest] /\ now \in 0..start.maxNow
    /\ indexed \subseteq Nodes /\ lasting \subseteq Nat /\ acked \subseteq Entry
    /\ undercuts \subseteq Entry \X Entry
    /\ \A i \in DOMAIN requests : requests[i] \in Request
    /\ wire \subseteq Message

\* e may have been lost: a node that held e, or something newer, has replaced it by
\* a write of its own that is older than e.
Undercut(e) == \E u \in undercuts : GT(e, u[1]) /\ ~GT(e, u[2])

\* Quorum reads: when w + r exceeds the number of replicas, a quorum_get that
\* got all its answers returns a version no older than every write that a full
\* quorum had acknowledged when it began, whatever is written, timed out, lost
\* or late meanwhile and whatever the clocks read; except for a write that a node
\* with a slower clock has replaced by an older one of its own (Undercut), which
\* store.set does not prevent.
QuorumReads ==
    \A i \in DOMAIN requests :
        LET r == requests[i] IN
        r.kind = "get" /\ ~r.open /\ r.answers + 1 >= start.r
        => \A e \in r.floor : ~Undercut(e) => r.best # None /\ ~GT(e, r.best)

\* query_index answers what scan shows, at a node that is the only one to write
\* and has called create_index, and at its up-to-date replicas whose clocks are
\* not behind (there a value lives longer than the index was told).
IndexAgrees ==
    \A n \in start.locals, p \in Nodes :
        /\ start.locals = {n} /\ start.quorums = {} /\ n \in indexed
        /\ data[p] = data[n] /\ start.skew[p] >= start.skew[n]
        => \A v \in UserValues : QueryIndex(data[p], v, Clock(p)) <=> v \in Scan(data[p], Clock(p))

\* "Store value at key, optionally expiring ttl seconds later" (put): no replica
\* takes a value for expired that was stored without a ttl.
OnlyTtlExpires ==
    \A n \in Nodes :
        Live(data[n][Val]) /\ data[n][Val].ts \in lasting => ~Expired(data[n], Clock(n))

\* That is so as long as one node is the only writer and uses put: whatever it
\* stored and reaped before, and in whatever order its replicas heard of it,
\* the expiry of an earlier value does not reach a later one.
PutsLast == start.quorums = {} /\ Cardinality(start.locals) = 1 => OnlyTtlExpires
=============================================================================
