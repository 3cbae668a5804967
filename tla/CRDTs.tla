------------------------------- MODULE CRDTs -------------------------------
(***************************************************************************)
(* The state-based data types of suprime/crdt.py and suprime/rga.py: the   *)
(* state of one object of each type, what its operations do to it, and     *)
(* merge.  Python dicts are functions that are 0 or None where the dict    *)
(* has no key; the lists of MVRegister are sets (values() of two equal     *)
(* registers can differ in their order).  Of an LWWMap one key is kept,    *)
(* and the elements of an RGA are told apart by their ids alone.           *)
(***************************************************************************)
EXTENDS Sums, Sequences

SX == INSTANCE SequencesExt

CONSTANTS
    Nodes,
    Elements,       \* the elements of an ORSet
    None

ASSUME NodesAssumption == Nodes \subseteq Nat /\ IsFiniteSet(Nodes)

Kinds == {"GCounter", "PNCounter", "ORSet", "LWWMap", "MVRegister", "RGA"}

Zero == [n \in Nodes |-> 0]

\* The state of a fresh object.
Fresh(kind) ==
    CASE kind = "GCounter"   -> [p |-> Zero]
      [] kind = "PNCounter"  -> [p |-> Zero, n |-> Zero]
      [] kind = "ORSet"      -> [adds |-> {}, removed |-> {}, counter |-> 0]
      [] kind = "LWWMap"     -> [entry |-> None]
      [] kind = "MVRegister" -> [versions |-> {}, vc |-> Zero]
      [] kind = "RGA"        -> [elems |-> {}, deleted |-> {}, counter |-> 0]

MapEntry == [value : Nat, ts : Nat, origin : Nodes]

RegisterVersion == [value : Nat, vc : [Nodes -> Nat]]

AddTag == Nodes \X Nat

\* What the objects of each type but RGA are made of.
State(kind) ==
    CASE kind = "GCounter"   -> [p : [Nodes -> Nat]]
      [] kind = "PNCounter"  -> [p : [Nodes -> Nat], n : [Nodes -> Nat]]
      [] kind = "ORSet"      -> [adds : SUBSET (Elements \X AddTag), removed : SUBSET AddTag, counter : Nat]
      [] kind = "LWWMap"     -> [entry : MapEntry \cup {None}]
      [] kind = "MVRegister" -> [versions : SUBSET RegisterVersion, vc : [Nodes -> Nat]]

-----------------------------------------------------------------------------
(* GCounter and PNCounter, and VectorClock, which counts alike *)

Increment(c, n, amount) == [c EXCEPT ![n] = @ + amount]

\* GCounter.merge and VectorClock.merge.
JoinCounts(c, d) == [n \in Nodes |-> IF d[n] > c[n] THEN d[n] ELSE c[n]]

Total(c) == SumOf(c)

\* A PNCounter is a pair of GCounters.
JoinPairs(s, d) == [p |-> JoinCounts(s.p, d.p), n |-> JoinCounts(s.n, d.n)]

\* VectorClock.compare.
Compare(c, d) ==
    LET less == \E n \in Nodes : c[n] < d[n]
        greater == \E n \in Nodes : c[n] > d[n]
    IN  CASE less /\ greater -> "concurrent"
          [] less /\ ~greater -> "before"
          [] ~less /\ greater -> "after"
          [] OTHER -> "equal"

-----------------------------------------------------------------------------
(* ORSet: adds holds pairs of an element and a tag *)

Add(s, n, e) == [s EXCEPT !.counter = @ + 1, !.adds = @ \cup {<<e, <<n, s.counter + 1>>>>}]

RemoveObserved(s, e) == [s EXCEPT !.removed = @ \cup {a[2] : a \in {b \in s.adds : b[1] = e}}]

Contents(s) == {a[1] : a \in {b \in s.adds : b[2] \notin s.removed}}

JoinSets(s, d) == [s EXCEPT !.adds = @ \cup d.adds, !.removed = @ \cup d.removed]

-----------------------------------------------------------------------------
(* LWWMap and MVRegister *)

NewerThan(e, f) == e.ts > f.ts \/ (e.ts = f.ts /\ e.origin > f.origin)

JoinMaps(s, d) ==
    IF d.entry # None /\ (s.entry = None \/ NewerThan(d.entry, s.entry)) THEN d ELSE s

WriteRegister(s, n, v) ==
    LET vc == Increment(s.vc, n, 1) IN [versions |-> {[value |-> v, vc |-> vc]}, vc |-> vc]

\* What merge keeps: the causal maxima.
Undominated(V) == {v \in V : \A w \in V : Compare(v.vc, w.vc) # "before"}

JoinRegisters(s, d) ==
    [versions |-> Undominated(s.versions \cup d.versions), vc |-> JoinCounts(s.vc, d.vc)]

-----------------------------------------------------------------------------
(* RGA: an id is a counter and a node, ordered in this way *)

Root == <<0, None>>

After(i, j) == i[1] > j[1] \/ (i[1] = j[1] /\ i[2] > j[2])

\* _visible_ids: among the children of an element the higher id comes first.
VisibleIds(s) ==
    LET walk[p \in {Root} \cup {e.id : e \in s.elems}] ==
            LET children == {e.id : e \in {x \in s.elems : x.after = p}}
                Visit(order, c) ==
                    order \o (IF c \in s.deleted THEN <<>> ELSE <<c>>) \o walk[c]
            IN  SX!FoldLeft(Visit, <<>>, SX!SetToSortSeq(children, After))
    IN  walk[Root]

\* insert, which makes the new element the i-th of the visible ones.
Insert(s, n, i) ==
    LET id == <<s.counter + 1, n>>
        after == IF i > 1 THEN VisibleIds(s)[i - 1] ELSE Root
    IN  [s EXCEPT !.counter = @ + 1, !.elems = @ \cup {[id |-> id, after |-> after]}]

DeleteAt(s, i) == [s EXCEPT !.deleted = @ \cup {VisibleIds(s)[i]}]

JoinRGA_OwnCounter(s, d) == [s EXCEPT !.elems = @ \cup d.elems, !.deleted = @ \cup d.deleted]

\* RGA.merge, with the counter that _apply_insert raises past every id it sees.
JoinRGA(s, d) ==
    LET counters == {s.counter} \cup {e.id[1] : e \in d.elems} IN
    [elems |-> s.elems \cup d.elems, deleted |-> s.deleted \cup d.deleted,
     counter |-> CHOOSE c \in counters : \A b \in counters : b <= c]

-----------------------------------------------------------------------------
\* digest: the counters that ids are made of are not sent.
DigestOf(kind, s) == IF kind \in {"ORSet", "RGA"} THEN [s EXCEPT !.counter = 0] ELSE s

\* merge, and apply_digest.
Merge(kind, s, d) ==
    CASE kind = "GCounter"   -> [p |-> JoinCounts(s.p, d.p)]
      [] kind = "PNCounter"  -> JoinPairs(s, d)
      [] kind = "ORSet"      -> JoinSets(s, d)
      [] kind = "LWWMap"     -> JoinMaps(s, d)
      [] kind = "MVRegister" -> JoinRegisters(s, d)
      [] kind = "RGA"        -> JoinRGA(s, d)

\* What an application reads: value, elements, get, values and the visible ids.
Read(kind, s) ==
    CASE kind = "GCounter"   -> Total(s.p)
      [] kind = "PNCounter"  -> Total(s.p) - Total(s.n)
      [] kind = "ORSet"      -> Contents(s)
      [] kind = "LWWMap"     -> IF s.entry = None THEN None ELSE s.entry.value
      [] kind = "MVRegister" -> {v.value : v \in s.versions}
      [] kind = "RGA"        -> {VisibleIds(s)[i] : i \in DOMAIN VisibleIds(s)}
=============================================================================
