-------------------------- MODULE PersistenceProofs --------------------------
(***************************************************************************)
(* Proofs about Persistence, for every set of keys and values, every       *)
(* snapshot_every and any number of crashes.                               *)
(*                                                                         *)
(* Durability speaks of the moment a node is up, and says nothing of the   *)
(* disk that a crash leaves it with.  What carries it from one life of the *)
(* node to the next is DiskInv: the disk alone determines a recovery that  *)
(* loses nothing.  The hard case is a purged key.  Its tombstone is on the *)
(* log but no longer in memory, so that the next snapshot lacks it, while  *)
(* older records of the key stay on the log until it is truncated.  A      *)
(* crash in between would bring the key back, were it not that a log with  *)
(* a record of a key also has one as new as the last commit (LogCovers).   *)
(***************************************************************************)
EXTENDS Persistence, TLAPS

\* e is not newer than f.
Leq(e, f) == ~GT(e, f)

\* The lines of the log, its tail included.
Logged == {wal[i] : i \in 1..Len(wal)} \cup {tail}

\* The log, or the disk, holds the entry e for key k.
OnLog(k, e) == [key |-> k, entry |-> e] \in Logged
OnDisk(k, e) == snap[k] = e \/ OnLog(k, e)

-----------------------------------------------------------------------------
(* The inductive invariants *)

\* The counter is below its limit whenever a commit may start, and a new life
\* counts from 0.
CounterInv ==
    /\ pc \notin {"snapshot", "truncate"} => since < SnapshotEvery
    /\ pc \in {"down", "replay"} => since = 0

\* What a life appends to the log, it counts.
LogInv == crashes \in Nat /\ Len(wal) <= SnapshotEvery * crashes + since

\* Only the tail of a log that was never glued fails to parse.
LogParses == \A i \in 1..Len(wal) : wal[i] \in Record

\* The disk has an entry as new as the last commit of every key, or it has
\* nothing at all of a key whose last commit deleted it.
DiskCovers ==
    \A k \in Keys : acked[k] # None =>
        \/ \E e \in Entry : OnDisk(k, e) /\ Leq(acked[k], e)
        \/ acked[k].deleted /\ \A e \in Entry : ~OnDisk(k, e)

\* So has the log, of every key it has a record of.
LogCovers ==
    \A k \in Keys : acked[k] # None /\ (\E e \in Entry : OnLog(k, e)) =>
        \E e \in Entry : OnLog(k, e) /\ Leq(acked[k], e)

\* A snapshot holds nothing newer than the last commit.
SnapshotCommitted ==
    \A k \in Keys : snap[k] # None => acked[k] # None /\ Leq(snap[k], acked[k])

\* A version names one write of a key, on the disk or acknowledged.
VersionsAgree ==
    \A k \in Keys : \A e, f \in Entry :
        /\ OnDisk(k, e) \/ acked[k] = e
        /\ OnDisk(k, f) \/ acked[k] = f
        /\ Leq(e, f) /\ Leq(f, e)
        => e = f

\* While the node runs, the disk holds nothing newer than the last commit.
DiskCommitted ==
    pc \notin {"down", "replay"} => \A k \in Keys, e \in Entry :
        OnDisk(k, e) => acked[k] # None /\ Leq(e, acked[k])

\* The store holds the last commit of every key, unless it was purged, or the
\* entry that is being logged: a newer one, or the purged one come back.
MemoryCommitted ==
    pc \notin {"down", "replay"} => \A k \in Keys :
        IF pc = "log" /\ at.key = k THEN mem[k] = acked[k] \/ Supersedes(mem[k], acked[k])
        ELSE IF mem[k] = None THEN acked[k] # None => acked[k].deleted
        ELSE mem[k] = acked[k]

\* The log is truncated when all of memory is in the snapshot.
SnapshotTaken == pc = "truncate" => snap = mem

\* Recovery has merged the snapshot and the lines it has read, and no more.
ReplayInv ==
    pc = "replay" =>
        /\ at <= Len(Lines)
        /\ \A i \in 1..at : Lines[i] \in Record
        /\ \A k \in Keys :
              /\ mem[k] # None => OnDisk(k, mem[k])
              /\ snap[k] # None => mem[k] # None /\ Leq(snap[k], mem[k])
              /\ \A i \in 1..at : Lines[i].key = k =>
                    mem[k] # None /\ Leq(Lines[i].entry, mem[k])

DiskInv ==
    /\ LogParses /\ DiskCovers /\ LogCovers /\ SnapshotCommitted /\ VersionsAgree
    /\ DiskCommitted /\ MemoryCommitted /\ SnapshotTaken /\ ReplayInv

DurableInv == ~glued => DiskInv

-----------------------------------------------------------------------------
(* Operators *)

\* Loading a snapshot into an empty store is a copy of it.
LEMMA LoadIsCopy == ASSUME NEW d \in Digest PROVE MergeDigest(Empty, d) = d
BY DEF MergeDigest, MergeEntry, Supersedes, Empty, Digest

\* The lines that recovery reads are lines, and are those of the log.
LEMMA LinesType ==
    ASSUME TypeOK
    PROVE  /\ Lines \in Seq(Line)
           /\ Len(Lines) = IF tail = None THEN Len(wal) ELSE Len(wal) + 1
           /\ \A i \in 1..Len(wal) : Lines[i] = wal[i]
           /\ tail # None => Lines[Len(wal) + 1] = tail
BY DEF TypeOK, Lines

\* _next_version is past every version of our own.
LEMMA NextTsType ==
    ASSUME NEW c \in Nat, NEW h \in Nat
    PROVE  NextTs(c, h) \in Nat /\ NextTs(c, h) > h
BY DEF NextTs

\* The entry that a commit stores is an entry, and is the one it then logs.
LEMMA CommitType ==
    ASSUME TypeOK, NEW k \in Keys, NEW e \in Entry, StartCommit(k, e)
    PROVE  /\ mem' \in Digest /\ mem'[k] = e /\ \A j \in Keys \ {k} : mem'[j] = mem[j]
           /\ pc' = "log" /\ at' \in Record /\ at'.key = k /\ at'.entry = e
BY DEF TypeOK, StartCommit, Digest, Record

\* What peers send is an entry, also when it comes back from them.
LEMMA IncomingType ==
    ASSUME TypeOK, NEW k \in Keys, NEW e \in Incoming(k)
    PROVE  e \in Entry
BY RemoteAssumption DEF Incoming, TypeOK, Digest

-----------------------------------------------------------------------------
(* Type correctness and the counter *)

TypeInv == TypeOK /\ CounterInv

\* Every step keeps the types, and the counter below snapshot_every.
LEMMA TypeStep == TypeInv /\ [Next]_vars => TypeInv'
<1> SUFFICES ASSUME TypeInv, [Next]_vars PROVE TypeInv'
  OBVIOUS
<1> USE DEF TypeInv, CounterInv
<1>0. SnapshotEvery \in Nat /\ SnapshotEvery > 0
  BY EveryAssumption
<1>1. CASE LoadSnapshot
  <2>1. mem' \in Digest
    BY <1>1, LoadIsCopy DEF LoadSnapshot, TypeOK
  <2>2. highest' \in Nat
    BY <1>1 DEF LoadSnapshot, TypeOK, OwnStamps, Digest, Entry
  <2> QED
    BY <1>0, <1>1, <2>1, <2>2 DEF LoadSnapshot, TypeOK, disk, ghosts
<1>2. CASE ReplayLine
  <2>1. Lines[at + 1] \in Record /\ at \in Nat
    BY <1>2, LinesType DEF ReplayLine, Line, TypeOK
  <2>2. mem' \in Digest /\ highest' \in Nat
    BY <1>2, <2>1 DEF ReplayLine, Merged, MergeEntry, RaisedBy, TypeOK, Record, Digest, Entry
  <2> QED
    BY <1>2, <2>1, <2>2 DEF ReplayLine, TypeOK, disk, ghosts
<1>3. CASE Attach
  <2>1. acked' \in Digest
    BY <1>3 DEF Attach, TypeOK, MergeDigest, MergeEntry, Digest
  <2> QED
    BY <1>3, <2>1 DEF Attach, TypeOK, disk
<1>4. ASSUME NEW k \in Keys, NEW v \in Values \cup {None}, NEW reading \in 0..MaxTs,
             LocalWrite(k, v, reading)
      PROVE  TypeInv'
  <2> DEFINE ts == NextTs(reading, highest)
             e == NewEntry(v, ts, Self, v = None)
  <2>1. reading \in Nat /\ highest \in Nat
    BY DEF TypeOK
  <2>2. ts \in Nat
    BY <2>1, NextTsType
  <2>3. e \in Entry
    BY <2>2, SelfAssumption DEF NewEntry, Entry
  <2>4. StartCommit(k, e) /\ highest' = ts /\ pc = "up"
    BY <1>4 DEF LocalWrite
  <2> HIDE DEF ts, e
  <2> QED
    BY <2>2, <2>3, <2>4, CommitType DEF StartCommit, TypeOK, disk, ghosts
<1>5. ASSUME NEW k \in Keys, NEW e \in Incoming(k), MergeRemote(k, e)
      PROVE  TypeInv'
  <2>1. e \in Entry
    BY IncomingType
  <2>2. highest' \in Nat
    BY <1>5, <2>1 DEF MergeRemote, RaisedBy, TypeOK, Entry
  <2>3. pc = "up" /\ StartCommit(k, e)
    BY <1>5 DEF MergeRemote
  <2> QED
    BY <2>1, <2>2, <2>3, CommitType DEF StartCommit, TypeOK, disk, ghosts
<1>6. CASE LogRecord
  <2>1. Follow(at) \in Line
    BY <1>6 DEF LogRecord, Follow, Line, TypeOK
  <2>2. wal' \in Seq(Line) /\ tail' = None
    BY <1>6, <2>1 DEF LogRecord, TypeOK
  <2>3. acked' \in Digest
    BY <1>6 DEF LogRecord, TypeOK, Digest, Record
  <2> QED
    BY <1>0, <1>6, <2>2, <2>3 DEF LogRecord, TypeOK
<1>7. CASE ReplaceSnapshot
  BY <1>7 DEF ReplaceSnapshot, TypeOK, ghosts
<1>8. CASE TruncateLog
  BY <1>0, <1>8 DEF TruncateLog, TypeOK, ghosts
<1>9. ASSUME NEW k \in Keys, CollectGarbage(k) PROVE TypeInv'
  BY <1>9 DEF CollectGarbage, TypeOK, Digest, disk, ghosts
<1>10. CASE Stop
  BY <1>10 DEF Stop, TypeOK, disk, ghosts
<1>11. CASE Crash
  <2>1. wal' \in Seq(Line) /\ tail' \in Line \cup {None}
    <3>1. pc = "log" => Follow(at) \in Line
      BY DEF Follow, Line, TypeOK
    <3>2. Garbled \in Line
      BY DEF Line
    <3> QED
      BY <1>11, <3>1, <3>2 DEF Crash, TornWrite, TypeOK
  <2>2. Empty \in Digest
    BY DEF Empty, Digest
  <2>3. glued' \in BOOLEAN
    BY <1>11 DEF Crash
  <2>4. 0 \in 0..SnapshotEvery /\ 0 < SnapshotEvery
    BY <1>0
  <2> QED
    BY <1>11, <2>1, <2>2, <2>3, <2>4 DEF Crash, TypeOK
<1>12. CASE UNCHANGED vars
  BY <1>12 DEF vars, TypeOK
<1> QED
  BY <1>1, <1>2, <1>3, <1>4, <1>5, <1>6, <1>7, <1>8, <1>9, <1>10, <1>11, <1>12 DEF Next

\* The node starts with empty files.
LEMMA TypeInit == Init => TypeInv
<1>1. Empty \in Digest
  BY DEF Empty, Digest
<1>2. 0 \in Nat /\ 0 \in 0..SnapshotEvery /\ 0 < SnapshotEvery
  BY EveryAssumption
<1>3. <<>> \in Seq(Line)
  OBVIOUS
<1> QED
  BY <1>1, <1>2, <1>3 DEF Init, TypeInv, TypeOK, CounterInv

\* The invariant the other proofs build on.
LEMMA TypeInvariant == Spec => []TypeInv
<1>1. Init => TypeInv
  BY TypeInit
<1> QED
  BY <1>1, TypeStep, PTL DEF Spec

\* Type correctness, in which the counter of _on_commit never passes
\* snapshot_every and the record being logged is the entry in memory, needs to
\* know that a commit only starts below the limit.
THEOREM PersistenceTypeCorrect == Spec => []TypeOK
BY TypeInvariant, PTL DEF TypeInv

-----------------------------------------------------------------------------
(* The node's own timestamps *)

\* A node's write supersedes its own earlier value after any number of
\* restarts: _highest_ts is at least every timestamp of its own in the store.
THEOREM OwnEntriesCorrect == Spec => []OwnEntriesBelowHighest
<1>1. Init => OwnEntriesBelowHighest
  BY DEF Init, OwnEntriesBelowHighest, Empty
<1>2. TypeInv /\ OwnEntriesBelowHighest /\ [Next]_vars => OwnEntriesBelowHighest'
  <2> SUFFICES ASSUME TypeOK, OwnEntriesBelowHighest, [Next]_vars
               PROVE  OwnEntriesBelowHighest'
    BY DEF TypeInv
  <2> USE DEF OwnEntriesBelowHighest
  <2>1. CASE LoadSnapshot
    <3>1. mem' = snap /\ snap \in Digest
      BY <2>1, LoadIsCopy DEF LoadSnapshot, TypeOK
    <3>2. \A k \in Keys : snap[k] # None /\ snap[k].origin = Self =>
              snap[k].ts \in OwnStamps(Self, 0, Empty, snap)
      BY DEF OwnStamps, Supersedes, Empty
    <3> QED
      BY <2>1, <3>1, <3>2 DEF LoadSnapshot, IsMaxOf
  <2>2. CASE ReplayLine
    <3> DEFINE rec == Lines[at + 1]
    <3>1. rec \in Record
      BY <2>2, LinesType DEF ReplayLine, Line, TypeOK
    <3>2. mem' = Merged(rec) /\ highest' = RaisedBy(rec)
      BY <2>2 DEF ReplayLine
    <3> HIDE DEF rec
    <3>3. /\ rec.key \in Keys /\ rec.entry \in Entry /\ rec.entry.ts \in Nat
          /\ mem \in Digest /\ highest \in Nat
      BY <3>1 DEF Record, Entry, TypeOK
    <3>4. highest' \in Nat /\ highest' >= highest
      BY <3>2, <3>3 DEF RaisedBy
    <3>5. ASSUME NEW k \in Keys, mem'[k] # None, mem'[k].origin = Self
          PROVE  mem'[k].ts <= highest'
      <4>1. CASE mem'[k] = mem[k]
        BY <3>3, <3>4, <3>5, <4>1 DEF Digest, Entry
      <4>2. CASE mem'[k] # mem[k]
        <5>1. k = rec.key /\ mem'[k] = rec.entry /\ Supersedes(rec.entry, mem[k])
          BY <3>2, <3>3, <4>2 DEF Merged, MergeEntry, Digest
        <5> QED
          BY <3>2, <3>3, <3>5, <5>1 DEF RaisedBy
      <4> QED
        BY <4>1, <4>2
    <3> QED
      BY <3>5
  <2>3. ASSUME NEW k \in Keys, NEW v \in Values \cup {None}, NEW reading \in 0..MaxTs,
               LocalWrite(k, v, reading)
        PROVE  OwnEntriesBelowHighest'
    <3> DEFINE ts == NextTs(reading, highest)
               e == NewEntry(v, ts, Self, v = None)
    <3>0. reading \in Nat /\ highest \in Nat
      BY DEF TypeOK
    <3>1. ts \in Nat /\ ts > highest
      BY <3>0, NextTsType
    <3>2. mem' = [mem EXCEPT ![k] = e] /\ highest' = ts /\ e.ts = ts
      BY <2>3 DEF LocalWrite, StartCommit, NewEntry
    <3> HIDE DEF e, ts
    <3> QED
      BY <3>1, <3>2 DEF TypeOK, Digest, Entry
  <2>4. ASSUME NEW k \in Keys, NEW e \in Incoming(k), MergeRemote(k, e)
        PROVE  OwnEntriesBelowHighest'
    <3>1. e \in Entry /\ e.ts \in Nat /\ highest \in Nat /\ mem \in Digest
      BY IncomingType DEF Entry, TypeOK
    <3>2. mem' = [mem EXCEPT ![k] = e] /\ highest' = RaisedBy([key |-> k, entry |-> e])
      BY <2>4 DEF MergeRemote, StartCommit
    <3>3. Supersedes(e, mem[k])
      BY <2>4 DEF MergeRemote
    <3>4. highest' \in Nat /\ highest' >= highest /\ (e.origin = Self => e.ts <= highest')
      BY <3>1, <3>2, <3>3 DEF RaisedBy
    <3>5. ASSUME NEW j \in Keys, j # k, mem[j] # None, mem[j].origin = Self
          PROVE  mem[j].ts <= highest'
      BY <3>1, <3>4, <3>5 DEF Digest, Entry
    <3>6. mem'[k] = e /\ \A j \in Keys \ {k} : mem'[j] = mem[j]
      BY <3>1, <3>2 DEF Digest
    <3> QED
      BY <3>4, <3>5, <3>6
  <2>5. ASSUME NEW k \in Keys, CollectGarbage(k) PROVE OwnEntriesBelowHighest'
    BY <2>5 DEF CollectGarbage, TypeOK, Digest
  <2>6. CASE Crash
    BY <2>6 DEF Crash, Empty
  <2>7. CASE Attach \/ LogRecord \/ ReplaceSnapshot \/ TruncateLog \/ Stop \/ UNCHANGED vars
    BY <2>7 DEF Attach, LogRecord, ReplaceSnapshot, TruncateLog, Stop, vars
  <2> QED
    BY <2>1, <2>2, <2>3, <2>4, <2>5, <2>6, <2>7 DEF Next
<1> QED
  BY <1>1, <1>2, TypeInvariant, PTL DEF Spec

-----------------------------------------------------------------------------
(* The length of the log *)

\* The log never holds more than snapshot_every records for each life of the
\* node.  It may hold that many for each: counting restarts with every recovery.
THEOREM LogBounded == Spec => []LogGrowsWithCrashes
<1>1. Init => LogInv
  BY EveryAssumption DEF Init, LogInv
<1>2. TypeInv /\ LogInv /\ [Next]_vars => LogInv'
  <2> SUFFICES ASSUME TypeInv, LogInv, [Next]_vars PROVE LogInv'
    OBVIOUS
  <2> DEFINE Earlier == SnapshotEvery * crashes
  <2>1. /\ SnapshotEvery \in Nat /\ since \in Nat /\ wal \in Seq(Line)
        /\ crashes \in Nat /\ Len(wal) <= Earlier + since
    BY EveryAssumption DEF TypeInv, TypeOK, LogInv
  <2>2. Earlier \in Nat
    BY <2>1
  <2>3. Len(wal) \in Nat /\ \A x : Len(Append(wal, x)) = Len(wal) + 1
    BY <2>1
  <2>4. CASE LogRecord
    <3>1. Len(wal') = Len(wal) + 1 /\ since' = since + 1 /\ crashes' = crashes
      BY <2>3, <2>4 DEF LogRecord
    <3> QED
      BY <2>1, <2>2, <2>3, <3>1 DEF LogInv
  <2>5. CASE Crash
    <3>1. /\ Len(wal') = Len(wal) \/ (pc = "log" /\ Len(wal') = Len(wal) + 1)
          /\ since' = 0 /\ crashes' = crashes + 1
      BY <2>3, <2>5 DEF Crash, TornWrite
    <3>2. SnapshotEvery * (crashes + 1) = Earlier + SnapshotEvery
      BY <2>1
    <3>3. since <= SnapshotEvery /\ (pc = "log" => since < SnapshotEvery)
      BY DEF TypeInv, TypeOK, CounterInv
    <3> HIDE DEF Earlier
    <3>4. Len(wal') <= Earlier + SnapshotEvery
      BY <2>1, <2>2, <2>3, <3>1, <3>3
    <3> QED
      BY <2>1, <2>2, <3>1, <3>2, <3>4 DEF LogInv
  <2>6. CASE TruncateLog
    <3>1. Len(wal') = 0 /\ since' = 0 /\ crashes' = crashes
      BY <2>6 DEF TruncateLog
    <3> QED
      BY <2>1, <2>2, <3>1 DEF LogInv
  <2>7. CASE LoadSnapshot
    <3>1. since = 0
      BY <2>7 DEF LoadSnapshot, TypeInv, CounterInv
    <3> QED
      BY <2>7, <3>1 DEF LoadSnapshot, LogInv, disk
  <2>8. CASE ReplayLine \/ Attach \/ ReplaceSnapshot \/ Stop \/ UNCHANGED vars
    BY <2>8 DEF ReplayLine, Attach, ReplaceSnapshot, Stop, vars, disk, LogInv
  <2>9. ASSUME NEW k, NEW v, NEW reading, LocalWrite(k, v, reading) PROVE LogInv'
    BY <2>9 DEF LocalWrite, StartCommit, disk, LogInv
  <2>10. ASSUME NEW k, NEW e, MergeRemote(k, e) PROVE LogInv'
    BY <2>10 DEF MergeRemote, StartCommit, disk, LogInv
  <2>11. ASSUME NEW k, CollectGarbage(k) PROVE LogInv'
    BY <2>11 DEF CollectGarbage, disk, LogInv
  <2> QED
    BY <2>4, <2>5, <2>6, <2>7, <2>8, <2>9, <2>10, <2>11 DEF Next
<1>3. TypeInv /\ LogInv => LogGrowsWithCrashes
  <2> SUFFICES ASSUME TypeInv, LogInv PROVE LogGrowsWithCrashes
    OBVIOUS
  <2>1. SnapshotEvery * (crashes + 1) = SnapshotEvery * crashes + SnapshotEvery
    BY EveryAssumption DEF LogInv
  <2>2. SnapshotEvery * crashes \in Nat /\ Len(wal) \in Nat
    BY EveryAssumption DEF LogInv, TypeInv, TypeOK
  <2> QED
    BY <2>1, <2>2, EveryAssumption DEF LogInv, LogGrowsWithCrashes, TypeInv, TypeOK
<1> QED
  BY <1>1, <1>2, <1>3, TypeInvariant, PTL DEF Spec

-----------------------------------------------------------------------------
(* Durability *)

DiskPart == LogParses /\ DiskCovers /\ LogCovers /\ SnapshotCommitted /\ VersionsAgree
MemoryPart == DiskCommitted /\ MemoryCommitted /\ SnapshotTaken /\ ReplayInv

\* Versions are totally preordered.
LEMMA LeqOrder ==
    /\ \A e \in Entry : Leq(e, e)
    /\ \A e, f \in Entry : GT(e, f) => Leq(f, e)
    /\ \A e, f, g \in Entry : Leq(e, f) /\ Leq(f, g) => Leq(e, g)
<1>1. \A e \in Entry : e.ts \in Nat /\ e.origin \in Nat
  BY NodesAssumption DEF Entry
<1> QED
  BY <1>1 DEF Leq, GT

\* What memory, the snapshot and the acknowledged entries hold, if anything.
LEMMA HeldType ==
    ASSUME TypeOK
    PROVE  \A k \in Keys : /\ mem[k] # None => mem[k] \in Entry
                           /\ snap[k] # None => snap[k] \in Entry
                           /\ acked[k] # None => acked[k] \in Entry
BY DEF TypeOK, Digest

\* A record that reaches the end of a whole log is on it, beside the others.
LEMMA RecordOnLog ==
    ASSUME TypeOK, LogParses, tail = None, NEW rec \in Record,
           \/ wal' = Append(wal, rec) /\ tail' = None
           \/ wal' = wal /\ tail' = rec
    PROVE  /\ LogParses'
           /\ \A k \in Keys, e \in Entry :
                 OnLog(k, e)' <=> OnLog(k, e) \/ rec = [key |-> k, entry |-> e]
<1>1. wal \in Seq(Line) /\ Len(wal) \in Nat
  BY DEF TypeOK
<1>2. \A k \in Keys, e \in Entry : [key |-> k, entry |-> e] \in Record
  BY DEF Record
<1>3. None \notin Record
  BY GarbledAssumption DEF Line
<1>4. CASE wal' = Append(wal, rec) /\ tail' = None
  <2>1. /\ Len(wal') = Len(wal) + 1
        /\ \A i \in 1..Len(wal) : wal'[i] = wal[i]
        /\ wal'[Len(wal) + 1] = rec
    BY <1>1, <1>4
  <2>2. 1..(Len(wal) + 1) = 1..Len(wal) \cup {Len(wal) + 1}
    BY <1>1
  <2>3. LogParses'
    BY <1>4, <2>1, <2>2 DEF LogParses
  <2>4. Logged' = Logged \cup {rec}
    BY <1>4, <2>1, <2>2 DEF Logged
  <2> QED
    BY <2>3, <2>4 DEF OnLog
<1>5. CASE wal' = wal /\ tail' = rec
  <2>1. LogParses'
    BY <1>5 DEF LogParses
  <2>2. Logged' \cup {None} = Logged \cup {rec}
    BY <1>5 DEF Logged
  <2> QED
    BY <1>2, <1>3, <2>1, <2>2 DEF OnLog
<1> QED
  BY <1>4, <1>5

\* A part of a record that does not parse changes nothing.
LEMMA GarbledOnLog ==
    ASSUME TypeOK, LogParses, tail = None, wal' = wal, tail' = Garbled
    PROVE  LogParses' /\ \A k \in Keys, e \in Entry : OnLog(k, e)' <=> OnLog(k, e)
<1>1. \A k \in Keys, e \in Entry :
          [key |-> k, entry |-> e] # None /\ [key |-> k, entry |-> e] # Garbled
  BY GarbledAssumption DEF Record, Line
<1>2. Logged' \cup {None} = Logged \cup {Garbled}
  BY DEF Logged
<1> QED
  BY <1>1, <1>2 DEF OnLog, LogParses

\* Steps that leave the disk and the acknowledged entries alone.
LEMMA DiskUnchanged ==
    ASSUME DiskPart, UNCHANGED <<snap, wal, tail, acked>>
    PROVE  DiskPart'
<1>1. Logged' = Logged
  BY DEF Logged
<1>2. \A k, e : (OnLog(k, e)' <=> OnLog(k, e)) /\ (OnDisk(k, e)' <=> OnDisk(k, e))
  BY <1>1 DEF OnLog, OnDisk
<1>3. LogParses' /\ SnapshotCommitted'
  BY DEF DiskPart, LogParses, SnapshotCommitted
<1>4. DiskCovers' /\ LogCovers' /\ VersionsAgree'
  BY <1>2 DEF DiskPart, DiskCovers, LogCovers, VersionsAgree
<1> QED
  BY <1>3, <1>4 DEF DiskPart

\* Recovery starts with a copy of the snapshot.
LEMMA LoadKeeps ==
    ASSUME TypeInv, TypeInv', DiskInv, LoadSnapshot PROVE DiskInv'
<1>1. DiskPart'
  BY DiskUnchanged DEF DiskInv, DiskPart, LoadSnapshot, disk, ghosts
<1>2. mem' = snap /\ at' = 0 /\ pc' = "replay" /\ UNCHANGED <<snap, wal, tail>>
  BY LoadIsCopy DEF LoadSnapshot, disk, TypeInv, TypeOK
<1>3. \A k \in Keys : snap[k] # None => Leq(snap[k], snap[k])
  BY LeqOrder, HeldType DEF TypeInv
<1>4. Len(Lines)' \in Nat
  BY LinesType, <1>2 DEF TypeInv, Lines
<1>5. ReplayInv'
  BY <1>2, <1>3, <1>4 DEF ReplayInv, OnDisk
<1>6. MemoryPart'
  BY <1>2, <1>5 DEF MemoryPart, DiskCommitted, MemoryCommitted, SnapshotTaken
<1> QED
  BY <1>1, <1>6 DEF DiskInv, DiskPart, MemoryPart

\* Recovery merges the next record.
LEMMA ReplayKeeps ==
    ASSUME TypeInv, TypeInv', DiskInv, ReplayLine PROVE DiskInv'
<1> DEFINE rec == Lines[at + 1]
<1>1. DiskPart'
  BY DiskUnchanged DEF DiskInv, DiskPart, ReplayLine, disk, ghosts
<1>2. /\ pc = "replay" /\ pc' = "replay" /\ at \in Nat /\ at' = at + 1 /\ at < Len(Lines)
      /\ UNCHANGED <<snap, wal, tail>> /\ mem \in Digest
  BY DEF ReplayLine, disk, TypeInv, TypeOK
<1>3. Lines' = Lines /\ Lines \in Seq(Line) /\ Len(Lines) \in Nat
  BY <1>2, LinesType DEF Lines, TypeInv
<1>4. rec \in Record /\ rec.key \in Keys /\ rec.entry \in Entry
  BY <1>2, <1>3 DEF ReplayLine, Line, Record
<1>5. rec \in Logged
  BY <1>2, <1>4, LinesType DEF Logged, TypeInv, TypeOK
<1>6. mem' = [mem EXCEPT ![rec.key] = MergeEntry(@, rec.entry)]
  BY DEF ReplayLine, Merged
<1>7. \A k, e : OnDisk(k, e)' <=> OnDisk(k, e)
  BY <1>2 DEF OnDisk, OnLog, Logged
<1> HIDE DEF rec
<1>8. ASSUME NEW k \in Keys
      PROVE  /\ mem'[k] # None => OnDisk(k, mem'[k])
             /\ mem[k] # None => mem'[k] # None /\ Leq(mem[k], mem'[k])
             /\ rec.key = k => mem'[k] # None /\ Leq(rec.entry, mem'[k])
  <2>1. mem[k] # None => mem[k] \in Entry /\ OnDisk(k, mem[k])
    BY <1>2, HeldType DEF DiskInv, ReplayInv, TypeInv
  <2>2. CASE k # rec.key
    BY <1>2, <1>6, <2>1, <2>2, LeqOrder DEF Digest
  <2>3. CASE k = rec.key
    <3>1. mem'[k] = MergeEntry(mem[k], rec.entry)
      BY <1>2, <1>4, <1>6, <2>3 DEF Digest
    <3>2. rec = [key |-> k, entry |-> rec.entry]
      BY <1>4, <2>3 DEF Record
    <3>3. OnDisk(k, rec.entry)
      BY <1>5, <3>2 DEF OnDisk, OnLog
    <3>4. CASE Supersedes(rec.entry, mem[k])
      <4>1. mem'[k] = rec.entry /\ rec.entry # None
        BY <1>4, <3>1, <3>4, NoneAssumption DEF MergeEntry
      <4>2. mem[k] # None => Leq(mem[k], rec.entry)
        BY <1>4, <2>1, <3>4, LeqOrder DEF Supersedes
      <4> QED
        BY <1>4, <3>3, <4>1, <4>2, LeqOrder
    <3>5. CASE ~Supersedes(rec.entry, mem[k])
      <4>1. mem'[k] = mem[k] /\ mem[k] # None /\ Leq(rec.entry, mem[k])
        BY <3>1, <3>5 DEF MergeEntry, Supersedes, Leq
      <4> QED
        BY <2>1, <4>1, LeqOrder
    <3> QED
      BY <3>4, <3>5
  <2> QED
    BY <2>2, <2>3
<1>9. ReplayInv'
  <2>1. at + 1 <= Len(Lines) /\ \A i \in 1..(at + 1) : i \in 1..at \/ i = at + 1
    BY <1>2, <1>3
  <2>2. \A i \in 1..(at + 1) : Lines[i] \in Record
    BY <1>2, <1>4, <2>1 DEF DiskInv, ReplayInv, rec
  <2>3. ASSUME NEW k \in Keys, snap[k] # None
        PROVE  mem'[k] # None /\ Leq(snap[k], mem'[k])
    <3>1. mem[k] # None /\ Leq(snap[k], mem[k])
      BY <1>2, <2>3 DEF DiskInv, ReplayInv
    <3>2. snap[k] \in Entry /\ mem[k] \in Entry
      BY <2>3, <3>1, HeldType DEF TypeInv
    <3>3. mem'[k] # None /\ Leq(mem[k], mem'[k])
      BY <1>8, <3>1
    <3>4. mem'[k] \in Entry
      BY <3>3 DEF TypeInv, TypeOK, Digest
    <3> QED
      BY <3>1, <3>2, <3>3, <3>4, LeqOrder
  <2>4. ASSUME NEW k \in Keys, NEW i \in 1..(at + 1), Lines[i].key = k
        PROVE  mem'[k] # None /\ Leq(Lines[i].entry, mem'[k])
    <3>1. CASE i = at + 1
      BY <1>8, <2>4, <3>1 DEF rec
    <3>2. CASE i \in 1..at
      <4>1. mem[k] # None /\ Leq(Lines[i].entry, mem[k]) /\ Lines[i].entry \in Entry
        BY <1>2, <2>2, <2>4, <3>2 DEF DiskInv, ReplayInv, Record
      <4>2. mem[k] \in Entry
        BY <4>1, HeldType DEF TypeInv
      <4>3. mem'[k] # None /\ Leq(mem[k], mem'[k])
        BY <1>8, <4>1
      <4>4. mem'[k] \in Entry
        BY <4>3 DEF TypeInv, TypeOK, Digest
      <4> QED
        BY <4>1, <4>2, <4>3, <4>4, LeqOrder
    <3> QED
      BY <2>1, <3>1, <3>2
  <2> QED
    BY <1>2, <1>3, <1>7, <1>8, <2>1, <2>2, <2>3, <2>4 DEF ReplayInv
<1>10. MemoryPart'
  BY <1>2, <1>9 DEF MemoryPart, DiskCommitted, MemoryCommitted, SnapshotTaken
<1> QED
  BY <1>1, <1>10 DEF DiskInv, DiskPart, MemoryPart

\* When replay ends, everything on the disk has been merged.
LEMMA AllReplayed ==
    ASSUME TypeInv, DiskInv, Attach
    PROVE  \A k \in Keys, e \in Entry : OnDisk(k, e) => mem[k] # None /\ Leq(e, mem[k])
<1>1. /\ pc = "replay" /\ at \in Nat /\ at <= Len(Lines)
      /\ at < Len(Lines) => Lines[at + 1] = Garbled
  BY DEF Attach, DiskInv, ReplayInv, TypeInv, TypeOK
<1>2. Len(wal) \in Nat /\ (tail = None \/ tail \in Line)
  BY DEF TypeInv, TypeOK
<1>3. Garbled \notin Record /\ None \notin Record
  BY GarbledAssumption DEF Line
<1>4. Len(wal) <= at
  <2>1. SUFFICES ASSUME at < Len(wal) PROVE FALSE
    BY <1>1, <1>2
  <2>2. at + 1 \in 1..Len(wal) /\ at < Len(Lines)
    BY <1>1, <1>2, <2>1, LinesType DEF TypeInv
  <2>3. Lines[at + 1] \in Record
    BY <2>2, LinesType DEF TypeInv, DiskInv, LogParses
  <2> QED
    BY <1>1, <1>3, <2>2, <2>3
<1>5. ASSUME NEW rec \in Record, rec \in Logged
      PROVE  \E i \in 1..at : Lines[i] = rec
  <2>1. CASE \E i \in 1..Len(wal) : wal[i] = rec
    BY <1>1, <1>2, <1>4, <2>1, LinesType DEF TypeInv
  <2>2. CASE tail = rec
    <3>1. tail # None /\ tail # Garbled
      BY <1>3, <2>2
    <3>2. Len(Lines) = Len(wal) + 1 /\ Lines[Len(wal) + 1] = rec
      BY <2>2, <3>1, LinesType DEF TypeInv
    <3>3. at = Len(wal) + 1
      BY <1>1, <1>2, <1>4, <2>2, <3>1, <3>2
    <3> QED
      BY <1>2, <3>2, <3>3
  <2> QED
    BY <1>5, <2>1, <2>2 DEF Logged
<1>6. ASSUME NEW k \in Keys, NEW e \in Entry, OnLog(k, e)
      PROVE  mem[k] # None /\ Leq(e, mem[k])
  <2> DEFINE rec == [key |-> k, entry |-> e]
  <2>1. rec \in Record /\ rec \in Logged /\ rec.key = k /\ rec.entry = e
    BY <1>6 DEF Record, OnLog
  <2>2. PICK i \in 1..at : Lines[i] = rec
    BY <1>5, <2>1
  <2> HIDE DEF rec
  <2> QED
    BY <1>1, <2>1, <2>2 DEF DiskInv, ReplayInv
<1> QED
  BY <1>1, <1>6, NoneAssumption DEF OnDisk, DiskInv, ReplayInv

\* When the store is attached it holds everything that was acknowledged, and
\* what it holds counts as acknowledged from then on.
LEMMA AttachKeeps ==
    ASSUME TypeInv, TypeInv', DiskInv, Attach PROVE DiskInv'
<1>1. pc = "replay" /\ pc' = "up" /\ UNCHANGED <<mem, snap, wal, tail>>
  BY DEF Attach, disk
<1>2. \A k, e : (OnLog(k, e)' <=> OnLog(k, e)) /\ (OnDisk(k, e)' <=> OnDisk(k, e))
  BY <1>1 DEF OnDisk, OnLog, Logged
<1>3. \A k \in Keys :
          /\ mem[k] # None => mem[k] \in Entry /\ OnDisk(k, mem[k])
          /\ snap[k] # None => snap[k] \in Entry /\ acked[k] # None /\ Leq(snap[k], acked[k])
          /\ acked[k] # None => acked[k] \in Entry
  BY <1>1, HeldType DEF TypeInv, DiskInv, ReplayInv, SnapshotCommitted
<1>4. ASSUME NEW k \in Keys, acked[k] # None
      PROVE  IF mem[k] = None THEN acked[k].deleted ELSE Leq(acked[k], mem[k])
  <2>1. CASE \E e \in Entry : OnDisk(k, e) /\ Leq(acked[k], e)
    BY <1>3, <1>4, <2>1, AllReplayed, LeqOrder
  <2>2. CASE acked[k].deleted /\ \A e \in Entry : ~OnDisk(k, e)
    BY <1>3, <2>2
  <2> QED
    BY <1>4, <2>1, <2>2 DEF DiskInv, DiskCovers
<1>5. ASSUME NEW k \in Keys
      PROVE  \/ /\ acked'[k] = acked[k]
                /\ mem[k] # None => acked[k] = mem[k]
             \/ /\ acked'[k] = mem[k] /\ mem[k] # None /\ OnLog(k, mem[k])
                /\ acked[k] # None => Leq(acked[k], mem[k])
  <2>1. acked'[k] = IF mem[k] = None THEN acked[k] ELSE MergeEntry(acked[k], mem[k])
    BY DEF Attach, MergeDigest
  <2>2. CASE mem[k] = None \/ ~Supersedes(mem[k], acked[k])
    <3>1. acked'[k] = acked[k]
      BY <2>1, <2>2 DEF MergeEntry
    <3>2. ASSUME mem[k] # None PROVE acked[k] = mem[k]
      <4>1. acked[k] # None /\ Leq(mem[k], acked[k])
        BY <2>2, <3>2 DEF Supersedes, Leq
      <4>2. Leq(acked[k], mem[k])
        BY <1>4, <3>2, <4>1
      <4> QED
        BY <1>3, <3>2, <4>1, <4>2 DEF DiskInv, VersionsAgree
    <3> QED
      BY <3>1, <3>2
  <2>3. CASE mem[k] # None /\ Supersedes(mem[k], acked[k])
    <3>1. acked'[k] = mem[k]
      BY <2>1, <2>3 DEF MergeEntry
    <3>2. mem[k] # snap[k]
      BY <1>3, <2>3 DEF Supersedes, Leq
    <3> QED
      BY <1>3, <1>4, <2>3, <3>1, <3>2 DEF OnDisk
  <2> QED
    BY <2>2, <2>3
<1>6. LogParses'
  BY <1>1 DEF DiskInv, LogParses
<1>7. DiskCovers'
  BY <1>2, <1>3, <1>5, LeqOrder DEF DiskInv, DiskCovers
<1>8. LogCovers'
  BY <1>2, <1>3, <1>5, LeqOrder DEF DiskInv, LogCovers
<1>9. SnapshotCommitted'
  BY <1>1, <1>3, <1>5, LeqOrder DEF SnapshotCommitted
<1>10. VersionsAgree'
  BY <1>2, <1>3, <1>5 DEF DiskInv, VersionsAgree
<1>11. DiskCommitted'
  BY <1>1, <1>2, <1>5, AllReplayed DEF DiskCommitted
<1>12. MemoryCommitted'
  BY <1>1, <1>4, <1>5 DEF MemoryCommitted
<1> QED
  BY <1>1, <1>6, <1>7, <1>8, <1>9, <1>10, <1>11, <1>12 DEF DiskInv, SnapshotTaken, ReplayInv

\* A commit starts: only memory changes, to something newer or to the last
\* commit.
LEMMA CommitKeeps ==
    ASSUME NoStaleEntries = TRUE, TypeInv, DiskInv, pc = "up",
           NEW k \in Keys, NEW e \in Entry, StartCommit(k, e)
    PROVE  DiskInv'
<1>1. DiskPart'
  BY DiskUnchanged DEF DiskInv, DiskPart, StartCommit, disk, ghosts
<1>2. /\ mem'[k] = e /\ \A j \in Keys \ {k} : mem'[j] = mem[j]
      /\ pc' = "log" /\ at'.key = k /\ acked' = acked
  BY CommitType DEF TypeInv, StartCommit, ghosts
<1>3. (e = acked[k] \/ Supersedes(e, acked[k])) /\ e # None
  BY NoneAssumption DEF StartCommit
<1>4. MemoryCommitted'
  BY <1>2, <1>3 DEF DiskInv, MemoryCommitted
<1>5. \A j, f : OnDisk(j, f)' <=> OnDisk(j, f)
  BY DEF StartCommit, disk, OnDisk, OnLog, Logged
<1>6. DiskCommitted'
  BY <1>2, <1>5 DEF DiskInv, DiskCommitted
<1> QED
  BY <1>1, <1>2, <1>4, <1>6 DEF DiskInv, DiskPart, SnapshotTaken, ReplayInv

\* The entry that is being logged is newer than what was acknowledged, and than
\* all of its key on the disk, or it is the same write.
LEMMA LoggingIsNew ==
    ASSUME TypeInv, DiskInv, pc = "log"
    PROVE  /\ at \in Record /\ at.key \in Keys /\ at.entry \in Entry /\ at.entry # None
           /\ mem[at.key] = at.entry /\ at = [key |-> at.key, entry |-> at.entry]
           /\ acked[at.key] # None =>
                 /\ Leq(acked[at.key], at.entry)
                 /\ Leq(at.entry, acked[at.key]) => acked[at.key] = at.entry
           /\ \A e \in Entry : OnDisk(at.key, e) =>
                 Leq(e, at.entry) /\ (Leq(at.entry, e) => e = at.entry)
<1>1. /\ at \in Record /\ at.key \in Keys /\ at.entry \in Entry
      /\ mem[at.key] = at.entry /\ at = [key |-> at.key, entry |-> at.entry]
  BY DEF TypeInv, TypeOK, Record
<1>2. at.entry # None
  BY <1>1, NoneAssumption
<1>3. at.entry = acked[at.key] \/ Supersedes(at.entry, acked[at.key])
  BY <1>1, <1>2 DEF DiskInv, MemoryCommitted
<1>4. ASSUME acked[at.key] # None
      PROVE  /\ acked[at.key] \in Entry /\ Leq(acked[at.key], at.entry)
             /\ at.entry = acked[at.key] \/ ~Leq(at.entry, acked[at.key])
  BY <1>1, <1>3, <1>4, HeldType, LeqOrder DEF Supersedes, TypeInv, Leq
<1>5. ASSUME NEW e \in Entry, OnDisk(at.key, e)
      PROVE  Leq(e, at.entry) /\ (Leq(at.entry, e) => e = at.entry)
  <2>1. acked[at.key] # None /\ Leq(e, acked[at.key])
    BY <1>1, <1>5 DEF DiskInv, DiskCommitted
  <2>2. CASE at.entry = acked[at.key]
    BY <1>1, <1>5, <2>1, <2>2 DEF DiskInv, VersionsAgree
  <2>3. CASE ~Leq(at.entry, acked[at.key])
    BY <1>1, <1>4, <2>1, <2>3, LeqOrder
  <2> QED
    BY <1>4, <2>1, <2>2, <2>3
<1> QED
  BY <1>1, <1>2, <1>3, <1>4, <1>5

\* A record that follows a whole log makes the disk cover it.
LEMMA LogKeeps ==
    ASSUME TypeInv, TypeInv', DiskInv, LogRecord, ~glued' PROVE DiskInv'
<1>1. tail = None /\ Follow(at) = at /\ pc = "log" /\ pc' \in {"up", "snapshot"}
  BY DEF LogRecord, Follow
<1> PICK k0 \in Keys, e0 \in Entry : k0 = at.key /\ e0 = at.entry
  BY <1>1, LoggingIsNew
<1>2. /\ wal' = Append(wal, at) /\ tail' = None /\ UNCHANGED <<mem, snap>>
      /\ acked'[k0] = e0 /\ \A k \in Keys \ {k0} : acked'[k] = acked[k]
  BY <1>1, LoggingIsNew DEF LogRecord, TypeInv, TypeOK, Digest
<1>3. /\ LogParses'
      /\ \A k \in Keys, e \in Entry :
            OnLog(k, e)' <=> OnLog(k, e) \/ at = [key |-> k, entry |-> e]
  BY <1>1, <1>2, LoggingIsNew, RecordOnLog DEF TypeInv, DiskInv
<1>4. OnLog(k0, e0)'
  BY <1>1, <1>3, LoggingIsNew
<1>5. \A k \in Keys \ {k0}, e \in Entry :
          (OnLog(k, e)' <=> OnLog(k, e)) /\ (OnDisk(k, e)' <=> OnDisk(k, e))
  BY <1>2, <1>3 DEF OnDisk
<1>6. Leq(e0, e0)
  BY <1>1, LoggingIsNew, LeqOrder
<1>7. DiskCovers'
  BY <1>1, <1>2, <1>4, <1>5, <1>6, LoggingIsNew DEF DiskInv, DiskCovers, OnDisk
<1>8. LogCovers'
  BY <1>1, <1>2, <1>4, <1>5, <1>6, LoggingIsNew DEF DiskInv, LogCovers
<1>9. SnapshotCommitted'
  <2>1. \A k \in Keys : snap[k] # None =>
            snap[k] \in Entry /\ acked[k] # None /\ acked[k] \in Entry /\ Leq(snap[k], acked[k])
    BY HeldType DEF TypeInv, DiskInv, SnapshotCommitted
  <2> QED
    BY <1>1, <1>2, <2>1, LoggingIsNew, LeqOrder DEF SnapshotCommitted
<1>10. \A e \in Entry : OnDisk(k0, e)' => OnDisk(k0, e) \/ e = e0
  BY <1>1, <1>2, <1>3, LoggingIsNew DEF OnDisk
<1>11. VersionsAgree'
  BY <1>1, <1>2, <1>5, <1>10, LoggingIsNew DEF DiskInv, VersionsAgree
<1>12. DiskCommitted'
  BY <1>1, <1>2, <1>5, <1>6, <1>10, LoggingIsNew DEF DiskInv, DiskCommitted
<1>13. MemoryCommitted'
  BY <1>1, <1>2, LoggingIsNew DEF DiskInv, MemoryCommitted
<1> QED
  BY <1>1, <1>3, <1>7, <1>8, <1>9, <1>11, <1>12, <1>13 DEF DiskInv, SnapshotTaken, ReplayInv

\* A snapshot may lack a purged key, of which the log then covers what it holds.
LEMMA SnapshotKeeps ==
    ASSUME TypeInv, TypeInv', DiskInv, ReplaceSnapshot PROVE DiskInv'
<1>1. /\ pc = "snapshot" /\ pc' = "truncate" /\ snap' = mem
      /\ UNCHANGED <<mem, wal, tail, acked>>
  BY DEF ReplaceSnapshot, ghosts
<1>2. \A k, e : OnLog(k, e)' <=> OnLog(k, e)
  BY <1>1 DEF OnLog, Logged
<1>3. LogParses' /\ LogCovers'
  BY <1>1, <1>2 DEF DiskInv, LogParses, LogCovers
<1>4. ASSUME NEW k \in Keys, acked[k] # None
      PROVE  \/ \E e \in Entry : OnDisk(k, e)' /\ Leq(acked[k], e)
             \/ acked[k].deleted /\ \A e \in Entry : ~OnDisk(k, e)'
  <2>1. IF mem[k] = None THEN acked[k].deleted ELSE mem[k] = acked[k]
    BY <1>1, <1>4 DEF DiskInv, MemoryCommitted
  <2>2. CASE mem[k] # None
    BY <1>1, <2>1, <2>2, HeldType, LeqOrder DEF OnDisk, TypeInv
  <2>3. CASE mem[k] = None /\ \E e \in Entry : OnLog(k, e)
    BY <1>2, <1>4, <2>3 DEF OnDisk, DiskInv, LogCovers
  <2>4. CASE mem[k] = None /\ ~\E e \in Entry : OnLog(k, e)
    BY <1>1, <1>2, <2>1, <2>4, NoneAssumption DEF OnDisk
  <2> QED
    BY <2>2, <2>3, <2>4
<1>5. DiskCovers'
  BY <1>1, <1>4 DEF DiskCovers
<1>6. \A k \in Keys : mem[k] # None => mem[k] = acked[k] /\ mem[k] \in Entry
  BY <1>1, HeldType DEF DiskInv, MemoryCommitted, TypeInv
<1>7. SnapshotCommitted'
  BY <1>1, <1>6, LeqOrder DEF SnapshotCommitted
<1>8. \A k \in Keys, e \in Entry : OnDisk(k, e)' => OnDisk(k, e) \/ acked[k] = e
  BY <1>1, <1>2, <1>6, NoneAssumption DEF OnDisk
<1>9. VersionsAgree'
  BY <1>1, <1>8 DEF DiskInv, VersionsAgree
<1>10. DiskCommitted'
  BY <1>1, <1>8, LeqOrder, NoneAssumption DEF DiskInv, DiskCommitted
<1>11. MemoryCommitted'
  BY <1>1 DEF DiskInv, MemoryCommitted
<1> QED
  BY <1>1, <1>3, <1>5, <1>7, <1>9, <1>10, <1>11 DEF DiskInv, SnapshotTaken, ReplayInv

\* Once the snapshot holds all of memory, the log is not needed.
LEMMA TruncateKeeps ==
    ASSUME TypeInv, TypeInv', DiskInv, TruncateLog PROVE DiskInv'
<1>1. /\ pc = "truncate" /\ pc' \in {"up", "down"} /\ snap = mem
      /\ wal' = <<>> /\ tail' = None /\ UNCHANGED <<mem, snap, acked>>
  BY DEF TruncateLog, ghosts, DiskInv, SnapshotTaken
<1>2. Logged' = {None} /\ LogParses'
  BY <1>1 DEF Logged, LogParses
<1>3. \A k \in Keys, e \in Entry : [key |-> k, entry |-> e] # None
  BY GarbledAssumption DEF Record, Line
<1>4. \A k \in Keys, e \in Entry : ~OnLog(k, e)' /\ (OnDisk(k, e)' <=> snap[k] = e)
  BY <1>1, <1>2, <1>3 DEF OnLog, OnDisk
<1>5. \A k \in Keys : acked[k] # None =>
          IF snap[k] = None THEN acked[k].deleted ELSE snap[k] = acked[k]
  BY <1>1 DEF DiskInv, MemoryCommitted
<1>6. DiskCovers' /\ LogCovers'
  BY <1>1, <1>4, <1>5, HeldType, LeqOrder, NoneAssumption DEF DiskCovers, LogCovers, TypeInv
<1>7. SnapshotCommitted'
  BY <1>1 DEF DiskInv, SnapshotCommitted
<1>8. VersionsAgree'
  BY <1>1, <1>4 DEF DiskInv, VersionsAgree, OnDisk
<1>9. DiskCommitted'
  BY <1>1, <1>4 DEF DiskInv, DiskCommitted, OnDisk
<1>10. MemoryCommitted'
  BY <1>1 DEF DiskInv, MemoryCommitted
<1> QED
  BY <1>1, <1>2, <1>6, <1>7, <1>8, <1>9, <1>10 DEF DiskInv, SnapshotTaken, ReplayInv

\* A purge only forgets a deleted key.
LEMMA PurgeKeeps ==
    ASSUME TypeInv, DiskInv, NEW k \in Keys, CollectGarbage(k) PROVE DiskInv'
<1>1. DiskPart'
  BY DiskUnchanged DEF DiskInv, DiskPart, CollectGarbage, disk, ghosts
<1>2. /\ pc = "up" /\ pc' = "up" /\ mem[k] # None /\ mem[k].deleted /\ acked' = acked
      /\ mem'[k] = None /\ \A j \in Keys \ {k} : mem'[j] = mem[j]
  BY DEF CollectGarbage, IsTombstone, ghosts, TypeInv, TypeOK, Digest
<1>3. \A j, f : OnDisk(j, f)' <=> OnDisk(j, f)
  BY DEF CollectGarbage, disk, OnDisk, OnLog, Logged
<1>4. DiskCommitted' /\ MemoryCommitted'
  BY <1>2, <1>3 DEF DiskInv, DiskCommitted, MemoryCommitted
<1> QED
  BY <1>1, <1>2, <1>4 DEF DiskInv, DiskPart, SnapshotTaken, ReplayInv

\* A crash leaves the log as it was, or with a torn or a whole record that was
\* not acknowledged and is newer than everything that was, or the same write.
LEMMA CrashKeeps ==
    ASSUME TypeInv, TypeInv', DiskInv, Crash, ~glued' PROVE DiskInv'
<1>1. pc' = "down" /\ snap' = snap /\ acked' = acked
  BY DEF Crash
<1>2. MemoryPart'
  BY <1>1 DEF MemoryPart, DiskCommitted, MemoryCommitted, SnapshotTaken, ReplayInv
<1>3. CASE wal' = wal /\ tail' = tail
  BY <1>1, <1>2, <1>3, DiskUnchanged DEF DiskInv, DiskPart, MemoryPart
<1>4. CASE ~(wal' = wal /\ tail' = tail)
  <2>1. pc = "log" /\ tail = None /\ Follow(at) = at /\ TornWrite
    BY <1>4 DEF Crash, Follow
  <2>2. CASE wal' = wal /\ tail' = Garbled
    <3>1. LogParses' /\ \A k \in Keys, e \in Entry : OnLog(k, e)' <=> OnLog(k, e)
      BY <2>1, <2>2, GarbledOnLog DEF TypeInv, DiskInv
    <3>2. \A k \in Keys, e \in Entry : OnDisk(k, e)' <=> OnDisk(k, e)
      BY <1>1, <3>1 DEF OnDisk
    <3>3. DiskCovers' /\ LogCovers' /\ SnapshotCommitted' /\ VersionsAgree'
      BY <1>1, <3>1, <3>2 DEF DiskInv, DiskCovers, LogCovers, SnapshotCommitted, VersionsAgree
    <3> QED
      BY <1>2, <3>1, <3>3 DEF DiskInv, MemoryPart
  <2>3. CASE \/ wal' = Append(wal, at) /\ tail' = None
             \/ wal' = wal /\ tail' = at
    <3> PICK k0 \in Keys, e0 \in Entry : k0 = at.key /\ e0 = at.entry
      BY <2>1, LoggingIsNew
    <3>1. /\ LogParses'
          /\ \A k \in Keys, e \in Entry :
                OnLog(k, e)' <=> OnLog(k, e) \/ at = [key |-> k, entry |-> e]
      BY <2>1, <2>3, LoggingIsNew, RecordOnLog DEF TypeInv, DiskInv
    <3>2. OnLog(k0, e0)' /\ OnDisk(k0, e0)'
      BY <2>1, <3>1, LoggingIsNew DEF OnDisk
    <3>3. \A k \in Keys \ {k0}, e \in Entry :
              (OnLog(k, e)' <=> OnLog(k, e)) /\ (OnDisk(k, e)' <=> OnDisk(k, e))
      BY <1>1, <3>1 DEF OnDisk
    <3>4. \A e \in Entry : OnDisk(k0, e)' => OnDisk(k0, e) \/ e = e0
      BY <1>1, <2>1, <3>1, LoggingIsNew DEF OnDisk
    <3>5. DiskCovers'
      BY <1>1, <2>1, <3>2, <3>3, LoggingIsNew DEF DiskInv, DiskCovers
    <3>6. LogCovers'
      BY <1>1, <2>1, <3>2, <3>3, LoggingIsNew DEF DiskInv, LogCovers
    <3>7. SnapshotCommitted'
      BY <1>1 DEF DiskInv, SnapshotCommitted
    <3>8. VersionsAgree'
      BY <1>1, <2>1, <3>3, <3>4, LoggingIsNew, NoneAssumption DEF DiskInv, VersionsAgree
    <3> QED
      BY <1>2, <3>1, <3>5, <3>6, <3>7, <3>8 DEF DiskInv, MemoryPart
  <2> QED
    BY <1>4, <2>1, <2>2, <2>3 DEF TornWrite
<1> QED
  BY <1>3, <1>4

\* The empty node.
LEMMA DurableInit == Init => DurableInv
<1> SUFFICES ASSUME Init PROVE DiskInv
  BY DEF DurableInv
<1>1. \A k \in Keys : acked[k] = None /\ snap[k] = None
  BY DEF Init, Empty
<1>2. pc = "down" /\ wal = <<>> /\ tail = None
  BY DEF Init
<1>3. \A k \in Keys, e \in Entry : [key |-> k, entry |-> e] # None
  BY GarbledAssumption DEF Record, Line
<1>4. \A k \in Keys, e \in Entry : ~OnDisk(k, e) /\ ~OnLog(k, e)
  BY <1>1, <1>2, <1>3, NoneAssumption DEF OnDisk, OnLog, Logged
<1>5. LogParses /\ DiskCovers /\ LogCovers /\ SnapshotCommitted
  BY <1>1, <1>2 DEF LogParses, DiskCovers, LogCovers, SnapshotCommitted
<1>6. VersionsAgree
  BY <1>1, <1>4, NoneAssumption DEF VersionsAgree
<1> QED
  BY <1>2, <1>5, <1>6 DEF DiskInv, DiskCommitted, MemoryCommitted, SnapshotTaken, ReplayInv

\* Crash safety of the write-ahead log and the snapshots.  As long as nothing
\* older than a committed entry is committed and no record was appended to a
\* torn tail, a node that has recovered holds, for every key, an entry as new as
\* the last one whose commit returned, or nothing if that was a delete: however
\* often it crashed, between whichever two effects on its disk.
THEOREM DurabilityCorrect ==
    ASSUME NoStaleEntries = TRUE
    PROVE  Spec => []DurableUnlessGlued
<1>1. TypeInv /\ TypeInv' /\ DurableInv /\ [Next]_vars => DurableInv'
  <2> SUFFICES ASSUME TypeInv, TypeInv', DurableInv, [Next]_vars, ~glued'
               PROVE  DiskInv'
    BY DEF DurableInv
  <2>1. ~glued
    <3>1. ASSUME NEW k, NEW v, NEW reading, LocalWrite(k, v, reading) PROVE glued' = glued
      BY <3>1 DEF LocalWrite, StartCommit, ghosts
    <3>2. ASSUME NEW k, NEW e, MergeRemote(k, e) PROVE glued' = glued
      BY <3>2 DEF MergeRemote, StartCommit, ghosts
    <3>3. ASSUME NEW k, CollectGarbage(k) PROVE glued' = glued
      BY <3>3 DEF CollectGarbage, ghosts
    <3>4. CASE LoadSnapshot \/ ReplayLine \/ Attach \/ ReplaceSnapshot \/ TruncateLog
               \/ Stop \/ UNCHANGED vars
      BY <3>4 DEF LoadSnapshot, ReplayLine, Attach, ReplaceSnapshot, TruncateLog, Stop,
                  ghosts, vars
    <3>5. CASE LogRecord \/ Crash
      BY <3>5 DEF LogRecord, Crash
    <3> QED
      BY <3>1, <3>2, <3>3, <3>4, <3>5 DEF Next
  <2>2. DiskInv
    BY <2>1 DEF DurableInv
  <2>3. CASE LoadSnapshot
    BY <2>2, <2>3, LoadKeeps
  <2>4. CASE ReplayLine
    BY <2>2, <2>4, ReplayKeeps
  <2>5. CASE Attach
    BY <2>2, <2>5, AttachKeeps
  <2>6. ASSUME NEW k \in Keys, NEW v \in Values \cup {None}, NEW reading \in 0..MaxTs,
               LocalWrite(k, v, reading)
        PROVE  DiskInv'
    <3> DEFINE ts == NextTs(reading, highest)
               e == NewEntry(v, ts, Self, v = None)
    <3>1. reading \in Nat /\ highest \in Nat
      BY DEF TypeInv, TypeOK
    <3>2. ts \in Nat
      BY <3>1, NextTsType
    <3>3. e \in Entry
      BY <3>2, SelfAssumption DEF NewEntry, Entry
    <3>4. pc = "up" /\ StartCommit(k, e)
      BY <2>6 DEF LocalWrite
    <3> HIDE DEF e
    <3> QED
      BY <2>2, <3>3, <3>4, CommitKeeps
  <2>7. ASSUME NEW k \in Keys, NEW e \in Incoming(k), MergeRemote(k, e) PROVE DiskInv'
    BY <2>2, <2>7, IncomingType, CommitKeeps DEF MergeRemote, TypeInv
  <2>8. CASE LogRecord
    BY <2>2, <2>8, LogKeeps
  <2>9. CASE ReplaceSnapshot
    BY <2>2, <2>9, SnapshotKeeps
  <2>10. CASE TruncateLog
    BY <2>2, <2>10, TruncateKeeps
  <2>11. ASSUME NEW k \in Keys, CollectGarbage(k) PROVE DiskInv'
    BY <2>2, <2>11, PurgeKeeps
  <2>12. CASE Stop \/ UNCHANGED vars
    <3>1. /\ UNCHANGED <<mem, snap, wal, tail, acked, at>>
          /\ pc' = pc \/ (pc = "up" /\ pc' = "snapshot")
      BY <2>12 DEF Stop, vars, disk, ghosts
    <3>2. DiskPart'
      BY <2>2, <3>1, DiskUnchanged DEF DiskInv, DiskPart
    <3>3. \A k, e : OnDisk(k, e)' <=> OnDisk(k, e)
      BY <3>1 DEF OnDisk, OnLog, Logged
    <3>4. DiskCommitted' /\ MemoryCommitted' /\ SnapshotTaken'
      BY <2>2, <3>1, <3>3 DEF DiskInv, DiskCommitted, MemoryCommitted, SnapshotTaken
    <3>5. ReplayInv'
      BY <2>2, <3>1, <3>3 DEF DiskInv, ReplayInv, Lines
    <3> QED
      BY <3>2, <3>4, <3>5 DEF DiskInv, DiskPart
  <2>13. CASE Crash
    BY <2>2, <2>13, CrashKeeps
  <2> QED
    BY <2>3, <2>4, <2>5, <2>6, <2>7, <2>8, <2>9, <2>10, <2>11, <2>12, <2>13 DEF Next
<1>2. TypeInv /\ DurableInv => DurableUnlessGlued
  <2> SUFFICES ASSUME TypeInv, DiskInv, pc = "up", NEW k \in Keys, acked[k] # None
               PROVE  IF mem[k] = None THEN acked[k].deleted ELSE ~GT(acked[k], mem[k])
    BY DEF DurableInv, DurableUnlessGlued, Recovered
  <2>1. Leq(acked[k], acked[k])
    BY HeldType, LeqOrder DEF TypeInv
  <2> QED
    BY <2>1 DEF DiskInv, MemoryCommitted, Leq
<1> QED
  BY <1>1, <1>2, DurableInit, TypeInvariant, PTL DEF Spec
=============================================================================
