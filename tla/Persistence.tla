----------------------------- MODULE Persistence -----------------------------
(***************************************************************************)
(* Durability of one node's store (suprime/persistence.py): the write-     *)
(* ahead log, the snapshots that truncate it and the recovery that reads   *)
(* both, with a crash possible between any two of their effects on disk.   *)
(*                                                                         *)
(* The log file is a sequence of lines, ended by newlines, and a tail that *)
(* has none.  A line is a record, or Garbled when it does not parse.       *)
(***************************************************************************)
EXTENDS Versions, Sequences

CONSTANTS
    Self,           \* the node
    SnapshotEvery,  \* snapshot_every
    RemoteEntries,  \* the entries of other nodes that peers may send, for any key
    NoStaleEntries, \* nothing older than a committed entry is ever committed
    Garbled,        \* text that json.loads rejects
    MaxTs,          \* bound: timestamps, and clock readings
    MaxCrashes      \* bound: crashes

ASSUME SelfAssumption == Self \in Nodes
ASSUME EveryAssumption == SnapshotEvery \in Nat \ {0}

ASSUME StaleAssumption == NoStaleEntries \in BOOLEAN
ASSUME RemoteAssumption ==
    /\ RemoteEntries \subseteq {e \in Entry : e.origin # Self}
    /\ \A e, f \in RemoteEntries : e = f \/ GT(e, f) \/ GT(f, e)

Record == [key : Keys, entry : Entry]
Line == Record \cup {Garbled}

ASSUME GarbledAssumption == Garbled \notin Record /\ None \notin Line

VARIABLES
    mem,        \* the store's _data
    highest,    \* the store's _highest_ts
    snap,       \* snapshot.json
    wal,        \* the lines of wal.log
    tail,       \* what follows the last newline of wal.log, or None
    since,      \* _since_snapshot
    pc,         \* what the process is doing
    at,         \* the record being logged, or how many lines were replayed
    stopping,   \* stop() is under way
    crashes,    \* how often the process died (for the bound)
    acked,      \* history: per key, the last entry whose commit returned, or
                \* the newer one that recovery found
    glued       \* history: a record was appended to a torn tail

vars == <<mem, highest, snap, wal, tail, since, pc, at, stopping, crashes, acked, glued>>
disk == <<snap, wal, tail>>
ghosts == <<acked, glued>>

Empty == [k \in Keys |-> None]

Init ==
    /\ mem = Empty /\ highest = 0
    /\ snap = Empty /\ wal = <<>> /\ tail = None
    /\ since = 0 /\ pc = "down" /\ at = 0 /\ stopping = FALSE
    /\ crashes = 0 /\ acked = Empty /\ glued = FALSE

-----------------------------------------------------------------------------
(* Recovery: recover(), then attach().  Only memory changes. *)

\* The first half of recover: the snapshot, if there is one.
LoadSnapshot ==
    /\ pc = "down"
    /\ mem' = MergeDigest(Empty, snap)
    /\ \E h \in OwnStamps(Self, 0, Empty, snap) :
          /\ IsMaxOf(OwnStamps(Self, 0, Empty, snap), h)
          /\ highest' = h
    /\ since' = 0 /\ pc' = "replay" /\ at' = 0 /\ stopping' = FALSE
    /\ UNCHANGED <<disk, crashes, ghosts>>

\* What iterating over the file yields: a last line needs no newline.
Lines == IF tail = None THEN wal ELSE Append(wal, tail)

\* merge_entry.
Merged(rec) == [mem EXCEPT ![rec.key] = MergeEntry(@, rec.entry)]

RaisedBy_Nothing(rec) == highest

\* _highest_ts after merge_entry.
RaisedBy(rec) ==
    IF /\ Supersedes(rec.entry, mem[rec.key])
       /\ rec.entry.origin = Self
       /\ rec.entry.ts > highest
    THEN rec.entry.ts ELSE highest

ReplayLine ==
    /\ pc = "replay"
    /\ at < Len(Lines)
    /\ Lines[at + 1] # Garbled
    /\ mem' = Merged(Lines[at + 1])
    /\ highest' = RaisedBy(Lines[at + 1])
    /\ at' = at + 1
    /\ UNCHANGED <<disk, since, pc, stopping, crashes, ghosts>>

\* The log has ended, or the break on a line that does not parse; then attach.
Attach ==
    /\ pc = "replay"
    /\ at < Len(Lines) => Lines[at + 1] = Garbled
    /\ pc' = "up" /\ at' = 0
    /\ acked' = MergeDigest(acked, mem)
    /\ UNCHANGED <<mem, highest, disk, since, stopping, crashes, glued>>

-----------------------------------------------------------------------------
(* Commits: the store changes, then _on_commit logs the entry. *)

\* NoStaleEntries is what the rest of the system provides when clocks agree
\* and min_age is long enough (see NoResurrection).
StartCommit(k, e) ==
    /\ mem' = [mem EXCEPT ![k] = e]
    /\ pc' = "log" /\ at' = [key |-> k, entry |-> e]
    /\ NoStaleEntries => e = acked[k] \/ Supersedes(e, acked[k])
    /\ UNCHANGED <<disk, since, stopping, crashes, ghosts>>

\* set and delete; the wall clock may have been set back at any time.
LocalWrite(k, v, reading) ==
    LET ts == NextTs(reading, highest)
        e == NewEntry(v, ts, Self, v = None)
    IN  /\ pc = "up"
        /\ v = None => mem[k] # None
        /\ ts <= MaxTs
        /\ highest' = ts
        /\ StartCommit(k, e)

\* What peers may send of key k: entries of other nodes, or the entry last
\* committed here, which may be the node's own, although it is gone by now.
Incoming(k) == RemoteEntries \cup ({acked[k]} \ {None})

\* merge_entry accepts an entry from a peer.
MergeRemote(k, e) ==
    /\ pc = "up"
    /\ Supersedes(e, mem[k])
    /\ highest' = RaisedBy([key |-> k, entry |-> e])
    /\ StartCommit(k, e)

\* How the file ends once text follows its tail: after a torn record the two
\* make one line that does not parse.
Follow(text) == IF tail = None THEN text ELSE Garbled

LogRecord_NeverSnapshots ==
    /\ pc = "log"
    /\ wal' = Append(wal, at)
    /\ tail' = None
    /\ acked' = [acked EXCEPT ![at.key] = at.entry]
    /\ pc' = "up" /\ at' = 0
    /\ UNCHANGED <<mem, highest, snap, since, stopping, crashes, glued>>

\* write, flush and fsync return, and with them set, delete or merge_entry.
LogRecord ==
    /\ pc = "log"
    /\ wal' = Append(wal, Follow(at))
    /\ tail' = None
    /\ glued' = (glued \/ tail # None)
    /\ acked' = [acked EXCEPT ![at.key] = at.entry]
    /\ since' = since + 1
    /\ pc' = IF since + 1 >= SnapshotEvery THEN "snapshot" ELSE "up"
    /\ at' = 0
    /\ UNCHANGED <<mem, highest, snap, stopping, crashes>>

SnapshotFirst_Truncates ==
    /\ pc = "snapshot"
    /\ wal' = <<>> /\ tail' = None /\ pc' = "truncate"
    /\ UNCHANGED <<mem, highest, snap, since, at, stopping, crashes, ghosts>>

\* snapshot(): the temporary file replaces the old snapshot.  A crash before
\* that leaves a file nobody reads.
ReplaceSnapshot ==
    /\ pc = "snapshot"
    /\ snap' = mem
    /\ pc' = "truncate"
    /\ UNCHANGED <<mem, highest, wal, tail, since, at, stopping, crashes, ghosts>>

TruncateLog_KeepsCount ==
    /\ pc = "truncate"
    /\ wal' = <<>> /\ tail' = None
    /\ pc' = IF stopping THEN "down" ELSE "up"
    /\ UNCHANGED <<mem, highest, snap, since, at, stopping, crashes, ghosts>>

\* The rest of snapshot(); when stop() called it the process then ends.
TruncateLog ==
    /\ pc = "truncate"
    /\ wal' = <<>> /\ tail' = None
    /\ since' = 0
    /\ pc' = IF stopping THEN "down" ELSE "up"
    /\ UNCHANGED <<mem, highest, snap, at, stopping, crashes, ghosts>>

\* collect_garbage: purged tombstones are not logged.
CollectGarbage(k) ==
    /\ pc = "up"
    /\ IsTombstone(mem[k])
    /\ mem' = [mem EXCEPT ![k] = None]
    /\ UNCHANGED <<highest, disk, since, pc, at, stopping, crashes, ghosts>>

\* SwarmNode.stop: a final snapshot.
Stop ==
    /\ pc = "up"
    /\ pc' = "snapshot" /\ stopping' = TRUE
    /\ UNCHANGED <<mem, highest, disk, since, at, crashes, ghosts>>

-----------------------------------------------------------------------------
\* What a crash in the middle of a write leaves of its text: nothing, a part
\* that does not parse, all but the newline, or all of it.
TornWrite ==
    \/ UNCHANGED <<wal, tail>>
    \/ tail' = Garbled /\ UNCHANGED wal
    \/ tail' = Follow(at) /\ UNCHANGED wal
    \/ wal' = Append(wal, Follow(at)) /\ tail' = None

Crash ==
    /\ pc # "down"
    /\ crashes < MaxCrashes
    /\ IF pc = "log" THEN TornWrite ELSE UNCHANGED <<wal, tail>>
    /\ glued' = (glued \/ (tail # None /\ <<wal', tail'>> # <<wal, tail>>))
    /\ crashes' = crashes + 1
    /\ mem' = Empty /\ highest' = 0 /\ since' = 0 /\ at' = 0
    /\ pc' = "down" /\ stopping' = FALSE
    /\ UNCHANGED <<snap, acked>>

Next ==
    \/ LoadSnapshot \/ ReplayLine \/ Attach
    \/ \E k \in Keys, v \in Values \cup {None}, reading \in 0..MaxTs : LocalWrite(k, v, reading)
    \/ \E k \in Keys : \E e \in Incoming(k) : MergeRemote(k, e)
    \/ LogRecord \/ ReplaceSnapshot \/ TruncateLog
    \/ \E k \in Keys : CollectGarbage(k)
    \/ Stop
    \/ Crash

Spec == Init /\ [][Next]_vars

-----------------------------------------------------------------------------
(* Properties *)

\* Every variable has its type, the counter of _on_commit never passes
\* snapshot_every, and the record being logged is the entry in memory.
TypeOK ==
    /\ mem \in Digest /\ highest \in Nat
    /\ snap \in Digest /\ wal \in Seq(Line) /\ tail \in Line \cup {None}
    /\ since \in 0..SnapshotEvery
    /\ pc \in {"down", "replay", "up", "log", "snapshot", "truncate"}
    /\ IF pc = "log" THEN at \in Record /\ mem[at.key] = at.entry ELSE at \in Nat
    /\ stopping \in BOOLEAN /\ glued \in BOOLEAN
    /\ acked \in Digest

\* Once it is up, the store holds for every key an entry at least as new as
\* the last one whose commit returned before the crash.  A tombstone may be
\* gone (it was purged), but then nothing older takes its place.
Recovered ==
    pc = "up" => \A k \in Keys :
        acked[k] # None => IF mem[k] = None THEN acked[k].deleted
                                            ELSE ~GT(acked[k], mem[k])

\* Crash safety of the log and the snapshots: a crash between any two of their
\* effects loses no commit that returned and brings no purged key back, as long
\* as no record was appended to a torn tail.
DurableUnlessGlued == ~glued => Recovered

\* "A half-written tail record is simply skipped, so recovery is safe even
\* after a crash mid-write" (the docstring of persistence.py).
Durable == Recovered

\* A node's write supersedes its own earlier value although it restarted and
\* its wall clock was set back: recovery restores _highest_ts from the entries
\* it accepts.
OwnEntriesBelowHighest ==
    \A k \in Keys : mem[k] # None /\ mem[k].origin = Self => mem[k].ts <= highest

\* However often the node crashes, the log holds less than snapshot_every
\* records for each of its lives: counting restarts with every recovery.
LogGrowsWithCrashes == Len(wal) <= SnapshotEvery * (crashes + 1)
=============================================================================
