# SUPRIME in TLA+

SUPRIME is a peer-to-peer swarm framework in Python (`src/suprime`). Every node
runs the same asyncio program: a loop calls `tick()` at a fixed interval, and
messages from the transport are handled whenever the loop awaits something.
There is no coordinator and no consensus protocol; everything is derived from a
gossiped membership table and a gossiped last-writer-wins store. This directory
holds TLA+ modules of its core, the TLC configurations that check them on small
instances, and proofs that TLAPS checks of most of the safety properties.

## The system and its parts

| part | state | operations | talks to |
| --- | --- | --- | --- |
| store (`store.py`) | per key an entry with version (ts, origin); `_highest_ts` | `set`, `delete`, `merge_entry`, `apply_digest`, `collect_garbage` | gossip, persistence (commit callback), tasks |
| gossip (`gossip.py`) | heartbeat counter | `build_digest`, `select_targets`, `apply` | peers, store |
| membership (`peers.py`) | per peer heartbeat, last update, ALIVE or SUSPECT | `merge`, `tick`, `refresh` | gossip, node |
| leader (`consensus.py`) | the current leader | `update` | membership |
| node (`node.py`) | seeds, the SWIM probe, a cache of message ids | `start`, `stop`, `tick`, JOIN/WELCOME, PING/PING_REQ/ACK | all of the above |
| tasks (`tasks.py`) | claim ages and signatures, executed ids | `submit`, `evaluate` | store |
| persistence (`persistence.py`) | `snapshot.json`, `wal.log`, a counter | `recover`, `attach`, `_on_commit`, `snapshot` | store |
| fault injection (`chaos.py`) | the current partition | `partition`, `heal`, `send` | transport |
| anti-entropy (`antientropy.py`) | none of its own | `_tick`, `_on_digest`, `_on_pull`, `_on_push` | store, node |
| views (`hyparview.py`) | active and passive view, address book | `join`, seven handlers, `_tick`, `prune_dead` | node |
| broadcast (`plumtree.py`) | eager and lazy links, cache of messages, missing messages, queue of announcements | `broadcast`, four handlers, `_tick` | node, views |
| KV store and quorums (`kvstore.py`) | pending requests, index definitions | `put`, `get`, `delete`, `create_index`, `quorum_put`, `quorum_get` | store, node |
| CRDTs (`crdt.py`, `rga.py`), `replicate.py` | one state per object, the digest sent last | the operations of each type, `merge`, `_tick`, `_on_sync` | node |
| aggregation (`aggregate.py`) | mass received, estimates | `start`, `_round`, `_on_message` | node |
| voting (`byzantine.py`) | votes, trust | `vote`, `accepted`, `_tick`, `_on_vote` | node |
| `pubsub.py`, `agent.py`, `learning.py` | tables of callbacks, models | delegation to the above | broadcast, KV store, tasks, voting |

What makes each part correct: versions name writes and merging is a join; a
commit that returned survives crashes; a task is executed once, and is executed;
running nodes are kept and dead ones evicted, and all agree on a leader; views stay
bounded and connected; a broadcast reaches everyone once; overlapping quorums see
each other's writes; replicas of a CRDT read as the operations they have seen; mass
is conserved; faulty voters gain nothing.

What is hard about it:

* replicas see writes in different orders, twice, late or never, with clocks
  that disagree, and forget tombstones and, on a restart, everything;
* a crash may fall between any two effects on disk, or inside one;
* who executes a task is decided separately by every node, from claims that are
  still spreading, while handlers run for any time;
* a node is judged dead by silence alone, and news of it comes from third
  parties that may be out of date;
* over TCP every `await` of a send suspends its handler, so that another handler
  of the node changes the views, links or probes the first one has looked at;
* repair messages (IHAVE, GRAFT, NEIGHBOR, pulls, syncs) are sent once and may be
  lost, and answers come after the time-out of their question;
* all of it must still finish: replicas converge, tasks get done, one leader is
  agreed on, broken links are replaced.

`PROJECT.json` lists these hazards with the line at which each one bites and the
properties that cover it.

## Modules

| module | models |
| --- | --- |
| `Versions` | entries, the version order, the merge rule, the minting of versions: pure operators |
| `Store` | replicas of the store, gossip of digests, message loss, garbage collection, restarts |
| `StoreHistory` | `Store` with the history of writes and purges |
| `LWWRegister` | the abstract specification that the store implements |
| `Persistence` | one node's store on disk: log, snapshot, recovery, crashes |
| `Tasks` | task coordination, composed with `Store` by `INSTANCE` |
| `PeerTable` | the peer table and the leader derived from it: pure operators |
| `Membership` | `PeerTable` in a swarm: joining, heartbeats, eviction, leader election, partitions |
| `Swim` | `PeerTable` at one node that probes the others |
| `AntiEntropy` | `Store` with fingerprints, pulls and pushes as a second road |
| `HyParView` | active and passive views, forward-join walks, promotions, shuffles |
| `Plumtree` | eager and lazy links, announcements, prunes and grafts |
| `Broadcast` | the abstract specification that `Plumtree` implements |
| `KVStore` | local operations with TTLs and an index, quorum operations, on replicas of `Versions` |
| `Sums` | the sum of finitely many natural numbers, as a number of units: pure operators |
| `CRDTs` | the state, the operations and the merge of every type: pure operators |
| `Replicator` | replicas of one object and the digests they exchange |
| `PushSum`, `Voting` | aggregation and trust-weighted voting |
| `Services` | a swarm with `Replicator`, `PushSum` or `Voting` attached to its nodes |
| `StoreProofs` | theorems about `Store`, `StoreHistory` and `AntiEntropy` |
| `DetectorProofs` | theorems about `Membership` and `Swim` |
| `ServicesProofs` | theorems about `Services` with `Replicator`, `PushSum` and `Voting` |
| `PersistenceProofs`, `TasksProofs`, `HyParViewProofs`, `PlumtreeProofs`, `KVStoreProofs` | theorems about the module each is named after |
| `MC*` | the constants of the TLC instances |

### Store

`data[n]` is `_data`, `highest[n]` is `_highest_ts`, `net` the gossip messages in
flight. `Set` and `Delete` take a version from `NextTs` (`_next_version`) and store
the entry without a comparison, as the code does. `Gossip` is `gossip_once`: the
set of targets stands for the random draw less the sends that fail. `Receive` is
`GossipService.apply`; `_on_message` drops messages whose id it has seen, so a
message is received at most once. `CollectGarbage` is `collect_garbage`. A node
reads `now + Skew[n]`. `Restart` is a node without a persistence directory that is
started again under its old identity; its docstring-level assumption, that the
wall clock has passed every version it minted, is a guard.

The docstring of `collect_garbage` obliges the deployment to choose `min_age`
larger than the time in which a delete displaces all older copies. That
obligation is `WindowRespected`, a guard on the passage of time; `MinAgeIsSafe` in
`StoreHistory` says how large `min_age` then has to be, which is more than the
docstring says: the age of a tombstone is the purging replica's clock minus a
timestamp of the deleting replica's clock, so the largest disagreement of two
clocks has to be added.

A tombstone that one replica has purged comes back to it with the next digest of a
replica that has not, until it is purged again; `Convergence` is therefore stated of
what the replicas show.

### Persistence

The log is a sequence of lines and a tail without a newline. A commit is a step
in memory (`LocalWrite`, `MergeRemote`) followed by the log record (`LogRecord`), by
`ReplaceSnapshot` (`os.replace`) and by `TruncateLog`; `Crash` may come between
any two of them, and inside a record leaves nothing, an unparsable part, the whole
text without its newline, or all of it. Recovery (`LoadSnapshot`, `ReplayLine`,
`Attach`) may crash, too. `acked` remembers per key the last entry whose commit
returned. Peers may send entries of other nodes, or give back the last committed
entry, the node's own included, after it was purged (`Incoming`); an own entry raises
`_highest_ts`, as in `merge_entry`. `NoStaleEntries` says that nothing older than a
committed entry is committed later; that is what the rest of the system gives when
clocks agree and `min_age` is safe, and without it the order of recovery's merges
could differ from the order of the commits. It is a constant of the module, a guard
of `StartCommit` when true and a hypothesis of the theorem on durability.

### Tasks

Keys of the store are tasks and claims. A tick is split where the code awaits:
`BeginTick` reads the tasks, the `Visit` actions work through what was read, a
handler runs between `VisitPending` and `Finish`, and `EndTick` gossips. Messages are
handled between ticks and while a handler runs. `Sync` selects the swarm whose
rounds are in step, which is the setting `claim_grace_rounds` is written for; a node
that awaits a handler may take any number of rounds.

### Membership

`table[n][p]` is the `Peer` record; `age` counts rounds since `last_update`. `Tick` is
the whole of `tick()` for a node that knows a peer; a node that knows none sends
JOINs and awaits (`Knock`), handles messages, and then elects and gossips
(`Resume`). JOIN is answered by a WELCOME, which is a digest. Time is counted in
gossip intervals. Heartbeats grow without bound but are only compared with each
other, and the owner's is always the greatest (`HeartbeatsAreReal`), so `NextRound`
replaces each by its rank and the state space is finite without any bound on time.
`Partition` and `Heal` are those of the fault injector; a send across the cut fails.

### Swim

`peers`, `probe` and `asking` are the peer table, `_probe` and a tick that awaits
`_send_ping_reqs`, of one node. `TickWaits`, `TickStartsProbe` and `TickAsks` are the
ways through `_swim_probe`; `AfterAsking` is what the tick does after the await, with
whatever the probe has become. The other nodes answer (`HandlePing`) and may crash;
`Hear` is a digest that names a peer, at any time, also a late one that names a dead
peer, any number of times. `DeadStayEvicted` is therefore about peers that digests no
longer name from some time on. Messages may be under way for any number of rounds.

### AntiEntropy

Extends `Store`. A fingerprint is the set of versions that `bucket_hashes` hashes.
The message field `"n"` is not looked at by the code, so that two nodes may count
buckets differently (`BucketOf` depends on the node): the buckets that are pulled
are then other ones than those that differed. `roads` says which roads work in a
behaviour: gossip, anti-entropy or both, so that `Convergence` is a statement about
each alone and about the two together. A round starts when at most `MaxAE`
anti-entropy messages are under way; with both roads, timestamps are bounded by
`MaxTsBoth`.

### HyParView and Plumtree

An `await self._send(...)` does not suspend over `InMemoryTransport` without
latency, and does over TCP. Both modules have it either way: with `suspends`, the
rest of a handler is a member of `jobs` and runs when the scheduler lets it, and
without, it runs before anything else (`Scheduled`). A handler is so one action, or
one up to its first send and one per continuation. Starts are overlays the protocol
can have formed, from which the runs explore everything.

In `HyParView`, `AddActive` is `_add_active` with `_drop_random_active`: the victim
moves to the backups, a DISCONNECT is awaited, and the newcomer is added to whatever
view there is by then (`ResumeAdd`). `Maintain` is one turn of the repair loop of
`_tick`, or the shuffle behind the loop. `PruneDead` is what an application calls
with the live members.

In `Plumtree`, `received`, `missing`, `ihaveFrom` and `lazyQueue` are the fields of
the class. `Accept` is `_record`, `_deliver` and `_eager_push`; `_lazy_push` follows
when the sends are done. The tick's loop over the missing messages awaits each GRAFT:
`GraftMissing` is the part of it up to the next GRAFT, and `Todo` what is left of the
list it made before. A message that arrives and leaves the cache again between two
turns of the loop would be a KeyError at `plumtree.py:197`; the cache is taken to hold
more than is in flight, as the comment at `plumtree.py:64` asks. Nodes start with their
neighbours as eager links, which the first tick gives them (`plumtree.py:67` starts with
none). The overlay stays, except for nodes that crash.

### KVStore

One key of the database is several of the store: the value, the expiry and one index
entry per value. `AfterPut`, `AfterDelete` and `Reindexed` say what a local operation
does to them. A quorum operation is a request until it waits, one action per answer,
and `Finish`, which may come before the answers: the time-out. Late answers are
dropped as in the code, and a lost message is one that is never handled. Every node
has a clock of its own (`Clock`), and a write does not compare its version with what it
replaces; `undercuts` remembers the writes that were replaced by older ones, and
`QuorumReads` promises nothing of those (`Undercut`).

### CRDTs, Replicator, PushSum, Voting, Services

`CRDTs` translates the data types one by one. `Replicator` lets every node operate on
its replica and send digests as `_tick` does; `history` and `seen` record which
operations have reached whom, and `Meaning` says what a set of operations should
read as, independently of the representation. Up to `MaxSyncs` digests are under way,
which cross and overtake each other. A `SetEntry` has a newer stamp than the node's own
earlier ones and maybe an older one than what it has seen of others. In `PushSum` a node
may start an aggregation again, which adds mass; mass is counted in units that
the bounded number of halvings leaves whole. In `Voting` faulty nodes vote anything,
for each receiver, and change their votes; trust is counted in tenths. The services
share nothing but the tick that calls their hooks one after the other and survives
their errors, so `Services` attaches one at a time.

## Runs

| run | instance | result |
| --- | --- | --- |
| `store` | 2 replicas, 1 key, skew 1, time up to 4, 1 message in flight | `HTypeOK`, `VersionsIdentifyWrites`, `MergeIsJoin`, `NoResurrection`, `ImplementsLWWRegister` hold |
| `antientropy` | 2 replicas, 2 keys, 1 and 2 buckets, gossip, anti-entropy or both, one message lost, purges and restarts | `Convergence` holds |
| `persistence` | 2 keys, 2 crashes, a snapshot every 2 commits | `TypeOK`, `DurableUnlessGlued`, `OwnEntriesBelowHighest`, `LogGrowsWithCrashes` hold |
| `persistence_torn_tail` | the same | `Durable` is violated |
| `tasks_once` | 3 nodes in step, 2 workers of which one is busy, the third may crash, grace 3 | `TypeOK`, `AtMostOnce` hold |
| `tasks_complete` | 2 workers, free interleaving and losses | `ClaimsSurvive`, `TaskCompletes` hold |
| `detectors` | heartbeats: 3 nodes and one fault: a loss, a crash of node 1 or 3, or a partition of any length that cuts off one of them; SWIM: a node and two peers of which one may crash, one loss, time-out 1 round, one helper, digests that name anyone at any time | `TypeOK`, `HeartbeatsAreReal`, `OnlySilenceEvicts`, `OneLeader`, `CrashedAreEvicted`, `SwimTypeOK`, `ProbedAreKept`, `ProbesEnd`, `DeadStayEvicted` hold |
| `failover` | 3 nodes of which node 1, the leader, may crash | `LeaderFailover` is violated |
| `hyparview` | 4 joins a triangle, a pair twice, and a pair with active views of one over TCP; in the pairs a node may crash | `TypeOK`, `ViewsBounded`, `ContactsAreKept`, `LinksAreRepaired` hold |
| `plumtree` | a triangle and two broadcasts with a loss; over TCP a triangle with a loss or two crashes, and a line | `TypeOK`, `EagerTree`, `Broadcasts` hold |
| `kv` | 3 replicas, the clock of node 2 ahead: one uses local operations with ttl 1, or two use quorums w = r = 2, three requests | `TypeOK`, `QuorumReads`, `IndexAgrees`, `PutsLast` hold |
| `services` | 2 replicas of each CRDT type, 2 or 3 operations, full sync every 2nd tick, two digests under way; push-sum of 3 nodes of which one starts twice and one never, 3 rounds; 3 voters, one faulty, 3 decisions | `TypeOK`, `ReadsAsMeant`, `MassIsSound`, `TruthPrevails`, `OperationsSpread` hold |

Why the bounds are enough. The store's merge works key by key, so one key and two
replicas show every conflict; time up to 4 lets a tombstone be purged after `MinAge` =
3 and written over before and after. Anti-entropy needs two keys, which share a bucket
at one node and not at the other, and one write per node is enough for gossip and a
push to overtake each other. Two keys and a snapshot every two records put the records
of one key on both sides of a snapshot, and two crashes let a torn record be followed
by records and by another recovery. In `tasks_once` the busy worker's claim is stamped
two rounds late, so the first claimant is not the winner, the case the comment in
`evaluate` is about. `detectors` needs a third node to relay news, and `DeadAfter` = 3
is the least that one loss does not exhaust; the seed, node 2, neither crashes nor is
cut off (see `node.py:220` below). With SWIM a peer helps to probe the other, and an
ACK may be overtaken by the time-outs of both phases. The starts of `hyparview` make
the views full (so that adding drops), nearly empty (so that isolation threatens) and
suspended; the triangle of `plumtree` is the smallest overlay with a redundant link,
and the line the smallest in which everything is relayed. (A triangle with two
broadcasts and suspended sends takes too long, so no run puts anything between two
GRAFTs of one tick; the theorems about `Plumtree` cover it.) In `kv`, w + r = 4 > 3
with two of three replicas in a quorum leaves one stale replica; four instants allow a
put with a ttl, its expiry, a reap and another put. Three operations on a CRDT are the
least in which a third one has seen one of two concurrent ones; every type's merge
works replica by replica, and two digests are enough for one to overtake the other.

Fairness. The loop in `_run_loop` swallows exceptions and never ends before `stop`:
ticks are weakly fair, or strongly where the model lets a tick wait for a quiet
moment that recurs (`HyParView`, `Plumtree`, the bounds on messages in flight). A
peer is drawn by `random.choice` or `random.sample`, with positive probability every
time: a particular draw is strongly fair. Links of `Links` and the links between
replicas of a CRDT deliver again and again what is sent again and again (strong
fairness of the receipt), and may lose any single message; other links may lose
everything. In `Plumtree`, whose messages are sent once, losses are bounded, and what
is not lost arrives. Handlers and awaited sends end (weak fairness). `OneLeader`
assumes that all nodes are started, that rounds go on and that partitions heal, and says
in its premise (`DeadForgotten`) that survivors stop to name the dead. The
bounds end all writes and losses in these runs, as "after the last write" does in the
informal statement. `PushSum`, `Voting` and `KVStore` have no liveness property.

## Where the code and its documentation disagree

Shown by a run:

* `persistence_torn_tail`: the first record after a crash mid-append continues the
  torn line; recovery stops there and loses it and all later ones. (The log is also
  not bounded by `snapshot_every` as the docstring has it: the counter starts at 0
  in every process. `LogGrowsWithCrashes` is the bound that holds.)
* `failover`: `merge` (`peers.py:82`) takes a peer it does not know from any digest, so
  two survivors that evict a crashed leader in different rounds give it back to each
  other, as alive, and name it leader again, forever. The docstring of `consensus.py`
  says "the next-smallest id transparently takes over"; the test has rounds in step,
  where all evict together. `OneLeader` holds whoever crashes, once the survivors no
  longer name the dead, and `CrashedAreEvicted` says that each survivor evicts it, again
  and again if it comes back.

Met while modelling; the properties above are stated so as not to depend on them,
and each can be seen by changing the constants or the property of a run as said:

* `store.py:85`: `set` and `delete` give a new entry a version that may be smaller
  than that of the entry it replaces, when that came from a node whose clock is
  ahead; gossip then undoes the write. A task submitted by such a node is executed,
  but its DONE entry is overwritten by the PENDING one. A write that a quorum has
  acknowledged can so be replaced by an older one at a node in that quorum, and a later
  `quorum_get` misses it (`QuorumReads` without `Undercut`). `create_index` leaves out what has expired
  by its node's clock; a replica whose clock is behind still shows it and has no index
  entry for it (`IndexAgrees` leaves such replicas out).
* `tasks.py:203`: `evaluate` goes on, after awaiting a handler, with tasks it read
  before. With two tasks, a node that was executing the first may find the second in
  its old list as pending, claim it with an earlier `claim_ts` than that of a busy
  node that has won and executed it meanwhile, and execute it again, against "together
  these avoid duplicate execution" (`tasks_once` with two nodes, a second task,
  `Load` 6 at node 1 and time up to 9). `AtMostOnce` holds of one task at a time.
* `tasks.py:172`: claims never expire, so a task whose winner dies is never
  executed, against "at-least-once" (`tasks_complete` with a mortal worker).
* `node.py:220`: a node knocks on its seeds only when it knows nobody, so after a
  partition longer than `dead_after` that leaves two or more nodes on the side
  without the seed, the swarm stays split although the network is whole. The
  partition of `detectors` cuts off one node that is not the seed.
* `hyparview.py:283`: the comment says that a rejection demotes an optimistically
  added candidate; `_add_passive` returns at once because it is in the active view,
  so it stays there, and the link is one-way.
* `hyparview.py:119`: when sends suspend, two handlers that each dropped a victim, or
  the optimistic promotion, can take the active view past `active_size`, and a peer
  into both views; `ViewsBounded` claims these bounds only when sends do not suspend.
* `hyparview.py:104`: a JOIN that is lost is not sent again.
* `plumtree.py:190`: one lost message of any kind is made up for; when the payload and
  the one IHAVE for it are lost, or an IHAVE's GRAFT and there is no other announcer,
  the message does not arrive. A node that has not synced its neighbours yet does not
  forward. Broadcasts that overlap can leave an overlay of eager links that is no
  tree; `EagerTree` is about broadcasts that follow each other. A cache smaller than
  the number of messages in flight delivers a message twice.
* `kvstore.py:177`: `quorum_put` without a ttl leaves the expiry of an earlier value,
  so a value stored without a ttl expires (`OnlyTtlExpires` with one node that uses
  both). `quorum_get` does not look at the expiry; it repairs its own replica only,
  while its docstring says "repair stale replicas"; the write request carries the
  value and neither expiry nor index entries, which follow by gossip. A `get` that
  reaps an expired value at one node can delete a newer put of another.
* `byzantine.py:82`: a decision asked for before the correct votes are in rewards
  whoever voted first and penalises the others; `TruthPrevails` is about nodes that
  wait (those not in `hasty`).
* `crdt.py:235`: two `set`s of one key of an `LWWMap` at one node with the same clock
  reading leave replicas with different values, so `SetEntry` has newer stamps than
  the node's own. A `set` with an older stamp than an entry of another node hides that
  entry until another replica sends it back. An `ORSet` or `RGA` that is created anew
  under an old node id reuses tags and ids.
* `antientropy.py:121`: a tombstone that one replica has purged comes back with the
  next push of a replica that has not; outside the window of `collect_garbage` the
  two can go on exchanging a deleted entry.

## Proofs

Eight modules hold theorems, for any nodes, keys, values, timers, sizes and bounds;
`PROJECT.json` lists the ones to know. Of the properties of the passing runs that are
not liveness properties, all but those named at the end of this section are proved.

**The store** (`StoreProofs`):

* `TypeCorrect`, `HistoryTypeCorrect`: the type invariants, inductive as they are;
* `VersionsCorrect`: `Spec => []VersionsIdentifyWrites`. The invariant is not
  inductive alone, for nothing in it keeps a node from minting a version it minted
  before. The strengthening `Fresh` says that every entry of origin n that exists
  anywhere is older than the version n would mint now,
  `NextTs(Clock(n), highest[n])`. A write uses that version and moves it on; merges
  make no new entries and never lower `_highest_ts`; time only moves clocks forward;
  a restart lowers `_highest_ts`, and its guard on the clock keeps `Fresh`;
* `MergeCorrect`: `Spec => []MergeIsJoin`, from `VersionsIdentifyWrites`: on entries
  whose versions identify them, keeping the greater is a join;
* `GarbageCollectionCorrect`: `HSpec => []NoResurrection`. The inductive invariant
  says of every purged tombstone that it is past the window and that no older copy
  exists. `PurgeableAged` shows that a purgeable tombstone is past the window if
  `MinAgeIsSafe`, `WindowRespected` then has removed older copies, and `WriteAfterAged`
  that no clock can mint a version older than it any more;
* `StoreImplementsLWWRegister`: every step of the store is a step of `LWWRegister` or
  a stutter, from the invariant that every entry that exists was written and that
  every node's next version is past all its writes;
* `AEVersionsCorrect`: with anti-entropy, versions still identify writes, pushed entries
  included (`AEFresh` and `AEVersions` are the two invariants above over `AllDigests`);
* `FingerprintsCorrect`: a consequence that is what anti-entropy rests on: replicas
  that sort keys alike and have equal fingerprints of a bucket agree on all of it,
  although `bucket_hashes` leaves the values out.

**Persistence**: `PersistenceTypeCorrect` (with `CounterInv`, the counter is below its
limit when a commit starts), `OwnEntriesCorrect`, `LogBounded` (`LogInv`: what a life
appends it counts), and `DurabilityCorrect`: if `NoStaleEntries`, then
`Spec => []DurableUnlessGlued`. The invariant is `DiskInv`: the disk alone determines a
recovery that loses nothing. The hard case is a purged key, whose tombstone is on the
log and in no later snapshot while older records of it are still on the log;
`LogCovers` says that a log with a record of a key has one as new as the last commit,
and what is in memory or being logged is equal to the last commit or newer.
`VersionsAgree` (a version names one write on this disk) is needed so that a record
that is equally new is the same.

**Tasks**: `TasksTypeCorrect`, `ClaimsSurviveCorrect` (the copies of a claim equal the
owner's) and `AtMostOnceCorrect`, for any number of nodes, loads, skews and crashes,
from three hypotheses: rounds in step (`Sync`), `claim_grace_rounds` of three or more,
and one task (see above for two). `OnceInv` says that until somebody executes, the
claims are spreading as the round requires (`Waiting`: in the first round the task, in
the second the claims of those who saw it, in the third of all others), and that
afterwards every running worker has all the claims and the same winner (`Decided`).
Two rounds do not suffice, and three are the code's default.

**Membership and SWIM**: `MembershipTypeCorrect`, `HeartbeatsCorrect` (with the lemma
that `NextRound`'s ranks keep the order of heartbeats), `SwimTypeCorrect`, and
`ProbedKept`: `SwimSpec => ProbedAreKept`, an action property. Its invariant
`AnsweredKeepYoung` says that a running peer with no PING or ACK under way has a
record no older than its last PING.

`SilenceEvicts` is the first half of `OnlySilenceEvicts`, for every swarm and every
`DeadAfter`: if the fanout reaches all known peers (`FullFanout`, a swarm of up to
`fanout` + 1 nodes) and the network was never cut, a tick evicts a running peer only
after `DeadAfter` - 2 messages to running nodes were lost. The invariant
`RunningAreHeard` bounds the age of n's record of a running p by the losses plus two,
which is one round for p to be told of n and one for its answer. It is kept by what
still has to happen in the round: where the bound is reached, p has yet to tick or its
answer is under way; where p does not know n, the bound is one lower, and where that
is reached, n has yet to tick or a message that tells p of it is under way. A loss
raises the bound, so that the invariant needs no record of which message was lost.
`NewAreUnknown` keeps nodes that are not started out of tables and messages, or they
would start with old records. A crash costs no more than the messages it takes along,
which is why the bound is on losses alone. The attempt to prove the property as it
stood before, with `DeadAfter` - 1 losses, failed for a good reason: TLC finds that a
crash and a loss together can do what takes two losses otherwise, because the node
that crashes takes along the news it would have relayed. The property now counts
crashes where it promises `DeadAfter` - 1.

**HyParView**: `HyParViewTypeCorrect`, `ViewsBoundedCorrect`, whose strengthening `Room`
says that without suspension one handler at a time counts on room, and finds it, and
`ContactsKept`, an action property.

**Plumtree**: `PlumtreeTypeCorrect`, and `DeliversOnce`: if the cache has room for all
messages, the initial states and the steps of `Plumtree` are those of `Broadcast` or
stutters, so that `on_deliver` is called at most once per message and node. The
invariant says that what was delivered is what is cached, once, and that what is
cached or gossiped was broadcast; a cache that lacks a message has room for it by the
pigeonhole principle. Without the hypothesis the statement is false (see above).

`EagerTreeCorrect`: `Spec => []EagerTree` for every finite set of nodes whose
neighbourhoods are mutual and connect them (`Overlay`), and a cache with room for all
messages. `TreeInv` describes the one message that spreads in terms of pairs of nodes
(`Shape`), for some choice of the node `par[n]` that n got it from and of a rank that
grows along the way:

* `Settled`: the link to `par[n]` is eager at both ends, and no copy, PRUNE or GRAFT is
  under way on it, so that it stays;
* `Staged`: what a node with the message does for one without is at one stage, from the
  push that has not announced yet over the queue, the IHAVE, the note of it and the GRAFT
  to the copy under way; and the link is eager exactly in the last stage. This is why a
  graft never meets a copy that would prune what it grafts;
* `Silent` and `Reaching`: a node without the message is neither pruned nor asked, so
  that no link to it that was there at the start is lost;
* `Waning`: an eager link between two nodes that have the message, which it did not come
  by, has a redundant copy or a PRUNE under way that will end it.

When nothing is under way, `Reaching` and `Staged` leave no node without the message,
since the links of the start span the nodes; `Waning` leaves only the links to
parents, and by their rank these are one piece (`TreeSpans`) and two for each node but
the first (`TreeCount`). So the next broadcast again starts from links that span the
nodes. The lemmas about `Shape` are about sets of pairs and know nothing of the state;
one lemma per action (`GrowAccept`, `GrowGraft`, ...) shows which change of the sets
it is.

**KVStore**: `KVStoreTypeCorrect`; `QuorumReadsCorrect`, if quorums meet
(`QuorumsMeet`, w + r > the number of replicas), where `QuorumInv` says that the
answers the code counts stand for sets of nodes, two such sets intersect, and a node
of the intersection has the write or something newer unless it has undercut it;
`StrictQuorumReadsCorrect`, without the exception, if the clocks agree
(`ClocksAgree`), for then no write undercuts; `PutsLastCorrect` and
`IndexAgreesCorrect`, whose invariant is that the replicas of one writer form a chain:
of two of them one is a past state of the other.

**Services** (`ServicesProofs`): the three services are proved together, as `Spec` of
`Services` runs any one of them; `Inv` is the conjunction of their invariants.

* `ServicesTypeCorrect`: the types, with trust within the bounds of `TrustLedger`, and for
  every type but RGA the shape of a CRDT state, in replicas and in digests, through every
  operation and merge (`ShapeInv`);
* `MassSound`: `Spec => []MassIsSound`. Mass is conserved as a sum over nodes and
  messages: `SumOf` counts units, so that moving a share is a bijection of finite sets
  and needs no induction over an order of summation. That estimates of an average stay
  among the contributed values (`RangeInv`: two nodes that have started bound every mass
  by their values times its weight) needs halving to be exact, which is `WholeInv`: after
  k rounds every mass is a multiple of `Unit` halved k times;
* `TruthWins`: `Spec => []TruthPrevails` if `HonestMajority` (more correct nodes than
  faulty ones). `TrustInv`: at a node that waits for the correct votes all correct nodes
  have one trust, never below the initial one, and no faulty node has more, so that the
  weight of the truth is the greater sum;
* `ReadsCorrect`: `Spec => [](kind # "RGA" => ReadsAsMeant)`, for any number of
  replicas and operations, and digests that are lost, late, doubled by full syncs and
  relayed. The invariant `ReplicatorInv` says what a state *is* as a function of the
  operations that have reached it (`Represents`): a counter holds per node the number
  of its operations, an `ORSet` the tags of the adds and of those a remove had
  observed, an `LWWMap` the entry with the greatest stamp, an `MVRegister` the writes
  that no other had observed with their clocks; and that the operations that have
  reached a replica or are in a digest are closed under what their authors had seen
  (`Closed`). A `set` of an `LWWMap` drops the newer entries it replaces from `seen`,
  so that its operations are not closed; `MapInv` says that a map is the newest entry
  of `seen`, and needs no more, for a merge takes the newer of two. For the others, a
  merge is then the union of the operations, which is where closure is needed: a
  closed set contains an initial part of every node's operations, so that of two such
  parts one contains the other and the maximum of their counts is the count of the
  union. An `ORSet`'s counter counts the adds of its node (`CountsAdds`), or two adds
  could share a tag.

**Assumptions.** The theorems use the named ASSUMEs of the modules: identities are
natural numbers (only their order is used), sets of nodes are finite, `None` is no
entry, value, peer or state, skews and loads are natural numbers, limits that the code
divides or counts by are positive, starts are of the stated type, a node is never its
own seed or neighbour, and the keys of `KVStore` are a value, its expiry and the index
entries; local values of an aggregation are sequences of natural numbers (one per
start), 1.0 can be halved as often as there are rounds (`UnitAssumption`), and the two
values of a vote differ. TLC evaluates them in every run. Everything else a theorem
needs is a hypothesis in its statement, which the instances of the runs satisfy.
`OnceInv` of `TasksProofs` and of `PlumtreeProofs`, `TreeInv` (with the witnesses as
history variables, in a complete graph and a ring of four nodes) and `RunningAreHeard`
of `DetectorProofs` were checked with TLC on small instances before they were proved.

**Only model-checked.** Liveness (`Convergence`, `TaskCompletes`, `OneLeader`,
`CrashedAreEvicted`, `ProbesEnd`, `DeadStayEvicted`, `LinksAreRepaired`,
`OperationsSpread` and the fairness part of `Broadcasts`), which is out of the
prover's reach. The RGA part of `ReadsAsMeant`, and the shape of an RGA: the reading
of an RGA is a walk through a tree, a recursive function, and what it returns for
every tree takes an induction over data that the installed provers cannot do. The
second half of `OnlySilenceEvicts` (`DeadAfter` - 1 losses or crashes) rests on other
nodes that relay the news, whichever of them it is; it holds for `DeadAfter` of 3 or
more and a fanout that reaches all peers, and was also checked with up to three faults
and with `DeadAfter` of 4.

## Not modelled, and the plan

* Security, identity and cryptography are arithmetic over large numbers; learning is
  floating point.
* The transports, the wire format, the command line, metrics, configuration,
  dashboard and benchmarks are I/O or presentation; the simulation harness explores
  at random what the runs explore exhaustively.
* `pubsub.py` and `agent.py` hand everything on to parts that are modelled and keep
  tables of callbacks.
* The cache of message ids in `_on_message` is taken to be large enough that a
  message is handled once; restarts under an old identity are modelled for the store
  and not for heartbeats, whose ranks would no longer be comparable; the adaptive
  fanout only widens a draw that the modules leave open.

A proof worth adding: the second half of `OnlySilenceEvicts`, with a relay as witness.
