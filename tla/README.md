# RadixKV in TLA+

RadixKV is an in-memory key-value server for Node.js that speaks the Redis
protocol.  This directory holds TLA+ models of its core, the TLC runs that check
them on small instances, and theorems about them that TLAPS checks for every
value of the constants.  All definitions are translated from the TypeScript code
under `src/src`; comments in the modules quote the tests and comments they refer to.

```
tlc -workers 2 -config EngineKeys.cfg StorageEngineMC.tla     # one of the runs below
tlapm StorageEngineProofs.tla                                 # the proofs of a module
```

## 1. The system

### Components, their state and operations

| component | code | state | operations |
|---|---|---|---|
| Recency list | `lru-list.ts` | two sentinels, `prev`/`next` pointers, a count | `pushFront`, `moveToFront`, `remove`, `popTail`, `clear`, `getTailNodes` |
| Storage engine | `storage-engine.ts` | map, recency list, packed array of expiring keys with an index, sweep timer, counters | `set`, `get`, `del`, `incr`, `ttl`, `runActiveTtlCycle`, `startTtlSweep`, `stopTtlSweep`, `clear`; `getStats`, `sampleKeys` read |
| AOF logger | `aof-logger.ts` | write queue, `isFlushing`, `dirtyBytes`, file handle, sync timer, `isClosed` | `logSet`/`logDel`/`logIncr` (all `enqueueWrite`), `flushQueue`, `syncEverySec`, `sync`, `close` |
| AOF recovery | `aof-recovery.ts` | none; reads and repairs the file | `restore` |
| Command handler | `command-handler.ts` | none | one handler per command; changes the engine, then waits for the log |
| Connection | `connection.ts` | parser, promise chain of chunks, `isDraining`, `isClosing`, `isDestroyed` | socket events, `gracefulClose`, `destroy` |
| TCP server | `server.ts` | set of connections, counters | `start`, `handleNewConnection`, `stop` |
| RESP parser, byte buffer | `resp-parser.ts`, `byte-buffer.ts` | stack of unfinished arrays, buffer with two cursors | `execute`, `reset`; `append`, `findCrlf`, `readBytes`, `compact` |
| Atomic mutex, multi-lock | `cluster/atomic-lock.ts` | an `Int32Array` in shared memory | `tryAcquire`, `acquire`, `release`, `withLock`; `acquireAll`, `releaseAll`, `withMultiLock` |
| Consistent hash ring | `cluster/consistent-hash.ts` | sorted array of virtual nodes | `addNode`, `removeNode`, `getNode` |
| Cluster coordinator | `cluster/cluster-coordinator.ts` | workers, `pendingRpcs`, RPC counter, locks, ring | `init`, `execute`, `executeCrossShardDel`, `getClusterStats`, `sampleClusterKeys`, `handleWorkerMessage`, `close` |
| Worker thread | `cluster/worker-thread.ts` | its own engine, the shared locks | message handler |
| Cluster server | `cluster/cluster-server.ts` | sockets, one promise chain each | `start`, `handleClient`, `stop` |
| Cold storage worker | `cold-storage-worker.ts` | timer, `isProcessing` | `createSnapshot`, `start`, `stop` |
| Telemetry collector | `telemetry/telemetry-collector.ts` | command counters, windows of samples, history of snapshots | `recordCommand`, `tick`, `start`, `stop`; `getHistory` reads |
| Telemetry server | `telemetry/telemetry-server.ts`, `gemini-service.ts` | WebSockets of dashboards, the timer of the synthetic traffic | `start`, `stop`, HTTP routes, messages of dashboards, `startSyntheticTraffic`; advisor |
| Serializer, BSON encoder, `index.ts`, `types.ts`, `web/` | | none, or the user interface | formatting, wiring |

### How they interact

* One thread runs the single-node server.  A connection hands chunks to its parser
  and the parsed commands, one after the other, to the command handler, which calls
  the engine and then *awaits* the log.  Between two awaits nothing else runs, so an
  engine method is never interrupted, but commands of other connections run while one
  waits for the disk.
* The engine calls the recency list and its packed array; the sweep timer calls the
  engine between commands.
* At start, recovery replays the file through the same command handler, without a log.
  `RespServer.stop` closes the log first and the connections afterwards.
* In a cluster the master thread routes commands to worker threads over message ports.
  Ports are first in, first out; different ports are not ordered.  Master and workers
  also share an array of locks.
* The cluster server chains the chunks of a connection on a promise and awaits the
  coordinator for each command.  The telemetry server runs in the same thread: every
  second it asks all the shards, twice, for a snapshot, dashboards and HTTP clients run
  commands through it, and the cluster server reports each command it has served.
* The cold storage worker shares the engine with the clients of the single-node server:
  it reads the tail of the recency list, awaits compression and an upload to a sink it is
  given, and then deletes from the engine.

### What is hard, and what makes each component correct

`PROJECT.json` lists the hazards at their lines.  In short:

* *Three copies of the key set.*  Map, list and packed array must agree after every
  order of writes, deletions, expirations and evictions.
* *Expired entries stay in the map* until somebody meets them, so every method has to
  look at the deadline itself; the sweep samples and must still find all of them.
* *Acknowledgements run ahead of the disk*, batches fail or are cut short, flushes,
  background syncs and `close` overlap, the process dies in the middle of a write, and
  the file is replayed at another time than it was written.
* *Threads share memory*: compare, wait, store and notify interleave; locks are
  released before the deletions they seem to guard; workers die.
* *What was read before an await is used after it*: the keys of a cold snapshot, the
  counters of a tick, the chunk whose commands are being served.
* *Streams are cut anywhere*, sockets fill up, close and time out while commands wait.

## 2. Modules

### Recency list: `LruOps`, `LruOrder`, `LruList`

`LruOps` has the list operations as operators on sequences, most recently used first.
`LruList` models the pointers: `next`, `prev` and `size` are the fields, each method is one
action (`clearList` is `clear`: the engine has one too), and `Recounted` keeps the detour by
which `moveToFront` lowers and raises the count.  `LruOrder` is the abstract list;
`ImplementsLruOrder` checks the refinement under which the list is read off the `next`
pointers.  The engine then uses `LruOps`.

### Storage engine: `KVCache`, `StorageEngine`, `StorageEngineMC`

`task` is the method that is running.  A method without a loop is one action; the loops
of `set` (evictions), `del` and `runActiveTtlCycle` take a step per iteration, and
nothing else starts meanwhile.  `Tick` lets time pass between any two steps, since the
code reads the clock several times.  Positions in the packed array count from 1.
Under a memory limit the number of evictions is open: `heapUsed` falls when the garbage
collector runs, not when an entry goes, so `MayEvict` and `MustEvict` allow every stop
between none and the budget.  Batch sampling picks any keys (`Math.random`).

`KVCache` is what clients may rely on: every method takes effect at once, as it was called,
on the entries that have not expired, and returns what these say.  `SET` writes that value
with that deadline, `INCR` one more with the deadline there was, `DEL` removes its keys and
counts those that were there; nothing else changes an entry, and none comes back.  An entry
goes only with its deadline, with a deletion, or, under a limit, while a write makes room.
`ImplementsCache` is the refinement: the abstract store is the unexpired part of the map,
with the entry that a running `set` will insert and without the keys a running `del` has
still to delete; `owed` is the result such a method will return (`Store`, `Owed`).

### Cold storage: `ColdStorage`, `ColdStorageMC`

On top of `StorageEngine`: `createSnapshot` is what the interval does up to its first
await, `saveSnapshot` and `saveSnapshotFails` are the two ways in which compression and
upload end, and `EvictNext` deletes the keys one `engine.del` at a time, during which
nothing else runs (`EventLoopFree`).  Requests, the sweep and the clock go on while a
snapshot is shipped.  The sink is the environment; `stop` leaves a running snapshot alone.

Four things the code does, seen in the model, that no property asks for:

* A value that is written during the two awaits is deleted without having been archived,
  although the option promises eviction "after successfully pushing"
  (`cold-storage-worker.ts:70`): the keys are deleted as they were chosen (`:176`).
  `ArchivedFirst` excludes just that case.
* Expired entries that nobody has met yet are archived like the others.
* The worker calls the engine and not the command handler, so its deletions are not
  logged: after a restart the keys are back.
* `index.ts` does not create a worker; whoever does has to stop it before the engine.

### Append-only file: `AofLogger`

A mutation is its number.  `engine` is the sequence of mutations in memory, `file` the
sequence of frames the operating system has, `durable` the length that survives a power
cut.  JavaScript between two awaits is one step; `writev` and `datasync` are the awaits.
`flush` is the running `flushQueue` with the caller it will return to, `closer` how far
`close` has come.  A handle that is being closed stays open for the calls in flight
(libuv), which `LastCall` models.  Frame 0 is a torn one.  `restore` replays and repairs,
`restoreThrows` is the protocol error of a torn frame in the middle.
`waited` are the mutations whose client waited for its own flush; the others were
acknowledged behind a running one.  `faults` and `powerCuts`, chosen at the start, say
whether writes and syncs may fail and whether a crash may cut the power.

`WriteShort` is a write of fewer bytes than the batch has: `writev` returns the number of
bytes, which the code does not look at, and the flush goes on as if the batch were whole.
What is lost or torn by this goes unnoticed, and no property promises that it does not: on
a disk with faults the properties only ask that frames keep their order, that none is left
without a flush, and that `close` ends.

Two things the code does, seen in the model, that no property asks for:

* `close` calls `flushQueue`, which returns at once when a flush is running
  (`aof-logger.ts:145`); `datasync` and `close` of the handle follow, and the running
  flush then finds the handle closed with acknowledged frames still queued.
* `syncEverySec` clears `dirtyBytes` after its await (`aof-logger.ts:186`): a frame
  written during the `datasync` is forgotten and stays unsynced until the next mutation.

### What a restart restores: `Recovery`, `RecoveryMC`

Commands on a store with deadlines, and the log of those the handler logs (`Logged`: DEL
only when it deleted something, INCR only when it succeeded).  The file itself is
`AofLogger`'s.  After `restart` a new process has an empty engine, and `restore` executes
one logged command at a time on it, at the time it is then, before the port opens
(`listen`); the process may end during the recovery too.  It is the server's own engine,
with its limits (`server.ts:38,75`), so clients' commands and the recovery's go through the
same `Executes`: both make room.  Whom that hits depends on what was used last, and the file
does not have the reads; so `Victims` lets any key go.  After `SET a`, `SET b`, `GET a`,
`SET c` with room for two, clients see `a` and `c`, and a restart brings back `b` and `c`.

`lost` are the keys evicted since the file last said what they are (by `SET` or `DEL`), and
`before` keeps store, `lost` and time of the server that went down.  `RestartKeeps` is about
the keys that were evicted neither before nor by the recovery; it also says that there are
others only when more keys were written than the engine keeps.  Of a key whose last `SET`
had no `EX` clients see exactly what they saw before.  A key whose last `SET` had one
(`Timed`) may come back although it had expired (that is the finding), so only a deadline
that still ran is promised to survive (`DeadlineSurvives`).

### Locks: `AtomicLock`, `AtomicLockMC`

Every access to the shared array is a step: the compare-and-swap, the comparison inside
`Atomics.wait`, the store, the notify.  `Spinner` threads are those `Atomics.wait`
refuses.  `Leaves` ends the critical section, by return or by throw (`finally`).
`release` stores 0 whoever has the lock, and `releaseAll` goes by the list it is given; so
in the model the release goes by the list (`want`) too, never by who has what.  That no lock
of another thread is freed is therefore a result: `acquireAll` returns only with every lock
of the list, also behind a failed `tryAcquire`.

### Hash ring: `HashRing`

The ring is the sorted array of its entries; SHA-256 is the constant `VnodeHashes` and, in
the coordinator, `KeyHash`.  `addNode` inserts the virtual nodes one by one where the
stable sort of the code leaves them, `binarySearch` does the turns of the loop with its
three variables, and `getNode` wraps around.  Next to them stands what they should return
without arrays or searching: `IsFirst` and `Grown`.  `ClusterCoordinator` routes every key
through the ring its constructor builds (`Ring`), and its invariants say where a key
belongs by a search-free reading of the circle (`Owner`).  `ClusterMC` evaluates the ring's
operators on every sorted ring of up to four points of two nodes, equal hashes included
(`SearchFindsFirst`, `NodesComeAndGo`).

### Cluster: `ClusterStore`, `ClusterCoordinator`, `ClusterMC`

Messages are records in one queue per port and direction.  The master's callbacks are
atomic except `executeCrossShardDel` over several shards, which competes for locks:
`acquireLocks`, then one `PostOne` per shard, then `releaseAll`, with the workers running
in between; meanwhile the master handles no message.  A worker's `CROSS_SHARD_DEL`
handler is `WorkerTakes`, `WorkerAcquires`, `WorkerDeletes`, `WorkerAnswers`.  An RPC id
is fresh for every message; since a connection has one call under way and sends a shard
at most one message for it, the pair of connection and shard stands for the id.

The engines of the shards keep of an entry its number and whether it has a deadline.  The
clock is not modelled: an entry with a deadline may expire before any command that meets
it, and under `Limited` any entry may have been evicted.  Which entries a command will find
gone is guessed when it is called and carried by its messages as `lost` (`Vanishing`,
`Faded`), a prophecy: the abstract store has to drop them at the same step on all shards.
The guess is free, so every combination of found and gone entries that the shards may meet
occurs, but it is more than clocks allow: two keys with one deadline need not go together.
In the code they may not either: a `DEL` over two shards whose deadline passes between the
two deletions counts 1, and so does the model.  The store the callers see is one in which
each entry expires for itself.

`ClusterStore` is one store on which every command takes effect at once.  It knows the
command each caller has called (`cmd`), so that a step of the store is the step of that
command, with its key, value and deadline, and the answer is that command's.
`ImplementsStore` shows linearizability: the abstract store is what each shard will hold
when it is through with all that was posted (`Outcome`), so a command takes effect when
the master posts it.  The result says something the code does not: cross-shard DEL is
atomic because the posts of one call are made in one callback and ports keep their order.
The locks are released before any deletion has to be finished; what they add is
`FanOutWhole`.

### Cluster server and telemetry: `Telemetry`, `ClusterServer`, `ClusterServerMC`

Everything here awaits the coordinator, and only the order in which answers come matters.
So a shard is the queue of the callers that wait for it (`port`: inbox, worker and outbox
are all first in, first out), `owed` are the shards a caller still waits for, and the code
behind an await runs in the event that brings the last answer.  `Telemetry` has the
counters, ticks, history, dashboards, API requests and synthetic traffic; `ClusterServer`
adds the sockets, each with its chain of chunks, and `stop`.  `RunOn` lets a chain go on to
the next command it has to await.  A tick keeps what it has read and when (`since`, a
history variable).  `cast` says who takes part in a behaviour: the five kinds of callers
together would not be checkable, and every pair that shares state is in one of the casts.

Things the code does, seen in the model, that no property asks for:

* With a dead worker, commands that were sent to it never settle.  A tick under way then
  stays for ever, a batch of traffic too, and `stop`, which waits for the HTTP server and so
  for its requests, does not return (`StopReturns` leaves that case out).  The `catch`
  marked "Fallback if coordinator busy" (`telemetry-collector.ts:222`) does not help: the
  promises are not rejected, they stay pending.
* The interval of the synthetic traffic starts a batch every 25 ms whether or not the one
  before has ended (`telemetry-server.ts:268`); with a slow or dead shard they pile up.  The
  model has one batch at a time.
* Commands of a later chunk are executed behind QUIT, and behind the end of the socket;
  only their replies are lost.  There is no back-pressure on either side.
* A malformed chunk loses the commands in front of the malformed line as well, because `execute`
  throws and returns nothing, and the connection is destroyed without a reply.
* `activeSockets` is set by the cluster server to the number of its sockets, and counted up
  and down for dashboards by the telemetry server, so the two overwrite each other; the
  model leaves the number out.

### Connections and the server: `Connection`, `RespServer`, `RespServerMC`

A connection is a record, and `Connection` has its methods as operators on it, under their
names in the code; `execute` gives the states after the next command of a chunk, up to its
first real wait.  `RespServer` has an action per socket event, timer and continuation.
Microtasks run before the next event, which `Settled` says: no continuation is pending.
A request is a number with a kind (read, write, INCR, QUIT, not RESP).  The log is
abstracted to what a command sees of it: a mutation waits for its flush, or is answered
behind another one, or is rejected once `aof` is closing or closed.

Node's socket is external, as the code uses it: `write` reports that more than `HighWater`
replies are buffered, 'drain' follows when none is left, unless the socket was ended; a
write after `end` fails and destroys it with 'error'; 'end' comes to a paused socket too
when no data is left before it; both ends closed means destroyed; `cleanup` removes the
listeners.

Five things the code does, seen in the model, that no property asks for:

* After a protocol error `isClosing` stays false until the error reply is written
  (`connection.ts:136`), so chunks that were already queued are still executed.
* A connection that is paused when it begins to close is never resumed (`Jammed`;
  `connection.ts:128`).  With input left to read it stays half open until the server stops.
* Without a listener for 'error' on the connections, and `index.ts` has none, a socket
  error ends the process, and so does a reply that a waiting command writes after
  `gracefulClose` has ended the socket.  `listener` is chosen at the start: with one,
  `HeardErrorsContained` holds.
* `stop` closes the log first (`server.ts:163`), although its comment lists it last
  (`server.ts:149`).  A SET or DEL that arrives in between changes the engine and is
  answered with a protocol error that closes the connection, an INCR with an error.
* `handleClose` removes the listeners before it emits 'close' (`connection.ts:186`), so the
  handler with which the server forgets a connection (`server.ts:130`) never runs, and
  `getMetrics` counts every connection it ever had as active (`server.ts:145`).

### Parser: `ByteBuffer`, `RespStreams`, `RespParser`, `RespParserMC`

`ByteBuffer` has the methods of the buffer as operators on its record of cells and
offsets, with the copying that compaction and growth do.  `RespParser` takes a step for the
chunk that arrives and a step per turn of the loops of `execute` and `completeValue`.
Bytes are symbols.  `stream` is what the client or the file has to say, `fed` how much of
it has been cut off and handed over.

`RespStreams` says which values a stream encodes, so that the properties compare the parser
with a definition of RESP and not with itself.  A stream comes with its reading: a node for
each value, nested ones too, with the bytes where it, its first line and its items begin
and end.  `IsNode` says when a node is right: a line, a bulk string, an array whose items
follow each other, or no RESP (`NotResp`) from a certain byte on; only the last of a row may
be that.  It speaks of positions in the whole stream and knows no chunks, no buffer and no
stack.  `StreamAssumption` says that the streams fit their readings; TLC evaluates it for
those of `RespParserMC`, which are made by `Encode` from values and malformed pieces.  It
excludes nothing that can arrive: every sequence of bytes is the beginning of a stream with
a reading, and the properties speak of whatever part of a stream was fed.

## 3. Runs

| run | configuration | shows |
|---|---|---|
| `lru_list` | `LruList.cfg`: 5 nodes | pointers and count are a recency sequence, for every order of the operations |
| `engine_keys` | `EngineKeys.cfg`: 3 keys, room for 2, 4 operations, clock 0..2 | map, list and packed array agree; the evicted key is the least recently used and never the one just written; every method does what it was asked to and returns what the unexpired entries say |
| `engine_cold` | `EngineCold.cfg`: 2 keys, memory limit, 3 operations, batches of 1, a cold storage worker whose upload may fail | every method and snapshot ends; the worker deletes only what it has archived, or what was touched since; every expired key is reclaimed, also while the collector decides on evictions |
| `aof` | `Aof.cfg`: every policy, sound and failing disks (failing and short writes, failing syncs), with and without power cuts, 2 clients, 3 mutations, 2 crashes | memory = file + batch + queue, in order, and no frame is left without a flush; recovery restores a prefix with all that was synced and waited for; the queue empties and, under `always`, gets synced; `close` ends |
| `aof_acked_lost` | `AofAcked.cfg` | **violated**: `always` acknowledges a mutation before it is written |
| `recovery` | `Recovery.cfg`: 3 keys, room for 2, 3 logged commands, clock 0..2, restarts during a recovery too | keys that no eviction has hit, before the restart or in the recovery, come back exactly, running deadlines no earlier; evictions hit only a crowded engine |
| `recovery_resurrects` | `RecoveryExpired.cfg` | **violated**: an entry that had expired is back after a restart |
| `atomic_lock` | `AtomicLock.cfg`: 3 threads, 3 locks, requests that form a circle unless sorted, releases by the list | mutual exclusion, no release of another's lock, no lost wakeup, no deadlock |
| `cluster` | `Cluster.cfg`: 2 connections, 2 shards of 3 virtual nodes with equal hashes, 2 keys of which one wraps around, entries with and without deadline, a worker that may die | linearizable store, exact locks, keys on the shard the circle gives them, whole fan-outs, calls answered |
| `cluster_server` | `ClusterServer.cfg`: a connection with 3 requests in chunks of every kind, a dashboard, an API request, traffic, 2 ticks, 2 shards of which one may die | every command is counted in exactly one interval; snapshots are in order and dashboards miss none; replies keep their order; what does not wait for a dead worker ends, `stop` included |
| `resp_server` | `RespServer.cfg`: a connection with 3 requests in chunks of every kind and an idle one, 2 replies fill a socket, with and without a log and a listener | requests are executed and answered in order, none after QUIT; a pause ends; connections that ended close; `stop` returns, and everything is quiet then |
| `resp_parser` | `RespParser.cfg`: 54 streams of two values, or of one and a malformed piece, cut into chunks in every way; a buffer of 4 cells that grows to 20; lines up to 6, payloads up to 3, depth 2; one `reset` | values, error and offsets depend on the stream alone; a call ends |

Why the bounds are enough.  Five nodes give the list both ends and an inside.  Three keys
with room for two make every write of a new key evict, and let the array swap a key from
the end, from the middle and with itself.  In the recovery they fill the engine, and three
logged commands overfill it, before the restart, in the recovery or both.  Three mutations put
one in the batch, one in the queue and one behind them; two crashes let a second recovery
read what the first one repaired.  Three threads on three locks have the shortest circle, and a thread that barges
in between a sleeper and its waker.  Two connections and two shards, one key each, give
every order of a fan-out and single commands around it; calls are not bounded there.  One
of the two workers may die, the other has to go on; entries are not evicted there
(`Limited` is `FALSE`), but the proof leaves that open.  On
its ring a key falls on a point that both shards have, and another behind the last point,
which is not of the shard that has the first.  Two ticks overlap, a history of one snapshot
has to drop one, and three requests on two shards put a reply behind one that is late.
Three requests on a connection put one behind a waiting one and one behind QUIT, and two
connections let `stop` meet one in each stage.  A buffer of 4 cells has to compact and to
grow within every stream, one of 20 overflows in the longest, and a frame of the streams is
cut at each of its bytes.

Bounds and where they are: `MaxOps`, `MaxTime`, `MaxInt`, `MaxEvictions`, `SampleSize`
(engine), `MaxId`, `MaxCrashes` (log), `MaxLog`, `MaxTime`, `MaxInt` (recovery), `MaxInt`,
`Mortal` (cluster), `MaxSent`, `HighWater` (server), `MaxSent`, `MaxTicks`, `MaxCommands`, `Casts`,
`Mortal` (cluster server; `HistoryLength`, `TrafficBatch`, `BatchSize` and `SampleLimit` are
options of the code, given small values), `MaxResets` and `LaterStreams`, the streams that
may follow a reset (parser).  Keys are symmetric in `engine_keys`, where no liveness is
checked.  `CHECK_DEADLOCK FALSE` is set where the bounds, a crash, or the end of
the server may stop the system.

### Fairness

* Engine: the steps of the running method, the clock (its bound included) and the sweep
  timer, because the event loop returns to them.  Clients never have to call.
* Cold storage: the engine's fairness, and compression and upload end, with success or
  not; the steps of the worker need strong fairness because the event loop is busy with
  commands now and then.  The worker need not be started, nor its interval fire.
* Log: system calls return, `setImmediate` callbacks run, the interval fires; no fairness
  for commands, crashes, faults or `close`.
* Locks: a running thread takes its next step; critical sections end.  The 50 ms timeout
  of `Atomics.wait` is possible but not fair: the notifications have to be enough.
* Cluster: threads run and ports deliver; nobody has to call, die or close.  Weak fairness
  is enough for a worker that waits for its lock, because the connections whose deletions
  take the lock wait for that worker themselves.
* Cluster server: a worker that lives answers the oldest message of its port, and events
  that have happened are delivered.  Nobody has to connect, send, end, stop or die, and no
  interval has to fire.
* Server: continuations run, events that have happened are delivered, timers of `stop`
  fire, waits for the log end, and clients read what they are sent.  Nobody has to send,
  to end a connection, to reset it or to stop the server, and idle timeouts need not fire.
* Parser: `execute` runs on; nobody has to send more.

## 4. Proofs

| theorem | module | says, for all constants |
|---|---|---|
| `EngineTypes`, `ListAlwaysMatchesMap`, `ExpiryIndexAlwaysExact` | `StorageEngineProofs` | types; the list holds exactly the keys of the map, once each; array and index are inverse and hold exactly the keys with a deadline |
| `RecencyAlwaysOrdered` | `StorageEngineProofs` | the list is sorted by the last use of its keys, so that the eviction takes the least recently used one |
| `LimitsAlwaysKept` | `StorageEngineProofs` | no method returns with more keys than the limit, and a write does not evict what it wrote |
| `EngineIsACache` | `StorageEngineProofs` | the refinement of `KVCache`: `SET`, `GET`, `INCR`, `TTL`, `DEL` and `clear` do to the unexpired entries what they were called for and return what these say; otherwise entries only expire, or make room for a write |
| `ArchivedBeforeDeleted` | `StorageEngineProofs` | the worker deletes only what it saved or what was touched meanwhile |
| `ListAlwaysWellLinked`, `ListIsASequence` | `StorageEngineProofs` | the pointers form one chain of the counted length in both directions; the refinement of `LruOrder`, for any number of nodes |
| `LogAlwaysExact` | `AofProofs` | until `close` the engine's history is what file, running `writev` and queue have, in order, and no frame waits without a flush |
| `RecoveryRestoresPrefix` | `AofProofs` | after a crash or power cut at any step, recovery restores a prefix of the history with everything that was synced |
| `WaitedAlwaysSurvives` | `AofProofs` | a mutation whose client waited for its own flush is there after every restart, under `always` also after a power cut |
| `RestartsKeep` | `RecoveryProofs` | a recovery on the server's own limited engine restores every key that was evicted neither before nor by it: exactly, or, with a deadline still running, with its value and no earlier deadline; an engine with room for all keys loses none |
| `LocksExclude`, `WakeupsAreNotLost` | `ClusterProofs` | mutual exclusion and no lost wakeup, for any number of threads and locks and any requests |
| `AppendExtends` | `RespParserProofs` | `append` puts the chunk behind the unread bytes and changes none of them, whether it fits, compacts or grows |
| `UnreadAlwaysExact` | `RespParserProofs` | the buffer holds exactly the part of the stream that was not consumed, for every stream, split, capacity and limit |
| `ReturnsAlwaysExact` | `RespParserProofs` | `execute` has returned the values that the stream encodes, once their last byte has arrived and in order, and throws with the byte that makes it no RESP, for every stream, split, capacity and limit |
| `OffsetsAlwaysExact` | `RespParserProofs` | `lastValidOffset` is the end of the last whole frame, after an error too; `isIncomplete` says whether bytes follow it |
| `SearchFindsTheFirst` | `ClusterProofs` | the binary search of the ring finds the first point at or behind a hash, on every sorted ring |
| `NodesJoin`, `NodesLeave` | `ClusterProofs` | when a node joins, keys move only to it; when it leaves, only its keys move |
| `EveryKeyHasAShard`, `KeysGoClockwise` | `ClusterProofs` | every key goes to the shard of the next point clockwise, the lowest one if shards share the point |
| `Orderly` | `RespServerProofs` | a connection executes and answers its requests in the order it got them, none twice, and nothing behind `QUIT` |
| `Resumed` | `RespServerProofs` | a paused connection that is not closing has output whose drain will resume it |
| `ErrorsContained` | `RespServerProofs` | with a listener for the connections' errors, none of them ends the process |
| `Stopped` | `RespServerProofs` | once `stop` has returned, no socket is read and no command executed any more |
| `ClusterLocksExact` | `ClusterProofs` | a shard's lock is set exactly while the master or its worker has it, never both, whichever workers die |
| `FanOutsAreWhole` | `ClusterProofs` | no worker begins the deletions of a cross-shard `DEL` before every shard has its part |
| `ClusterConsistent` | `ClusterProofs` | a worker only gets messages for keys of its shard, whole and of their type, and answers with numbers |
| `ClusterIsOneStore` | `ClusterProofs` | the refinement of `ClusterStore`: callers see one store on which each of their commands takes effect at once and is answered by what it met, entries with deadlines going each for itself, also when workers die |
| `NothingCountedTwice` | `ClusterServerProofs` | every answered command is in exactly one interval of the telemetry, ticks that overlap included |
| `TicksEndInOrder` | `ClusterServerProofs` | overlapping ticks end in the order they started, and a dashboard gets every snapshot from its first on |
| `AnswersKeepOrder` | `ClusterServerProofs` | replies keep the order of the requests over errors, `QUIT` and late shards |

*Engine.*  The inductive invariant is `EngineInv`: `TypeOK`, `ListMatchesMap`,
`ExpiryIndexExact` and `PendingAbsent`.  The last is the strengthening: while `set` evicts
in front of a new key, the key is not in the map, or its insertion would put it into the
list twice.  The lemmas say what each list operator does to a sequence without
repetitions, then there is one per way of changing the data
(`TrackKeepsIndex`, `UntrackKeepsIndex`, `DeleteKeepsData`, `EvictKeepsData`,
`InsertKeepsData`, ...) and `EngineStep` goes through the actions.  `RecencyInv` adds that
`totalOps` bounds every last use, strictly while a new key waits for its place, which
puts it in front of all others.  `LimitsInv` allows one key too many between an insertion
and the next eviction, and says that the new key is in front meanwhile: to evict it, the
list would have to be of one key, which is no more than the limit.  All rests on the named
assumptions on the constants in `StorageEngine`.

For the refinement of `KVCache`, `MethodInv` adds that a clock read by a running method is
not ahead of the time, that a running method has not answered, and that only `set` and
`incr` make room; `LimitsInv` gives that a write evicts others.  What clients see and are
owed depends on the method that runs (`IdleShows`, `SweepShows`, `TrimShows`, `DelShows`,
`RoomShows`).  A call takes effect in its first step, whether it returns there (`AtOnce`) or
goes on (`Later`); `CacheStep` goes through the methods and shows for each of their steps
which step of the cache it is: the call, an eviction, the return, or nothing seen.

*Cold storage.*  `SnapshotInv` says what a snapshot still knows of the entries it collected:
each is in the map unchanged, or is gone, or was used after `snapshot.at`; and a `del`
that runs while it evicts names only keys it collected.  The engine's own steps
either remove an entry or stamp it with a later use (`EngineUses`), the worker's leave all
entries (`WorkerQuiet`).  `ColdStep` shows the engine's invariants for the steps of both.

*List.*  A `Chain` is the cells from head to tail, without repetition; `ListInv` says that
there is one along which `next` leads forward and `prev` back, that no other node has
pointers, and that the count is its length.  `Unlinks` takes a cell out (`Without`),
`Fronts` puts one behind the head (`WithFirst`).  What the walks along the pointers meet,
`Walk` of `clear` and `BackWalk` of `getTailNodes`, are recursive functions; they exist and
follow the chain by `WalkExists` (from `Iterated` in `LeastNumber`).  The abstract sequence
is then the nodes of the chain (`OrderIs`), and `ListStep` compares the operations.

*Log.*  `AofInv` adds to what is claimed of a running server what is needed across a
crash: nothing of the logger outlives the process (`Quiescent`), `batch` is empty unless a
`writev` runs, every frame is below the next number, after `close` the log is still how
the history begins, and while the server is down the whole frames of the file are
(`Exact`).  A step adds a frame, keeps the log, or moves it from the queue to the file,
where it may be cut (`PartOf`); one lemma per group of steps says which (`MutateKeeps`,
`QuietKeeps`, `FlushStepKeeps`, `TakingKeeps`, `EndKeeps`, `RestoreKeeps`,
`RefusalKeeps`), `OrderKept` and `MovedExact`, `KeptExact`, `DownExact` do the rest.
`WaitedInv` follows a client's frame through its flush: in the running `writev`, then in
what the running `datasync` covers, then among the frames that survive the crashes that
may come (`Safe`): those synced if power cuts do, otherwise those in the file.

*Recovery.*  `RecoveryInv` compares the store, key by key, with what the part of the file
that it has executed says (`Said(Read)`), the values and the `EX` of the last `SET`s.
`StoreMatches`: a key that is not `lost` and was set without `EX` is as the file says; one
set with `EX` has, while it is alive, the file's value and at most that much time left
(`Matches`).  In a recovery such an entry has at least the `EX` since the server went down
(`InPlace`), because the recovery comes later.  `BeforeMatches` says of the store that went
down that it matched the whole file; both together, with the whole file executed, are the
theorem (`RestoredKeeps`).  `NoneLost`: the keys of the store are named by the file, and
none was evicted unless there are too many of them.  A command changes every key by itself
(`Changed`), so that what it does to the store and to what the file says is compared key by
key (`ChangedMatches`, `ChangedInPlace`), for the commands that are logged and for those
that are not (`UnloggedMatches`); an eviction puts its keys among the `lost`, a `SET` or
`DEL` takes its keys out (`CommandMatches`, `CommandLoses`).  `Said` is a fold: that it is
the last of a sequence of stores which starts empty and goes on with one command after the
other is `ReplayGoesOn`, from `FoldExists` (in `LeastNumber`); no store of the sequence has an
expired entry (`ReplayAlive`).

*Locks.*  Proved next to the cluster that uses them, therefore the names `LockInit`,
`LockNext`, `LockSpec` in `AtomicLock`.  `LockTypes`, `MutualExclusion` and `NoLostWakeup`
are inductive together; a thread that releases has exactly what its list still names, which
is why the release by the list frees no lock of another thread.  The argument for the last:
a thread that sleeps on a free lock has somebody who will see to the lock (`SeenTo`), and the only steps that end this role wake a
sleeper or take the lock.

*Parser.*  Each method of the buffer has a lemma about the bytes a reader has in front of
it (`CompactKeeps`, `GrowKeeps`, `PutAppends`, `AdvanceDrops`).  `UnreadExact` is not
inductive: `ParserInv` adds that the buffer is well formed, that a pending length is a
natural number, and that no more bytes are unread than were fed.  That a line found by
`findCrlf` lies within the unread bytes needs a least element (`Least`, in `LeastNumber`),
which comes from the well-foundedness of the natural numbers.

`ReadingInv` is behind `ReturnsExact` and `OffsetsExact`; TLC checked it on the streams of
`resp_parser` before it was proved.  It says where the parser is in the reading of its stream.  The arrays
on its stack are open nodes (`Path`): the first a frame, each next one an item of the one
in front of it, and each level of the stack holds the values of the items that are behind
the parser.  The parser stands at the beginning of the next node, at its payload, or behind
it with its value in hand (`Place`); when it waits for a chunk, that node has not arrived
(`Waiting`); and what it returned and has in hand are the first frames (`Returns`,
`Emitted`), or the stream has shown to be no RESP (`Refuted`).  Every step has a lemma:
a line lets the parser pass a node (`LineCompletes`) or enter one (`EnterArray`), a value is
passed as an item, with the last one the array is itself a value (`PassItem`,
`PassArray`), or as a frame (`PassFrame`).  A header that `findCrlf` finds is the header of
the next node, since the buffer holds the unread bytes (`FindsHeader`), and what the line
says decides which kind of node that is (`GoodLine`, `OpeningLine`, `BadLine`).  There is no
induction over values in this: the nesting is the stack's, one level is as good as another.
Where a node ends behind its beginning, and not behind the stream, would be an induction
over the items; it is one over the distance from the end of the stream instead
(`NodeShape`, with `Least`).  The theorems rest on the named assumptions on capacities,
limits, resets and streams.

*Server.*  `ServerInv` is about one connection at a time (`Kept`).  Its core is `Ordered`:
from what was written to the client over the replies and the rest of the turn under way to
the queue and what is still on the wire, the requests are numbered without a gap.  `Quits`
says what is left to do behind `QUIT`, `InLine` what may still happen on a socket that is
ended or destroyed, `Going` when the server knows the connection.  Every step moves requests
from one place to the next and one lemma per step says so.  `Calm` relates the connections
to `stop`: whoever can be read is known to the server, and when it has stopped, nobody can
be read or is busy, so that no step is left that calls the engine.  `FlattenSeq`, the
commands of the chunks of a wire, is a recursive function: that it has its equations is
shown with `Least` (`FlattenDefined`, `FlattenFirst`), as a least length without them would
have one.

*Ring.*  `SearchInv` is the invariant of the search: everything in front of `low` is too
small, the entry at `result` is large enough, and `result` is right behind `high`.
`StepIsSound` shows that a turn keeps it and leaves fewer entries; a least turn that did not
would contradict it, which gives the result after `Len(ring)` turns, the number
`binarySearch` does.  The turns are a recursive function; that it exists is `Iterated`.
`OnlyItsKeysMove` compares any two rings of which one is the other with entries of a node in
between (`Grown`), and `AddKeeps` and `RemoveKeeps` show that `addNode` and `removeNode`,
which are folds, make such rings: an insertion is one (`InsertGrows`), and one grown ring
may grow on (`GrownTrans`).  The ring of the constructor is a fold of folds (`RingGoesOn`).
After each shard it has all points of the shards so far, sorted, equal ones in the order of
their shards (`RingPlaced`), since an entry is inserted behind its equals; therefore the
search, which finds the first, finds the lowest shard (`FirstIsLowest`).

*Cluster.*  `LockInv` says in which shapes the master and a worker are found and that the
locks are exact; it is inductive by itself.  `FanOutWhole` needs `FlowInv`: on a shard, a
client has at most one message, and that in one place, the inbox, the worker's hands or
the outbox (`OneMessage`); what is in flight is still waited for (`Accounted`); and while
the master posts, it has the lock of every shard that got its part (`PostedUnderLock`).
The theorem follows (`WholeByInvariant`): a worker about to delete has the shard's lock
and a message of the client, so the master cannot have it too, and has posted everything.
`Min` and `Max` of the lock indices exist by `Least`.

That the cluster is one store is `StoreInv`: `ClusterInv`, the types with engines that have
finitely many keys, of their own shard only (`TypeInv`), and `DueInv`.  The difficulty is
that the abstract store answers a call when the master accepts it, from what each shard
*will* hold (`Outcome`), while the real answers come later, one shard at a time.  `DueInv`
says that there are answers, one for each shard and client, fixed from the call on: they
are what the shard's messages get if they are carried out in order from the engine of
now (`Replays`), what the outbox holds already, and what the worker has counted; and what a
call was promised is the sum so far and the answers of the shards it waits for (`Promised`).
A step that carries out the first message leaves both the outcome and the answers of the
others (`CarriedOut`); a step that only moves a message leaves everything (`MovesOn`);
a call puts its messages behind all others, and adds its answers (`BeginsDue`); an answer
that arrives moves from what is awaited to the sum.  The carrying out is a fold over a
sequence (`RunIsFold`, `FoldLonger`, `FoldShorter`) and the promise a fold over a set of
shards, which does not depend on their order (`Total`, `PromiseIs`, `TotalFacts`); that
shards have different keys makes the counts of `DEL` and of the statistics the size of a
union (`TotalCounts`).  What the store may lose at a call is what the shards may
(`VanishingSame`), each shard loses its own part of it (`Share`, `SharesFade`), and what the
parts have left adds up to what the store has left (`PartsAddUp`).  A call is then a command
of the store with that promise (`Called`, `PromisedTo`, `PromiseCalls`).  `StoreStep` shows
that a step keeps `StoreInv` and is a command of the store, an answer, or nothing.

*Cluster server.*  The invariant is `Base`, on which the three theorems build.  `Mail`: a
caller has exactly one message on the port of every shard it still waits for, and no other.
`TickOrder`: of two ticks the earlier one is further, or in the same phase with its
message in front of the other's on every port; since ports keep their order the earlier
one completes first, so that the ticks that are done are the first ones (`DoneUpTo`) and
each appends the next number to the history.  `Served` says of a connection that the
numbers of its requests go on without a gap from what was written over the rest of the
chunk to the queue (`GoesOn`), and that it awaits an answer exactly while there is a rest.
`RunOn`, a recursive function, does a number of turns of which each keeps this: that the
function exists and stays among the connections is the lemma `Iterated`, proved with
`Least`.  `CountInv` adds that no tick was taken later than the last command.  That kinds of
callers differ is `CallerAssumption`, which TLC evaluates.

*Model-checked only*: the liveness properties (`CallsReturn`, `ExpiredReclaimed`,
`LoggerProgresses`, `SomebodyEnters`, `CallsAnswered`, `CallsSettle`, `StopReturns`,
`RequestsAnswered`, `EndsReached`, `ExecuteReturns`), which need fairness and ENABLED.
No theorem of the library does induction over data here; what is proved of folds,
recursive functions and loops comes from `Least`.

## 5. What is not modelled

* Formatting without state: serializer, BSON encoder, the bytes of log frames (a frame is
  whole or torn), the tokenizer and formatter of `executeRawCommand`; wording, logging.
* `AofLogger.sync`, which nothing calls, and opening the file lazily, which
  `RespServer.start` rules out.
* In the cluster: the clock of the shards.  Entries have a deadline or none, one with a
  deadline may have expired whenever a command meets it, and that keys with one deadline
  expire at one time is left out (see section 2); so is the answer of `TTL`, which looks an
  entry up as `GET` does.  `Limited` lets any entry be evicted before any command, which is
  more than the limits do.  Values are numbers (`INCR` on a text is the engine's).
* In the cluster: keys that are not bulk strings.  The router takes them for no key and
  runs the command on shard 0 (`cluster-coordinator.ts:417`).  The tokenizer of command
  lines, which drops arguments that are quoted and empty (`SET k ""`,
  `cluster-coordinator.ts:355`).
* In the telemetry: percentiles, hit ratios, memory, the heat map (with more than 64 shards
  `blocksPerShard` is 0 and its numbers are infinite or undefined,
  `telemetry-collector.ts:295`), `connectedSockets`, routes that only read, the AI routes.
* `gemini-service.ts`, `index.ts`, `web/`: an external service, wiring, the user interface.
* In the server: `start`, which is over before the first connection; the limit on
  connections, which `net.Server` keeps; a failing close of the log; `peekByte` and
  `readByte` of the buffer, which nothing calls; the decoding of lines to text.

## 6. Plan

1. Done, the parts whose failure loses data first: list, engine, log, recovery, locks,
   cluster, server, parser; then cold storage, hash ring, cluster server, telemetry.
2. Left to model: the tokenizer of command lines and the round trip of the BSON encoder,
   as operators against references.
3. Every safety property of the passing runs is proved; the liveness properties stay with TLC.
