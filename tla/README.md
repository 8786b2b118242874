# kvllay in TLA+

kvllay is an in-memory key-value server in C++17 that speaks the Redis
protocol. This directory holds TLA+ modules translated from its source
(`include/kvllay/*.hpp`), the configurations that check them with TLC on small
instances, and proofs, checked by TLAPS, of the properties that matter most.
Every definition that models code is listed with its lines in `PROJECT.json`.

    tlc -config aof_everysec.cfg MCAof.tla      # one run
    tlapm AofProofs.tla                         # one module of proofs

## The system

| Component | Source | State | Operations |
| --- | --- | --- | --- |
| Store: keyspace | `store.hpp` | 32 shards, each with a mutex, its entries and `keys_with_ttl`; `used_memory_`, `dirty_` | commands on strings, counters, lists, hashes, sets, sorted sets; EXPIRE and PERSIST; FLUSHDB; eviction; dump and restore |
| Store: blocking pops | `store.hpp` | `blocked_waiters_` | `register_blocked_pop`, `notify_blocked_waiter_for_key`, `check_blocked_pop_timeouts`, `cancel_blocked_pop` |
| CommandHandler | `commands.hpp` | sessions, subscriptions, sinks of clients | parse arguments, ask for memory, call the store, append to the log, publish |
| Event loops | `event_loop.hpp` | connections: buffers, transaction queue, pending asynchronous messages | read, dispatch, write, MULTI/EXEC, close |
| SnapshotManager | `snapshot.hpp` | the snapshot file, `save_thread_mutex_`, `saving_in_progress_` | SAVE, BGSAVE, auto-save, `load`, `stop` |
| AofManager | `aof.hpp` | two buffers, the log file, `running_`, `rewrite_in_progress_` | `append`, the writer, `flush_sync`, BGREWRITEAOF, `load`, `start`, `stop` |
| Server | `server.hpp` | the socket, all of the above | `start`, `run`, `stop` |
| Resp | `resp.hpp` | none | parse requests, format replies |
| Constants, allocator, main | `constants.hpp`, `allocator.hpp`, `main.cpp` | none | limits, `malloc_trim`, the command line |

### How they interact

A `WorkerEventLoop` is a thread with an epoll set. It reads what a connection
sent, takes one command after the other out of `read_buf`, and calls
`CommandHandler::dispatch`. A handler asks `check_memory_and_evict` if the
command is one of those that may be refused, calls one method of `Store`, and,
when the command changed something, appends it to the log *after* the store has
released its locks. Two commands reach into other connections: a push serves
the BRPOP of somebody else, and PUBLISH; both go through the *sink* of that
connection, which queues a message and wakes the loop it belongs to.

The other threads are the eviction thread of the store (every 50 ms: the sweep
of expired keys, then the timeouts of BRPOP), the background writer of the log,
the thread of a rewrite, the thread of a save, the auto-save thread, and the
main thread, which starts and stops all of it. What they share:

| Shared state | Guarded by | Used by |
| --- | --- | --- |
| entries, `keys_with_ttl` | the `shared_mutex` of the shard | workers, eviction thread, dumps of a save and of a rewrite |
| `used_memory_`, `dirty_` | atomics, outside any order | workers, eviction thread, auto-save, `Server::stop` |
| `blocked_waiters_` | `blocked_mutex_` | workers, eviction thread |
| `pending` of a connection | its own mutex | every worker, eviction thread |
| the buffers of the log | `buffer_mutex_`; `file_mutex_` for the file | workers, writer, rewrite, `stop` |
| the snapshot file | `saving_in_progress_`, `save_thread_mutex_` | workers, save thread, auto-save, `stop` |

### What is hard, and what makes each part correct

* **Log.** Two buffers change hands between threads that hold one mutex of two;
  `fsync` is three different promises; a rewrite works beside the writer; a
  crash may come anywhere. *Correct* means: no command is lost or logged twice,
  with `always` no client has an answer that a power loss can take back, a clean
  stop leaves nothing in a buffer, every thread that is joined ends.
* **Snapshots.** Three ways to save share one flag, one mutex and one thread
  object; the counter of changes is reset apart from the dump. *Correct* means:
  one saver at a time, a file that is whole after any crash, a confirmed save
  that stays, and a stop that saves what is not saved.
* **Event loops and blocking pops.** The answer of a BRPOP comes from another
  thread, in the middle of a pipeline, with a timeout and a hang-up racing it.
  *Correct* means: answers in the order of the requests, each value in exactly
  one place, no connection blocked that nobody will wake.
* **Publish and subscribe, connections.** A message crosses from the loop of its
  publisher to the loop of each subscriber while either may be closing, and
  `Server::stop` takes loops down while accept still hands out sockets.
  *Correct* means: each subscriber gets each message once for each subscription
  and after its acknowledgement; each socket is served or closed; stop ends.
* **Keyspace.** Decisions are made under one lock and carried out under the
  next; the index and the memory counter repeat what the entries say, in
  every command. *Correct* means: the index and the counter agree with the
  entries, only expired entries expire, and all of them do.
* **Locks of the shards.** Commands on several keys hold several of 32 shared
  mutexes at once. *Correct* means: no circle of waits, and each command (or
  each command of an EXEC) sees and makes one state of the keyspace.
* **Restart.** The snapshot is loaded, the whole log is replayed over it, and
  the clock has gone on. *Correct* means: the keyspace is what it was, less
  what has expired.
* **Parser.** A request may arrive in any number of pieces and hold any bytes.
  *Correct* means: the same requests come out whatever the pieces are.

## The modules

| Module | Models | Run by | Proved in |
| --- | --- | --- | --- |
| `DurableLog` | what an append-only file promises: the abstract log | as a property of `Aof` | |
| `Aof` | AofManager, the threads that use it, crashes | `MCAof` | `AofProofs` |
| `Snapshot` | SnapshotManager, `dirty_`, start and stop | `MCSnapshot` | `RestartProofs` |
| `EventLoop` | event loops, transactions, blocking pops | `MCEventLoop` | `EventLoopProofs` |
| `PubSub` | subscriptions, PUBLISH, the life of a connection, the stop of the pool | `MCPubSub` | `PubSubProofs` |
| `Store` | shards, expiry, index, memory counter, eviction | `MCStore` | `StoreProofs` |
| `Sections`, `AtomicKeyspace` | what commands on several keys promise: the abstract keyspace | as a property of `ShardLocks` | |
| `ShardLocks`, `Requests` | the locks of the shards; the commands as lists of sections | `MCShardLocks` | `ShardLocksProofs` |
| `Restart` | what a command leaves in the log, and what snapshot and replay make of it | `MCRestart` | `RestartProofs` |
| `Resp`, `RespStream` | the parser of requests; the buffer in front of it, for a socket and for the log | `MCRespStream` | `RespProofs` |
| `Data` | operators of `Aof`, `EventLoop`, `PubSub` and `Store` on sequences and finite sets, as recursive functions | with them | `DataLemmas` |

In those that have threads a step is what one critical section does, or what one thread
does between two places where another can come in. A lock that is held over
several steps is a variable (`mutex`); one that is taken and released within a
step is not. Names are those of the source.

### Aof

`active`, `flushing`, `file`, `synced`, `open`, `running`, `rewriting` are the
members of `AofManager` and what the kernel and the disk hold; `cpc`, `wpc`,
`rpc`, `spc` are the places of the workers, the writer, the rewrite thread and
the thread in `start` or `stop`. Write commands do not commute, so the state of
the store is the sequence of commands that made it.

| Action | Code |
| --- | --- |
| `Apply`, `AppendCmd`, `FlushCmd` | the handler changes the store; `append`; `flush_sync` under `always` |
| `WriterLoop`, `WriterSwap`, `WriterWrite` | the wait, the swap under `buffer_mutex_`, the write and sync under `file_mutex_` |
| `RewriteBegin`, `RewriteSpawn`, `RewriteDump`, `RewriteInstall`, `RewriteFinish` | the flag, the picture of the store, the temporary file, `rename` with both mutexes, the flag again |
| `Start`, `StopBegin`, `StopJoinWriter`, `StopJoinRewriter`, `StopFlush`, `StopClose` | `load` and `start`; `stop`, step by step |
| | In `RewriteInstall` the rename or the reopening may fail (`"rename"`, `"reopen"`), and a full disk may cut the file off (`"full"`, which the history `cut` remembers); nobody looks at any of them |
| `Crash` | the process dies; with `"power"` the unsynced tail may go, with `"torn"` half a record may stay |

### Snapshot

A state of the store is the set of writes in it. `dirty` is `dirty_`, which
most commands raise inside the lock (`WriteCounted`) and SET after it
(`WriteSet`, `CountSet`). `job` and `entries` are `perform_save` of the client
in SAVE, of `save_thread_` and of the last save of `Server::stop`. Only what
`fopen`, `fwrite` and `rename` return is looked at (fault `"write"`);
`fflush`, `fdatasync` and `fclose` may fail unseen (`"flush"`, `"sync"`), and
the save goes on to its rename. So a file is a record: what `load` finds in it
(`held`; `Broken` is what the checksum rejects), whether that is on the disk
(`synced`), and, as a history, whether such a failure came with its save
(`unseen`). `previous` is the file that the last rename replaced, which a power
loss may bring back. `saved` and `forgotten` are histories too: what SAVE has
confirmed, and what was not in the file when `dirty_` was set to 0.

### EventLoop

`sock`, `rbuf`, `pending`, `blocked`, `multi`, `queue` belong to connections;
`waiters` is `blocked_waiters_`; `pc`, `conn`, `run`, `at`, `out` say where each
worker is: in the commands of a buffer, of an EXEC, or in the walk over the
waiters after a push. `replies` is all that a client is ever sent, with the
number of the request it answers.

### Store

`data`, `keys_with_ttl`, `used_memory` are the members of the store; the content
of an entry is its size. `pc` is where a worker is between two locks:
`Lookup`/`GetSlow` and `MGet`/`MGetClock`/`MGetSlow` are reads that come back
for an expired entry; `Check`, `PickVictim`, `Evict`, `Evicted`, `Verdict`,
`CheckedWrite` are a command that asks for memory; `FlushDb`, `FlushShard`,
`FlushMemory` are FLUSHDB; `SweepStart`, `SweepShard` the eviction thread. All
other commands hold one lock and are one step (`UncheckedWrite`). The order of
`last_access` is not modelled: the lru policies may choose any candidate.

### PubSub

`sock`, `home`, `queue` are where a socket is between `accept` and `close`
(`Accept`, `Dispatch`, `ProcessPending`, `RemoveConnection`, `CloseLoop`);
`sinks` and `subs` are `client_sinks_` and `subscriptions_`, which share
`pubsub_mutex_`; `out` is `scratch_out_batch_`, where acknowledgements wait
until the end of `handle_read` (`Flush`); `mail` is `async_state->pending`, which
`ProcessAsync` writes. PUBLISH is `Publish` (collect under the mutex), one
`Deliver` for each sink it calls, and `Published` (the count of receivers).
`StopLoop` and `CloseLoop` are the two halves of `WorkerEventLoop::stop`, before
and after the join. A loop whose `start` failed is one that never runs; the
sockets that `dispatch_connection` gives to it, or to one that has just been
stopped, are remembered in `late`.

### ShardLocks, Requests and the abstract keyspace

A *section* (`Sections`) is what a command does under the locks it holds
together: keys in an order, reads or writes. `Requests` writes each command as a
list of sections: MSET, MGET, DEL, EXISTS and the dump of a snapshot are one
section over the keys in the order of their arguments; FLUSHDB and KEYS one for
each shard; EXEC those of its commands, one after the other. `Begin` collects
the shards of the keys, `Lock` takes the smallest of those that are left,
`Access` goes to the next key, `Unlock` releases one lock. `shared_mutex` may or
may not let a waiting writer pass before new readers: `WaitsFor` counts both as
waiting, so `NoWaitCycle` holds for either. In `AtomicKeyspace` a section is one
step.

### Restart

An entry is a kind, a content (the elements of a list, or the writes that made a
string) and an expiry; a record of the log is what `dispatch` hands to `append`.
`Execute` runs a command and logs it as the handler does; `Expire` logs the
absolute time; `BrPop` and `Evict` log nothing; `Rewrite` writes the records
that `perform_rewrite` writes. `Start` is `SnapshotManager::load`, `Replay` is
`replay_command` for one record, and both run at a later clock. The properties
speak of the keys whose history the log can tell (`Told`): the definition is
the list of what it cannot.

### Resp and RespStream

`ParseCommand` is `parse_command` as an operator over sequences of bytes: it
returns the arguments and what it has consumed, or that it needs more, or an
error. `RespStream` writes requests as a client, or the log, writes them, cuts
the stream anywhere, spoils one byte of it or none, and calls the parser on each
piece: `Fail` closes a connection, but in the load of the log it drops what has
been read and goes on with the next piece. Arguments with escapes in a line are
views into a buffer that may move; `stale` marks those.

## The runs

| Run | Instance | Checks | Shows |
| --- | --- | --- | --- |
| `aof_everysec` | 2 workers, 2 commands each, 2 lives, failing `fopen`, power losses | `NothingLost`, `ShutdownComplete`, `ImplementsLog`, `EverySecSyncs` | the two buffers are one append-only log |
| `aof_always` | 2 workers, 2 commands each, 2 lives, power losses | `NothingLost`, `NoDuplicate`, `AlwaysDurable`, `ReplayPerWorker` | clients that flush beside the writer; no answer before its own sync, whoever wrote |
| `aof_rewrite` | 2 workers, 2 rewrites, 2 lives, failing temporary files, renames and reopenings, a full disk | `RewriteExclusive`, `LoggedStays`, `StopTerminates`, `RewriteTerminates` | one rewrite at a time; what was in the file before it stays, unless the disk is full; every join ends |
| `snapshot_saves` | 2 workers, 2 writes, 2 saves, auto-save, every failure, power losses, 2 lives | `OneSaver`, `SavedStays`, `FileIntact`, `StopSavesCounted`, `SaveEnds`, `StopTerminates` | three ways to save do not disturb each other; what breaks a file, and what a stop leaves out; every save and every stop ends |
| `snapshot_uncounted` | 1 worker, auto-save | `ShutdownSaves`: **violated** | finding 1 |
| `loop_replies` | 2 workers, a pipelining consumer of two lists, a producer | `PlainInOrder`, `EachValueOnce`, `BlockedIsAwaited`, `WaitersAreLive`, `TimedPopEnds` | blocking pops beside pipelines, transactions, messages, hang-ups |
| `pubsub` | 2 clients, 2 loops of which one may not start, a channel and a pattern | `EachMessageOnce`, `PublisherOrder`, `AckFirst`, `StopClosesAll`, `MailArrives`, `AcceptedIsServed`, `StopEnds` | messages reach whom they are due to, once and in order; sockets are served or closed |
| `store_expiry` | 2 workers, 2 keys of one shard, limit 3, clock to 2, volatile-ttl | `NeverOvercounted`, `TtlIndexed`, `OnlyExpiredExpire`, `ExpiredCollected` | index and counter follow the entries; expiry is exact and complete |
| `shard_locks` | 3 threads, 4 keys in 3 shards, 8 commands | `NoWaitCycle`, `ImplementsKeyspace` | no circle of waits; each section is one step |
| `restart` | 1 key, 3 records, clock to 2, one save, rewrite and restart | `TypeOK`, `RestartRestores` | a restart gives back what the log can tell |
| `restart_loses` | the same without SET, rewrites and evictions | `RestartExact`: **violated** | finding 2 |
| `resp_stream` | 2 requests of 2 arguments, socket and log, one wrong byte or none | `RequestsInOrder`, `NothingWaits` | the pieces do not matter |

Each property of a passing run has a mutant in `PROJECT.json`: a plausible bug
in one definition, under which the same run finds the property violated. The
types of `Aof`, `Snapshot`, `ShardLocks` and of the keyspace of `Store` and the
ownership of the two buffers of the log (`BufferDiscipline`) are proved instead of run.

### Why these bounds are enough

*Aof*: the hazards need a writer, a client that flushes and one more client; a
third worker repeats what the second can do, and the proofs hold for every
number. Two lives are one restart, which is where a lost buffer shows.
*Snapshot*: two clients so that SAVE and BGSAVE meet the auto-save and each
other; two writes so that one can be in a dump and the other not; two saves so
that one can repair, or undo, what the other has left.
*EventLoop*: two lists because BRPOP takes several keys in order; two workers
because everything that is hard needs a delivery from another thread; two
requests of the consumer so that one stands behind a BRPOP in the pipeline.
*Store*: one shard so that the sweep, with a batch of one, meets a key behind
another; an entry over the limit of 3 so that eviction happens with either key;
the clock reaches 2 so that a key can expire, be written again and expire again.
*PubSub*: two loops are the least for a message to cross from one to another,
and one that may not start is enough for a socket to be lost; two commands are a
SUBSCRIBE and an UNSUBSCRIBE, or two messages to compare. *ShardLocks*: three
threads make a circle through a reader that a waiting writer holds up; two of
the four keys share a shard, and the orders of the commands differ from that of
the shards. *Restart*: no record but FLUSHDB touches two keys; three records are
a write, a time to live and what comes behind it. *RespStream*: two requests, so
that one stands behind another; the arguments are a line end and one with a
quote, which has to be escaped; the buffer for escapes is outgrown by a line
with two of them. The largest runs are `restart` (4.0 million states),
`resp_stream` (0.9 million) and `shard_locks` (0.9 million).
The bounds are the constants whose comment says so (`MaxCmds`, `MaxRewrites`,
`MaxLives`, `MaxWrites`, `MaxSaves`, `MaxSnapshots`, `Workload`, `MaxSize`, `MaxTime`,
`MaxCommands`, `MaxCalls`, `MaxTtl`, `MaxLog`, `MaxStarts`, `MaxArgs`,
`MaxRequests`). Deadlock is checked in the runs of `Store` and `ShardLocks`; in
the others the system may stop: clients are done, or the process is down for good.

### Fairness

* Clients owe nothing: sending, hanging up, BGREWRITEAOF, SAVE, restarts and
  crashes are never fair. A worker that has begun a command finishes it: it has
  nothing to wait for but mutexes, which are released.
* The writer of the log runs while `running_`; that it finds a second passed
  again and again is a strong fairness on `WriterWrite(TRUE)`, for time passes
  whatever the writer does in between.
* A worker loop is fair as a whole (`WorkerStep`). `ProcessAsync` has strong
  fairness: epoll reports the eventfd of the loop together with whatever else
  is ready, so other connections cannot starve it.
* The eviction thread wakes up every 50 ms until the store is destroyed
  (`Expire`, `ExpireDeliver`, `EvictionThread`); time passes (`Tick`).
* The threads of a save, a rewrite and `stop` run to their end.
* In `PubSub` a loop finishes the turn it has begun, looks at its queue, its
  mail and `running_` (it wakes up every 50 ms at the latest), and accept hands
  on the socket it has. Nobody has to connect, to send, to hang up or to stop.

`ExpiredCollected` also needs clients that stop to renew times to live; in the
run they stop when the clock does. With renewals for ever, four long-lived keys
at the front of a shard hide an expired one from the sweep for as long as they
are renewed.

## Findings

Each is a run that TLC finds violated; the trace is one that the code can go.

1. **Auto-save forgets a write** (`snapshot_uncounted`). `dirty_` is set to 0
   after the dump was taken; a write in between is not counted and
   `Server::stop` skips its save.
2. **A restart is not exact** (`restart_loses`). The whole log is replayed over
   the snapshot, with the records from before it: RPUSH, SAVE, restart, and the
   element is there twice.

### Seen while modelling

More that documents or tests say and the code does not keep. No run of the list
checks these; each is a definition in a module, and the change of a
configuration with which TLC finds it violated is given.

| What | Definition | Configuration |
| --- | --- | --- |
| **SAVE confirms a broken snapshot.** `perform_save` does not look at what `fflush`, `fdatasync` and `fclose` return: on a full disk a file that `load` refuses replaces the good one, and the client is told OK (`docs/en.md:233`: "blocks until saved to disk"). | `OkMeansSaved` | `snapshot_uncounted`, `Faults <- DiskFull` |
| **A BRPOP misses a push.** Between its failed pop and the registration of its waiter a push wakes nobody, and the client waits, until its timeout if it has one, for a list that is not empty (`tests/test_redis_compat_extended.py:89`). | `WaitersAreServed` | `loop_replies`, `Workload <- OnePop` |
| **A message overtakes a BRPOP.** Any message for a connection ends its blocking, also one of a channel; the request behind the BRPOP is then answered first (`README.md:61`: requests "retain their request order"). | `RequestOrderKept` | `loop_replies`, `Workload <- WaitingSubscriber` |
| **EXEC returns a short array.** A BRPOP that finds nothing registers a waiter and puts nothing into the array; the reply of the next request takes its place (`README.md:61`). | `ExecReturnsArray` | `loop_replies`, `Workload <- PopInExec` |
| **Transactions are not atomic.** The site calls them so (`website/src/components/Documentation.tsx:15`); two MGETs of one key in a transaction may find two values. | `ReadsAgree` | `shard_locks`, `Request <- ReadTwice` |
| **BRPOP is not logged.** After a restart the element is there again (`tests/test_persistence.py:131`: "exact state"). | `RestartExact` | `restart_loses`, `AwaitedSpec` |
| **LPOP with a count of 0** takes nothing, is logged, and its replay takes one element. | `RestartExact` | `restart_loses`, `PoppedSpec` |
| **PERSIST is lost at a restart.** EXPIRE is logged with its absolute time; when that has passed, its replay erases the key, and the PERSIST behind it comes too late (`docs/en.md:129`). | `PersistStays` | `restart_loses`, `ExpiringSpec` |
| **A rewrite loses and doubles commands.** Its picture of the store is taken before the rename: what is flushed to the old file in between is in no part of the new one, what is still in a buffer is in two. | `NothingLost`, `NoDuplicate` | `aof_everysec`, `MaxRewrites = 1` |
| **A rewrite is not synced.** The new file is renamed over the log without an `fsync`, so a power loss can take what had been confirmed. | `AlwaysDurable` | `aof_always`, `MaxRewrites = 1` |
| **A torn tail swallows the next life.** `load` forgets a partial record, the file keeps it, `start` appends behind it. | `AlwaysDurable` | `aof_always`, `Faults = {"torn"}` |
| **An eviction takes a key without expiration.** The victim is remembered by name, and PERSIST or SET may have removed its expiry since (`docs/en.md:250`: such keys "are never evicted"). | `VolatileVictims` | `store_expiry` |

*Log.* On a full disk the last flush of a rewrite fails, nobody looks at it, and
the part that was written is renamed over the log (`cut` in `Aof` remembers it);
when the rename fails, the buffers that went to the temporary file are gone with
it. Under `always` the flush of a client may overtake the buffer that the writer
has just swapped, so records of different workers change places, and two threads
that write one key can be logged in the other order. The load of a damaged log
prints "stopping replay", drops what it has read and goes on with the next 64
KiB.

*Restart.* What else `Told` excludes: a write behind an EXPIRE that has passed
(an EXPIRE that was renewed loses the key, an INCR or RPUSH revives it without a
time to live); SETEX and SET EX get their full time again; evictions leave no
record; SET XX behind a SET EX depends on when it is replayed.

*Event loops.* A push of several values serves one waiter; what was pipelined
behind a BRPOP waits for the next bytes of its client. A message may follow the
acknowledgement of UNSUBSCRIBE, and two subscribers may see the messages of two
publishers in different orders. `dispatch_connection` gives sockets to loops
that did not start or have just been stopped; nobody closes them (`late`), and
the sink of a connection of a stopped loop may still write to its closed
`wakeup_fd_`.

*Store.* HSETNX and SADD never count the 112 bytes and the name of a new entry
(`docs/en.md:240` calls the accounting exact), and FLUSHDB forgets what was
written behind its back, which is why `NeverOvercounted` is an inequality. An
automatic save that fails is counted as done.

*Parser.* A line that ends in LF alone is cut at the CR LF of a later one if
that has arrived with it, and at its LF if not. The views of escaped arguments
go stale when the buffer they point into grows.

## The proofs

All theorems hold for every value of the constants that satisfies the ASSUMEs
of the module, under the extra assumptions that each statement lists.

| Theorem | States | Assumes |
| --- | --- | --- |
| `AofProofs!TypeCorrect`, `OneRewriteAtATime` | `[]TypeOK`, `[]RewriteExclusive` | |
| `AofProofs!Discipline`, `NothingIsLost`, `CleanStop` | `[]BufferDiscipline`, `[]NothingLost`, `[]ShutdownComplete` | no rewrites |
| `AofProofs!ReplyMeansDurable` | `[]AlwaysDurable` | `always`, no rewrites, no failing `fopen`, no torn records |
| `AofProofs!LoggedOnce` | `[]NoDuplicate` | no rewrites |
| `AofProofs!WorkersReplayInOrder` | `[]ReplayPerWorker` | no rewrites, no torn records |
| `AofProofs!LoggedIsForever` | `LoggedStays`, with rewrites, failed or not, until a full disk cuts one off | no power losses, no torn records |
| `AofProofs!LogIsImplemented` | `Spec => ImplementsLog` | not `always`, no rewrites, no torn records |
| `EventLoopProofs!TypesAndControl` | `[](Types /\ Control)`: types, and what a worker holds at each place | |
| `EventLoopProofs!ValuesOnce`, `RepliesInOrder` | `[]EachValueOnce`, `[]PlainInOrder` | |
| `EventLoopProofs!WaitersStayLive`, `BlockedKnown` | `[]WaitersAreLive`, `[]BlockedIsAwaited` | |
| `RestartProofs!SnapshotTypes`, `OneSaverAtATime`, `CrashLeavesSnapshot`, `ConfirmedSavesStay` | `[]SnapshotTypeOK`, `[]OneSaver`, `[]FileIntact`, `[]SavedStays` | |
| `RestartProofs!StopSavesCounts` | `[]StopSavesCounted` | |
| `StoreProofs!IndexIsExact` | `[]TtlIndexed` | |
| `StoreProofs!OnlyExpiredGo` | `OnlyExpiredExpire` | |
| `StoreProofs!CounterNeverOver` | `[]NeverOvercounted` | |
| `ShardLocksProofs!LockTypes`, `NoDeadlock` | `[]TypeOK`, `[]NoWaitCycle` | |
| `ShardLocksProofs!SectionsAreAtomic` | `Spec => ImplementsKeyspace` | |
| `PubSubProofs!StopLeavesNothing` | `[]StopClosesAll` | |
| `PubSubProofs!MessagesOnce`, `MessagesInOrder`, `AcksFirst` | `[]EachMessageOnce`, `[]PublisherOrder`, `[]AckFirst` | |
| `RestartProofs!RestartTypes`, `ToldIsRestored` | `[]TypeOK`, `[]RestartRestores` | |
| `RespProofs!RespInOrder`, `RespNothingWaits` | `[]RequestsInOrder`, `[]NothingWaits` | |

The assumptions are not for convenience: each excludes a behaviour that violates
the property (see Seen while modelling). `RestartProofs` extends both `Restart` and
`Snapshot`, which is why the specification of the latter is named `SnapshotSpec`
(`SnapshotInit`, `SnapshotNext`, `SnapshotTypeOK`).

**The log.** `BufferDiscipline` says who may own `flushing` in which phase of
the writer and of `stop`; without it, neither "nothing is lost" nor "nothing is
overwritten" is inductive, because the swap would overwrite a full buffer.
`NothingLost` is inductive together with it. `AlwaysDurable` needs `DurableInv`:
a client about to flush finds its command in the log, whoever has written it in
the meantime, and what is acknowledged is inside the synced prefix. The
refinement maps the abstract log to file, flushing and active buffer put
together: a swap and a write are stutters or `Persist`, an append is `Add`, a
crash is `Lose`. `NoDuplicate` needs that a worker numbers its commands through
all lives (`Numbered`), so an append is new, and that file and buffers have no
record in common (`OneCopy`). For `ReplayPerWorker` the commands of each worker
in file and buffers, in the order of a replay, are those it ran (`InStep`). A
flush that overtakes the swapped buffer keeps that, because under `always` the
command that a worker waits for is its only one in the buffers (`OneBuffer`).
What survives a rewrite is `LoggedStays`: the file, the buffers and the picture
hold nothing that the store does not (`FromStore`), so a picture taken later
holds what is in the file by then, and from the flag to the rename it is `Kept`.

**Snapshots.** `SavingCovers`: whoever is inside `perform_save` holds the flag.
From it follows the exclusion. `FilesExplained` says of both files that each is
a dump, or broken for a reason: a failure that came with its save and that nobody
saw; a power loss spoils only what was not synced, and an unsynced file has that
reason too. `KeepsSaved` compares store, dump, file and confirmed writes by
inclusion: the store and every dump in progress are ahead of each file that can
be loaded (`StoreAhead`, `DumpAhead`), so the next rename only adds, also after a
broken file; a start from a broken file begins with nothing, and with it ends what
was confirmed before (`saved`). `NothingElseLost` is behind `StopSavesCounted`: as
long as no change is counted or about to be counted (`Pending`), what the store
has and the file, or the dump in progress, has not was forgotten at a reset. At
the end of `stop` no client is left to count: with a counter of 0 that is all that
is missing, and otherwise `stop` has saved the store as it stays (`LastSave`).

**The store.** `Keyspace` (entries well formed, index exact) is inductive once
every command is seen as one of four shapes: a write whose new index differs at
its key only (`WriteKeeps`), an erasure, a purge of what expired, or the
emptying of a set of keys. `OnlyExpiredExpire` needs `ReadingsPast`: no thread
holds a reading of the clock from the future, so what was expired by its
reading is expired now. For the counter, `Over(z)` says that it claims z units
too many at most. Every step but those of FLUSHDB keeps `Over(z)` for every z
(`StepCounts`): `Fits` follows the counter from the purge over what is added or
taken off to the entry that is written, and the clamp at 0 only helps. Outside
of a FLUSHDB z is 0; during one it is whatever the shards emptied so far
held, which does not matter, because the end of each FLUSHDB sets the counter
to 0, and 0 is never too much.

**The locks.** `LockInv` says that a thread holds shards of its section only,
that what it holds ranks below what it still wants, and that the locks of a
shard are compatible. The next lock of a thread in a circle would have to rank
above that of the one it waits for, and so round the circle: of a finite set of
shards the largest next lock waits for nobody in the set. For the refinement a
section is committed when its last lock is taken: from then on the concrete
keyspace differs from the abstract one in what the thread still has to write
(`Committed`), and nobody else touches those keys, so an access is a stutter and
the last unlock is `Return`.

**The restart.** From the record that settles a key on, up to a last PEXPIREAT,
the effect of a record on an entry without a time to live does not depend on the
clock. So there is one sequence of contents, indexed by the log, that the
running server has gone through and that every replay goes through, whatever
the snapshot had put there (`Timeless`, `Plain`); the final record is compared
at two clocks. The invariant carries this sequence through BRPOP and evictions,
which `silent` dates. A rewrite starts a new log: it holds one or two records for
each entry that is alive and none for the others, in any order of the keys
(`DumpOf`, `DumpShape`), so the record that makes a key is the first to touch it,
at most a PEXPIREAT follows, and what they leave is the entry they were taken from
(`DumpedIs`): the sequence of contents begins anew there (`RewriteInv`).

**The parser.** What the bytes of one request are parsed to is shown first, from
the inside out: the digits of a number (`NumberOfDigits`), one argument with its
length, an array, a word in quotes with its escapes, a line. Each of these lemmas
reads from a buffer that begins with the bytes in question, for as far as it goes
(`Begins`): when it holds all of them the parser finds the request and where it
ends, whatever follows (`RequestParsed`); when it holds less it finds
`Incomplete`. An argument may contain line ends or look like a request: its length
is known before it is read, and in a line an end of line is excluded. `IInv` says
where the reader is: as long as the wrong byte is behind the next request
(`NextIsUnharmed`), the buffer is the part of the stream from the end of the last
request dispatched to the last byte that has arrived (`BufferInv`), and the
connection reads only when that is less than the next request (`ReadsInv`). So no
step before the wrong byte is `Fail`, and what is dispatched is what was written
(`CommandsInv`). What comes from the wrong byte on is left open, as the property
leaves it open. Lines are those that `Quoted` writes, with a CR LF behind them: a
line that ends in LF alone is cut differently in different pieces (see above),
and no theorem speaks of it.

**The event loops.** `Control` says what a worker has in its hands at each place
of its command, so that a step is looked at only where it can be taken.
`EachValueOnce` becomes a statement on a family of sequences (`Held`: lists,
hands, pending answers, replies), and each step moves one value from an end of
one to an end of another. `PlainInOrder` needs `AllOrderly`: at each place of a
worker, the replies of its connection are those of the requests before the one it
is at, and at most one late answer is under way (`AtReply`, `OneAnswer`); while
it is, the connection is blocked and nothing behind it is parsed. `BlockedIsAwaited`
and `WaitersAreLive` are inductive together with `Types` and `Control`: a waiter
leaves the list only into the hands of the worker or of the eviction thread,
which go to the sink, and a connection that closes takes its waiters with it
before it is forgotten.

**The messages.** `Traffic`: for a socket that is not closed, what the client has
received and what sinks and mailboxes still carry to it have nothing in common,
have nothing twice, and are together what is due (`Due`). What a loop carries
for its publisher is the newest message of that publisher, so no two loops carry
the same one, and a delivery puts it behind all older ones: order is kept. A
subscription is acknowledged on the wire or in the batch of the loop that
serves its client, and `ProcessAsync` writes only when that loop serves nobody,
that is, after the batch has gone out.

**Sequences and sums.** `Filter`, `HeldOnce` and `Total` (`Data`) are recursive
functions, not `RECURSIVE` operators. `DataLemmas` shows that the functions exist
(`RecursionExists`, `SumsExist`) by induction stated with sets in place of
predicates (`LeastNatural`, `SubsetInduction`), and from there what they do to an
append, a removal, a concatenation, or to one summand that changes.

**The stop.** Its invariant says who owns a socket that is not closed: `hand`
(accept), the queue of its loop, or a loop that is `Alive`, that is running or
being joined (`Owned`); whoever is registered has an open socket (`Registered`),
and a loop serves its own connections only (`Serving`), so no subscription
outlives its connection. `Server::stop` takes the loops in order (`Threads`), and
behind the last one nobody is alive.

Only model-checked: all liveness and fairness, which the prover does not cover,
and the properties of `Aof` in the presence of what the table excludes.

## Not modelled

* The `fsync` of directories; a write to the log that fails in the writer or in
  `flush_sync` (`aof.hpp:313`, `333`, `337`: the result is ignored and the buffer
  cleared, so a full disk loses records); the format of the snapshot; steps of the
  wall clock.
* The order of `file_mutex_` and `buffer_mutex_`, the same in every function: a
  step of `Aof` takes the mutexes it needs together.
* Partial socket writes, the limit of the output buffer, signals, AUTH and
  HELLO, the matching of glob patterns.
* The data structures of hashes, sets and sorted sets: for memory an entry is
  its size, for a restart they behave as a list does. Replies other than what
  the properties compare, and argument checks.
* In the parser: numbers that do not fit into 64 bits, and the memory that an
  announced count of arguments reserves.
* The wrap of `now + ttl` at 2^64, CONFIG SET of the policy while another
  thread evicts (a plain enum, written and read without a lock), the 10000
  attempts of an eviction, the peak of the memory counter, `malloc_trim`.
* Constants, allocator, `main.cpp`: no state that outlives a call. Tests,
  benchmark, website and build files are read for their claims.

## Plan

Done, in this order: `Aof` with `DurableLog` and its proofs, `Snapshot` with its
proofs, `EventLoop`, `Store` with its proofs, `ShardLocks` with `AtomicKeyspace`
and its proofs, `Restart` with its proofs, `PubSub`, `RespStream`, the proofs of
`EventLoop` and `PubSub`, the safety properties of `Aof` and `Store` that were
left, the rewrites in the proofs of `Restart`, and the proofs of `RespStream`. To
come, the most important first:

1. An abstract queue of values and takers that `EventLoop` implements.
2. `Aof`, `Snapshot` and `Restart` together: a crash, rather than a stop, in
   front of the replay.
3. Numbers as pure operators against reference definitions: overflow of INCR,
   `now + ttl`, ranges of LRANGE.
4. Partial writes and the limit of the output buffer of a connection.
