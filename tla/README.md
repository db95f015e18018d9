# TLA+ models of OriginDB

OriginDB is a single-node reactive database: tables in memory, a write-ahead log
for durability, a changefeed that pushes every committed row change to
subscribers, and WASM modules whose reducers run as transactions. This directory
holds TLA+ models of its server, the TLC configurations that check them, and
TLAPS proofs of the central invariants. Paths below are relative to the
repository.

## The system

| Component | State | Operations | Talks to |
|---|---|---|---|
| Write-ahead log (`src/storage/wal_impl.cpp`) | queue of batches with promises, writer thread, `fatal_`, `next_sequence_`, `wal.log` | `AppendBatchAsync`, `Append`, writer loop, `Truncate`, `Flush`, `ReadAll`, `Initialize`, destructor | called by the storage engine; the file system |
| Storage engine (`storage_engine.cpp`, `mem_table.cpp`, `transaction_impl.cpp`) | `tables_` under `tables_mutex_`, transactions, snapshot file | `Commit`, `Rollback`, `CreateTable`, `DropTable`, checkpoint thread, `Shutdown`, `Initialize` with recovery | appends to the log and waits for it; publishes to the changefeed |
| Changefeed engine (`changefeed/changefeed_engine.cpp`) | event queue, retained history, subscriptions, callbacks, delivery thread, worker pool | `PublishEvent`, `CreateSubscription`, `Subscribe`, `Unsubscribe`, `DeleteSubscription`, delivery loop, `Start`, `Stop` | called by committers; calls the websocket server and the WASM subscription manager back |
| SQL subscriptions (`changefeed/sql_subscription.cpp`, `predicate_evaluator.cpp`) | subscriptions by client and by table | `Subscribe`, `Unsubscribe`, `UnsubscribeAll`, `ProcessEvent` | called by the websocket server for every event |
| WASM engine (`wasm/wasm_engine.cpp`, `host_functions.cpp`) | modules, one mutex per module, the overlay of a call | `LoadModule`, `UnloadModule`, `ExecuteReducer`, `CommitHostCall` | storage engine, changefeed |
| WASM subscriptions (`wasm/wasm_subscription.cpp`) | subscriptions, event queue, processing thread | `CreateSubscription`, `DeleteSubscription`, `ProcessChangefeedEvent`, `OnClientDisconnected` | changefeed, WASM engine, websocket server |
| Module store (`wasm/module_store.cpp`) | index, one directory per module | `Initialize`, `Save`, `Remove` | the file system |
| Tick scheduler (`wasm/tick_scheduler.cpp`) | entries with `in_flight`, queue, dispatcher, workers | `Start`, `Stop`, dispatch, work | WASM engine |
| Websocket server (`websocket/websocket_server.cpp`) | `client_ids_`, sockets, one thread per connection | handshake, receive loop, subscription requests, initial state, fan-out, clean-up | all of the above |
| SQL engine (`sql/sql_engine.cpp`) | none that the server uses | statements, each several storage calls | storage engine |
| gRPC services (`grpc/grpc_server.cpp`, `wasm_service_impl.cpp`) | threads of the gRPC server | `Execute`, `ExecuteTransaction`, `DeployModule`, `UndeployModule`, `ExecuteReducer` | SQL engine, WASM engine, module store |
| Server (`cmd/origindb_server.cpp`) | the components | boot (recovery, restoring modules, scheduler), `Shutdown` | all |
| Row codec, binary protocol (`row_codec.cpp`, `binary_protocol.cpp`) | none | encode, decode | the log; a performance test |
| CLI, project templates, configuration, authentication, metrics, SDKs | | | |

A client's write goes through the SQL engine, gRPC or a reducer into a
transaction; `Commit` applies it under the exclusive `tables_mutex_`, queues one
batch, releases the lock, waits for the promise, and hands its events to the
changefeed; the delivery thread calls the subscribers' callbacks, which filter
and send frames. On shutdown the server stops gRPC, the websocket server, the
tick scheduler, the WASM subscription manager, the WASM engine, the changefeed and
the storage engine in that order.

What is hard in it: committers that race for the log while the writer drains it;
DDL and snapshots that wait for the log with `tables_mutex_` held; a crash at any
step, a failed write, a log cut in the middle of a record; recovery that reads a
snapshot and a log written at different moments; events published outside the
lock; callbacks that run on a pool while subscriptions come and go; condition
variables notified without their mutex; a snapshot and a stream of events that must
meet without a gap; sockets looked up under a lock and used without it; modules
replaced while they run, and files replaced one by one; a shutdown in seven steps
under load.

What makes each component correct:

* log: an acknowledged batch can be recovered, sequence numbers order the file,
  every promise is fulfilled;
* storage engine: recovery rebuilds a prefix of the commits that has every
  acknowledged and every published one; every changed row has its event; calls
  return;
* changefeed: each subscriber sees every matching event once, in offset order;
  `Stop` returns;
* SQL subscriptions and websocket: a client misses no change after its initial state,
  sees each once and in order, and leaves nothing behind when it goes;
* MemTable: a cached row is the row; a scan returns its prefix, all of it, in order;
* codecs, predicates, versions: what they compute is what they should;
* WASM engine: calls of a module do not lose each other's updates, a call that fails
  publishes nothing, and nobody is in the engine when it goes;
* module store: after a crash a name has the code that was deployed as that version;
* tick scheduler: at most one tick of an entry in flight, no entry stuck.

## Modules

| Module | Models | |
|---|---|---|
| `WAL` | `wal_impl.cpp` | state and operations of the log, no specification of its own |
| `GroupCommit` | the log with arbitrary committers | properties of the log, inductive invariants |
| `GroupCommitProofs` | | TLAPS proofs |
| `StorageEngine` | `storage_engine.cpp`, with `MemTable` and `TransactionImpl` | extends `WAL`: the engine over the log |
| `StorageEngineProofs` | | TLAPS proofs: the feed, crash consistency, the refinement |
| `DurableStore` | | abstract: what the storage engine promises; `StorageEngine` implements it |
| `Changefeed` | `changefeed_engine.cpp` | queue, delivery thread, pool, subscriptions |
| `ChangefeedProofs` | | TLAPS proofs |
| `SqlEngine` | `sql_engine.cpp` and the SQL service of `grpc_server.cpp` | statements as several storage calls |
| `SqlSubscriptions` | `sql_subscription.cpp` | the manager's four maps, matching, projection |
| `Session` | `websocket_server.cpp` | extends `SqlEngine`, instantiates `SqlSubscriptions`: connections over the subscriptions, with writers |
| `SessionProofs` | | TLAPS proofs: commits, sockets, streams |
| `WasmEngine` | `wasm_engine.cpp`, `host_functions.cpp` | module objects, hot swap, the execution of a call |
| `WasmSubscriptions` | `wasm_subscription.cpp` | extends `WasmEngine` |
| `ModuleStore` | `module_store.cpp` | files, index, `Save` step by step |
| `TickScheduler` | `tick_scheduler.cpp` | dispatcher, workers, queue |
| `WasmRuntime` | `wasm_service_impl.cpp`, `origindb_server.cpp` | composes the four before it: handlers, boot, shutdown, crash |
| `WasmRuntimeProofs` | | TLAPS proofs: ticks and shutdown, deployments and calls, subscriptions |
| `WebSocketFrames` | the receive loop and the framing of `websocket_server.cpp` | a byte stream in chunks |
| `FrameProofs` | | TLAPS proofs; also the facts about sequences, quotients and loops that `CodecProofs` uses |
| `MemTable` | `mem_table.cpp`, `HostTableScan` | rows, JSON cache, locks, prefix scans |
| `MemTableProofs` | | TLAPS proofs |
| `PureCalls` | | one call of a pure algorithm and its answer |
| `Predicate` | `predicate_evaluator.cpp` | parser over tokens, evaluation |
| `LikePattern` | the LIKE of `predicate_evaluator.cpp` | extends `PureCalls`: the regex of a pattern |
| `RowCodec` | `row_codec.cpp`, `binary_protocol.cpp` | extends `PureCalls`: bytes of rows, schemas, messages |
| `HostValues` | `host_functions.cpp`, `CompareVersions` | extends `PureCalls`: JSON values, base64, version order |
| `CodecProofs` | | TLAPS proofs about the three before it |
| `Components` | | `WebSocketFrames`, `MemTable`, `Predicate` and the three pure modules in one specification |
| `MCGroupCommit`, `MCStorageEngine`, `MCChangefeed`, `MCSession`, `MCWasmRuntime`, `MCComponents` | | small sets and symmetry for TLC |

Definitions named "mutant" in the comments are faulty variants of the definition
that follows them. No specification uses them; they record which bug each property
would catch.

### `WAL` and `GroupCommit`

The deque of `PendingBatch` is one record `queue`: the bytes still to be written
and the threads whose promise is in it. The writer takes the whole deque and gives
all its promises one answer, so batch boundaries are not observable. `wpc` is the
position of `WriterLoop`: `WriterDrain` is the swap under `queue_mutex_`,
`WriterWrite` and `WriterSync` are `WriteAndSync`, `WriterAck` fulfils the promises
and `WriterSetFatal` sets `fatal_` afterwards, as the code does. `TruncateBegin`,
`DrainEnqueue`, `DrainWait` and `TruncateReset` are the steps of `Truncate`; `Flush` is
the same without the reset. `file` is what the OS shows, `disk` what `fdatasync`
last forced. A record cut by a crash or a failed write is `Torn`; `ReadAll` stops in
front of it, and the log goes on appending behind it, as `Initialize` opens with
`O_APPEND`. `Faults` names the system calls that may fail, `Tearing` whether a cut
may fall inside a record. A power loss keeps the forced content or any longer part
of the file, the record after it whole or in part, and may undo a truncation that was
not forced. Either `open` of `Truncate` may fail without the other.

What is appended behind a torn record is lost in the model. In the code it is read as the
rest of that record: while the bytes do not suffice `ReadAll` stops, as in the model; once
they do, it returns one record of wrong content and goes on out of step with the
frames (`wal_impl.cpp:156-175`). The model stops there in both cases.

`GroupCommit` adds committers, a caller of `Truncate` and `Flush`, and restarts. Its
only assumption about the callers is the engine's locking: nobody appends while a
truncation is under way.

### `StorageEngine`

A table is a function from keys to values; a row is its value. `Commit` is one action
up to the release of `tables_mutex_`: it applies the write set until the first failing
write (and keeps what it applied, as the code does), queues the batch and builds the
events. `Durable` and `NotDurable` are the two answers of the future, `Publish` one
iteration of the publishing loop. DDL and `WriteSnapshot` wait for the log with the lock held, so
`lock` records its holder across steps. `SnapshotOf` is the conversion to JSON and
back, which does not carry every type (`JsonLossy`). `Shutdown` joins the checkpointer,
snapshots, flushes and clears; a snapshot that cannot be written or renamed leaves the log as it
is, and `Shutdown` goes on. `Boot`, `Replay` and `RecoveryComplete` are
`Initialize`; the replay of `DROP_TABLE` calls `DropTable` and so appends to the log it
is replaying.

`states` remembers the tables after every commit and DDL call, `visibleTo` the last
one a caller was told of. The log does not always describe what happened to the
memtables; `inexact` records why, and `Admitted` says which of those causes
`CrashConsistency` should look into. A restart clears `inexact`, but a record without effect that an
earlier life left in the log (`UPDATE k` of a missing row, then `INSERT k`) does harm later, when a
snapshot of the later row is followed by a crash before the log is reset. So `inherited`
keeps the causes of earlier lives, all but a transaction cut by a crash, until a life starts from
an empty log, and `Departures` is both together.

A behaviour has one `workload`: what clients may write, and the bounds on a write set, on
checkpoints and on crashes. So one run covers short transactions with crashes and long
ones without.

`DurableStore` says what callers may rely on, with no log, no lock and no snapshot: commits
in a row (`history`), the last one a caller was told of (`told`), the commits with events
(`feed`), and what readers see (`view`). A restart goes back to one of the commits from
`told` on; a feed has no commit beyond `told`. `StorageEngine!Store` is the refinement
mapping: `view` is `tables` while the engine runs, `history` is `states`, `told` is
`visibleTo`, and the promise is suspended (`exact`) while there is one of the
`Departures`. `ImplementsStore` is the refinement. It is more than the
invariants: it also forbids that readers see tables before recovery is over or that `told`
or `feed` go back without a restart.

### `Changefeed`

`PublishEvent` is one action because it holds `events_mutex_` from the numbering to the
notification. The delivery thread tests its predicate (`DeliveryTest`) and goes to sleep
(`DeliveryBlock`) in two steps: the notifiers do not hold `delivery_mutex_`, so they can
come in between. `SnapshotTargets` copies the matching callbacks under the locks;
`Callback` and `RecordOffset` are the two parts of a task and interleave with
the tasks of the other targets, up to `DeliveryThreads` at a time, and with every call
on subscriptions. A callback may throw. `BatchDone` is the barrier of `RunBatch`. The
unlocked reads of `events_` in the loop are taken as atomic: only the delivery
thread removes events, so a late read only looks like an earlier one.

### `SqlEngine`, `SqlSubscriptions` and `Session`

A gRPC caller runs a batch of statements. Storage resolves an INSERT
of an existing key itself, so the conversion to an UPDATE in the SQL engine
(`ConvertToUpdate`) is reached only when the log has failed; UPDATE reads, merges and writes
in two steps; each commit is applied, told by the log and published in separate steps (`Publish`), as
in `StorageEngine`. CREATE TABLE succeeds whatever the log answers. `Parse` keeps what the parser does to upper and lower case.

`SqlSubscriptions` has every operation of the manager as one action, because each holds
`subscriptions_mutex_` throughout. `Session` has a thread per connection: `Accept`, `Refuse`
or `Register`, then requests. A subscription is entered (`SubscriptionRequest`), answered
(`SendCreated`), its tables read one by one (`ReadTable`) and sent
(`SendInitialState`), with events in between. `TakeEvent`, `FindSocket` and `SendEvent` are
the three parts of `OnChangefeedEvent`, which looks a descriptor up under
`clients_mutex_` and writes to it afterwards. The frame (`EventFrame`) has the
`subscription_id` that the code gives it, the one the changefeed calls the server
with (`FeedSubscription`); `for` and `via`, the client and the SQL subscription it is
sent for, are history that no client sees. `Leave`, `DropSubscriptions` and
`CloseSocket` are the clean-up, in the code's order; the loop ends with the peer or,
at 16 MiB of unfinished frames, without it. A peer may vanish at any time; a send
to it is lost, or fails, which ends the process where the code lets the exception out of a
detached thread. A descriptor is free for reuse as soon as it is closed. The changefeed
is what `Changefeed` proves of it: events in offset order, one at a time, none skipped.

### `WasmEngine` to `WasmRuntime`

A guest function is a set of programs: host calls, then a status; any call may trap.
`Execute` waits for the object's `call_mutex` (`Lock`), runs its host calls against an
overlay, creates missing tables, stages one write per cell (INSERT, UPDATE or DELETE by
what the table has at that moment), commits and publishes, all under the mutex.
`LoadModule` checks the version against the module it finds, runs `__init` and
`__migrate`, and swaps. `ModuleStore` has one step per file operation of `Save`, each of
which may fail, and a crash between any two; a failure that only the destructor of a stream
meets is not seen, and leaves a module or manifest that is cut. `Remove` may fail with one of
the two files gone. `WasmSubscriptions` holds
`subscriptions_mutex_` across the module calls that it makes, as the code does, and passes a
subscription over whose tables the event is not of (`Matches`; the table of a custom event is
its topic).
`TickScheduler` has the two steps of a worker's wait; the dispatcher tests `running_` once
per pass over the entries, so a pass under way goes on after `Stop`.
`Snapshot` is the storage engine's: rows that a failed commit left in memory, unlogged, are
there again after a restart. `WasmRuntime` adds the handlers of
the gRPC service, the restoring of modules at boot and the order of `Shutdown`.

### `Components`

One specification whose behaviours are a byte stream through the receive loop, readers and
writers of a table, or one call of a pure algorithm, whose answer is compared with a
definition that is not derived from the code: a grammar by its derivations (`Grammar`),
three-valued SQL with its NULLs collapsed (`Sql`), LIKE by cutting the text (`Like`), versions
by the numbers of their segments (`Weight`), records by what was encoded. In
`WebSocketFrames` the constants of the protocol (126, 65536, 256) are scaled down with
their shape, so that every size class is within reach; `BitXor` is the exclusive or of two
bytes, which TLC gets from `Bitwise`. `Take` is one round of the inner loop of `HandleClient`,
`Drain` all of them.

`RowCodec`, `HostValues` and `LikePattern` have a specification each (`CodecSpec`,
`HostSpec`, `LikeSpec`) over `PureCalls`: a call is chosen, and answered in one step. They are what
the theorems of `CodecProofs` are about; `Components` has the same actions. A reader of the
codecs is `[ok, at, val]`, where it stands and what it read last, or `Failed`, which an exception
makes of it for good; every reader is built from `Need`. `ReadList` is the loop over a count, over
the kinds of entries (`Entry`), and `MapOf` the map it fills. A record is read back from an
arbitrary prefix of its bytes, and the columns of a row are written in an arbitrary order
(`Orders`), as an `unordered_map` gives them. A version is the sequence of its
segments, each with its number and its rank among strings.

## Runs

`tlc -config <cfg> <module>` in this directory.

| Run | Configuration | Shows |
|---|---|---|
| `wal_faults` | `MCGroupCommit.cfg` | `sync_mode=fsync`, two committers, batches of one or two records, a truncation or flush, two crashes, power losses or restarts, every fault, torn records: `AckedOnDisk`, `SequenceOrder` |
| `wal_live` | `MCGroupCommitLive.cfg` | three batches, failing writes and reopens, records not torn: `AckedReadable`, and `PromisesKept` |
| `storage_crash` | `MCStorageCrash.cfg` | two clients, two keys, three commits or DDL calls; one-row commits with a checkpoint and a crash or shutdown at any step, or transactions of two writes: `CrashConsistency`, `PublishedNeverLost`, `FeedComplete`, and the refinement `ImplementsStore` |
| `storage_live` | `MCStorageLive.cfg` | `fsync` failures, corrupt and lost snapshots, crash, power loss: `CallsReturn` |
| `changefeed_delivery` | `MCChangefeed.cfg` | two subscriptions, three events, a pool of two, a limit of two events, two starts: `DeliveredInOrder`, `NoGap`, `OffsetTracksDelivery`, `HistoryIsSuffix` |
| `serving` | `MCSession.cfg` | two connections, two descriptors, two subscriptions, two requests of any kind, one gRPC caller, a log that may fail: `IndexesAgree`, `NothingLeftBehind`, `EventsInOrder`, `NoMissedChange`, `OneEventPerCommit` |
| `wasm` | `MCWasmRuntime.cfg` | one module name in two versions, two handlers, a worker, a client, three units of work (a call, tick, connection, subscription, failure of the log or end of the process counts one, a deployment two), boot, crash and shutdown at any step: `Serialized`, `FailedCallsSilent`, `TickCoalesced`, `DeployedPairs`, `QuietBeforeEngineGoes`, `EveryEventEmitted`, `SilentAfterDisconnect` |
| `components` | `MCComponents.cfg` | five streams in chunks of one to nine bytes; two readers and a writer of four keys; clauses of up to five tokens or three operands, patterns and texts of three characters, records cut anywhere, byte strings of up to four, versions of up to three segments: `FramesDelivered`, `ServerFramesParse`, `CacheFresh`, `ScanComplete`, `RecordsRoundTrip`, `EventSurvives`, `ParsesByPrecedence`, `NullsCollapsed`, `LikeMatches`, `ValuesSurvive`, `VersionsOrdered` |

Four runs find the code at odds with what the repository says of it:

| Run | What happens | Against |
|---|---|---|
| `wal_torn_tail` | a restart appends behind a torn record; the batch it acknowledges cannot be read | `tests/unit/wal_durability_test.cpp:8-10` |
| `storage_upsert` | an INSERT resolved as an UPDATE is logged as an INSERT, which recovery refuses: the acknowledged value is lost | `docs/design/durability.md:62-63` |
| `storage_publish_order` | two committers woken by one group commit publish in either order | `docs/design/durability.md:167-170` |
| `changefeed_stop` | `Stop` notifies while the delivery thread is between its test and its sleep: the join never returns | `changefeed_engine.cpp:142` |

The bounds are the smallest at which each mutant, and each of the interleavings the
hazards describe, shows up: a race for the log needs two committers and one group
commit a second batch in the queue; a truncation must meet an acknowledged, a drained
and a queued batch; a mixture of commits needs a second key; a delivery out of order
needs two subscribers, two threads and two events, a gap a stop and a second start. In
`serving` a second connection is needed for a reused descriptor and for an unsubscription
by somebody else, a second subscription for an index that keeps what it should drop. In
`wasm` a lost update needs two callers of one object, a mixed pair of files one deployment
and one crash over an installed version.

### Further departures

Each of these makes `CrashConsistency` fail after a change of one or two constants of
`MCStorageCrash.cfg` (a workload is `Load(writes, maxWrites, maxCheckpoints, maxCrashes)`):

* `Admitted = {"cut"}`, `maxWrites` 2: a crash in the middle of a batch leaves a part of a
  transaction (there is no commit record);
* `Admitted = {"redrop"}`, `Workloads <- MCTwoCrashes`, `MaxCommits = 4`: replaying `DROP_TABLE`
  goes through `DropTable`, which logs it again at the end (`storage_engine.cpp:504`), and
  the next recovery drops a table created since;
* `Admitted = {"snapshot_ahead"}`: a crash between the rename of the snapshot and the reset
  of the log replays older records over newer rows;
* `Admitted = {"partial"}`, `maxWrites` 2: a commit whose second write fails keeps its first,
  and a snapshot makes it durable;
* `Admitted = {"wal_failed"}`, `Faults = {"write"}`: after the log has failed, DDL reports
  success without a record, and a checkpoint still truncates what the log holds;
* `Faults = {"snapshot"}`: a snapshot whose last buffer fails to be written is renamed into
  place and the log truncated;
* `SyncMode = "fsync"`, `CrashKinds = {"power"}`: the snapshot is never forced to the drive
  before the log is truncated;
* `JsonLossy = {v1}`, `Degraded = v2`: int32, float, bytes and timestamps come out of a snapshot as
  something else.

In `GroupCommit`, a batch queued while a write fails is written and acknowledged
after it, because the promises are fulfilled before `fatal_` is set.

In `Session` the following are behaviours of the model, and no property denies them:

* an event of a subscription may arrive before its `initial_state`, which `docs/API.md:33`
  ("Responses, in order") excludes, and the snapshot then overwrites it with an older row;
* `docs/API.md:49` shows an event with the `subscription_id` of the SQL subscription
  (`"sql_sub_1"`); `websocket_server.cpp:729` writes the server's own at the changefeed, the same
  in every frame. A client with two subscriptions that match an event gets two frames
  with the same identifier and offset, and cannot tell whose projection each is;
* a connection that takes over a descriptor between `FindSocket` and `SendEvent`
  (`websocket_server.cpp:753`) gets an event of another client;
* `sql_unsubscribe` takes the identifier of anybody's subscription;
* an UPDATE that read its row before a concurrent one writes the old columns back
  (`sql_engine.cpp:261`); INSERT on an existing key replaces the whole row; a batch of
  `ExecuteTransaction` keeps the statements before the one that fails;
* listed columns of an INSERT and the key of an UPDATE are upper-cased, SET columns are not.

In `WasmRuntime`:

* a reducer whose last write fails in `Commit` (a deletion of a missing row) leaves its
  earlier rows in memory, unlogged and unpublished, and its new tables, although
  `docs/WASM_ABI.md:85-88` says that the overlay is applied atomically;
* `wasm_service_impl.cpp:84` says "Deploy is atomic: memory + disk, or neither.": a failed
  `Save` unloads the old version too; a crash between the rename and the manifest leaves a
  digest that does not match, and the module is skipped at the next boot; two deployments
  may leave one version in memory and another on disk; an undeployment between load and save
  is undone by the save; what `__init` wrote stays when `__migrate` fails;
* two loads may pass the version gate against the same predecessor;
* calls of the old and the new object of a name are not excluded from each other;
* capabilities are not in the manifest: a restored module runs without its table list
  and its read-only flag;
* a worker of the scheduler may miss the notification of `Stop`, and a tick pushed after
  the last worker left stays queued;
* websocket threads are detached and may be in the engine during `Shutdown`
  (`QuietBeforeEngineGoes` is about the threads that `Shutdown` waits for).

In `Components`: a missing segment of a version is compared as the empty string, so that "1.2"
is older than "1.2.0" (`wasm_engine.cpp:245-246` says "missing segments are zero"), and the
order of versions is not transitive when numeric and other segments meet; a numeric segment of 2^63 or more makes `std::stol` throw (`Int64Bound`); `%` and `_` do not match line terminators; NOT over an absent column is
true; arrays and objects that a reducer stores come back as text, an integer of 2^63 or more as
the negative number 2^64 below it, an object with `$bytes` without its other keys
(`host_functions.cpp:710-714`); the schema codec drops
options and defaults; the binary protocol drops null, array and object fields and trusts
neither its magic nor its size on reading; of a fragmented websocket message the first
fragment is handled alone and the others are ignored.

### Fairness

Threads that can run do run: weak fairness of the writer, of the thread inside `Drain`,
of recovery, of a committer that waits or publishes, of the delivery thread, of the
pool's tasks (callbacks return) and of the caller of `Stop`. Nothing obliges a client to
call, a condition variable to wake by itself, or a crash to happen. Mutexes are not
modelled as contended: the sections that wait for nothing are single actions; those that
wait or call modules with a mutex held (`tables_mutex_` in DDL and snapshots, `call_mutex`,
the `subscriptions_mutex_` of WASM subscriptions, the module store's) have a holder.
`Session`, `WasmRuntime` and `Components` state safety only and assume no fairness.

Deadlock checking is off because a run ends when its bounds are used up; the liveness
properties say that nobody is left waiting.

## Proofs

All for every value of the constants: any number of clients, connections, subscriptions,
modules, keys, events, batches, faults, truncations, crashes and threads. The assumptions
are the named `ASSUME`s of the modules, which TLC evaluates in every run: types of the
constants (`SqlConstants`, `SessionConstants`, `MemConstants`, `InstalledAssumption`), a power
loss only with `fsync`, a thread has one role and no thread, name, row or table is the value that
stands for none (`StorageConstants`, `ThreadsAssumption`, `NamesAssumption`), and a guest makes the host calls that
`RegisterHostFunctions` links, on cells there are (`GuestAssumption`). Those of the byte formats say
what a byte and a length are: bytes are below `Base` and the long length has more than one byte
(`WidthAssumption`), exclusive or twice with the same byte is nothing (`XorAssumption`), no client sends a
frame of 2^64 bytes (`TrafficAssumption`), recv returns a number of bytes
(`ChunksAssumption`), strings, lists and whole messages are shorter than 2^32, the width of their length fields,
and a value is of the type its tag says (`CodecAssumption`), base64 text consists of characters
JSON integers fit in 64 bits, signed or unsigned, and segments of versions are within `std::stol`
(`HostAssumption`), patterns and texts are
sequences of characters (`LikeAssumption`).

`GroupCommitProofs`:

* `TypeCorrect`: `TypeOK`, by its four parts.
* `AckedNeverLost`: `AckedOnDisk`. It is not inductive: it says nothing of a batch
  before its acknowledgement. `AckInv` adds where the records of a waiting client are
  (`Tracked`), that what the writer is about to acknowledge is in the file, and with
  `fsync` on the drive (`WriterKept`), and that from the start of a truncation the
  snapshot covers all that the log will lose (`TruncationCovered`). A power loss is the
  delicate case: an unforced truncation leaves a drive that is not a prefix of the file, and
  then only the snapshot counts (`OnDrive`).
* `SequencesOrdered`: `SequenceOrder`, from `OrderInv`: numbers grow from the file through
  the drained bytes to the queue and stay below `next_sequence_`. Only readable records
  count, so a torn record may hide larger numbers behind it, which are then given out again.
* `ReadableUnlessTorn`: as long as no record of the file is torn, `AckedReadable` holds. The run
  `wal_torn_tail` refutes `AckedReadable`; the theorem says that nothing else can.
* `AckedAreRead`: `AckedReadable` outright where writes are not torn and the header is written
  (`~Tearing`, `"magic" \notin Faults`, as in `wal_live`), from `Untorn`: no torn record in the
  file, on the drive, in the queue or in the writer's hands.

`StorageEngineProofs`:

* `EngineTypeCorrect`: `TypeOK`, whatever fails or is torn.
* `CommitsAreFed`: `FeedComplete`, from `FeedInv`: the memtables are what the last commit left, the
  events of a commit carry its number and their position, and those that its committer still
  holds come after the published ones. It holds under every fault and crash.
* `CrashConsistent`: `CrashConsistency` with `Admitted = {}` under `NoFailures`, which is the instance of
  `storage_crash` with the bounds taken away: every value survives JSON, no system call fails, the
  process may crash at any step (and cut a write between two records) but the machine does not.
  Outside it the property is false in the ways that "Further departures" lists.
  The property says nothing of records on their way to the file, nor of the snapshot that
  is already renamed while the log is not yet reset. `UpInv` says both (TLC finds it
  invariant on an instance of five million states): there are a base `b`, from which every record of the log,
  with what the writer has taken and the queue, had an effect when it was written
  (`EffectiveLog`), and an `m` such that the snapshot is what the first `m` records make of `b`
  (`LogInv`); the file ends at a state of the history no earlier than `visibleTo`, what the writer has taken and the
  queue follow it there, and commit by commit unless a transaction has several records
  (`Stretch`); between rename and reset nothing is on its way (`SnapshotInv`). `DownInv` is what a
  crash leaves of it and what the next life starts from. The heart is `ReplayedOver`: replaying a log
  over the result of its own first `m` records gives what replaying it once gives, provided that every
  record had an effect; this is what makes the crash between rename and
  reset harmless, and what an upsert or a replayed DROP breaks.
* `PublishedSurvives`: `PublishedNeverLost`, from the same invariant and `ToldInv`: the events that a
  committer holds are of its own commit until its future answers, and of a commit its
  caller was told of from then on.
* `EngineIsStore`: the refinement `ImplementsStore`. One lemma for each action of `DurableStore` says
  when a step is that action, one for each group of the engine's actions which it is.
  Recovery is the step that needs crash consistency, publication the one that needs `ToldInv`, the
  end of recovery the one that needs what the replay loop computes.

`ChangefeedProofs`:

* `TypeCorrect`: `TypeOK`.
* `InOrderDelivery`: `DeliveredInOrder`, from `OrderInv`: offsets grow from what a
  callback has seen through the event in hand to the queue; a target still to be called has
  not had the event in hand, nobody has before the targets are chosen, and `Start` finds no
  delivery thread.

* `HistoryKept`: `HistoryIsSuffix`, inductive as it stands; `TrimSuffix` is the arithmetic of
  the cut.
* `OffsetsTracked`: `OffsetTracksDelivery`, with `CalledHaveEvent` (a task between its two
  halves has just delivered the event in hand) and `UnusedUntouched` (an identifier not given
  out yet has no trace). It uses `OrderInv`: no task is left when the next event is taken.
* `NothingSkipped`: `NoGap`, from `UnbrokenRun` (the event in hand and the queue are
  consecutive offsets up to the last one given out) and `UpToDate` (a callback has had
  everything up to the event in hand, which it may be due to get). So `since`, where a
  registration starts to count, is right even in the middle of a fan-out.

`SessionProofs`, with three invariants that rest on each other (TLC checks all three on the
instance of `serving`):

* `CommitsPublishedOnce`: `OneEventPerCommit`, from `LedgerInv`: every commit is in the feed, or
  with the one thread that will publish it, or with none and never to be published. The
  property alone does not say that two threads cannot hold the same commit.
* `SubscriptionMapsAgree` and `ClosedLeaveNothing`: `IndexesAgree` and `NothingLeftBehind`, from
  `SocketInv`: each map of the manager as a function of `subscriptions`, and which descriptor,
  which entry of `client_ids_` and which subscriptions a connection has in each state of its thread. That
  `Unsubscribe` takes anybody's identifier does not disturb it.
* `EventsArriveInOrder` and `NothingBetweenSnapshotAndStream`: `EventsInOrder` and `NoMissedChange`,
  from `StreamInv`. The first is not about the label of the frames, which is the same in all, but about
  whom each is sent for: offsets never decrease, and grow for each subscription. The invariant says
  what each client has received up to the event in hand (`Boxes`), whom
  `OnChangefeedEvent` still owes it (`Promised`), and that the descriptor it is about to write to was
  its client's (`Aimed`).

`WasmRuntimeProofs`:

* `TicksCoalesced`: `TickCoalesced`, from `TickInv`: for each entry the ticks about to be queued,
  queued and with a worker are at most one together, one exactly when `in_flight` is set.
* `EngineGoesLast`: `QuietBeforeEngineGoes`, from `QuietInv`: in each state of `Shutdown`, which
  threads are out of the engine and cannot come back.
* `ModulesAreAsDeployed`: `DeployedPairs`, from `DeployInv`: everything that is, or may become, the
  code of a name (files, index, a deployment, a `Save` half way, an object, a load) was
  asked for under its version. This is where a crash between any two file operations counts.
* `FailedCallsPublishNothing` and `CallsAreSerialized`: `FailedCallsSilent` and `Serialized`, from
  `CallInv`: calls under way have numbers of their own and have published nothing before their
  commit, and at most one of them is in an object. What `Commit` and recovery do to the
  rows in detail is not needed: only an object's own call can change a row in its name.
* `DisconnectedAreSilent`: the action property `SilentAfterDisconnect`, from `OwnerInv`: a live
  subscription is listed under a connection that is not leaving, and the processing thread
  holds `subscriptions_mutex_` from the choice of a subscription to the callback.
* `EventsReachSubscribers`: `EveryEventEmitted`, from `OffsetInv`: done events, batch and queue are
  consecutive offsets; a subscription without functions has been given every done event since
  it was made and of its tables (`Covered`), and the one in hand if the thread has been with it
  (`Served`); nothing of other tables was given (`EmittedMatch`). The table of an offset is that of its
  event for good, because the feed only grows.

`MemTableProofs`, of `MemSpec`, whose behaviours are those of `Components` with `part = "memtable"`:

* `PrefixInRange`: the bound that `HostTableScan` computes is above every key with the prefix, for
  any bytes: 0xFF is carried, and a prefix of 0xFF only has no bound. It rests on the order of
  `std::string` (`LessMeans`, `Transitive`, `Total`).
* `CacheNeverStale` and `ScansAreComplete`: `CacheFresh` and `ScanComplete`, from `MemInv`: who is
  inside holds the lock and a writer is alone (`Locks`), and a scan has read the rows as they
  are and has still to come to the others with its prefix (`Gathered`). `MergedAnswers` is the
  part about the overlay and the limit: the i-th row of the answer has i - 1 rows before it.

`FrameProofs`, of `FrameSpec`:

* `MessagesDelivered`: `FramesDelivered`, for any traffic, chunks and limit. The property does not say what
  is left in `pending`. `FrameInv` does: the first k frames are done, k being as many as have arrived whole
  (or up to a close frame), `handled` is their messages, and `pending` is the stream from where they
  end to what has arrived. `TakesFrame` and `TakesNothing` are the two cases of a round of the inner
  loop: the frame at the front is whole, and is taken, or it is not, and
  `CompleteFrameSize` says so even where the header itself is cut. `Drain` is then k rounds of the
  one and idle rounds of the other.
* `ServerFramesRead`: `ServerFramesParse`. A length written big-endian in n bytes is read back if it
  is below Base^n, by Horner's rule on its digits; masking is its own inverse.

`CodecProofs`, of `HostSpec`, `LikeSpec` and `CodecSpec`. The invariants are simple there; the work is in
what the algorithms compute for every input:

* `ValuesKept`: `ValuesSurvive`, which says of each kind of JSON value what comes back, the wrapped
  integers and dropped keys included. `DecodeOfEncode` and `EncodeOfDecode` are the two directions of
  base64: a sequence is the concatenation of its slices and the slices of a concatenation of groups of
  one size are the groups (`FlatOfSlices`, `SlicesOfFlat`), and three bytes, two or one go through four
  sextets unharmed (`GroupBack`, `UngroupBack`).
* `VersionsCompared`: `VersionsOrdered`. Numbers in a base are ordered as their first different digit
  (`CompareDigits`), which is what `CompareVersions` looks for; it is antisymmetric also for text.
* `LikeAgrees`: `LikeMatches`. Where the first j items of the regex can end is where the cuts for
  the first j characters of the pattern can end (`EndsAreCuts`, `CutsAreEnds`).
* `RecordsKept` and `EventsCarried`: `RecordsRoundTrip` and `EventSurvives`. `Stands(W, q, f)` says that the bytes f stand
  in W after q others, `At(n, q, v)` is a reader of the first n bytes that has read v up to q, or has failed because
  n is less. Every reader has a lemma of one form: where the bytes of x stand at q, it goes from
  `At(n, q, w)` to `At(n, q + their length, x)`. So the lemmas compose along a record
  (`NeedAt`, `NumberAt`, `StringAt`, `ValueAt`, `ColumnAt`, `FieldAt`, `ListAt`, then `RowAt`, `SchemaAt`, `EventAt`), and the last
  one says that the record is read from n bytes exactly if n is all of them. `MapBack`
  is why the order of the columns does not matter.

Induction over keys and positions is done by a least counterexample or over the set of the
positions where a fact holds (`Least`, `Largest`, `Induction`), which needs no operator as a
parameter. Loops that a proof is about are recursive functions of the position (`Applying`,
`Replayed`, the loops of `Drain`, `Ends`, `ReadList` and `FlattenSeq`), whose equations lemmas such as
`ApplyingSteps`, `ReplayedSteps`, `EndsSteps` and `FlattenSteps` establish once; two loops that start and step
alike are the same (`SameUpTo`).

Nothing is claimed of `CrashConsistency`, `PublishedNeverLost` and `ImplementsStore` outside
`NoFailures`: failing snapshots, lossy values and power losses refute the first (see
"Further departures").

Model-checked only:

* `PromisesKept`, `CallsReturn` and `StopReturns`: liveness.
* `ParsesByPrecedence` and `NullsCollapsed`: the parser is mutually recursive over tokens and the evaluator
  recursive over trees, and what they compute is a matter of induction over data, which is out of
  the prover's reach.

## Not modelled

* `changefeed_engine.cpp`: `AcknowledgeEvent` and `CompactEvents`, which nothing in the
  server calls, and the use of `done_mutex` after `RunBatch` has returned.
* `storage_engine.cpp`: row versions, timestamps, statistics; the exception of `SerializeRow` on
  text that is not UTF-8, which leaves what a commit that fails half way leaves.
* `transaction_impl.cpp`: `Get` of a transaction's own writes, which no caller in the
  server uses.
* `sql_engine.cpp`: the text of statements; `BeginTransaction` to `RollbackTransaction`, which
  the server does not use.
* `predicate_evaluator.cpp`: the tokenizer; the loss of precision of integers beyond 2^53, which
  `get<double>()` compares as doubles (:472); the refusal of a LIKE pattern that `std::regex`
  throws on (:378-382), which only very long patterns reach.
* `websocket_server.cpp`: the HTTP handshake and SHA-1, `Stop` (which closes a descriptor
  that another thread is accepting on) and `BroadcastToAllClients`, which the server does not
  reach.
* `binary_protocol.cpp`: the benchmark; the exception of `json.dump()` (:411) on text that is not
  UTF-8, which `SerializeRow` keeps out of events.
* WASM: the bytecode, fuel, epochs, the clock and `HostGenerateId` (identifiers repeat after
  2^20 in one millisecond); `DeleteSubscription` of WASM subscriptions, which the server
  does not call; periods of ticks.
* gRPC: streaming and read-only calls, TLS, authentication.
* `origindb_cli.cpp`, `origindb_init.cpp`, configuration, authentication, metrics, SDKs, the Unity
  client and the examples: sequential input and output, templates, or other languages.

## Plan

1. Done: log, storage engine, changefeed; the websocket session with the SQL engine and
   subscriptions; the WASM runtime; the stateless components; `DurableStore` and its refinement;
   proofs of every safety property that a run checks but those of the WHERE parser, and of the
   refinement.
2. Crash consistency with torn records and a failing writer, after which a life is inexact, in
   place of `NoFailures`: the invariant would follow the readable part of the file.
3. An abstract ordered feed that `Changefeed` implements and that `Session` uses in place of
   its own changefeed steps.
4. The descriptor of a client kept with its identity, as a variant of `Session` in which an
   event never reaches another client.
