--------------------------- MODULE StorageEngine ---------------------------
(***************************************************************************)
(* src/src/storage/storage_engine.cpp over the write-ahead log: commits that *)
(* apply to the memtables under tables_mutex_, queue their records, and      *)
(* publish to the changefeed once durable; DDL; the snapshot that truncates  *)
(* the log (checkpoint thread and shutdown); crash and recovery.             *)
(*                                                                           *)
(* A row is its value; a table is a function from keys.  The sections that   *)
(* hold tables_mutex_ without waiting for anything are single actions, the   *)
(* ones that wait under it (DDL, WriteSnapshot) are several and hold `lock`. *)
(***************************************************************************)
EXTENDS WAL, SequencesExt

CONSTANTS
  Tables, Keys, Values,
  Absent,         \* no row under this key
  NoTable,        \* the table does not exist
  NoSnapshot,     \* no snapshot.json, or one that does not parse
  JsonLossy,      \* values that JSON does not carry back: int32, float, bytes, time
  Degraded,       \* what they come back as
  Main,           \* the client thread that runs Initialize
  BootTables,     \* tables of the snapshot the first boot finds
  Workloads,      \* what clients write and what else happens, of which a behaviour has one
  CrashKinds,     \* subset of {"process", "power"}
  Admitted,       \* causes of inexactness that CrashConsistency looks into
  MaxCommits      \* bound on commits and DDL calls

\* What a table and the database can be.
Rows == [Keys -> Values \union {Absent}]
TableStates == [Tables -> Rows \union {NoTable}]

Dml == [op : {"INSERT", "UPDATE"}, table : Tables, key : Keys, val : Values]
       \union [op : {"DELETE"}, table : Tables, key : Keys, val : {Absent}]

\* The operations that clients stage, and the bounds on the write set of a
\* transaction, on the snapshots of the checkpoint thread, and on crashes and
\* shutdowns.
Workload == [writes : SUBSET Dml, maxWrites : Nat, maxCheckpoints : Nat, maxCrashes : Nat]

ASSUME StorageConstants ==
  /\ Main \in Clients /\ BootTables \subseteq Tables /\ Workloads \subseteq Workload
  /\ JsonLossy \subseteq Values /\ Degraded \in Values /\ Absent \notin Values
  /\ NoTable \notin Rows /\ NoSnapshot \notin TableStates /\ "free" \notin Threads
  /\ CrashKinds \subseteq {"process", "power"}
  /\ "power" \in CrashKinds => SyncMode = "fsync"

VARIABLES
  tables,       \* tables_
  lock,         \* who holds tables_mutex_ while waiting: a client (exclusive),
                \* the Drainer (shared), or nobody ("free")
  txn,          \* each client's transaction and where its call is
  events,       \* pending_events of the client's commit
  published,    \* what PublishEvent received, in offset order
  snap,         \* snapshots/snapshot.json
  snapForced,   \* the snapshot the OS has written back to the drive
  phase,        \* "run", "recover" (inside Initialize), "down"
  entries,      \* log entries RecoverFromWAL still has to apply
  sd,           \* where Shutdown is
  commits, checkpoints, crashes,
  states,       \* history: the tables after each commit and DDL call, in order
  index,        \* history: which of them is the client's pending commit
  visibleTo,    \* history: the last one a caller was told of
  inexact,      \* history: reasons why the log does not describe the memtables
  inherited,    \* history: those of earlier lives whose records the log still has
  workload      \* never changes

engineVars == <<tables, lock, txn, events, published, snap, snapForced, phase,
                entries, sd, commits, checkpoints, crashes>>
ghosts == <<states, index, visibleTo, inexact, inherited>>
vars == <<walVars, engineVars, ghosts>>

EmptyTable == [k \in Keys |-> Absent]
NoTables == [t \in Tables |-> NoTable]
BootState == [t \in Tables |-> IF t \in BootTables THEN EmptyTable ELSE NoTable]
Idle == [st |-> "none", writes |-> <<>>]

Init ==
  /\ WALInit /\ workload \in Workloads
  /\ tables = BootState /\ snap = BootState /\ snapForced = BootState
  /\ lock = "free" /\ phase = "run" /\ sd = "no"
  /\ txn = [c \in Clients |-> Idle]
  /\ events = [c \in Clients |-> <<>>]
  /\ published = <<>> /\ entries = <<>>
  /\ commits = 0 /\ checkpoints = 0 /\ crashes = 0
  /\ states = <<BootState>> /\ visibleTo = 1 /\ inexact = {} /\ inherited = {}
  /\ index = [c \in Clients |-> 1]

Running == proc = "up" /\ phase = "run" /\ sd # "off"

-----------------------------------------------------------------------------
(***************************************************************************)
(* MemTable operations and the write loop of Commit.                        *)
(***************************************************************************)

Has(tabs, t, k) == tabs[t] # NoTable /\ tabs[t][k] # Absent
Put(tabs, w) == [tabs EXCEPT ![w.table][w.key] = w.val]

\* An INSERT of a key that is there is resolved as an UPDATE.
Applies(tabs, w) ==
  /\ tabs[w.table] # NoTable
  /\ w.op = "INSERT" \/ Has(tabs, w.table, w.key)

\* The n-th event of a commit.
Event(tabs, w, n) ==
  [op |-> w.op, table |-> w.table, key |-> w.key, new |-> w.val,
   old |-> tabs[w.table][w.key], commit |-> Len(states) + 1, nth |-> n]

\* The n-th write of the loop, after `acc`: the loop returns at the first that fails.
ApplyWrite(acc, w, n) ==
  IF acc.good /\ Applies(acc.tabs, w)
  THEN [good   |-> TRUE,
        tabs   |-> Put(acc.tabs, w),
        evs    |-> Append(acc.evs, Event(acc.tabs, w, n)),
        upsert |-> acc.upsert \/ (w.op = "INSERT" /\ Has(acc.tabs, w.table, w.key))]
  ELSE [acc EXCEPT !.good = FALSE]

\* The loop over the write set after i writes.
Applying(ws) ==
  LET at[i \in 0..Len(ws)] ==
        IF i = 0 THEN [good |-> TRUE, tabs |-> tables, evs |-> <<>>, upsert |-> FALSE]
        ELSE ApplyWrite(at[i - 1], ws[i], i)
  IN at

ApplyWrites(ws) == Applying(ws)[Len(ws)]

-----------------------------------------------------------------------------
(***************************************************************************)
(* Transactions.                                                            *)
(***************************************************************************)

\* TransactionImpl::Insert, Update, Delete; BeginTransaction for the first one.
\* Nothing is shared before Commit.
Stage(c, w) ==
  /\ Running /\ txn[c].st \in {"none", "active"}
  /\ Len(txn[c].writes) < workload.maxWrites
  /\ txn' = [txn EXCEPT ![c] = [st |-> "active", writes |-> Append(@.writes, w)]]
  /\ UNCHANGED <<walVars, tables, lock, events, published, snap, snapForced, phase,
                 entries, sd, commits, checkpoints, crashes, ghosts>>

\* A commit or DDL call has taken effect in memory.
Effect(c, tabs) ==
  /\ tables' = tabs
  /\ states' = Append(states, tabs)
  /\ index' = [index EXCEPT ![c] = Len(states) + 1]
  /\ commits' = commits + 1

\* Its caller learns that it is durable.
Told(c) ==
  /\ visibleTo' = IF index[c] > visibleTo THEN index[c] ELSE visibleTo
  /\ index' = [index EXCEPT ![c] = 1]

\* Commit up to the release of tables_mutex_.
Commit(c) ==
  /\ Running /\ txn[c].st = "active" /\ lock = "free"
  /\ commits < MaxCommits
  /\ LET r == ApplyWrites(txn[c].writes) IN
     \/ /\ r.good
        /\ AppendBatchAsync(c, txn[c].writes)
        /\ Effect(c, r.tabs)
        /\ events' = [events EXCEPT ![c] = r.evs]
        /\ txn' = [txn EXCEPT ![c].st = "wait"]
        /\ inexact' = inexact \union (IF r.upsert THEN {"upsert"} ELSE {})
        /\ UNCHANGED visibleTo
     \* The writes before the one that failed stay; the transaction stays active.
     \/ /\ ~r.good
        /\ tables' = r.tabs
        /\ commits' = commits + 1
        /\ inexact' = inexact \union (IF r.tabs # tables THEN {"partial"} ELSE {})
        /\ UNCHANGED <<walVars, txn, events, states, index, visibleTo>>
  /\ UNCHANGED <<lock, published, snap, snapForced, phase, entries, sd, checkpoints,
                 crashes, inherited>>

\* Mutant: events are published without waiting for durability.
DurableNoWait(c) ==
  /\ proc = "up" /\ phase = "run" /\ txn[c].st = "wait"
  /\ txn' = [txn EXCEPT ![c].st = "publish"]
  /\ UNCHANGED <<walVars, tables, lock, events, published, snap, snapForced, phase,
                 entries, sd, commits, checkpoints, crashes, ghosts>>

\* durable.get() returns true.
Durable(c) ==
  /\ phase = "run" /\ txn[c].st = "wait"
  /\ Get(c, "ok")
  /\ txn' = [txn EXCEPT ![c].st = "publish"]
  /\ Told(c)
  /\ UNCHANGED <<tables, lock, events, published, snap, snapForced, phase, entries,
                 sd, commits, checkpoints, crashes, states, inexact, inherited>>

\* durable.get() returns false: Commit returns false, the memtable keeps the rows.
NotDurable(c) ==
  /\ phase = "run" /\ txn[c].st = "wait"
  /\ Get(c, "failed")
  /\ txn' = [txn EXCEPT ![c].st = "active"]
  /\ events' = [events EXCEPT ![c] = <<>>]
  /\ inexact' = inexact \union {"wal_failed"}
  /\ UNCHANGED <<tables, lock, published, snap, snapForced, phase, entries, sd,
                 commits, checkpoints, crashes, states, index, visibleTo, inherited>>

\* Mutant: only the first event of a transaction is published.
PublishFirst(c) ==
  /\ proc = "up" /\ txn[c].st = "publish"
  /\ published' = Append(published, Head(events[c]))
  /\ events' = [events EXCEPT ![c] = <<>>]
  /\ txn' = [txn EXCEPT ![c] = Idle]
  /\ UNCHANGED <<walVars, tables, lock, snap, snapForced, phase, entries, sd,
                 commits, checkpoints, crashes, ghosts>>

\* One PublishEvent of the loop; after the last one the transaction is committed.
Publish(c) ==
  /\ proc = "up" /\ txn[c].st = "publish"
  /\ published' = Append(published, Head(events[c]))
  /\ events' = [events EXCEPT ![c] = Tail(@)]
  /\ txn' = IF Len(events[c]) = 1 THEN [txn EXCEPT ![c] = Idle] ELSE txn
  /\ UNCHANGED <<walVars, tables, lock, snap, snapForced, phase, entries, sd,
                 commits, checkpoints, crashes, ghosts>>

\* Rollback, or the caller lets go of a transaction whose commit failed.
Rollback(c) ==
  /\ Running /\ txn[c].st = "active"
  /\ txn' = [txn EXCEPT ![c] = Idle]
  /\ UNCHANGED <<walVars, tables, lock, events, published, snap, snapForced, phase,
                 entries, sd, commits, checkpoints, crashes, ghosts>>

-----------------------------------------------------------------------------
(***************************************************************************)
(* CreateTable and DropTable append under the lock and wait under it.       *)
(***************************************************************************)

Ddl(c, op, t, tabs) ==
  /\ Effect(c, tabs)
  /\ AppendBatchAsync(c, <<[op |-> op, table |-> t]>>)
  /\ lock' = c
  /\ txn' = [txn EXCEPT ![c].st = "ddl"]
  /\ UNCHANGED <<events, published, snap, snapForced, phase, sd, checkpoints,
                 crashes, visibleTo>>

CreateTable(c, t) ==
  /\ Running /\ txn[c].st = "none" /\ lock = "free" /\ commits < MaxCommits
  /\ tables[t] = NoTable
  /\ Ddl(c, "CREATE_TABLE", t, [tables EXCEPT ![t] = EmptyTable])
  /\ UNCHANGED <<entries, inexact, inherited>>

DropTable(c, t) ==
  /\ Running /\ txn[c].st = "none" /\ lock = "free" /\ commits < MaxCommits
  /\ tables[t] # NoTable
  /\ Ddl(c, "DROP_TABLE", t, [tables EXCEPT ![t] = NoTable])
  /\ UNCHANGED <<entries, inexact, inherited>>

\* Mutant: a failed append returns early, with the lock held.
DdlKeepsLock(c) ==
  /\ txn[c].st = "ddl"
  /\ \/ Get(c, "ok") /\ lock' = "free" /\ UNCHANGED inexact
     \/ Get(c, "failed") /\ UNCHANGED lock /\ inexact' = inexact \union {"wal_failed"}
  /\ txn' = [txn EXCEPT ![c] = Idle]
  /\ Told(c)
  /\ UNCHANGED <<tables, events, published, snap, snapForced, phase, entries, sd,
                 commits, checkpoints, crashes, states, inherited>>

\* Append's result is ignored: the caller is told true.
DdlReturns(c) ==
  /\ txn[c].st = "ddl"
  /\ \/ Get(c, "ok") /\ UNCHANGED inexact
     \/ Get(c, "failed") /\ inexact' = inexact \union {"wal_failed"}
  /\ lock' = "free"
  /\ txn' = [txn EXCEPT ![c] = Idle]
  /\ Told(c)
  /\ UNCHANGED <<tables, events, published, snap, snapForced, phase, entries, sd,
                 commits, checkpoints, crashes, states, inherited>>

-----------------------------------------------------------------------------
(***************************************************************************)
(* WriteSnapshot: rows as JSON to a temporary file, rename, Truncate.       *)
(* Between the rename and the reset of the log it holds the shared lock.    *)
(***************************************************************************)

\* SerializeRow then DeserializeRow.
JsonRoundTrip(v) == IF v \in JsonLossy THEN Degraded ELSE v
SnapshotOf(tabs) ==
  [t \in Tables |-> IF tabs[t] = NoTable THEN NoTable
                    ELSE [k \in Keys |-> JsonRoundTrip(tabs[t][k])]]

\* Records of commits that are in the memtables and not in wal.log.
Unwritten == queue.bytes # <<>> \/ (wpc = "write" /\ drained.bytes # <<>>)

\* Mutant: tables_mutex_ is released once the rows are copied.
WriteSnapshotUnlocked ==
  /\ proc = "up" /\ lock = "free" /\ tables # NoTables
  /\ TruncateBegin(nextSeq - 1)
  /\ snap' = SnapshotOf(tables)
  /\ inexact' = inexact \union (IF Unwritten THEN {"snapshot_ahead"} ELSE {})
  /\ UNCHANGED <<lock, tables, txn, events, published, snapForced, phase, entries,
                 commits, crashes, states, index, visibleTo, inherited>>

\* A failure to open or to write the temporary file returns before the rename and
\* changes nothing; one that only the destructor of the stream meets, when it writes
\* the last buffer, is not seen, and leaves a snapshot that does not parse.
WriteSnapshot ==
  /\ proc = "up" /\ lock = "free" /\ tables # NoTables
  /\ TruncateBegin(nextSeq - 1)
  /\ lock' = Drainer
  /\ \/ snap' = SnapshotOf(tables)
     \/ "snapshot" \in Faults /\ snap' = NoSnapshot
  /\ inexact' = inexact \union (IF Unwritten THEN {"snapshot_ahead"} ELSE {})
  /\ UNCHANGED <<tables, txn, events, published, snapForced, phase, entries, commits,
                 crashes, states, index, visibleTo, inherited>>

Checkpoint ==
  /\ phase = "run" /\ sd = "no" /\ checkpoints < workload.maxCheckpoints
  /\ WriteSnapshot
  /\ checkpoints' = checkpoints + 1
  /\ UNCHANGED sd

\* Drain and the reset of the log, inside WriteSnapshot or Flush.
SnapshotStep ==
  /\ DrainEnqueue \/ DrainWait \/ TruncateReset
  /\ lock' = IF tpc' = "idle" /\ lock = Drainer THEN "free" ELSE lock
  /\ sd' = CASE tpc' = "idle" /\ sd = "snap"  -> "flush"
             [] tpc' = "idle" /\ sd = "flush" -> "clear"
             [] OTHER -> sd
  /\ UNCHANGED <<tables, txn, events, published, snap, snapForced, phase, entries,
                 commits, checkpoints, crashes, ghosts>>

\* The OS writes the snapshot back in its own time: nothing fsyncs it.
WriteBack ==
  /\ "power" \in CrashKinds /\ snapForced # snap
  /\ snapForced' = snap
  /\ UNCHANGED <<walVars, tables, lock, txn, events, published, snap, phase, entries,
                 sd, commits, checkpoints, crashes, ghosts>>

-----------------------------------------------------------------------------
(***************************************************************************)
(* Shutdown: join the checkpointer, snapshot, flush, clear the tables.      *)
(***************************************************************************)

ShutdownBegin ==
  /\ Running /\ sd = "no" /\ tpc = "idle" /\ crashes < workload.maxCrashes
  /\ sd' = "snap"
  /\ crashes' = crashes + 1
  /\ UNCHANGED <<walVars, tables, lock, txn, events, published, snap, snapForced,
                 phase, entries, commits, checkpoints, ghosts>>

ShutdownSnapshot ==
  /\ sd = "snap" /\ WriteSnapshot
  /\ UNCHANGED <<sd, checkpoints>>

\* With no tables WriteSnapshot returns at once, and so it does when it cannot
\* write the temporary file or rename it: the log stays whole.
ShutdownFlush ==
  /\ \/ sd = "snap" /\ lock = "free" /\ (tables = NoTables \/ "snapshot" \in Faults)
     \/ sd = "flush"
  /\ FlushBegin
  /\ sd' = "flush"
  /\ UNCHANGED <<tables, lock, txn, events, published, snap, snapForced, phase,
                 entries, commits, checkpoints, crashes, ghosts>>

ShutdownClear ==
  /\ sd = "clear" /\ lock = "free"
  /\ tables' = NoTables
  /\ sd' = "off"
  /\ UNCHANGED <<walVars, lock, txn, events, published, snap, snapForced, phase,
                 entries, commits, checkpoints, crashes, ghosts>>

-----------------------------------------------------------------------------
(***************************************************************************)
(* Crash and recovery.                                                      *)
(***************************************************************************)

Forget ==
  /\ tables' = NoTables /\ lock' = "free" /\ phase' = "down" /\ sd' = "no"
  /\ txn' = [c \in Clients |-> Idle]
  /\ events' = [c \in Clients |-> <<>>]
  /\ published' = <<>> /\ entries' = <<>>
  /\ UNCHANGED <<commits, checkpoints, states, index, visibleTo, inherited>>

\* The end of the process after Shutdown: the destructor closes the log.
Exit ==
  /\ sd = "off" /\ Close
  /\ Forget
  /\ UNCHANGED <<snap, snapForced, crashes, inexact>>

\* A write cut inside a transaction of several records.
CutBatch == file' # file /\ \E c \in drained.done \intersect Clients : Len(txn[c].writes) > 1

Crash ==
  /\ crashes < workload.maxCrashes
  /\ crashes' = crashes + 1
  /\ \/ /\ "process" \in CrashKinds /\ ProcessCrash
        /\ UNCHANGED <<snap, snapForced>>
     \/ /\ "power" \in CrashKinds /\ PowerLoss
        /\ snap' \in {snap, snapForced} \union (IF snap = snapForced THEN {} ELSE {NoSnapshot})
        /\ snapForced' = snap'
  /\ Forget
  /\ inexact' = inexact \union (IF CutBatch THEN {"cut"} ELSE {})

\* One iteration of the loop of RecoverFromWAL, without DropTable's log record.
ReplayRecord(tabs, r) ==
  LET w == r.data IN
  CASE w.op = "CREATE_TABLE" ->
         IF tabs[w.table] = NoTable THEN [tabs EXCEPT ![w.table] = EmptyTable] ELSE tabs
    [] w.op = "DROP_TABLE" -> [tabs EXCEPT ![w.table] = NoTable]
    [] w.op = "INSERT" ->
         IF tabs[w.table] # NoTable /\ ~Has(tabs, w.table, w.key) THEN Put(tabs, w) ELSE tabs
    [] OTHER -> IF Has(tabs, w.table, w.key) THEN Put(tabs, w) ELSE tabs

\* Mutant: a document that does not parse is used as it is.
LoadSnapshotUnchecked(s) == s

LoadSnapshotIfPresent(s) == IF s = NoSnapshot THEN NoTables ELSE s

\* The loop after i records.
Replayed(tabs, log) ==
  LET at[i \in 0..Len(log)] == IF i = 0 THEN tabs ELSE ReplayRecord(at[i - 1], log[i])
  IN at

\* What Initialize makes of a snapshot and a log.
Recovered(s, f) == Replayed(LoadSnapshotIfPresent(s), ReadAll(f))[Len(ReadAll(f))]

\* Where this life, or the log it was started from, departs from what the log says.
Departures == inexact \union inherited

Boot ==
  /\ phase = "down" /\ Initialize
  /\ phase' = "recover"
  /\ tables' = LoadSnapshotIfPresent(snap)
  /\ entries' = ReadAll(file')
  /\ states' = <<Recovered(snap, file')>> /\ visibleTo' = 1 /\ inexact' = {}
  /\ inherited' = IF file' = <<>> THEN {} ELSE Departures \ {"cut"}
  /\ index' = [c \in Clients |-> 1]
  /\ UNCHANGED <<lock, txn, events, published, snap, snapForced, sd, commits,
                 checkpoints, crashes>>

Replay ==
  /\ proc = "up" /\ phase = "recover" /\ entries # <<>> /\ txn[Main].st = "none"
  /\ tables' = ReplayRecord(tables, Head(entries))
  /\ entries' = Tail(entries)
  \* DropTable logs the drop it replays.
  /\ LET w == Head(entries).data IN
     \/ /\ w.op = "DROP_TABLE" /\ tables[w.table] # NoTable
        /\ AppendBatchAsync(Main, <<w>>)
        /\ lock' = Main
        /\ txn' = [txn EXCEPT ![Main].st = "ddl"]
        /\ inexact' = inexact \union {"redrop"}
     \/ /\ ~(w.op = "DROP_TABLE" /\ tables[w.table] # NoTable)
        /\ UNCHANGED <<walVars, lock, txn, inexact>>
  /\ UNCHANGED <<events, published, snap, snapForced, phase, sd, commits,
                 checkpoints, crashes, states, index, visibleTo, inherited>>

\* Mutant: the last entry is not applied.
RecoveryCompleteEarly ==
  /\ proc = "up" /\ phase = "recover" /\ Len(entries) <= 1 /\ txn[Main].st = "none"
  /\ phase' = "run" /\ entries' = <<>>
  /\ UNCHANGED <<walVars, tables, lock, txn, events, published, snap, snapForced,
                 sd, commits, checkpoints, crashes, ghosts>>

RecoveryComplete ==
  /\ proc = "up" /\ phase = "recover" /\ entries = <<>> /\ txn[Main].st = "none"
  /\ phase' = "run"
  /\ UNCHANGED <<walVars, tables, lock, txn, events, published, snap, snapForced,
                 entries, sd, commits, checkpoints, crashes, ghosts>>

-----------------------------------------------------------------------------
Client(c) ==
  \/ \E w \in workload.writes : Stage(c, w)
  \/ Rollback(c)
  \/ \E t \in Tables : CreateTable(c, t) \/ DropTable(c, t)

Progress(c) == Commit(c) \/ Durable(c) \/ NotDurable(c) \/ Publish(c) \/ DdlReturns(c)
WriterStep == Writer /\ UNCHANGED <<engineVars, ghosts>>
StopStep == sd = "off" /\ StopWriter /\ UNCHANGED <<engineVars, ghosts>>
Shutdown == ShutdownSnapshot \/ ShutdownFlush \/ ShutdownClear \/ StopStep \/ Exit
Recovery == Replay \/ RecoveryComplete

Step ==
  \/ \E c \in Clients : Client(c) \/ Progress(c)
  \/ WriterStep
  \/ Checkpoint
  \/ SnapshotStep
  \/ WriteBack
  \/ ShutdownBegin
  \/ Shutdown
  \/ Crash
  \/ Boot
  \/ Recovery

Next == Step /\ UNCHANGED workload

\* Threads keep running; nobody has to call anything, and nothing has to crash.
Fairness ==
  /\ WF_vars(WriterStep)
  /\ WF_vars(SnapshotStep)
  /\ WF_vars(Recovery)
  /\ \A c \in Clients : WF_vars(Durable(c) \/ NotDurable(c) \/ Publish(c) \/ DdlReturns(c))

Spec == Init /\ [][Next]_<<vars, workload>> /\ Fairness

-----------------------------------------------------------------------------
(***************************************************************************)
(* Properties.                                                              *)
(***************************************************************************)

\* Every engine variable has its type.
TypeOK ==
  /\ tables \in TableStates /\ snapForced \in TableStates \union {NoSnapshot}
  /\ snap \in TableStates \union {NoSnapshot}
  /\ lock \in Clients \union {"free", Drainer}
  /\ \A c \in Clients : txn[c].st \in {"none", "active", "wait", "publish", "ddl"}
  /\ phase \in {"run", "recover", "down"}
  /\ sd \in {"no", "snap", "flush", "clear", "off"}
  /\ \A i \in DOMAIN states : states[i] \in TableStates
  /\ visibleTo \in 1..Len(states)

\* What recovery would rebuild at this moment is the result of a prefix of the
\* commits, in commit order and each of them whole, that contains every commit
\* and DDL call a caller was told of.
RecoversPrefix ==
  \E i \in visibleTo..Len(states) : Recovered(snap, file) = states[i]

\* ... as long as the log describes what the engine did to the memtables.  The causes
\* that make it differ are an INSERT resolved as an UPDATE ("upsert"), a commit that
\* failed half way ("partial"), a failed log ("wal_failed"), a replayed DROP
\* ("redrop"), a transaction cut by a crash ("cut") and a snapshot that is ahead of
\* the log ("snapshot_ahead").  A record that an earlier life left without effect may
\* have one when a snapshot and a crash before the reset of the log replay it over
\* later rows, so all but "cut" count until the log is empty.  CrashConsistency holds
\* with none of them, and a run that admits one asks whether recovery copes with it.
CrashConsistency == Departures \subseteq Admitted => RecoversPrefix

\* Commit, "subscribers never observe a write a later crash could lose": what
\* recovery would rebuild contains every commit that has a published event.
PublishedNeverLost ==
  Departures \subseteq Admitted =>
    \E i \in DOMAIN states : /\ Recovered(snap, file) = states[i]
                             /\ \A j \in DOMAIN published : published[j].commit <= i

\* The events that are published, and those their committer has still to publish.
Feed == (UNION {ToSet(events[c]) : c \in Clients}) \union ToSet(published)

\* README, "Every committed write emits exactly one ChangefeedEvent": every row that
\* a commit changed has an event with its last value, published or still to be
\* published by the committer, and no event is published twice.
FeedComplete ==
  phase = "run" /\ inexact \intersect {"partial", "wal_failed"} = {} =>
    /\ \A n \in 2..Len(states), t \in Tables, k \in Keys :
         /\ states[n][t] # NoTable /\ states[n - 1][t] # NoTable
         /\ states[n][t][k] # states[n - 1][t][k]
         => \E e \in Feed : e.commit = n /\ e.table = t /\ e.key = k /\ e.new = states[n][t][k]
    /\ \A i, j \in DOMAIN published : i # j => published[i] # published[j]

\* "subscribers see only durable, in-order events": events reach the changefeed
\* in commit order.
PublishOrder ==
  \A i, j \in DOMAIN published : i < j => published[i].commit <= published[j].commit

\* Commits and DDL calls return, locks are released, recovery ends.
CallsReturn ==
  /\ \A c \in Clients : txn[c].st \in {"wait", "publish", "ddl"} ~> txn[c].st \in {"none", "active"}
  /\ lock # "free" ~> lock = "free"
  /\ phase = "recover" ~> phase # "recover"

-----------------------------------------------------------------------------
(***************************************************************************)
(* What the engine promises, whatever the log, the writer, the snapshots     *)
(* and recovery do: readers see the tables while the engine is open.         *)
(***************************************************************************)
Store == INSTANCE DurableStore WITH
  States  <- TableStates,
  NoView  <- NoSnapshot,
  view    <- IF Running THEN tables ELSE NoSnapshot,
  history <- states,
  told    <- visibleTo,
  feed    <- {published[i].commit : i \in DOMAIN published},
  exact   <- Departures \subseteq Admitted

\* The engine is a DurableStore: every step of commit, group commit, checkpoint,
\* shutdown, crash and recovery is a step of it or changes nothing that callers
\* and subscribers see ("the database reflects exactly the set of transactions
\* whose commit was acknowledged", or more).
ImplementsStore == Store!Spec
=============================================================================
