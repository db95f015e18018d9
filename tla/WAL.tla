-------------------------------- MODULE WAL --------------------------------
(***************************************************************************)
(* The write-ahead log of src/src/storage/wal_impl.cpp: committers queue    *)
(* batches of records under queue_mutex_, one writer thread drains the      *)
(* whole queue, writes it with one write pass and one fdatasync, and        *)
(* fulfils every promise of the drain (group commit).                       *)
(*                                                                          *)
(* The deque of PendingBatch is kept as one record: the bytes still to be   *)
(* written, concatenated, and the threads whose promise is in the deque.    *)
(* The writer always takes the whole deque and gives all its promises the   *)
(* same answer, so nothing else about the batch boundaries is observable.   *)
(*                                                                          *)
(* This module has the state and the operations; GroupCommit closes it with *)
(* arbitrary clients, StorageEngine with the engine that uses it.           *)
(***************************************************************************)
EXTENDS Naturals, Sequences, FiniteSets

CONSTANTS
  Clients,      \* threads that append a batch and block on its future
  Drainer,      \* the thread inside Truncate or Flush (checkpoint or shutdown)
  NoData,       \* payload of the unreadable remains of a record
  SyncMode,     \* StorageConfig::sync_mode after the sync_wal override
  Faults,       \* system calls that may fail: "write", "sync", "open", "magic",
                \* and the write or the close of a snapshot ("snapshot")
  Tearing       \* may a crash or a failed write cut a record in two?

ASSUME WALConstants ==
  /\ Drainer \notin Clients
  /\ SyncMode \in {"none", "flush", "fsync"}
  /\ Faults \subseteq {"write", "sync", "open", "magic", "snapshot"}
  /\ Tearing \in BOOLEAN

VARIABLES
  proc,         \* is the process running?
  queue,        \* queue_: bytes not yet taken by the writer, and their promises
  drained,      \* the writer's local copy of what it took
  wpc,          \* where the writer thread is
  ok,           \* result of WriteAndSync
  fatal,        \* fatal_
  stop,         \* stop_
  nextSeq,      \* next_sequence_
  file,         \* the records of wal.log, as the OS shows it
  disk,         \* the content last forced to the drive
  fd,           \* fd_ >= 0
  promise,      \* the future each thread holds
  tpc,          \* where the Drainer is inside Truncate or Flush
  flushing      \* it is in Flush, not Truncate

queueVars  == <<queue, nextSeq>>
writerVars == <<drained, wpc, ok, fatal>>
fileVars   == <<file, disk, fd>>
drainVars  == <<tpc, flushing>>
walVars    == <<proc, queueVars, writerVars, stop, fileVars, promise, drainVars>>

Threads == Clients \union {Drainer}
Nothing == [bytes |-> <<>>, done |-> {}]

(***************************************************************************)
(* What is left of a record (or of the file magic) cut by a crash or a      *)
(* failed write.  No record has sequence 0.                                 *)
(***************************************************************************)
Torn == [seq |-> 0, data |-> NoData]

(***************************************************************************)
(* ReadAll: the records up to the first one whose frame is incomplete, and  *)
(* nothing at all when the magic is not.  Records are length-prefixed with   *)
(* no checksum and no resynchronisation, so what is appended behind a torn  *)
(* record is read as the rest of that record and its frame is lost.  Once   *)
(* enough is appended the code returns that record, made of bytes that are *)
(* not one record, and reads on out of step; the model stops before it.    *)
(***************************************************************************)
Readable(f) == {i \in DOMAIN f : \A j \in 1..i : f[j] # Torn}
ReadAll(f) == SubSeq(f, 1, Cardinality(Readable(f)))

\* Mutants of RecoverSequenceNumber: the last number is given out again, or the
\* numbers restart.
RecoverLastNumber(f) ==
  LET seqs == {f[i].seq : i \in Readable(f)} \union {0}
  IN  {s \in seqs : \A t \in seqs : t <= s}

RecoverNothing(f) == {1}

\* One more than the largest sequence number that can be read (a singleton).
RecoverSequenceNumber(f) ==
  LET seqs == {f[i].seq : i \in Readable(f)} \union {0}
  IN  {s + 1 : s \in {s \in seqs : \A t \in seqs : t <= s}}

WALInit ==
  /\ proc = "up"
  /\ queue = Nothing /\ drained = Nothing
  /\ wpc = "wait" /\ ok = TRUE
  /\ fatal = FALSE /\ stop = FALSE
  /\ nextSeq = 1
  /\ file = <<>> /\ disk = <<>> /\ fd = TRUE
  /\ promise = [t \in Threads |-> "none"]
  /\ tpc = "idle" /\ flushing = FALSE

-----------------------------------------------------------------------------
(***************************************************************************)
(* Committers.                                                              *)
(***************************************************************************)

\* The records of a batch, numbered from next_sequence_.
Numbered(ds) == [i \in 1..Len(ds) |-> [seq |-> nextSeq + i - 1, data |-> ds[i]]]

AppendBatchAsync(c, ds) ==
  /\ proc = "up" /\ ~stop
  /\ promise[c] = "none"
  /\ \/ /\ fatal
        /\ promise' = [promise EXCEPT ![c] = "failed"]
        /\ UNCHANGED queueVars
     \/ /\ ~fatal
        /\ queue' = [bytes |-> queue.bytes \o Numbered(ds),
                     done  |-> queue.done \union {c}]
        /\ nextSeq' = nextSeq + Len(ds)
        /\ promise' = [promise EXCEPT ![c] = "pending"]
  /\ UNCHANGED <<proc, writerVars, stop, fileVars, drainVars>>

\* future.get() returns in a client thread.
Get(c, result) ==
  /\ proc = "up"
  /\ promise[c] = result
  /\ result \in {"ok", "failed"}
  /\ promise' = [promise EXCEPT ![c] = "none"]
  /\ UNCHANGED <<proc, queueVars, writerVars, stop, fileVars, drainVars>>

-----------------------------------------------------------------------------
(***************************************************************************)
(* WriterLoop.  file_mutex_ is held from the write to the end of the sync,  *)
(* that is, while wpc = "sync".                                             *)
(***************************************************************************)

WriterDrain ==
  /\ proc = "up" /\ wpc = "wait"
  /\ queue.done # {}
  /\ drained' = queue
  /\ queue' = Nothing
  /\ wpc' = "write"
  /\ UNCHANGED <<proc, nextSeq, ok, fatal, stop, fileVars, promise, drainVars>>

\* What a write of `bytes` that stops early leaves behind the content f.
CutWrites(f, bytes) ==
  {f \o SubSeq(bytes, 1, n) : n \in 0..(Len(bytes) - 1)} \union
  (IF Tearing
   THEN {Append(f \o SubSeq(bytes, 1, n), Torn) : n \in 0..(Len(bytes) - 1)}
   ELSE {})

WriterWrite ==
  /\ proc = "up" /\ wpc = "write"
  /\ \/ /\ fd
        /\ file' = file \o drained.bytes
        /\ wpc' = IF SyncMode = "fsync" THEN "sync" ELSE "ack"
        /\ ok' = TRUE
     \/ /\ fd /\ "write" \in Faults
        /\ file' \in CutWrites(file, drained.bytes)
        /\ wpc' = "ack"
        /\ ok' = FALSE
     \/ /\ ~fd
        /\ wpc' = "ack"
        /\ ok' = FALSE
        /\ UNCHANGED file
  /\ UNCHANGED <<proc, queueVars, drained, fatal, stop, disk, fd,
                 promise, drainVars>>

\* Mutant: the result of fdatasync is ignored.
WriterSyncIgnored ==
  /\ proc = "up" /\ wpc = "sync"
  /\ disk' = file \/ ("sync" \in Faults /\ UNCHANGED disk)
  /\ ok' = TRUE
  /\ wpc' = "ack"
  /\ UNCHANGED <<proc, queueVars, drained, fatal, stop, file, fd,
                 promise, drainVars>>

\* SyncFd.  A successful fdatasync forces the whole file.
WriterSync ==
  /\ proc = "up" /\ wpc = "sync"
  /\ \/ disk' = file /\ ok' = TRUE
     \/ "sync" \in Faults /\ ok' = FALSE /\ UNCHANGED disk
  /\ wpc' = "ack"
  /\ UNCHANGED <<proc, queueVars, drained, fatal, stop, file, fd,
                 promise, drainVars>>

\* Mutants of WriterAck: success whatever WriteAndSync returned; the promises still
\* in the queue fulfilled too; no answer for the empty batch of Drain.
WriterAckAlways ==
  /\ proc = "up" /\ wpc = "ack"
  /\ promise' = [t \in Threads |-> IF t \in drained.done THEN "ok" ELSE promise[t]]
  /\ drained' = Nothing
  /\ wpc' = IF ok THEN "wait" ELSE "fatal"
  /\ UNCHANGED <<proc, queueVars, ok, fatal, stop, fileVars, drainVars>>

WriterAckQueued ==
  /\ proc = "up" /\ wpc = "ack"
  /\ promise' = [t \in Threads |->
                   IF t \in drained.done \union queue.done
                   THEN (IF ok THEN "ok" ELSE "failed") ELSE promise[t]]
  /\ drained' = Nothing
  /\ wpc' = IF ok THEN "wait" ELSE "fatal"
  /\ UNCHANGED <<proc, queueVars, ok, fatal, stop, fileVars, drainVars>>

WriterAckNoBarrier ==
  /\ proc = "up" /\ wpc = "ack"
  /\ promise' = [t \in Threads |->
                   IF t \in drained.done \ {Drainer}
                   THEN (IF ok THEN "ok" ELSE "failed") ELSE promise[t]]
  /\ drained' = Nothing
  /\ wpc' = IF ok THEN "wait" ELSE "fatal"
  /\ UNCHANGED <<proc, queueVars, ok, fatal, stop, fileVars, drainVars>>

\* Every promise of the drain gets the result; fatal_ is only set afterwards.
WriterAck ==
  /\ proc = "up" /\ wpc = "ack"
  /\ promise' = [t \in Threads |->
                   IF t \in drained.done THEN (IF ok THEN "ok" ELSE "failed")
                   ELSE promise[t]]
  /\ drained' = Nothing
  /\ wpc' = IF ok THEN "wait" ELSE "fatal"
  /\ UNCHANGED <<proc, queueVars, ok, fatal, stop, fileVars, drainVars>>

WriterSetFatal ==
  /\ proc = "up" /\ wpc = "fatal"
  /\ fatal' = TRUE
  /\ wpc' = "wait"
  /\ UNCHANGED <<proc, queueVars, drained, ok, stop, fileVars, promise, drainVars>>

WriterExit ==
  /\ proc = "up" /\ wpc = "wait"
  /\ queue.done = {} /\ stop
  /\ wpc' = "exit"
  /\ UNCHANGED <<proc, queueVars, drained, ok, fatal, stop, fileVars, promise,
                 drainVars>>

Writer ==
  \/ WriterDrain
  \/ WriterWrite
  \/ WriterSync
  \/ WriterAck
  \/ WriterSetFatal
  \/ WriterExit

-----------------------------------------------------------------------------
(***************************************************************************)
(* Truncate and Flush, called by one thread at a time.                      *)
(***************************************************************************)

\* Truncate refuses a sequence number older than the last one assigned.
TruncateBegin(sequence) ==
  /\ proc = "up" /\ ~stop /\ tpc = "idle"
  /\ sequence + 1 >= nextSeq
  /\ tpc' = "drain"
  /\ flushing' = FALSE
  /\ UNCHANGED <<proc, queueVars, writerVars, stop, fileVars, promise>>

FlushBegin ==
  /\ proc = "up" /\ ~stop /\ tpc = "idle"
  /\ tpc' = "drain"
  /\ flushing' = TRUE
  /\ UNCHANGED <<proc, queueVars, writerVars, stop, fileVars, promise>>

DrainEnd == IF flushing THEN "idle" ELSE "reset"

\* Drain queues an empty batch, unless the log has failed.
DrainEnqueue ==
  /\ proc = "up" /\ tpc = "drain"
  /\ \/ /\ fatal
        /\ tpc' = DrainEnd
        /\ UNCHANGED <<queue, promise>>
     \/ /\ ~fatal
        /\ queue' = [queue EXCEPT !.done = @ \union {Drainer}]
        /\ promise' = [promise EXCEPT ![Drainer] = "pending"]
        /\ tpc' = "wait"
  /\ UNCHANGED <<proc, nextSeq, writerVars, stop, fileVars, flushing>>

\* fut.wait(): whatever the answer.
DrainWait ==
  /\ proc = "up" /\ tpc = "wait"
  /\ promise[Drainer] \in {"ok", "failed"}
  /\ promise' = [promise EXCEPT ![Drainer] = "none"]
  /\ tpc' = DrainEnd
  /\ UNCHANGED <<proc, queueVars, writerVars, stop, fileVars, flushing>>

\* What WriteMagicIfEmpty makes of the content f: its failure is only logged.
WriteMagicIfEmpty(f) ==
  {f} \union (IF f = <<>> /\ "magic" \in Faults THEN {<<Torn>>} ELSE {})

\* close, open(O_TRUNC), open(O_APPEND), under file_mutex_.  Each open may fail
\* alone: the first leaves the content, the second no descriptor.
TruncateReset ==
  /\ proc = "up" /\ tpc = "reset" /\ wpc # "sync"
  /\ \/ /\ file' \in WriteMagicIfEmpty(<<>>)
        /\ fd' = TRUE
     \/ /\ "open" \in Faults
        /\ \/ file' \in {<<>>, file} /\ fd' = FALSE
           \/ file' \in WriteMagicIfEmpty(file) /\ fd' = TRUE
  /\ tpc' = "idle"
  /\ UNCHANGED <<proc, queueVars, writerVars, stop, disk, promise, flushing>>

Drain ==
  \/ DrainEnqueue
  \/ DrainWait
  \/ TruncateReset

-----------------------------------------------------------------------------
(***************************************************************************)
(* Start, stop and crash.                                                   *)
(***************************************************************************)

\* StopWriter, from the destructor: no thread uses the log any more.
StopWriter ==
  /\ proc = "up" /\ ~stop /\ tpc = "idle"
  /\ \A t \in Threads : promise[t] = "none"
  /\ stop' = TRUE
  /\ UNCHANGED <<proc, queueVars, writerVars, fileVars, promise, drainVars>>

\* What a running process keeps in memory is gone.
LoseMemory ==
  /\ queue' = Nothing /\ drained' = Nothing
  /\ wpc' = "exit" /\ ok' = TRUE
  /\ fatal' = FALSE /\ stop' = TRUE
  /\ promise' = [t \in Threads |-> "none"]
  /\ tpc' = "idle" /\ flushing' = FALSE

\* The destructor joins the writer and closes the file.
Close ==
  /\ proc = "up" /\ stop /\ wpc = "exit"
  /\ proc' = "down"
  /\ LoseMemory
  /\ UNCHANGED <<nextSeq, file, disk, fd>>

\* The page cache survives a process crash; a write under way may be cut.
ProcessCrash ==
  /\ proc = "up"
  /\ proc' = "down"
  /\ file' \in {file} \union
       (IF wpc = "write" /\ fd THEN CutWrites(file, drained.bytes) ELSE {})
  /\ LoseMemory
  /\ UNCHANGED <<nextSeq, disk, fd>>

\* A power loss leaves the forced content, or any longer part of the file.
\* A truncation that was never forced may be undone.
IsPrefixOf(s, t) == Len(s) <= Len(t) /\ \A i \in 1..Len(s) : s[i] = t[i]

KeptLengths == {n \in 0..Len(file) : IsPrefixOf(disk, file) => Len(disk) <= n}
AfterPowerLoss == {disk} \union {SubSeq(file, 1, n) : n \in KeptLengths}

\* The record after the last whole one may be there in part.
TornByPowerLoss == {Append(SubSeq(file, 1, n), Torn) : n \in KeptLengths \ {Len(file)}}

PowerLoss ==
  /\ proc = "up"
  /\ proc' = "down"
  /\ file' \in AfterPowerLoss \union (IF Tearing THEN TornByPowerLoss ELSE {})
  /\ disk' = file'
  /\ LoseMemory
  /\ UNCHANGED <<nextSeq, fd>>

\* Initialize: open, magic, sequence number, writer thread.
Initialize ==
  /\ proc = "down"
  /\ proc' = "up"
  /\ stop' = FALSE
  /\ wpc' = "wait"
  /\ fd' = TRUE
  /\ file' \in WriteMagicIfEmpty(file)
  /\ nextSeq' \in RecoverSequenceNumber(file')
  /\ UNCHANGED <<queue, drained, ok, fatal, disk, promise, drainVars>>
=============================================================================
