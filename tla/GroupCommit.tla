---------------------------- MODULE GroupCommit ----------------------------
(***************************************************************************)
(* The write-ahead log under arbitrary clients: the contract the storage    *)
(* engine relies on when it acknowledges a commit.  Every record carries    *)
(* the number of its batch, so that what was promised to whom can be told   *)
(* apart from what is on disk.                                              *)
(***************************************************************************)
EXTENDS WAL, Functions

CONSTANTS
  CrashKinds,    \* subset of {"process", "power"}
  BatchSizes,    \* numbers of records in a batch
  MaxBatches,    \* bound on the batches submitted
  MaxTruncates,  \* bound on the truncations
  MaxCrashes     \* bound on crashes and clean restarts

ASSUME GroupCommitConstants ==
  /\ CrashKinds \subseteq {"process", "power"}
  \* "fsync ... survives power loss": the weaker modes do not promise it.
  /\ "power" \in CrashKinds => SyncMode = "fsync"
  /\ BatchSizes \subseteq Nat \ {0}
  /\ MaxBatches \in Nat /\ MaxTruncates \in Nat /\ MaxCrashes \in Nat

VARIABLES
  batches,       \* the records of every batch submitted so far, in order
  inFlight,      \* the records each client waits for
  acked,         \* records of batches whose future returned true
  covered,       \* records the caller's snapshot covers: they were truncated
  truncates,
  crashes

history == <<batches, inFlight, acked, covered, truncates, crashes>>
vars == <<walVars, history>>

Init ==
  /\ WALInit
  /\ batches = <<>>
  /\ inFlight = [c \in Clients |-> {}]
  /\ acked = {} /\ covered = {}
  /\ truncates = 0 /\ crashes = 0

\* A committer holds tables_mutex_ exclusively while it appends, a checkpoint
\* holds it shared from its snapshot to the end of Truncate.
Submit(c) ==
  /\ tpc = "idle" \/ flushing
  /\ Len(batches) < MaxBatches
  /\ \E n \in BatchSizes :
       LET ds == [i \in 1..n |-> Len(batches) + 1] IN
       /\ AppendBatchAsync(c, ds)
       /\ inFlight' = [inFlight EXCEPT ![c] = Range(Numbered(ds))]
       /\ batches' = Append(batches, Range(Numbered(ds)))
  /\ UNCHANGED <<acked, covered, truncates, crashes>>

Acknowledge(c) ==
  /\ Get(c, "ok")
  /\ acked' = acked \union inFlight[c]
  /\ inFlight' = [inFlight EXCEPT ![c] = {}]
  /\ UNCHANGED <<batches, covered, truncates, crashes>>

Refuse(c) ==
  /\ Get(c, "failed")
  /\ inFlight' = [inFlight EXCEPT ![c] = {}]
  /\ UNCHANGED <<batches, acked, covered, truncates, crashes>>

\* The caller has a snapshot of everything it ever appended.
Truncate ==
  /\ truncates < MaxTruncates
  /\ TruncateBegin(nextSeq - 1)
  /\ covered' = covered \union Range(file) \union Range(drained.bytes)
                        \union Range(queue.bytes)
  /\ truncates' = truncates + 1
  /\ UNCHANGED <<batches, inFlight, acked, crashes>>

Flush ==
  /\ truncates < MaxTruncates
  /\ FlushBegin
  /\ truncates' = truncates + 1
  /\ UNCHANGED <<batches, inFlight, acked, covered, crashes>>

Background ==
  /\ Writer \/ Drain \/ StopWriter \/ Initialize
  /\ UNCHANGED history

Down ==
  /\ crashes < MaxCrashes
  /\ crashes' = crashes + 1
  /\ \/ Close
     \/ "process" \in CrashKinds /\ ProcessCrash
     \/ "power" \in CrashKinds /\ PowerLoss
  /\ inFlight' = [c \in Clients |-> {}]
  /\ UNCHANGED <<batches, acked, covered, truncates>>

Next ==
  \/ \E c \in Clients : Submit(c) \/ Acknowledge(c) \/ Refuse(c)
  \/ Truncate
  \/ Flush
  \/ Background
  \/ Down

\* The writer thread and the thread inside Drain keep running.
Fairness ==
  /\ WF_vars(Writer /\ UNCHANGED history)
  /\ WF_vars(Drain /\ UNCHANGED history)

Spec == Init /\ [][Next]_vars /\ Fairness

-----------------------------------------------------------------------------
(***************************************************************************)
(* Properties.                                                              *)
(***************************************************************************)

Records == [seq : Nat, data : Nat \union {NoData}]
Batches == [bytes : Seq(Records), done : SUBSET Threads]

FlagTypes ==
  /\ ok \in BOOLEAN /\ fatal \in BOOLEAN /\ stop \in BOOLEAN
  /\ fd \in BOOLEAN /\ flushing \in BOOLEAN

ControlTypes ==
  /\ proc \in {"up", "down"}
  /\ wpc \in {"wait", "write", "sync", "ack", "fatal", "exit"}
  /\ tpc \in {"idle", "drain", "wait", "reset"}
  /\ nextSeq \in Nat \ {0} /\ truncates \in Nat /\ crashes \in Nat

DataTypes ==
  /\ queue \in Batches /\ drained \in Batches
  /\ file \in Seq(Records) /\ disk \in Seq(Records)
  /\ batches \in Seq(SUBSET Records)

ClientTypes ==
  /\ promise \in [Threads -> {"none", "pending", "ok", "failed"}]
  /\ inFlight \in [Clients -> SUBSET Records]
  /\ acked \subseteq Records /\ covered \subseteq Records

\* Every variable has its type.
TypeOK == FlagTypes /\ ControlTypes /\ DataTypes /\ ClientTypes

\* "file order == sequence order regardless of how many committers race"
\* (AppendBatchAsync): the records recovery reads are in strictly increasing
\* sequence order, across group commits, failed writes, truncations, crashes
\* and the renumbering of a restart, and the numbers still to be given out are
\* larger.
SequenceOrder ==
  /\ \A i, j \in Readable(file) : i < j => file[i].seq < file[j].seq
  /\ proc = "up" => \A i \in Readable(file) : file[i].seq < nextSeq

\* A batch whose future returned true is in wal.log, whatever crashes, failed
\* calls and truncations followed, unless a truncation let the snapshot cover it.
AckedOnDisk == acked \subseteq Range(file) \union covered

\* The same, but recovery must also be able to read it.
AckedReadable == acked \subseteq Range(ReadAll(file)) \union covered

-----------------------------------------------------------------------------
(***************************************************************************)
(* The inductive invariant behind AckedOnDisk and SequenceOrder.            *)
(***************************************************************************)

\* From the start of Truncate to the reset, the snapshot covers what is, or
\* will be, in the log.
Truncating == tpc # "idle" /\ ~flushing

\* What is sure to be on the drive.  A truncation is not forced: until the next
\* sync the drive may still hold the old log, and a power loss choose the new.
OnDrive(f, d) == {r \in Range(d) : IsPrefixOf(d, f)}

\* Where an acknowledged record must be found in a log file f with forced content
\* d: in the file, on the drive when acknowledgement means fdatasync, or covered.
Kept(S, f, d, cov) ==
  /\ S \subseteq Range(f) \union cov
  /\ SyncMode = "fsync" => S \subseteq OnDrive(f, d) \union cov

\* Where the records of a client are, from Submit to Acknowledge.
Tracked ==
  \A c \in Clients :
    /\ c \in queue.done => /\ promise[c] = "pending"
                           /\ c \notin drained.done
                           /\ inFlight[c] \subseteq Range(queue.bytes)
    /\ c \in drained.done => /\ promise[c] = "pending"
                             /\ inFlight[c] \subseteq Range(drained.bytes)
    /\ promise[c] = "ok" => Kept(inFlight[c], file, disk, covered)
    /\ promise[c] = "ok" /\ Truncating => inFlight[c] \subseteq covered

\* What the writer has in hand is in the file once it has been written.
WriterKept ==
  /\ wpc = "sync" => Range(drained.bytes) \subseteq Range(file) \union covered
  /\ wpc = "ack" /\ ok => Kept(Range(drained.bytes), file, disk, covered)

TruncationCovered ==
  /\ Truncating => /\ acked \subseteq covered
                   /\ Range(drained.bytes) \subseteq covered
                   /\ Range(queue.bytes) \subseteq covered
  /\ tpc = "reset" => ~flushing

AckInv == Tracked /\ WriterKept /\ TruncationCovered /\ Kept(acked, file, disk, covered)

Ordered(f) == \A i, j \in Readable(f) : i < j => f[i].seq < f[j].seq
Increasing(b) == \A i, j \in DOMAIN b : i < j => b[i].seq < b[j].seq

\* Every sequence number of `a` is smaller than every one of `b`.
FileBefore(f, b) == \A i \in Readable(f), j \in DOMAIN b : f[i].seq < b[j].seq
BytesBefore(a, b) == \A i \in DOMAIN a, j \in DOMAIN b : a[i].seq < b[j].seq

\* Every sequence number of b is one that next_sequence_ has passed.
Below(b, n) == \A i \in DOMAIN b : b[i].seq < n

FileOrder ==
  /\ Ordered(file) /\ Ordered(disk)
  /\ proc = "up" => \A i \in Readable(file) : file[i].seq < nextSeq

QueueOrder ==
  /\ Increasing(queue.bytes) /\ Below(queue.bytes, nextSeq)
  /\ FileBefore(file, queue.bytes)
  /\ proc = "down" => queue = Nothing

DrainedOrder ==
  wpc = "write" =>
    /\ Increasing(drained.bytes) /\ Below(drained.bytes, nextSeq)
    /\ FileBefore(file, drained.bytes)
    /\ BytesBefore(drained.bytes, queue.bytes)

\* Sequence numbers grow from the file through the drained bytes to the queue.
OrderInv == FileOrder /\ QueueOrder /\ DrainedOrder

-----------------------------------------------------------------------------
(***************************************************************************)
(* Liveness.                                                                *)
(***************************************************************************)

\* Every thread that waits for a future gets its answer, unless the process
\* dies first, and Truncate and Flush return.
PromisesKept ==
  /\ \A t \in Threads :
       promise[t] = "pending" ~> promise[t] # "pending" \/ proc = "down"
  /\ tpc # "idle" ~> tpc = "idle"
=============================================================================
