------------------------- MODULE GroupCommitProofs -------------------------
(***************************************************************************)
(* Proofs about the write-ahead log: for any number of committers, batches, *)
(* failures, truncations and crashes, an acknowledged batch is in the log   *)
(* file or covered by a snapshot, and the log is in sequence order.         *)
(***************************************************************************)
EXTENDS GroupCommit, FiniteSetTheorems, SequenceTheorems, TLAPS

\* The assumptions on the constants, and that Torn is a record.
LEMMA TornIsRecord == Torn \in Records /\ Torn.seq = 0
  BY DEF Torn, Records

\* The records of a batch are numbered consecutively from next_sequence_.
LEMMA NumberedFacts ==
  ASSUME NEW n \in Nat, NEW b \in Nat, nextSeq \in Nat \ {0}
  PROVE  LET s == Numbered([i \in 1..n |-> b]) IN
         /\ s \in Seq(Records) /\ Len(s) = n
         /\ \A i \in 1..n : s[i].seq = nextSeq + i - 1
  <1> DEFINE ds == [i \in 1..n |-> b]
  <1>1. ds \in Seq(Nat) /\ Len(ds) = n
    BY IsASeq
  <1>2. \A i \in 1..n : [seq |-> nextSeq + i - 1, data |-> ds[i]] \in Records
    BY DEF Records
  <1>3. Numbered(ds) = [i \in 1..n |-> [seq |-> nextSeq + i - 1, data |-> ds[i]]]
    BY <1>1 DEF Numbered
  <1>4. Numbered(ds) \in Seq(Records)
    <2>1. \A i \in 1..n : Numbered(ds)[i] \in Records
      BY <1>2, <1>3
    <2> QED  BY <1>3, <2>1, IsASeq
  <1> QED  BY <1>3, <1>4

\* A write cut short leaves the old content, some records of the new bytes,
\* and perhaps the torn remains of one.
LEMMA CutWriteFacts ==
  ASSUME NEW f \in Seq(Records), NEW b \in Seq(Records), NEW g \in CutWrites(f, b)
  PROVE  /\ g \in Seq(Records)
         /\ Len(g) >= Len(f)
         /\ \A i \in 1..Len(f) : g[i] = f[i]
         /\ \A i \in (Len(f) + 1)..Len(g) :
              g[i] = Torn \/ (i - Len(f) \in 1..Len(b) /\ g[i] = b[i - Len(f)])
  <1>1. PICK n \in 0..(Len(b) - 1) :
          \/ g = f \o SubSeq(b, 1, n)
          \/ g = Append(f \o SubSeq(b, 1, n), Torn)
    BY DEF CutWrites
  <1> DEFINE p == SubSeq(b, 1, n)
             h == f \o p
  <1>2. p \in Seq(Records) /\ Len(p) = n /\ \A i \in 1..n : p[i] = b[i]
    BY SubSeqProperties
  <1>3. /\ h \in Seq(Records) /\ Len(h) = Len(f) + n
        /\ \A i \in 1..Len(f) : h[i] = f[i]
        /\ \A i \in (Len(f) + 1)..Len(h) : i - Len(f) \in 1..n /\ h[i] = b[i - Len(f)]
    BY <1>2
  <1>4. CASE g = h
    BY <1>3, <1>4
  <1>5. CASE g = Append(h, Torn)
    <2>1. /\ g \in Seq(Records) /\ Len(g) = Len(h) + 1 /\ g[Len(g)] = Torn
          /\ \A i \in 1..Len(h) : g[i] = h[i]
      BY <1>3, <1>5, TornIsRecord
    <2>2. ASSUME NEW i \in (Len(f) + 1)..Len(g)
          PROVE  g[i] = Torn \/ (i - Len(f) \in 1..Len(b) /\ g[i] = b[i - Len(f)])
      <3>1. CASE i = Len(g)
        BY <2>1, <3>1
      <3>2. CASE i # Len(g)
        <4>1. i \in (Len(f) + 1)..Len(h)
          BY <1>3, <2>1, <3>2
        <4> QED  BY <1>3, <2>1, <4>1
      <3> QED  BY <3>1, <3>2
    <2>3. g \in Seq(Records) /\ Len(g) >= Len(f)
      BY <1>3, <2>1
    <2>4. \A i \in 1..Len(f) : g[i] = f[i]
      BY <1>3, <2>1
    <2> QED  BY <2>2, <2>3, <2>4
  <1> QED  BY <1>1, <1>4, <1>5

-----------------------------------------------------------------------------
(***************************************************************************)
(* Types.                                                                   *)
(***************************************************************************)

\* A range of records is a set of records.
LEMMA RangeIsRecords ==
  ASSUME NEW s \in Seq(Records)
  PROVE  Range(s) \subseteq Records
  BY DEF Range

\* The sequence number of a record is a number.
LEMMA RecordsHaveNumbers ==
  ASSUME NEW s \in Seq(Records)
  PROVE  \A i \in DOMAIN s : s[i].seq \in Nat
  <1>1. \A i \in DOMAIN s : s[i] \in Records
    OBVIOUS
  <1> QED  BY <1>1 DEF Records

\* What a power loss leaves is a sequence of records.
LEMMA PowerLossType ==
  ASSUME file \in Seq(Records), disk \in Seq(Records), PowerLoss
  PROVE  file' \in Seq(Records)
  <1>1. \A n \in 0..Len(file) : SubSeq(file, 1, n) \in Seq(Records)
    BY SubSeqProperties
  <1>2. AfterPowerLoss \subseteq Seq(Records)
    BY <1>1 DEF AfterPowerLoss, KeptLengths
  <1>3. \A f \in AfterPowerLoss : Append(f, Torn) \in Seq(Records)
    BY <1>2, TornIsRecord
  <1> QED  BY <1>2, <1>3 DEF PowerLoss, TornByPowerLoss, AfterPowerLoss

LEMMA NothingIsBatch == Nothing \in Batches
  BY DEF Nothing, Batches

\* What a Submit does, with the new records as a sequence s.
LEMMA SubmitFacts ==
  ASSUME TypeOK, NEW c \in Clients, Submit(c)
  PROVE  \E s \in Seq(Records) :
           /\ \A i \in 1..Len(s) : s[i].seq = nextSeq + i - 1
           /\ inFlight' = [inFlight EXCEPT ![c] = Range(s)]
           /\ batches' = Append(batches, Range(s))
           /\ tpc = "idle" \/ flushing
           /\ promise[c] = "none"
           /\ \/ /\ promise' = [promise EXCEPT ![c] = "failed"]
                 /\ UNCHANGED queueVars
              \/ /\ queue' = [bytes |-> queue.bytes \o s,
                              done  |-> queue.done \union {c}]
                 /\ nextSeq' = nextSeq + Len(s)
                 /\ promise' = [promise EXCEPT ![c] = "pending"]
           /\ UNCHANGED <<acked, covered, truncates, crashes, proc, writerVars, stop,
                          fileVars, drainVars>>
  <1>1. PICK n \in BatchSizes :
          LET ds == [i \in 1..n |-> Len(batches) + 1] IN
          /\ AppendBatchAsync(c, ds)
          /\ inFlight' = [inFlight EXCEPT ![c] = Range(Numbered(ds))]
          /\ batches' = Append(batches, Range(Numbered(ds)))
    BY DEF Submit
  <1> DEFINE ds == [i \in 1..n |-> Len(batches) + 1]
             s == Numbered(ds)
  <1>2. n \in Nat /\ Len(batches) + 1 \in Nat /\ nextSeq \in Nat \ {0}
    BY GroupCommitConstants DEF TypeOK, ControlTypes, DataTypes
  <1>3. /\ s \in Seq(Records) /\ Len(s) = n
        /\ \A i \in 1..Len(s) : s[i].seq = nextSeq + i - 1
    BY <1>2, NumberedFacts
  <1>4. Len(ds) = n
    BY <1>2, IsASeq
  <1>5. AppendBatchAsync(c, ds)
    BY <1>1
  <1>6. inFlight' = [inFlight EXCEPT ![c] = Range(s)] /\ batches' = Append(batches, Range(s))
    BY <1>1
  <1> HIDE DEF ds
  <1>7. /\ promise[c] = "none"
        /\ \/ /\ promise' = [promise EXCEPT ![c] = "failed"]
              /\ UNCHANGED queueVars
           \/ /\ queue' = [bytes |-> queue.bytes \o s, done |-> queue.done \union {c}]
              /\ nextSeq' = nextSeq + Len(s)
              /\ promise' = [promise EXCEPT ![c] = "pending"]
        /\ UNCHANGED <<proc, writerVars, stop, fileVars, drainVars>>
    BY <1>3, <1>4, <1>5 DEF AppendBatchAsync
  <1>8. (tpc = "idle" \/ flushing) /\ UNCHANGED <<acked, covered, truncates, crashes>>
    BY DEF Submit
  <1> HIDE DEF s
  <1> QED  BY <1>3, <1>6, <1>7, <1>8

\* The type invariant of the log holds in every state (no call leaves a variable
\* outside its type), for all values of the constants.
THEOREM TypeCorrect == Spec => []TypeOK
  <1>1. Init => TypeOK
    <2> SUFFICES ASSUME Init PROVE TypeOK
      OBVIOUS
    <2>1. FlagTypes
      BY DEF Init, WALInit, FlagTypes
    <2>2. ControlTypes
      BY DEF Init, WALInit, ControlTypes
    <2>3. DataTypes
      BY NothingIsBatch DEF Init, WALInit, DataTypes
    <2>4. ClientTypes
      BY DEF Init, WALInit, ClientTypes
    <2> QED  BY <2>1, <2>2, <2>3, <2>4 DEF TypeOK
  <1>2. TypeOK /\ [Next]_vars => TypeOK'
    <2> SUFFICES ASSUME TypeOK, [Next]_vars PROVE TypeOK'
      OBVIOUS
    <2>0. FlagTypes /\ ControlTypes /\ DataTypes /\ ClientTypes
      BY DEF TypeOK
    <2> USE DEF writerVars, queueVars, fileVars, drainVars, history
    <2>1. ASSUME NEW c \in Clients, Submit(c) PROVE TypeOK'
      <3>1. PICK s \in Seq(Records) :
              /\ batches' = Append(batches, Range(s))
              /\ inFlight' = [inFlight EXCEPT ![c] = Range(s)]
              /\ \/ /\ promise' = [promise EXCEPT ![c] = "failed"]
                    /\ UNCHANGED queueVars
                 \/ /\ queue' = [bytes |-> queue.bytes \o s,
                                 done  |-> queue.done \union {c}]
                    /\ nextSeq' = nextSeq + Len(s)
                    /\ promise' = [promise EXCEPT ![c] = "pending"]
              /\ UNCHANGED <<acked, covered, truncates, crashes, proc, writerVars, stop,
                             fileVars, drainVars>>
        BY <2>1, SubmitFacts
      <3>2. Range(s) \subseteq Records
        BY RangeIsRecords
      <3>3. FlagTypes'
        BY <2>0, <3>1 DEF FlagTypes
      <3>4. ControlTypes'
        BY <2>0, <3>1 DEF ControlTypes
      <3>5. DataTypes'
        <4>1. queue' \in Batches
          <5>1. queue.bytes \in Seq(Records) /\ queue.done \subseteq Threads
            BY <2>0 DEF DataTypes, Batches
          <5>2. queue.bytes \o s \in Seq(Records)
            BY <5>1
          <5>3. queue.done \union {c} \subseteq Threads
            BY <5>1 DEF Threads
          <5>4. [bytes |-> queue.bytes \o s, done |-> queue.done \union {c}] \in Batches
            BY <5>2, <5>3 DEF Batches
          <5> QED  BY <2>0, <3>1, <5>4 DEF DataTypes
        <4>2. batches' \in Seq(SUBSET Records)
          BY <2>0, <3>1, <3>2 DEF DataTypes
        <4> QED  BY <2>0, <3>1, <4>1, <4>2 DEF DataTypes
      <3>6. ClientTypes'
        BY <2>0, <3>1, <3>2 DEF ClientTypes
      <3> QED  BY <3>3, <3>4, <3>5, <3>6 DEF TypeOK
    <2>2. ASSUME NEW c \in Clients, Acknowledge(c) PROVE TypeOK'
      <3>1. FlagTypes' /\ ControlTypes' /\ DataTypes'
        BY <2>0, <2>2 DEF Acknowledge, Get, FlagTypes, ControlTypes, DataTypes
      <3>2. ClientTypes'
        BY <2>0, <2>2 DEF Acknowledge, Get, ClientTypes
      <3> QED  BY <3>1, <3>2 DEF TypeOK
    <2>3. ASSUME NEW c \in Clients, Refuse(c) PROVE TypeOK'
      <3>1. FlagTypes' /\ ControlTypes' /\ DataTypes'
        BY <2>0, <2>3 DEF Refuse, Get, FlagTypes, ControlTypes, DataTypes
      <3>2. ClientTypes'
        BY <2>0, <2>3 DEF Refuse, Get, ClientTypes
      <3> QED  BY <3>1, <3>2 DEF TypeOK
    <2>4. CASE Truncate
      <3>1. FlagTypes'
        BY <2>0, <2>4 DEF Truncate, TruncateBegin, FlagTypes
      <3>2. ControlTypes' /\ DataTypes'
        BY <2>0, <2>4 DEF Truncate, TruncateBegin, ControlTypes, DataTypes
      <3>3. covered' \subseteq Records
        BY <2>0, <2>4, RangeIsRecords DEF Truncate, DataTypes, ClientTypes, Batches
      <3>4. ClientTypes'
        BY <2>0, <2>4, <3>3 DEF Truncate, TruncateBegin, ClientTypes
      <3> QED  BY <3>1, <3>2, <3>4 DEF TypeOK
    <2>5. CASE Flush
      <3>1. FlagTypes'
        BY <2>0, <2>5 DEF Flush, FlushBegin, FlagTypes
      <3>2. ControlTypes' /\ DataTypes' /\ ClientTypes'
        BY <2>0, <2>5 DEF Flush, FlushBegin, ControlTypes, DataTypes, ClientTypes
      <3> QED  BY <3>1, <3>2 DEF TypeOK
    <2>6. CASE Writer /\ UNCHANGED history
      <3>1. FlagTypes'
        BY <2>0, <2>6 DEF Writer, WriterDrain, WriterWrite, WriterSync, WriterAck,
                          WriterSetFatal, WriterExit, FlagTypes
      <3>2. ControlTypes'
        BY <2>0, <2>6 DEF Writer, WriterDrain, WriterWrite, WriterSync, WriterAck,
                          WriterSetFatal, WriterExit, ControlTypes
      <3>3. file' \in Seq(Records)
        <4>1. CASE WriterWrite
          <5>1. drained.bytes \in Seq(Records)
            BY <2>0 DEF DataTypes, Batches
          <5>2. file \o drained.bytes \in Seq(Records)
            BY <2>0, <5>1 DEF DataTypes
          <5>3. \A g \in CutWrites(file, drained.bytes) : g \in Seq(Records)
            BY <2>0, <5>1, CutWriteFacts DEF DataTypes
          <5> QED  BY <2>0, <4>1, <5>2, <5>3 DEF WriterWrite, DataTypes
        <4>2. CASE UNCHANGED file
          BY <2>0, <4>2 DEF DataTypes
        <4> QED  BY <2>6, <4>1, <4>2 DEF Writer, WriterDrain, WriterSync, WriterAck,
                                       WriterSetFatal, WriterExit
      <3>4. DataTypes'
        BY <2>0, <2>6, <3>3, NothingIsBatch
           DEF Writer, WriterDrain, WriterWrite, WriterSync, WriterAck, WriterSetFatal,
               WriterExit, DataTypes
      <3>5. ClientTypes'
        BY <2>0, <2>6 DEF Writer, WriterDrain, WriterWrite, WriterSync, WriterAck,
                          WriterSetFatal, WriterExit, ClientTypes
      <3> QED  BY <3>1, <3>2, <3>4, <3>5 DEF TypeOK
    <2>7. CASE Drain /\ UNCHANGED history
      <3>1. FlagTypes'
        BY <2>0, <2>7 DEF Drain, DrainEnqueue, DrainWait, TruncateReset, FlagTypes
      <3>2. ControlTypes'
        BY <2>0, <2>7 DEF Drain, DrainEnqueue, DrainWait, TruncateReset, DrainEnd,
                          ControlTypes
      <3>3. queue' \in Batches
        BY <2>0, <2>7 DEF Drain, DrainEnqueue, DrainWait, TruncateReset, DataTypes,
                          Batches, Threads
      <3>4. file' \in Seq(Records)
        <4>1. <<>> \in Seq(Records) /\ <<Torn>> \in Seq(Records)
          BY TornIsRecord
        <4> QED  BY <2>0, <2>7, <4>1 DEF Drain, DrainEnqueue, DrainWait, TruncateReset,
                                         WriteMagicIfEmpty, DataTypes
      <3>5. DataTypes'
        BY <2>0, <2>7, <3>3, <3>4 DEF Drain, DrainEnqueue, DrainWait, TruncateReset,
                                      DataTypes
      <3>6. ClientTypes'
        BY <2>0, <2>7 DEF Drain, DrainEnqueue, DrainWait, TruncateReset, ClientTypes
      <3> QED  BY <3>1, <3>2, <3>5, <3>6 DEF TypeOK
    <2>8. CASE StopWriter /\ UNCHANGED history
      <3>1. FlagTypes'
        BY <2>0, <2>8 DEF StopWriter, FlagTypes
      <3>2. ControlTypes' /\ DataTypes' /\ ClientTypes'
        BY <2>0, <2>8 DEF StopWriter, ControlTypes, DataTypes, ClientTypes
      <3> QED  BY <3>1, <3>2 DEF TypeOK
    <2>9. CASE Initialize /\ UNCHANGED history
      <3>1. FlagTypes'
        BY <2>0, <2>9 DEF Initialize, FlagTypes
      <3>2. file' \in Seq(Records)
        <4>1. <<Torn>> \in Seq(Records)
          BY TornIsRecord
        <4> QED  BY <2>0, <2>9, <4>1 DEF Initialize, WriteMagicIfEmpty, DataTypes
      <3>3. nextSeq' \in Nat \ {0}
        <4>1. \A i \in DOMAIN file' : file'[i].seq \in Nat
          BY <3>2, RecordsHaveNumbers
        <4>2. nextSeq' \in RecoverSequenceNumber(file')
          BY <2>9 DEF Initialize
        <4> QED  BY <4>1, <4>2 DEF RecoverSequenceNumber, Readable
      <3>4. ControlTypes' /\ DataTypes' /\ ClientTypes'
        BY <2>0, <2>9, <3>2, <3>3 DEF Initialize, ControlTypes, DataTypes, ClientTypes
      <3> QED  BY <3>1, <3>4 DEF TypeOK
    <2>10. CASE Down
      <3>1. LoseMemory /\ proc' = "down" /\ UNCHANGED <<nextSeq, fd>>
        BY <2>10 DEF Down, Close, ProcessCrash, PowerLoss
      <3>2. file' \in Seq(Records) /\ disk' \in Seq(Records)
        <4>1. CASE Close
          BY <2>0, <4>1 DEF Close, DataTypes
        <4>2. CASE ProcessCrash
          <5>1. drained.bytes \in Seq(Records)
            BY <2>0 DEF DataTypes, Batches
          <5> QED  BY <2>0, <4>2, <5>1, CutWriteFacts DEF ProcessCrash, DataTypes
        <4>3. CASE PowerLoss
          <5>1. file' \in Seq(Records)
            BY <2>0, <4>3, PowerLossType DEF DataTypes
          <5> QED  BY <4>3, <5>1 DEF PowerLoss
        <4> QED  BY <2>10, <4>1, <4>2, <4>3 DEF Down
      <3>3. FlagTypes'
        BY <2>0, <3>1 DEF LoseMemory, FlagTypes
      <3>4. ControlTypes'
        BY <2>0, <2>10, <3>1 DEF LoseMemory, Down, ControlTypes
      <3>5. DataTypes'
        BY <2>0, <2>10, <3>1, <3>2, NothingIsBatch DEF LoseMemory, Down, DataTypes
      <3>6. ClientTypes'
        BY <2>0, <2>10, <3>1 DEF LoseMemory, Down, ClientTypes
      <3> QED  BY <3>3, <3>4, <3>5, <3>6 DEF TypeOK
    <2>11. CASE UNCHANGED vars
      BY <2>0, <2>11 DEF vars, walVars, TypeOK, FlagTypes, ControlTypes, DataTypes,
                         ClientTypes
    <2> QED  BY <2>1, <2>2, <2>3, <2>4, <2>5, <2>6, <2>7, <2>8, <2>9, <2>10, <2>11
             DEF Next, Background
  <1> QED  BY <1>1, <1>2, PTL DEF Spec

-----------------------------------------------------------------------------
(***************************************************************************)
(* Acknowledged batches.                                                    *)
(***************************************************************************)

LEMMA PrefixRange ==
  ASSUME NEW f \in Seq(Records), NEW g \in Seq(Records), IsPrefixOf(f, g)
  PROVE  Range(f) \subseteq Range(g)
  <1> SUFFICES ASSUME NEW i \in DOMAIN f PROVE f[i] \in Range(g)
    BY DEF Range
  <1>1. i \in DOMAIN g /\ f[i] = g[i]
    BY DEF IsPrefixOf
  <1> QED  BY <1>1 DEF Range

LEMMA PrefixTransitive ==
  ASSUME NEW f \in Seq(Records), NEW g \in Seq(Records), NEW h \in Seq(Records),
         IsPrefixOf(f, g), IsPrefixOf(g, h)
  PROVE  IsPrefixOf(f, h)
  BY DEF IsPrefixOf

LEMMA ConcatFacts ==
  ASSUME NEW f \in Seq(Records), NEW b \in Seq(Records)
  PROVE  /\ f \o b \in Seq(Records)
         /\ IsPrefixOf(f, f \o b)
         /\ Range(f \o b) = Range(f) \union Range(b)
  <1>1. f \o b \in Seq(Records) /\ IsPrefixOf(f, f \o b)
    BY DEF IsPrefixOf
  <1>2. Range(b) \subseteq Range(f \o b)
    <2> SUFFICES ASSUME NEW i \in DOMAIN b PROVE b[i] \in Range(f \o b)
      BY DEF Range
    <2>1. Len(f) + i \in DOMAIN (f \o b) /\ (f \o b)[Len(f) + i] = b[i]
      OBVIOUS
    <2> QED  BY <2>1 DEF Range
  <1>3. Range(f \o b) \subseteq Range(f) \union Range(b)
    <2> SUFFICES ASSUME NEW i \in DOMAIN (f \o b)
                 PROVE  (f \o b)[i] \in Range(f) \union Range(b)
      BY DEF Range
    <2>1. CASE i \in DOMAIN f
      BY <2>1 DEF Range
    <2>2. CASE i \notin DOMAIN f
      <3>1. i - Len(f) \in DOMAIN b /\ (f \o b)[i] = b[i - Len(f)]
        BY <2>2
      <3> QED  BY <3>1 DEF Range
    <2> QED  BY <2>1, <2>2
  <1>4. Range(f) \subseteq Range(f \o b)
    BY <1>1, PrefixRange
  <1> QED  BY <1>1, <1>2, <1>3, <1>4

LEMMA CutIsExtension ==
  ASSUME NEW f \in Seq(Records), NEW b \in Seq(Records), NEW g \in CutWrites(f, b)
  PROVE  g \in Seq(Records) /\ IsPrefixOf(f, g)
  BY CutWriteFacts DEF IsPrefixOf

\* Records stay kept when the file grows.
LEMMA KeptByGrowth ==
  ASSUME NEW S, NEW cov, NEW f \in Seq(Records), NEW g \in Seq(Records),
         NEW d \in Seq(Records), IsPrefixOf(f, g), Kept(S, f, d, cov)
  PROVE  Kept(S, g, d, cov)
  <1>1. Range(f) \subseteq Range(g)
    BY PrefixRange
  <1>2. OnDrive(f, d) \subseteq OnDrive(g, d)
    BY PrefixTransitive DEF OnDrive
  <1> QED  BY <1>1, <1>2 DEF Kept

\* After a sync, what is in the file is on the drive.
LEMMA KeptBySync ==
  ASSUME NEW S, NEW cov, NEW f \in Seq(Records), S \subseteq Range(f) \union cov
  PROVE  Kept(S, f, f, cov)
  <1>1. IsPrefixOf(f, f)
    BY DEF IsPrefixOf
  <1> QED  BY <1>1 DEF Kept, OnDrive

LEMMA KeptByCover ==
  ASSUME NEW S, NEW cov, NEW f, NEW d, S \subseteq cov
  PROVE  Kept(S, f, d, cov)
  BY DEF Kept

LEMMA KeptMonotonic ==
  ASSUME NEW S, NEW T, NEW cov, NEW cov2, NEW f, NEW d,
         T \subseteq S, cov \subseteq cov2, Kept(S, f, d, cov)
  PROVE  Kept(T, f, d, cov2)
  BY DEF Kept

\* What was on the drive is in the file after a power loss.
LEMMA PowerLossKeeps ==
  ASSUME file \in Seq(Records), disk \in Seq(Records), PowerLoss
  PROVE  OnDrive(file, disk) \subseteq Range(file')
  <1> SUFFICES ASSUME IsPrefixOf(disk, file) PROVE Range(disk) \subseteq Range(file')
    BY DEF OnDrive
  <1>1. ASSUME NEW f \in AfterPowerLoss PROVE f \in Seq(Records) /\ IsPrefixOf(disk, f)
    <2>1. CASE f = disk
      BY <2>1 DEF IsPrefixOf
    <2>2. CASE f # disk
      <3>1. PICK n \in 0..Len(file) : Len(disk) <= n /\ f = SubSeq(file, 1, n)
        BY <1>1, <2>2 DEF AfterPowerLoss, KeptLengths
      <3>2. f \in Seq(Records) /\ Len(f) = n /\ \A i \in 1..n : f[i] = file[i]
        BY <3>1, SubSeqProperties
      <3> QED  BY <3>1, <3>2 DEF IsPrefixOf
    <2> QED  BY <2>1, <2>2
  <1>2. PICK f \in AfterPowerLoss : file' = f \/ file' = Append(f, Torn)
    BY DEF PowerLoss, TornByPowerLoss, AfterPowerLoss
  <1>3. Range(disk) \subseteq Range(f)
    BY <1>1, PrefixRange
  <1>4. CASE file' = f
    BY <1>3, <1>4
  <1>5. CASE file' = Append(f, Torn)
    <2>1. file' \in Seq(Records) /\ IsPrefixOf(f, file') /\ f \in Seq(Records)
      BY <1>1, <1>5, TornIsRecord DEF IsPrefixOf
    <2> QED  BY <1>3, <2>1, PrefixRange
  <1> QED  BY <1>2, <1>4, <1>5

\* A step that leaves the queue, the drained batch, the promises and the clients'
\* records alone, and starts no truncation, keeps the invariant when the file and
\* the drive keep what they held.
LEMMA FileStep ==
  ASSUME AckInv,
         \A S : Kept(S, file, disk, covered) => Kept(S, file', disk', covered),
         Truncating' => Truncating, tpc' = "reset" => ~flushing',
         WriterKept',
         UNCHANGED <<queue, drained, promise, inFlight, acked, covered>>
  PROVE  AckInv'
  <1>1. Tracked'
    BY DEF AckInv, Tracked
  <1>2. TruncationCovered'
    BY DEF AckInv, TruncationCovered
  <1>3. Kept(acked, file, disk, covered)'
    BY DEF AckInv
  <1> QED  BY <1>1, <1>2, <1>3 DEF AckInv

LEMMA AckInitially == Init => AckInv
  <1> SUFFICES ASSUME Init PROVE AckInv
    OBVIOUS
  <1>1. Tracked
    BY DEF Init, WALInit, Nothing, Tracked, Threads
  <1>2. WriterKept
    BY DEF Init, WALInit, WriterKept
  <1>3. TruncationCovered
    BY DEF Init, WALInit, TruncationCovered, Truncating
  <1>4. Kept(acked, file, disk, covered)
    BY DEF Init, Kept
  <1> QED  BY <1>1, <1>2, <1>3, <1>4 DEF AckInv

\* What clients do: Submit, Acknowledge and Refuse keep the invariant.
LEMMA AckClients ==
  ASSUME TypeOK, AckInv, NEW c \in Clients, Submit(c) \/ Acknowledge(c) \/ Refuse(c)
  PROVE  AckInv'
  <1> USE DEF writerVars, queueVars, fileVars, drainVars
  <1>0. /\ Tracked /\ WriterKept /\ TruncationCovered /\ Kept(acked, file, disk, covered)
        /\ ClientTypes
    BY DEF AckInv, TypeOK
  <1>1. CASE Submit(c)
    <2>1. PICK s \in Seq(Records) :
            /\ inFlight' = [inFlight EXCEPT ![c] = Range(s)]
            /\ tpc = "idle" \/ flushing
            /\ promise[c] = "none"
            /\ \/ /\ promise' = [promise EXCEPT ![c] = "failed"]
                  /\ UNCHANGED queueVars
               \/ /\ queue' = [bytes |-> queue.bytes \o s, done |-> queue.done \union {c}]
                  /\ promise' = [promise EXCEPT ![c] = "pending"]
            /\ UNCHANGED <<acked, covered, writerVars, fileVars, drainVars>>
      BY <1>1, SubmitFacts
    <2>2. c \notin queue.done /\ c \notin drained.done
      BY <1>0, <2>1 DEF Tracked
    <2>3. ~Truncating /\ ~Truncating'
      BY <2>1 DEF Truncating
    <2>4. queue.bytes \in Seq(Records)
      BY DEF TypeOK, DataTypes, Batches
    <2>5. /\ Range(queue.bytes) \subseteq Range(queue.bytes \o s)
          /\ Range(s) \subseteq Range(queue.bytes \o s)
      BY <2>4, ConcatFacts
    <2>6. ASSUME NEW d \in Clients, d # c
          PROVE  inFlight'[d] = inFlight[d] /\ promise'[d] = promise[d]
      BY <1>0, <2>1, <2>6 DEF ClientTypes, Threads
    <2>7. inFlight'[c] = Range(s) /\ promise'[c] # "ok"
      BY <1>0, <2>1 DEF ClientTypes, Threads
    <2>8. Tracked'
      <3>1. CASE UNCHANGED queue
        BY <1>0, <2>1, <2>2, <2>3, <2>6, <2>7, <3>1 DEF Tracked
      <3>2. CASE /\ queue' = [bytes |-> queue.bytes \o s, done |-> queue.done \union {c}]
                 /\ promise' = [promise EXCEPT ![c] = "pending"]
        <4>1. promise'[c] = "pending"
          BY <1>0, <3>2 DEF ClientTypes, Threads
        <4>2. queue'.bytes = queue.bytes \o s /\ queue'.done = queue.done \union {c}
          BY <3>2
        <4> QED  BY <1>0, <2>1, <2>2, <2>3, <2>5, <2>6, <2>7, <4>1, <4>2 DEF Tracked
      <3> QED  BY <2>1, <3>1, <3>2
    <2>9. WriterKept'
      BY <1>0, <2>1 DEF WriterKept
    <2>10. TruncationCovered'
      BY <1>0, <2>1, <2>3 DEF TruncationCovered
    <2> QED  BY <1>0, <2>1, <2>8, <2>9, <2>10 DEF AckInv
  <1>2. CASE Acknowledge(c) \/ Refuse(c)
    <2>1. /\ promise' = [promise EXCEPT ![c] = "none"]
          /\ inFlight' = [inFlight EXCEPT ![c] = {}]
          /\ promise[c] # "pending"
          /\ acked' = acked \/ (promise[c] = "ok" /\ acked' = acked \union inFlight[c])
          /\ UNCHANGED <<covered, queueVars, writerVars, fileVars, drainVars>>
      BY <1>2 DEF Acknowledge, Refuse, Get
    <2>2. promise'[c] = "none" /\ \A d \in Clients \ {c} :
            promise'[d] = promise[d] /\ inFlight'[d] = inFlight[d]
      BY <1>0, <2>1 DEF ClientTypes, Threads
    <2>3. Tracked'
      BY <1>0, <2>1, <2>2 DEF Tracked, Truncating
    <2>4. WriterKept'
      BY <1>0, <2>1 DEF WriterKept
    <2>5. TruncationCovered'
      BY <1>0, <2>1 DEF TruncationCovered, Tracked, Truncating
    <2>6. Kept(acked, file, disk, covered)'
      BY <1>0, <2>1 DEF Kept, Tracked
    <2> QED  BY <2>3, <2>4, <2>5, <2>6 DEF AckInv
  <1> QED  BY <1>1, <1>2

\* The start of Truncate (the snapshot covers the whole log) and of Flush.
LEMMA AckTruncate ==
  ASSUME TypeOK, AckInv, Truncate \/ Flush
  PROVE  AckInv'
  <1> USE DEF writerVars, queueVars, fileVars, drainVars
  <1>0. /\ Tracked /\ WriterKept /\ TruncationCovered /\ Kept(acked, file, disk, covered)
    BY DEF AckInv
  <1>1. /\ UNCHANGED <<queue, drained, wpc, ok, file, disk, promise, inFlight, acked>>
        /\ covered \subseteq covered' /\ tpc' = "drain"
        /\ \/ flushing'
           \/ /\ Range(file) \subseteq covered' /\ Range(drained.bytes) \subseteq covered'
              /\ Range(queue.bytes) \subseteq covered'
    BY DEF Truncate, TruncateBegin, Flush, FlushBegin
  <1>2. \A S : Kept(S, file, disk, covered) => Kept(S, file, disk, covered')
    BY <1>1 DEF Kept
  <1>3. \A S : Kept(S, file, disk, covered) /\ Truncating' => S \subseteq covered'
    BY <1>1 DEF Kept, Truncating
  <1>4. Tracked'
    BY <1>0, <1>1, <1>2, <1>3 DEF Tracked
  <1>5. WriterKept'
    BY <1>0, <1>1, <1>2 DEF WriterKept
  <1>6. TruncationCovered'
    BY <1>0, <1>1, <1>3 DEF TruncationCovered, Truncating
  <1>7. Kept(acked, file, disk, covered)'
    BY <1>0, <1>1, <1>2
  <1> QED  BY <1>4, <1>5, <1>6, <1>7 DEF AckInv

\* The writer thread: an "ok" promise is given only for records that are written
\* and, under fsync, forced.
LEMMA AckWriter ==
  ASSUME TypeOK, AckInv, Writer, UNCHANGED history
  PROVE  AckInv'
  <1> USE DEF writerVars, queueVars, fileVars, drainVars, history
  <1>0. /\ Tracked /\ WriterKept /\ TruncationCovered /\ Kept(acked, file, disk, covered)
        /\ file \in Seq(Records) /\ disk \in Seq(Records)
        /\ drained.bytes \in Seq(Records) /\ drained.done \subseteq Threads
    BY DEF AckInv, TypeOK, DataTypes, Batches
  <1>1. CASE WriterDrain
    <2>1. /\ drained' = queue /\ queue' = Nothing /\ wpc' = "write"
          /\ UNCHANGED <<file, disk, promise, inFlight, acked, covered, tpc, flushing>>
      BY <1>1 DEF WriterDrain
    <2>2. Tracked'
      BY <1>0, <2>1 DEF Tracked, Nothing, Truncating
    <2>3. WriterKept'
      BY <2>1 DEF WriterKept
    <2>4. Range(queue'.bytes) = {}
      BY <2>1 DEF Nothing, Range
    <2>5. TruncationCovered'
      BY <1>0, <2>1, <2>4 DEF TruncationCovered, Truncating
    <2> QED  BY <1>0, <2>1, <2>2, <2>3, <2>5 DEF AckInv
  <1>2. CASE WriterWrite
    <2>1. UNCHANGED <<queue, drained, promise, inFlight, acked, covered, disk, tpc, flushing>>
      BY <1>2 DEF WriterWrite
    <2>2. file' \in Seq(Records) /\ IsPrefixOf(file, file')
      <3>1. CASE UNCHANGED file
        BY <1>0, <3>1 DEF IsPrefixOf
      <3>2. CASE file' = file \o drained.bytes
        BY <1>0, <3>2, ConcatFacts
      <3>3. CASE file' \in CutWrites(file, drained.bytes)
        BY <1>0, <3>3, CutIsExtension
      <3> QED  BY <1>2, <3>1, <3>2, <3>3 DEF WriterWrite
    <2>3. \A S : Kept(S, file, disk, covered) => Kept(S, file', disk', covered)
      BY <1>0, <2>1, <2>2, KeptByGrowth
    <2>4. WriterKept'
      <3>1. CASE wpc' = "ack" /\ ok' = FALSE
        BY <3>1 DEF WriterKept
      <3>2. CASE file' = file \o drained.bytes /\ wpc' = (IF SyncMode = "fsync" THEN "sync" ELSE "ack")
        <4>1. Range(drained.bytes) \subseteq Range(file')
          BY <1>0, <3>2, ConcatFacts
        <4> QED  BY <2>1, <3>2, <4>1 DEF WriterKept, Kept
      <3> QED  BY <1>2, <3>1, <3>2 DEF WriterWrite
    <2>5. (Truncating' => Truncating) /\ (tpc' = "reset" => ~flushing')
      BY <1>0, <2>1 DEF Truncating, TruncationCovered
    <2> QED  BY <2>1, <2>3, <2>4, <2>5, FileStep
  <1>3. CASE WriterSync
    <2>1. UNCHANGED <<queue, drained, promise, inFlight, acked, covered, file, tpc, flushing>>
      BY <1>3 DEF WriterSync
    <2>2. \A S : Kept(S, file, disk, covered) => Kept(S, file', disk', covered)
      <3>1. CASE disk' = file
        <4>1. \A S : Kept(S, file, disk, covered) => S \subseteq Range(file) \union covered
          BY DEF Kept
        <4> QED  BY <1>0, <2>1, <3>1, <4>1, KeptBySync
      <3>2. CASE UNCHANGED disk
        BY <2>1, <3>2
      <3> QED  BY <1>3, <3>1, <3>2 DEF WriterSync
    <2>3. WriterKept'
      <3>1. CASE disk' = file
        <4>1. Range(drained.bytes) \subseteq Range(file) \union covered
          BY <1>0, <1>3 DEF WriterKept, WriterSync
        <4>2. Kept(Range(drained.bytes), file, file, covered)
          BY <1>0, <4>1, KeptBySync
        <4>3. wpc' = "ack"
          BY <1>3 DEF WriterSync
        <4> QED  BY <2>1, <3>1, <4>2, <4>3 DEF WriterKept
      <3>2. CASE ok' = FALSE
        BY <1>3, <3>2 DEF WriterKept, WriterSync
      <3> QED  BY <1>3, <3>1, <3>2 DEF WriterSync
    <2>4. (Truncating' => Truncating) /\ (tpc' = "reset" => ~flushing')
      BY <1>0, <2>1 DEF Truncating, TruncationCovered
    <2> QED  BY <2>1, <2>2, <2>3, <2>4, FileStep
  <1>4. CASE WriterAck
    <2>1. /\ wpc = "ack" /\ drained' = Nothing /\ wpc' \in {"wait", "fatal"}
          /\ UNCHANGED <<queue, file, disk, inFlight, acked, covered, tpc, flushing, ok>>
      BY <1>4 DEF WriterAck
    <2>2. ASSUME NEW c \in Clients
          PROVE  promise'[c] = IF c \in drained.done THEN (IF ok THEN "ok" ELSE "failed")
                               ELSE promise[c]
      BY <1>4 DEF WriterAck, Threads
    <2>3. drained'.done = {} /\ Range(drained'.bytes) = {}
      BY <2>1 DEF Nothing, Range
    <2>4. ASSUME NEW c \in Clients, c \in drained.done, ok
          PROVE  /\ Kept(inFlight[c], file, disk, covered)
                 /\ Truncating => inFlight[c] \subseteq covered
      <3>1. inFlight[c] \subseteq Range(drained.bytes)
        BY <1>0, <2>4 DEF Tracked
      <3>2. Kept(Range(drained.bytes), file, disk, covered)
        BY <1>0, <2>1, <2>4 DEF WriterKept
      <3> QED  BY <1>0, <3>1, <3>2, KeptMonotonic DEF TruncationCovered
    <2>5. Truncating' = Truncating
      BY <2>1 DEF Truncating
    <2>6. Tracked'
      BY <1>0, <2>1, <2>2, <2>3, <2>4, <2>5 DEF Tracked
    <2>7. WriterKept'
      BY <2>1 DEF WriterKept
    <2>8. TruncationCovered'
      BY <1>0, <2>1, <2>3, <2>5 DEF TruncationCovered
    <2> QED  BY <1>0, <2>1, <2>6, <2>7, <2>8 DEF AckInv
  <1>5. CASE WriterSetFatal \/ WriterExit
    <2>1. /\ wpc' \in {"wait", "exit"}
          /\ UNCHANGED <<queue, drained, promise, inFlight, acked, covered, file, disk,
                         tpc, flushing>>
      BY <1>5 DEF WriterSetFatal, WriterExit
    <2>2. WriterKept'
      BY <2>1 DEF WriterKept
    <2>3. (Truncating' => Truncating) /\ (tpc' = "reset" => ~flushing')
      BY <1>0, <2>1 DEF Truncating, TruncationCovered
    <2> QED  BY <2>1, <2>2, <2>3, FileStep
  <1> QED  BY <1>1, <1>2, <1>3, <1>4, <1>5 DEF Writer

\* The thread inside Drain and Truncate: when the log is reset, the snapshot
\* covers every record that is acknowledged or can still be.
LEMMA AckDrain ==
  ASSUME TypeOK, AckInv, Drain, UNCHANGED history
  PROVE  AckInv'
  <1> USE DEF writerVars, queueVars, fileVars, drainVars, history
  <1>0. /\ Tracked /\ WriterKept /\ TruncationCovered /\ Kept(acked, file, disk, covered)
        /\ ClientTypes /\ queue \in Batches
    BY DEF AckInv, TypeOK, DataTypes
  <1>1. CASE DrainEnqueue \/ DrainWait
    <2>1. /\ UNCHANGED <<drained, wpc, ok, file, disk, inFlight, acked, covered, flushing>>
          /\ tpc' \in {DrainEnd, "wait"} /\ tpc \in {"drain", "wait"}
      BY <1>1 DEF DrainEnqueue, DrainWait
    <2>2. queue'.bytes = queue.bytes /\ \A c \in Clients : c \in queue'.done => c \in queue.done
      BY <1>0, <1>1, WALConstants DEF DrainEnqueue, DrainWait, Batches
    <2>3. \A c \in Clients : promise'[c] = promise[c]
      BY <1>0, <1>1, WALConstants DEF DrainEnqueue, DrainWait, ClientTypes, Threads
    <2>4. (Truncating' => Truncating) /\ (tpc' = "reset" => ~flushing')
      BY <2>1 DEF Truncating, DrainEnd
    <2>5. Tracked'
      BY <1>0, <2>1, <2>2, <2>3, <2>4 DEF Tracked
    <2>6. WriterKept'
      BY <1>0, <2>1 DEF WriterKept
    <2>7. TruncationCovered'
      BY <1>0, <2>1, <2>2, <2>4 DEF TruncationCovered
    <2> QED  BY <1>0, <2>1, <2>5, <2>6, <2>7 DEF AckInv
  <1>2. CASE TruncateReset
    <2>1. /\ UNCHANGED <<queue, drained, wpc, ok, disk, promise, inFlight, acked, covered>>
          /\ tpc = "reset" /\ tpc' = "idle" /\ wpc # "sync"
      BY <1>2 DEF TruncateReset
    <2>2. Truncating /\ ~Truncating'
      BY <1>0, <2>1 DEF Truncating, TruncationCovered
    <2>3. \A S : S \subseteq covered => Kept(S, file', disk', covered')
      BY <2>1, KeptByCover
    <2>4. Tracked'
      BY <1>0, <2>1, <2>2, <2>3 DEF Tracked
    <2>5. WriterKept'
      BY <1>0, <2>1, <2>2, <2>3 DEF WriterKept, TruncationCovered
    <2>6. TruncationCovered'
      BY <2>1, <2>2 DEF TruncationCovered
    <2>7. Kept(acked, file, disk, covered)'
      BY <1>0, <2>1, <2>2, <2>3 DEF TruncationCovered
    <2> QED  BY <2>4, <2>5, <2>6, <2>7 DEF AckInv
  <1> QED  BY <1>1, <1>2 DEF Drain

\* Restart: the file is opened for append, and gets its magic if it is empty.
LEMMA AckInitialize ==
  ASSUME TypeOK, AckInv, Initialize, UNCHANGED history
  PROVE  AckInv'
  <1> USE DEF drainVars, history
  <1>1. /\ UNCHANGED <<queue, drained, promise, inFlight, acked, covered, disk, tpc, flushing>>
        /\ wpc' = "wait" /\ file' \in WriteMagicIfEmpty(file)
    BY DEF Initialize
  <1>2. file \in Seq(Records) /\ disk \in Seq(Records) /\ <<Torn>> \in Seq(Records)
    BY TornIsRecord DEF TypeOK, DataTypes
  <1>3. file' \in Seq(Records) /\ IsPrefixOf(file, file')
    <2>1. CASE UNCHANGED file
      BY <1>2, <2>1 DEF IsPrefixOf
    <2>2. CASE file = <<>> /\ file' = <<Torn>>
      BY <1>2, <2>2 DEF IsPrefixOf
    <2> QED  BY <1>1, <2>1, <2>2 DEF WriteMagicIfEmpty
  <1>4. \A S : Kept(S, file, disk, covered) => Kept(S, file', disk', covered)
    BY <1>1, <1>2, <1>3, KeptByGrowth
  <1>5. WriterKept'
    BY <1>1 DEF WriterKept
  <1>6. (Truncating' => Truncating) /\ (tpc' = "reset" => ~flushing')
    BY <1>1 DEF Truncating, AckInv, TruncationCovered
  <1> QED  BY <1>1, <1>4, <1>5, <1>6, FileStep

\* Shutdown and crashes: memory is lost, and the file keeps what it must.
LEMMA AckDown ==
  ASSUME TypeOK, AckInv, Down
  PROVE  AckInv'
  <1>0. /\ Kept(acked, file, disk, covered)
        /\ file \in Seq(Records) /\ disk \in Seq(Records) /\ drained.bytes \in Seq(Records)
    BY DEF AckInv, TypeOK, DataTypes, Batches
  <1>1. LoseMemory /\ UNCHANGED <<acked, covered>>
    BY DEF Down, Close, ProcessCrash, PowerLoss
  <1>2. Kept(acked, file, disk, covered)'
    <2>1. CASE Close
      BY <1>0, <1>1, <2>1 DEF Close
    <2>2. CASE ProcessCrash
      <3>1. file' = file \/ file' \in CutWrites(file, drained.bytes)
        BY <2>2 DEF ProcessCrash
      <3>2. file' \in Seq(Records) /\ IsPrefixOf(file, file')
        <4>1. IsPrefixOf(file, file)
          BY <1>0 DEF IsPrefixOf
        <4> QED  BY <1>0, <3>1, <4>1, CutIsExtension
      <3>3. UNCHANGED disk
        BY <2>2 DEF ProcessCrash
      <3> QED  BY <1>0, <1>1, <3>2, <3>3, KeptByGrowth
    <2>3. CASE "power" \in CrashKinds /\ PowerLoss
      <3>1. acked \subseteq OnDrive(file, disk) \union covered
        BY <1>0, <2>3, GroupCommitConstants DEF Kept
      <3>2. acked \subseteq Range(file') \union covered
        BY <1>0, <2>3, <3>1, PowerLossKeeps
      <3>3. file' \in Seq(Records) /\ disk' = file'
        BY <1>0, <2>3, PowerLossType DEF PowerLoss
      <3> QED  BY <1>1, <3>2, <3>3, KeptBySync
    <2> QED  BY <2>1, <2>2, <2>3 DEF Down
  <1>3. Tracked'
    BY <1>1 DEF LoseMemory, Tracked, Nothing, Threads
  <1>4. WriterKept'
    BY <1>1 DEF LoseMemory, WriterKept
  <1>5. TruncationCovered'
    BY <1>1 DEF LoseMemory, TruncationCovered, Truncating
  <1> QED  BY <1>2, <1>3, <1>4, <1>5 DEF AckInv

\* A batch whose future returned true is in wal.log or covered by the snapshot that
\* truncated it, whatever system calls fail and wherever the process stops; with
\* sync_mode=fsync, power losses included.
THEOREM AckedNeverLost == Spec => []AckedOnDisk
  <1>1. TypeOK /\ AckInv /\ [Next]_vars => AckInv'
    <2> SUFFICES ASSUME TypeOK, AckInv, [Next]_vars PROVE AckInv'
      OBVIOUS
    <2>1. CASE StopWriter /\ UNCHANGED history
      <3>1. UNCHANGED <<queue, drained, wpc, ok, file, disk, promise, inFlight, acked,
                        covered, tpc, flushing>>
        BY <2>1 DEF StopWriter, history, queueVars, writerVars, fileVars, drainVars
      <3> QED  BY <3>1 DEF AckInv, Tracked, WriterKept, TruncationCovered, Truncating
    <2>2. CASE UNCHANGED vars
      <3>1. UNCHANGED <<queue, drained, wpc, ok, file, disk, promise, inFlight, acked,
                        covered, tpc, flushing>>
        BY <2>2 DEF vars, walVars, history, queueVars, writerVars, fileVars, drainVars
      <3> QED  BY <3>1 DEF AckInv, Tracked, WriterKept, TruncationCovered, Truncating
    <2> QED  BY <2>1, <2>2, AckClients, AckTruncate, AckWriter, AckDrain, AckInitialize,
                AckDown DEF Next, Background
  <1>2. AckInv => AckedOnDisk
    BY DEF AckInv, AckedOnDisk, Kept
  <1> QED  BY <1>1, <1>2, AckInitially, TypeCorrect, PTL DEF Spec

-----------------------------------------------------------------------------
(***************************************************************************)
(* Sequence order.                                                          *)
(***************************************************************************)

\* The content g is f, then records of b (in their places) and torn remains.
LEMMA OrderedGrowth ==
  ASSUME NEW f \in Seq(Records), NEW b \in Seq(Records), NEW g \in Seq(Records),
         Len(g) >= Len(f), \A i \in 1..Len(f) : g[i] = f[i],
         \A i \in (Len(f) + 1)..Len(g) :
           g[i] = Torn \/ (i - Len(f) \in 1..Len(b) /\ g[i] = b[i - Len(f)]),
         Ordered(f), Increasing(b), FileBefore(f, b)
  PROVE  /\ Ordered(g)
         /\ \A i \in Readable(g) : \/ i \in Readable(f) /\ g[i] = f[i]
                                   \/ \E j \in DOMAIN b : g[i] = b[j]
  <1>1. ASSUME NEW i \in Readable(g), i <= Len(f)
        PROVE  i \in Readable(f) /\ g[i] = f[i]
    BY <1>1 DEF Readable
  <1>2. ASSUME NEW i \in Readable(g), i > Len(f)
        PROVE  i - Len(f) \in DOMAIN b /\ g[i] = b[i - Len(f)]
    <2>1. i \in (Len(f) + 1)..Len(g) /\ g[i] # Torn
      BY <1>2 DEF Readable
    <2> QED  BY <2>1
  <1>3. ASSUME NEW i \in Readable(g), NEW j \in Readable(g), i < j
        PROVE  g[i].seq < g[j].seq
    <2>0. i \in Nat /\ j \in Nat
      BY DEF Readable
    <2>1. CASE j <= Len(f)
      <3>1. i <= Len(f)
        BY <1>3, <2>0, <2>1
      <3>2. /\ i \in Readable(f) /\ g[i] = f[i]
            /\ j \in Readable(f) /\ g[j] = f[j]
        BY <1>1, <2>1, <3>1
      <3>3. f[i].seq < f[j].seq
        BY <1>3, <3>2 DEF Ordered
      <3> QED  BY <3>2, <3>3
    <2>2. CASE i <= Len(f) /\ j > Len(f)
      BY <1>1, <1>2, <2>0, <2>2 DEF FileBefore
    <2>3. CASE i > Len(f)
      <3>1. j > Len(f) /\ i - Len(f) < j - Len(f)
        BY <1>3, <2>0, <2>3
      <3> QED  BY <1>2, <2>3, <3>1 DEF Increasing
    <2> QED  BY <1>3, <2>0, <2>1, <2>2, <2>3
  <1>4. \A i \in Readable(g) : i <= Len(f) \/ i > Len(f)
    BY DEF Readable
  <1> QED  BY <1>1, <1>2, <1>3, <1>4 DEF Ordered

\* A prefix of an ordered content is ordered.
LEMMA OrderedPrefix ==
  ASSUME NEW f \in Seq(Records), NEW g \in Seq(Records), IsPrefixOf(g, f), Ordered(f)
  PROVE  Ordered(g)
  <1>1. \A i \in Readable(g) : i \in Readable(f) /\ g[i] = f[i]
    BY DEF Readable, IsPrefixOf
  <1> QED  BY <1>1 DEF Ordered

\* So is an ordered content with torn remains behind it, or nothing but them.
LEMMA OrderedTorn ==
  ASSUME NEW f \in Seq(Records), Ordered(f)
  PROVE  Ordered(Append(f, Torn))
  <1>1. Append(f, Torn) \in Seq(Records)
    BY TornIsRecord
  <1>2. Increasing(<<>>) /\ FileBefore(f, <<>>) /\ <<>> \in Seq(Records)
    BY DEF Increasing, FileBefore
  <1> DEFINE g == Append(f, Torn)
  <1>3. /\ Len(g) >= Len(f) /\ \A i \in 1..Len(f) : g[i] = f[i]
        /\ \A i \in (Len(f) + 1)..Len(g) : g[i] = Torn
    OBVIOUS
  <1> HIDE DEF g
  <1>4. Ordered(g)
    BY <1>1, <1>2, <1>3, OrderedGrowth DEF g
  <1> QED  BY <1>4 DEF g

LEMMA EmptyOrdered ==
  /\ Readable(<<>>) = {} /\ Readable(<<Torn>>) = {}
  /\ Ordered(<<>>) /\ Ordered(<<Torn>>)
  <1>1. Readable(<<>>) = {} /\ Readable(<<Torn>>) = {}
    BY DEF Readable
  <1> QED  BY <1>1 DEF Ordered

\* Appending later numbers to a queue.
LEMMA QueueGrowth ==
  ASSUME NEW a \in Seq(Records), NEW b \in Seq(Records),
         Increasing(a), Increasing(b), BytesBefore(a, b)
  PROVE  /\ Increasing(a \o b)
         /\ \A i \in DOMAIN (a \o b) : \/ i \in DOMAIN a /\ (a \o b)[i] = a[i]
                                       \/ \E j \in DOMAIN b : (a \o b)[i] = b[j]
  <1> DEFINE c == a \o b
  <1>1. \A i \in DOMAIN c : i <= Len(a) => i \in DOMAIN a /\ c[i] = a[i]
    OBVIOUS
  <1>2. \A i \in DOMAIN c : i > Len(a) => i - Len(a) \in DOMAIN b /\ c[i] = b[i - Len(a)]
    OBVIOUS
  <1>3. DOMAIN c \subseteq Nat /\ Len(a) \in Nat
    OBVIOUS
  <1> HIDE DEF c
  <1>4. ASSUME NEW i \in DOMAIN c, NEW j \in DOMAIN c, i < j
        PROVE  c[i].seq < c[j].seq
    <2>1. CASE j <= Len(a)
      BY <1>1, <1>3, <1>4, <2>1 DEF Increasing
    <2>2. CASE i <= Len(a) /\ j > Len(a)
      BY <1>1, <1>2, <1>3, <2>2 DEF BytesBefore
    <2>3. CASE i > Len(a)
      <3>1. j > Len(a) /\ i - Len(a) < j - Len(a)
        BY <1>3, <1>4, <2>3
      <3> QED  BY <1>2, <2>3, <3>1 DEF Increasing
    <2> QED  BY <1>3, <1>4, <2>1, <2>2, <2>3
  <1>5. \A i \in DOMAIN c : i <= Len(a) \/ i > Len(a)
    BY <1>3
  <1>6. \A i \in DOMAIN c : \/ i \in DOMAIN a /\ c[i] = a[i]
                            \/ \E j \in DOMAIN b : c[i] = b[j]
    BY <1>1, <1>2, <1>5
  <1>7. Increasing(c)
    BY <1>4 DEF Increasing
  <1> QED  BY <1>6, <1>7 DEF c

\* What committers do: the numbers of a new batch follow all the others.
LEMMA OrderSubmit ==
  ASSUME TypeOK, OrderInv, NEW c \in Clients, Submit(c)
  PROVE  OrderInv'
  <1> USE DEF writerVars, queueVars, fileVars, drainVars
  <1>1. PICK s \in Seq(Records) :
          /\ \A i \in 1..Len(s) : s[i].seq = nextSeq + i - 1
          /\ \/ UNCHANGED queueVars
             \/ /\ queue' = [bytes |-> queue.bytes \o s, done |-> queue.done \union {c}]
                /\ nextSeq' = nextSeq + Len(s)
          /\ UNCHANGED <<proc, writerVars, fileVars>>
    BY SubmitFacts
  <1>2. proc = "up"
    BY DEF Submit, AppendBatchAsync
  <1>3. CASE UNCHANGED queueVars
    BY <1>1, <1>3 DEF OrderInv, FileOrder, QueueOrder, DrainedOrder
  <1>4. CASE /\ queue' = [bytes |-> queue.bytes \o s, done |-> queue.done \union {c}]
             /\ nextSeq' = nextSeq + Len(s)
    <2> DEFINE q == queue.bytes
               q2 == queue.bytes \o s
    <2>1. /\ q \in Seq(Records) /\ nextSeq \in Nat /\ nextSeq' \in Nat /\ nextSeq <= nextSeq'
          /\ file \in Seq(Records) /\ drained.bytes \in Seq(Records)
      BY <1>4 DEF TypeOK, DataTypes, ControlTypes, Batches
    <2>2. /\ \A i \in DOMAIN s : s[i].seq \in Nat /\ nextSeq <= s[i].seq /\ s[i].seq < nextSeq'
          /\ Increasing(s)
      <3>1. DOMAIN s = 1..Len(s) /\ Len(s) \in Nat
        OBVIOUS
      <3>2. \A i \in DOMAIN s : s[i].seq = nextSeq + i - 1
        BY <1>1, <3>1
      <3>3. \A i \in DOMAIN s : s[i].seq \in Nat /\ nextSeq <= s[i].seq /\ s[i].seq < nextSeq'
        BY <1>4, <2>1, <3>1, <3>2
      <3>4. Increasing(s)
        BY <2>1, <3>1, <3>2 DEF Increasing
      <3> QED  BY <3>3, <3>4
    <2>4. /\ \A i \in DOMAIN q : q[i].seq \in Nat
          /\ \A i \in DOMAIN file : file[i].seq \in Nat
          /\ \A i \in DOMAIN drained.bytes : drained.bytes[i].seq \in Nat
      BY <2>1, RecordsHaveNumbers
    <2>5. /\ Increasing(q) /\ \A i \in DOMAIN q : q[i].seq < nextSeq
          /\ \A i \in Readable(file) : i \in DOMAIN file /\ file[i].seq < nextSeq
      BY <1>2 DEF OrderInv, FileOrder, QueueOrder, Below, Readable
    <2>6. BytesBefore(q, s)
      BY <2>1, <2>2, <2>4, <2>5 DEF BytesBefore
    <2>7. /\ Increasing(q2)
          /\ \A i \in DOMAIN q2 : \/ i \in DOMAIN q /\ q2[i] = q[i]
                                  \/ \E j \in DOMAIN s : q2[i] = s[j]
      BY <2>1, <2>2, <2>5, <2>6, QueueGrowth
    <2>8. queue'.bytes = q2
      BY <1>4
    <2> HIDE DEF q, q2
    <2>9. FileOrder'
      BY <1>1, <2>1, <2>4, <2>5 DEF OrderInv, FileOrder
    <2>10. Below(q2, nextSeq')
      BY <2>1, <2>2, <2>4, <2>5, <2>7 DEF Below
    <2>11. FileBefore(file, q2)
      <3>1. FileBefore(file, q)
        BY DEF OrderInv, QueueOrder, q
      <3> QED  BY <2>1, <2>2, <2>4, <2>5, <2>7, <3>1 DEF FileBefore
    <2>12. QueueOrder'
      BY <1>1, <1>2, <2>7, <2>8, <2>10, <2>11 DEF QueueOrder
    <2>13. DrainedOrder'
      <3> SUFFICES ASSUME wpc = "write"
                   PROVE  /\ Increasing(drained.bytes) /\ Below(drained.bytes, nextSeq')
                          /\ FileBefore(file, drained.bytes)
                          /\ BytesBefore(drained.bytes, q2)
        BY <1>1, <2>8 DEF DrainedOrder
      <3>1. /\ Increasing(drained.bytes) /\ Below(drained.bytes, nextSeq)
            /\ FileBefore(file, drained.bytes) /\ BytesBefore(drained.bytes, q)
        BY DEF OrderInv, DrainedOrder, q
      <3>2. Below(drained.bytes, nextSeq')
        BY <2>1, <2>4, <3>1 DEF Below
      <3>3. BytesBefore(drained.bytes, q2)
        BY <2>1, <2>2, <2>4, <2>7, <3>1 DEF BytesBefore, Below
      <3> QED  BY <3>1, <3>2, <3>3
    <2> QED  BY <2>9, <2>12, <2>13 DEF OrderInv
  <1> QED  BY <1>1, <1>3, <1>4

\* The writer appends what it took from the queue, whole or cut.
LEMMA OrderWrite ==
  ASSUME TypeOK, OrderInv, wpc = "write", UNCHANGED <<queue, drained, nextSeq, disk>>,
         file' = file \o drained.bytes \/ file' \in CutWrites(file, drained.bytes)
  PROVE  /\ Ordered(file')
         /\ FileBefore(file', queue.bytes)
         /\ proc = "up" => \A i \in Readable(file') : file'[i].seq < nextSeq
  <1> DEFINE b == drained.bytes
  <1>1. /\ file \in Seq(Records) /\ b \in Seq(Records)
        /\ Ordered(file) /\ Increasing(b) /\ FileBefore(file, b) /\ Below(b, nextSeq)
        /\ BytesBefore(b, queue.bytes) /\ FileBefore(file, queue.bytes)
        /\ proc = "up" => \A i \in Readable(file) : file[i].seq < nextSeq
    BY DEF TypeOK, DataTypes, Batches, OrderInv, FileOrder, QueueOrder, DrainedOrder
  <1> HIDE DEF b
  <1>2. /\ file' \in Seq(Records) /\ Len(file') >= Len(file)
        /\ \A i \in 1..Len(file) : file'[i] = file[i]
        /\ \A i \in (Len(file) + 1)..Len(file') :
             file'[i] = Torn \/ (i - Len(file) \in 1..Len(b) /\ file'[i] = b[i - Len(file)])
    <2>1. CASE file' = file \o b
      BY <1>1, <2>1
    <2>2. CASE file' \in CutWrites(file, b)
      BY <1>1, <2>2, CutWriteFacts
    <2> QED  BY <2>1, <2>2 DEF b
  <1>3. /\ Ordered(file')
        /\ \A i \in Readable(file') : \/ i \in Readable(file) /\ file'[i] = file[i]
                                      \/ \E j \in DOMAIN b : file'[i] = b[j]
    BY <1>1, <1>2, OrderedGrowth
  <1>4. FileBefore(file', queue.bytes)
    BY <1>1, <1>3 DEF FileBefore, BytesBefore
  <1>5. proc = "up" => \A i \in Readable(file') : file'[i].seq < nextSeq
    BY <1>1, <1>3 DEF Below
  <1> QED  BY <1>3, <1>4, <1>5

LEMMA OrderWriter ==
  ASSUME TypeOK, OrderInv, Writer
  PROVE  OrderInv'
  <1> USE DEF writerVars, queueVars, fileVars
  <1>0. FileOrder /\ QueueOrder /\ DrainedOrder
    BY DEF OrderInv
  <1>1. CASE WriterDrain
    <2>1. /\ drained' = queue /\ queue'.bytes = <<>> /\ queue' = Nothing
          /\ UNCHANGED <<proc, nextSeq, file, disk>>
      BY <1>1 DEF WriterDrain, Nothing
    <2>2. FileOrder'
      BY <1>0, <2>1 DEF FileOrder
    <2>3. QueueOrder'
      BY <2>1 DEF QueueOrder, Increasing, Below, FileBefore
    <2>4. DrainedOrder'
      BY <1>0, <2>1 DEF DrainedOrder, QueueOrder, BytesBefore
    <2> QED  BY <2>2, <2>3, <2>4 DEF OrderInv
  <1>2. CASE WriterWrite
    <2>1. /\ UNCHANGED <<queue, drained, nextSeq, disk, proc>> /\ wpc = "write"
          /\ wpc' # "write"
      BY <1>2 DEF WriterWrite
    <2>2. CASE UNCHANGED file
      BY <1>0, <2>1, <2>2 DEF OrderInv, FileOrder, QueueOrder, DrainedOrder
    <2>3. CASE file' = file \o drained.bytes \/ file' \in CutWrites(file, drained.bytes)
      <3>1. /\ Ordered(file') /\ FileBefore(file', queue.bytes)
            /\ proc = "up" => \A i \in Readable(file') : file'[i].seq < nextSeq
        BY <2>1, <2>3, OrderWrite
      <3> QED  BY <1>0, <2>1, <3>1 DEF OrderInv, FileOrder, QueueOrder, DrainedOrder
    <2> QED  BY <1>2, <2>2, <2>3 DEF WriterWrite
  <1>3. CASE WriterSync
    BY <1>0, <1>3 DEF WriterSync, OrderInv, FileOrder, QueueOrder, DrainedOrder
  <1>4. CASE WriterAck \/ WriterSetFatal \/ WriterExit
    <2>1. UNCHANGED <<queue, nextSeq, disk, proc, file>> /\ wpc' # "write"
      BY <1>4 DEF WriterAck, WriterSetFatal, WriterExit
    <2> QED  BY <1>0, <2>1 DEF OrderInv, FileOrder, QueueOrder, DrainedOrder
  <1> QED  BY <1>1, <1>2, <1>3, <1>4 DEF Writer

\* A step that leaves the queue alone and has a new, ordered and unread content.
LEMMA OrderReset ==
  ASSUME OrderInv, UNCHANGED <<queue, drained, wpc, nextSeq, disk, proc>>,
         file' \in {<<>>, <<Torn>>}
  PROVE  OrderInv'
  <1>1. Ordered(file') /\ Readable(file') = {}
    BY EmptyOrdered
  <1>2. FileOrder'
    BY <1>1 DEF OrderInv, FileOrder
  <1>3. QueueOrder'
    BY <1>1 DEF OrderInv, QueueOrder, FileBefore
  <1>4. DrainedOrder'
    BY <1>1 DEF OrderInv, DrainedOrder, FileBefore
  <1> QED  BY <1>2, <1>3, <1>4 DEF OrderInv

LEMMA OrderDrain ==
  ASSUME TypeOK, OrderInv, Drain
  PROVE  OrderInv'
  <1> USE DEF writerVars, queueVars, fileVars
  <1>1. CASE DrainEnqueue \/ DrainWait
    <2>1. UNCHANGED <<drained, wpc, nextSeq, disk, file, proc>> /\ proc = "up"
      BY <1>1 DEF DrainEnqueue, DrainWait
    <2>2. queue'.bytes = queue.bytes
      BY <1>1 DEF DrainEnqueue, DrainWait, TypeOK, DataTypes, Batches
    <2> QED  BY <2>1, <2>2 DEF OrderInv, FileOrder, QueueOrder, DrainedOrder
  <1>2. CASE TruncateReset
    <2>1. UNCHANGED <<queue, drained, wpc, nextSeq, disk, proc>>
      BY <1>2 DEF TruncateReset
    <2>2. file' \in {<<>>, <<Torn>>, file}
      BY <1>2 DEF TruncateReset, WriteMagicIfEmpty
    <2>3. CASE file' = file
      BY <2>1, <2>3 DEF OrderInv, FileOrder, QueueOrder, DrainedOrder
    <2> QED  BY <2>1, <2>2, <2>3, OrderReset
  <1> QED  BY <1>1, <1>2 DEF Drain

\* Restart: next_sequence_ is one more than the largest number that can be read.
LEMMA OrderInitialize ==
  ASSUME TypeOK, TypeOK', OrderInv, Initialize
  PROVE  OrderInv'
  <1>1. /\ file' \in WriteMagicIfEmpty(file) /\ wpc' = "wait" /\ proc' = "up"
        /\ nextSeq' \in RecoverSequenceNumber(file')
        /\ UNCHANGED <<queue, disk>>
    BY DEF Initialize
  <1>2. queue' = Nothing /\ queue'.bytes = <<>>
    BY <1>1 DEF OrderInv, QueueOrder, Initialize, Nothing
  <1>3. Ordered(file')
    BY <1>1, EmptyOrdered DEF WriteMagicIfEmpty, OrderInv, FileOrder
  <1>4. \A i \in DOMAIN file' : file'[i].seq \in Nat
    BY RecordsHaveNumbers DEF TypeOK, DataTypes
  <1>5. \A i \in Readable(file') : file'[i].seq < nextSeq'
    <2> DEFINE seqs == {file'[i].seq : i \in Readable(file')} \union {0}
    <2>1. seqs \subseteq Nat
      BY <1>4 DEF Readable
    <2>2. PICK m \in seqs : nextSeq' = m + 1 /\ \A t \in seqs : t <= m
      BY <1>1 DEF RecoverSequenceNumber
    <2>3. \A i \in Readable(file') : file'[i].seq \in seqs
      OBVIOUS
    <2> HIDE DEF seqs
    <2>4. \A t \in seqs : t < nextSeq'
      BY <2>1, <2>2
    <2> QED  BY <2>3, <2>4
  <1>6. FileOrder'
    BY <1>1, <1>3, <1>5 DEF FileOrder, OrderInv
  <1>7. QueueOrder'
    BY <1>1, <1>2 DEF QueueOrder, Increasing, Below, FileBefore
  <1>8. DrainedOrder'
    BY <1>1 DEF DrainedOrder
  <1> QED  BY <1>6, <1>7, <1>8 DEF OrderInv

LEMMA OrderDown ==
  ASSUME TypeOK, OrderInv, Down
  PROVE  OrderInv'
  <1>1. LoseMemory /\ proc' = "down"
    BY DEF Down, Close, ProcessCrash, PowerLoss
  <1>2. queue' = Nothing /\ queue'.bytes = <<>> /\ wpc' = "exit"
    BY <1>1 DEF LoseMemory, Nothing
  <1>3. file \in Seq(Records) /\ disk \in Seq(Records) /\ Ordered(file) /\ Ordered(disk)
    BY DEF TypeOK, DataTypes, OrderInv, FileOrder
  <1>4. Ordered(file') /\ Ordered(disk')
    <2>1. CASE Close
      BY <1>3, <2>1 DEF Close
    <2>2. CASE ProcessCrash
      <3>1. CASE file' = file
        BY <1>3, <2>2, <3>1 DEF ProcessCrash
      <3>2. CASE file' # file
        <4>1. /\ wpc = "write" /\ file' \in CutWrites(file, drained.bytes)
              /\ UNCHANGED disk
          BY <2>2, <3>2 DEF ProcessCrash
        <4>2. /\ drained.bytes \in Seq(Records) /\ Increasing(drained.bytes)
              /\ FileBefore(file, drained.bytes)
          BY <4>1 DEF TypeOK, DataTypes, Batches, OrderInv, DrainedOrder
        <4>3. Ordered(file')
          <5> DEFINE b == drained.bytes
          <5> HIDE DEF b
          <5>1. b \in Seq(Records) /\ Increasing(b) /\ FileBefore(file, b)
            BY <4>2 DEF b
          <5>2. /\ file' \in Seq(Records) /\ Len(file') >= Len(file)
                /\ \A i \in 1..Len(file) : file'[i] = file[i]
                /\ \A i \in (Len(file) + 1)..Len(file') :
                     \/ file'[i] = Torn
                     \/ i - Len(file) \in 1..Len(b) /\ file'[i] = b[i - Len(file)]
            BY <1>3, <4>1, <5>1, CutWriteFacts DEF b
          <5> QED  BY <1>3, <5>1, <5>2, OrderedGrowth
        <4> QED  BY <1>3, <4>1, <4>3
      <3> QED  BY <3>1, <3>2
    <2>3. CASE PowerLoss
      <3>1. ASSUME NEW f \in AfterPowerLoss PROVE f \in Seq(Records) /\ Ordered(f)
        <4>1. CASE f = disk
          BY <1>3, <4>1
        <4>2. CASE f # disk
          <5>1. PICK n \in 0..Len(file) : f = SubSeq(file, 1, n)
            BY <3>1, <4>2 DEF AfterPowerLoss, KeptLengths
          <5>2. f \in Seq(Records) /\ IsPrefixOf(f, file)
            BY <1>3, <5>1, SubSeqProperties DEF IsPrefixOf
          <5> QED  BY <1>3, <5>2, OrderedPrefix
        <4> QED  BY <4>1, <4>2
      <3>2. PICK f \in AfterPowerLoss : file' = f \/ file' = Append(f, Torn)
        BY <2>3 DEF PowerLoss, TornByPowerLoss, AfterPowerLoss
      <3>3. Ordered(file')
        BY <3>1, <3>2, OrderedTorn
      <3> QED  BY <2>3, <3>3 DEF PowerLoss
    <2> QED  BY <2>1, <2>2, <2>3 DEF Down
  <1>5. FileOrder'
    BY <1>1, <1>4 DEF FileOrder
  <1>6. QueueOrder'
    BY <1>2 DEF QueueOrder, Increasing, Below, FileBefore
  <1>7. DrainedOrder'
    BY <1>2 DEF DrainedOrder
  <1> QED  BY <1>5, <1>6, <1>7 DEF OrderInv

\* Recovery reads strictly increasing sequence numbers, however many committers
\* race and whatever fails, and next_sequence_ is beyond them.
THEOREM SequencesOrdered == Spec => []SequenceOrder
  <1>1. Init => OrderInv
    <2> SUFFICES ASSUME Init PROVE OrderInv
      OBVIOUS
    <2>1. /\ file = <<>> /\ disk = <<>> /\ queue.bytes = <<>> /\ wpc = "wait" /\ proc = "up"
      BY DEF Init, WALInit, Nothing
    <2>2. FileOrder
      BY <2>1, EmptyOrdered DEF FileOrder
    <2>3. QueueOrder
      BY <2>1 DEF QueueOrder, Increasing, Below, FileBefore
    <2>4. DrainedOrder
      BY <2>1 DEF DrainedOrder
    <2> QED  BY <2>2, <2>3, <2>4 DEF OrderInv
  <1>2. TypeOK /\ TypeOK' /\ OrderInv /\ [Next]_vars => OrderInv'
    <2> SUFFICES ASSUME TypeOK, TypeOK', OrderInv, [Next]_vars PROVE OrderInv'
      OBVIOUS
    <2>1. ASSUME UNCHANGED <<proc, nextSeq, wpc, queue, drained, file, disk>> PROVE OrderInv'
      BY <2>1 DEF OrderInv, FileOrder, QueueOrder, DrainedOrder
    <2>2. ASSUME NEW c \in Clients, Acknowledge(c) \/ Refuse(c) PROVE OrderInv'
      BY <2>1, <2>2 DEF Acknowledge, Refuse, Get, queueVars, writerVars, fileVars
    <2>3. ASSUME Truncate \/ Flush \/ StopWriter PROVE OrderInv'
      BY <2>1, <2>3 DEF Truncate, TruncateBegin, Flush, FlushBegin, StopWriter, queueVars,
                        writerVars, fileVars
    <2>4. ASSUME UNCHANGED vars PROVE OrderInv'
      BY <2>1, <2>4 DEF vars, walVars, queueVars, writerVars, fileVars
    <2> QED  BY <2>2, <2>3, <2>4, OrderSubmit, OrderWriter, OrderDrain, OrderInitialize,
                OrderDown DEF Next, Background
  <1>3. OrderInv => SequenceOrder
    BY DEF OrderInv, FileOrder, Ordered, SequenceOrder
  <1> QED  BY <1>1, <1>2, <1>3, TypeCorrect, PTL DEF Spec

-----------------------------------------------------------------------------
(***************************************************************************)
(* What recovery can read.                                                  *)
(***************************************************************************)

\* A log without a torn record is read to its end.
LEMMA WholeIsReadable ==
  ASSUME NEW f \in Seq(Records), \A i \in DOMAIN f : f[i] # Torn
  PROVE  ReadAll(f) = f
  <1>1. Readable(f) = 1..Len(f)
    BY DEF Readable
  <1>2. Cardinality(1..Len(f)) = Len(f)
    <2>1. 1 \in Int /\ Len(f) \in Int /\ Len(f) >= 0
      OBVIOUS
    <2>2. Cardinality(1..Len(f)) = IF 1 > Len(f) THEN 0 ELSE Len(f) - 1 + 1
      BY <2>1, FS_Interval, Zenon
    <2> QED  BY <2>1, <2>2
  <1>3. ReadAll(f) = SubSeq(f, 1, Len(f))
    BY <1>1, <1>2 DEF ReadAll
  <1>4. /\ SubSeq(f, 1, Len(f)) \in Seq(Records) /\ Len(SubSeq(f, 1, Len(f))) = Len(f)
        /\ \A i \in 1..Len(f) : SubSeq(f, 1, Len(f))[i] = f[i]
    BY SubSeqProperties
  <1> QED  BY <1>3, <1>4

\* AckedReadable, which the run wal_torn_tail refutes, fails in no other way than
\* by a torn record: as long as no record of wal.log is cut, by a crash or by a failed
\* write, recovery reads every batch whose future returned true, or the snapshot
\* covers it.
THEOREM ReadableUnlessTorn ==
  Spec => []((\A i \in DOMAIN file : file[i] # Torn) => AckedReadable)
  <1>1. ASSUME TypeOK, AckedOnDisk, \A i \in DOMAIN file : file[i] # Torn
        PROVE  AckedReadable
    <2>1. ReadAll(file) = file
      BY <1>1, WholeIsReadable DEF TypeOK, DataTypes
    <2> QED  BY <1>1, <2>1 DEF AckedOnDisk, AckedReadable
  <1> QED  BY <1>1, TypeCorrect, AckedNeverLost, PTL

\* No torn record anywhere.
Untorn ==
  Torn \notin Range(file) \union Range(disk) \union Range(queue.bytes) \union Range(drained.bytes)

\* Where writes are not torn, one that stops early leaves records of the two sides.
LEMMA CutUntorn ==
  ASSUME ~Tearing, NEW f \in Seq(Records), NEW b \in Seq(Records), NEW g \in CutWrites(f, b)
  PROVE  Range(g) \subseteq Range(f) \union Range(b)
  <1>1. PICK n \in 0..(Len(b) - 1) : g = f \o SubSeq(b, 1, n)
    BY DEF CutWrites
  <1> DEFINE p == SubSeq(b, 1, n)
  <1>2. p \in Seq(Records) /\ IsPrefixOf(p, b)
    BY SubSeqProperties DEF IsPrefixOf
  <1> HIDE DEF p
  <1>3. Range(p) \subseteq Range(b)
    BY <1>2, PrefixRange
  <1>4. Range(f \o p) = Range(f) \union Range(p)
    BY <1>2, ConcatFacts
  <1> QED  BY <1>1, <1>3, <1>4 DEF p

LEMMA UntornStep ==
  ASSUME ~Tearing, "magic" \notin Faults, TypeOK, TypeOK', Untorn, [Next]_vars
  PROVE  Untorn'
  <1>0. /\ file \in Seq(Records) /\ disk \in Seq(Records)
        /\ queue.bytes \in Seq(Records) /\ drained.bytes \in Seq(Records)
        /\ nextSeq \in Nat \ {0}
    BY DEF TypeOK, DataTypes, Batches, ControlTypes
  <1>n. Nothing.bytes = <<>> /\ Range(<<>>) = {}
    BY DEF Nothing, Range
  <1>m. \A f : WriteMagicIfEmpty(f) = {f}
    BY DEF WriteMagicIfEmpty
  <1> USE DEF writerVars, queueVars, fileVars, drainVars, history
  <1>1. ASSUME NEW c \in Clients, Submit(c) PROVE Untorn'
    <2>1. PICK s \in Seq(Records) :
            /\ \A i \in 1..Len(s) : s[i].seq = nextSeq + i - 1
            /\ queue' = queue \/ queue'.bytes = queue.bytes \o s
            /\ UNCHANGED <<file, disk, drained>>
      BY <1>1, SubmitFacts
    <2>2. Torn \notin Range(s)
      <3> SUFFICES ASSUME NEW i \in 1..Len(s), s[i] = Torn PROVE FALSE
        BY DEF Range
      <3> QED  BY <1>0, <2>1, TornIsRecord
    <2>3. Range(queue.bytes \o s) = Range(queue.bytes) \union Range(s)
      BY <1>0, ConcatFacts
    <2> QED  BY <2>1, <2>2, <2>3 DEF Untorn
  <1>2. ASSUME NEW c \in Clients, Acknowledge(c) \/ Refuse(c) PROVE Untorn'
    BY <1>2 DEF Acknowledge, Refuse, Get, Untorn
  <1>3. CASE Truncate \/ Flush
    BY <1>3 DEF Truncate, TruncateBegin, Flush, FlushBegin, Untorn
  <1>4. CASE WriterDrain
    BY <1>4, <1>n DEF WriterDrain, Untorn
  <1>5. CASE WriterWrite
    <2>1. file' = file \/ file' = file \o drained.bytes \/ file' \in CutWrites(file, drained.bytes)
      BY <1>5 DEF WriterWrite
    <2>2. Range(file') \subseteq Range(file) \union Range(drained.bytes)
      <3>1. Range(file \o drained.bytes) = Range(file) \union Range(drained.bytes)
        BY <1>0, ConcatFacts
      <3>2. CASE file' \in CutWrites(file, drained.bytes)
        BY <1>0, <3>2, CutUntorn
      <3> QED  BY <2>1, <3>1, <3>2
    <2>3. UNCHANGED <<disk, queue, drained>>
      BY <1>5 DEF WriterWrite
    <2> QED  BY <2>2, <2>3 DEF Untorn
  <1>6. CASE WriterSync \/ WriterSetFatal \/ WriterExit
    BY <1>6 DEF WriterSync, WriterSetFatal, WriterExit, Untorn
  <1>7. CASE WriterAck
    BY <1>7, <1>n DEF WriterAck, Untorn
  <1>8. CASE DrainEnqueue \/ DrainWait
    <2>1. queue'.bytes = queue.bytes /\ UNCHANGED <<file, disk, drained>>
      BY <1>8 DEF DrainEnqueue, DrainWait, TypeOK, DataTypes, Batches
    <2> QED  BY <2>1 DEF Untorn
  <1>9. CASE TruncateReset
    <2>1. (file' = <<>> \/ file' = file) /\ UNCHANGED <<disk, queue, drained>>
      BY <1>9, <1>m DEF TruncateReset, WriteMagicIfEmpty
    <2> QED  BY <1>n, <2>1 DEF Untorn
  <1>10. CASE StopWriter
    BY <1>10 DEF StopWriter, Untorn
  <1>11. CASE Initialize
    BY <1>11, <1>m DEF Initialize, Untorn
  <1>12. CASE Down
    <2>1. queue' = Nothing /\ drained' = Nothing
      BY <1>12 DEF Down, Close, ProcessCrash, PowerLoss, LoseMemory
    <2>2. Torn \notin Range(file') \union Range(disk')
      <3>1. CASE Close
        BY <3>1 DEF Close, Untorn
      <3>2. CASE ProcessCrash
        <4>1. (file' = file \/ file' \in CutWrites(file, drained.bytes)) /\ disk' = disk
          BY <3>2 DEF ProcessCrash
        <4>2. Range(file') \subseteq Range(file) \union Range(drained.bytes)
          BY <1>0, <4>1, CutUntorn
        <4> QED  BY <4>1, <4>2 DEF Untorn
      <3>3. CASE PowerLoss
        <4>1. file' \in AfterPowerLoss /\ disk' = file'
          BY <3>3 DEF PowerLoss
        <4>2. CASE file' = disk
          BY <4>1, <4>2 DEF Untorn
        <4>3. CASE file' # disk
          <5>1. PICK n \in 0..Len(file) : file' = SubSeq(file, 1, n)
            BY <4>1, <4>3 DEF AfterPowerLoss, KeptLengths
          <5>2. file' \in Seq(Records) /\ IsPrefixOf(file', file)
            BY <1>0, <5>1, SubSeqProperties DEF IsPrefixOf
          <5>3. Range(file') \subseteq Range(file)
            BY <1>0, <5>2, PrefixRange
          <5> QED  BY <4>1, <5>3 DEF Untorn
        <4> QED  BY <4>2, <4>3
      <3> QED  BY <1>12, <3>1, <3>2, <3>3 DEF Down
    <2> QED  BY <1>n, <2>1, <2>2 DEF Untorn
  <1>13. CASE UNCHANGED vars
    BY <1>13 DEF vars, walVars, Untorn
  <1> QED  BY <1>1, <1>2, <1>3, <1>4, <1>5, <1>6, <1>7, <1>8, <1>9, <1>10, <1>11, <1>12, <1>13
           DEF Next, Background, Writer, Drain

\* Without torn records and half-written magics recovery reads every batch whose
\* future returned true, whatever writes, syncs and reopens fail and whenever the
\* process or the power does.
THEOREM AckedAreRead ==
  ASSUME ~Tearing, "magic" \notin Faults
  PROVE  Spec => []AckedReadable
  <1>1. Init => Untorn
    BY DEF Init, WALInit, Nothing, Untorn, Range
  <1>2. TypeOK /\ TypeOK' /\ Untorn /\ [Next]_vars => Untorn'
    BY UntornStep
  <1>3. Spec => []Untorn
    BY <1>1, <1>2, TypeCorrect, PTL DEF Spec
  <1>4. Untorn => \A i \in DOMAIN file : file[i] # Torn
    BY DEF Untorn, Range
  <1> QED  BY <1>3, <1>4, ReadableUnlessTorn, PTL

=============================================================================
