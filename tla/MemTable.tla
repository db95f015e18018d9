------------------------------ MODULE MemTable ------------------------------
(***************************************************************************)
(* src/src/storage/mem_table.cpp: rows_ under a shared_mutex, the memoized   *)
(* JSON of each row under a mutex of its own, and the prefix scan that       *)
(* host_functions.cpp makes of it.  Keys are sequences of bytes below Byte;  *)
(* Byte - 1 stands for 0xFF.                                                 *)
(***************************************************************************)
EXTENDS Naturals, SequencesExt

CONSTANTS
  Readers, Writers,
  RowKeys, Byte,
  Scans,         \* the prefix, limit and overlay of host_table_scan calls
  Tombstone,     \* a deletion in an overlay
  MaxWrites      \* bound on writes; a row's content is the number of its write

ASSUME MemConstants ==
  /\ Byte \in Nat /\ RowKeys \subseteq Seq(0..(Byte - 1))
  /\ \A s \in Scans : /\ s.prefix \in Seq(0..(Byte - 1)) /\ s.limit \in Nat
                       /\ IsFiniteSet(DOMAIN s.overlay)
                       /\ DOMAIN s.overlay \subseteq Seq(0..(Byte - 1))

VARIABLES rows, json_cache, mutex_, reader, writer, writes

memVars == <<rows, json_cache, mutex_, reader, writer, writes>>

NotReading == [at |-> "idle"]
NotWriting == [at |-> "idle"]

MemInit ==
  /\ rows = <<>> /\ json_cache = <<>>
  /\ mutex_ = [shared |-> {}, unique |-> {}]
  /\ reader = [r \in Readers |-> NotReading]
  /\ writer = [w \in Writers |-> NotWriting]
  /\ writes = 0

\* std::string's <, on bytes.
Less(a, b) ==
  \/ IsStrictPrefix(a, b)
  \/ \E i \in 1..Len(a) : /\ i <= Len(b) /\ a[i] < b[i]
                          /\ \A j \in 1..(i - 1) : a[j] = b[j]

\* The i-th of the keys ks, in the order of a std::map.
Nth(ks, i) == CHOOSE k \in ks : Cardinality({j \in ks : Less(j, k)}) = i - 1

-----------------------------------------------------------------------------
(* Insert, Update, Delete: the row, then InvalidateJson, mutex_ held.        *)
Without(f, k) == [j \in DOMAIN f \ {k} |-> f[j]]
With(f, k, v) == [j \in DOMAIN f \union {k} |-> IF j = k THEN v ELSE f[j]]

LockUnique(w, op, k) ==
  /\ writer[w].at = "idle" /\ mutex_ = [shared |-> {}, unique |-> {}]
  /\ writes < MaxWrites /\ writes' = writes + 1
  /\ mutex_' = [mutex_ EXCEPT !.unique = {w}]
  /\ writer' = [writer EXCEPT ![w] = [at |-> op, key |-> k]]
  /\ UNCHANGED <<rows, json_cache, reader>>

\* A write that finds, or does not find, its row returns false.
WriteRow(w) ==
  LET k == writer[w].key
      ok == (writer[w].at = "insert") = (k \notin DOMAIN rows)
  IN /\ writer[w].at \in {"insert", "update", "delete"}
     /\ rows' = CASE ~ok                       -> rows
                  [] ok /\ writer[w].at = "delete" -> Without(rows, k)
                  [] OTHER                     -> With(rows, k, writes)
     /\ writer' = [writer EXCEPT ![w].at = IF ok THEN "invalidate" ELSE "unlock"]
     /\ UNCHANGED <<json_cache, mutex_, reader, writes>>

\* Mutant: only an update invalidates.
InvalidateUpdated(w) ==
  /\ writer[w].at = "invalidate"
  /\ json_cache' = IF writer[w].key \in DOMAIN rows THEN Without(json_cache, writer[w].key)
                   ELSE json_cache
  /\ writer' = [writer EXCEPT ![w].at = "unlock"]
  /\ UNCHANGED <<rows, mutex_, reader, writes>>

InvalidateJson(w) ==
  /\ writer[w].at = "invalidate"
  /\ json_cache' = Without(json_cache, writer[w].key)
  /\ writer' = [writer EXCEPT ![w].at = "unlock"]
  /\ UNCHANGED <<rows, mutex_, reader, writes>>

Unlock(w) ==
  /\ writer[w].at = "unlock"
  /\ mutex_' = [mutex_ EXCEPT !.unique = {}]
  /\ writer' = [writer EXCEPT ![w] = NotWriting]
  /\ UNCHANGED <<rows, json_cache, reader, writes>>

-----------------------------------------------------------------------------
(* HostTableScan over ScanJsonCached; GetJsonCached is the scan of one key.  *)

\* Mutant: the last byte is dropped without carrying into the one before it.
UpperBoundNoCarry(prefix) ==
  IF prefix = <<>> THEN <<>>
  ELSE [prefix EXCEPT ![Len(prefix)] = (@ + 1) % Byte]

\* The bound after every key with the prefix: the last byte that can be
\* incremented is, those behind it are dropped; empty is no bound.
UpperBound(prefix) ==
  LET can == {i \in 1..Len(prefix) : prefix[i] < Byte - 1}
      i == CHOOSE j \in can : \A h \in can : h <= j
  IN IF can = {} THEN <<>> ELSE [SubSeq(prefix, 1, i) EXCEPT ![i] = @ + 1]

\* lower_bound of the start; the end is included, and the callback looks at the
\* prefix again.
InRange(k, prefix) ==
  /\ prefix = <<>> \/ ~Less(k, prefix)
  /\ UpperBound(prefix) = <<>> \/ ~Less(UpperBound(prefix), k)

Scan(r, s) ==
  /\ reader[r].at = "idle" /\ mutex_.unique = {}
  /\ mutex_' = [mutex_ EXCEPT !.shared = @ \union {r}]
  /\ reader' = [reader EXCEPT ![r] =
       [at |-> "scan", scan |-> s, got |-> <<>>,
        todo |-> {k \in DOMAIN rows : InRange(k, s.prefix)}]]
  /\ UNCHANGED <<rows, json_cache, writer, writes>>

\* CachedJson, of the next row in key order: what the cache has, or the row as it
\* is.
CachedJson(r) ==
  /\ reader[r].at = "scan"
  /\ \E k \in reader[r].todo :
       LET value == IF k \in DOMAIN json_cache THEN json_cache[k] ELSE rows[k]
       IN /\ \A j \in reader[r].todo \ {k} : Less(k, j)
          /\ json_cache' = With(json_cache, k, value)
          /\ reader' = [reader EXCEPT ![r].todo = @ \ {k},
               ![r].got = IF IsPrefix(reader[r].scan.prefix, k) THEN With(@, k, value) ELSE @]
  /\ UNCHANGED <<rows, mutex_, writer, writes>>

Overlaid(f, g) == [k \in DOMAIN f \union DOMAIN g |-> IF k \in DOMAIN f THEN f[k] ELSE g[k]]

\* The overlay on top, the first limit rows in key order.
Merged(s, got) ==
  LET own == {k \in DOMAIN s.overlay : IsPrefix(s.prefix, k)}
      all == Overlaid([k \in own |-> s.overlay[k]], got)
      live == {k \in DOMAIN all : all[k] # Tombstone}
      n == IF s.limit < Cardinality(live) THEN s.limit ELSE Cardinality(live)
  IN [i \in 1..n |-> [key |-> Nth(live, i), value |-> all[Nth(live, i)]]]

\* The merge is of the call's own maps: whether it is before or after the end of
\* the lock makes no difference, and before it rows can be compared with.
ScanEnds(r) ==
  /\ reader[r].at = "scan" /\ reader[r].todo = {}
  /\ reader' = [reader EXCEPT ![r] = [at |-> "merged", scan |-> reader[r].scan,
                                      out |-> Merged(reader[r].scan, reader[r].got)]]
  /\ UNCHANGED <<rows, json_cache, mutex_, writer, writes>>

ScanReturns(r) ==
  /\ reader[r].at = "merged"
  /\ mutex_' = [mutex_ EXCEPT !.shared = @ \ {r}]
  /\ reader' = [reader EXCEPT ![r] = NotReading]
  /\ UNCHANGED <<rows, json_cache, writer, writes>>

MemNext ==
  \/ \E w \in Writers : \/ \E op \in {"insert", "update", "delete"}, k \in RowKeys : LockUnique(w, op, k)
                        \/ WriteRow(w) \/ InvalidateJson(w) \/ Unlock(w)
  \/ \E r \in Readers : \/ \E s \in Scans : Scan(r, s)
                        \/ CachedJson(r) \/ ScanEnds(r) \/ ScanReturns(r)

MemSpec == MemInit /\ [][MemNext]_memVars

-----------------------------------------------------------------------------
\* Whatever readers fill and writers erase, the memoized JSON of a key is that of
\* its present row, except while the writer that is changing it has not yet come
\* to InvalidateJson ("memoize the result per row and invalidate it on write").
CacheFresh ==
  \A k \in DOMAIN json_cache :
    \/ k \in DOMAIN rows /\ json_cache[k] = rows[k]
    \/ \E w \in Writers : writer[w].at = "invalidate" /\ writer[w].key = k

\* What host_table_scan returns is the first limit rows, in key order, of the
\* call's own view: every committed row with the prefix, also when the prefix
\* ends in 0xFF or is empty, with the overlay's writes and deletions.
ScanComplete ==
  \A r \in Readers : reader[r].at = "merged" =>
    LET s == reader[r].scan
        view == Overlaid(s.overlay, rows)
        due == {k \in DOMAIN view : IsPrefix(s.prefix, k) /\ view[k] # Tombstone}
        out == reader[r].out
    IN /\ Len(out) = IF s.limit < Cardinality(due) THEN s.limit ELSE Cardinality(due)
       /\ \A i \in 1..Len(out) :
            /\ out[i].key \in due /\ out[i].value = view[out[i].key]
            /\ Cardinality({k \in due : Less(k, out[i].key)}) = i - 1

=============================================================================
