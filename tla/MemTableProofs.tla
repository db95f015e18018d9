-------------------------- MODULE MemTableProofs --------------------------
(***************************************************************************)
(* Proofs about the memtable, for any number of readers and writers, any    *)
(* keys and any scans: the memoized JSON is never stale outside the write   *)
(* that is changing it, and a scan reads every row with its prefix, once    *)
(* and as it is.                                                            *)
(***************************************************************************)
EXTENDS MemTable, FiniteSetTheorems, SequenceTheorems, TLAPS

Bytes == 0..(Byte - 1)

-----------------------------------------------------------------------------
(***************************************************************************)
(* The range of a prefix.                                                   *)
(***************************************************************************)

\* A prefix agrees with what it is a prefix of, byte by byte.
LEMMA PrefixBytes ==
  ASSUME NEW p \in Seq(Bytes), NEW k \in Seq(Bytes), IsPrefix(p, k)
  PROVE  Len(p) <= Len(k) /\ \A i \in 1..Len(p) : p[i] = k[i]
  <1>1. Len(p) <= Len(k) /\ SubSeq(p, 1, Len(p)) = SubSeq(k, 1, Len(p))
    BY DEF IsPrefix
  <1>2. ASSUME NEW i \in 1..Len(p) PROVE p[i] = k[i]
    <2>1. SubSeq(p, 1, Len(p))[i] = p[i] /\ SubSeq(k, 1, Len(p))[i] = k[i]
      BY <1>1, SubSeqProperties
    <2> QED  BY <1>1, <2>1
  <1> QED  BY <1>1, <1>2

\* A non-empty set of numbers has a least one.
LEMMA Least ==
  ASSUME NEW T, T \subseteq Nat, T # {}
  PROVE  \E m \in T : \A n \in T : m <= n
  <1> DEFINE R == OpToRel(<, Nat)
  <1>1. \E m \in T : \A n \in T : ~(<<n, m>> \in R)
    <2> HIDE DEF R
    <2>1. IsWellFoundedOn(R, Nat)
      BY NatLessThanWellFounded DEF R
    <2> QED  BY <2>1, WFMin
  <1>2. \A m, n \in Nat : n < m => <<n, m>> \in R
    BY DEF OpToRel
  <1> HIDE DEF R
  <1>3. PICK m \in T : \A n \in T : ~(<<n, m>> \in R)
    BY <1>1
  <1>4. ASSUME NEW n \in T PROVE m <= n
    <2>1. m \in Nat /\ n \in Nat /\ ~(n < m)
      BY <1>2, <1>3
    <2> QED  BY <2>1
  <1> QED  BY <1>4

\* ... and one of numbers up to n a largest one.
LEMMA Largest ==
  ASSUME NEW n \in Nat, NEW T, T \subseteq 0..n, T # {}
  PROVE  \E m \in T : \A h \in T : h <= m
  <1> DEFINE U == {n - h : h \in T}
  <1>1. U \subseteq Nat /\ U # {}
    <2>1. \A h \in T : n - h \in Nat
      OBVIOUS
    <2>2. PICK h \in T : TRUE
      OBVIOUS
    <2>3. n - h \in U
      OBVIOUS
    <2> QED  BY <2>1, <2>3
  <1>2. PICK u \in U : \A h \in U : u <= h
    BY <1>1, Least
  <1>3. PICK m \in T : u = n - m
    OBVIOUS
  <1>4. \A h \in T : n - m <= n - h
    BY <1>2, <1>3
  <1> QED  BY <1>4

\* The bound has the bytes of the prefix up to one that it increments.
LEMMA UpperBoundBytes ==
  ASSUME NEW p \in Seq(Bytes), UpperBound(p) # <<>>
  PROVE  \E i \in 1..Len(p) :
           /\ UpperBound(p) \in Seq(Nat) /\ Len(UpperBound(p)) = i
           /\ UpperBound(p)[i] = p[i] + 1
           /\ \A j \in 1..(i - 1) : UpperBound(p)[j] = p[j]
  <1> DEFINE can == {i \in 1..Len(p) : p[i] < Byte - 1}
             i == CHOOSE j \in can : \A h \in can : h <= j
  <1>1. can # {} /\ UpperBound(p) = [SubSeq(p, 1, i) EXCEPT ![i] = @ + 1]
    BY DEF UpperBound
  <1>2. \E j \in can : \A h \in can : h <= j
    <2>1. Len(p) \in Nat /\ can \subseteq 0..Len(p)
      OBVIOUS
    <2> HIDE DEF can
    <2> QED  BY <1>1, <2>1, Largest
  <1>3. i \in can
    <2> HIDE DEF can
    <2> QED  BY <1>2
  <1>4. i \in 1..Len(p)
    BY <1>3
  <1> HIDE DEF i
  <1> DEFINE q == SubSeq(p, 1, i)
  <1>5. q \in Seq(Bytes) /\ Len(q) = i /\ \A j \in 1..i : q[j] = p[j]
    BY <1>4, SubSeqProperties
  <1>6. \A j \in 1..i : q[j] \in Nat
    <2>1. \A j \in 1..i : q[j] \in Bytes
      BY <1>5
    <2>2. Bytes \subseteq Nat
      BY MemConstants DEF Bytes
    <2> QED  BY <2>1, <2>2
  <1> HIDE DEF q
  <1>7. UpperBound(p) = [q EXCEPT ![i] = q[i] + 1]
    BY <1>1 DEF q
  <1>8. /\ UpperBound(p) \in Seq(Nat) /\ Len(UpperBound(p)) = i
        /\ UpperBound(p)[i] = p[i] + 1
        /\ \A j \in 1..(i - 1) : UpperBound(p)[j] = p[j]
    <2> DEFINE u == [q EXCEPT ![i] = q[i] + 1]
    <2>1. DOMAIN q = 1..i
      BY <1>5
    <2>2. u = [j \in 1..i |-> IF j = i THEN q[i] + 1 ELSE q[j]]
      BY <2>1
    <2>3. \A j \in 1..i : (IF j = i THEN q[i] + 1 ELSE q[j]) \in Nat
      BY <1>4, <1>6
    <2> HIDE DEF u
    <2>4. u \in Seq(Nat)
      <3>1. i \in Nat
        BY <1>4
      <3>2. \A j \in 1..i : u[j] \in Nat
        BY <2>2, <2>3
      <3>3. u = [j \in 1..i |-> u[j]]
        BY <2>2
      <3> QED  BY <3>1, <3>2, <3>3, IsASeq
    <2>5. Len(u) = i /\ u[i] = q[i] + 1 /\ \A j \in 1..(i - 1) : u[j] = q[j]
      BY <1>4, <2>2, <2>4
    <2>6. UpperBound(p) = u
      BY <1>7 DEF u
    <2> QED  BY <1>4, <1>5, <2>4, <2>5, <2>6
  <1> QED  BY <1>4, <1>8

\* "The bound after every key with the prefix" (ComputeUpperBound): every key with
\* the prefix is in the range that host_table_scan asks for, whatever its bytes,
\* also where the prefix ends in 0xFF or is all of them, or is empty.
THEOREM PrefixInRange ==
  ASSUME NEW p \in Seq(Bytes), NEW k \in Seq(Bytes), IsPrefix(p, k)
  PROVE  InRange(k, p)
  <1>1. Len(p) <= Len(k) /\ \A i \in 1..Len(p) : p[i] = k[i]
    BY PrefixBytes
  <1>2. /\ \A i \in 1..Len(p) : p[i] \in Nat
        /\ \A i \in 1..Len(k) : k[i] \in Nat
    BY MemConstants DEF Bytes
  <1>3. ~Less(k, p)
    <2>1. ~IsStrictPrefix(k, p)
      <3> SUFFICES ASSUME IsPrefix(k, p) PROVE k = p
        BY DEF IsStrictPrefix
      <3>1. Len(k) <= Len(p)
        BY PrefixBytes
      <3> QED  BY <1>1, <3>1
    <2>2. ~\E i \in 1..Len(k) : i <= Len(p) /\ k[i] < p[i]
      BY <1>1, <1>2
    <2> QED  BY <2>1, <2>2 DEF Less
  <1>4. ASSUME UpperBound(p) # <<>> PROVE ~Less(UpperBound(p), k)
    <2> DEFINE u == UpperBound(p)
    <2>1. PICK i \in 1..Len(p) :
            /\ u \in Seq(Nat) /\ Len(u) = i /\ u[i] = p[i] + 1
            /\ \A j \in 1..(i - 1) : u[j] = p[j]
      BY <1>4, UpperBoundBytes
    <2> HIDE DEF u
    <2>2. /\ i \in 1..Len(k) /\ u[i] = k[i] + 1 /\ k[i] \in Nat
          /\ \A j \in 1..(i - 1) : u[j] = k[j] /\ k[j] \in Nat
      BY <1>1, <1>2, <2>1
    <2>3. ~IsPrefix(u, k)
      <3> SUFFICES ASSUME IsPrefix(u, k) PROVE FALSE
        OBVIOUS
      <3>1. Len(u) <= Len(k) /\ SubSeq(u, 1, Len(u)) = SubSeq(k, 1, Len(u))
        BY DEF IsPrefix
      <3>2. SubSeq(u, 1, i)[i] = u[i] /\ SubSeq(k, 1, i)[i] = k[i]
        BY <2>1, <2>2, SubSeqProperties
      <3> QED  BY <2>1, <2>2, <3>1, <3>2
    <2>4. ASSUME NEW h \in 1..Len(u), h <= Len(k), u[h] < k[h] PROVE FALSE
      <3>1. h = i \/ h \in 1..(i - 1)
        BY <2>1
      <3> QED  BY <2>2, <2>4, <3>1
    <2>5. ~Less(u, k)
      BY <2>3, <2>4 DEF Less, IsStrictPrefix
    <2> QED  BY <2>5 DEF u
  <1> QED  BY <1>3, <1>4 DEF InRange

-----------------------------------------------------------------------------
(***************************************************************************)
(* The order of the keys.                                                   *)
(***************************************************************************)

\* Two strings agree on the first n bytes.
Agree(a, b, n) == n <= Len(a) /\ n <= Len(b) /\ \A i \in 1..n : a[i] = b[i]

Shorter(a, b) == Len(a) < Len(b) /\ Agree(a, b, Len(a))
Differ(a, b, i) == i <= Len(a) /\ i <= Len(b) /\ a[i] < b[i] /\ Agree(a, b, i - 1)

LEMMA BytesAreNumbers == ASSUME NEW a \in Seq(Bytes) PROVE \A i \in 1..Len(a) : a[i] \in Nat
  <1>1. Bytes \subseteq Nat
    BY MemConstants DEF Bytes
  <1>2. \A i \in 1..Len(a) : a[i] \in Bytes
    OBVIOUS
  <1> QED  BY <1>1, <1>2

LEMMA LessMeans ==
  ASSUME NEW a \in Seq(Bytes), NEW b \in Seq(Bytes)
  PROVE  Less(a, b) <=> Shorter(a, b) \/ \E i \in 1..Len(a) : Differ(a, b, i)
  <1>1. ASSUME IsStrictPrefix(a, b) PROVE Shorter(a, b)
    <2>1. Len(a) <= Len(b) /\ (\A i \in 1..Len(a) : a[i] = b[i]) /\ a # b
      BY <1>1, PrefixBytes DEF IsStrictPrefix
    <2>2. Len(a) # Len(b)
      BY <2>1
    <2> QED  BY <2>1, <2>2 DEF Shorter, Agree
  <1>2. ASSUME Shorter(a, b) PROVE IsStrictPrefix(a, b)
    <2> DEFINE x == SubSeq(a, 1, Len(a))
               y == SubSeq(b, 1, Len(a))
    <2>1. /\ x \in Seq(Bytes) /\ Len(x) = Len(a) /\ \A i \in 1..Len(a) : x[i] = a[i]
          /\ y \in Seq(Bytes) /\ Len(y) = Len(a) /\ \A i \in 1..Len(a) : y[i] = b[i]
      BY <1>2, SubSeqProperties DEF Shorter, Agree
    <2>2. \A i \in 1..Len(a) : a[i] = b[i]
      BY <1>2 DEF Shorter, Agree
    <2> HIDE DEF x, y
    <2>3. x = y
      BY <2>1, <2>2
    <2> QED  BY <1>2, <2>3 DEF x, y, IsStrictPrefix, IsPrefix, Shorter
  <1>3. \A i \in 1..Len(a) :
          Differ(a, b, i) <=> /\ i <= Len(b) /\ a[i] < b[i]
                              /\ \A j \in 1..(i - 1) : a[j] = b[j]
    BY DEF Differ, Agree
  <1> QED  BY <1>1, <1>2, <1>3 DEF Less

LEMMA LessIrreflexive == ASSUME NEW a \in Seq(Bytes) PROVE ~Less(a, a)
  BY LessMeans, BytesAreNumbers DEF Shorter, Differ

LEMMA LessTransitive ==
  ASSUME NEW a \in Seq(Bytes), NEW b \in Seq(Bytes), NEW c \in Seq(Bytes),
         Less(a, b), Less(b, c)
  PROVE  Less(a, c)
  <1>0. /\ \A i \in 1..Len(a) : a[i] \in Nat
        /\ \A i \in 1..Len(b) : b[i] \in Nat
        /\ \A i \in 1..Len(c) : c[i] \in Nat
    BY BytesAreNumbers
  <1>1. Shorter(a, b) \/ \E i \in 1..Len(a) : Differ(a, b, i)
    BY LessMeans
  <1>2. Shorter(b, c) \/ \E i \in 1..Len(b) : Differ(b, c, i)
    BY LessMeans
  <1>3. CASE Shorter(a, b) /\ Shorter(b, c)
    <2>1. Shorter(a, c)
      BY <1>3 DEF Shorter, Agree
    <2> QED  BY <2>1, LessMeans
  <1>4. ASSUME Shorter(a, b), NEW j \in 1..Len(b), Differ(b, c, j) PROVE Less(a, c)
    <2>1. CASE j <= Len(a)
      <3>1. j \in 1..Len(a) /\ Differ(a, c, j)
        BY <1>4, <2>1 DEF Shorter, Differ, Agree
      <3> QED  BY <3>1, LessMeans
    <2>2. CASE j > Len(a)
      <3>1. Shorter(a, c)
        BY <1>4, <2>2 DEF Shorter, Differ, Agree
      <3> QED  BY <3>1, LessMeans
    <2> QED  BY <2>1, <2>2
  <1>5. ASSUME NEW i \in 1..Len(a), Differ(a, b, i), Shorter(b, c) PROVE Less(a, c)
    <2>1. Differ(a, c, i)
      BY <1>5 DEF Shorter, Differ, Agree
    <2> QED  BY <2>1, LessMeans
  <1>6. ASSUME NEW i \in 1..Len(a), Differ(a, b, i), NEW j \in 1..Len(b), Differ(b, c, j)
        PROVE  Less(a, c)
    <2>1. CASE i <= j
      <3>1. /\ i <= Len(b) /\ i <= Len(c) /\ a[i] < b[i]
            /\ \A h \in 1..(i - 1) : a[h] = b[h] /\ b[h] = c[h]
        BY <1>6, <2>1 DEF Differ, Agree
      <3>2. b[i] = c[i] \/ b[i] < c[i]
        BY <1>6, <2>1, <3>1 DEF Differ, Agree
      <3>3. a[i] \in Nat /\ b[i] \in Nat /\ c[i] \in Nat
        BY <1>0, <3>1
      <3>4. a[i] < c[i]
        BY <3>1, <3>2, <3>3
      <3>5. Differ(a, c, i)
        BY <3>1, <3>4 DEF Differ, Agree
      <3> QED  BY <3>5, LessMeans
    <2>2. CASE j < i
      <3>1. j \in 1..Len(a) /\ Differ(a, c, j)
        BY <1>6, <2>2 DEF Differ, Agree
      <3> QED  BY <3>1, LessMeans
    <2> QED  BY <2>1, <2>2
  <1> QED  BY <1>1, <1>2, <1>3, <1>4, <1>5, <1>6

LEMMA LessTotal ==
  ASSUME NEW a \in Seq(Bytes), NEW b \in Seq(Bytes), a # b
  PROVE  Less(a, b) \/ Less(b, a)
  <1> DEFINE T == {i \in 1..Len(a) : i <= Len(b) /\ a[i] # b[i]}
  <1>0. /\ \A i \in 1..Len(a) : a[i] \in Nat
        /\ \A i \in 1..Len(b) : b[i] \in Nat
    BY BytesAreNumbers
  <1>1. CASE T = {}
    <2>1. \A i \in 1..Len(a) : i <= Len(b) => a[i] = b[i]
      BY <1>1
    <2>2. Len(a) # Len(b)
      BY <2>1
    <2>3. Shorter(a, b) \/ Shorter(b, a)
      BY <2>1, <2>2 DEF Shorter, Agree
    <2> QED  BY <2>3, LessMeans
  <1>2. CASE T # {}
    <2>1. T \subseteq Nat
      OBVIOUS
    <2>2. PICK m \in T : \A n \in T : m <= n
      <3> HIDE DEF T
      <3> QED  BY <1>2, <2>1, Least
    <2>3. m \in 1..Len(a) /\ m <= Len(b) /\ a[m] # b[m]
      OBVIOUS
    <2>4. \A j \in 1..(m - 1) : a[j] = b[j]
      <3> SUFFICES ASSUME NEW j \in 1..(m - 1), a[j] # b[j] PROVE FALSE
        OBVIOUS
      <3>1. j \in T
        BY <2>3
      <3> QED  BY <2>2, <2>3, <3>1
    <2>5. m \in 1..Len(b) /\ (Differ(a, b, m) \/ Differ(b, a, m))
      BY <1>0, <2>3, <2>4 DEF Differ, Agree
    <2> QED  BY <2>3, <2>5, LessMeans
  <1> QED  BY <1>1, <1>2

\* There is an i-th key: the number of smaller ones tells keys apart, and is less than
\* the number of keys.
LEMMA NthIsThere ==
  ASSUME NEW S, S \subseteq Seq(Bytes), IsFiniteSet(S), NEW i \in 1..Cardinality(S)
  PROVE  Nth(S, i) \in S /\ Cardinality({j \in S : Less(j, Nth(S, i))}) = i - 1
  <1> DEFINE Smaller(k) == {j \in S : Less(j, k)}
             n == Cardinality(S)
             f == [k \in S |-> Cardinality(Smaller(k))]
  <1>0. n \in Nat
    BY FS_CardinalityType
  <1>1. ASSUME NEW k \in S
        PROVE  IsFiniteSet(Smaller(k)) /\ Cardinality(Smaller(k)) \in 0..(n - 1)
    <2>1. Smaller(k) \in SUBSET S /\ k \notin Smaller(k)
      BY LessIrreflexive
    <2> HIDE DEF Smaller
    <2>2. IsFiniteSet(Smaller(k)) /\ Cardinality(Smaller(k)) <= n /\ Cardinality(Smaller(k)) # n
      BY <2>1, FS_Subset
    <2>3. Cardinality(Smaller(k)) \in Nat
      BY <2>2, FS_CardinalityType
    <2> QED  BY <1>0, <2>2, <2>3
  <1>2. ASSUME NEW a \in S, NEW b \in S, Less(a, b)
        PROVE  Cardinality(Smaller(a)) # Cardinality(Smaller(b))
    <2>1. Smaller(a) \in SUBSET Smaller(b)
      BY <1>2, LessTransitive
    <2>2. a \in Smaller(b) /\ a \notin Smaller(a)
      BY <1>2, LessIrreflexive
    <2> HIDE DEF Smaller
    <2> QED  BY <1>1, <2>1, <2>2, FS_Subset
  <1>3. f \in Injection(S, 0..(n - 1))
    <2>1. f \in [S -> 0..(n - 1)]
      BY <1>1
    <2>2. ASSUME NEW a \in S, NEW b \in S, f[a] = f[b] PROVE a = b
      <3> SUFFICES ASSUME a # b PROVE FALSE
        OBVIOUS
      <3>1. Less(a, b) \/ Less(b, a)
        BY LessTotal
      <3> HIDE DEF Smaller
      <3>2. Cardinality(Smaller(a)) = Cardinality(Smaller(b))
        BY <2>2
      <3> QED  BY <1>2, <3>1, <3>2
    <2> HIDE DEF f
    <2> QED  BY <2>1, <2>2 DEF Injection, IsInjective
  <1>4. f \in Surjection(S, 0..(n - 1))
    <2>1. IsFiniteSet(0..(n - 1)) /\ Cardinality(0..(n - 1)) = n
      <3> HIDE DEF n
      <3>1. 0 \in Int /\ n - 1 \in Int /\ (n - 1) - 0 + 1 = n /\ (0 > n - 1 => n = 0)
        BY <1>0
      <3> QED  BY <3>1, FS_Interval
    <2> HIDE DEF f, n
    <2>2. Cardinality(S) = Cardinality(0..(n - 1))
      BY <2>1 DEF n
    <2> QED  BY <1>3, <2>1, <2>2, FS_Injection
  <1>5. \E k \in S : Cardinality(Smaller(k)) = i - 1
    <2>1. i - 1 \in 0..(n - 1)
      BY <1>0
    <2> HIDE DEF n, Smaller
    <2> QED  BY <1>4, <2>1 DEF Surjection
  <1> HIDE DEF Smaller
  <1>6. Nth(S, i) = CHOOSE k \in S : Cardinality(Smaller(k)) = i - 1
    BY DEF Nth, Smaller
  <1>7. Nth(S, i) \in S /\ Cardinality(Smaller(Nth(S, i))) = i - 1
    BY <1>5, <1>6
  <1> QED  BY <1>7 DEF Smaller

-----------------------------------------------------------------------------
(***************************************************************************)
(* The answer of a scan.                                                    *)
(***************************************************************************)

\* What ScanComplete says of one answer.
Answers(s, tab, out) ==
  LET view == Overlaid(s.overlay, tab)
      due == {k \in DOMAIN view : IsPrefix(s.prefix, k) /\ view[k] # Tombstone}
  IN /\ Len(out) = IF s.limit < Cardinality(due) THEN s.limit ELSE Cardinality(due)
     /\ \A i \in 1..Len(out) :
          /\ out[i].key \in due /\ out[i].value = view[out[i].key]
          /\ Cardinality({k \in due : Less(k, out[i].key)}) = i - 1

LEMMA AnswersMeans ==
  ScanComplete <=> \A r \in Readers : reader[r].at = "merged" =>
                     Answers(reader[r].scan, rows, reader[r].out)
  BY Zenon DEF ScanComplete, Answers

\* The overlay merged into all the rows with the prefix is the view of the call.
LEMMA MergedAnswers ==
  ASSUME NEW s \in Scans, NEW tab, IsFiniteSet(DOMAIN tab), DOMAIN tab \subseteq RowKeys,
         NEW got,
         \A k : k \in DOMAIN got <=> k \in DOMAIN tab /\ IsPrefix(s.prefix, k),
         \A k \in DOMAIN got : got[k] = tab[k]
  PROVE  Answers(s, tab, Merged(s, got))
  <1> DEFINE own == {k \in DOMAIN s.overlay : IsPrefix(s.prefix, k)}
             mine == [k \in own |-> s.overlay[k]]
             all == Overlaid(mine, got)
             live == {k \in DOMAIN all : all[k] # Tombstone}
             n == IF s.limit < Cardinality(live) THEN s.limit ELSE Cardinality(live)
             out == [i \in 1..n |-> [key |-> Nth(live, i), value |-> all[Nth(live, i)]]]
             view == Overlaid(s.overlay, tab)
             due == {k \in DOMAIN view : IsPrefix(s.prefix, k) /\ view[k] # Tombstone}
  <1>1. Merged(s, got) = out
    BY DEF Merged
  <1>2. DOMAIN view = DOMAIN s.overlay \union DOMAIN tab
    BY DEF Overlaid
  <1>3. DOMAIN all = own \union DOMAIN got
    BY DEF Overlaid
  <1>4. \A k : k \in DOMAIN all <=> k \in DOMAIN view /\ IsPrefix(s.prefix, k)
    BY <1>2, <1>3
  <1>5. ASSUME NEW k \in DOMAIN all PROVE all[k] = view[k]
    <2>1. all[k] = IF k \in own THEN s.overlay[k] ELSE got[k]
      BY <1>3 DEF Overlaid
    <2>2. view[k] = IF k \in DOMAIN s.overlay THEN s.overlay[k] ELSE tab[k]
      BY <1>2, <1>4 DEF Overlaid
    <2>3. k \in own <=> k \in DOMAIN s.overlay
      BY <1>4
    <2>4. k \notin own => k \in DOMAIN got
      BY <1>3
    <2> QED  BY <2>1, <2>2, <2>3, <2>4
  <1>6. IsFiniteSet(DOMAIN view) /\ DOMAIN view \subseteq Seq(Bytes)
    <2>1. IsFiniteSet(DOMAIN s.overlay) /\ DOMAIN s.overlay \subseteq Seq(Bytes)
      BY MemConstants DEF Bytes
    <2>2. DOMAIN tab \subseteq Seq(Bytes)
      BY MemConstants DEF Bytes
    <2> QED  BY <1>2, <2>1, <2>2, FS_Union
  <1> HIDE DEF all, view, own, mine
  <1>7. live = due
    BY <1>4, <1>5
  <1>8. live \subseteq Seq(Bytes) /\ IsFiniteSet(live)
    <2>1. live \in SUBSET DOMAIN view
      BY <1>7
    <2> HIDE DEF live, due
    <2> QED  BY <1>6, <2>1, FS_Subset
  <1>9. \A k \in live : all[k] = view[k]
    BY <1>5
  <1> HIDE DEF live, due
  <1>10. s.limit \in Nat /\ Cardinality(live) \in Nat /\ n \in Nat /\ n <= Cardinality(live)
    BY <1>8, MemConstants, FS_CardinalityType
  <1> HIDE DEF n
  <1>11. Len(out) = n /\ \A i \in 1..n : out[i] = [key |-> Nth(live, i), value |-> all[Nth(live, i)]]
    <2> HIDE DEF out
    <2>1. DOMAIN out = 1..n
      BY DEF out
    <2>2. out \in Seq({out[i] : i \in 1..n})
      <3>1. out = [i \in 1..n |-> out[i]]
        BY DEF out
      <3>2. \A i \in 1..n : out[i] \in {out[j] : j \in 1..n}
        OBVIOUS
      <3> QED  BY <1>10, <3>1, <3>2, IsASeq
    <2>3. DOMAIN out = 1..Len(out) /\ Len(out) \in Nat
      BY <2>2, LenProperties
    <2>4. Len(out) = n
      BY <1>10, <2>1, <2>3
    <2> QED  BY <2>4 DEF out
  <1> HIDE DEF out
  <1>12. ASSUME NEW i \in 1..n
         PROVE  /\ out[i].key \in live /\ out[i].value = view[out[i].key]
                /\ Cardinality({k \in live : Less(k, out[i].key)}) = i - 1
    <2>1. i \in 1..Cardinality(live)
      BY <1>10
    <2>2. Nth(live, i) \in live /\ Cardinality({j \in live : Less(j, Nth(live, i))}) = i - 1
      BY <1>8, <2>1, NthIsThere
    <2>3. out[i].key = Nth(live, i) /\ out[i].value = all[Nth(live, i)]
      BY <1>11
    <2> QED  BY <1>9, <2>2, <2>3
  <1>13. Answers(s, tab, out)
    <2>1. Len(out) = IF s.limit < Cardinality(due) THEN s.limit ELSE Cardinality(due)
      BY <1>7, <1>11 DEF n
    <2>2. ASSUME NEW i \in 1..Len(out)
          PROVE  /\ out[i].key \in due /\ out[i].value = view[out[i].key]
                 /\ Cardinality({k \in due : Less(k, out[i].key)}) = i - 1
      BY <1>7, <1>11, <1>12
    <2> QED  BY <2>1, <2>2, Zenon DEF Answers, due, view
  <1> QED  BY <1>1, <1>13

-----------------------------------------------------------------------------
(***************************************************************************)
(* The inductive invariant.                                                 *)
(***************************************************************************)

Shapes ==
  /\ DOMAIN mutex_ = {"shared", "unique"}
  /\ DOMAIN reader = Readers /\ DOMAIN writer = Writers
  /\ \A w \in Writers : writer[w].at # "idle" =>
       DOMAIN writer[w] = {"at", "key"} /\ writer[w].key \in RowKeys
  /\ \A r \in Readers : reader[r].at = "scan" =>
       DOMAIN reader[r] = {"at", "scan", "got", "todo"}
  /\ \A r \in Readers : reader[r].at # "idle" => reader[r].scan \in Scans
  /\ IsFiniteSet(DOMAIN rows) /\ DOMAIN rows \subseteq RowKeys

\* Who is inside holds the lock, and a writer is alone.
Locks ==
  /\ \A w \in Writers : writer[w].at # "idle" => mutex_.unique = {w}
  /\ \A r \in Readers : reader[r].at # "idle" => r \in mutex_.shared
  /\ mutex_.unique = {} \/ mutex_.shared = {}

\* A scan has read its rows as they are, and has still to come to the others with
\* its prefix.
Gathered ==
  \A r \in Readers : reader[r].at = "scan" =>
    LET s == reader[r].scan
        got == reader[r].got
    IN /\ reader[r].todo \subseteq DOMAIN rows
       /\ got = [k \in DOMAIN got |-> got[k]]
       /\ \A k \in DOMAIN got : k \in DOMAIN rows /\ IsPrefix(s.prefix, k) /\ got[k] = rows[k]
       /\ \A k \in DOMAIN rows : IsPrefix(s.prefix, k) => k \in reader[r].todo \union DOMAIN got

MemInv == Shapes /\ Locks /\ CacheFresh /\ Gathered /\ ScanComplete

\* Rows, cache and reader are the same: so are the parts about them.
LEMMA ScansKept ==
  ASSUME MemInv, UNCHANGED <<rows, reader>>
  PROVE  Gathered' /\ ScanComplete'
  <1>1. Gathered /\ ScanComplete
    BY DEF MemInv
  <1>2. Gathered'
    BY <1>1 DEF Gathered
  <1>3. ScanComplete'
    <2>1. \A r \in Readers : reader[r].at = "merged" => Answers(reader[r].scan, rows, reader[r].out)
      BY <1>1, AnswersMeans
    <2>2. ScanComplete' <=> \A r \in Readers : reader'[r].at = "merged" =>
                              Answers(reader'[r].scan, rows', reader'[r].out)
      BY Zenon DEF ScanComplete, Answers
    <2> QED  BY <2>1, <2>2
  <1> QED  BY <1>2, <1>3

LEMMA MemInitially == MemInit => MemInv
  <1> SUFFICES ASSUME MemInit PROVE MemInv
    OBVIOUS
  <1>1. \A w \in Writers : writer[w].at = "idle"
    BY DEF MemInit, NotWriting
  <1>2. \A r \in Readers : reader[r].at = "idle"
    BY DEF MemInit, NotReading
  <1>3. DOMAIN rows = {} /\ DOMAIN json_cache = {}
    BY DEF MemInit
  <1>4. Shapes
    BY <1>1, <1>2, <1>3, FS_EmptySet DEF MemInit, Shapes
  <1>5. Locks
    BY <1>1, <1>2 DEF MemInit, Locks
  <1>6. CacheFresh
    BY <1>3 DEF CacheFresh
  <1>7. Gathered
    BY <1>2 DEF Gathered
  <1>8. ScanComplete
    BY <1>2, AnswersMeans
  <1> QED  BY <1>4, <1>5, <1>6, <1>7, <1>8 DEF MemInv

LEMMA LockStep ==
  ASSUME MemInv, NEW w \in Writers, NEW op \in {"insert", "update", "delete"},
         NEW k \in RowKeys, LockUnique(w, op, k)
  PROVE  MemInv'
  <1> USE DEF LockUnique
  <1>1. Shapes /\ Locks /\ CacheFresh
    BY DEF MemInv
  <1>2. /\ writer'[w] = [at |-> op, key |-> k]
        /\ \A v \in Writers \ {w} : writer'[v] = writer[v]
        /\ DOMAIN writer' = Writers
    BY <1>1 DEF Shapes
  <1>3. mutex_'.unique = {w} /\ mutex_'.shared = {} /\ DOMAIN mutex_' = {"shared", "unique"}
    OBVIOUS
  <1>4. \A v \in Writers : writer[v].at = "idle"
    BY <1>1 DEF Locks
  <1>5. \A r \in Readers : reader[r].at = "idle"
    BY <1>1 DEF Locks
  <1>6. Shapes'
    BY <1>1, <1>2, <1>3, <1>4, <1>5 DEF Shapes
  <1>7. Locks'
    BY <1>2, <1>3, <1>4, <1>5 DEF Locks
  <1>8. CacheFresh'
    BY <1>1, <1>4 DEF CacheFresh
  <1> QED  BY <1>6, <1>7, <1>8, ScansKept DEF MemInv

\* While a writer is inside nobody else is.
LEMMA WriterAlone ==
  ASSUME MemInv, NEW w \in Writers, writer[w].at # "idle"
  PROVE  /\ \A v \in Writers \ {w} : writer[v].at = "idle"
         /\ \A r \in Readers : reader[r].at = "idle"
         /\ mutex_.unique = {w} /\ mutex_.shared = {}
  BY DEF MemInv, Locks

\* ... and without readers there is nothing to say about them.
LEMMA NoReaders ==
  ASSUME \A r \in Readers : reader'[r].at = "idle"
  PROVE  Gathered' /\ ScanComplete'
  <1>1. ScanComplete'
    BY Zenon DEF ScanComplete
  <1> QED  BY <1>1 DEF Gathered

LEMMA WriteRowStep ==
  ASSUME MemInv, NEW w \in Writers, WriteRow(w)
  PROVE  MemInv'
  <1> DEFINE k == writer[w].key
             ok == (writer[w].at = "insert") = (k \notin DOMAIN rows)
  <1>0. /\ writer[w].at \in {"insert", "update", "delete"}
        /\ \/ ~ok /\ rows' = rows
           \/ ok /\ rows' = Without(rows, k)
           \/ ok /\ rows' = With(rows, k, writes)
        /\ writer' = [writer EXCEPT ![w].at = IF ok THEN "invalidate" ELSE "unlock"]
        /\ UNCHANGED <<json_cache, mutex_, reader, writes>>
    BY DEF WriteRow
  <1>1. Shapes /\ Locks /\ CacheFresh
    BY DEF MemInv
  <1>2. /\ \A v \in Writers \ {w} : writer[v].at = "idle"
        /\ \A r \in Readers : reader[r].at = "idle"
        /\ mutex_.unique = {w} /\ mutex_.shared = {}
    BY <1>0, WriterAlone
  <1>3. DOMAIN writer[w] = {"at", "key"} /\ k \in RowKeys /\ DOMAIN writer = Writers
    BY <1>0, <1>1 DEF Shapes
  <1> HIDE DEF k
  <1>4. /\ DOMAIN writer' = Writers /\ \A v \in Writers \ {w} : writer'[v] = writer[v]
        /\ DOMAIN writer'[w] = {"at", "key"} /\ writer'[w].key = k
        /\ writer'[w].at = IF ok THEN "invalidate" ELSE "unlock"
    BY <1>0, <1>3 DEF k
  <1> HIDE DEF ok
  <1>5. /\ \A j : j # k => (j \in DOMAIN rows' <=> j \in DOMAIN rows)
        /\ \A j \in DOMAIN rows : j # k => rows'[j] = rows[j]
        /\ DOMAIN rows' \subseteq DOMAIN rows \union {k}
        /\ ok \/ rows' = rows
    <2>1. CASE rows' = rows
      BY <2>1
    <2>2. CASE ok /\ rows' = Without(rows, k)
      BY <2>2 DEF Without
    <2>3. CASE ok /\ rows' = With(rows, k, writes)
      BY <2>3 DEF With
    <2> QED  BY <1>0, <2>1, <2>2, <2>3
  <1>6. IsFiniteSet(DOMAIN rows')
    <2>1. IsFiniteSet(DOMAIN rows \union {k})
      BY <1>1, FS_AddElement DEF Shapes
    <2> QED  BY <1>5, <2>1, FS_Subset
  <1>7. Shapes'
    <2>1. DOMAIN rows' \subseteq RowKeys
      BY <1>1, <1>3, <1>5 DEF Shapes
    <2> QED  BY <1>0, <1>1, <1>2, <1>3, <1>4, <1>6, <2>1 DEF Shapes
  <1>8. Locks'
    BY <1>0, <1>2, <1>4 DEF Locks
  <1>9. CacheFresh'
    <2> SUFFICES ASSUME NEW j \in DOMAIN json_cache
                 PROVE  \/ j \in DOMAIN rows' /\ json_cache[j] = rows'[j]
                        \/ writer'[w].at = "invalidate" /\ writer'[w].key = j
      BY <1>0 DEF CacheFresh
    <2>1. j \in DOMAIN rows /\ json_cache[j] = rows[j]
      BY <1>0, <1>1, <1>2 DEF CacheFresh
    <2>2. CASE j # k
      BY <1>5, <2>1, <2>2
    <2>3. CASE j = k
      BY <1>4, <1>5, <2>1, <2>3
    <2> QED  BY <2>2, <2>3
  <1>10. Gathered' /\ ScanComplete'
    BY <1>0, <1>2, NoReaders
  <1> QED  BY <1>7, <1>8, <1>9, <1>10 DEF MemInv

LEMMA InvalidateStep ==
  ASSUME MemInv, NEW w \in Writers, InvalidateJson(w)
  PROVE  MemInv'
  <1> USE DEF InvalidateJson
  <1>1. Shapes /\ Locks /\ CacheFresh
    BY DEF MemInv
  <1>2. /\ \A v \in Writers \ {w} : writer[v].at = "idle"
        /\ \A r \in Readers : reader[r].at = "idle"
        /\ mutex_.unique = {w} /\ mutex_.shared = {}
    BY WriterAlone
  <1>3. DOMAIN writer[w] = {"at", "key"} /\ writer[w].key \in RowKeys /\ DOMAIN writer = Writers
    BY <1>1 DEF Shapes
  <1>4. /\ DOMAIN writer' = Writers /\ \A v \in Writers \ {w} : writer'[v] = writer[v]
        /\ DOMAIN writer'[w] = {"at", "key"} /\ writer'[w].key = writer[w].key
        /\ writer'[w].at = "unlock"
    BY <1>3
  <1>5. Shapes'
    BY <1>1, <1>3, <1>4 DEF Shapes
  <1>6. Locks'
    BY <1>2, <1>4 DEF Locks
  <1>7. CacheFresh'
    <2> SUFFICES ASSUME NEW j \in DOMAIN json_cache'
                 PROVE  j \in DOMAIN rows' /\ json_cache'[j] = rows'[j]
      BY DEF CacheFresh
    <2>1. j \in DOMAIN json_cache /\ j # writer[w].key /\ json_cache'[j] = json_cache[j]
      BY DEF Without
    <2>2. j \in DOMAIN rows /\ json_cache[j] = rows[j]
      BY <1>1, <1>2, <2>1 DEF CacheFresh
    <2> QED  BY <2>1, <2>2
  <1> QED  BY <1>5, <1>6, <1>7, ScansKept DEF MemInv

LEMMA UnlockStep ==
  ASSUME MemInv, NEW w \in Writers, Unlock(w)
  PROVE  MemInv'
  <1> USE DEF Unlock
  <1>1. Shapes /\ Locks /\ CacheFresh
    BY DEF MemInv
  <1>2. /\ \A v \in Writers \ {w} : writer[v].at = "idle"
        /\ \A r \in Readers : reader[r].at = "idle"
    BY WriterAlone
  <1>3. /\ DOMAIN writer' = Writers /\ \A v \in Writers : writer'[v].at = "idle"
    BY <1>1, <1>2 DEF Shapes, NotWriting
  <1>4. mutex_'.unique = {} /\ DOMAIN mutex_' = {"shared", "unique"}
    BY <1>1 DEF Shapes
  <1>5. Shapes'
    BY <1>1, <1>3, <1>4 DEF Shapes
  <1>6. Locks'
    BY <1>2, <1>3, <1>4 DEF Locks
  <1>7. CacheFresh'
    BY <1>1, <1>2 DEF CacheFresh
  <1> QED  BY <1>5, <1>6, <1>7, ScansKept DEF MemInv

\* While a reader is inside, no writer is: the cache has the rows as they are.
LEMMA ReaderInside ==
  ASSUME MemInv, mutex_.unique = {}
  PROVE  /\ \A w \in Writers : writer[w].at = "idle"
         /\ \A k \in DOMAIN json_cache : k \in DOMAIN rows /\ json_cache[k] = rows[k]
  BY DEF MemInv, Locks, CacheFresh

\* What Gathered says of one scan.
Gathers(s, todo, got, tab) ==
  /\ todo \subseteq DOMAIN tab
  /\ got = [k \in DOMAIN got |-> got[k]]
  /\ \A k \in DOMAIN got : k \in DOMAIN tab /\ IsPrefix(s.prefix, k) /\ got[k] = tab[k]
  /\ \A k \in DOMAIN tab : IsPrefix(s.prefix, k) => k \in todo \union DOMAIN got

\* A step of one reader keeps what holds for the others.
LEMMA ReaderStep ==
  ASSUME MemInv, NEW r \in Readers, UNCHANGED rows,
         \A q \in Readers \ {r} : reader'[q] = reader[q],
         reader'[r].at = "scan" =>
           Gathers(reader'[r].scan, reader'[r].todo, reader'[r].got, rows),
         reader'[r].at = "merged" => Answers(reader'[r].scan, rows, reader'[r].out)
  PROVE  Gathered' /\ ScanComplete'
  <1>1. \A q \in Readers : reader[q].at = "scan" =>
          Gathers(reader[q].scan, reader[q].todo, reader[q].got, rows)
    BY DEF MemInv, Gathered, Gathers
  <1>2. \A q \in Readers : reader'[q].at = "scan" =>
          Gathers(reader'[q].scan, reader'[q].todo, reader'[q].got, rows)
    BY <1>1
  <1>3. Gathered'
    BY <1>2 DEF Gathered, Gathers
  <1>4. \A q \in Readers : reader[q].at = "merged" => Answers(reader[q].scan, rows, reader[q].out)
    BY AnswersMeans DEF MemInv
  <1>5. \A q \in Readers : reader'[q].at = "merged" =>
          Answers(reader'[q].scan, rows, reader'[q].out)
    BY <1>4
  <1>6. ScanComplete' <=> \A q \in Readers : reader'[q].at = "merged" =>
                            Answers(reader'[q].scan, rows', reader'[q].out)
    BY Zenon DEF ScanComplete, Answers
  <1> QED  BY <1>3, <1>5, <1>6

LEMMA ScanStep ==
  ASSUME MemInv, NEW r \in Readers, NEW s \in Scans, Scan(r, s)
  PROVE  MemInv'
  <1> USE DEF Scan
  <1>1. Shapes /\ Locks /\ CacheFresh
    BY DEF MemInv
  <1>2. \A w \in Writers : writer[w].at = "idle"
    BY ReaderInside
  <1> DEFINE x == [at |-> "scan", scan |-> s, got |-> <<>>,
                   todo |-> {k \in DOMAIN rows : InRange(k, s.prefix)}]
  <1>3. DOMAIN reader' = Readers /\ reader'[r] = x /\ \A q \in Readers \ {r} : reader'[q] = reader[q]
    BY <1>1 DEF Shapes
  <1>4. mutex_'.unique = {} /\ mutex_'.shared = mutex_.shared \union {r}
        /\ DOMAIN mutex_' = {"shared", "unique"}
    BY <1>1 DEF Shapes
  <1>5. Shapes'
    BY <1>1, <1>3, <1>4 DEF Shapes
  <1>6. Locks'
    BY <1>1, <1>2, <1>3, <1>4 DEF Locks
  <1>7. CacheFresh'
    BY <1>1 DEF CacheFresh
  <1>8. Gathers(x.scan, x.todo, x.got, rows)
    <2>1. ASSUME NEW k \in DOMAIN rows, IsPrefix(s.prefix, k) PROVE InRange(k, s.prefix)
      <3>1. s.prefix \in Seq(Bytes) /\ k \in Seq(Bytes)
        BY <1>1, MemConstants DEF Shapes, Bytes
      <3> QED  BY <2>1, <3>1, PrefixInRange
    <2>2. DOMAIN x.got = {} /\ x.got = [k \in DOMAIN x.got |-> x.got[k]]
      OBVIOUS
    <2> QED  BY <2>1, <2>2 DEF Gathers
  <1>9. Gathered' /\ ScanComplete'
    BY <1>3, <1>8, ReaderStep
  <1> QED  BY <1>5, <1>6, <1>7, <1>9 DEF MemInv

LEMMA CachedJsonStep ==
  ASSUME MemInv, NEW r \in Readers, CachedJson(r)
  PROVE  MemInv'
  <1>1. Shapes /\ Locks /\ Gathered
    BY DEF MemInv
  <1>2. PICK k \in reader[r].todo :
          LET value == IF k \in DOMAIN json_cache THEN json_cache[k] ELSE rows[k]
          IN /\ json_cache' = With(json_cache, k, value)
             /\ reader' = [reader EXCEPT ![r].todo = @ \ {k},
                  ![r].got = IF IsPrefix(reader[r].scan.prefix, k) THEN With(@, k, value) ELSE @]
    BY DEF CachedJson
  <1>3. reader[r].at = "scan" /\ UNCHANGED <<rows, mutex_, writer, writes>>
    BY DEF CachedJson
  <1>4. mutex_.unique = {}
    BY <1>1, <1>3 DEF Locks
  <1>5. /\ \A w \in Writers : writer[w].at = "idle"
        /\ \A j \in DOMAIN json_cache : j \in DOMAIN rows /\ json_cache[j] = rows[j]
    BY <1>4, ReaderInside
  <1>6. Gathers(reader[r].scan, reader[r].todo, reader[r].got, rows)
    BY <1>1, <1>3 DEF Gathered, Gathers
  <1>7. k \in DOMAIN rows /\ json_cache' = With(json_cache, k, rows[k])
    BY <1>2, <1>5, <1>6 DEF Gathers
  <1> DEFINE s == reader[r].scan
             got == reader[r].got
             more == IF IsPrefix(s.prefix, k) THEN With(got, k, rows[k]) ELSE got
  <1>8. reader' = [reader EXCEPT ![r].todo = @ \ {k}, ![r].got = more]
    BY <1>2, <1>5
  <1>9. DOMAIN reader = Readers /\ DOMAIN reader[r] = {"at", "scan", "got", "todo"}
    BY <1>1, <1>3 DEF Shapes
  <1> HIDE DEF more
  <1>10. /\ DOMAIN reader' = Readers /\ \A q \in Readers \ {r} : reader'[q] = reader[q]
         /\ DOMAIN reader'[r] = {"at", "scan", "got", "todo"}
         /\ reader'[r].at = "scan" /\ reader'[r].scan = s
         /\ reader'[r].todo = reader[r].todo \ {k} /\ reader'[r].got = more
    BY <1>3, <1>8, <1>9
  <1>11. Shapes'
    <2>1. \A q \in Readers : reader'[q].at = "scan" =>
            DOMAIN reader'[q] = {"at", "scan", "got", "todo"}
      BY <1>1, <1>10 DEF Shapes
    <2>2. \A q \in Readers : reader'[q].at # "idle" => reader'[q].scan \in Scans
      BY <1>1, <1>3, <1>10 DEF Shapes
    <2> QED  BY <1>1, <1>3, <1>10, <2>1, <2>2 DEF Shapes
  <1>12. Locks'
    <2>1. \A q \in Readers : reader'[q].at # "idle" => q \in mutex_.shared
      BY <1>1, <1>3, <1>10 DEF Locks
    <2> QED  BY <1>1, <1>3, <2>1 DEF Locks
  <1>13. CacheFresh'
    <2>1. \A j \in DOMAIN json_cache' : j \in DOMAIN rows /\ json_cache'[j] = rows[j]
      BY <1>5, <1>7 DEF With
    <2> QED  BY <1>3, <2>1 DEF CacheFresh
  <1>14. Gathers(s, reader[r].todo \ {k}, more, rows)
    <2> HIDE DEF s, got
    <2>1. Gathers(s, reader[r].todo, got, rows)
      BY <1>6 DEF s, got
    <2>2. CASE IsPrefix(s.prefix, k)
      <3>1. more = With(got, k, rows[k])
        BY <2>2 DEF more
      <3>2. DOMAIN more = DOMAIN got \union {k} /\ more = [j \in DOMAIN more |-> more[j]]
        BY <3>1 DEF With
      <3>3. more[k] = rows[k] /\ \A j \in DOMAIN got \ {k} : more[j] = got[j]
        BY <3>1 DEF With
      <3> QED  BY <1>7, <2>1, <2>2, <3>2, <3>3 DEF Gathers
    <2>3. CASE ~IsPrefix(s.prefix, k)
      BY <2>1, <2>3 DEF Gathers, more
    <2> QED  BY <2>2, <2>3
  <1>15. Gathered' /\ ScanComplete'
    BY <1>3, <1>10, <1>14, ReaderStep
  <1> QED  BY <1>11, <1>12, <1>13, <1>15 DEF MemInv

LEMMA ScanEndsStep ==
  ASSUME MemInv, NEW r \in Readers, ScanEnds(r)
  PROVE  MemInv'
  <1> USE DEF ScanEnds
  <1> DEFINE s == reader[r].scan
             got == reader[r].got
  <1>1. Shapes /\ Locks /\ CacheFresh /\ Gathered
    BY DEF MemInv
  <1>2. /\ DOMAIN reader' = Readers /\ \A q \in Readers \ {r} : reader'[q] = reader[q]
        /\ reader'[r] = [at |-> "merged", scan |-> s, out |-> Merged(s, got)]
    BY <1>1 DEF Shapes
  <1>3. s \in Scans
    BY <1>1 DEF Shapes
  <1>4. Shapes'
    BY <1>1, <1>2, <1>3 DEF Shapes
  <1>5. Locks'
    <2>1. \A q \in Readers : reader'[q].at # "idle" => q \in mutex_.shared
      BY <1>1, <1>2 DEF Locks
    <2> QED  BY <1>1, <2>1 DEF Locks
  <1>6. CacheFresh'
    BY <1>1 DEF CacheFresh
  <1>7. Answers(s, rows, Merged(s, got))
    <2>1. Gathers(s, {}, got, rows)
      BY <1>1 DEF Gathered, Gathers
    <2> HIDE DEF s, got
    <2>2. /\ \A k : k \in DOMAIN got <=> k \in DOMAIN rows /\ IsPrefix(s.prefix, k)
          /\ \A k \in DOMAIN got : got[k] = rows[k]
      BY <2>1 DEF Gathers
    <2>3. IsFiniteSet(DOMAIN rows) /\ DOMAIN rows \subseteq RowKeys
      BY <1>1 DEF Shapes
    <2> QED  BY <1>3, <2>2, <2>3, MergedAnswers
  <1>8. Gathered' /\ ScanComplete'
    BY <1>2, <1>7, ReaderStep
  <1> QED  BY <1>4, <1>5, <1>6, <1>8 DEF MemInv

LEMMA ScanReturnsStep ==
  ASSUME MemInv, NEW r \in Readers, ScanReturns(r)
  PROVE  MemInv'
  <1> USE DEF ScanReturns
  <1>1. Shapes /\ Locks /\ CacheFresh
    BY DEF MemInv
  <1>2. /\ DOMAIN reader' = Readers /\ \A q \in Readers \ {r} : reader'[q] = reader[q]
        /\ reader'[r].at = "idle"
    BY <1>1 DEF Shapes, NotReading
  <1>3. mutex_'.unique = mutex_.unique /\ mutex_'.shared = mutex_.shared \ {r}
        /\ DOMAIN mutex_' = {"shared", "unique"}
    BY <1>1 DEF Shapes
  <1>4. Shapes'
    BY <1>1, <1>2, <1>3 DEF Shapes
  <1>5. Locks'
    BY <1>1, <1>2, <1>3 DEF Locks
  <1>6. CacheFresh'
    BY <1>1 DEF CacheFresh
  <1>7. Gathered' /\ ScanComplete'
    BY <1>2, ReaderStep
  <1> QED  BY <1>4, <1>5, <1>6, <1>7 DEF MemInv

\* MemInv holds in every state that readers and writers can reach.
LEMMA MemInvariant == MemSpec => []MemInv
  <1>1. MemInv /\ [MemNext]_memVars => MemInv'
    <2> SUFFICES ASSUME MemInv, [MemNext]_memVars PROVE MemInv'
      OBVIOUS
    <2>1. CASE UNCHANGED memVars
      <3>1. Shapes' /\ Locks' /\ CacheFresh'
        BY <2>1 DEF memVars, MemInv, Shapes, Locks, CacheFresh
      <3> QED  BY <2>1, <3>1, ScansKept DEF memVars, MemInv
    <2>2. CASE MemNext
      BY <2>2, LockStep, WriteRowStep, InvalidateStep, UnlockStep, ScanStep, CachedJsonStep,
         ScanEndsStep, ScanReturnsStep DEF MemNext
    <2> QED  BY <2>1, <2>2
  <1> QED  BY <1>1, MemInitially, PTL DEF MemSpec

\* "memoize the result per row and invalidate it on write": whatever the readers that
\* fill the cache and the writers that erase from it do, the memoized JSON of a key is
\* that of its present row, unless the writer that is changing it, alone under
\* mutex_, has not yet come to InvalidateJson.
THEOREM CacheNeverStale == MemSpec => []CacheFresh
  <1>1. MemInv => CacheFresh
    BY DEF MemInv
  <1> QED  BY <1>1, MemInvariant, PTL

\* host_table_scan answers with the first limit rows, in key order, of the call's own
\* view: no committed row with the prefix is left out of the range, no row is seen
\* half way through a write, and the overlay's writes and deletions are on top.
THEOREM ScansAreComplete == MemSpec => []ScanComplete
  <1>1. MemInv => ScanComplete
    BY DEF MemInv
  <1> QED  BY <1>1, MemInvariant, PTL

=============================================================================
