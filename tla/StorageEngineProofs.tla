------------------------ MODULE StorageEngineProofs ------------------------
(***************************************************************************)
(* Proofs about the storage engine, in the order                            *)
(*   - types, and what the loops of Commit and RecoverFromWAL compute;       *)
(*   - every commit is fed: CommitsAreFed;                                   *)
(*   - a log whose records all had an effect replays over any snapshot taken *)
(*     of it to the same end: ReplayedOver;                                  *)
(*   - the log, with what is on its way to it, follows the history of        *)
(*     commits: CrashConsistent, PublishedSurvives;                          *)
(*   - the refinement of DurableStore: EngineIsStore.                        *)
(***************************************************************************)
EXTENDS StorageEngine, FiniteSetTheorems, SequenceTheorems, TLAPS

-----------------------------------------------------------------------------
(***************************************************************************)
(* Loops as functions of the position.                                      *)
(***************************************************************************)

\* Induction up to n over a set of numbers.
LEMMA Induction ==
  ASSUME NEW n \in Nat, NEW T, 0 \in T, \A i \in 0..(n - 1) : i \in T => i + 1 \in T
  PROVE  \A i \in 0..n : i \in T
  <1> DEFINE R == OpToRel(<, Nat)
             U == {i \in 0..n : i \notin T}
  <1>1. SUFFICES ASSUME U # {} PROVE FALSE
    OBVIOUS
  <1>2. \E m \in U : \A k \in U : ~(<<k, m>> \in R)
    <2> HIDE DEF R
    <2>1. IsWellFoundedOn(R, Nat)
      BY NatLessThanWellFounded DEF R
    <2>2. U \subseteq Nat
      OBVIOUS
    <2> HIDE DEF U
    <2> QED  BY <1>1, <2>1, <2>2, WFMin
  <1>3. PICK m \in U : \A k \in U : ~(<<k, m>> \in R)
    BY <1>2
  <1>4. m \in 0..n /\ m # 0 /\ m - 1 \in 0..(n - 1)
    <2>1. m \in 0..n /\ m # 0
      BY <1>3
    <2> QED  BY <2>1
  <1>5. <<m - 1, m>> \in R
    BY <1>4 DEF OpToRel
  <1>6. m - 1 \in T
    <2> HIDE DEF R
    <2> QED  BY <1>3, <1>4, <1>5
  <1>7. m \in T
    BY <1>4, <1>6
  <1> QED  BY <1>3, <1>7

\* What a loop of n steps F computes from a.
Runs(n, S, a, F) == {f \in [0..n -> S] : f[0] = a /\ \A i \in 1..n : f[i] = F[i][f[i - 1]]}

LEMMA LoopExists ==
  ASSUME NEW n \in Nat, NEW S, NEW a \in S, NEW F \in [1..n -> [S -> S]]
  PROVE  Runs(n, S, a, F) # {}
  <1> DEFINE Run(k) == {f \in [0..k -> S] : f[0] = a /\ \A i \in 1..k : f[i] = F[i][f[i - 1]]}
             T == {k \in 0..n : Run(k) # {}}
  <1>1. 0 \in T
    <2> DEFINE f == [i \in 0..0 |-> a]
    <2>1. f \in [0..0 -> S] /\ f[0] = a
      OBVIOUS
    <2>2. f \in Run(0)
      BY <2>1
    <2> QED  BY <2>2
  <1>2. ASSUME NEW k \in 0..(n - 1), k \in T PROVE k + 1 \in T
    <2>1. PICK f \in Run(k) : TRUE
      BY <1>2
    <2> DEFINE g == [i \in 0..(k + 1) |-> IF i <= k THEN f[i] ELSE F[k + 1][f[k]]]
    <2>2. F[k + 1][f[k]] \in S
      BY <2>1
    <2>3. g \in [0..(k + 1) -> S]
      BY <2>1, <2>2
    <2>4. g[0] = a
      BY <2>1
    <2>5. ASSUME NEW i \in 1..(k + 1) PROVE g[i] = F[i][g[i - 1]]
      <3>1. CASE i <= k
        BY <2>1, <3>1
      <3>2. CASE i = k + 1
        BY <2>1, <3>2
      <3> QED  BY <3>1, <3>2
    <2>6. g \in Run(k + 1)
      <3> HIDE DEF g
      <3> QED  BY <2>3, <2>4, <2>5
    <2> QED  BY <2>6
  <1>3. n \in T
    <2> HIDE DEF T
    <2>1. \A k \in 0..n : k \in T
      BY <1>1, <1>2, Induction
    <2> QED  BY <2>1
  <1> QED  BY <1>3 DEF Runs

-----------------------------------------------------------------------------
(***************************************************************************)
(* Replaying a log.                                                         *)
(***************************************************************************)
Ops == Dml \union [op : {"CREATE_TABLE", "DROP_TABLE"}, table : Tables]

\* Records that can be read.
Whole == [seq : Nat \ {0}, data : Ops]

LEMMA ReplayType ==
  ASSUME NEW x \in TableStates, NEW r \in Whole
  PROVE  ReplayRecord(x, r) \in TableStates
  <1> DEFINE w == r.data
  <1>1. w \in Ops /\ w.table \in Tables
    BY DEF Whole, Ops, Dml
  <1>2. EmptyTable \in [Keys -> Values \union {Absent}]
    BY DEF EmptyTable
  <1>3. CASE w.op = "CREATE_TABLE"
    BY <1>1, <1>2, <1>3 DEF ReplayRecord, TableStates, Rows
  <1>4. CASE w.op = "DROP_TABLE"
    BY <1>1, <1>4 DEF ReplayRecord, TableStates, Rows
  <1>5. CASE w.op \notin {"CREATE_TABLE", "DROP_TABLE"}
    <2>1. w.key \in Keys /\ w.val \in Values \union {Absent}
      BY <1>1, <1>5 DEF Ops, Dml
    <2>2. x[w.table] # NoTable => Put(x, w) \in TableStates
      BY <1>1, <2>1 DEF Put, TableStates, Rows
    <2> QED  BY <1>5, <2>2 DEF ReplayRecord, Has
  <1> QED  BY <1>3, <1>4, <1>5

\* The loop of RecoverFromWAL, step by step.
LEMMA ReplayedSteps ==
  ASSUME NEW x \in TableStates, NEW log \in Seq(Whole)
  PROVE  /\ Replayed(x, log) \in [0..Len(log) -> TableStates]
         /\ Replayed(x, log)[0] = x
         /\ \A i \in 1..Len(log) : Replayed(x, log)[i] = ReplayRecord(Replayed(x, log)[i - 1], log[i])
  <1> DEFINE n == Len(log)
             F == [i \in 1..n |-> [y \in TableStates |-> ReplayRecord(y, log[i])]]
             R == Replayed(x, log)
             G(f) == [i \in 0..n |-> IF i = 0 THEN x ELSE ReplayRecord(f[i - 1], log[i])]
  <1>1. n \in Nat /\ \A i \in 1..n : log[i] \in Whole
    OBVIOUS
  <1>2. F \in [1..n -> [TableStates -> TableStates]]
    BY <1>1, ReplayType
  <1>3. PICK f \in [0..n -> TableStates] : f[0] = x /\ \A i \in 1..n : f[i] = F[i][f[i - 1]]
    <2> HIDE DEF F, n
    <2>1. Runs(n, TableStates, x, F) # {}
      BY <1>1, <1>2, LoopExists
    <2> QED  BY <2>1 DEF Runs
  <1>4. f = G(f)
    <2>1. ASSUME NEW i \in 1..n PROVE f[i] = ReplayRecord(f[i - 1], log[i])
      <3>1. i - 1 \in 0..n
        BY <1>1
      <3>2. f[i - 1] \in TableStates
        BY <1>3, <3>1
      <3> QED  BY <1>3, <3>2
    <2> HIDE DEF n
    <2>2. \A i \in 0..n : f[i] = G(f)[i]
      BY <1>1, <1>3, <2>1
    <2> QED  BY <1>3, <2>2
  <1>5. R = CHOOSE g : g = G(g)
    BY DEF Replayed
  <1>6. R = G(R)
    <2> HIDE DEF G, R
    <2> QED  BY <1>4, <1>5
  <1>7. R[0] = x /\ \A i \in 1..n : R[i] = ReplayRecord(R[i - 1], log[i])
    <2> HIDE DEF R
    <2> QED  BY <1>1, <1>6
  <1>8. R \in [0..n -> TableStates]
    <2> DEFINE T == {i \in 0..n : R[i] \in TableStates}
    <2>1. 0 \in T
      BY <1>1, <1>7
    <2>2. ASSUME NEW i \in 0..(n - 1), i \in T PROVE i + 1 \in T
      <3> HIDE DEF R
      <3>1. i + 1 \in 1..n /\ (i + 1) - 1 = i
        BY <1>1
      <3>2. R[i + 1] = ReplayRecord(R[i], log[i + 1])
        BY <1>7, <3>1
      <3>3. R[i + 1] \in TableStates
        BY <1>1, <2>2, <3>1, <3>2, ReplayType
      <3> QED  BY <3>1, <3>3
    <2>3. \A i \in 0..n : i \in T
      <3> HIDE DEF T, n
      <3> QED  BY <1>1, <2>1, <2>2, Induction
    <2> HIDE DEF R
    <2> QED  BY <1>6, <2>3
  <1> QED  BY <1>7, <1>8

\* ... which nothing else does.
LEMMA ReplayedUnique ==
  ASSUME NEW x \in TableStates, NEW log \in Seq(Whole), NEW n \in 0..Len(log), NEW g, g[0] = x,
         \A i \in 1..n : g[i] = ReplayRecord(g[i - 1], log[i])
  PROVE  \A i \in 0..n : Replayed(x, log)[i] = g[i]
  <1> DEFINE R == Replayed(x, log)
             T == {i \in 0..n : R[i] = g[i]}
  <1>1. R[0] = x /\ \A i \in 1..Len(log) : R[i] = ReplayRecord(R[i - 1], log[i])
    BY ReplayedSteps
  <1> HIDE DEF R
  <1>2. n \in Nat /\ n <= Len(log) /\ Len(log) \in Nat
    OBVIOUS
  <1>3. 0 \in T
    BY <1>1, <1>2
  <1>4. ASSUME NEW i \in 0..(n - 1), i \in T PROVE i + 1 \in T
    <2>1. i + 1 \in 1..n /\ i + 1 \in 1..Len(log) /\ (i + 1) - 1 = i
      BY <1>2
    <2> QED  BY <1>1, <1>4, <2>1
  <1>5. \A i \in 0..n : i \in T
    <2> HIDE DEF T
    <2> QED  BY <1>2, <1>3, <1>4, Induction
  <1> QED  BY <1>5 DEF R

-----------------------------------------------------------------------------
(***************************************************************************)
(* The write loop of Commit.                                                *)
(***************************************************************************)
Cells == Values \union {Absent}
Events == [op : {"INSERT", "UPDATE", "DELETE"}, table : Tables, key : Keys, new : Cells, old : Cells, commit : Nat, nth : Nat]
Accs == [good : BOOLEAN, tabs : TableStates, evs : Seq(Events), upsert : BOOLEAN]
Start == [good |-> TRUE, tabs |-> tables, evs |-> <<>>, upsert |-> FALSE]

LEMMA PutType ==
  ASSUME NEW x \in TableStates, NEW w \in Dml, x[w.table] # NoTable
  PROVE  /\ Put(x, w) \in TableStates
         /\ Put(x, w)[w.table] # NoTable => Put(x, w)[w.table][w.key] = w.val
         /\ \A t \in Tables : t # w.table => Put(x, w)[t] = x[t]
         /\ \A k \in Keys : k # w.key => Put(x, w)[w.table][k] = x[w.table][k]
  <1>1. w.table \in Tables /\ w.key \in Keys /\ w.val \in Cells
    BY DEF Dml, Cells
  <1>2. x[w.table] \in [Keys -> Cells]
    BY <1>1 DEF TableStates, Rows, Cells
  <1> QED  BY <1>1, <1>2 DEF Put, TableStates, Rows, Cells

LEMMA ApplyWriteType ==
  ASSUME NEW acc \in Accs, NEW w \in Dml, NEW n \in Nat, Len(states) \in Nat
  PROVE  ApplyWrite(acc, w, n) \in Accs
  <1>1. acc.tabs \in TableStates /\ acc.evs \in Seq(Events) /\ acc.upsert \in BOOLEAN
    BY DEF Accs
  <1>2. CASE acc.good /\ Applies(acc.tabs, w)
    <2>1. acc.tabs[w.table] # NoTable
      BY <1>2 DEF Applies
    <2>2. w.table \in Tables /\ w.key \in Keys /\ w.val \in Cells /\ w.op \in {"INSERT", "UPDATE", "DELETE"}
      BY DEF Dml, Cells
    <2>3. acc.tabs[w.table][w.key] \in Cells
      BY <1>1, <2>1, <2>2 DEF TableStates, Rows, Cells
    <2>4. Event(acc.tabs, w, n) \in Events
      BY <2>2, <2>3 DEF Event, Events
    <2>5. Append(acc.evs, Event(acc.tabs, w, n)) \in Seq(Events)
      BY <1>1, <2>4
    <2>6. Put(acc.tabs, w) \in TableStates
      BY <1>1, <2>1, PutType
    <2>7. (acc.upsert \/ (w.op = "INSERT" /\ Has(acc.tabs, w.table, w.key))) \in BOOLEAN
      BY <1>1
    <2> QED  BY <1>2, <2>5, <2>6, <2>7 DEF ApplyWrite, Accs
  <1>3. CASE ~(acc.good /\ Applies(acc.tabs, w))
    BY <1>1, <1>3 DEF ApplyWrite, Accs
  <1> QED  BY <1>2, <1>3

\* The loop of Commit, step by step.
LEMMA ApplyingSteps ==
  ASSUME tables \in TableStates, Len(states) \in Nat, NEW ws \in Seq(Dml)
  PROVE  /\ Applying(ws) \in [0..Len(ws) -> Accs]
         /\ Applying(ws)[0] = Start
         /\ \A i \in 1..Len(ws) : Applying(ws)[i] = ApplyWrite(Applying(ws)[i - 1], ws[i], i)
  <1> DEFINE n == Len(ws)
             F == [i \in 1..n |-> [y \in Accs |-> ApplyWrite(y, ws[i], i)]]
             R == Applying(ws)
             G(f) == [i \in 0..n |-> IF i = 0 THEN Start ELSE ApplyWrite(f[i - 1], ws[i], i)]
  <1>1. n \in Nat /\ \A i \in 1..n : ws[i] \in Dml
    OBVIOUS
  <1>2. Start \in Accs /\ F \in [1..n -> [Accs -> Accs]]
    <2>1. Start \in Accs
      BY DEF Start, Accs
    <2> QED  BY <1>1, <2>1, ApplyWriteType
  <1>3. PICK f \in [0..n -> Accs] : f[0] = Start /\ \A i \in 1..n : f[i] = F[i][f[i - 1]]
    <2> HIDE DEF F, n
    <2>1. Runs(n, Accs, Start, F) # {}
      BY <1>1, <1>2, LoopExists
    <2> QED  BY <2>1 DEF Runs
  <1>4. f = G(f)
    <2>1. ASSUME NEW i \in 1..n PROVE f[i] = ApplyWrite(f[i - 1], ws[i], i)
      <3>1. i - 1 \in 0..n
        BY <1>1
      <3>2. f[i - 1] \in Accs
        BY <1>3, <3>1
      <3> QED  BY <1>3, <3>2
    <2> HIDE DEF n
    <2>2. \A i \in 0..n : f[i] = G(f)[i]
      BY <1>1, <1>3, <2>1
    <2> QED  BY <1>3, <2>2
  <1>5. R = CHOOSE g : g = G(g)
    BY DEF Applying, Start
  <1>6. R = G(R)
    <2> HIDE DEF G, R
    <2> QED  BY <1>4, <1>5
  <1>7. R[0] = Start /\ \A i \in 1..n : R[i] = ApplyWrite(R[i - 1], ws[i], i)
    <2> HIDE DEF R
    <2> QED  BY <1>1, <1>6
  <1>8. R \in [0..n -> Accs]
    <2> DEFINE T == {i \in 0..n : R[i] \in Accs}
    <2>1. 0 \in T
      BY <1>1, <1>2, <1>7
    <2>2. ASSUME NEW i \in 0..(n - 1), i \in T PROVE i + 1 \in T
      <3> HIDE DEF R
      <3>1. i + 1 \in 1..n /\ (i + 1) - 1 = i
        BY <1>1
      <3>2. R[i + 1] = ApplyWrite(R[i], ws[i + 1], i + 1)
        BY <1>7, <3>1
      <3>3. R[i + 1] \in Accs
        BY <1>1, <2>2, <3>1, <3>2, ApplyWriteType
      <3> QED  BY <3>1, <3>3
    <2>3. \A i \in 0..n : i \in T
      <3> HIDE DEF T, n
      <3> QED  BY <1>1, <2>1, <2>2, Induction
    <2> HIDE DEF R
    <2> QED  BY <1>6, <2>3
  <1> QED  BY <1>7, <1>8

\* What a loop that went through has done: one event for each write, and one with the
\* new value for each row that is not what it was.
LEMMA AppliedAll ==
  ASSUME tables \in TableStates, Len(states) \in Nat, NEW ws \in Seq(Dml), ApplyWrites(ws).good
  PROVE  LET r == ApplyWrites(ws) IN
         /\ r.tabs \in TableStates /\ r.evs \in Seq(Events) /\ Len(r.evs) = Len(ws)
         /\ \A j \in 1..Len(ws) : r.evs[j].commit = Len(states) + 1 /\ r.evs[j].nth = j
         /\ \A t \in Tables : tables[t] = NoTable => r.tabs[t] = NoTable
         /\ \A t \in Tables, k \in Keys :
              tables[t] # NoTable /\ r.tabs[t][k] # tables[t][k]
              => \E j \in 1..Len(ws) : /\ r.evs[j].table = t /\ r.evs[j].key = k
                                       /\ r.evs[j].new = r.tabs[t][k]
  <1> DEFINE n == Len(ws)
             R == Applying(ws)
             Done(z, i) ==
               /\ Len(z.evs) = i
               /\ \A j \in 1..i : z.evs[j].commit = Len(states) + 1 /\ z.evs[j].nth = j
               /\ \A t \in Tables : tables[t] = NoTable => z.tabs[t] = NoTable
               /\ \A t \in Tables, k \in Keys :
                    tables[t] # NoTable /\ z.tabs[t][k] # tables[t][k]
                    => \E j \in 1..i : /\ z.evs[j].table = t /\ z.evs[j].key = k
                                       /\ z.evs[j].new = z.tabs[t][k]
             T == {i \in 0..n : R[i].good => Done(R[i], i)}
  <1>1. /\ R \in [0..n -> Accs] /\ R[0] = Start
        /\ \A i \in 1..n : R[i] = ApplyWrite(R[i - 1], ws[i], i)
    BY ApplyingSteps
  <1> HIDE DEF R
  <1>2. n \in Nat /\ \A i \in 1..n : ws[i] \in Dml
    OBVIOUS
  <1>3. 0 \in T
    BY <1>1, <1>2 DEF Start
  <1>4. ASSUME NEW i \in 0..(n - 1), i \in T PROVE i + 1 \in T
    <2>1. i + 1 \in 1..n /\ (i + 1) - 1 = i /\ i \in 0..n
      BY <1>2
    <2>2. R[i + 1] = ApplyWrite(R[i], ws[i + 1], i + 1)
      BY <1>1, <2>1
    <2> DEFINE w == ws[i + 1]
               x == R[i]
               e == Event(x.tabs, w, i + 1)
               y == R[i + 1]
    <2>3. x \in Accs /\ w \in Dml /\ y \in Accs
      BY <1>1, <1>2, <2>1
    <2> SUFFICES ASSUME y.good PROVE Done(y, i + 1)
      BY <2>1
    <2>4. x.good /\ Applies(x.tabs, w)
      <3>1. y = ApplyWrite(x, w, i + 1)
        BY <2>2
      <3> HIDE DEF w, x, y
      <3> QED  BY <2>3, <3>1 DEF ApplyWrite, Accs
    <2>5. y.tabs = Put(x.tabs, w) /\ y.evs = Append(x.evs, e)
      BY <2>2, <2>4 DEF ApplyWrite
    <2>6. Done(x, i)
      BY <1>4, <2>4
    <2>7. x.tabs \in TableStates /\ x.evs \in Seq(Events) /\ w.table \in Tables /\ w.key \in Keys
      BY <2>3 DEF Accs, Dml
    <2>8. x.tabs[w.table] # NoTable
      BY <2>4 DEF Applies
    <2>9. /\ e.commit = Len(states) + 1 /\ e.nth = i + 1
          /\ e.table = w.table /\ e.key = w.key /\ e.new = w.val
      BY DEF Event
    <2>10. /\ Len(y.evs) = i + 1 /\ y.evs[i + 1] = e /\ \A j \in 1..i : y.evs[j] = x.evs[j]
      <3> HIDE DEF e, x
      <3>1. Len(x.evs) = i
        BY <2>6
      <3> QED  BY <2>5, <2>7, <3>1
    <2>11. /\ \A t \in Tables : t # w.table => y.tabs[t] = x.tabs[t]
           /\ y.tabs[w.table][w.key] = w.val
           /\ \A k \in Keys : k # w.key => y.tabs[w.table][k] = x.tabs[w.table][k]
      <3> HIDE DEF w, x, y
      <3>1. x.tabs[w.table] \in Rows
        BY <2>7, <2>8 DEF TableStates
      <3> QED  BY <2>5, <2>7, <3>1 DEF TableStates, Rows, Put
    <2> HIDE DEF w, x, e, y
    <2>12. \A j \in 1..(i + 1) : y.evs[j].commit = Len(states) + 1 /\ y.evs[j].nth = j
      <3> TAKE j \in 1..(i + 1)
      <3>1. CASE j = i + 1
        BY <2>9, <2>10, <3>1
      <3>2. CASE j \in 1..i
        BY <2>6, <2>10, <3>2
      <3> QED  BY <2>1, <3>1, <3>2
    <2>13. \A t \in Tables : tables[t] = NoTable => y.tabs[t] = NoTable
      BY <2>6, <2>8, <2>11
    <2>14. ASSUME NEW t \in Tables, NEW k \in Keys, tables[t] # NoTable, y.tabs[t][k] # tables[t][k]
           PROVE  \E j \in 1..(i + 1) : /\ y.evs[j].table = t /\ y.evs[j].key = k
                                        /\ y.evs[j].new = y.tabs[t][k]
      <3>1. CASE t = w.table /\ k = w.key
        BY <2>1, <2>9, <2>10, <2>11, <3>1
      <3>2. CASE ~(t = w.table /\ k = w.key)
        <4>1. y.tabs[t][k] = x.tabs[t][k]
          BY <2>11, <3>2
        <4>2. PICK j \in 1..i : /\ x.evs[j].table = t /\ x.evs[j].key = k
                                /\ x.evs[j].new = x.tabs[t][k]
          BY <2>6, <2>14, <4>1
        <4>3. j \in 1..(i + 1) /\ y.evs[j] = x.evs[j]
          BY <2>1, <2>10
        <4> QED  BY <4>1, <4>2, <4>3
      <3> QED  BY <3>1, <3>2
    <2> QED  BY <2>10, <2>12, <2>13, <2>14
  <1>5. \A i \in 0..n : i \in T
    <2> HIDE DEF T, n
    <2> QED  BY <1>2, <1>3, <1>4, Induction
  <1>6. R[n] = ApplyWrites(ws) /\ R[n] \in Accs /\ n \in 0..n
    BY <1>1, <1>2 DEF ApplyWrites, R
  <1>7. Done(R[n], n)
    <2> HIDE DEF Done
    <2>1. n \in T
      BY <1>5, <1>6
    <2> QED  BY <1>6, <2>1
  <1> QED  BY <1>6, <1>7 DEF Accs

\* Whatever came of the loop, the tables are tables.
LEMMA ApplyWritesType ==
  ASSUME tables \in TableStates, Len(states) \in Nat, NEW ws \in Seq(Dml)
  PROVE  ApplyWrites(ws) \in Accs
  <1>1. Len(ws) \in 0..Len(ws)
    OBVIOUS
  <1> QED  BY <1>1, ApplyingSteps DEF ApplyWrites

-----------------------------------------------------------------------------
(***************************************************************************)
(* Types.                                                                   *)
(***************************************************************************)
Records == Whole \union {Torn}
Batches == [bytes : Seq(Whole), done : SUBSET Threads]

LogTypes ==
  /\ queue \in Batches /\ drained \in Batches
  /\ file \in Seq(Records) /\ disk \in Seq(Records)
  /\ nextSeq \in Nat \ {0}
  /\ promise \in [Threads -> {"none", "pending", "ok", "failed"}]

EngineTypes ==
  /\ tables \in TableStates
  /\ snap \in TableStates \union {NoSnapshot} /\ snapForced \in TableStates \union {NoSnapshot}
  /\ lock \in Clients \union {"free", Drainer}
  /\ txn \in [Clients -> [st : {"none", "active", "wait", "publish", "ddl"}, writes : Seq(Dml)]]
  /\ phase \in {"run", "recover", "down"}
  /\ sd \in {"no", "snap", "flush", "clear", "off"}
  /\ entries \in Seq(Whole)
  /\ workload \in Workload

HistoryTypes ==
  /\ states \in Seq(TableStates)
  /\ visibleTo \in 1..Len(states)
  /\ index \in [Clients -> 1..Len(states)]

TypeInv == LogTypes /\ EngineTypes /\ HistoryTypes

\* No record that can be read has number 0.
LEMMA TornIsNotWhole == Torn \notin Whole /\ Torn \in Records /\ \A r \in Records : r.seq \in Nat
  BY DEF Torn, Whole, Records

LEMMA NothingIsBatch == Nothing \in Batches
  BY DEF Nothing, Batches

\* The records of a batch.
LEMMA NumberedType ==
  ASSUME NEW ds \in Seq(Ops), nextSeq \in Nat \ {0}
  PROVE  /\ Numbered(ds) \in Seq(Whole) /\ Len(Numbered(ds)) = Len(ds)
         /\ \A i \in 1..Len(ds) : Numbered(ds)[i] = [seq |-> nextSeq + i - 1, data |-> ds[i]]
  <1>1. \A i \in 1..Len(ds) : [seq |-> nextSeq + i - 1, data |-> ds[i]] \in Whole
    BY DEF Whole
  <1>2. \A i \in 1..Len(ds) : Numbered(ds)[i] \in Whole
    BY <1>1 DEF Numbered
  <1>3. Len(ds) \in Nat /\ Numbered(ds) = [i \in 1..Len(ds) |-> Numbered(ds)[i]]
    BY DEF Numbered
  <1>4. Numbered(ds) \in Seq(Whole)
    BY <1>2, <1>3, IsASeq
  <1> QED  BY <1>3, <1>4 DEF Numbered

LEMMA Interval ==
  ASSUME NEW n \in Nat
  PROVE  IsFiniteSet(1..n) /\ Cardinality(1..n) = n
  <1>1. 1 \in Int /\ n \in Int
    OBVIOUS
  <1>2. IsFiniteSet(1..n) /\ Cardinality(1..n) = IF 1 > n THEN 0 ELSE n - 1 + 1
    BY <1>1, FS_Interval, Zenon
  <1>3. (IF 1 > n THEN 0 ELSE n - 1 + 1) = n
    OBVIOUS
  <1> QED  BY <1>2, <1>3

\* ReadAll gives the records up to the first that is torn.
LEMMA ReadAllType ==
  ASSUME NEW f \in Seq(Records)
  PROVE  ReadAll(f) \in Seq(Whole)
  <1> DEFINE R == Readable(f)
             n == Cardinality(R)
  <1>1. R \subseteq 1..Len(f) /\ IsFiniteSet(1..Len(f)) /\ Cardinality(1..Len(f)) = Len(f)
    <2>1. Len(f) \in Nat /\ R \subseteq 1..Len(f)
      BY DEF Readable
    <2> QED  BY <2>1, Interval
  <1>2. IsFiniteSet(R) /\ n \in Nat /\ n <= Len(f)
    BY <1>1, FS_Subset, FS_CardinalityType
  <1>3. ASSUME NEW i \in 1..n PROVE i \in R
    <2>1. SUFFICES ASSUME i \notin R PROVE FALSE
      OBVIOUS
    <2>2. R \subseteq 1..(i - 1)
      BY <1>1, <1>2, <2>1 DEF Readable
    <2>3. IsFiniteSet(1..(i - 1)) /\ Cardinality(1..(i - 1)) = i - 1
      <3>1. i - 1 \in Nat
        BY <1>2
      <3> QED  BY <3>1, Interval
    <2>4. n <= i - 1
      BY <2>2, <2>3, FS_Subset
    <2> QED  BY <1>2, <2>4
  <1>4. ASSUME NEW i \in 1..n PROVE f[i] \in Whole
    <2>1. i \in 1..Len(f) /\ f[i] # Torn
      BY <1>1, <1>3 DEF Readable
    <2> QED  BY <2>1 DEF Records
  <1> HIDE DEF n
  <1>5. /\ SubSeq(f, 1, n) \in Seq(Records) /\ Len(SubSeq(f, 1, n)) = n
        /\ \A i \in 1..n : SubSeq(f, 1, n)[i] = f[i]
    BY <1>2, SubSeqProperties
  <1>6. \A i \in 1..n : SubSeq(f, 1, n)[i] \in Whole
    BY <1>4, <1>5
  <1>7. SubSeq(f, 1, n) \in Seq(Whole)
    BY <1>2, <1>5, <1>6
  <1> QED  BY <1>7 DEF ReadAll, n

\* A write cut short.
LEMMA CutWriteType ==
  ASSUME NEW f \in Seq(Records), NEW b \in Seq(Whole), NEW g \in CutWrites(f, b)
  PROVE  g \in Seq(Records)
  <1>1. PICK n \in 0..(Len(b) - 1) :
          \/ g = f \o SubSeq(b, 1, n)
          \/ g = Append(f \o SubSeq(b, 1, n), Torn)
    BY DEF CutWrites
  <1>2. SubSeq(b, 1, n) \in Seq(Whole)
    BY SubSeqProperties
  <1>3. SubSeq(b, 1, n) \in Seq(Records)
    BY <1>2 DEF Records
  <1>4. f \o SubSeq(b, 1, n) \in Seq(Records)
    BY <1>3
  <1> HIDE DEF Records
  <1>5. Append(f \o SubSeq(b, 1, n), Torn) \in Seq(Records)
    BY <1>4, TornIsNotWhole
  <1> QED  BY <1>1, <1>4, <1>5

LEMMA PowerLossType ==
  ASSUME file \in Seq(Records), disk \in Seq(Records), PowerLoss
  PROVE  file' \in Seq(Records)
  <1>1. \A n \in 0..Len(file) : SubSeq(file, 1, n) \in Seq(Records)
    BY SubSeqProperties
  <1>2. AfterPowerLoss \subseteq Seq(Records)
    BY <1>1 DEF AfterPowerLoss, KeptLengths
  <1>3. \A f \in AfterPowerLoss : Append(f, Torn) \in Seq(Records)
    BY <1>2, TornIsNotWhole
  <1> QED  BY <1>2, <1>3 DEF PowerLoss, TornByPowerLoss, AfterPowerLoss

\* A batch queued.
LEMMA LogTypesAppend ==
  ASSUME LogTypes, NEW c \in Clients, NEW ds \in Seq(Ops), AppendBatchAsync(c, ds)
  PROVE  LogTypes'
  <1> USE DEF writerVars, queueVars, fileVars, drainVars
  <1>1. Numbered(ds) \in Seq(Whole) /\ Len(ds) \in Nat /\ c \in Threads
    BY NumberedType DEF LogTypes, Threads
  <1>2. queue.bytes \in Seq(Whole) /\ queue.done \subseteq Threads
    BY DEF LogTypes, Batches
  <1>3. queue.bytes \o Numbered(ds) \in Seq(Whole) /\ queue.done \union {c} \subseteq Threads
    BY <1>1, <1>2
  <1>4. [bytes |-> queue.bytes \o Numbered(ds), done |-> queue.done \union {c}] \in Batches
    BY <1>3 DEF Batches
  <1>5. queue' \in Batches /\ nextSeq' \in Nat \ {0}
    <2>1. \/ UNCHANGED <<queue, nextSeq>>
          \/ /\ queue' = [bytes |-> queue.bytes \o Numbered(ds), done |-> queue.done \union {c}]
             /\ nextSeq' = nextSeq + Len(ds)
      BY DEF AppendBatchAsync
    <2>2. queue' \in Batches
      BY <1>4, <2>1 DEF LogTypes
    <2> QED  BY <1>1, <2>1, <2>2 DEF LogTypes
  <1>6. promise' \in [Threads -> {"none", "pending", "ok", "failed"}]
    BY <1>1 DEF AppendBatchAsync, LogTypes
  <1>7. UNCHANGED <<drained, file, disk>>
    BY DEF AppendBatchAsync
  <1> QED  BY <1>5, <1>6, <1>7 DEF LogTypes

\* The writer.
LEMMA LogTypesWriter ==
  ASSUME LogTypes, Writer
  PROVE  LogTypes'
  <1> USE DEF writerVars, queueVars, fileVars, drainVars
  <1>1. CASE WriterWrite
    <2>1. drained.bytes \in Seq(Whole)
      BY DEF LogTypes, Batches
    <2>2. drained.bytes \in Seq(Records)
      BY <2>1 DEF Records
    <2>3. file \o drained.bytes \in Seq(Records)
      <3> HIDE DEF Records
      <3> QED  BY <2>2 DEF LogTypes
    <2>4. \A g \in CutWrites(file, drained.bytes) : g \in Seq(Records)
      BY <2>1, CutWriteType DEF LogTypes
    <2>5. file' \in Seq(Records)
      BY <1>1, <2>3, <2>4 DEF WriterWrite, LogTypes
    <2> QED  BY <1>1, <2>5 DEF WriterWrite, LogTypes
  <1>2. CASE WriterDrain
    BY <1>2, NothingIsBatch DEF WriterDrain, LogTypes
  <1>3. CASE WriterSync
    BY <1>3 DEF WriterSync, LogTypes
  <1>4. CASE WriterAck
    BY <1>4, NothingIsBatch DEF WriterAck, LogTypes
  <1>5. CASE WriterSetFatal \/ WriterExit
    BY <1>5 DEF WriterSetFatal, WriterExit, LogTypes
  <1> QED  BY <1>1, <1>2, <1>3, <1>4, <1>5 DEF Writer

\* The answers to the clients, Truncate, Flush and StopWriter.
LEMMA LogTypesDrain ==
  ASSUME LogTypes,
         \/ \E c \in Clients, r \in {"ok", "failed"} : Get(c, r)
         \/ \E n : TruncateBegin(n)
         \/ FlushBegin \/ DrainEnqueue \/ DrainWait \/ TruncateReset \/ StopWriter
         \/ UNCHANGED walVars
  PROVE  LogTypes'
  <1> USE DEF writerVars, queueVars, fileVars, drainVars
  <1>1. ASSUME NEW c \in Clients, NEW r \in {"ok", "failed"}, Get(c, r) PROVE LogTypes'
    BY <1>1 DEF Get, LogTypes, Threads
  <1>2. CASE (\E n : TruncateBegin(n)) \/ FlushBegin \/ StopWriter \/ UNCHANGED walVars
    BY <1>2 DEF TruncateBegin, FlushBegin, StopWriter, walVars, LogTypes
  <1>3. CASE DrainEnqueue
    <2>1. queue' \in Batches
      BY <1>3 DEF DrainEnqueue, LogTypes, Batches, Threads
    <2>2. promise' \in [Threads -> {"none", "pending", "ok", "failed"}]
      BY <1>3 DEF DrainEnqueue, LogTypes, Threads
    <2> QED  BY <1>3, <2>1, <2>2 DEF DrainEnqueue, LogTypes
  <1>4. CASE DrainWait
    BY <1>4 DEF DrainWait, LogTypes, Threads
  <1>5. CASE TruncateReset
    <2>1. <<>> \in Seq(Records) /\ <<Torn>> \in Seq(Records)
      BY TornIsNotWhole
    <2>2. file' \in Seq(Records)
      BY <1>5, <2>1 DEF TruncateReset, WriteMagicIfEmpty, LogTypes
    <2> QED  BY <1>5, <2>2 DEF TruncateReset, LogTypes
  <1> QED  BY <1>1, <1>2, <1>3, <1>4, <1>5

\* Crashes and starts.
LEMMA LogTypesRestart ==
  ASSUME LogTypes, Close \/ ProcessCrash \/ PowerLoss \/ Initialize
  PROVE  LogTypes'
  <1> USE DEF writerVars, queueVars, fileVars, drainVars
  <1>1. CASE Close
    BY <1>1, NothingIsBatch DEF Close, LoseMemory, LogTypes
  <1>2. CASE ProcessCrash
    <2>1. drained.bytes \in Seq(Whole)
      BY DEF LogTypes, Batches
    <2>2. file' \in Seq(Records)
      BY <1>2, <2>1, CutWriteType DEF ProcessCrash, LogTypes
    <2> QED  BY <1>2, <2>2, NothingIsBatch DEF ProcessCrash, LoseMemory, LogTypes
  <1>3. CASE PowerLoss
    <2>1. file' \in Seq(Records)
      BY <1>3, PowerLossType DEF LogTypes
    <2> QED  BY <1>3, <2>1, NothingIsBatch DEF PowerLoss, LoseMemory, LogTypes
  <1>4. CASE Initialize
    <2>1. file' \in Seq(Records)
      <3>1. <<Torn>> \in Seq(Records)
        BY TornIsNotWhole
      <3> QED  BY <1>4, <3>1 DEF Initialize, WriteMagicIfEmpty, LogTypes
    <2>2. nextSeq' \in Nat \ {0}
      <3>1. \A i \in DOMAIN file' : file'[i].seq \in Nat
        <4>1. \A i \in DOMAIN file' : file'[i] \in Records
          BY <2>1
        <4> QED  BY <4>1, TornIsNotWhole
      <3>2. nextSeq' \in RecoverSequenceNumber(file')
        BY <1>4 DEF Initialize
      <3> QED  BY <3>1, <3>2 DEF RecoverSequenceNumber, Readable
    <2> QED  BY <1>4, <2>1, <2>2 DEF Initialize, LogTypes
  <1> QED  BY <1>1, <1>2, <1>3, <1>4

\* What a client's calls do to the engine's own state.
LEMMA TypeClient ==
  ASSUME TypeInv, NEW c \in Clients, Client(c), UNCHANGED workload
  PROVE  TypeInv'
  <1> USE DEF engineVars, ghosts
  <1>0. LogTypes /\ EngineTypes /\ HistoryTypes
    BY DEF TypeInv
  <1>1. ASSUME NEW w \in workload.writes, Stage(c, w) PROVE TypeInv'
    <2>1. w \in Dml
      BY <1>0 DEF EngineTypes, Workload
    <2>2. txn' \in [Clients -> [st : {"none", "active", "wait", "publish", "ddl"}, writes : Seq(Dml)]]
      BY <1>0, <1>1, <2>1 DEF Stage, EngineTypes
    <2>3. LogTypes'
      BY <1>0, <1>1, LogTypesDrain DEF Stage
    <2> QED  BY <1>0, <1>1, <2>2, <2>3 DEF Stage, TypeInv, EngineTypes, HistoryTypes
  <1>2. CASE Rollback(c)
    <2>1. txn' \in [Clients -> [st : {"none", "active", "wait", "publish", "ddl"}, writes : Seq(Dml)]]
      BY <1>0, <1>2 DEF Rollback, EngineTypes, Idle
    <2>2. LogTypes'
      BY <1>0, <1>2, LogTypesDrain DEF Rollback
    <2> QED  BY <1>0, <1>2, <2>1, <2>2 DEF Rollback, TypeInv, EngineTypes, HistoryTypes
  <1>3. ASSUME NEW t \in Tables, CreateTable(c, t) \/ DropTable(c, t) PROVE TypeInv'
    <2>1. PICK op \in {"CREATE_TABLE", "DROP_TABLE"}, x \in {EmptyTable, NoTable} :
            Ddl(c, op, t, [tables EXCEPT ![t] = x]) /\ UNCHANGED <<entries, inexact, inherited>>
      BY <1>3 DEF CreateTable, DropTable
    <2> DEFINE y == [tables EXCEPT ![t] = x]
               ds == <<[op |-> op, table |-> t]>>
    <2>2. y \in TableStates
      BY <1>0 DEF EngineTypes, TableStates, Rows, EmptyTable
    <2>3. ds \in Seq(Ops)
      BY DEF Ops
    <2>4. LogTypes'
      BY <1>0, <2>1, <2>3, LogTypesAppend DEF Ddl
    <2> HIDE DEF y, ds
    <2>5. txn' \in [Clients -> [st : {"none", "active", "wait", "publish", "ddl"}, writes : Seq(Dml)]]
      BY <1>0, <2>1 DEF Ddl, EngineTypes
    <2>6. /\ tables' = y /\ states' = Append(states, y) /\ lock' = c
          /\ index' = [index EXCEPT ![c] = Len(states) + 1]
          /\ UNCHANGED <<snap, snapForced, phase, sd, entries, visibleTo>>
      BY <2>1 DEF Ddl, Effect, y
    <2>7. EngineTypes'
      BY <1>0, <2>2, <2>5, <2>6 DEF EngineTypes
    <2>8. HistoryTypes'
      <3>1. Len(states') = Len(states) + 1 /\ states' \in Seq(TableStates) /\ Len(states) \in Nat
        BY <1>0, <2>2, <2>6 DEF HistoryTypes
      <3> QED  BY <1>0, <2>6, <3>1 DEF HistoryTypes
    <2> QED  BY <2>4, <2>7, <2>8 DEF TypeInv
  <1> QED  BY <1>1, <1>2, <1>3 DEF Client

LEMMA TypeProgress ==
  ASSUME TypeInv, NEW c \in Clients, Progress(c), UNCHANGED workload
  PROVE  TypeInv'
  <1> USE DEF engineVars, ghosts
  <1>0. LogTypes /\ EngineTypes /\ HistoryTypes
    BY DEF TypeInv
  <1>1. CASE Commit(c)
    <2> DEFINE ws == txn[c].writes
               r == ApplyWrites(ws)
    <2>1. ws \in Seq(Dml) /\ tables \in TableStates /\ Len(states) \in Nat /\ states \in Seq(TableStates)
      BY <1>0 DEF EngineTypes, HistoryTypes
    <2>2. r.tabs \in TableStates
      <3>1. r \in Accs
        BY <2>1, ApplyWritesType
      <3> HIDE DEF r
      <3> QED  BY <3>1 DEF Accs
    <2>3. ws \in Seq(Ops)
      BY <2>1 DEF Ops
    <2> HIDE DEF r
    <2>4. UNCHANGED <<lock, snap, snapForced, phase, sd, entries, visibleTo>> /\ tables' = r.tabs
      BY <1>1 DEF Commit, Effect, r
    <2>5. txn' \in [Clients -> [st : {"none", "active", "wait", "publish", "ddl"}, writes : Seq(Dml)]]
      BY <1>0, <1>1 DEF Commit, EngineTypes
    <2>6. EngineTypes'
      BY <1>0, <2>2, <2>4, <2>5 DEF EngineTypes
    <2>7. \/ AppendBatchAsync(c, ws) /\ states' = Append(states, r.tabs)
             /\ index' = [index EXCEPT ![c] = Len(states) + 1]
          \/ UNCHANGED <<walVars, states, index>>
      BY <1>1 DEF Commit, Effect, r
    <2>8. LogTypes'
      BY <1>0, <2>3, <2>7, LogTypesAppend, LogTypesDrain
    <2>9. HistoryTypes'
      <3>1. CASE UNCHANGED <<states, index>>
        BY <1>0, <2>4, <3>1 DEF HistoryTypes
      <3>2. CASE states' = Append(states, r.tabs) /\ index' = [index EXCEPT ![c] = Len(states) + 1]
        <4>1. Len(states') = Len(states) + 1 /\ states' \in Seq(TableStates)
          BY <2>1, <2>2, <3>2
        <4> QED  BY <1>0, <2>1, <2>4, <3>2, <4>1 DEF HistoryTypes
      <3> QED  BY <2>7, <3>1, <3>2
    <2> QED  BY <2>6, <2>8, <2>9 DEF TypeInv
  <1>2. CASE Durable(c) \/ NotDurable(c) \/ DdlReturns(c)
    <2>1. Get(c, "ok") \/ Get(c, "failed")
      BY <1>2 DEF Durable, NotDurable, DdlReturns
    <2>2. LogTypes'
      BY <1>0, <2>1, LogTypesDrain
    <2>3. txn' \in [Clients -> [st : {"none", "active", "wait", "publish", "ddl"}, writes : Seq(Dml)]]
      <3>1. \/ txn' = [txn EXCEPT ![c].st = "publish"]
            \/ txn' = [txn EXCEPT ![c].st = "active"]
            \/ txn' = [txn EXCEPT ![c] = Idle]
        BY <1>2 DEF Durable, NotDurable, DdlReturns
      <3>2. CASE txn' = [txn EXCEPT ![c] = Idle]
        BY <1>0, <3>2 DEF EngineTypes, Idle
      <3>3. CASE txn' # [txn EXCEPT ![c] = Idle]
        BY <1>0, <3>1, <3>3 DEF EngineTypes
      <3> QED  BY <3>2, <3>3
    <2>4. EngineTypes'
      BY <1>0, <1>2, <2>3 DEF Durable, NotDurable, DdlReturns, EngineTypes
    <2>5. HistoryTypes'
      BY <1>0, <1>2 DEF Durable, NotDurable, DdlReturns, Told, HistoryTypes
    <2> QED  BY <2>2, <2>4, <2>5 DEF TypeInv
  <1>3. CASE Publish(c)
    <2>1. LogTypes'
      BY <1>0, <1>3, LogTypesDrain DEF Publish
    <2>2. txn' \in [Clients -> [st : {"none", "active", "wait", "publish", "ddl"}, writes : Seq(Dml)]]
      BY <1>0, <1>3 DEF Publish, EngineTypes, Idle
    <2> QED  BY <1>0, <1>3, <2>1, <2>2 DEF Publish, TypeInv, EngineTypes, HistoryTypes
  <1> QED  BY <1>1, <1>2, <1>3 DEF Progress

\* SerializeRow and DeserializeRow give back a table, and the table itself when no
\* value is lost.
LEMMA SnapshotType ==
  ASSUME NEW x \in TableStates
  PROVE  /\ SnapshotOf(x) \in TableStates
         /\ JsonLossy = {} => SnapshotOf(x) = x
  <1>1. \A v \in Cells : JsonRoundTrip(v) \in Cells
    BY StorageConstants DEF JsonRoundTrip, Cells
  <1>2. \A t \in Tables : x[t] # NoTable => x[t] \in Rows
    BY DEF TableStates
  <1>3. SnapshotOf(x) \in TableStates
    BY <1>1, <1>2 DEF SnapshotOf, TableStates, Rows, Cells
  <1>4. ASSUME JsonLossy = {} PROVE SnapshotOf(x) = x
    <2>1. ASSUME NEW t \in Tables PROVE SnapshotOf(x)[t] = x[t]
      BY <1>2, <1>4 DEF SnapshotOf, JsonRoundTrip, Rows
    <2> QED  BY <2>1 DEF SnapshotOf, TableStates
  <1> QED  BY <1>3, <1>4

LEMMA NoTablesType == NoTables \in TableStates /\ BootState \in TableStates
  BY DEF NoTables, BootState, TableStates, Rows, EmptyTable

LEMMA LoadType ==
  ASSUME NEW x \in TableStates \union {NoSnapshot}
  PROVE  LoadSnapshotIfPresent(x) \in TableStates
  BY NoTablesType DEF LoadSnapshotIfPresent

LEMMA RecoveredType ==
  ASSUME NEW x \in TableStates \union {NoSnapshot}, NEW f \in Seq(Records)
  PROVE  Recovered(x, f) \in TableStates
  <1>1. LoadSnapshotIfPresent(x) \in TableStates /\ ReadAll(f) \in Seq(Whole)
    BY LoadType, ReadAllType
  <1> DEFINE y == LoadSnapshotIfPresent(x)
             g == ReadAll(f)
  <1> HIDE DEF y, g
  <1>2. Replayed(y, g) \in [0..Len(g) -> TableStates] /\ Len(g) \in 0..Len(g)
    BY <1>1, ReplayedSteps DEF y, g
  <1> QED  BY <1>2 DEF Recovered, y, g

\* The writer, the checkpoint thread and Shutdown.
LEMMA TypeShutdown ==
  ASSUME TypeInv, UNCHANGED workload,
         WriterStep \/ Checkpoint \/ SnapshotStep \/ WriteBack \/ ShutdownBegin \/ Shutdown
  PROVE  TypeInv'
  <1> USE DEF engineVars, ghosts
  <1>0. LogTypes /\ EngineTypes /\ HistoryTypes
    BY DEF TypeInv
  <1>1. CASE WriterStep
    BY <1>0, <1>1, LogTypesWriter DEF WriterStep, TypeInv, EngineTypes, HistoryTypes
  <1>2. CASE WriteSnapshot /\ UNCHANGED sd
    <2>1. LogTypes'
      BY <1>0, <1>2, LogTypesDrain DEF WriteSnapshot
    <2>2. snap' \in TableStates \union {NoSnapshot}
      BY <1>0, <1>2, SnapshotType DEF WriteSnapshot, EngineTypes
    <2> QED  BY <1>0, <1>2, <2>1, <2>2 DEF WriteSnapshot, TypeInv, EngineTypes, HistoryTypes
  <1>3. CASE SnapshotStep
    <2>1. LogTypes'
      BY <1>0, <1>3, LogTypesDrain DEF SnapshotStep
    <2>2. /\ lock' \in {lock, "free"} /\ sd' \in {sd, "flush", "clear"}
          /\ UNCHANGED <<tables, txn, snap, snapForced, phase, entries, states, index, visibleTo>>
      BY <1>3 DEF SnapshotStep
    <2> QED  BY <1>0, <2>1, <2>2 DEF TypeInv, EngineTypes, HistoryTypes
  <1>4. CASE WriteBack
    <2>1. LogTypes'
      BY <1>0, <1>4, LogTypesDrain DEF WriteBack
    <2> QED  BY <1>0, <1>4, <2>1 DEF WriteBack, TypeInv, EngineTypes, HistoryTypes
  <1>5. CASE ShutdownBegin
    <2>1. LogTypes'
      BY <1>0, <1>5, LogTypesDrain DEF ShutdownBegin
    <2> QED  BY <1>0, <1>5, <2>1 DEF ShutdownBegin, TypeInv, EngineTypes, HistoryTypes
  <1>6. CASE ShutdownFlush
    <2>1. LogTypes'
      BY <1>0, <1>6, LogTypesDrain DEF ShutdownFlush
    <2> QED  BY <1>0, <1>6, <2>1 DEF ShutdownFlush, TypeInv, EngineTypes, HistoryTypes
  <1>7. CASE ShutdownClear
    <2>1. LogTypes'
      BY <1>0, <1>7, LogTypesDrain DEF ShutdownClear
    <2> QED  BY <1>0, <1>7, <2>1, NoTablesType DEF ShutdownClear, TypeInv, EngineTypes, HistoryTypes
  <1>8. CASE StopStep
    <2>1. LogTypes'
      BY <1>0, <1>8, LogTypesDrain DEF StopStep
    <2> QED  BY <1>0, <1>8, <2>1 DEF StopStep, TypeInv, EngineTypes, HistoryTypes
  <1>9. CASE Exit
    <2>1. LogTypes'
      BY <1>0, <1>9, LogTypesRestart DEF Exit
    <2> QED  BY <1>0, <1>9, <2>1, NoTablesType
             DEF Exit, Forget, Idle, TypeInv, EngineTypes, HistoryTypes
  <1> QED  BY <1>1, <1>2, <1>3, <1>4, <1>5, <1>6, <1>7, <1>8, <1>9
           DEF Checkpoint, Shutdown, ShutdownSnapshot

\* Crash and recovery.
LEMMA TypeRecovery ==
  ASSUME TypeInv, UNCHANGED workload, Crash \/ Boot \/ Recovery
  PROVE  TypeInv'
  <1> USE DEF engineVars, ghosts
  <1>0. LogTypes /\ EngineTypes /\ HistoryTypes
    BY DEF TypeInv
  <1>1. CASE Crash
    <2>1. LogTypes'
      BY <1>0, <1>1, LogTypesRestart DEF Crash
    <2>2. snap' \in TableStates \union {NoSnapshot} /\ snapForced' \in TableStates \union {NoSnapshot}
      BY <1>0, <1>1 DEF Crash, EngineTypes
    <2> QED  BY <1>0, <1>1, <2>1, <2>2, NoTablesType
             DEF Crash, Forget, Idle, TypeInv, EngineTypes, HistoryTypes
  <1>2. CASE Boot
    <2>1. LogTypes'
      BY <1>0, <1>2, LogTypesRestart DEF Boot
    <2>2. file' \in Seq(Records) /\ snap \in TableStates \union {NoSnapshot}
      BY <1>0, <2>1 DEF LogTypes, EngineTypes
    <2>3. tables' \in TableStates /\ entries' \in Seq(Whole)
      BY <1>2, <2>2, LoadType, ReadAllType DEF Boot
    <2>4. EngineTypes'
      BY <1>0, <1>2, <2>3 DEF Boot, EngineTypes
    <2>5. Recovered(snap, file') \in TableStates
      BY <2>2, RecoveredType
    <2>6. HistoryTypes'
      BY <1>2, <2>5 DEF Boot, HistoryTypes
    <2> QED  BY <2>1, <2>4, <2>6 DEF TypeInv
  <1>3. CASE Replay
    <2>1. Head(entries) \in Whole /\ Tail(entries) \in Seq(Whole)
      BY <1>0, <1>3 DEF Replay, EngineTypes
    <2>2. tables' \in TableStates /\ entries' \in Seq(Whole)
      BY <1>0, <1>3, <2>1, ReplayType DEF Replay, EngineTypes
    <2>3. <<Head(entries).data>> \in Seq(Ops) /\ Main \in Clients
      BY <2>1, StorageConstants DEF Whole
    <2>4. LogTypes'
      BY <1>0, <1>3, <2>3, LogTypesAppend, LogTypesDrain DEF Replay
    <2>5. txn' \in [Clients -> [st : {"none", "active", "wait", "publish", "ddl"}, writes : Seq(Dml)]]
      BY <1>0, <1>3, <2>3 DEF Replay, EngineTypes
    <2>6. EngineTypes'
      BY <1>0, <1>3, <2>2, <2>3, <2>5 DEF Replay, EngineTypes
    <2> QED  BY <1>0, <1>3, <2>4, <2>6 DEF Replay, TypeInv, HistoryTypes
  <1>4. CASE RecoveryComplete
    <2>1. LogTypes'
      BY <1>0, <1>4, LogTypesDrain DEF RecoveryComplete
    <2> QED  BY <1>0, <1>4, <2>1 DEF RecoveryComplete, TypeInv, EngineTypes, HistoryTypes
  <1> QED  BY <1>1, <1>2, <1>3, <1>4 DEF Recovery

LEMMA TypeInvariance == Spec => []TypeInv
  <1>1. Init => TypeInv
    <2> SUFFICES ASSUME Init PROVE TypeInv
      OBVIOUS
    <2>1. LogTypes
      BY NothingIsBatch DEF Init, WALInit, LogTypes
    <2>2. EngineTypes
      BY NoTablesType, StorageConstants DEF Init, EngineTypes, Idle
    <2>3. HistoryTypes
      BY NoTablesType DEF Init, HistoryTypes
    <2> QED  BY <2>1, <2>2, <2>3 DEF TypeInv
  <1>2. TypeInv /\ [Next]_<<vars, workload>> => TypeInv'
    <2> SUFFICES ASSUME TypeInv, [Next]_<<vars, workload>> PROVE TypeInv'
      OBVIOUS
    <2>1. CASE UNCHANGED <<vars, workload>>
      <3>1. LogTypes'
        BY <2>1, LogTypesDrain DEF TypeInv, vars
      <3> QED  BY <2>1, <3>1 DEF TypeInv, EngineTypes, HistoryTypes, vars, engineVars, ghosts
    <2> QED  BY <2>1, TypeClient, TypeProgress, TypeShutdown, TypeRecovery DEF Next, Step
  <1> QED  BY <1>1, <1>2, PTL DEF Spec

\* Every variable of the engine keeps its type (the memtables, the snapshots, the
\* transactions, the history the properties speak of), whatever the tables, the
\* clients, the failing calls and the crashes: no replay of a log, no failed commit and
\* no lost snapshot makes a table state that is not one.
THEOREM EngineTypeCorrect == Spec => []TypeOK
  <1>1. TypeInv => TypeOK
    BY DEF TypeInv, TypeOK, EngineTypes, HistoryTypes
  <1> QED  BY <1>1, TypeInvariance, PTL

-----------------------------------------------------------------------------
(***************************************************************************)
(* The events of commits.                                                   *)
(***************************************************************************)
Clean == inexact \intersect {"partial", "wal_failed"} = {}

\* A transaction under way has writes; it has events to publish from the release of
\* the lock to the last PublishEvent, and nobody has any outside a life's run.
CallInv ==
  /\ events \in [Clients -> Seq(Events)] /\ published \in Seq(Events)
  /\ \A c \in Clients : txn[c].st \in {"active", "wait", "publish"} => txn[c].writes # <<>>
  /\ \A c \in Clients : events[c] # <<>> <=> txn[c].st \in {"wait", "publish"}
  /\ phase # "run" => /\ published = <<>> /\ sd = "no"
                      /\ \A c \in Clients : txn[c].st \in {"none", "ddl"}

\* The memtables are what the last commit left, or are on the way there.
TablesInv ==
  /\ phase = "recover" => Len(states) = 1 /\ Replayed(tables, entries)[Len(entries)] = states[1]
  /\ phase = "run" /\ sd # "off" /\ Clean => tables = states[Len(states)]

\* The events of a commit are numbered; they are the committer's, the published ones first.
EventInv ==
  /\ \A c \in Clients : \A i \in DOMAIN events[c] :
       /\ events[c][i].commit \in 2..Len(states)
       /\ \A j \in DOMAIN events[c] :
            /\ events[c][i].commit = events[c][j].commit
            /\ i < j => events[c][i].nth < events[c][j].nth
       /\ \A j \in DOMAIN published :
            events[c][i].commit = published[j].commit => published[j].nth < events[c][i].nth
  /\ \A c, d \in Clients : c # d => \A i \in DOMAIN events[c], j \in DOMAIN events[d] :
       events[c][i].commit # events[d][j].commit
  /\ \A j \in DOMAIN published : published[j].commit \in 2..Len(states)
  /\ \A i, j \in DOMAIN published : i # j => published[i] # published[j]

ChangesFed ==
  \A n \in 2..Len(states), t \in Tables, k \in Keys :
    /\ states[n][t] # NoTable /\ states[n - 1][t] # NoTable
    /\ states[n][t][k] # states[n - 1][t][k]
    => \E e \in Feed : e.commit = n /\ e.table = t /\ e.key = k /\ e.new = states[n][t][k]

FeedInv == CallInv /\ TablesInv /\ EventInv /\ (phase = "run" /\ Clean => ChangesFed)

LEMMA FeedMember ==
  ASSUME NEW es, NEW ps, NEW e
  PROVE  e \in (UNION {ToSet(es[c]) : c \in Clients}) \union ToSet(ps)
         <=> \/ \E c \in Clients : \E i \in DOMAIN es[c] : es[c][i] = e
             \/ \E i \in DOMAIN ps : ps[i] = e
  BY DEF ToSet

LEMMA FeedMemberNext ==
  ASSUME NEW e
  PROVE  e \in Feed' <=> \/ \E d \in Clients : \E i \in DOMAIN events'[d] : events'[d][i] = e
                         \/ \E i \in DOMAIN published' : published'[i] = e
  BY FeedMember DEF Feed

LEMMA FeedInvIsEnough ==
  ASSUME FeedInv
  PROVE  FeedComplete
  BY DEF FeedInv, FeedComplete, Clean, ChangesFed, EventInv

\* Applying the first entry brings the tables one step nearer to the end of the log.
LEMMA ReplayedTail ==
  ASSUME NEW x \in TableStates, NEW log \in Seq(Whole), log # <<>>
  PROVE  Replayed(ReplayRecord(x, Head(log)), Tail(log))[Len(Tail(log))] = Replayed(x, log)[Len(log)]
  <1> DEFINE n == Len(log) - 1
             y == ReplayRecord(x, Head(log))
             R == Replayed(x, log)
             g == [i \in 0..n |-> R[i + 1]]
  <1>1. /\ Tail(log) \in Seq(Whole) /\ Len(Tail(log)) = n /\ n \in Nat /\ n + 1 = Len(log)
        /\ Head(log) = log[1] /\ \A i \in 1..n : Tail(log)[i] = log[i + 1]
    OBVIOUS
  <1>2. y \in TableStates
    BY ReplayType
  <1>3. R[0] = x /\ \A i \in 1..Len(log) : R[i] = ReplayRecord(R[i - 1], log[i])
    BY ReplayedSteps
  <1> HIDE DEF R, n
  <1>4. g[0] = y
    BY <1>1, <1>3
  <1>5. ASSUME NEW i \in 1..n PROVE g[i] = ReplayRecord(g[i - 1], Tail(log)[i])
    <2>1. i \in 0..n /\ i - 1 \in 0..n /\ i + 1 \in 1..Len(log) /\ (i + 1) - 1 = i /\ (i - 1) + 1 = i
      BY <1>1
    <2>2. g[i] = R[i + 1] /\ g[i - 1] = R[i]
      BY <2>1
    <2> QED  BY <1>1, <1>3, <2>1, <2>2
  <1> HIDE DEF g, y
  <1>6. \A i \in 0..n : Replayed(y, Tail(log))[i] = g[i]
    <2> DEFINE z == Tail(log)
    <2>1. z \in Seq(Whole) /\ n \in 0..Len(z) /\ \A i \in 1..n : g[i] = ReplayRecord(g[i - 1], z[i])
      BY <1>1, <1>5
    <2> HIDE DEF z
    <2>2. \A i \in 0..n : Replayed(y, z)[i] = g[i]
      BY <1>2, <1>4, <2>1, ReplayedUnique
    <2> QED  BY <2>2 DEF z
  <1>7. g[n] = R[Len(log)]
    BY <1>1 DEF g
  <1> QED  BY <1>1, <1>6, <1>7 DEF y, R

\* A step that changes no table, event or transaction.
Quiet ==
  /\ UNCHANGED <<tables, txn, events, published, phase, states, entries>>
  /\ inexact \subseteq inexact'
  /\ sd = "off" => sd' = "off"
  /\ phase # "run" => sd' = sd

LEMMA FeedQuiet ==
  ASSUME FeedInv, Quiet
  PROVE  FeedInv'
  <1>1. CallInv'
    BY DEF FeedInv, Quiet, CallInv
  <1>2. TablesInv'
    <2>1. Clean' => Clean
      BY DEF Quiet, Clean
    <2>2. UNCHANGED <<tables, phase, states, entries>> /\ (sd = "off" => sd' = "off") /\ TablesInv
      BY DEF Quiet, FeedInv
    <2>3. Replayed(tables', entries') = Replayed(tables, entries)
      BY <2>2, Zenon
    <2>4. CASE phase = "recover"
      <3>1. Len(states) = 1 /\ Replayed(tables, entries)[Len(entries)] = states[1]
        BY <2>2, <2>4 DEF TablesInv
      <3> QED  BY <2>2, <2>3, <2>4, <3>1 DEF TablesInv
    <2>5. CASE phase # "recover"
      <3>1. phase = "run" /\ sd # "off" /\ Clean => tables = states[Len(states)]
        BY <2>2 DEF TablesInv
      <3> QED  BY <2>1, <2>2, <2>5, <3>1 DEF TablesInv
    <2> QED  BY <2>4, <2>5
  <1>3. EventInv'
    BY DEF FeedInv, Quiet, EventInv
  <1>4. ChangesFed => ChangesFed'
    BY DEF Quiet, ChangesFed, Feed
  <1>5. phase' = "run" /\ Clean' => phase = "run" /\ Clean
    BY DEF Quiet, Clean
  <1> QED  BY <1>1, <1>2, <1>3, <1>4, <1>5 DEF FeedInv

\* The background threads and Shutdown.
LEMMA FeedBackground ==
  ASSUME FeedInv,
         \/ WriterStep \/ Checkpoint \/ SnapshotStep \/ WriteBack \/ ShutdownBegin
         \/ ShutdownSnapshot \/ ShutdownFlush \/ StopStep \/ UNCHANGED vars
  PROVE  FeedInv'
  <1> USE DEF engineVars, ghosts
  <1>1. phase # "run" => sd = "no"
    BY DEF FeedInv, CallInv
  <1>2. Quiet
    <2>1. CASE WriterStep \/ StopStep \/ WriteBack \/ UNCHANGED vars
      BY <2>1 DEF WriterStep, StopStep, WriteBack, vars, Quiet
    <2>2. CASE Checkpoint \/ ShutdownSnapshot
      BY <2>2 DEF Checkpoint, ShutdownSnapshot, WriteSnapshot, Quiet
    <2>3. CASE SnapshotStep
      BY <1>1, <2>3 DEF SnapshotStep, Quiet
    <2>4. CASE ShutdownBegin
      BY <2>4 DEF ShutdownBegin, Running, Quiet
    <2>5. CASE ShutdownFlush
      BY <1>1, <2>5 DEF ShutdownFlush, Quiet
    <2> QED  BY <2>1, <2>2, <2>3, <2>4, <2>5
  <1> QED  BY <1>2, FeedQuiet

\* The tables cleared at the end of Shutdown.
LEMMA FeedClear ==
  ASSUME FeedInv, ShutdownClear
  PROVE  FeedInv'
  <1> USE DEF engineVars, ghosts
  <1>1. CallInv' /\ phase = "run"
    BY DEF FeedInv, CallInv, ShutdownClear
  <1>2. TablesInv'
    BY <1>1 DEF TablesInv, ShutdownClear
  <1>3. EventInv'
    BY DEF FeedInv, EventInv, ShutdownClear
  <1>4. ChangesFed => ChangesFed'
    BY DEF ShutdownClear, ChangesFed, Feed
  <1>5. Clean' => Clean
    BY DEF ShutdownClear, Clean
  <1> QED  BY <1>1, <1>2, <1>3, <1>4, <1>5 DEF FeedInv

\* The end of a life: no events, no transactions.
LEMMA FeedDown ==
  ASSUME TypeInv, FeedInv, Forget
  PROVE  FeedInv'
  <1>1. /\ phase' = "down" /\ sd' = "no" /\ published' = <<>>
        /\ events' = [c \in Clients |-> <<>>] /\ txn' = [c \in Clients |-> Idle]
    BY DEF Forget
  <1>2. CallInv'
    BY <1>1 DEF CallInv, Idle
  <1>3. TablesInv'
    BY <1>1 DEF TablesInv
  <1>4. EventInv'
    BY <1>1 DEF EventInv
  <1> QED  BY <1>1, <1>2, <1>3, <1>4 DEF FeedInv

LEMMA FeedBoot ==
  ASSUME TypeInv, FeedInv, Boot
  PROVE  FeedInv'
  <1>1. /\ phase = "down" /\ phase' = "recover"
        /\ tables' = LoadSnapshotIfPresent(snap) /\ entries' = ReadAll(file')
        /\ states' = <<Recovered(snap, file')>>
        /\ UNCHANGED <<txn, events, published, sd>>
    BY DEF Boot
  <1>2. CallInv'
    BY <1>1 DEF FeedInv, CallInv
  <1>3. published' = <<>> /\ \A c \in Clients : events'[c] = <<>>
    BY <1>1 DEF FeedInv, CallInv
  <1>4. TablesInv'
    BY <1>1 DEF TablesInv, Recovered
  <1>5. EventInv'
    BY <1>3 DEF EventInv
  <1> QED  BY <1>1, <1>2, <1>4, <1>5 DEF FeedInv

LEMMA FeedRecovery ==
  ASSUME TypeInv, FeedInv, Recovery
  PROVE  FeedInv'
  <1> USE DEF engineVars, ghosts
  <1>1. /\ phase = "recover" /\ Len(states) = 1
        /\ Replayed(tables, entries)[Len(entries)] = states[1]
        /\ UNCHANGED <<events, published, states, sd>>
    BY DEF Recovery, Replay, RecoveryComplete, FeedInv, TablesInv
  <1>2. published = <<>> /\ sd = "no" /\ \A c \in Clients : events[c] = <<>>
    BY <1>1 DEF FeedInv, CallInv
  <1>3. EventInv'
    BY <1>1, <1>2 DEF EventInv
  <1>4. ChangesFed'
    <2>1. states' = states /\ Len(states) = 1
      BY <1>1
    <2>2. 2..1 = {}
      OBVIOUS
    <2> QED  BY <2>1, <2>2 DEF ChangesFed
  <1>5. CASE Replay
    <2>1. CallInv'
      <3>1. Main \in Clients /\ phase' = "recover"
        BY <1>1, <1>5, StorageConstants DEF Replay
      <3>2. txn' = txn \/ txn' = [txn EXCEPT ![Main].st = "ddl"]
        BY <1>5 DEF Replay
      <3>3. txn \in [Clients -> [st : {"none", "active", "wait", "publish", "ddl"}, writes : Seq(Dml)]]
        BY DEF TypeInv, EngineTypes
      <3>4. \A c \in Clients : txn'[c].st \in {"none", "ddl"}
        BY <1>1, <3>1, <3>2, <3>3 DEF FeedInv, CallInv
      <3> QED  BY <1>1, <1>2, <3>1, <3>4 DEF FeedInv, CallInv
    <2>2. TablesInv'
      <3>1. tables \in TableStates /\ entries \in Seq(Whole) /\ entries # <<>>
        BY <1>5 DEF TypeInv, EngineTypes, Replay
      <3>2. tables' = ReplayRecord(tables, Head(entries)) /\ entries' = Tail(entries)
        BY <1>5 DEF Replay
      <3>3. Replayed(tables', entries')[Len(entries')] = states[1]
        BY <1>1, <3>1, <3>2, ReplayedTail
      <3>4. phase' = "recover"
        BY <1>1, <1>5 DEF Replay
      <3> QED  BY <1>1, <3>3, <3>4 DEF TablesInv
    <2> QED  BY <1>3, <1>4, <2>1, <2>2 DEF FeedInv
  <1>6. CASE RecoveryComplete
    <2>1. phase' = "run" /\ UNCHANGED <<tables, txn>> /\ entries = <<>>
      BY <1>6 DEF RecoveryComplete
    <2>2. CallInv'
      BY <1>1, <2>1 DEF FeedInv, CallInv
    <2>3. tables = states[1]
      <3>1. tables \in TableStates /\ <<>> \in Seq(Whole) /\ Len(<<>>) = 0
        BY DEF TypeInv, EngineTypes
      <3>2. Replayed(tables, <<>>)[0] = tables
        BY <3>1, ReplayedSteps
      <3> QED  BY <1>1, <2>1, <3>1, <3>2
    <2>4. TablesInv'
      BY <1>1, <2>1, <2>3 DEF TablesInv
    <2> QED  BY <1>3, <1>4, <2>2, <2>4 DEF FeedInv
  <1> QED  BY <1>5, <1>6 DEF Recovery

\* Staging writes and rolling back.
LEMMA FeedStage ==
  ASSUME TypeInv, FeedInv, NEW c \in Clients, Rollback(c) \/ \E w \in workload.writes : Stage(c, w)
  PROVE  FeedInv'
  <1> USE DEF engineVars, ghosts
  <1>0. UNCHANGED <<tables, events, published, phase, states, entries, inexact, sd>>
    BY DEF Stage, Rollback
  <1>1. txn \in [Clients -> [st : {"none", "active", "wait", "publish", "ddl"}, writes : Seq(Dml)]]
        /\ phase = "run" /\ workload.writes \subseteq Dml
    BY DEF TypeInv, EngineTypes, Stage, Rollback, Running, Workload
  <1>2. /\ txn[c].st \in {"none", "active"}
        /\ \/ txn' = [txn EXCEPT ![c] = Idle]
           \/ \E w \in Dml : txn' = [txn EXCEPT ![c] = [st |-> "active", writes |-> Append(@.writes, w)]]
    BY <1>1 DEF Stage, Rollback
  <1>3. /\ \A d \in Clients \ {c} : txn'[d] = txn[d]
        /\ txn'[c].st \in {"none", "active"} /\ (txn'[c].st = "active" => txn'[c].writes # <<>>)
    BY <1>1, <1>2 DEF Idle
  <1>4. CallInv'
    BY <1>0, <1>1, <1>2, <1>3 DEF FeedInv, CallInv
  <1>5. Clean' = Clean
    BY <1>0 DEF Clean
  <1>6. TablesInv'
    BY <1>0, <1>1, <1>5 DEF FeedInv, TablesInv
  <1>7. EventInv'
    BY <1>0 DEF FeedInv, EventInv
  <1>8. ChangesFed => ChangesFed'
    BY <1>0 DEF ChangesFed, Feed
  <1> QED  BY <1>0, <1>4, <1>5, <1>6, <1>7, <1>8 DEF FeedInv

\* `evs` are the events of a commit that makes x of the tables.
Tell(x, evs) ==
  /\ \A j \in DOMAIN evs : evs[j].commit = Len(states) + 1 /\ evs[j].nth = j
  /\ \A t \in Tables, k \in Keys :
       /\ x[t] # NoTable /\ tables[t] # NoTable /\ x[t][k] # tables[t][k]
       => \E j \in DOMAIN evs : evs[j].table = t /\ evs[j].key = k /\ evs[j].new = x[t][k]

\* An effect in memory, with the events `evs` of its rows.
LEMMA FeedEffect ==
  ASSUME TypeInv, FeedInv, NEW c \in Clients, NEW x \in TableStates, NEW evs \in Seq(Events),
         phase = "run", sd # "off", txn[c].st \in {"none", "active"},
         Effect(c, x), events' = [events EXCEPT ![c] = evs],
         UNCHANGED <<published, phase, sd, entries>>, inexact \subseteq inexact',
         txn' = [txn EXCEPT ![c].st = IF evs = <<>> THEN "ddl" ELSE "wait"],
         evs # <<>> => txn[c].writes # <<>>, Tell(x, evs)
  PROVE  FeedInv'
  <1> DEFINE N == Len(states) + 1
  <1>1. txn \in [Clients -> [st : {"none", "active", "wait", "publish", "ddl"}, writes : Seq(Dml)]]
        /\ states \in Seq(TableStates) /\ Len(states) \in Nat /\ Len(states) >= 1
    BY DEF TypeInv, EngineTypes, HistoryTypes
  <1>2. /\ states' = Append(states, x) /\ tables' = x /\ Len(states') = N
        /\ \A n \in 1..Len(states) : states'[n] = states[n]
        /\ states'[N] = x
    BY <1>1 DEF Effect
  <1>3. events \in [Clients -> Seq(Events)] /\ published \in Seq(Events) /\ events[c] = <<>>
    BY DEF FeedInv, CallInv
  <1>4. /\ \A d \in Clients \ {c} : events'[d] = events[d] /\ txn'[d] = txn[d]
        /\ events'[c] = evs /\ events' \in [Clients -> Seq(Events)]
        /\ txn'[c].st = (IF evs = <<>> THEN "ddl" ELSE "wait") /\ txn'[c].writes = txn[c].writes
    BY <1>1, <1>3
  <1>5. CallInv'
    <2>1. \A d \in Clients : txn'[d].st \in {"active", "wait", "publish"} => txn'[d].writes # <<>>
      BY <1>4 DEF FeedInv, CallInv
    <2>2. \A d \in Clients : events'[d] # <<>> <=> txn'[d].st \in {"wait", "publish"}
      BY <1>4 DEF FeedInv, CallInv
    <2> QED  BY <1>3, <1>4, <2>1, <2>2 DEF CallInv
  <1>6. TablesInv'
    BY <1>2 DEF TablesInv
  <1> HIDE DEF N
  <1>7. EventInv'
    <2>1. \A d \in Clients \ {c} : \A i \in DOMAIN events[d] : events[d][i].commit \in 2..Len(states)
      BY DEF FeedInv, EventInv
    <2>2. \A j \in DOMAIN published : published[j].commit \in 2..Len(states)
      BY DEF FeedInv, EventInv
    <2>3. N \in 2..N /\ 2..Len(states) \subseteq 2..N /\ N \notin 2..Len(states)
      BY <1>1 DEF N
    <2>4. \A i \in DOMAIN evs : evs[i].commit = N /\ evs[i].nth = i
      BY DEF N, Tell
    <2>5. ASSUME NEW d \in Clients, NEW i \in DOMAIN events'[d]
          PROVE  /\ events'[d][i].commit \in 2..N
                 /\ \A j \in DOMAIN events'[d] :
                      /\ events'[d][i].commit = events'[d][j].commit
                      /\ i < j => events'[d][i].nth < events'[d][j].nth
                 /\ \A j \in DOMAIN published :
                      events'[d][i].commit = published[j].commit => published[j].nth < events'[d][i].nth
      <3>1. CASE d = c
        BY <1>4, <2>2, <2>3, <2>4, <2>5, <3>1
      <3>2. CASE d # c
        BY <1>4, <2>1, <2>3, <2>5, <3>2 DEF FeedInv, EventInv
      <3> QED  BY <3>1, <3>2
    <2>6. ASSUME NEW a \in Clients, NEW d \in Clients, a # d,
                 NEW i \in DOMAIN events'[a], NEW j \in DOMAIN events'[d]
          PROVE  events'[a][i].commit # events'[d][j].commit
      <3>1. CASE a = c
        BY <1>4, <2>1, <2>3, <2>4, <2>6, <3>1
      <3>2. CASE d = c
        BY <1>4, <2>1, <2>3, <2>4, <2>6, <3>2
      <3>3. CASE a # c /\ d # c
        BY <1>4, <2>6, <3>3 DEF FeedInv, EventInv
      <3> QED  BY <3>1, <3>2, <3>3
    <2>7. \A j \in DOMAIN published : published[j].commit \in 2..N
      BY <2>2, <2>3
    <2>8. \A i, j \in DOMAIN published : i # j => published[i] # published[j]
      BY DEF FeedInv, EventInv
    <2> QED  BY <1>2, <2>5, <2>6, <2>7, <2>8 DEF EventInv
  <1>8. ASSUME Clean' PROVE ChangesFed'
    <2>1. Clean /\ ChangesFed /\ tables = states[Len(states)]
      BY <1>8 DEF Clean, FeedInv, TablesInv
    <2>0. \A e : e \in Feed' <=> \/ \E d \in Clients : \E i \in DOMAIN events'[d] : events'[d][i] = e
                                 \/ \E i \in DOMAIN published' : published'[i] = e
      BY FeedMemberNext
    <2>2. ASSUME NEW e \in Feed PROVE e \in Feed'
      <3>1. CASE \E d \in Clients : \E i \in DOMAIN events[d] : events[d][i] = e
        BY <1>3, <1>4, <2>0, <3>1
      <3>2. CASE \E i \in DOMAIN published : published[i] = e
        BY <2>0, <3>2
      <3> QED  BY <3>1, <3>2, FeedMember DEF Feed
    <2>3. \A j \in DOMAIN evs : evs[j] \in Feed'
      BY <1>4, <2>0
    <2>4. ASSUME NEW n \in 2..N, NEW t \in Tables, NEW k \in Keys,
                 states'[n][t] # NoTable, states'[n - 1][t] # NoTable,
                 states'[n][t][k] # states'[n - 1][t][k]
          PROVE  \E e \in Feed' : e.commit = n /\ e.table = t /\ e.key = k
                                   /\ e.new = states'[n][t][k]
      <3>1. CASE n = N
        <4>1. states'[n] = x /\ states'[n - 1] = tables
          BY <1>1, <1>2, <2>1, <3>1 DEF N
        <4>2. PICK j \in DOMAIN evs : evs[j].table = t /\ evs[j].key = k /\ evs[j].new = x[t][k]
          BY <2>4, <4>1 DEF Tell
        <4>3. evs[j].commit = n
          BY <3>1 DEF N, Tell
        <4> QED  BY <2>3, <4>1, <4>2, <4>3
      <3>2. CASE n # N
        <4>1. n \in 2..Len(states) /\ n \in 1..Len(states) /\ n - 1 \in 1..Len(states)
          BY <1>1, <3>2 DEF N
        <4>2. states'[n] = states[n] /\ states'[n - 1] = states[n - 1]
          BY <1>2, <4>1
        <4>3. PICK e \in Feed : e.commit = n /\ e.table = t /\ e.key = k
                                  /\ e.new = states[n][t][k]
          BY <2>1, <2>4, <4>1, <4>2 DEF ChangesFed
        <4> QED  BY <2>2, <4>2, <4>3
      <3> QED  BY <3>1, <3>2
    <2> QED  BY <1>2, <2>4 DEF ChangesFed
  <1> QED  BY <1>5, <1>6, <1>7, <1>8 DEF FeedInv

\* Commit: the loop went through, or the transaction keeps what it had.
LEMMA FeedCommit ==
  ASSUME TypeInv, FeedInv, NEW c \in Clients, Commit(c)
  PROVE  FeedInv'
  <1> USE DEF engineVars, ghosts
  <1> DEFINE ws == txn[c].writes
             r == ApplyWrites(ws)
  <1>1. /\ ws \in Seq(Dml) /\ tables \in TableStates /\ Len(states) \in Nat
        /\ states \in Seq(TableStates) /\ ws # <<>>
        /\ phase = "run" /\ sd # "off" /\ txn[c].st = "active"
    BY DEF TypeInv, EngineTypes, HistoryTypes, Commit, Running, FeedInv, CallInv
  <1>2. r \in Accs
    BY <1>1, ApplyWritesType
  <1>3. UNCHANGED <<published, phase, sd, entries>> /\ inexact \subseteq inexact'
    BY DEF Commit
  <1>4. CASE r.good
    <2>1. /\ Effect(c, r.tabs) /\ events' = [events EXCEPT ![c] = r.evs]
          /\ txn' = [txn EXCEPT ![c].st = "wait"]
      BY <1>4 DEF Commit
    <2>2. /\ r.tabs \in TableStates /\ r.evs \in Seq(Events) /\ Len(r.evs) = Len(ws)
          /\ \A j \in 1..Len(ws) : r.evs[j].commit = Len(states) + 1 /\ r.evs[j].nth = j
          /\ \A t \in Tables, k \in Keys :
               tables[t] # NoTable /\ r.tabs[t][k] # tables[t][k]
               => \E j \in 1..Len(ws) : /\ r.evs[j].table = t /\ r.evs[j].key = k
                                        /\ r.evs[j].new = r.tabs[t][k]
      BY <1>1, <1>4, AppliedAll
    <2> DEFINE x == r.tabs
               evs == r.evs
    <2>3. x \in TableStates /\ evs \in Seq(Events) /\ evs # <<>> /\ DOMAIN evs = 1..Len(ws)
      <3> HIDE DEF r, ws
      <3>1. Len(ws) # 0
        BY <1>1
      <3> QED  BY <2>2, <3>1
    <2>4. \A j \in DOMAIN evs : evs[j].commit = Len(states) + 1 /\ evs[j].nth = j
      BY <2>2, <2>3
    <2>5. \A t \in Tables, k \in Keys :
            /\ x[t] # NoTable /\ tables[t] # NoTable /\ x[t][k] # tables[t][k]
            => \E j \in DOMAIN evs : evs[j].table = t /\ evs[j].key = k /\ evs[j].new = x[t][k]
      <3> HIDE DEF r
      <3> QED  BY <2>2, <2>3
    <2>6. txn' = [txn EXCEPT ![c].st = IF evs = <<>> THEN "ddl" ELSE "wait"]
      <3> HIDE DEF evs
      <3> QED  BY <2>1, <2>3
    <2> HIDE DEF x, evs, ws
    <2>7. Effect(c, x) /\ events' = [events EXCEPT ![c] = evs] /\ txn[c].writes # <<>>
      BY <1>1, <2>1 DEF x, evs, ws
    <2>8. /\ phase = "run" /\ sd # "off" /\ txn[c].st \in {"none", "active"}
          /\ evs # <<>> => txn[c].writes # <<>>
      BY <1>1, <2>7
    <2> HIDE DEF r
    <2>9. Tell(x, evs)
      BY <2>4, <2>5 DEF Tell
    <2> HIDE DEF r
    <2> QED  BY <1>3, <2>3, <2>6, <2>7, <2>8, <2>9, FeedEffect
  <1>5. CASE ~r.good
    <2>1. /\ tables' = r.tabs /\ UNCHANGED <<txn, events, states>>
          /\ r.tabs # tables => "partial" \in inexact'
      BY <1>5 DEF Commit
    <2> HIDE DEF r
    <2>2. CallInv'
      BY <1>3, <2>1 DEF FeedInv, CallInv
    <2>3. Clean' => Clean /\ tables' = tables
      BY <1>3, <2>1 DEF Clean
    <2>4. TablesInv'
      BY <1>1, <1>3, <2>1, <2>3 DEF FeedInv, TablesInv
    <2>5. EventInv'
      BY <1>3, <2>1 DEF FeedInv, EventInv
    <2>6. ChangesFed => ChangesFed'
      BY <1>3, <2>1 DEF ChangesFed, Feed
    <2> QED  BY <1>1, <2>2, <2>3, <2>4, <2>5, <2>6 DEF FeedInv
  <1> QED  BY <1>4, <1>5

\* CreateTable and DropTable have no rows to tell of.
LEMMA FeedDdl ==
  ASSUME TypeInv, FeedInv, NEW c \in Clients, NEW t \in Tables, CreateTable(c, t) \/ DropTable(c, t)
  PROVE  FeedInv'
  <1>1. PICK op \in {"CREATE_TABLE", "DROP_TABLE"}, x \in {EmptyTable, NoTable} :
          /\ Ddl(c, op, t, [tables EXCEPT ![t] = x]) /\ UNCHANGED <<entries, inexact>>
          /\ x = NoTable \/ tables[t] = NoTable
          /\ phase = "run" /\ sd # "off" /\ txn[c].st = "none"
    BY DEF CreateTable, DropTable, Running
  <1> DEFINE y == [tables EXCEPT ![t] = x]
             evs == <<>>
  <1>2. y \in TableStates /\ evs \in Seq(Events)
    BY DEF TypeInv, EngineTypes, TableStates, Rows, EmptyTable
  <1>3. \A s \in Tables : y[s] = tables[s] \/ (s = t /\ (y[s] = NoTable \/ tables[s] = NoTable))
    BY <1>1 DEF TypeInv, EngineTypes, TableStates
  <1>4. /\ Effect(c, y) /\ UNCHANGED <<published, phase, sd, entries>> /\ events' = events
        /\ txn' = [txn EXCEPT ![c].st = "ddl"]
    BY <1>1 DEF Ddl
  <1>5. events' = [events EXCEPT ![c] = evs]
    <2>1. events \in [Clients -> Seq(Events)] /\ events[c] = <<>>
      BY <1>1 DEF FeedInv, CallInv
    <2> QED  BY <1>4, <2>1
  <1>6. txn' = [txn EXCEPT ![c].st = IF evs = <<>> THEN "ddl" ELSE "wait"] /\ DOMAIN evs = {}
    BY <1>4
  <1>7. inexact \subseteq inexact' /\ phase = "run" /\ sd # "off" /\ txn[c].st \in {"none", "active"}
    BY <1>1
  <1>8. evs # <<>> => txn[c].writes # <<>>
    OBVIOUS
  <1> HIDE DEF y, evs
  <1>9. \A j \in DOMAIN evs : evs[j].commit = Len(states) + 1 /\ evs[j].nth = j
    BY <1>6
  <1>10. \A s \in Tables, k \in Keys :
           /\ y[s] # NoTable /\ tables[s] # NoTable /\ y[s][k] # tables[s][k]
           => \E j \in DOMAIN evs : evs[j].table = s /\ evs[j].key = k /\ evs[j].new = y[s][k]
    BY <1>3
  <1>11. Tell(y, evs)
    BY <1>9, <1>10 DEF Tell
  <1> QED  BY <1>2, <1>4, <1>5, <1>6, <1>7, <1>8, <1>11, FeedEffect

\* The answers of the log.
LEMMA FeedAnswer ==
  ASSUME TypeInv, FeedInv, NEW c \in Clients, Durable(c) \/ NotDurable(c) \/ DdlReturns(c)
  PROVE  FeedInv'
  <1>1. txn \in [Clients -> [st : {"none", "active", "wait", "publish", "ddl"}, writes : Seq(Dml)]]
    BY DEF TypeInv, EngineTypes
  <1>2. UNCHANGED <<tables, published, phase, states, entries, sd>> /\ inexact \subseteq inexact'
    BY DEF Durable, NotDurable, DdlReturns
  <1>3. TablesInv'
    <2>1. Clean' => Clean
      BY <1>2 DEF Clean
    <2>2. TablesInv
      BY DEF FeedInv
    <2> QED  BY <1>2, <2>1, <2>2 DEF TablesInv
  <1>4. CASE Durable(c) \/ DdlReturns(c)
    <2>1. events' = events
      BY <1>4 DEF Durable, DdlReturns
    <2>2. ASSUME Durable(c) PROVE CallInv'
      <3>1. txn[c].st = "wait" /\ txn' = [txn EXCEPT ![c].st = "publish"] /\ phase = "run"
        BY <2>2 DEF Durable
      <3>2. /\ \A d \in Clients \ {c} : txn'[d] = txn[d]
            /\ txn'[c].st = "publish" /\ txn'[c].writes = txn[c].writes
        BY <1>1, <3>1
      <3> QED  BY <1>2, <2>1, <3>1, <3>2 DEF FeedInv, CallInv
    <2>3. ASSUME DdlReturns(c) PROVE CallInv'
      <3>1. txn[c].st = "ddl" /\ txn' = [txn EXCEPT ![c] = Idle]
        BY <2>3 DEF DdlReturns
      <3>2. /\ \A d \in Clients \ {c} : txn'[d] = txn[d]
            /\ txn'[c].st = "none"
        BY <1>1, <3>1 DEF Idle
      <3> QED  BY <1>2, <2>1, <3>1, <3>2 DEF FeedInv, CallInv
    <2>4. EventInv'
      BY <1>2, <2>1 DEF FeedInv, EventInv
    <2>5. ChangesFed => ChangesFed'
      BY <1>2, <2>1 DEF ChangesFed, Feed
    <2>6. Clean' => Clean
      BY <1>2 DEF Clean
    <2>7. CallInv'
      BY <1>4, <2>2, <2>3
    <2> QED  BY <1>2, <1>3, <2>4, <2>5, <2>6, <2>7 DEF FeedInv
  <1>5. CASE NotDurable(c)
    <2>1. /\ txn[c].st = "wait" /\ txn' = [txn EXCEPT ![c].st = "active"] /\ phase = "run"
          /\ events' = [events EXCEPT ![c] = <<>>] /\ ~Clean'
      BY <1>5 DEF NotDurable, Clean
    <2>2. /\ \A d \in Clients \ {c} : txn'[d] = txn[d] /\ events'[d] = events[d]
          /\ txn'[c].st = "active" /\ txn'[c].writes = txn[c].writes /\ events'[c] = <<>>
          /\ events' \in [Clients -> Seq(Events)]
      BY <1>1, <2>1 DEF FeedInv, CallInv
    <2>3. CallInv'
      BY <1>2, <2>1, <2>2 DEF FeedInv, CallInv
    <2>4. EventInv'
      <3>1. DOMAIN events'[c] = {} /\ EventInv
        BY <2>2 DEF FeedInv
      <3>2. \A d \in Clients : DOMAIN events'[d] # {} => events'[d] = events[d]
        BY <2>2, <3>1
      <3>3. \A d \in Clients : \A i : i \in DOMAIN events'[d] => i \in DOMAIN events[d] /\ events'[d] = events[d]
        BY <3>2
      <3> QED  BY <1>2, <3>1, <3>3 DEF EventInv
    <2> QED  BY <1>3, <2>1, <2>3, <2>4 DEF FeedInv
  <1> QED  BY <1>4, <1>5

\* One PublishEvent.
LEMMA FeedPublish ==
  ASSUME TypeInv, FeedInv, NEW c \in Clients, Publish(c)
  PROVE  FeedInv'
  <1> USE DEF engineVars, ghosts
  <1> DEFINE es == events[c]
             h == Head(es)
             m == Len(published)
  <1>1. txn \in [Clients -> [st : {"none", "active", "wait", "publish", "ddl"}, writes : Seq(Dml)]]
    BY DEF TypeInv, EngineTypes
  <1>2. /\ UNCHANGED <<tables, phase, states, entries, sd, inexact>> /\ txn[c].st = "publish"
        /\ published' = Append(published, h) /\ events' = [events EXCEPT ![c] = Tail(es)]
        /\ txn' = IF Len(es) = 1 THEN [txn EXCEPT ![c] = Idle] ELSE txn
    BY DEF Publish
  <1>3. /\ events \in [Clients -> Seq(Events)] /\ published \in Seq(Events)
        /\ es \in Seq(Events) /\ es # <<>> /\ phase = "run"
    BY <1>2 DEF FeedInv, CallInv
  <1>4. /\ h = es[1] /\ h \in Events /\ Tail(es) \in Seq(Events) /\ 1 \in DOMAIN es
        /\ Len(Tail(es)) = Len(es) - 1 /\ \A i \in DOMAIN Tail(es) : i + 1 \in DOMAIN es /\ Tail(es)[i] = es[i + 1]
        /\ \A i \in DOMAIN es : i = 1 \/ (i - 1 \in DOMAIN Tail(es) /\ es[i] = Tail(es)[i - 1])
    BY <1>3
  <1>5. /\ \A d \in Clients \ {c} : events'[d] = events[d]
        /\ events'[c] = Tail(es) /\ events' \in [Clients -> Seq(Events)]
    BY <1>2, <1>3, <1>4
  <1>6. /\ published' \in Seq(Events) /\ m \in Nat /\ DOMAIN published = 1..m
        /\ DOMAIN published' = 1..(m + 1) /\ published'[m + 1] = h
        /\ \A i \in 1..m : published'[i] = published[i]
    BY <1>2, <1>3, <1>4
  <1>7. CallInv'
    <2>1. \A d \in Clients \ {c} : txn'[d] = txn[d]
      BY <1>1, <1>2
    <2>2. CASE Len(es) = 1
      <3>1. txn'[c].st = "none" /\ events'[c] = <<>>
        BY <1>1, <1>2, <1>3, <1>4, <1>5, <2>2 DEF Idle
      <3> QED  BY <1>2, <1>3, <1>5, <1>6, <2>1, <3>1 DEF FeedInv, CallInv
    <2>3. CASE Len(es) # 1
      <3>1. txn' = txn /\ events'[c] # <<>>
        <4> HIDE DEF es
        <4>1. Len(es) \in Nat /\ Len(es) # 0
          BY <1>3
        <4>2. Len(Tail(es)) # 0
          BY <1>4, <2>3, <4>1
        <4>3. Tail(es) # <<>>
          <5> DEFINE z == Tail(es)
          <5> HIDE DEF z
          <5>1. Len(z) # 0
            BY <4>2 DEF z
          <5>2. z # <<>>
            BY <5>1
          <5> QED  BY <5>2 DEF z
        <4>4. txn' = txn
          BY <1>2, <2>3
        <4> QED  BY <1>5, <4>3, <4>4
      <3> QED  BY <1>2, <1>3, <1>5, <1>6, <3>1 DEF FeedInv, CallInv
    <2> QED  BY <2>2, <2>3
  <1>8. TablesInv'
    <2>1. Clean' = Clean /\ TablesInv
      BY <1>2 DEF Clean, FeedInv
    <2> QED  BY <1>2, <1>3, <2>1 DEF TablesInv
  <1> HIDE DEF h, m, es
  <1>9. EventInv'
    <2>0. EventInv /\ es = events[c]
      BY DEF FeedInv, es
    <2>1. /\ h.commit \in 2..Len(states) /\ h.nth \in Nat
          /\ \A j \in DOMAIN published : h.commit = published[j].commit => published[j].nth < h.nth
      <3>1. h.nth \in Nat
        BY <1>4 DEF Events
      <3> QED  BY <1>4, <2>0, <3>1 DEF EventInv
    <2>2. ASSUME NEW d \in Clients, NEW i \in DOMAIN events'[d]
          PROVE  \E k \in DOMAIN events[d] :
                   /\ events'[d][i] = events[d][k] /\ k = IF d = c THEN i + 1 ELSE i
      BY <1>4, <1>5, <2>0, <2>2
    <2>3. ASSUME NEW d \in Clients, NEW i \in DOMAIN events'[d]
          PROVE  /\ events'[d][i].commit \in 2..Len(states')
                 /\ \A j \in DOMAIN events'[d] :
                      /\ events'[d][i].commit = events'[d][j].commit
                      /\ i < j => events'[d][i].nth < events'[d][j].nth
                 /\ \A j \in DOMAIN published' :
                      events'[d][i].commit = published'[j].commit => published'[j].nth < events'[d][i].nth
      <3>1. PICK k \in DOMAIN events[d] : events'[d][i] = events[d][k] /\ k = IF d = c THEN i + 1 ELSE i
        BY <2>2, <2>3
      <3>2. events'[d][i].commit \in 2..Len(states')
        BY <1>2, <2>0, <3>1 DEF EventInv
      <3>3. ASSUME NEW j \in DOMAIN events'[d]
            PROVE  /\ events'[d][i].commit = events'[d][j].commit
                   /\ i < j => events'[d][i].nth < events'[d][j].nth
        <4>1. PICK l \in DOMAIN events[d] : events'[d][j] = events[d][l] /\ l = IF d = c THEN j + 1 ELSE j
          BY <2>2, <3>3
        <4>2. i < j => k < l
          <5>1. events'[d] \in Seq(Events)
            BY <1>5
          <5>2. i \in Nat /\ j \in Nat
            BY <2>3, <3>3, <5>1
          <5> QED  BY <3>1, <4>1, <5>2
        <4> QED  BY <2>0, <3>1, <4>1, <4>2 DEF EventInv
      <3>4. ASSUME NEW j \in DOMAIN published', events'[d][i].commit = published'[j].commit
            PROVE  published'[j].nth < events'[d][i].nth
        <4>1. CASE j \in DOMAIN published
          BY <1>6, <2>0, <3>1, <3>4, <4>1 DEF EventInv
        <4>2. CASE j = m + 1
          <5>1. published'[j] = h /\ h = events[c][1]
            BY <1>4, <1>6, <2>0, <4>2
          <5>2. CASE d = c
            <6>1. 1 < k
              <7>1. events'[d] \in Seq(Events)
                BY <1>5
              <7>2. i \in Nat \ {0}
                BY <2>3, <7>1
              <7> QED  BY <3>1, <5>2, <7>2
            <6>2. events[c][1].nth < events[c][k].nth
              BY <1>4, <2>0, <3>1, <5>2, <6>1 DEF EventInv
            <6> QED  BY <3>1, <5>1, <5>2, <6>2
          <5>3. CASE d # c
            BY <1>4, <2>0, <3>1, <3>4, <5>1, <5>3 DEF EventInv
          <5> QED  BY <5>2, <5>3
        <4> QED  BY <1>6, <3>4, <4>1, <4>2
      <3> QED  BY <3>2, <3>3, <3>4
    <2>4. ASSUME NEW a \in Clients, NEW d \in Clients, a # d,
                 NEW i \in DOMAIN events'[a], NEW j \in DOMAIN events'[d]
          PROVE  events'[a][i].commit # events'[d][j].commit
      <3>1. PICK k \in DOMAIN events[a] : events'[a][i] = events[a][k]
        BY <2>2, <2>4
      <3>2. PICK l \in DOMAIN events[d] : events'[d][j] = events[d][l]
        BY <2>2, <2>4
      <3> QED  BY <2>0, <2>4, <3>1, <3>2 DEF EventInv
    <2>5. ASSUME NEW j \in DOMAIN published' PROVE published'[j].commit \in 2..Len(states')
      BY <1>2, <1>6, <2>0, <2>1, <2>5 DEF EventInv
    <2>6. ASSUME NEW j \in DOMAIN published PROVE h # published[j]
      <3>1. published[j] \in Events
        BY <1>3
      <3>2. published[j].nth \in Nat
        BY <3>1 DEF Events
      <3> QED  BY <2>1, <2>6, <3>2
    <2>7. ASSUME NEW i \in DOMAIN published', NEW j \in DOMAIN published', i # j
          PROVE  published'[i] # published'[j]
      BY <1>6, <2>0, <2>6, <2>7 DEF EventInv
    <2> QED  BY <2>3, <2>4, <2>5, <2>7 DEF EventInv
  <1>10. ChangesFed => ChangesFed'
    <2>1. ASSUME NEW e \in Feed PROVE e \in Feed'
      <3>1. CASE \E d \in Clients : \E i \in DOMAIN events[d] : events[d][i] = e
        <4>0. PICK d \in Clients : \E i \in DOMAIN events[d] : events[d][i] = e
          BY <3>1
        <4>1. PICK i \in DOMAIN events[d] : events[d][i] = e
          BY <4>0
        <4>2. CASE d # c
          BY <1>5, <4>1, <4>2, FeedMemberNext
        <4>3. CASE d = c /\ i = 1
          <5>1. m + 1 \in DOMAIN published' /\ published'[m + 1] = e
            BY <1>4, <1>6, <4>1, <4>3 DEF es
          <5> QED  BY <5>1, FeedMemberNext
        <4>4. CASE d = c /\ i # 1
          <5>1. i - 1 \in DOMAIN events'[c] /\ events'[c][i - 1] = e
            BY <1>4, <1>5, <4>1, <4>4 DEF es
          <5> QED  BY <5>1, FeedMemberNext
        <4> QED  BY <4>2, <4>3, <4>4
      <3>2. CASE \E i \in DOMAIN published : published[i] = e
        <4>1. \E i \in DOMAIN published' : published'[i] = e
          BY <1>6, <3>2
        <4> QED  BY <4>1, FeedMemberNext
      <3> QED  BY <3>1, <3>2, FeedMember DEF Feed
    <2> QED  BY <1>2, <2>1 DEF ChangesFed
  <1>11. Clean' = Clean
    BY <1>2 DEF Clean
  <1> QED  BY <1>2, <1>7, <1>8, <1>9, <1>10, <1>11 DEF FeedInv

LEMMA FeedInvariance == Spec => []FeedInv
  <1>1. Init => FeedInv
    <2> SUFFICES ASSUME Init PROVE FeedInv
      OBVIOUS
    <2>1. CallInv
      BY DEF Init, CallInv, Idle
    <2>2. TablesInv
      BY DEF Init, TablesInv
    <2>3. EventInv
      BY DEF Init, EventInv
    <2>4. ChangesFed
      <3>1. 2..1 = {} /\ Len(states) = 1
        BY DEF Init
      <3> QED  BY <3>1 DEF ChangesFed
    <2> QED  BY <2>1, <2>2, <2>3, <2>4 DEF FeedInv
  <1>2. TypeInv /\ FeedInv /\ [Next]_<<vars, workload>> => FeedInv'
    <2> SUFFICES ASSUME TypeInv, FeedInv, [Next]_<<vars, workload>> PROVE FeedInv'
      OBVIOUS
    <2>1. ASSUME NEW c \in Clients, Client(c) PROVE FeedInv'
      BY <2>1, FeedStage, FeedDdl DEF Client
    <2>2. ASSUME NEW c \in Clients, Progress(c) PROVE FeedInv'
      BY <2>2, FeedCommit, FeedAnswer, FeedPublish DEF Progress
    <2>3. CASE Shutdown
      BY <2>3, FeedBackground, FeedClear, FeedDown DEF Shutdown, Exit
    <2>4. CASE Crash
      BY <2>4, FeedDown DEF Crash
    <2>5. CASE WriterStep \/ Checkpoint \/ SnapshotStep \/ WriteBack \/ ShutdownBegin
      BY <2>5, FeedBackground
    <2>6. CASE Boot \/ Recovery
      BY <2>6, FeedBoot, FeedRecovery
    <2>7. CASE UNCHANGED <<vars, workload>>
      BY <2>7, FeedBackground
    <2> QED  BY <2>1, <2>2, <2>3, <2>4, <2>5, <2>6, <2>7 DEF Next, Step
  <1> QED  BY <1>1, <1>2, TypeInvariance, PTL DEF Spec

\* README, "Every committed write emits exactly one ChangefeedEvent": every row that a
\* commit changed has an event with its last value in the feed, or in the hands of
\* the committer that is publishing, and no event is published twice; for any tables,
\* clients and transactions, whatever crashes, checkpoints and failures came before,
\* unless a commit of this life failed half way or the log failed.
THEOREM CommitsAreFed == Spec => []FeedComplete
  BY FeedInvariance, TypeInvariance, FeedInvIsEnough, PTL

-----------------------------------------------------------------------------
(***************************************************************************)
(* Logs in which every record had an effect.                                *)
(***************************************************************************)
Effective(x, w) ==
  CASE w.op = "CREATE_TABLE" -> x[w.table] = NoTable
    [] w.op = "DROP_TABLE"   -> x[w.table] # NoTable
    [] w.op = "INSERT"       -> x[w.table] # NoTable /\ ~Has(x, w.table, w.key)
    [] OTHER                 -> Has(x, w.table, w.key)

EffectiveLog(b, log) ==
  \A i \in 1..Len(log) : Effective(Replayed(b, log)[i - 1], log[i].data)

\* Every table and row of x is what it is in s or what it is in z.
Between(x, s, z) ==
  \A t \in Tables :
    /\ x[t] = NoTable => s[t] = NoTable \/ z[t] = NoTable
    /\ x[t] # NoTable =>
         /\ s[t] # NoTable \/ z[t] # NoTable
         /\ \A k \in Keys : \/ s[t] # NoTable /\ x[t][k] = s[t][k]
                            \/ z[t] # NoTable /\ x[t][k] = z[t][k]

\* A record that had an effect on s leaves x between the two.
LEMMA BetweenStep ==
  ASSUME NEW x \in TableStates, NEW s \in TableStates, NEW z \in TableStates, NEW r \in Whole,
         Between(x, s, z), Effective(s, r.data)
  PROVE  Between(ReplayRecord(x, r), ReplayRecord(s, r), z)
  <1> DEFINE w == r.data
             y == ReplayRecord(x, r)
             u == ReplayRecord(s, r)
  <1>1. w \in Ops /\ w.table \in Tables
    BY DEF Whole, Ops, Dml
  <1>2. \A t \in Tables \ {w.table} : y[t] = x[t] /\ u[t] = s[t]
    BY <1>1 DEF ReplayRecord, Put, TableStates
  <1>3. EmptyTable # NoTable /\ \A k \in Keys : EmptyTable[k] = Absent
    BY StorageConstants DEF EmptyTable, Rows
  <1> DEFINE t == w.table
             Here == /\ y[t] = NoTable => u[t] = NoTable \/ z[t] = NoTable
                     /\ y[t] # NoTable =>
                          /\ u[t] # NoTable \/ z[t] # NoTable
                          /\ \A k \in Keys : \/ u[t] # NoTable /\ y[t][k] = u[t][k]
                                             \/ z[t] # NoTable /\ y[t][k] = z[t][k]
  <1>4. CASE w.op = "CREATE_TABLE"
    <2>1. s[t] = NoTable /\ u[t] = EmptyTable
      BY <1>1, <1>4 DEF Effective, ReplayRecord, TableStates
    <2>2. y[t] = IF x[t] = NoTable THEN EmptyTable ELSE x[t]
      BY <1>1, <1>4 DEF ReplayRecord, TableStates
    <2>3. Here
      BY <1>1, <1>3, <2>1, <2>2 DEF Between
    <2> QED  BY <1>2, <2>3 DEF Between
  <1>5. CASE w.op = "DROP_TABLE"
    <2>1. y[t] = NoTable /\ u[t] = NoTable
      BY <1>1, <1>5 DEF ReplayRecord, TableStates
    <2> QED  BY <1>2, <2>1 DEF Between
  <1>6. CASE w.op \notin {"CREATE_TABLE", "DROP_TABLE"}
    <2> DEFINE k == w.key
    <2>1. w \in Dml /\ k \in Keys /\ w.val \in Cells
      BY <1>1, <1>6 DEF Ops, Dml, Cells
    <2>2. s[t] # NoTable /\ u = Put(s, w)
      BY <1>6 DEF Effective, ReplayRecord, Has
    <2>3. s[t] \in Rows /\ u[t] \in Rows /\ u[t] # NoTable /\ u[t][k] = w.val
          /\ \A l \in Keys \ {k} : u[t][l] = s[t][l]
      <3>1. s[t] \in Rows
        BY <1>1, <2>2 DEF TableStates
      <3>2. u[t] = [s[t] EXCEPT ![k] = w.val]
        BY <1>1, <2>2 DEF TableStates, Put
      <3>3. u[t] \in Rows
        BY <2>1, <3>1, <3>2 DEF Rows, Cells
      <3> QED  BY <2>1, <3>1, <3>2, <3>3, StorageConstants DEF Rows
    <2>4. CASE x[t] = NoTable
      <3>1. y[t] = NoTable /\ z[t] = NoTable
        BY <1>1, <1>6, <2>2, <2>4 DEF ReplayRecord, Has, Between
      <3> QED  BY <1>2, <3>1 DEF Between
    <2>5. CASE x[t] # NoTable /\ y = Put(x, w)
      <3>1. x[t] \in Rows
        BY <1>1, <2>5 DEF TableStates
      <3>2. y[t] = [x[t] EXCEPT ![k] = w.val]
        BY <1>1, <2>5 DEF TableStates, Put
      <3>3. y[t][k] = w.val /\ \A l \in Keys \ {k} : y[t][l] = x[t][l]
        BY <2>1, <3>1, <3>2 DEF Rows
      <3>4. ASSUME NEW l \in Keys
            PROVE  \/ u[t] # NoTable /\ y[t][l] = u[t][l]
                   \/ z[t] # NoTable /\ y[t][l] = z[t][l]
        <4>1. CASE l = k
          BY <2>3, <3>3, <4>1
        <4>2. CASE l # k
          <5>1. x[t][l] = s[t][l] \/ (z[t] # NoTable /\ x[t][l] = z[t][l])
            BY <1>1, <2>5 DEF Between
          <5> QED  BY <2>3, <3>3, <4>2, <5>1
        <4> QED  BY <4>1, <4>2
      <3>5. Here
        <4>1. y[t] \in Rows
          BY <2>1, <3>1, <3>2 DEF Rows, Cells
        <4>2. y[t] # NoTable
          BY <4>1, StorageConstants
        <4> HIDE DEF y, u, t
        <4> QED  BY <2>3, <3>4, <4>2
      <3> QED  BY <1>2, <3>5 DEF Between
    <2>6. CASE x[t] # NoTable /\ y # Put(x, w)
      <3>1. y = x
        BY <1>6, <2>6 DEF ReplayRecord
      <3>2. x[t][k] # s[t][k]
        BY <1>6, <2>6, <2>1 DEF ReplayRecord, Effective, Has
      <3>3. z[t] # NoTable /\ x[t][k] = z[t][k]
        BY <1>1, <2>1, <2>6, <3>2 DEF Between
      <3>4. Here
        BY <1>1, <2>2, <2>3, <2>6, <3>1, <3>3 DEF Between
      <3> QED  BY <1>2, <3>4 DEF Between
    <2> QED  BY <2>4, <2>5, <2>6
  <1> QED  BY <1>4, <1>5, <1>6

LEMMA BetweenSame ==
  ASSUME NEW x \in TableStates, NEW z \in TableStates, Between(x, z, z)
  PROVE  x = z
  <1>1. ASSUME NEW t \in Tables PROVE x[t] = z[t]
    <2>1. CASE x[t] = NoTable
      BY <2>1 DEF Between
    <2>2. CASE x[t] # NoTable
      <3>1. x[t] \in Rows /\ z[t] \in Rows /\ \A k \in Keys : x[t][k] = z[t][k]
        BY <2>2 DEF Between, TableStates
      <3> QED  BY <3>1 DEF Rows
    <2> QED  BY <2>1, <2>2
  <1> QED  BY <1>1 DEF TableStates

\* Logs that begin alike do alike.
LEMMA ReplayedPrefix ==
  ASSUME NEW b \in TableStates, NEW f \in Seq(Whole), NEW g \in Seq(Whole),
         NEW n \in Nat, n <= Len(f), n <= Len(g), \A i \in 1..n : f[i] = g[i]
  PROVE  \A i \in 0..n : Replayed(b, f)[i] = Replayed(b, g)[i]
  <1> DEFINE R == Replayed(b, g)
  <1>1. R[0] = b /\ \A i \in 1..Len(g) : R[i] = ReplayRecord(R[i - 1], g[i])
    BY ReplayedSteps
  <1> HIDE DEF R
  <1>2. \A i \in 1..n : R[i] = ReplayRecord(R[i - 1], f[i])
    BY <1>1
  <1>3. n \in 0..Len(f)
    OBVIOUS
  <1>4. \A i \in 0..n : Replayed(b, f)[i] = R[i]
    BY <1>1, <1>2, <1>3, ReplayedUnique
  <1> QED  BY <1>4 DEF R

\* Replaying a log over the state it had reached after m records ends, m records or more
\* from its start, where the log itself does: what Initialize makes of a snapshot
\* that was renamed and a log that was not reset.
LEMMA ReplayedOver ==
  ASSUME NEW b \in TableStates, NEW log \in Seq(Whole), EffectiveLog(b, log),
         NEW m \in 0..Len(log), NEW p \in m..Len(log)
  PROVE  Replayed(Replayed(b, log)[m], log)[p] = Replayed(b, log)[p]
  <1> DEFINE n == Len(log)
             S == Replayed(b, log)
             z == S[m]
             X == Replayed(z, log)
  <1>1. /\ n \in Nat /\ S \in [0..n -> TableStates]
        /\ \A i \in 1..n : S[i] = ReplayRecord(S[i - 1], log[i]) /\ log[i] \in Whole
    BY ReplayedSteps
  <1>2. z \in TableStates
    BY <1>1
  <1>3. /\ X \in [0..n -> TableStates] /\ X[0] = z
        /\ \A i \in 1..n : X[i] = ReplayRecord(X[i - 1], log[i])
    <2> HIDE DEF z
    <2> QED  BY <1>2, ReplayedSteps
  <1>4. \A i \in 1..n : Effective(S[i - 1], log[i].data)
    BY DEF EffectiveLog
  <1> HIDE DEF S, X, n
  <1>5. \A i \in 0..m : Between(X[i], S[i], z)
    <2> DEFINE T == {i \in 0..m : Between(X[i], S[i], z)}
    <2>1. 0 \in T
      <3>1. Between(z, S[0], z)
        <4> HIDE DEF z
        <4> QED  BY DEF Between
      <3> QED  BY <1>1, <1>3, <3>1
    <2>2. ASSUME NEW i \in 0..(m - 1), i \in T PROVE i + 1 \in T
      <3>1. i + 1 \in 1..n /\ (i + 1) - 1 = i /\ i \in 0..n /\ i + 1 \in 0..m
        BY <1>1 DEF n
      <3>2. /\ X[i + 1] = ReplayRecord(X[i], log[i + 1]) /\ S[i + 1] = ReplayRecord(S[i], log[i + 1])
            /\ Effective(S[i], log[i + 1].data) /\ log[i + 1] \in Whole
            /\ X[i] \in TableStates /\ S[i] \in TableStates
        BY <1>1, <1>3, <1>4, <3>1
      <3>3. Between(X[i], S[i], z)
        BY <2>2
      <3> HIDE DEF z
      <3>4. Between(ReplayRecord(X[i], log[i + 1]), ReplayRecord(S[i], log[i + 1]), z)
        BY <1>2, <3>2, <3>3, BetweenStep
      <3> QED  BY <3>1, <3>2, <3>4
    <2>3. m \in Nat
      BY <1>1 DEF n
    <2> HIDE DEF T
    <2>4. \A i \in 0..m : i \in T
      BY <2>1, <2>2, <2>3, Induction
    <2> QED  BY <2>4 DEF T
  <1>6. X[m] = S[m]
    <2>1. m \in 0..m /\ m \in 0..n
      BY <1>1 DEF n
    <2>2. Between(X[m], z, z) /\ X[m] \in TableStates
      BY <1>3, <1>5, <2>1
    <2> QED  BY <1>2, <2>2, BetweenSame
  <1>7. \A i \in 0..(n - m) : X[m + i] = S[m + i]
    <2> DEFINE T == {i \in 0..(n - m) : X[m + i] = S[m + i]}
    <2>0. m \in Nat /\ n \in Nat /\ n - m \in Nat /\ m <= n
      BY <1>1 DEF n
    <2>1. 0 \in T
      BY <1>6, <2>0
    <2>2. ASSUME NEW i \in 0..((n - m) - 1), i \in T PROVE i + 1 \in T
      <3>1. m + (i + 1) \in 1..n /\ (m + (i + 1)) - 1 = m + i /\ i + 1 \in 0..(n - m)
        BY <2>0
      <3> QED  BY <1>1, <1>3, <2>2, <3>1
    <2> HIDE DEF T
    <2>3. \A i \in 0..(n - m) : i \in T
      BY <2>0, <2>1, <2>2, Induction
    <2> QED  BY <2>3 DEF T
  <1>8. p - m \in 0..(n - m) /\ m + (p - m) = p
    BY <1>1 DEF n
  <1>9. X[p] = S[p]
    BY <1>7, <1>8
  <1> QED  BY <1>9 DEF X, S

\* g is what the records of s do one after the other, each with an effect.
Course(g, s) ==
  /\ g \in [0..Len(s) -> TableStates]
  /\ \A i \in 1..Len(s) : Effective(g[i - 1], s[i].data) /\ g[i] = ReplayRecord(g[i - 1], s[i])

LEMMA CourseOfLog ==
  ASSUME NEW b \in TableStates, NEW log \in Seq(Whole), EffectiveLog(b, log)
  PROVE  Course(Replayed(b, log), log) /\ Replayed(b, log)[0] = b
  BY ReplayedSteps DEF Course, EffectiveLog

LEMMA LogOfCourse ==
  ASSUME NEW b \in TableStates, NEW log \in Seq(Whole), NEW g, Course(g, log), g[0] = b
  PROVE  EffectiveLog(b, log) /\ \A i \in 0..Len(log) : Replayed(b, log)[i] = g[i]
  <1>1. Len(log) \in 0..Len(log) /\ Len(log) \in Nat
    OBVIOUS
  <1>2. \A i \in 1..Len(log) : g[i] = ReplayRecord(g[i - 1], log[i])
    BY DEF Course
  <1>3. \A i \in 0..Len(log) : Replayed(b, log)[i] = g[i]
    BY <1>1, <1>2, ReplayedUnique
  <1>4. ASSUME NEW i \in 1..Len(log) PROVE Effective(Replayed(b, log)[i - 1], log[i].data)
    <2>1. i - 1 \in 0..Len(log)
      BY <1>1
    <2> QED  BY <1>3, <2>1 DEF Course
  <1> QED  BY <1>3, <1>4 DEF EffectiveLog

\* A log extended.
LEMMA LogExtended ==
  ASSUME NEW b \in TableStates, NEW log \in Seq(Whole), EffectiveLog(b, log),
         NEW s \in Seq(Whole), NEW g, Course(g, s), g[0] = Replayed(b, log)[Len(log)]
  PROVE  /\ EffectiveLog(b, log \o s)
         /\ \A i \in 0..Len(log) : Replayed(b, log \o s)[i] = Replayed(b, log)[i]
         /\ Replayed(b, log \o s)[Len(log) + Len(s)] = g[Len(s)]
  <1> DEFINE n == Len(log)
             k == Len(s)
             R == Replayed(b, log)
             ls == log \o s
             h == [i \in 0..(n + k) |-> IF i <= n THEN R[i] ELSE g[i - n]]
  <1>1. n \in Nat /\ k \in Nat /\ Course(R, log) /\ R[0] = b
    BY CourseOfLog
  <1>2. /\ ls \in Seq(Whole) /\ Len(ls) = n + k
        /\ \A i \in 1..n : ls[i] = log[i]
        /\ \A i \in 1..k : ls[n + i] = s[i]
    <2>1. /\ ls \in Seq(Whole) /\ Len(ls) = n + k
          /\ \A i \in 1..(n + k) : ls[i] = IF i <= n THEN log[i] ELSE s[i - n]
      BY ConcatProperties
    <2> HIDE DEF ls, n, k
    <2>2. \A i \in 1..n : ls[i] = log[i]
      BY <1>1, <2>1
    <2>3. ASSUME NEW i \in 1..k PROVE ls[n + i] = s[i]
      <3>1. n + i \in 1..(n + k) /\ ~(n + i <= n) /\ (n + i) - n = i
        BY <1>1
      <3> QED  BY <2>1, <3>1
    <2> QED  BY <2>1, <2>2, <2>3
  <1>3. g[0] = R[n]
    OBVIOUS
  <1> HIDE DEF R, ls
  <1>4. /\ \A i \in 0..n : h[i] = R[i]
        /\ \A i \in 0..k : h[n + i] = g[i]
    <2> HIDE DEF n, k
    <2>1. \A i \in 0..n : i \in 0..(n + k) /\ i <= n
      BY <1>1
    <2>2. ASSUME NEW i \in 0..k PROVE h[n + i] = g[i]
      <3>1. CASE i = 0
        BY <1>1, <1>3, <3>1
      <3>2. CASE i # 0
        <4>1. n + i \in 0..(n + k) /\ ~(n + i <= n) /\ (n + i) - n = i
          BY <1>1, <3>2
        <4> QED  BY <4>1
      <3> QED  BY <3>1, <3>2
    <2> QED  BY <2>1, <2>2
  <1>5. h \in [0..(n + k) -> TableStates]
    <2> HIDE DEF n, k
    <2>1. ASSUME NEW i \in 0..(n + k) PROVE h[i] \in TableStates
      <3>1. CASE i <= n
        <4>1. i \in 0..n
          BY <1>1, <3>1
        <4> QED  BY <1>1, <1>4, <4>1 DEF Course, n
      <3>2. CASE i > n
        <4>1. i - n \in 0..k /\ n + (i - n) = i
          BY <1>1, <3>2
        <4> QED  BY <1>4, <4>1 DEF Course, k
      <3> QED  BY <1>1, <3>1, <3>2
    <2> QED  BY <2>1
  <1>6. ASSUME NEW i \in 1..(n + k)
        PROVE  Effective(h[i - 1], ls[i].data) /\ h[i] = ReplayRecord(h[i - 1], ls[i])
    <2> HIDE DEF h, n, k
    <2>1. CASE i <= n
      <3>1. i \in 1..n /\ i \in 0..n /\ i - 1 \in 0..n
        BY <1>1, <2>1
      <3>2. h[i] = R[i] /\ h[i - 1] = R[i - 1] /\ ls[i] = log[i]
        BY <1>2, <1>4, <3>1
      <3> QED  BY <1>1, <3>1, <3>2 DEF Course, n
    <2>2. CASE i > n
      <3>1. /\ i - n \in 1..k /\ i - n \in 0..k /\ (i - n) - 1 \in 0..k
            /\ n + (i - n) = i /\ n + ((i - n) - 1) = i - 1
        BY <1>1, <2>2
      <3>2. h[i] = g[i - n] /\ h[i - 1] = g[(i - n) - 1] /\ ls[i] = s[i - n]
        BY <1>2, <1>4, <3>1
      <3> QED  BY <3>1, <3>2 DEF Course, k
    <2> QED  BY <1>1, <2>1, <2>2
  <1> HIDE DEF h
  <1>7. Course(h, ls) /\ h[0] = b
    <2>1. 0 \in 0..n
      BY <1>1
    <2>2. h[0] = b
      BY <1>1, <1>4, <2>1
    <2> QED  BY <1>2, <1>5, <1>6, <2>2 DEF Course
  <1>8. EffectiveLog(b, ls) /\ \A i \in 0..Len(ls) : Replayed(b, ls)[i] = h[i]
    BY <1>2, <1>7, LogOfCourse
  <1>9. \A i \in 0..n : i \in 0..Len(ls)
    BY <1>1, <1>2
  <1>10. n + k \in 0..Len(ls) /\ k \in 0..k
    BY <1>1, <1>2
  <1>11. \A i \in 0..n : Replayed(b, ls)[i] = R[i]
    BY <1>4, <1>8, <1>9
  <1>12. Replayed(b, ls)[n + k] = g[k]
    BY <1>4, <1>8, <1>10
  <1> QED  BY <1>8, <1>11, <1>12 DEF R, ls

\* A log cut short.
LEMMA LogShortened ==
  ASSUME NEW b \in TableStates, NEW log \in Seq(Whole), EffectiveLog(b, log),
         NEW f \in Seq(Whole), Len(f) <= Len(log), \A i \in 1..Len(f) : f[i] = log[i]
  PROVE  EffectiveLog(b, f) /\ \A i \in 0..Len(f) : Replayed(b, f)[i] = Replayed(b, log)[i]
  <1>1. Len(f) \in Nat
    OBVIOUS
  <1>2. \A i \in 0..Len(f) : Replayed(b, f)[i] = Replayed(b, log)[i]
    BY <1>1, ReplayedPrefix
  <1>3. ASSUME NEW i \in 1..Len(f) PROVE Effective(Replayed(b, f)[i - 1], f[i].data)
    <2>1. i - 1 \in 0..Len(f) /\ i \in 1..Len(log)
      OBVIOUS
    <2> QED  BY <1>2, <2>1 DEF EffectiveLog
  <1> QED  BY <1>2, <1>3 DEF EffectiveLog

\* The records of a commit that went through without an upsert all have an effect.
LEMMA AppliedEffective ==
  ASSUME tables \in TableStates, Len(states) \in Nat, NEW ws \in Seq(Dml),
         NEW s \in Seq(Whole), Len(s) = Len(ws), \A i \in 1..Len(ws) : s[i].data = ws[i],
         ApplyWrites(ws).good, ~ApplyWrites(ws).upsert
  PROVE  \E g : Course(g, s) /\ g[0] = tables /\ g[Len(s)] = ApplyWrites(ws).tabs
  <1> DEFINE n == Len(ws)
             R == Applying(ws)
             g == [i \in 0..n |-> R[i].tabs]
             Did(j) == /\ Effective(R[j - 1].tabs, ws[j])
                       /\ R[j].tabs = ReplayRecord(R[j - 1].tabs, s[j])
             T == {i \in 0..n : R[i].good /\ ~R[i].upsert => \A j \in 1..i : Did(j)}
  <1>1. /\ R \in [0..n -> Accs] /\ R[0] = Start
        /\ \A i \in 1..n : R[i] = ApplyWrite(R[i - 1], ws[i], i)
    BY ApplyingSteps
  <1> HIDE DEF R
  <1>2. n \in Nat /\ \A i \in 1..n : ws[i] \in Dml
    OBVIOUS
  <1>3. 0 \in T
    BY <1>2
  <1>4. ASSUME NEW i \in 0..(n - 1), i \in T PROVE i + 1 \in T
    <2>1. i + 1 \in 1..n /\ (i + 1) - 1 = i /\ i \in 0..n /\ i + 1 \in 0..n
      BY <1>2
    <2> DEFINE x == R[i]
               y == R[i + 1]
               w == ws[i + 1]
    <2>2. x \in Accs /\ y \in Accs /\ w \in Dml /\ y = ApplyWrite(x, w, i + 1) /\ s[i + 1].data = w
      BY <1>1, <1>2, <2>1
    <2> SUFFICES ASSUME y.good, ~y.upsert PROVE \A j \in 1..(i + 1) : Did(j)
      BY <2>1
    <2>3. x.good /\ Applies(x.tabs, w)
      <3> HIDE DEF w, x, y
      <3> QED  BY <2>2 DEF ApplyWrite, Accs
    <2>4. /\ y.tabs = Put(x.tabs, w)
          /\ y.upsert = (x.upsert \/ (w.op = "INSERT" /\ Has(x.tabs, w.table, w.key)))
      <3> HIDE DEF w, x, y
      <3> QED  BY <2>2, <2>3 DEF ApplyWrite
    <2>5. ~x.upsert /\ ~(w.op = "INSERT" /\ Has(x.tabs, w.table, w.key))
      <3> HIDE DEF w, x, y
      <3>1. x.upsert \in BOOLEAN
        BY <2>2 DEF Accs
      <3> QED  BY <2>4, <3>1
    <2>6. Effective(x.tabs, w) /\ ReplayRecord(x.tabs, s[i + 1]) = Put(x.tabs, w)
      <3>1. w.op \in {"INSERT", "UPDATE", "DELETE"}
        BY <2>2 DEF Dml
      <3> HIDE DEF w, x, y
      <3> QED  BY <2>2, <2>3, <2>5, <3>1 DEF Effective, ReplayRecord, Applies
    <2>7. Did(i + 1)
      BY <2>1, <2>4, <2>6
    <2>8. \A j \in 1..i : Did(j)
      <3> HIDE DEF Did
      <3> QED  BY <1>4, <2>3, <2>5
    <2>9. \A j \in 1..(i + 1) : j = i + 1 \/ j \in 1..i
      BY <2>1
    <2> HIDE DEF Did
    <2> QED  BY <2>7, <2>8, <2>9
  <1>5. \A i \in 0..n : i \in T
    <2> HIDE DEF T, n
    <2> QED  BY <1>2, <1>3, <1>4, Induction
  <1>6. R[n] = ApplyWrites(ws) /\ n \in 0..n /\ 0 \in 0..n
    BY <1>1, <1>2 DEF ApplyWrites, R
  <1>7. \A j \in 1..n : Did(j)
    <2> HIDE DEF Did
    <2> QED  BY <1>5, <1>6
  <1>8. g \in [0..n -> TableStates] /\ g[0] = tables /\ g[n] = ApplyWrites(ws).tabs
    BY <1>1, <1>6 DEF Accs, Start
  <1>9. ASSUME NEW i \in 1..n
        PROVE  Effective(g[i - 1], s[i].data) /\ g[i] = ReplayRecord(g[i - 1], s[i])
    <2>1. i \in 0..n /\ i - 1 \in 0..n
      BY <1>2
    <2>2. g[i] = R[i].tabs /\ g[i - 1] = R[i - 1].tabs
      BY <2>1
    <2> QED  BY <1>7, <2>2
  <1> HIDE DEF g
  <1> QED  BY <1>8, <1>9 DEF Course

-----------------------------------------------------------------------------
(***************************************************************************)
(* A log on a machine where no system call fails, under crashes of the      *)
(* process: what its promises, its locks and its file can be.               *)
(***************************************************************************)

\* Every value survives JSON, system calls succeed, a crash takes the process and not
\* the machine, and cuts a write between two records.
NoFailures == JsonLossy = {} /\ Faults = {} /\ ~Tearing /\ CrashKinds \subseteq {"process"}

\* The writer never fails, and holds nothing while it waits; a transaction is cut only
\* by the crash that ends a life.
CalmInv ==
  /\ fd /\ ok /\ ~fatal
  /\ file \in Seq(Whole)
  /\ wpc \in {"wait", "write", "sync", "ack", "exit"}
  /\ wpc \in {"wait", "exit"} => drained = Nothing
  /\ proc \in {"up", "down"} /\ (proc = "down" <=> phase = "down")
  /\ proc = "down" => queue = Nothing /\ wpc = "exit"
  /\ \A c \in Clients : promise[c] # "failed"
  /\ "cut" \notin inherited /\ ("cut" \in inexact => phase = "down")

\* DDL and WriteSnapshot hold the lock until their append or truncation is over.
LockInv ==
  /\ \A c \in Clients : txn[c].st = "ddl" => lock = c
  /\ tpc # "idle" /\ ~flushing => lock = Drainer
  /\ tpc = "reset" => ~flushing
  /\ phase # "run" => tpc = "idle" /\ \A c \in Clients \ {Main} : txn[c].st = "none"

\* A client whose records are on their way is waiting for them.
PromiseInv ==
  \A c \in Clients :
    /\ promise[c] # "none" => txn[c].st \in {"wait", "ddl"}
    /\ c \in queue.done \union drained.done => promise[c] = "pending"
    /\ ~(c \in queue.done /\ c \in drained.done)

BaseInv == CalmInv /\ LockInv /\ PromiseInv

LEMMA BaseInit ==
  ASSUME Init
  PROVE  BaseInv
  <1>1. CalmInv
    <2>1. /\ fd /\ ok /\ ~fatal /\ file = <<>> /\ wpc = "wait" /\ drained = Nothing
          /\ proc = "up" /\ phase = "run" /\ promise = [t \in Threads |-> "none"]
          /\ inherited = {} /\ inexact = {}
      BY DEF Init, WALInit
    <2>2. \A c \in Clients : promise[c] = "none"
      BY <2>1 DEF Threads
    <2> HIDE DEF Nothing
    <2> QED  BY <2>1, <2>2 DEF CalmInv
  <1>2. LockInv
    BY DEF Init, WALInit, LockInv, Idle
  <1>3. PromiseInv
    BY DEF Init, WALInit, PromiseInv, Nothing, Threads
  <1> QED  BY <1>1, <1>2, <1>3 DEF BaseInv

\* A call that appends.
LEMMA BaseAppend ==
  ASSUME TypeInv, BaseInv, NEW c \in Clients, NEW ds \in Seq(Ops), AppendBatchAsync(c, ds),
         "cut" \in inexact' => "cut" \in inexact, UNCHANGED <<phase, inherited>>,
         \/ txn' = [txn EXCEPT ![c].st = "wait"] /\ UNCHANGED lock
         \/ /\ txn' = [txn EXCEPT ![c].st = "ddl"] /\ lock' = c
            /\ \A d \in Clients : txn[d].st # "ddl"
            /\ tpc = "idle" \/ flushing,
         phase # "run" => c = Main
  PROVE  BaseInv'
  <1> USE DEF writerVars, queueVars, fileVars, drainVars
  <1>0. CalmInv /\ LockInv /\ PromiseInv
    BY DEF BaseInv
  <1>1. txn \in [Clients -> [st : {"none", "active", "wait", "publish", "ddl"}, writes : Seq(Dml)]]
        /\ promise \in [Threads -> {"none", "pending", "ok", "failed"}] /\ c \in Threads
        /\ queue \in Batches
    BY DEF TypeInv, EngineTypes, LogTypes, Threads
  <1>2. /\ promise[c] = "none" /\ promise' = [promise EXCEPT ![c] = "pending"]
        /\ queue' = [bytes |-> queue.bytes \o Numbered(ds), done |-> queue.done \union {c}]
        /\ UNCHANGED <<proc, drained, wpc, ok, fatal, file, fd, tpc, flushing>> /\ proc = "up"
    BY <1>0 DEF AppendBatchAsync, CalmInv
  <1>3. /\ promise'[c] = "pending" /\ \A d \in Clients \ {c} : promise'[d] = promise[d]
        /\ queue'.done = queue.done \union {c}
        /\ \A d \in Clients \ {c} : txn'[d] = txn[d]
        /\ txn'[c].st \in {"wait", "ddl"}
    BY <1>1, <1>2 DEF Threads
  <1>4. CalmInv'
    BY <1>0, <1>2, <1>3 DEF CalmInv
  <1>5. LockInv'
    BY <1>0, <1>1, <1>2, <1>3 DEF LockInv
  <1>6. PromiseInv'
    BY <1>0, <1>2, <1>3 DEF PromiseInv
  <1> QED  BY <1>4, <1>5, <1>6 DEF BaseInv

\* The calls of clients.
LEMMA BaseClient ==
  ASSUME TypeInv, BaseInv, FeedInv, NEW c \in Clients, Client(c)
  PROVE  BaseInv'
  <1> USE DEF engineVars, ghosts, walVars, writerVars, queueVars, fileVars, drainVars
  <1>0. CalmInv /\ LockInv /\ PromiseInv
    BY DEF BaseInv
  <1>1. txn \in [Clients -> [st : {"none", "active", "wait", "publish", "ddl"}, writes : Seq(Dml)]]
        /\ c # "free"
    BY StorageConstants DEF TypeInv, EngineTypes, Threads
  <1>2. CASE Rollback(c) \/ \E w \in workload.writes : Stage(c, w)
    <2>1. /\ \A d \in Clients \ {c} : txn'[d] = txn[d]
          /\ txn[c].st \in {"none", "active"} /\ txn'[c].st \in {"none", "active"} /\ phase = "run"
          /\ UNCHANGED <<walVars, phase, lock, inexact, inherited>>
      BY <1>1, <1>2 DEF Rollback, Stage, Running, Idle
    <2>2. CalmInv'
      BY <1>0, <2>1 DEF CalmInv
    <2>3. LockInv'
      BY <1>0, <2>1 DEF LockInv
    <2>4. PromiseInv'
      BY <1>0, <2>1 DEF PromiseInv
    <2> QED  BY <2>2, <2>3, <2>4 DEF BaseInv
  <1>3. ASSUME NEW t \in Tables, CreateTable(c, t) \/ DropTable(c, t) PROVE BaseInv'
    <2>1. PICK op \in {"CREATE_TABLE", "DROP_TABLE"}, x \in {EmptyTable, NoTable} :
            /\ Ddl(c, op, t, [tables EXCEPT ![t] = x]) /\ UNCHANGED <<entries, inexact, inherited>>
            /\ lock = "free" /\ phase = "run"
      BY <1>3 DEF CreateTable, DropTable, Running
    <2> DEFINE ds == <<[op |-> op, table |-> t]>>
    <2>2. ds \in Seq(Ops)
      BY DEF Ops
    <2>3. /\ AppendBatchAsync(c, ds) /\ lock' = c /\ txn' = [txn EXCEPT ![c].st = "ddl"]
          /\ UNCHANGED <<phase, inherited>>
      BY <2>1 DEF Ddl
    <2>4. \A d \in Clients : txn[d].st # "ddl"
      <3>1. \A d \in Clients : d # "free"
        BY StorageConstants DEF Threads
      <3> QED  BY <1>0, <2>1, <3>1 DEF LockInv
    <2>5. tpc = "idle" \/ flushing
      BY <1>0, <2>1, StorageConstants DEF LockInv, Threads
    <2> HIDE DEF ds
    <2> QED  BY <2>1, <2>2, <2>3, <2>4, <2>5, BaseAppend
  <1> QED  BY <1>2, <1>3 DEF Client

LEMMA BaseProgress ==
  ASSUME TypeInv, BaseInv, FeedInv, NEW c \in Clients, Progress(c)
  PROVE  BaseInv'
  <1> USE DEF engineVars, ghosts, walVars, writerVars, queueVars, fileVars, drainVars
  <1>0. CalmInv /\ LockInv /\ PromiseInv
    BY DEF BaseInv
  <1>1. txn \in [Clients -> [st : {"none", "active", "wait", "publish", "ddl"}, writes : Seq(Dml)]]
        /\ promise \in [Threads -> {"none", "pending", "ok", "failed"}] /\ c \in Threads
    BY DEF TypeInv, EngineTypes, LogTypes, Threads
  <1>2. CASE Commit(c)
    <2>1. phase = "run" /\ UNCHANGED <<lock, phase, inherited>> /\ txn[c].writes \in Seq(Ops)
      <3>1. txn[c].writes \in Seq(Dml)
        BY <1>1
      <3> QED  BY <1>2, <3>1 DEF Commit, Running, Ops
    <2>2. "cut" \in inexact' => "cut" \in inexact
      BY <1>2 DEF Commit
    <2>3. CASE AppendBatchAsync(c, txn[c].writes) /\ txn' = [txn EXCEPT ![c].st = "wait"]
      BY <2>1, <2>2, <2>3, BaseAppend
    <2>4. CASE UNCHANGED <<walVars, txn>>
      <3>1. CalmInv'
        BY <1>0, <2>1, <2>2, <2>4 DEF CalmInv
      <3>2. LockInv'
        BY <1>0, <2>1, <2>4 DEF LockInv
      <3>3. PromiseInv'
        BY <1>0, <2>4 DEF PromiseInv
      <3> QED  BY <3>1, <3>2, <3>3 DEF BaseInv
    <2> QED  BY <1>2, <2>3, <2>4 DEF Commit
  <1>3. CASE Durable(c) \/ NotDurable(c) \/ DdlReturns(c)
    <2>1. Get(c, "ok") /\ ~NotDurable(c)
      BY <1>0, <1>3 DEF Durable, NotDurable, DdlReturns, Get, CalmInv
    <2>2. /\ promise[c] = "ok" /\ promise' = [promise EXCEPT ![c] = "none"]
          /\ UNCHANGED <<proc, queue, drained, wpc, ok, fatal, file, fd, tpc, flushing>>
      BY <2>1 DEF Get
    <2>3. promise'[c] = "none" /\ \A d \in Clients \ {c} : promise'[d] = promise[d]
      BY <1>1, <2>2 DEF Threads
    <2>4. CASE Durable(c)
      <3>1. /\ txn[c].st = "wait" /\ txn'[c].st = "publish" /\ phase = "run"
            /\ \A d \in Clients \ {c} : txn'[d] = txn[d]
            /\ UNCHANGED <<phase, lock, inexact, inherited>>
        BY <1>1, <2>4 DEF Durable
      <3>2. CalmInv'
        BY <1>0, <2>2, <2>3, <3>1 DEF CalmInv
      <3>3. LockInv'
        BY <1>0, <2>2, <3>1 DEF LockInv
      <3>4. PromiseInv'
        BY <1>0, <2>2, <2>3, <3>1 DEF PromiseInv
      <3> QED  BY <3>2, <3>3, <3>4 DEF BaseInv
    <2>5. CASE DdlReturns(c)
      <3>1. /\ txn[c].st = "ddl" /\ txn'[c].st = "none" /\ lock' = "free"
            /\ \A d \in Clients \ {c} : txn'[d] = txn[d]
            /\ UNCHANGED <<phase, inherited>> /\ ("cut" \in inexact' => "cut" \in inexact)
        BY <1>1, <2>5 DEF DdlReturns, Idle
      <3>2. lock = c /\ c # Drainer
        BY <1>0, <3>1, WALConstants DEF LockInv
      <3>3. CalmInv'
        BY <1>0, <2>2, <2>3, <3>1 DEF CalmInv
      <3>4. LockInv'
        BY <1>0, <2>2, <3>1, <3>2 DEF LockInv
      <3>5. PromiseInv'
        BY <1>0, <2>2, <2>3, <3>1 DEF PromiseInv
      <3> QED  BY <3>3, <3>4, <3>5 DEF BaseInv
    <2> QED  BY <1>3, <2>1, <2>4, <2>5
  <1>4. CASE Publish(c)
    <2>1. /\ txn[c].st = "publish" /\ txn'[c].st \in {"none", "publish"}
          /\ \A d \in Clients \ {c} : txn'[d] = txn[d]
          /\ UNCHANGED <<walVars, phase, lock, inexact, inherited>>
      BY <1>1, <1>4 DEF Publish, Idle
    <2>2. CalmInv'
      BY <1>0, <2>1 DEF CalmInv
    <2>3. phase = "run"
      BY <2>1 DEF FeedInv, CallInv, TypeInv, EngineTypes
    <2>4. LockInv'
      BY <1>0, <2>1, <2>3 DEF LockInv
    <2>5. PromiseInv'
      BY <1>0, <2>1 DEF PromiseInv
    <2> QED  BY <2>2, <2>4, <2>5 DEF BaseInv
  <1> QED  BY <1>2, <1>3, <1>4 DEF Progress

\* The writer thread.
LEMMA BaseWriter ==
  ASSUME NoFailures, TypeInv, BaseInv, WriterStep
  PROVE  BaseInv'
  <1> USE DEF engineVars, ghosts, walVars, writerVars, queueVars, fileVars, drainVars
  <1>0. CalmInv /\ LockInv /\ PromiseInv /\ UNCHANGED <<engineVars, ghosts>>
    BY DEF BaseInv, WriterStep
  <1>1. queue \in Batches /\ drained \in Batches /\ file \in Seq(Whole)
        /\ promise \in [Threads -> {"none", "pending", "ok", "failed"}]
    BY <1>0 DEF TypeInv, LogTypes, CalmInv
  <1>2. LockInv'
    <2>1. UNCHANGED <<tpc, flushing>>
      BY DEF WriterStep, Writer, WriterDrain, WriterWrite, WriterSync, WriterAck, WriterSetFatal, WriterExit
    <2> QED  BY <1>0, <2>1 DEF LockInv
  <1>3. proc = "up" /\ UNCHANGED <<proc, fd, fatal>> /\ ok'
    BY <1>0 DEF WriterStep, Writer, WriterDrain, WriterWrite, WriterSync, WriterAck, WriterSetFatal,
                WriterExit, NoFailures, CalmInv
  <1>4. CASE WriterDrain
    <2>1. /\ drained = Nothing /\ drained' = queue /\ queue' = Nothing /\ wpc' = "write"
          /\ UNCHANGED <<file, promise>>
      BY <1>0, <1>4 DEF WriterDrain, CalmInv
    <2>2. CalmInv'
      BY <1>0, <1>3, <2>1 DEF CalmInv
    <2>3. PromiseInv'
      BY <1>0, <2>1 DEF PromiseInv, Nothing
    <2> QED  BY <1>2, <2>2, <2>3 DEF BaseInv
  <1>5. CASE WriterWrite
    <2>1. /\ file' = file \o drained.bytes /\ wpc' \in {"sync", "ack"}
          /\ UNCHANGED <<queue, drained, promise>>
      BY <1>0, <1>5 DEF WriterWrite, CalmInv, NoFailures
    <2>2. file' \in Seq(Whole)
      BY <1>1, <2>1 DEF Batches
    <2>3. CalmInv'
      BY <1>0, <1>3, <2>1, <2>2 DEF CalmInv
    <2>4. PromiseInv'
      BY <1>0, <2>1 DEF PromiseInv
    <2> QED  BY <1>2, <2>3, <2>4 DEF BaseInv
  <1>6. CASE WriterSync \/ WriterExit
    <2>1. /\ UNCHANGED <<queue, drained, promise, file>>
          /\ wpc' = "ack" \/ (wpc = "wait" /\ wpc' = "exit")
      BY <1>6 DEF WriterSync, WriterExit
    <2>2. CalmInv'
      BY <1>0, <1>3, <2>1 DEF CalmInv
    <2>3. PromiseInv'
      BY <1>0, <2>1 DEF PromiseInv
    <2> QED  BY <1>2, <2>2, <2>3 DEF BaseInv
  <1>7. CASE WriterAck
    <2>1. /\ promise' = [t \in Threads |-> IF t \in drained.done THEN "ok" ELSE promise[t]]
          /\ drained' = Nothing /\ wpc' = "wait" /\ UNCHANGED <<queue, file>>
      BY <1>0, <1>7 DEF WriterAck, CalmInv
    <2>2. \A c \in Clients : promise'[c] = IF c \in drained.done THEN "ok" ELSE promise[c]
      BY <2>1 DEF Threads
    <2>3. CalmInv'
      BY <1>0, <1>3, <2>1, <2>2 DEF CalmInv
    <2>4. PromiseInv'
      BY <1>0, <2>1, <2>2 DEF PromiseInv, Nothing
    <2> QED  BY <1>2, <2>3, <2>4 DEF BaseInv
  <1>8. ~WriterSetFatal
    BY <1>0 DEF WriterSetFatal, CalmInv
  <1> QED  BY <1>4, <1>5, <1>6, <1>7, <1>8 DEF WriterStep, Writer

\* A step of another thread that leaves the log and the clients alone.
LEMMA BaseSame ==
  ASSUME BaseInv, LockInv', UNCHANGED <<proc, queue, drained, wpc, ok, fatal, fd, promise, txn, inherited>>,
         file' \in Seq(Whole), phase' = phase \/ (phase = "recover" /\ phase' = "run"),
         "cut" \in inexact' => "cut" \in inexact
  PROVE  BaseInv'
  <1>0. CalmInv /\ LockInv /\ PromiseInv
    BY DEF BaseInv
  <1>1. CalmInv'
    BY <1>0 DEF CalmInv
  <1>2. PromiseInv'
    BY <1>0 DEF PromiseInv
  <1> QED  BY <1>1, <1>2 DEF BaseInv

LEMMA BaseBackground ==
  ASSUME NoFailures, TypeInv, BaseInv, FeedInv,
         \/ Checkpoint \/ SnapshotStep \/ WriteBack \/ ShutdownBegin
         \/ ShutdownSnapshot \/ ShutdownFlush \/ ShutdownClear \/ StopStep \/ UNCHANGED vars
  PROVE  BaseInv'
  <1> USE DEF engineVars, ghosts, walVars, writerVars, queueVars, fileVars, drainVars
  <1>0. CalmInv /\ LockInv /\ PromiseInv
    BY DEF BaseInv
  <1>1. /\ phase # "run" => sd = "no"
        /\ \A c \in Clients : c # "free" /\ c # Drainer
        /\ file \in Seq(Whole) /\ Drainer # "free"
    BY <1>0, WALConstants, StorageConstants DEF FeedInv, CallInv, Threads, CalmInv
  <1>2. CASE Checkpoint \/ ShutdownSnapshot
    <2>1. /\ lock = "free" /\ lock' = Drainer /\ ~flushing' /\ tpc' = "drain" /\ phase = "run"
          /\ UNCHANGED <<proc, queue, drained, wpc, ok, fatal, fd, promise, txn, inherited, file, phase>>
          /\ ("cut" \in inexact' => "cut" \in inexact)
      BY <1>1, <1>2 DEF Checkpoint, ShutdownSnapshot, WriteSnapshot, TruncateBegin
    <2>2. LockInv'
      BY <1>0, <1>1, <2>1 DEF LockInv
    <2> QED  BY <1>1, <2>1, <2>2, BaseSame
  <1>3. CASE SnapshotStep
    <2>1. /\ UNCHANGED <<txn, phase, inexact, inherited>> /\ phase = "run"
          /\ lock' = IF tpc' = "idle" /\ lock = Drainer THEN "free" ELSE lock
      BY <1>0, <1>3 DEF SnapshotStep, DrainEnqueue, DrainWait, TruncateReset, LockInv
    <2>2. CASE DrainEnqueue
      <3>1. /\ UNCHANGED <<proc, drained, wpc, ok, fatal, fd, file, flushing>>
            /\ tpc = "drain" /\ tpc' = "wait" /\ proc = "up"
            /\ queue' = [queue EXCEPT !.done = @ \union {Drainer}]
            /\ promise' = [promise EXCEPT ![Drainer] = "pending"]
        BY <1>0, <2>2 DEF DrainEnqueue, CalmInv
      <3>2. queue'.done = queue.done \union {Drainer} /\ \A c \in Clients : promise'[c] = promise[c]
        <4>1. queue \in Batches /\ promise \in [Threads -> {"none", "pending", "ok", "failed"}]
          BY DEF TypeInv, LogTypes
        <4> QED  BY <1>1, <3>1, <4>1 DEF Batches, Threads
      <3>3. CalmInv'
        BY <1>0, <2>1, <3>1, <3>2 DEF CalmInv
      <3>4. LockInv'
        BY <1>0, <2>1, <3>1 DEF LockInv
      <3>5. PromiseInv'
        BY <1>0, <1>1, <2>1, <3>1, <3>2 DEF PromiseInv
      <3> QED  BY <3>3, <3>4, <3>5 DEF BaseInv
    <2>3. CASE DrainWait
      <3>1. /\ UNCHANGED <<proc, queue, drained, wpc, ok, fatal, fd, file, flushing>>
            /\ tpc = "wait" /\ tpc' = DrainEnd
            /\ promise' = [promise EXCEPT ![Drainer] = "none"]
        BY <2>3 DEF DrainWait
      <3>2. \A c \in Clients : promise'[c] = promise[c]
        <4>1. promise \in [Threads -> {"none", "pending", "ok", "failed"}]
          BY DEF TypeInv, LogTypes
        <4> QED  BY <1>1, <3>1, <4>1 DEF Threads
      <3>3. CalmInv'
        BY <1>0, <2>1, <3>1, <3>2 DEF CalmInv
      <3>4. LockInv'
        BY <1>0, <1>1, <2>1, <3>1 DEF LockInv, DrainEnd
      <3>5. PromiseInv'
        BY <1>0, <2>1, <3>1, <3>2 DEF PromiseInv
      <3> QED  BY <3>3, <3>4, <3>5 DEF BaseInv
    <2>4. CASE TruncateReset
      <3>1. /\ UNCHANGED <<proc, queue, drained, wpc, ok, fatal, promise, flushing>>
            /\ file' = <<>> /\ fd' /\ tpc' = "idle"
        BY <2>4 DEF TruncateReset, NoFailures, WriteMagicIfEmpty
      <3>2. LockInv'
        BY <1>0, <1>1, <2>1, <3>1 DEF LockInv
      <3>3. CalmInv'
        BY <1>0, <2>1, <3>1 DEF CalmInv
      <3>4. PromiseInv'
        BY <1>0, <2>1, <3>1 DEF PromiseInv
      <3> QED  BY <3>2, <3>3, <3>4 DEF BaseInv
    <2> QED  BY <1>3, <2>2, <2>3, <2>4 DEF SnapshotStep
  <1>4. CASE ShutdownFlush
    <2>1. /\ flushing' /\ tpc' = "drain" /\ phase = "run" /\ UNCHANGED lock
          /\ UNCHANGED <<proc, queue, drained, wpc, ok, fatal, fd, promise, txn, inherited, file, phase, inexact>>
      BY <1>1, <1>4 DEF ShutdownFlush, FlushBegin
    <2>2. LockInv'
      BY <1>0, <2>1 DEF LockInv
    <2> QED  BY <1>1, <2>1, <2>2, BaseSame
  <1>5. CASE WriteBack \/ ShutdownBegin \/ ShutdownClear \/ StopStep \/ UNCHANGED vars
    <2>1. UNCHANGED <<proc, queue, drained, wpc, ok, fatal, fd, promise, txn, inherited, file, phase, inexact,
                      lock, tpc, flushing>>
      BY <1>5 DEF WriteBack, ShutdownBegin, ShutdownClear, StopStep, StopWriter, vars
    <2>2. LockInv'
      BY <1>0, <2>1 DEF LockInv
    <2> QED  BY <1>1, <2>1, <2>2, BaseSame
  <1> QED  BY <1>2, <1>3, <1>4, <1>5

\* The file that a crash leaves.
LEMMA CrashFile ==
  ASSUME NoFailures, TypeInv, BaseInv, Crash
  PROVE  /\ proc = "up" /\ proc' = "down" /\ LoseMemory /\ Forget /\ UNCHANGED <<snap, fd>>
         /\ inexact' = inexact \union (IF CutBatch THEN {"cut"} ELSE {})
         /\ \/ file' = file
            \/ /\ wpc = "write"
               /\ \E n \in 0..Len(drained.bytes) : file' = file \o SubSeq(drained.bytes, 1, n)
  <1>1. ProcessCrash /\ UNCHANGED snap /\ Forget
        /\ inexact' = inexact \union (IF CutBatch THEN {"cut"} ELSE {})
    BY DEF Crash, NoFailures
  <1>2. drained.bytes \in Seq(Whole) /\ Len(drained.bytes) \in Nat
    BY DEF TypeInv, LogTypes, Batches
  <1>3. file' \in {file} \union (IF wpc = "write" /\ fd THEN CutWrites(file, drained.bytes) ELSE {})
        /\ proc = "up" /\ proc' = "down" /\ LoseMemory /\ UNCHANGED fd
    BY <1>1 DEF ProcessCrash
  <1>4. \A f \in CutWrites(file, drained.bytes) :
          \E n \in 0..Len(drained.bytes) : f = file \o SubSeq(drained.bytes, 1, n)
    <2> DEFINE k == Len(drained.bytes)
               Part(n) == file \o SubSeq(drained.bytes, 1, n)
    <2>1. CutWrites(file, drained.bytes) = {Part(n) : n \in 0..(k - 1)}
      <3> HIDE DEF k
      <3>1. CutWrites(file, drained.bytes) =
              {file \o SubSeq(drained.bytes, 1, n) : n \in 0..(k - 1)} \union {}
        BY Zenon DEF CutWrites, NoFailures, k
      <3> QED  BY <3>1, Zenon
    <2>2. \A n \in 0..(k - 1) : n \in 0..k
      BY <1>2
    <2> HIDE DEF k, Part
    <2>3. \A f \in CutWrites(file, drained.bytes) : \E n \in 0..k : f = Part(n)
      BY <2>1, <2>2
    <2> QED  BY <2>3 DEF k, Part
  <1> QED  BY <1>1, <1>3, <1>4

LEMMA BaseDown ==
  ASSUME NoFailures, TypeInv, BaseInv, Crash \/ Exit
  PROVE  BaseInv'
  <1>0. CalmInv /\ LockInv /\ PromiseInv /\ file \in Seq(Whole) /\ drained.bytes \in Seq(Whole)
    BY DEF BaseInv, CalmInv, TypeInv, LogTypes, Batches
  <1>1. proc' = "down" /\ LoseMemory /\ Forget /\ UNCHANGED fd
    BY CrashFile DEF Exit, Close
  <1>2. file' \in Seq(Whole)
    <2>1. CASE Exit
      BY <1>0, <2>1 DEF Exit, Close
    <2>2. CASE Crash
      <3>1. \A n \in 0..Len(drained.bytes) : file \o SubSeq(drained.bytes, 1, n) \in Seq(Whole)
        <4>1. \A n \in 0..Len(drained.bytes) : SubSeq(drained.bytes, 1, n) \in Seq(Whole)
          BY <1>0
        <4> QED  BY <1>0, <4>1
      <3> QED  BY <1>0, <2>2, <3>1, CrashFile
    <2> QED  BY <2>1, <2>2
  <1>3. /\ ok' /\ ~fatal' /\ queue' = Nothing /\ drained' = Nothing /\ wpc' = "exit"
        /\ \A c \in Clients : promise'[c] = "none"
        /\ tpc' = "idle" /\ ~flushing'
    BY <1>1 DEF LoseMemory, Threads
  <1>4. phase' = "down" /\ UNCHANGED inherited /\ \A c \in Clients : txn'[c].st = "none"
    BY <1>1 DEF Forget, Idle
  <1>5. CalmInv'
    BY <1>0, <1>1, <1>2, <1>3, <1>4 DEF CalmInv
  <1>6. LockInv'
    BY <1>3, <1>4 DEF LockInv
  <1>7. PromiseInv'
    BY <1>3 DEF PromiseInv, Nothing
  <1> QED  BY <1>5, <1>6, <1>7 DEF BaseInv

LEMMA BaseBoot ==
  ASSUME NoFailures, TypeInv, BaseInv, Boot
  PROVE  BaseInv'
  <1> USE DEF drainVars
  <1>0. CalmInv /\ LockInv /\ PromiseInv
    BY DEF BaseInv
  <1>1. /\ phase = "down" /\ phase' = "recover" /\ proc' = "up" /\ wpc' = "wait" /\ fd' /\ file' = file
        /\ UNCHANGED <<queue, drained, ok, fatal, promise, tpc, flushing, lock, txn>>
        /\ inexact' = {} /\ inherited' = IF file' = <<>> THEN {} ELSE Departures \ {"cut"}
    BY DEF Boot, Initialize, WriteMagicIfEmpty, NoFailures
  <1>2. drained = Nothing
    BY <1>0, <1>1 DEF CalmInv
  <1>3. CalmInv'
    BY <1>0, <1>1, <1>2 DEF CalmInv
  <1>4. LockInv'
    BY <1>0, <1>1 DEF LockInv
  <1>5. PromiseInv'
    BY <1>0, <1>1 DEF PromiseInv
  <1> QED  BY <1>3, <1>4, <1>5 DEF BaseInv

LEMMA BaseRecovery ==
  ASSUME TypeInv, BaseInv, Recovery
  PROVE  BaseInv'
  <1> USE DEF engineVars, ghosts, walVars, writerVars, queueVars, fileVars, drainVars
  <1>0. CalmInv /\ LockInv /\ PromiseInv /\ file \in Seq(Whole)
    BY DEF BaseInv, CalmInv
  <1>1. phase = "recover" /\ txn[Main].st = "none" /\ proc = "up" /\ Main \in Clients
    BY StorageConstants DEF Recovery, Replay, RecoveryComplete
  <1>2. tpc = "idle" /\ \A d \in Clients : txn[d].st = "none"
    BY <1>0, <1>1 DEF LockInv
  <1>3. CASE RecoveryComplete
    <2>1. /\ UNCHANGED <<proc, queue, drained, wpc, ok, fatal, fd, promise, txn, inherited, file, inexact,
                         lock, tpc, flushing>>
          /\ phase' = "run"
      BY <1>3 DEF RecoveryComplete
    <2>2. LockInv'
      BY <1>2, <2>1 DEF LockInv
    <2> QED  BY <1>0, <1>1, <2>1, <2>2, BaseSame
  <1>4. CASE Replay
    <2> DEFINE w == Head(entries).data
    <2>1. w \in Ops
      <3>1. Head(entries) \in Whole
        BY <1>4 DEF Replay, TypeInv, EngineTypes
      <3> QED  BY <3>1 DEF Whole
    <2>2. UNCHANGED <<phase, inherited>> /\ ("cut" \in inexact' => "cut" \in inexact)
      BY <1>4 DEF Replay
    <2>3. CASE AppendBatchAsync(Main, <<w>>) /\ lock' = Main /\ txn' = [txn EXCEPT ![Main].st = "ddl"]
      <3>1. <<w>> \in Seq(Ops)
        BY <2>1
      <3> HIDE DEF w
      <3>2. \A d \in Clients : txn[d].st # "ddl"
        BY <1>2
      <3> QED  BY <1>1, <1>2, <2>2, <2>3, <3>1, <3>2, BaseAppend
    <2>4. CASE UNCHANGED <<walVars, lock, txn>>
      <3>1. LockInv'
        BY <1>0, <2>2, <2>4 DEF LockInv
      <3> QED  BY <1>0, <2>2, <2>4, <3>1, BaseSame
    <2> QED  BY <1>4, <2>3, <2>4 DEF Replay
  <1> QED  BY <1>3, <1>4 DEF Recovery

-----------------------------------------------------------------------------
(***************************************************************************)
(* The log and the history of commits, side by side.                        *)
(***************************************************************************)

\* What the writer has taken and not written, and the log with all that is on its way.
Pending == IF wpc = "write" THEN drained.bytes ELSE <<>>
Log == file \o Pending \o queue.bytes

\* One of the threads `done` waits for a batch of several records.
Multi(done, calls) == \E c \in done \intersect Clients : Len(calls[c].writes) > 1

\* The states R of the log from record i to record j begin and end as those of the
\* history st from x to y, and are the same one by one unless a batch has several records.
Stretch(R, i, j, x, y, st, multi) ==
  /\ x \in 1..Len(st) /\ y \in x..Len(st)
  /\ st[x] = R[i] /\ st[y] = R[j]
  /\ ~multi => y - x = j - i /\ \A n \in 0..(j - i) : st[x + n] = R[i + n]

\* From b on every record of the log had an effect; the snapshot is what the first m
\* made, the file ends at state cb, and what the writer has taken at state db.
LogInv(b, m, cb, db) ==
  /\ EffectiveLog(b, Log)
  /\ LoadSnapshotIfPresent(snap) = Replayed(b, Log)[m]
  /\ Stretch(Replayed(b, Log), Len(file), Len(file) + Len(Pending), cb, db, states,
             Multi(drained.done, txn))
  /\ Stretch(Replayed(b, Log), Len(file) + Len(Pending), Len(Log), db, Len(states), states,
             Multi(queue.done, txn))
  /\ visibleTo <= cb
  /\ wpc # "write" => db = cb
  /\ \A c \in Clients : /\ promise[c] = "ok" => index[c] <= cb
                        /\ c \in drained.done => index[c] <= db

\* The snapshot is what the log says, from the rename to the reset.
SnapshotInv ==
  tpc # "idle" /\ ~flushing =>
    queue.bytes = <<>> /\ Pending = <<>> /\ LoadSnapshotIfPresent(snap) = states[Len(states)]

UpInv ==
  proc = "up" /\ Departures = {} =>
    /\ \E b \in TableStates : \E m \in 0..Len(file), cb, db \in Nat : LogInv(b, m, cb, db)
    /\ SnapshotInv

\* What a life left: a log whose records all had an effect, and a snapshot of it.
FileInv(b, m) ==
  /\ EffectiveLog(b, file)
  /\ LoadSnapshotIfPresent(snap) = Replayed(b, file)[m]
  /\ Departures = {} => \E i \in visibleTo..Len(states) : states[i] = Replayed(b, file)[Len(file)]

DownInv ==
  proc = "down" /\ Departures \subseteq {"cut"} =>
    \E b \in TableStates : \E m \in 0..Len(file) : FileInv(b, m)

CrashInv == UpInv /\ DownInv

LEMMA StretchPoint ==
  ASSUME NEW R, NEW i \in Nat, NEW st \in Seq(TableStates), NEW x \in 1..Len(st), st[x] = R[i], NEW multi
  PROVE  Stretch(R, i, i, x, x, st, multi)
  <1>1. x \in Nat /\ i - i = 0 /\ x - x = 0 /\ x + 0 = x /\ i + 0 = i /\ Len(st) \in Nat
    OBVIOUS
  <1>2. x \in x..Len(st) /\ \A n \in 0..(i - i) : n = 0
    BY <1>1
  <1> QED  BY <1>1, <1>2 DEF Stretch

LEMMA StretchWider ==
  ASSUME NEW R, NEW i, NEW j, NEW x, NEW y, NEW st, NEW mu, NEW nu, Stretch(R, i, j, x, y, st, mu), mu => nu
  PROVE  Stretch(R, i, j, x, y, st, nu)
  BY DEF Stretch

LEMMA StretchKept ==
  ASSUME NEW R, NEW Q, NEW i \in Nat, NEW j \in Nat, i <= j, NEW st \in Seq(TableStates), NEW tt \in Seq(TableStates),
         NEW x, NEW y, NEW mu, NEW nu, Stretch(R, i, j, x, y, st, mu), mu => nu,
         Len(st) <= Len(tt), \A n \in 1..Len(st) : tt[n] = st[n],
         \A n \in i..j : Q[n] = R[n]
  PROVE  Stretch(Q, i, j, x, y, tt, nu)
  <1>1. /\ x \in 1..Len(st) /\ y \in x..Len(st)
        /\ st[x] = R[i] /\ st[y] = R[j]
    BY DEF Stretch
  <1>2. Len(st) \in Nat /\ Len(tt) \in Nat
    OBVIOUS
  <1>3. x \in 1..Len(tt) /\ y \in x..Len(tt) /\ y \in 1..Len(st) /\ i \in i..j /\ j \in i..j
    BY <1>1, <1>2
  <1>4. tt[x] = Q[i] /\ tt[y] = Q[j]
    BY <1>1, <1>3
  <1>5. ASSUME ~nu PROVE y - x = j - i /\ \A n \in 0..(j - i) : tt[x + n] = Q[i + n]
    <2>1. y - x = j - i /\ \A n \in 0..(j - i) : st[x + n] = R[i + n]
      BY <1>5 DEF Stretch
    <2>2. ASSUME NEW n \in 0..(j - i) PROVE tt[x + n] = Q[i + n]
      <3>1. x + n \in 1..Len(st) /\ i + n \in i..j
        BY <1>1, <1>2, <2>1
      <3> QED  BY <2>1, <3>1
    <2> QED  BY <2>1, <2>2
  <1> QED  BY <1>3, <1>4, <1>5 DEF Stretch

LEMMA StretchGrows ==
  ASSUME NEW R, NEW Q, NEW i \in Nat, NEW j \in Nat, i <= j, NEW k \in Nat,
         NEW st \in Seq(TableStates), NEW z \in TableStates, NEW x, NEW mu, NEW nu,
         Stretch(R, i, j, x, Len(st), st, mu), ~nu => ~mu /\ k = 1,
         \A n \in i..j : Q[n] = R[n], Q[j + k] = z
  PROVE  Stretch(Q, i, j + k, x, Len(st) + 1, Append(st, z), nu)
  <1> DEFINE N == Len(st)
             tt == Append(st, z)
  <1>1. /\ N \in Nat /\ Len(tt) = N + 1 /\ tt[N + 1] = z /\ \A n \in 1..N : tt[n] = st[n]
    BY AppendProperties
  <1>2. x \in 1..N /\ st[x] = R[i]
    BY DEF Stretch
  <1> HIDE DEF tt, N
  <1>3. x \in 1..Len(tt) /\ N + 1 \in x..Len(tt) /\ i \in i..j
    BY <1>1, <1>2
  <1>4. tt[x] = Q[i] /\ tt[N + 1] = Q[j + k]
    BY <1>1, <1>2, <1>3
  <1>5. ASSUME ~nu
        PROVE  (N + 1) - x = (j + k) - i /\ \A n \in 0..((j + k) - i) : tt[x + n] = Q[i + n]
    <2>1. k = 1 /\ N - x = j - i /\ \A n \in 0..(j - i) : st[x + n] = R[i + n]
      BY <1>5 DEF Stretch, N
    <2>2. ASSUME NEW n \in 0..((j + k) - i) PROVE tt[x + n] = Q[i + n]
      <3>1. CASE n \in 0..(j - i)
        <4>1. x + n \in 1..N /\ i + n \in i..j
          BY <1>1, <1>2, <2>1, <3>1
        <4> QED  BY <1>1, <2>1, <3>1, <4>1
      <3>2. CASE n \notin 0..(j - i)
        <4>1. x + n = N + 1 /\ i + n = j + k
          BY <1>1, <1>2, <2>1, <3>2
        <4> QED  BY <1>4, <4>1
      <3> QED  BY <3>1, <3>2
    <2>3. (N + 1) - x = (j + k) - i
      BY <1>1, <1>2, <2>1
    <2> QED  BY <2>2, <2>3
  <1>6. Stretch(Q, i, j + k, x, N + 1, tt, nu)
    BY <1>3, <1>4, <1>5 DEF Stretch
  <1> QED  BY <1>6 DEF N, tt

LEMMA LogPieces ==
  ASSUME NEW f \in Seq(Whole), NEW p \in Seq(Whole), NEW q \in Seq(Whole)
  PROVE  /\ f \o p \o q \in Seq(Whole) /\ Len(f \o p \o q) = Len(f) + Len(p) + Len(q)
         /\ \A i \in 1..Len(f) : (f \o p \o q)[i] = f[i]
         /\ \A i \in 1..Len(p) : (f \o p \o q)[Len(f) + i] = p[i]
  <1> DEFINE fp == f \o p
  <1>1. /\ fp \in Seq(Whole) /\ Len(fp) = Len(f) + Len(p)
        /\ \A i \in 1..(Len(f) + Len(p)) : fp[i] = IF i <= Len(f) THEN f[i] ELSE p[i - Len(f)]
    BY ConcatProperties
  <1> HIDE DEF fp
  <1>2. /\ fp \o q \in Seq(Whole) /\ Len(fp \o q) = Len(fp) + Len(q)
        /\ \A i \in 1..(Len(fp) + Len(q)) : (fp \o q)[i] = IF i <= Len(fp) THEN fp[i] ELSE q[i - Len(fp)]
    <2>1. fp \in Seq(Whole)
      BY <1>1
    <2> QED  BY <2>1, ConcatProperties
  <1>3. Len(f) \in Nat /\ Len(p) \in Nat /\ Len(q) \in Nat
    OBVIOUS
  <1>4. ASSUME NEW i \in 1..Len(f) PROVE (fp \o q)[i] = f[i]
    <2>1. i \in 1..(Len(fp) + Len(q)) /\ i <= Len(fp) /\ i \in 1..(Len(f) + Len(p)) /\ i <= Len(f)
      BY <1>1, <1>3
    <2> QED  BY <1>1, <1>2, <2>1
  <1>5. ASSUME NEW i \in 1..Len(p) PROVE (fp \o q)[Len(f) + i] = p[i]
    <2> DEFINE l == Len(f) + i
    <2>1. /\ l \in 1..(Len(fp) + Len(q)) /\ l <= Len(fp) /\ l \in 1..(Len(f) + Len(p)) /\ ~(l <= Len(f))
          /\ l - Len(f) = i
      BY <1>1, <1>3
    <2> QED  BY <1>1, <1>2, <2>1
  <1> QED  BY <1>1, <1>2, <1>4, <1>5 DEF fp

LEMMA CrashTypes ==
  ASSUME TypeInv, BaseInv
  PROVE  /\ file \in Seq(Whole) /\ Pending \in Seq(Whole) /\ queue.bytes \in Seq(Whole)
         /\ Log \in Seq(Whole) /\ Len(Log) = Len(file) + Len(Pending) + Len(queue.bytes)
         /\ Len(Log) \in Nat /\ Len(file) <= Len(Log) /\ Len(file) + Len(Pending) <= Len(Log)
         /\ Len(file) \in Nat /\ Len(Pending) \in Nat /\ Len(queue.bytes) \in Nat
         /\ states \in Seq(TableStates) /\ Len(states) \in Nat /\ Len(states) \in 1..Len(states)
         /\ visibleTo \in 1..Len(states) /\ index \in [Clients -> 1..Len(states)]
         /\ LoadSnapshotIfPresent(snap) \in TableStates
  <1>1. /\ file \in Seq(Whole) /\ queue.bytes \in Seq(Whole) /\ drained.bytes \in Seq(Whole)
        /\ states \in Seq(TableStates) /\ visibleTo \in 1..Len(states)
        /\ index \in [Clients -> 1..Len(states)]
    BY DEF TypeInv, LogTypes, HistoryTypes, Batches, BaseInv, CalmInv
  <1>2. Pending \in Seq(Whole)
    BY <1>1 DEF Pending
  <1>3. Log \in Seq(Whole) /\ Len(Log) = Len(file) + Len(Pending) + Len(queue.bytes)
    BY <1>1, <1>2, LogPieces DEF Log
  <1>4. LoadSnapshotIfPresent(snap) \in TableStates
    BY LoadType DEF TypeInv, EngineTypes
  <1>5. Len(states) \in Nat
    BY <1>1
  <1>6. \A l \in Seq(Whole) : Len(l) \in Nat
    OBVIOUS
  <1>7. Len(file) \in Nat /\ Len(Pending) \in Nat /\ Len(queue.bytes) \in Nat /\ Len(Log) \in Nat
    BY <1>1, <1>2, <1>3, <1>6, Zenon
  <1>8. Len(file) <= Len(Log) /\ Len(file) + Len(Pending) <= Len(Log)
    <2>1. \A i, j, k \in Nat : i <= i + j + k /\ i + j <= i + j + k
      OBVIOUS
    <2> QED  BY <1>3, <1>7, <2>1, Zenon
  <1>9. Len(states) \in 1..Len(states)
    BY <1>1, <1>5
  <1> QED  BY <1>1, <1>2, <1>3, <1>4, <1>5, <1>7, <1>8, <1>9, Zenon

LEMMA LogParts ==
  ASSUME TypeInv, BaseInv
  PROVE  /\ \A k \in 1..Len(file) : Log[k] = file[k]
         /\ \A k \in 1..Len(Pending) : Log[Len(file) + k] = Pending[k]
  <1> DEFINE q == queue.bytes
  <1>1. file \in Seq(Whole) /\ Pending \in Seq(Whole) /\ q \in Seq(Whole)
    BY CrashTypes
  <1>2. Log = file \o Pending \o q
    BY DEF Log
  <1> HIDE DEF q
  <1> QED  BY <1>1, <1>2, LogPieces

LEMMA ReadAllWhole ==
  ASSUME NEW f \in Seq(Whole)
  PROVE  ReadAll(f) = f
  <1>1. Len(f) \in Nat /\ \A i \in 1..Len(f) : f[i] # Torn
    BY TornIsNotWhole
  <1>2. Readable(f) = 1..Len(f)
    BY <1>1 DEF Readable
  <1>3. Cardinality(Readable(f)) = Len(f)
    BY <1>1, <1>2, Interval
  <1> QED  BY <1>3, SubSeqFull DEF ReadAll

\* What Initialize would make of the snapshot and of the file.
LEMMA RecoveredIs ==
  ASSUME NEW b \in TableStates, NEW f \in Seq(Whole), NEW m \in 0..Len(f), NEW s,
         EffectiveLog(b, f), LoadSnapshotIfPresent(s) = Replayed(b, f)[m]
  PROVE  Recovered(s, f) = Replayed(b, f)[Len(f)]
  <1>1. ReadAll(f) = f /\ Len(f) \in m..Len(f)
    BY ReadAllWhole
  <1>2. Replayed(Replayed(b, f)[m], f)[Len(f)] = Replayed(b, f)[Len(f)]
    BY <1>1, ReplayedOver
  <1> QED  BY <1>1, <1>2, Zenon DEF Recovered

\* The part of the log that is in the file.
LEMMA FileOfLog ==
  ASSUME TypeInv, BaseInv, NEW b \in TableStates, NEW m \in 0..Len(file), NEW cb \in Nat, NEW db \in Nat,
         LogInv(b, m, cb, db)
  PROVE  /\ EffectiveLog(b, file) /\ LoadSnapshotIfPresent(snap) = Replayed(b, file)[m]
         /\ cb \in visibleTo..Len(states) /\ states[cb] = Replayed(b, file)[Len(file)]
  <1>1. /\ file \in Seq(Whole) /\ Log \in Seq(Whole) /\ Len(file) \in Nat /\ Len(file) <= Len(Log)
        /\ \A i \in 1..Len(file) : file[i] = Log[i]
    <2>1. /\ file \in Seq(Whole) /\ Pending \in Seq(Whole) /\ queue.bytes \in Seq(Whole) /\ Log \in Seq(Whole)
          /\ Len(file) \in Nat /\ Len(file) <= Len(Log)
      BY CrashTypes
    <2>2. \A i \in 1..Len(file) : Log[i] = file[i]
      BY <2>1, LogPieces DEF Log
    <2> QED  BY <2>1, <2>2
  <1>2. /\ EffectiveLog(b, Log) /\ LoadSnapshotIfPresent(snap) = Replayed(b, Log)[m]
        /\ cb \in 1..Len(states) /\ states[cb] = Replayed(b, Log)[Len(file)] /\ visibleTo <= cb
    BY DEF LogInv, Stretch
  <1>3. EffectiveLog(b, file) /\ \A i \in 0..Len(file) : Replayed(b, file)[i] = Replayed(b, Log)[i]
    BY <1>1, <1>2, LogShortened
  <1>4. cb \in visibleTo..Len(states) /\ Len(file) \in 0..Len(file)
    BY <1>1, <1>2, CrashTypes
  <1> QED  BY <1>2, <1>3, <1>4

\* The invariant is enough.
LEMMA CrashInvIsEnough ==
  ASSUME TypeInv, BaseInv, CrashInv, Departures = {}
  PROVE  RecoversPrefix
  <1>1. file \in Seq(Whole) /\ proc \in {"up", "down"}
    BY DEF BaseInv, CalmInv
  <1>2. CASE proc = "up"
    <2>1. PICK b \in TableStates : \E m \in 0..Len(file), cb, db \in Nat : LogInv(b, m, cb, db)
      BY <1>2 DEF CrashInv, UpInv
    <2>2. PICK m \in 0..Len(file), cb \in Nat, db \in Nat : LogInv(b, m, cb, db)
      BY <2>1
    <2>3. /\ EffectiveLog(b, file) /\ LoadSnapshotIfPresent(snap) = Replayed(b, file)[m]
          /\ cb \in visibleTo..Len(states) /\ states[cb] = Replayed(b, file)[Len(file)]
      BY <2>2, FileOfLog
    <2>4. Recovered(snap, file) = Replayed(b, file)[Len(file)]
      BY <1>1, <2>3, RecoveredIs
    <2> QED  BY <2>3, <2>4 DEF RecoversPrefix
  <1>3. CASE proc = "down"
    <2>1. PICK b \in TableStates : \E m \in 0..Len(file) : FileInv(b, m)
      BY <1>3 DEF CrashInv, DownInv
    <2>2. PICK m \in 0..Len(file) : FileInv(b, m)
      BY <2>1
    <2>3. Recovered(snap, file) = Replayed(b, file)[Len(file)]
      BY <1>1, <2>2, RecoveredIs DEF FileInv
    <2> QED  BY <2>2, <2>3 DEF FileInv, RecoversPrefix
  <1> QED  BY <1>1, <1>2, <1>3

\* A step that writes nothing, commits nothing and tells at most one caller.
LogQuiet ==
  /\ proc' = proc /\ (proc = "down" => UNCHANGED visibleTo)
  /\ inexact \subseteq inexact' /\ UNCHANGED <<inherited, file, snap, states>>
  /\ queue'.bytes = queue.bytes /\ Pending' = Pending /\ (wpc' # "write" => wpc # "write")
  /\ (Multi(drained.done, txn) => Multi(drained'.done, txn')) \/ wpc # "write"
  /\ Multi(queue.done, txn) => Multi(queue'.done, txn')
  /\ visibleTo' = visibleTo \/ \E c \in Clients : promise[c] = "ok" /\ visibleTo' = index[c]
  /\ \A c \in Clients :
       /\ index'[c] \in {1, index[c]}
       /\ promise'[c] = "ok" => promise[c] = "ok" \/ (c \in drained.done /\ wpc # "write")
       /\ c \in drained'.done => c \in drained.done
  /\ tpc' # "idle" /\ ~flushing' => tpc # "idle" /\ ~flushing

LEMMA CrashQuiet ==
  ASSUME TypeInv, BaseInv, CrashInv, LogQuiet
  PROVE  CrashInv'
  <1>1. /\ UNCHANGED <<inherited, file, snap, states, Pending>> /\ queue'.bytes = queue.bytes /\ proc' = proc
        /\ inexact \subseteq inexact'
    BY DEF LogQuiet
  <1>2. Log' = Log
    BY <1>1 DEF Log
  <1>3. /\ (Departures' = {} => Departures = {})
        /\ (Departures' \subseteq {"cut"} => Departures \subseteq {"cut"})
    BY <1>1 DEF Departures
  <1>4. ASSUME proc = "up", Departures = {} PROVE UpInv'
    <2>1. PICK b \in TableStates : \E m \in 0..Len(file), cb, db \in Nat : LogInv(b, m, cb, db)
      BY <1>4 DEF CrashInv, UpInv
    <2>2. PICK m \in 0..Len(file), cb \in Nat, db \in Nat : LogInv(b, m, cb, db)
      BY <2>1
    <2> DEFINE R == Replayed(b, Log)
               i == Len(file)
               j == Len(file) + Len(Pending)
    <2>3. /\ EffectiveLog(b, Log) /\ LoadSnapshotIfPresent(snap) = R[m]
          /\ Stretch(R, i, j, cb, db, states, Multi(drained.done, txn))
          /\ Stretch(R, j, Len(Log), db, Len(states), states, Multi(queue.done, txn))
          /\ visibleTo <= cb /\ (wpc # "write" => db = cb)
          /\ \A c \in Clients : /\ promise[c] = "ok" => index[c] <= cb
                                /\ c \in drained.done => index[c] <= db
      BY <2>2 DEF LogInv
    <2>4. /\ i \in Nat /\ j \in Nat /\ i <= j /\ Len(Log) \in Nat /\ j <= Len(Log)
          /\ states \in Seq(TableStates) /\ Len(states) \in Nat
          /\ index \in [Clients -> 1..Len(states)] /\ cb \in 1..Len(states)
      <3>1. /\ Len(Log) \in Nat /\ Len(file) + Len(Pending) <= Len(Log)
            /\ Len(file) \in Nat /\ Len(Pending) \in Nat
            /\ states \in Seq(TableStates) /\ Len(states) \in Nat
            /\ index \in [Clients -> 1..Len(states)]
        BY CrashTypes
      <3>2. cb \in 1..Len(states)
        BY <2>3 DEF Stretch
      <3> QED  BY <3>1, <3>2
    <2>5. R' = R
      BY <1>2
    <2>6. Stretch(R, i, j, cb, db, states, Multi(drained'.done, txn'))
      <3> HIDE DEF R, i, j
      <3>1. CASE Multi(drained.done, txn) => Multi(drained'.done, txn')
        BY <2>3, <3>1, StretchWider
      <3>2. CASE wpc # "write"
        <4>1. j = i /\ db = cb
          BY <2>3, <2>4, <3>2 DEF Pending, i, j
        <4>2. states[cb] = R[i]
          BY <2>3 DEF Stretch
        <4> QED  BY <2>4, <4>1, <4>2, StretchPoint
      <3> QED  BY <3>1, <3>2 DEF LogQuiet
    <2>7. Stretch(R, j, Len(Log), db, Len(states), states, Multi(queue'.done, txn'))
      <3> HIDE DEF R, i, j
      <3>1. Multi(queue.done, txn) => Multi(queue'.done, txn')
        BY DEF LogQuiet
      <3> QED  BY <2>3, <3>1, StretchWider
    <2>8. visibleTo' <= cb
      BY <2>3 DEF LogQuiet
    <2>9. wpc' # "write" => db = cb
      BY <2>3 DEF LogQuiet
    <2>10. ASSUME NEW c \in Clients
           PROVE  (promise'[c] = "ok" => index'[c] <= cb) /\ (c \in drained'.done => index'[c] <= db)
      <3>1. 1 <= cb /\ 1 <= db /\ index[c] \in Nat
        BY <2>3, <2>4 DEF Stretch
      <3>2. index'[c] = 1 \/ index'[c] = index[c]
        BY DEF LogQuiet
      <3>3. promise'[c] = "ok" => promise[c] = "ok" \/ (c \in drained.done /\ wpc # "write")
        BY DEF LogQuiet
      <3>4. c \in drained'.done => c \in drained.done
        BY DEF LogQuiet
      <3> QED  BY <2>3, <3>1, <3>2, <3>3, <3>4
    <2>11. LogInv(b, m, cb, db)'
      <3>1. LoadSnapshotIfPresent(snap)' = LoadSnapshotIfPresent(snap)
        BY <1>1
      <3> HIDE DEF R
      <3> QED  BY <1>1, <1>2, <2>3, <2>5, <2>6, <2>7, <2>8, <2>9, <2>10, <3>1 DEF LogInv, i, j, R
    <2>12. SnapshotInv'
      <3>1. SnapshotInv
        BY <1>4 DEF CrashInv, UpInv
      <3>2. tpc' # "idle" /\ ~flushing' => tpc # "idle" /\ ~flushing
        BY DEF LogQuiet
      <3> QED  BY <1>1, <3>1, <3>2 DEF SnapshotInv
    <2>13. m \in 0..Len(file')
      BY <1>1
    <2> QED  BY <2>11, <2>12, <2>13 DEF UpInv
  <1>5. ASSUME proc = "down" PROVE DownInv'
    <2>1. UNCHANGED visibleTo
      BY <1>5 DEF LogQuiet
    <2>2. ASSUME NEW b \in TableStates, NEW m \in 0..Len(file), FileInv(b, m) PROVE FileInv(b, m)'
      BY <1>1, <1>3, <2>1, <2>2 DEF FileInv
    <2> QED  BY <1>1, <1>3, <1>5, <2>2 DEF CrashInv, DownInv
  <1>6. UpInv'
    BY <1>1, <1>3, <1>4 DEF UpInv
  <1>7. DownInv'
    BY <1>1, <1>3, <1>5 DEF DownInv
  <1> QED  BY <1>6, <1>7 DEF CrashInv

LEMMA MultiSame ==
  ASSUME NEW D, NEW ts, NEW us, \A c \in D \intersect Clients : us[c].writes = ts[c].writes
  PROVE  Multi(D, ts) => Multi(D, us)
  BY DEF Multi

\* A life in which the log departs from the memtables.
LEMMA CrashDeparts ==
  ASSUME proc' = "up", Departures' # {}
  PROVE  CrashInv'
  BY DEF CrashInv, UpInv, DownInv

\* Clients that stage, roll back and publish, and commits that change nothing.
LEMMA CrashClient ==
  ASSUME TypeInv, BaseInv, CrashInv, NEW c \in Clients,
         Rollback(c) \/ Publish(c) \/ \E w \in workload.writes : Stage(c, w)
  PROVE  CrashInv'
  <1> USE DEF engineVars, ghosts, walVars, writerVars, queueVars, fileVars, drainVars
  <1>1. /\ UNCHANGED <<proc, visibleTo, inexact, inherited, file, snap, states, queue, drained, wpc, index,
                       promise, tpc, flushing>>
        /\ txn[c].st \notin {"wait", "ddl"}
    BY DEF Rollback, Publish, Stage
  <1>2. \A d \in Clients \ {c} : txn'[d] = txn[d]
    <2>1. txn \in [Clients -> [st : {"none", "active", "wait", "publish", "ddl"}, writes : Seq(Dml)]]
      BY DEF TypeInv, EngineTypes
    <2> QED  BY <2>1 DEF Rollback, Publish, Stage
  <1>3. c \notin queue.done /\ c \notin drained.done
    BY <1>1 DEF BaseInv, PromiseInv
  <1>4. /\ Multi(drained.done, txn) => Multi(drained'.done, txn')
        /\ Multi(queue.done, txn) => Multi(queue'.done, txn')
    <2>1. /\ \A d \in drained.done \intersect Clients : txn'[d].writes = txn[d].writes
          /\ \A d \in queue.done \intersect Clients : txn'[d].writes = txn[d].writes
      BY <1>2, <1>3
    <2>2. drained' = drained /\ queue' = queue
      BY <1>1
    <2> QED  BY <2>1, <2>2, MultiSame
  <1>5. Pending' = Pending
    BY <1>1 DEF Pending
  <1>6. LogQuiet
    BY <1>1, <1>4, <1>5 DEF LogQuiet
  <1> QED  BY <1>6, CrashQuiet

\* The answers of the log.
LEMMA CrashAnswer ==
  ASSUME TypeInv, BaseInv, CrashInv, NEW c \in Clients, Durable(c) \/ NotDurable(c) \/ DdlReturns(c)
  PROVE  CrashInv'
  <1> USE DEF engineVars, ghosts, walVars, writerVars, queueVars, fileVars, drainVars
  <1>1. Get(c, "ok") /\ ~NotDurable(c)
    BY DEF Durable, NotDurable, DdlReturns, Get, BaseInv, CalmInv
  <1>2. /\ promise[c] = "ok" /\ promise' = [promise EXCEPT ![c] = "none"] /\ proc = "up"
        /\ UNCHANGED <<proc, queue, drained, wpc, file, tpc, flushing>>
    BY <1>1 DEF Get
  <1>3. /\ UNCHANGED <<inherited, snap, states>> /\ inexact \subseteq inexact' /\ Told(c)
    BY <1>1 DEF Durable, DdlReturns
  <1>4. c \notin queue.done /\ c \notin drained.done
    BY <1>2 DEF BaseInv, PromiseInv
  <1>5. \A d \in Clients \ {c} : txn'[d] = txn[d]
    <2>1. txn \in [Clients -> [st : {"none", "active", "wait", "publish", "ddl"}, writes : Seq(Dml)]]
      BY DEF TypeInv, EngineTypes
    <2> QED  BY <1>1, <2>1 DEF Durable, DdlReturns
  <1>6. /\ Multi(drained.done, txn) => Multi(drained'.done, txn')
        /\ Multi(queue.done, txn) => Multi(queue'.done, txn')
    <2>1. /\ \A d \in drained.done \intersect Clients : txn'[d].writes = txn[d].writes
          /\ \A d \in queue.done \intersect Clients : txn'[d].writes = txn[d].writes
      BY <1>4, <1>5
    <2>2. drained' = drained /\ queue' = queue
      BY <1>2
    <2> QED  BY <2>1, <2>2, MultiSame
  <1>7. /\ \A d \in Clients : index'[d] \in {1, index[d]}
        /\ visibleTo' = visibleTo \/ visibleTo' = index[c]
    <2>1. index \in [Clients -> 1..Len(states)]
      BY DEF TypeInv, HistoryTypes
    <2> QED  BY <1>3, <2>1 DEF Told
  <1>8. \A d \in Clients : promise'[d] = "ok" => promise[d] = "ok"
    <2>1. promise \in [Threads -> {"none", "pending", "ok", "failed"}]
      BY DEF TypeInv, LogTypes
    <2> QED  BY <1>2, <2>1 DEF Threads
  <1>9. Pending' = Pending
    BY <1>2 DEF Pending
  <1>10. LogQuiet
    BY <1>2, <1>3, <1>6, <1>7, <1>8, <1>9 DEF LogQuiet
  <1> QED  BY <1>10, CrashQuiet

\* Steps that leave the clients alone.
LEMMA CrashBackground ==
  ASSUME NoFailures, TypeInv, BaseInv, FeedInv, CrashInv,
         \/ WriteBack \/ ShutdownBegin \/ ShutdownFlush \/ ShutdownClear \/ StopStep \/ UNCHANGED vars
         \/ (WriterStep /\ (WriterSync \/ WriterAck \/ WriterExit))
         \/ (SnapshotStep /\ (DrainEnqueue \/ DrainWait))
         \/ Recovery
  PROVE  CrashInv'
  <1> USE DEF engineVars, ghosts, walVars, writerVars, queueVars, fileVars, drainVars
  <1>0. CalmInv /\ promise \in [Threads -> {"none", "pending", "ok", "failed"}] /\ queue \in Batches
    BY DEF BaseInv, TypeInv, LogTypes
  <1>1. CASE WriteBack \/ ShutdownBegin \/ ShutdownFlush \/ ShutdownClear \/ StopStep \/ UNCHANGED vars
    <2>1. /\ UNCHANGED <<proc, visibleTo, inexact, inherited, file, snap, states, queue, drained, wpc, index,
                         promise, txn>>
          /\ UNCHANGED <<tpc, flushing>> \/ flushing'
      BY <1>1 DEF WriteBack, ShutdownBegin, ShutdownFlush, FlushBegin, ShutdownClear, StopStep, StopWriter, vars
    <2>2. Pending' = Pending
      BY <2>1 DEF Pending
    <2>3. LogQuiet
      BY <2>1, <2>2 DEF LogQuiet
    <2> QED  BY <2>3, CrashQuiet
  <1>2. CASE WriterStep /\ (WriterSync \/ WriterAck \/ WriterExit)
    <2>1. /\ UNCHANGED <<proc, visibleTo, inexact, inherited, file, snap, states, queue, index, txn, tpc, flushing>>
          /\ wpc # "write" /\ wpc' # "write"
      BY <1>0, <1>2 DEF WriterStep, WriterSync, WriterAck, WriterExit, CalmInv
    <2>2. /\ \A c \in Clients : c \in drained'.done => c \in drained.done
          /\ \A c \in Clients : promise'[c] = "ok" => promise[c] = "ok" \/ c \in drained.done
      BY <1>2 DEF WriterSync, WriterAck, WriterExit, Nothing, Threads
    <2>3. Pending' = Pending
      BY <2>1 DEF Pending
    <2>4. LogQuiet
      BY <2>1, <2>2, <2>3 DEF LogQuiet
    <2> QED  BY <2>4, CrashQuiet
  <1>3. CASE SnapshotStep /\ (DrainEnqueue \/ DrainWait)
    <2>1. /\ UNCHANGED <<proc, visibleTo, inexact, inherited, file, snap, states, drained, wpc, index, txn, flushing>>
          /\ tpc # "idle"
          /\ queue' = queue \/ queue' = [queue EXCEPT !.done = @ \union {Drainer}]
          /\ \E x \in {"pending", "none"} : promise' = [promise EXCEPT ![Drainer] = x]
      BY <1>0, <1>3 DEF SnapshotStep, DrainEnqueue, DrainWait, CalmInv
    <2>2. queue'.bytes = queue.bytes /\ queue.done \subseteq queue'.done
      BY <1>0, <2>1 DEF Batches
    <2>3. Multi(queue.done, txn) => Multi(queue'.done, txn')
      BY <2>1, <2>2 DEF Multi
    <2>4. \A c \in Clients : promise'[c] = promise[c]
      BY <1>0, <2>1, WALConstants DEF Threads
    <2>5. Pending' = Pending
      BY <2>1 DEF Pending
    <2>6. LogQuiet
      BY <2>1, <2>2, <2>3, <2>4, <2>5 DEF LogQuiet
    <2> QED  BY <2>6, CrashQuiet
  <1>4. CASE Recovery
    <2>1. proc = "up"
      BY <1>4 DEF Recovery, Replay, RecoveryComplete
    <2>2. CASE UNCHANGED <<walVars, txn, inexact>>
      <3>1. UNCHANGED <<proc, visibleTo, inexact, inherited, file, snap, states, queue, drained, wpc, index,
                        promise, txn, tpc, flushing>>
        BY <1>4, <2>2 DEF Recovery, Replay, RecoveryComplete
      <3>2. Pending' = Pending
        BY <3>1 DEF Pending
      <3>3. LogQuiet
        BY <3>1, <3>2 DEF LogQuiet
      <3> QED  BY <3>3, CrashQuiet
    <2>3. CASE UNCHANGED proc /\ "redrop" \in inexact'
      <3>1. Departures' # {}
        BY <2>3 DEF Departures
      <3> QED  BY <2>1, <2>3, <3>1, CrashDeparts
    <2> QED  BY <1>4, <2>2, <2>3 DEF Recovery, Replay, RecoveryComplete, AppendBatchAsync
  <1> QED  BY <1>1, <1>2, <1>3, <1>4

\* The writer takes the queue.
LEMMA CrashDrain ==
  ASSUME TypeInv, BaseInv, CrashInv, WriterStep, WriterDrain
  PROVE  CrashInv'
  <1> USE DEF engineVars, ghosts, walVars, writerVars, queueVars, fileVars, drainVars
  <1>1. /\ proc = "up" /\ wpc = "wait" /\ wpc' = "write" /\ drained' = queue /\ queue' = Nothing
        /\ UNCHANGED <<proc, visibleTo, inexact, inherited, file, snap, states, index, promise, txn, tpc, flushing>>
    BY DEF WriterStep, WriterDrain
  <1>2. Pending = <<>> /\ Pending' = queue.bytes /\ queue'.bytes = <<>>
    BY <1>1 DEF Pending, Nothing
  <1>3. /\ file \in Seq(Whole) /\ queue.bytes \in Seq(Whole) /\ Log \in Seq(Whole)
        /\ Len(file) \in Nat /\ Len(queue.bytes) \in Nat /\ Len(Log) \in Nat
        /\ states \in Seq(TableStates) /\ Len(states) \in Nat /\ Len(states) \in 1..Len(states)
        /\ index \in [Clients -> 1..Len(states)]
    BY CrashTypes
  <1>4. Log = file \o queue.bytes /\ Log' = file \o queue.bytes
    <2>1. file \o <<>> = file
      BY <1>3, ConcatEmptySeq
    <2>2. file \o queue.bytes \in Seq(Whole)
      BY <1>3, ConcatProperties
    <2>3. (file \o queue.bytes) \o <<>> = file \o queue.bytes
      BY <2>2, ConcatEmptySeq
    <2> QED  BY <1>1, <1>2, <2>1, <2>3 DEF Log
  <1>5. Log' = Log /\ Len(Log) = Len(file) + Len(queue.bytes) /\ Len(file) + 0 = Len(file)
    BY <1>3, <1>4, ConcatProperties
  <1>6. Len(Pending) = 0 /\ Len(queue'.bytes) = 0
    BY <1>2
  <1>7. SUFFICES ASSUME Departures = {} PROVE UpInv'
    BY <1>1 DEF CrashInv, DownInv, UpInv, Departures
  <1>8. PICK b \in TableStates : \E m \in 0..Len(file), cb, db \in Nat : LogInv(b, m, cb, db)
    BY <1>1, <1>7 DEF CrashInv, UpInv
  <1>9. PICK m \in 0..Len(file), cb \in Nat, db \in Nat : LogInv(b, m, cb, db)
    BY <1>8
  <1> DEFINE R == Replayed(b, Log)
             N == Len(states)
  <1>10. /\ EffectiveLog(b, Log) /\ LoadSnapshotIfPresent(snap) = R[m]
         /\ Stretch(R, Len(file), Len(Log), cb, N, states, Multi(queue.done, txn))
         /\ visibleTo <= cb /\ \A c \in Clients : promise[c] = "ok" => index[c] <= cb
    <2>1. db = cb
      BY <1>1, <1>9 DEF LogInv
    <2> QED  BY <1>5, <1>6, <1>9, <2>1 DEF LogInv
  <1>11. R' = R
    BY <1>5
  <1> HIDE DEF R
  <1>12. Stretch(R, Len(Log), Len(Log), N, N, states, Multi(queue'.done, txn'))
    <2>1. states[N] = R[Len(Log)]
      BY <1>10 DEF Stretch
    <2> QED  BY <1>3, <2>1, StretchPoint
  <1>13. LogInv(b, m, cb, N)'
    <2>1. Len(file)' + Len(Pending)' = Len(Log)
      BY <1>1, <1>2, <1>5
    <2>2. LoadSnapshotIfPresent(snap)' = LoadSnapshotIfPresent(snap)
      BY <1>1
    <2>3. N' = N /\ states' = states /\ drained'.done = queue.done /\ txn' = txn
      BY <1>1
    <2>4. \A c \in Clients : index[c] <= N
      BY <1>3
    <2> QED  BY <1>1, <1>5, <1>10, <1>11, <1>12, <2>1, <2>2, <2>3, <2>4 DEF LogInv, R
  <1>14. SnapshotInv'
    BY <1>1, <1>2, <1>7 DEF SnapshotInv, CrashInv, UpInv
  <1>15. m \in 0..Len(file') /\ N \in Nat
    BY <1>1, <1>3
  <1> QED  BY <1>13, <1>14, <1>15 DEF UpInv

\* The writer writes what it took.
LEMMA CrashWrite ==
  ASSUME NoFailures, TypeInv, BaseInv, CrashInv, WriterStep, WriterWrite
  PROVE  CrashInv'
  <1> USE DEF engineVars, ghosts, walVars, writerVars, queueVars, fileVars, drainVars
  <1>1. /\ proc = "up" /\ wpc = "write" /\ wpc' # "write" /\ file' = file \o drained.bytes
        /\ UNCHANGED <<proc, visibleTo, inexact, inherited, snap, states, index, promise, txn, tpc, flushing,
                       drained, queue>>
    BY DEF WriterStep, WriterWrite, NoFailures, BaseInv, CalmInv
  <1>2. Pending = drained.bytes /\ Pending' = <<>>
    BY <1>1 DEF Pending
  <1>3. /\ file \in Seq(Whole) /\ Pending \in Seq(Whole)
        /\ Len(file) \in Nat /\ Len(Pending) \in Nat /\ Len(Log) \in Nat
        /\ states \in Seq(TableStates) /\ Len(states) \in Nat /\ visibleTo \in 1..Len(states)
        /\ index \in [Clients -> 1..Len(states)]
    BY CrashTypes
  <1>4. /\ file' \in Seq(Whole) /\ Len(file') = Len(file) + Len(Pending)
        /\ Len(file') + Len(Pending') = Len(file')
    <2>1. file' = file \o Pending
      BY <1>1, <1>2
    <2>2. file' \in Seq(Whole) /\ Len(file') = Len(file) + Len(Pending)
      BY <1>3, <2>1, ConcatProperties
    <2> QED  BY <1>2, <1>3, <2>2
  <1>5. Log' = Log
    <2>1. file' \o <<>> = file'
      BY <1>4, ConcatEmptySeq
    <2> QED  BY <1>1, <1>2, <2>1 DEF Log
  <1>6. SUFFICES ASSUME Departures = {} PROVE UpInv'
    BY <1>1 DEF CrashInv, DownInv, UpInv, Departures
  <1>7. PICK b \in TableStates : \E m \in 0..Len(file), cb, db \in Nat : LogInv(b, m, cb, db)
    BY <1>1, <1>6 DEF CrashInv, UpInv
  <1>8. PICK m \in 0..Len(file), cb \in Nat, db \in Nat : LogInv(b, m, cb, db)
    BY <1>7
  <1> DEFINE R == Replayed(b, Log)
             N == Len(states)
             j == Len(file) + Len(Pending)
  <1>9. /\ EffectiveLog(b, Log) /\ LoadSnapshotIfPresent(snap) = R[m]
        /\ Stretch(R, Len(file), j, cb, db, states, Multi(drained.done, txn))
        /\ Stretch(R, j, Len(Log), db, N, states, Multi(queue.done, txn))
        /\ visibleTo <= cb
        /\ \A c \in Clients : promise[c] = "ok" => index[c] <= cb
        /\ \A c \in Clients : c \in drained.done => index[c] <= db
    BY <1>8 DEF LogInv
  <1>10. R' = R /\ j \in Nat
    BY <1>3, <1>5
  <1> HIDE DEF R, j
  <1>11. /\ states[db] = R[j] /\ db \in 1..N /\ cb <= db
    BY <1>3, <1>9 DEF Stretch
  <1>12. Stretch(R, j, j, db, db, states, Multi(drained'.done, txn'))
    BY <1>3, <1>10, <1>11, StretchPoint
  <1>13. visibleTo <= db /\ \A c \in Clients : promise[c] = "ok" => index[c] <= db
    <2>1. visibleTo \in Nat /\ \A c \in Clients : index[c] \in Nat
      BY <1>3
    <2>2. \A x \in Nat : x <= cb => x <= db
      BY <1>11
    <2>3. visibleTo <= db
      <3>1. visibleTo <= cb
        BY <1>9
      <3> QED  BY <2>1, <2>2, <3>1
    <2>4. ASSUME NEW c \in Clients, promise[c] = "ok" PROVE index[c] <= db
      <3>1. index[c] <= cb /\ index[c] \in Nat
        BY <1>9, <2>1, <2>4
      <3> QED  BY <2>2, <3>1
    <2> QED  BY <2>3, <2>4
  <1>14. LogInv(b, m, db, db)'
    <2>1. Len(file)' = j /\ Len(file)' + Len(Pending)' = j
      BY <1>4 DEF j
    <2>2. LoadSnapshotIfPresent(snap)' = LoadSnapshotIfPresent(snap)
      BY <1>1
    <2>3. N' = N /\ states' = states /\ drained' = drained /\ queue' = queue /\ txn' = txn
      BY <1>1
    <2> QED  BY <1>1, <1>5, <1>9, <1>10, <1>12, <1>13, <2>1, <2>2, <2>3 DEF LogInv, R
  <1>15. SnapshotInv'
    BY <1>1, <1>2, <1>6 DEF SnapshotInv, CrashInv, UpInv
  <1>16. m \in 0..Len(file')
    BY <1>3, <1>4
  <1> QED  BY <1>14, <1>15, <1>16 DEF UpInv

\* The snapshot is renamed.
LEMMA CrashSnapshot ==
  ASSUME NoFailures, TypeInv, BaseInv, FeedInv, CrashInv, Checkpoint \/ ShutdownSnapshot
  PROVE  CrashInv'
  <1> USE DEF writerVars, queueVars, fileVars, drainVars
  <1>1. /\ proc = "up" /\ snap' = SnapshotOf(tables) /\ phase = "run" /\ sd # "off"
        /\ inexact' = inexact \union (IF Unwritten THEN {"snapshot_ahead"} ELSE {})
        /\ UNCHANGED <<proc, visibleTo, inherited, file, states, index, promise, txn, drained, queue, wpc>>
    BY DEF Checkpoint, ShutdownSnapshot, WriteSnapshot, TruncateBegin, NoFailures, FeedInv, CallInv
  <1>2. CASE Unwritten
    <2>1. Departures' # {}
      BY <1>1, <1>2 DEF Departures
    <2> QED  BY <1>1, <2>1, CrashDeparts
  <1>3. CASE ~Unwritten
    <2>1. queue.bytes = <<>> /\ Pending = <<>> /\ Pending' = <<>> /\ Log' = Log
      BY <1>1, <1>3 DEF Unwritten, Pending, Log
    <2>2. SUFFICES ASSUME Departures = {} PROVE UpInv'
      BY <1>1, <1>3 DEF CrashInv, DownInv, UpInv, Departures
    <2>3. /\ file \in Seq(Whole) /\ Len(file) \in Nat /\ Len(file) \in 0..Len(file)
          /\ Len(Log) = Len(file)
      <3>1. /\ file \in Seq(Whole) /\ Len(file) \in Nat
            /\ Len(Log) = Len(file) + Len(Pending) + Len(queue.bytes)
        BY CrashTypes
      <3>2. Len(Pending) = 0 /\ Len(queue.bytes) = 0
        BY <2>1
      <3> QED  BY <3>1, <3>2
    <2>4. LoadSnapshotIfPresent(snap') = states[Len(states)]
      <3>1. tables = states[Len(states)]
        BY <1>1, <2>2 DEF FeedInv, TablesInv, Clean, Departures
      <3>2. tables \in TableStates /\ tables # NoSnapshot
        BY StorageConstants DEF TypeInv, EngineTypes
      <3>3. snap' = tables
        BY <1>1, <3>2, SnapshotType DEF NoFailures
      <3> QED  BY <3>1, <3>2, <3>3 DEF LoadSnapshotIfPresent
    <2>5. PICK b \in TableStates : \E m \in 0..Len(file), cb, db \in Nat : LogInv(b, m, cb, db)
      BY <1>1, <2>2 DEF CrashInv, UpInv
    <2>6. PICK m \in 0..Len(file), cb \in Nat, db \in Nat : LogInv(b, m, cb, db)
      BY <2>5
    <2>7. states[Len(states)] = Replayed(b, Log)[Len(file)]
      BY <2>3, <2>6 DEF LogInv, Stretch
    <2>8. LogInv(b, Len(file), cb, db)'
      BY <1>1, <2>1, <2>4, <2>6, <2>7 DEF LogInv
    <2>9. SnapshotInv'
      BY <1>1, <2>1, <2>4 DEF SnapshotInv
    <2>10. Len(file') \in 0..Len(file')
      BY <1>1, <2>3
    <2> QED  BY <2>8, <2>9, <2>10 DEF UpInv
  <1> QED  BY <1>2, <1>3

\* The log is reset.
LEMMA CrashReset ==
  ASSUME NoFailures, TypeInv, BaseInv, CrashInv, SnapshotStep, TruncateReset
  PROVE  CrashInv'
  <1> USE DEF ghosts, writerVars, queueVars, fileVars, drainVars
  <1>1. /\ proc = "up" /\ file' = <<>> /\ tpc = "reset" /\ tpc' = "idle"
        /\ UNCHANGED <<proc, visibleTo, inexact, inherited, snap, states, index, promise, txn, drained, queue, wpc>>
    BY DEF SnapshotStep, TruncateReset, NoFailures, WriteMagicIfEmpty
  <1>2. SUFFICES ASSUME Departures = {} PROVE UpInv'
    BY <1>1 DEF CrashInv, DownInv, UpInv, Departures
  <1> DEFINE b == states[Len(states)]
             N == Len(states)
  <1>3. queue.bytes = <<>> /\ Pending = <<>> /\ LoadSnapshotIfPresent(snap) = b
    BY <1>1, <1>2 DEF BaseInv, LockInv, CrashInv, UpInv, SnapshotInv
  <1>4. /\ states \in Seq(TableStates) /\ N \in Nat /\ N \in 1..N /\ visibleTo \in 1..N
        /\ index \in [Clients -> 1..N]
    BY CrashTypes
  <1>5. b \in TableStates
    BY <1>4
  <1>6. Pending' = <<>> /\ queue'.bytes = <<>> /\ Log' = <<>>
    <2>1. Pending' = <<>>
      BY <1>1, <1>3 DEF Pending
    <2>2. <<>> \in Seq(Whole) /\ <<>> \o <<>> = <<>>
      OBVIOUS
    <2> QED  BY <1>1, <1>3, <2>1, <2>2 DEF Log
  <1>7. Len(file') = 0 /\ Len(file') + Len(Pending') = 0 /\ Len(Log') = 0
    BY <1>1, <1>6
  <1>8. EffectiveLog(b, <<>>) /\ Replayed(b, <<>>)[0] = b
    <2>1. <<>> \in Seq(Whole) /\ 1..Len(<<>>) = {}
      OBVIOUS
    <2> HIDE DEF b
    <2> QED  BY <1>5, <2>1, ReplayedSteps DEF EffectiveLog
  <1>9. \A mu : Stretch(Replayed(b, <<>>), 0, 0, N, N, states, mu)
    <2> DEFINE R == Replayed(b, <<>>)
    <2>1. states[N] = R[0]
      BY <1>8
    <2>2. ASSUME NEW mu PROVE Stretch(R, 0, 0, N, N, states, mu)
      <3> HIDE DEF R
      <3>1. 0 \in Nat
        OBVIOUS
      <3> QED  BY <1>4, <2>1, <3>1, StretchPoint
    <2> QED  BY <2>2
  <1>10. PICK z : z = b
    OBVIOUS
  <1>11. LogInv(z, 0, N, N)'
    <2>1. LoadSnapshotIfPresent(snap)' = z
      BY <1>1, <1>3, <1>10
    <2>2. N' = N /\ states' = states
      BY <1>1
    <2>3. visibleTo <= N /\ \A c \in Clients : index[c] <= N
      BY <1>4
    <2> HIDE DEF b
    <2> QED  BY <1>1, <1>6, <1>7, <1>8, <1>9, <1>10, <2>1, <2>2, <2>3 DEF LogInv
  <1>12. SnapshotInv'
    BY <1>1 DEF SnapshotInv
  <1>13. 0 \in 0..Len(file') /\ N \in Nat /\ z \in TableStates
    BY <1>4, <1>5, <1>7, <1>10
  <1> QED  BY <1>11, <1>12, <1>13 DEF UpInv

\* The records s take the last state of the history to x, each with an effect.
Leads(s, x) == \E g : Course(g, s) /\ g[0] = states[Len(states)] /\ g[Len(s)] = x

\* A commit or DDL call takes effect and queues its records.
Takes(c, ds, x) ==
  /\ AppendBatchAsync(c, ds)
  /\ states' = Append(states, x) /\ index' = [index EXCEPT ![c] = Len(states) + 1]
  /\ \A d \in Clients : txn'[d].writes = txn[d].writes
  /\ tpc = "idle" \/ flushing
  /\ Len(ds) = 1 \/ Len(txn[c].writes) > 1
  /\ inexact \subseteq inexact' /\ (Departures' = {} => Leads(Numbered(ds), x))
  /\ UNCHANGED <<visibleTo, snap, inherited>>

LEMMA CrashEffect ==
  ASSUME TypeInv, BaseInv, CrashInv, NEW c \in Clients, NEW ds \in Seq(Ops), NEW x \in TableStates,
         Takes(c, ds, x)
  PROVE  CrashInv'
  <1> USE DEF writerVars, queueVars, fileVars, drainVars
  <1>0. /\ AppendBatchAsync(c, ds)
        /\ states' = Append(states, x) /\ index' = [index EXCEPT ![c] = Len(states) + 1]
        /\ \A d \in Clients : txn'[d].writes = txn[d].writes
        /\ tpc = "idle" \/ flushing
        /\ Len(ds) = 1 \/ Len(txn[c].writes) > 1
        /\ inexact \subseteq inexact' /\ UNCHANGED <<visibleTo, snap, inherited>>
    BY DEF Takes
  <1> DEFINE s == Numbered(ds)
             N == Len(states)
  <1>1. /\ proc = "up" /\ promise[c] = "none" /\ promise' = [promise EXCEPT ![c] = "pending"]
        /\ queue' = [bytes |-> queue.bytes \o s, done |-> queue.done \union {c}]
        /\ UNCHANGED <<proc, drained, wpc, file, tpc, flushing>>
    BY <1>0 DEF AppendBatchAsync, BaseInv, CalmInv
  <1>2. s \in Seq(Whole) /\ Len(s) = Len(ds)
    BY NumberedType DEF TypeInv, LogTypes
  <1> HIDE DEF s
  <1>3. /\ file \in Seq(Whole) /\ Pending \in Seq(Whole) /\ queue.bytes \in Seq(Whole) /\ Log \in Seq(Whole)
        /\ Len(file) \in Nat /\ Len(Pending) \in Nat /\ Len(Log) \in Nat
        /\ Len(file) + Len(Pending) <= Len(Log)
        /\ states \in Seq(TableStates) /\ N \in Nat /\ visibleTo \in 1..N
        /\ index \in [Clients -> 1..N]
    BY CrashTypes
  <1>4. Pending' = Pending /\ queue'.bytes = queue.bytes \o s /\ queue'.done = queue.done \union {c}
    BY <1>1 DEF Pending
  <1>5. Log' = Log \o s /\ Len(Log') = Len(Log) + Len(s) /\ Len(s) \in Nat
    <2> DEFINE fp == file \o Pending
    <2>1. fp \in Seq(Whole)
      BY <1>3, ConcatProperties
    <2>2. Log = fp \o queue.bytes /\ Log' = fp \o (queue.bytes \o s)
      BY <1>1, <1>4 DEF Log
    <2> DEFINE q == queue.bytes
    <2>3. q \in Seq(Whole) /\ s \in Seq(Whole) /\ Log \in Seq(Whole)
      BY <1>2, <1>3
    <2> HIDE DEF fp, q
    <2>4. (fp \o q) \o s = fp \o (q \o s)
      <3>1. \A u, v, w \in Seq(Whole) : (u \o v) \o w = u \o (v \o w)
        BY ConcatAssociative
      <3> QED  BY <2>1, <2>3, <3>1
    <2>5. Log' = Log \o s
      BY <2>2, <2>4 DEF q
    <2>6. Len(Log \o s) = Len(Log) + Len(s) /\ Len(s) \in Nat
      BY <2>3, ConcatProperties
    <2> QED  BY <2>5, <2>6
  <1>6. SUFFICES ASSUME Departures' = {} PROVE UpInv'
    BY <1>1 DEF CrashInv, DownInv, UpInv
  <1>7. Departures = {}
    BY <1>0, <1>6 DEF Departures
  <1>8. PICK b \in TableStates : \E m \in 0..Len(file), cb, db \in Nat : LogInv(b, m, cb, db)
    BY <1>1, <1>7 DEF CrashInv, UpInv
  <1>9. PICK m \in 0..Len(file), cb \in Nat, db \in Nat : LogInv(b, m, cb, db)
    BY <1>8
  <1>10. PICK g : Course(g, s) /\ g[0] = states[N] /\ g[Len(s)] = x
    BY <1>6 DEF Takes, Leads, s
  <1> DEFINE R == Replayed(b, Log)
             Q == Replayed(b, Log \o s)
             i == Len(file)
             j == Len(file) + Len(Pending)
             l == Len(Log)
  <1>11. /\ EffectiveLog(b, Log) /\ LoadSnapshotIfPresent(snap) = R[m]
         /\ Stretch(R, i, j, cb, db, states, Multi(drained.done, txn))
         /\ Stretch(R, j, l, db, N, states, Multi(queue.done, txn))
         /\ visibleTo <= cb /\ (wpc # "write" => db = cb)
         /\ \A d \in Clients : promise[d] = "ok" => index[d] <= cb
         /\ \A d \in Clients : d \in drained.done => index[d] <= db
    BY <1>9 DEF LogInv
  <1>12. R[l] = states[N]
    BY <1>11 DEF Stretch
  <1>13. EffectiveLog(b, Log \o s) /\ (\A n \in 0..l : Q[n] = R[n]) /\ Q[l + Len(s)] = x
    <2>1. /\ Log \in Seq(Whole) /\ s \in Seq(Whole) /\ EffectiveLog(b, Log)
          /\ Course(g, s) /\ g[0] = Replayed(b, Log)[Len(Log)] /\ g[Len(s)] = x
      BY <1>2, <1>3, <1>10, <1>11, <1>12
    <2>2. /\ EffectiveLog(b, Log \o s)
          /\ \A n \in 0..Len(Log) : Replayed(b, Log \o s)[n] = Replayed(b, Log)[n]
          /\ Replayed(b, Log \o s)[Len(Log) + Len(s)] = g[Len(s)]
      BY <2>1, LogExtended
    <2> QED  BY <2>1, <2>2
  <1>14. /\ i \in Nat /\ j \in Nat /\ l \in Nat /\ i <= j /\ j <= l /\ m \in 0..l
         /\ (\A n \in i..j : n \in 0..l) /\ (\A n \in j..l : n \in 0..l)
    <2>1. i \in Nat /\ j \in Nat /\ l \in Nat /\ i <= j /\ j <= l
      BY <1>3
    <2> HIDE DEF j, l
    <2> QED  BY <2>1
  <1>15. /\ states' \in Seq(TableStates) /\ Len(states') = N + 1 /\ \A n \in 1..N : states'[n] = states[n]
    BY <1>0, <1>3, AppendProperties
  <1>16. Stretch(Q, i, j, cb, db, states', Multi(drained'.done, txn'))
    <2>1. Multi(drained.done, txn) => Multi(drained'.done, txn')
      BY <1>0, <1>1, MultiSame
    <2>2. \A n \in i..j : Q[n] = R[n]
      BY <1>13, <1>14
    <2>3. N <= Len(states')
      BY <1>3, <1>15
    <2>4. /\ i \in Nat /\ j \in Nat /\ i <= j /\ states \in Seq(TableStates) /\ states' \in Seq(TableStates)
          /\ Stretch(R, i, j, cb, db, states, Multi(drained.done, txn))
          /\ Len(states) <= Len(states') /\ \A n \in 1..Len(states) : states'[n] = states[n]
      BY <1>3, <1>11, <1>14, <1>15, <2>3
    <2> DEFINE tt == states'
               mu == Multi(drained.done, txn)
               nu == Multi(drained'.done, txn')
    <2>5. /\ i \in Nat /\ j \in Nat /\ i <= j /\ states \in Seq(TableStates) /\ tt \in Seq(TableStates)
          /\ Stretch(R, i, j, cb, db, states, mu) /\ (mu => nu)
          /\ Len(states) <= Len(tt) /\ \A n \in 1..Len(states) : tt[n] = states[n]
      BY <2>1, <2>4
    <2> HIDE DEF Q, R, i, j, tt, mu, nu
    <2>6. Stretch(Q, i, j, cb, db, tt, nu)
      BY <2>2, <2>5, StretchKept
    <2> QED  BY <2>6 DEF tt, nu
  <1>17. Stretch(Q, j, l + Len(s), db, N + 1, states', Multi(queue'.done, txn'))
    <2>1. ASSUME ~Multi(queue'.done, txn') PROVE ~Multi(queue.done, txn) /\ Len(s) = 1
      <3>1. \A d \in (queue.done \union {c}) \intersect Clients : ~(Len(txn[d].writes) > 1)
        BY <1>0, <1>4, <2>1 DEF Multi
      <3> QED  BY <1>0, <1>2, <3>1 DEF Multi
    <2>2. \A n \in j..l : Q[n] = R[n]
      BY <1>13, <1>14
    <2> HIDE DEF Q, R, i, j, l
    <2>3. Stretch(Q, j, l + Len(s), db, N + 1, Append(states, x), Multi(queue'.done, txn'))
      BY <1>3, <1>5, <1>11, <1>13, <1>14, <2>1, <2>2, StretchGrows
    <2> QED  BY <1>0, <2>3
  <1>18. ASSUME NEW d \in Clients
         PROVE  /\ promise'[d] = "ok" => index'[d] <= cb
                /\ d \in drained'.done => index'[d] <= db
    <2>1. CASE d = c
      <3>1. promise'[c] = "pending" /\ c \notin drained.done
        <4>1. promise \in [Threads -> {"none", "pending", "ok", "failed"}] /\ c \in Threads
          BY DEF TypeInv, LogTypes, Threads
        <4>2. promise'[c] = "pending"
          BY <1>1, <4>1
        <4> QED  BY <1>1, <4>2 DEF BaseInv, PromiseInv
      <3> QED  BY <1>1, <2>1, <3>1
    <2>2. CASE d # c
      <3>1. index'[d] = index[d] /\ promise'[d] = promise[d]
        BY <1>0, <1>1, <1>3, <2>2 DEF TypeInv, LogTypes, Threads
      <3> QED  BY <1>1, <1>11, <3>1
    <2> QED  BY <2>1, <2>2
  <1>19. LogInv(b, m, cb, db)'
    <2>1. Q = Replayed(b, Log') /\ Len(Log') = l + Len(s) /\ Q[m] = R[m]
      BY <1>5, <1>13, <1>14
    <2>2. Len(file)' = i /\ Len(file)' + Len(Pending)' = j /\ Len(states)' = N + 1
      BY <1>1, <1>4, <1>15
    <2>3. LoadSnapshotIfPresent(snap)' = LoadSnapshotIfPresent(snap) /\ visibleTo' = visibleTo
      BY <1>0
    <2>4. EffectiveLog(b, Log')
      BY <1>5, <1>13
    <2> HIDE DEF Q, R, i, j, l
    <2> QED  BY <1>1, <1>11, <1>16, <1>17, <1>18, <2>1, <2>2, <2>3, <2>4 DEF LogInv
  <1>20. SnapshotInv'
    BY <1>0, <1>1 DEF SnapshotInv
  <1>21. m \in 0..Len(file')
    BY <1>1
  <1> QED  BY <1>19, <1>20, <1>21 DEF UpInv

LEMMA NumberedData ==
  ASSUME NEW ds \in Seq(Ops), TypeInv
  PROVE  /\ Numbered(ds) \in Seq(Whole) /\ Len(Numbered(ds)) = Len(ds)
         /\ \A i \in 1..Len(ds) : Numbered(ds)[i].data = ds[i]
  <1>1. nextSeq \in Nat \ {0}
    BY DEF TypeInv, LogTypes
  <1>2. /\ Numbered(ds) \in Seq(Whole) /\ Len(Numbered(ds)) = Len(ds)
        /\ \A i \in 1..Len(ds) : Numbered(ds)[i] = [seq |-> nextSeq + i - 1, data |-> ds[i]]
    BY <1>1, NumberedType
  <1>3. ASSUME NEW i \in 1..Len(ds) PROVE Numbered(ds)[i].data = ds[i]
    <2>1. Numbered(ds)[i] = [seq |-> nextSeq + i - 1, data |-> ds[i]]
      BY <1>2
    <2>2. [seq |-> nextSeq + i - 1, data |-> ds[i]].data = ds[i]
      OBVIOUS
    <2> QED  BY <2>1, <2>2, Zenon
  <1> QED  BY <1>2, <1>3, Zenon

\* While nobody holds the lock no snapshot waits for the reset of the log.
LEMMA LockFree ==
  ASSUME BaseInv, lock = "free"
  PROVE  tpc = "idle" \/ flushing
  BY StorageConstants DEF BaseInv, LockInv, Threads

LEMMA CrashCommit ==
  ASSUME TypeInv, BaseInv, FeedInv, CrashInv, NEW c \in Clients, Commit(c)
  PROVE  CrashInv'
  <1> USE DEF engineVars, ghosts
  <1> DEFINE ws == txn[c].writes
             r == ApplyWrites(ws)
  <1>1. /\ ws \in Seq(Dml) /\ ws # <<>> /\ tables \in TableStates /\ states \in Seq(TableStates)
        /\ Len(states) \in Nat /\ nextSeq \in Nat \ {0}
        /\ proc = "up" /\ phase = "run" /\ sd # "off" /\ lock = "free" /\ UNCHANGED <<snap, inherited>>
    BY DEF TypeInv, EngineTypes, HistoryTypes, LogTypes, Commit, Running, FeedInv, CallInv
  <1>2. r \in Accs /\ ws \in Seq(Ops)
    BY <1>1, ApplyWritesType DEF Ops
  <1>3. tpc = "idle" \/ flushing
    BY <1>1, LockFree
  <1>4. Departures = {} => tables = states[Len(states)]
    BY <1>1 DEF FeedInv, TablesInv, Clean, Departures
  <1>5. CASE r.good
    <2>1. /\ AppendBatchAsync(c, ws) /\ Effect(c, r.tabs) /\ txn' = [txn EXCEPT ![c].st = "wait"]
          /\ inexact' = inexact \union (IF r.upsert THEN {"upsert"} ELSE {})
          /\ UNCHANGED visibleTo
      BY <1>5 DEF Commit
    <2> HIDE DEF r
    <2>2. r.tabs \in TableStates
      BY <1>2 DEF Accs
    <2>3. ASSUME Departures' = {} PROVE Leads(Numbered(ws), r.tabs)
      <3>1. Departures = {} /\ ~r.upsert
        BY <1>1, <2>1, <2>3 DEF Departures
      <3> DEFINE s == Numbered(ws)
      <3>2. s \in Seq(Whole) /\ Len(s) = Len(ws) /\ \A i \in 1..Len(ws) : s[i].data = ws[i]
        <4>1. ws \in Seq(Ops)
          BY <1>2
        <4> HIDE DEF ws
        <4> QED  BY <4>1, NumberedData
      <3> HIDE DEF s, ws
      <3>3. \E g : Course(g, s) /\ g[0] = tables /\ g[Len(s)] = ApplyWrites(ws).tabs
        BY <1>1, <1>5, <3>1, <3>2, AppliedEffective DEF r
      <3> QED  BY <1>4, <3>1, <3>3 DEF Leads, r, s
    <2>4. \A d \in Clients : txn'[d].writes = txn[d].writes
      <3>1. txn \in [Clients -> [st : {"none", "active", "wait", "publish", "ddl"}, writes : Seq(Dml)]]
        BY DEF TypeInv, EngineTypes
      <3> QED  BY <2>1, <3>1
    <2>5. Len(ws) = 1 \/ Len(txn[c].writes) > 1
      <3>1. Len(ws) \in Nat /\ Len(ws) # 0
        BY <1>1
      <3>2. \A n \in Nat : n # 0 => n = 1 \/ n > 1
        OBVIOUS
      <3> QED  BY <3>1, <3>2, Zenon
    <2>6. Takes(c, ws, r.tabs)
      BY <1>1, <1>3, <2>1, <2>3, <2>4, <2>5 DEF Takes, Effect
    <2> HIDE DEF ws
    <2> QED  BY <1>2, <2>2, <2>6, CrashEffect
  <1>6. CASE ~r.good
    <2>1. /\ UNCHANGED <<walVars, txn, states, index, visibleTo>>
          /\ inexact' = inexact \union (IF r.tabs # tables THEN {"partial"} ELSE {})
      BY <1>6 DEF Commit
    <2> HIDE DEF r
    <2>2. UNCHANGED <<proc, file, queue, drained, wpc, promise, tpc, flushing>>
      BY <2>1 DEF walVars, writerVars, queueVars, fileVars, drainVars
    <2>3. Pending' = Pending
      BY <2>2 DEF Pending
    <2>4. LogQuiet
      BY <1>1, <2>1, <2>2, <2>3 DEF LogQuiet
    <2> QED  BY <2>4, CrashQuiet
  <1> QED  BY <1>5, <1>6

LEMMA CrashDdl ==
  ASSUME TypeInv, BaseInv, FeedInv, CrashInv, NEW c \in Clients, NEW t \in Tables,
         CreateTable(c, t) \/ DropTable(c, t)
  PROVE  CrashInv'
  <1>1. PICK op \in {"CREATE_TABLE", "DROP_TABLE"}, e \in {EmptyTable, NoTable} :
          /\ Ddl(c, op, t, [tables EXCEPT ![t] = e]) /\ UNCHANGED <<entries, inexact, inherited>>
          /\ op = "CREATE_TABLE" => tables[t] = NoTable /\ e = EmptyTable
          /\ op = "DROP_TABLE" => tables[t] # NoTable /\ e = NoTable
          /\ phase = "run" /\ sd # "off" /\ lock = "free"
    BY DEF CreateTable, DropTable, Running
  <1> DEFINE w == [op |-> op, table |-> t]
             x == [tables EXCEPT ![t] = e]
             ds == <<w>>
             s == Numbered(ds)
  <1>2. /\ tables \in TableStates /\ nextSeq \in Nat \ {0} /\ states \in Seq(TableStates)
    BY DEF TypeInv, EngineTypes, LogTypes, HistoryTypes
  <1>3. x \in TableStates /\ w \in Ops /\ ds \in Seq(Ops) /\ Len(ds) = 1 /\ ds[1] = w
    BY <1>2 DEF TableStates, Rows, EmptyTable, Ops
  <1>4. /\ AppendBatchAsync(c, ds) /\ Effect(c, x) /\ txn' = [txn EXCEPT ![c].st = "ddl"]
        /\ UNCHANGED <<snap, visibleTo>>
    BY <1>1 DEF Ddl
  <1>5. tpc = "idle" \/ flushing
    BY <1>1, LockFree
  <1>6. w.op = op /\ w.table = t
    OBVIOUS
  <1>7. Effective(tables, w)
    BY <1>1, <1>6 DEF Effective
  <1> HIDE DEF ds
  <1>8. s \in Seq(Whole) /\ Len(s) = 1 /\ s[1].data = w
    <2>1. ds \in Seq(Ops) /\ Len(ds) = 1 /\ ds[1] = w
      BY <1>3
    <2> HIDE DEF w
    <2>2. s \in Seq(Whole) /\ Len(s) = Len(ds) /\ \A i \in 1..Len(ds) : s[i].data = ds[i]
      BY <2>1, NumberedData
    <2> HIDE DEF s
    <2> QED  BY <2>1, <2>2
  <1> HIDE DEF s, w
  <1>9. ReplayRecord(tables, s[1]) = x
    BY <1>1, <1>6, <1>8 DEF ReplayRecord
  <1> HIDE DEF x
  <1>10. Departures' = {} => Leads(s, x)
    <2> SUFFICES ASSUME Departures' = {} PROVE Leads(s, x)
      OBVIOUS
    <2>1. tables = states[Len(states)]
      BY <1>1 DEF FeedInv, TablesInv, Clean, Departures
    <2> DEFINE g == [i \in 0..1 |-> IF i = 0 THEN tables ELSE x]
    <2>2. g[0] = tables /\ g[1] = x /\ g \in [0..1 -> TableStates]
      BY <1>2, <1>3
    <2> HIDE DEF g
    <2>3. \A i \in 1..1 : i = 1 /\ i - 1 = 0
      OBVIOUS
    <2>4. Course(g, s)
      BY <1>7, <1>8, <1>9, <2>2, <2>3 DEF Course
    <2> QED  BY <1>8, <2>1, <2>2, <2>4 DEF Leads
  <1>11. \A d \in Clients : txn'[d].writes = txn[d].writes
    <2>1. txn \in [Clients -> [st : {"none", "active", "wait", "publish", "ddl"}, writes : Seq(Dml)]]
      BY DEF TypeInv, EngineTypes
    <2> QED  BY <1>4, <2>1
  <1>12. Takes(c, ds, x)
    BY <1>1, <1>3, <1>4, <1>5, <1>10, <1>11 DEF Takes, Effect, s
  <1> QED  BY <1>3, <1>12, CrashEffect

\* The end of a life: the file is a part of the log, cut behind a commit unless one has
\* several records.
LEMMA CrashDown ==
  ASSUME NoFailures, TypeInv, BaseInv, CrashInv, Crash \/ Exit
  PROVE  CrashInv'
  <1>1. /\ proc = "up" /\ proc' = "down" /\ Forget /\ UNCHANGED snap /\ inexact \subseteq inexact'
        /\ \/ file' = file
           \/ /\ wpc = "write"
              /\ \E n \in 0..Len(drained.bytes) : file' = file \o SubSeq(drained.bytes, 1, n)
              /\ inexact' = inexact \union (IF CutBatch THEN {"cut"} ELSE {})
    BY CrashFile DEF Exit, Close
  <1>2. UNCHANGED <<states, visibleTo, inherited>>
    BY <1>1 DEF Forget
  <1>3. SUFFICES ASSUME Departures' \subseteq {"cut"} PROVE DownInv'
    BY <1>1 DEF CrashInv, UpInv, DownInv
  <1>4. Departures = {}
    BY <1>1, <1>2, <1>3 DEF Departures, BaseInv, CalmInv
  <1>5. PICK b \in TableStates : \E m \in 0..Len(file), cb, db \in Nat : LogInv(b, m, cb, db)
    BY <1>1, <1>4 DEF CrashInv, UpInv
  <1>6. PICK m \in 0..Len(file), cb \in Nat, db \in Nat : LogInv(b, m, cb, db)
    BY <1>5
  <1>7. /\ EffectiveLog(b, file) /\ LoadSnapshotIfPresent(snap) = Replayed(b, file)[m]
        /\ cb \in visibleTo..Len(states) /\ states[cb] = Replayed(b, file)[Len(file)]
    BY <1>6, FileOfLog
  <1>8. CASE file' = file
    <2>1. FileInv(b, m)'
      BY <1>1, <1>2, <1>7, <1>8 DEF FileInv
    <2> QED  BY <1>8, <2>1 DEF DownInv
  <1>9. CASE file' # file
    <2>1. PICK n \in 0..Len(drained.bytes) : file' = file \o SubSeq(drained.bytes, 1, n)
      BY <1>1, <1>9
    <2>2. wpc = "write" /\ inexact' = inexact \union (IF CutBatch THEN {"cut"} ELSE {})
      BY <1>1, <1>9
    <2> DEFINE p == drained.bytes
               f == file'
               R == Replayed(b, Log)
               i == Len(file)
               u == SubSeq(p, 1, n)
    <2>3. /\ file \in Seq(Whole) /\ p \in Seq(Whole) /\ queue.bytes \in Seq(Whole) /\ Log \in Seq(Whole)
          /\ i \in Nat /\ Len(p) \in Nat /\ i + Len(p) <= Len(Log) /\ Pending = p
          /\ Len(states) \in Nat /\ visibleTo \in 1..Len(states) /\ n \in 0..Len(p)
          /\ Log = file \o p \o queue.bytes /\ Len(Log) \in Nat
      BY <2>2, CrashTypes DEF Pending, Log
    <2>4. u \in Seq(Whole) /\ Len(u) = n /\ \A k \in 1..n : u[k] = p[k]
      <3> HIDE DEF p
      <3>1. \A k \in 1..n : p[k] \in Whole
        BY <2>3
      <3>2. n \in Nat /\ 1 \in Int /\ n \in Int
        BY <2>3
      <3>3. /\ u \in Seq(Whole) /\ Len(u) = IF 1 <= n THEN n - 1 + 1 ELSE 0
            /\ \A k \in 1..(n - 1 + 1) : u[k] = p[1 + k - 1]
        BY <3>1, <3>2, SubSeqProperties
      <3> HIDE DEF u
      <3> QED  BY <3>2, <3>3
    <2> HIDE DEF u
    <2>5. /\ f \in Seq(Whole) /\ Len(f) = i + n /\ Len(f) \in Nat /\ n \in Nat /\ i + n <= Len(Log)
          /\ \A k \in 1..Len(f) : f[k] = Log[k]
      <3>1. f = file \o u
        BY <2>1 DEF u
      <3> HIDE DEF f, p
      <3>2. /\ f \in Seq(Whole) /\ Len(f) = i + n
            /\ \A k \in 1..(i + n) : f[k] = IF k <= i THEN file[k] ELSE u[k - i]
        <4>1. /\ file \o u \in Seq(Whole) /\ Len(file \o u) = Len(file) + Len(u)
              /\ \A k \in 1..(Len(file) + Len(u)) : (file \o u)[k] = IF k <= Len(file) THEN file[k] ELSE u[k - Len(file)]
          BY <2>3, <2>4, ConcatProperties
        <4> QED  BY <2>4, <3>1, <4>1
      <3>3. /\ \A k \in 1..i : Log[k] = file[k]
            /\ \A k \in 1..Len(p) : Log[i + k] = p[k]
        BY <2>3, LogParts
      <3> HIDE DEF i
      <3>4. n \in Nat /\ n <= Len(p) /\ i + n <= Len(Log) /\ i + n \in Nat
        <4>1. n \in Nat /\ n <= Len(p)
          BY <2>3
        <4>2. Len(Log) \in Nat
          BY <2>3
        <4>3. \A x, y, z, l \in Nat : y <= z /\ x + z <= l => x + y <= l /\ x + y \in Nat
          OBVIOUS
        <4>4. i \in Nat /\ Len(p) \in Nat /\ i + Len(p) <= Len(Log)
          BY <2>3
        <4> QED  BY <4>1, <4>2, <4>3, <4>4, Zenon
      <3>5. ASSUME NEW k \in 1..Len(f) PROVE f[k] = Log[k]
        <4>1. CASE k <= i
          <5>1. k \in 1..i /\ k \in 1..(i + n)
            BY <2>3, <3>2, <3>4, <4>1
          <5> QED  BY <3>2, <3>3, <4>1, <5>1
        <4>2. CASE ~(k <= i)
          <5>1. k \in 1..(i + n) /\ k - i \in 1..n /\ k - i \in 1..Len(p) /\ i + (k - i) = k
            BY <2>3, <3>2, <3>4, <4>2
          <5>2. f[k] = u[k - i] /\ u[k - i] = p[k - i] /\ Log[i + (k - i)] = p[k - i]
            BY <2>4, <3>2, <3>3, <4>2, <5>1
          <5> QED  BY <5>1, <5>2
        <4> QED  BY <4>1, <4>2
      <3> QED  BY <3>2, <3>4, <3>5
    <2> HIDE DEF f
    <2>6. EffectiveLog(b, f) /\ \A k \in 0..Len(f) : Replayed(b, f)[k] = R[k]
      <3>1. EffectiveLog(b, Log) /\ Len(f) <= Len(Log)
        BY <1>6, <2>5 DEF LogInv
      <3> QED  BY <2>3, <2>5, <3>1, LogShortened
    <2>7. m \in 0..Len(f) /\ Len(f) \in 0..Len(f)
      BY <2>3, <2>5
    <2>8. LoadSnapshotIfPresent(snap) = Replayed(b, f)[m]
      BY <1>6, <2>6, <2>7 DEF LogInv
    <2>9. ASSUME Departures' = {} PROVE \E k \in visibleTo..Len(states) : states[k] = Replayed(b, f)[Len(f)]
      <3>1. ~CutBatch
        BY <2>2, <2>9 DEF Departures
      <3>2. ~Multi(drained.done, txn)
        BY <1>9, <3>1 DEF CutBatch, Multi
      <3>3. /\ Stretch(R, i, i + Len(p), cb, db, states, Multi(drained.done, txn)) /\ visibleTo <= cb
        BY <1>6, <2>3 DEF LogInv
      <3> HIDE DEF R, i, p
      <3>4. /\ db - cb = (i + Len(p)) - i /\ \A k \in 0..((i + Len(p)) - i) : states[cb + k] = R[i + k]
            /\ cb \in 1..Len(states) /\ db \in cb..Len(states)
        BY <3>2, <3>3 DEF Stretch
      <3>5. n \in 0..((i + Len(p)) - i) /\ cb + n \in visibleTo..Len(states)
        <4>1. n \in 0..Len(p) /\ (i + Len(p)) - i = Len(p)
          BY <2>3 DEF p
        <4>2. cb + n <= db /\ cb + n \in Nat
          BY <2>3, <3>4, <4>1
        <4>3. visibleTo <= cb + n
          BY <2>3, <2>5, <3>3, <4>2
        <4> QED  BY <2>3, <3>4, <4>1, <4>2, <4>3
      <3>6. states[cb + n] = R[Len(f)]
        BY <2>5, <3>4, <3>5
      <3> QED  BY <2>6, <2>7, <3>5, <3>6
    <2>10. FileInv(b, m)'
      BY <1>1, <1>2, <2>6, <2>8, <2>9 DEF FileInv, f
    <2> QED  BY <2>7, <2>10 DEF DownInv, f
  <1> QED  BY <1>8, <1>9

LEMMA CrashBoot ==
  ASSUME NoFailures, TypeInv, BaseInv, CrashInv, Boot
  PROVE  CrashInv'
  <1> USE DEF drainVars
  <1>1. /\ phase = "down" /\ proc' = "up" /\ wpc' = "wait" /\ file' = file
        /\ UNCHANGED <<queue, drained, promise, tpc, flushing, txn, snap>>
        /\ inexact' = {} /\ inherited' = IF file' = <<>> THEN {} ELSE Departures \ {"cut"}
        /\ states' = <<Recovered(snap, file')>> /\ visibleTo' = 1 /\ index' = [c \in Clients |-> 1]
    BY DEF Boot, Initialize, WriteMagicIfEmpty, NoFailures
  <1>2. proc = "down" /\ queue = Nothing /\ drained = Nothing /\ tpc = "idle" /\ file \in Seq(Whole)
    BY <1>1 DEF BaseInv, CalmInv, LockInv
  <1>3. SUFFICES ASSUME Departures' = {} PROVE UpInv'
    BY <1>1 DEF CrashInv, UpInv, DownInv
  <1>4. \E b \in TableStates : \E m \in 0..Len(file) :
          EffectiveLog(b, file) /\ LoadSnapshotIfPresent(snap) = Replayed(b, file)[m]
    <2>1. CASE file = <<>>
      <3> DEFINE b == LoadSnapshotIfPresent(snap)
      <3>1. b \in TableStates
        BY LoadType DEF TypeInv, EngineTypes
      <3> HIDE DEF b
      <3>2. file \in Seq(Whole) /\ Len(file) = 0 /\ 1..0 = {} /\ 0 \in 0..0
        BY <1>2, <2>1
      <3>3. Replayed(b, file)[0] = b
        BY <3>1, <3>2, ReplayedSteps
      <3>4. EffectiveLog(b, file)
        BY <3>2 DEF EffectiveLog
      <3> QED  BY <3>1, <3>2, <3>3, <3>4 DEF b
    <2>2. CASE file # <<>>
      <3>1. Departures \subseteq {"cut"}
        BY <1>1, <1>3, <2>2 DEF Departures
      <3> QED  BY <1>2, <3>1 DEF CrashInv, DownInv, FileInv
    <2> QED  BY <2>1, <2>2
  <1>5. PICK b \in TableStates : \E m \in 0..Len(file) :
          EffectiveLog(b, file) /\ LoadSnapshotIfPresent(snap) = Replayed(b, file)[m]
    BY <1>4
  <1>6. PICK m \in 0..Len(file) : EffectiveLog(b, file) /\ LoadSnapshotIfPresent(snap) = Replayed(b, file)[m]
    BY <1>5
  <1> DEFINE R == Replayed(b, file)
             i == Len(file)
  <1>7. Recovered(snap, file) = R[i]
    BY <1>2, <1>6, RecoveredIs
  <1>8. R[i] \in TableStates /\ i \in Nat
    <2>1. R \in [0..i -> TableStates] /\ i \in Nat
      BY <1>2, ReplayedSteps
    <2> HIDE DEF R, i
    <2> QED  BY <2>1
  <1>9. Pending' = <<>> /\ queue'.bytes = <<>> /\ Log' = file
    <2>1. file \o <<>> = file
      BY <1>2, ConcatEmptySeq
    <2> QED  BY <1>1, <1>2, <2>1 DEF Pending, Nothing, Log
  <1>10. Len(file)' = i /\ Len(file)' + Len(Pending)' = i /\ Len(Log)' = i
    BY <1>1, <1>8, <1>9
  <1>11. states' \in Seq(TableStates) /\ Len(states') = 1 /\ states'[1] = R[i]
    <2> HIDE DEF R, i
    <2> QED  BY <1>1, <1>7, <1>8
  <1>12. \A mu : Stretch(R, i, i, 1, 1, states', mu)
    <2> DEFINE st == states'
    <2> HIDE DEF st, R, i
    <2>1. st \in Seq(TableStates) /\ 1 \in 1..Len(st) /\ st[1] = R[i] /\ i \in Nat
      BY <1>8, <1>11 DEF st
    <2>2. \A mu : Stretch(R, i, i, 1, 1, st, mu)
      BY <2>1, StretchPoint
    <2> QED  BY <2>2 DEF st
  <1>13. LogInv(b, m, 1, 1)'
    <2>1. \A c \in Clients : index'[c] = 1
      BY <1>1
    <2>2. Replayed(b, Log)' = R /\ LoadSnapshotIfPresent(snap)' = LoadSnapshotIfPresent(snap)
      BY <1>1, <1>9
    <2>3. EffectiveLog(b, Log)'
      BY <1>6, <1>9
    <2>4. LoadSnapshotIfPresent(snap) = R[m]
      BY <1>6
    <2> HIDE DEF R, i
    <2> QED  BY <1>1, <1>10, <1>11, <1>12, <2>1, <2>2, <2>3, <2>4 DEF LogInv
  <1>14. SnapshotInv'
    BY <1>1, <1>2 DEF SnapshotInv
  <1>15. m \in 0..Len(file')
    BY <1>1
  <1> QED  BY <1>13, <1>14, <1>15 DEF UpInv


LEMMA CrashInit ==
  ASSUME Init
  PROVE  CrashInv
  <1> DEFINE b == BootState
  <1>1. /\ proc = "up" /\ file = <<>> /\ tpc = "idle" /\ wpc = "wait" /\ queue = Nothing /\ drained = Nothing
        /\ visibleTo = 1 /\ snap = b /\ states = <<b>> /\ index = [c \in Clients |-> 1]
        /\ b \in TableStates /\ b # NoSnapshot
    BY NoTablesType, StorageConstants DEF Init, WALInit
  <1> HIDE DEF b
  <1>2. Len(states) = 1 /\ states[1] = b /\ states \in Seq(TableStates) /\ 1 \in 1..Len(states)
    BY <1>1
  <1>3. Pending = <<>> /\ queue.bytes = <<>> /\ Log = <<>>
    <2>1. <<>> \in Seq(Whole) /\ <<>> \o <<>> = <<>>
      OBVIOUS
    <2> QED  BY <1>1, <2>1 DEF Pending, Log, Nothing
  <1>4. Len(file) = 0 /\ Len(file) + Len(Pending) = 0 /\ Len(Log) = 0
    BY <1>1, <1>3
  <1>5. EffectiveLog(b, <<>>) /\ Replayed(b, <<>>)[0] = b
    <2>1. <<>> \in Seq(Whole) /\ 1..Len(<<>>) = {}
      OBVIOUS
    <2> QED  BY <1>1, <2>1, ReplayedSteps DEF EffectiveLog
  <1>6. \A mu : Stretch(Replayed(b, <<>>), 0, 0, 1, 1, states, mu)
    <2> DEFINE R == Replayed(b, <<>>)
    <2>1. states[1] = R[0]
      BY <1>2, <1>5
    <2>2. ASSUME NEW mu PROVE Stretch(R, 0, 0, 1, 1, states, mu)
      <3> HIDE DEF R
      <3>1. 0 \in Nat
        OBVIOUS
      <3> QED  BY <1>2, <2>1, <3>1, StretchPoint
    <2> QED  BY <2>2
  <1>7. LogInv(b, 0, 1, 1)
    <2>1. LoadSnapshotIfPresent(snap) = b
      BY <1>1 DEF LoadSnapshotIfPresent
    <2>2. visibleTo <= 1 /\ \A c \in Clients : index[c] <= 1
      BY <1>1
    <2> QED  BY <1>1, <1>2, <1>3, <1>4, <1>5, <1>6, <2>1, <2>2 DEF LogInv
  <1>8. SnapshotInv
    BY <1>1 DEF SnapshotInv
  <1>9. 0 \in 0..Len(file) /\ 1 \in Nat
    BY <1>4
  <1>10. UpInv
    BY <1>1, <1>7, <1>8, <1>9 DEF UpInv
  <1> QED  BY <1>1, <1>10 DEF CrashInv, DownInv

-----------------------------------------------------------------------------
(***************************************************************************)
(* Crash consistency.                                                       *)
(***************************************************************************)
LEMMA BaseNext ==
  ASSUME NoFailures, TypeInv, BaseInv, FeedInv, [Next]_<<vars, workload>>
  PROVE  BaseInv'
  <1>1. ASSUME NEW c \in Clients, Client(c) \/ Progress(c) PROVE BaseInv'
    BY <1>1, BaseClient, BaseProgress
  <1>2. CASE WriterStep
    BY <1>2, BaseWriter
  <1>3. CASE Checkpoint \/ SnapshotStep \/ WriteBack \/ ShutdownBegin
    BY <1>3, BaseBackground
  <1>4. CASE Shutdown
    BY <1>4, BaseBackground, BaseDown DEF Shutdown
  <1>5. CASE Crash \/ Boot \/ Recovery
    BY <1>5, BaseDown, BaseBoot, BaseRecovery
  <1>6. CASE UNCHANGED <<vars, workload>>
    BY <1>6, BaseBackground
  <1> QED  BY <1>1, <1>2, <1>3, <1>4, <1>5, <1>6 DEF Next, Step

LEMMA CrashNext ==
  ASSUME NoFailures, TypeInv, BaseInv, FeedInv, CrashInv, [Next]_<<vars, workload>>
  PROVE  CrashInv'
  <1>1. ASSUME NEW c \in Clients, Client(c) PROVE CrashInv'
    BY <1>1, CrashClient, CrashDdl DEF Client
  <1>2. ASSUME NEW c \in Clients, Progress(c) PROVE CrashInv'
    BY <1>2, CrashCommit, CrashAnswer, CrashClient DEF Progress
  <1>3. CASE WriterStep
    <2>1. ~WriterSetFatal
      BY DEF WriterSetFatal, BaseInv, CalmInv
    <2>2. WriterDrain \/ WriterWrite \/ WriterSync \/ WriterAck \/ WriterExit
      BY <1>3, <2>1 DEF WriterStep, Writer
    <2> QED  BY <1>3, <2>2, CrashDrain, CrashWrite, CrashBackground
  <1>4. CASE SnapshotStep
    <2>1. DrainEnqueue \/ DrainWait \/ TruncateReset
      BY <1>4 DEF SnapshotStep
    <2> QED  BY <1>4, <2>1, CrashBackground, CrashReset
  <1>5. CASE Checkpoint \/ WriteBack \/ ShutdownBegin
    BY <1>5, CrashSnapshot, CrashBackground
  <1>6. CASE Shutdown
    BY <1>6, CrashSnapshot, CrashBackground, CrashDown DEF Shutdown
  <1>7. CASE Crash \/ Boot \/ Recovery
    BY <1>7, CrashDown, CrashBoot, CrashBackground
  <1>8. CASE UNCHANGED <<vars, workload>>
    BY <1>8, CrashBackground
  <1> QED  BY <1>1, <1>2, <1>3, <1>4, <1>5, <1>6, <1>7, <1>8 DEF Next, Step

LEMMA CrashInvariance == NoFailures /\ Spec => [](TypeInv /\ FeedInv /\ BaseInv /\ CrashInv)
  <1> SUFFICES ASSUME NoFailures PROVE Spec => [](TypeInv /\ FeedInv /\ BaseInv /\ CrashInv)
    OBVIOUS
  <1>1. Init => BaseInv /\ CrashInv
    BY BaseInit, CrashInit
  <1>2. TypeInv /\ FeedInv /\ BaseInv /\ CrashInv /\ [Next]_<<vars, workload>> => BaseInv' /\ CrashInv'
    BY BaseNext, CrashNext
  <1> QED  BY <1>1, <1>2, TypeInvariance, FeedInvariance, PTL DEF Spec

\* What recovery would rebuild at any moment is the result of a prefix of the commits,
\* each of them whole, that contains every commit and DDL call a caller was told of:
\* group commit, the snapshot that Truncate waits for, shutdown, recovery and crashes
\* of the process at any point of them, for any tables, clients and transactions, as
\* long as no system call fails and the log says what was done to the memtables.
THEOREM CrashConsistent == NoFailures /\ Admitted = {} /\ Spec => []CrashConsistency
  <1> SUFFICES ASSUME NoFailures, Admitted = {} PROVE Spec => []CrashConsistency
    OBVIOUS
  <1>1. TypeInv /\ BaseInv /\ CrashInv => CrashConsistency
    BY CrashInvIsEnough DEF CrashConsistency
  <1> QED  BY <1>1, CrashInvariance, PTL

-----------------------------------------------------------------------------
(***************************************************************************)
(* What is published is of commits whose callers were told.                 *)
(***************************************************************************)
ToldInv ==
  /\ \A c \in Clients : \A i \in DOMAIN events[c] :
       IF txn[c].st = "wait" THEN events[c][i].commit = index[c] ELSE events[c][i].commit <= visibleTo
  /\ \A j \in DOMAIN published : published[j].commit <= visibleTo

LEMMA CommitNumbers ==
  ASSUME NEW s \in Seq(Events)
  PROVE  \A i \in DOMAIN s : s[i].commit \in Nat
  <1>1. \A e \in Events : e.commit \in Nat
    BY DEF Events
  <1>2. \A i \in DOMAIN s : s[i] \in Events
    OBVIOUS
  <1> QED  BY <1>1, <1>2

LEMMA ToldCommit ==
  ASSUME TypeInv, FeedInv, ToldInv, NEW c \in Clients, Commit(c)
  PROVE  ToldInv'
  <1> DEFINE ws == txn[c].writes
             r == ApplyWrites(ws)
  <1>1. /\ ws \in Seq(Dml) /\ tables \in TableStates /\ Len(states) \in Nat
        /\ txn \in [Clients -> [st : {"none", "active", "wait", "publish", "ddl"}, writes : Seq(Dml)]]
        /\ index \in [Clients -> 1..Len(states)] /\ events \in [Clients -> Seq(Events)]
    BY DEF TypeInv, EngineTypes, HistoryTypes, FeedInv, CallInv
  <1>2. UNCHANGED <<published, visibleTo>>
    BY DEF Commit
  <1>3. CASE r.good
    <2>1. /\ index' = [index EXCEPT ![c] = Len(states) + 1] /\ events' = [events EXCEPT ![c] = r.evs]
          /\ txn' = [txn EXCEPT ![c].st = "wait"]
      BY <1>3 DEF Commit, Effect
    <2>2. /\ r.tabs \in TableStates /\ r.evs \in Seq(Events) /\ Len(r.evs) = Len(ws)
          /\ \A j \in 1..Len(ws) : r.evs[j].commit = Len(states) + 1 /\ r.evs[j].nth = j
          /\ \A t \in Tables, k \in Keys :
               tables[t] # NoTable /\ r.tabs[t][k] # tables[t][k]
               => \E j \in 1..Len(ws) : /\ r.evs[j].table = t /\ r.evs[j].key = k
                                        /\ r.evs[j].new = r.tabs[t][k]
      BY <1>1, <1>3, AppliedAll
    <2> DEFINE evs == r.evs
    <2>3. events' = [events EXCEPT ![c] = evs] /\ \A j \in DOMAIN evs : evs[j].commit = Len(states) + 1
      <3> HIDE DEF r, ws
      <3> QED  BY <2>1, <2>2
    <2> HIDE DEF evs
    <2>4. /\ \A d \in Clients \ {c} : txn'[d] = txn[d] /\ events'[d] = events[d] /\ index'[d] = index[d]
          /\ txn'[c].st = "wait" /\ events'[c] = evs /\ index'[c] = Len(states) + 1
      BY <1>1, <2>1, <2>3
    <2> QED  BY <1>2, <2>3, <2>4 DEF ToldInv
  <1>4. CASE ~r.good
    <2>1. UNCHANGED <<txn, events, index>>
      BY <1>4 DEF Commit
    <2> QED  BY <1>2, <2>1 DEF ToldInv
  <1> QED  BY <1>3, <1>4

LEMMA ToldAnswer ==
  ASSUME TypeInv, FeedInv, ToldInv, NEW c \in Clients, Durable(c) \/ NotDurable(c) \/ DdlReturns(c)
  PROVE  ToldInv'
  <1>1. /\ txn \in [Clients -> [st : {"none", "active", "wait", "publish", "ddl"}, writes : Seq(Dml)]]
        /\ index \in [Clients -> 1..Len(states)] /\ events \in [Clients -> Seq(Events)]
        /\ visibleTo \in Nat /\ Len(states) \in Nat /\ UNCHANGED published /\ published \in Seq(Events)
    BY DEF TypeInv, EngineTypes, HistoryTypes, FeedInv, CallInv, Durable, NotDurable, DdlReturns
  <1>2. \A x, y, z \in Nat : x <= y /\ y <= z => x <= z
    OBVIOUS
  <1>3. /\ \A d \in Clients : \A i \in DOMAIN events[d] : events[d][i].commit \in Nat
        /\ \A j \in DOMAIN published : published[j].commit \in Nat
    BY <1>1, CommitNumbers
  <1>4. CASE Durable(c) \/ DdlReturns(c)
    <2>1. Told(c) /\ UNCHANGED events
      BY <1>4 DEF Durable, DdlReturns
    <2>2. visibleTo' \in Nat /\ visibleTo <= visibleTo' /\ index[c] <= visibleTo'
      BY <1>1, <2>1 DEF Told
    <2>3. \A d \in Clients \ {c} : txn'[d] = txn[d] /\ index'[d] = index[d]
      BY <1>1, <1>4, <2>1 DEF Told, Durable, DdlReturns
    <2>4. txn'[c].st \in {"none", "publish"}
      BY <1>1, <1>4 DEF Durable, DdlReturns, Idle
    <2>5. \A i \in DOMAIN events[c] : events[c][i].commit <= visibleTo'
      <3>1. \A i \in DOMAIN events[c] : events[c][i].commit = index[c] \/ events[c][i].commit <= visibleTo
        BY DEF ToldInv
      <3> QED  BY <1>1, <1>2, <1>3, <2>2, <3>1
    <2>6. \A d \in Clients \ {c} : \A i \in DOMAIN events'[d] :
            IF txn'[d].st = "wait" THEN events'[d][i].commit = index'[d] ELSE events'[d][i].commit <= visibleTo'
      BY <1>1, <1>2, <1>3, <2>1, <2>2, <2>3 DEF ToldInv
    <2>7. \A j \in DOMAIN published' : published'[j].commit <= visibleTo'
      BY <1>1, <1>2, <1>3, <2>2 DEF ToldInv
    <2> QED  BY <2>1, <2>4, <2>5, <2>6, <2>7 DEF ToldInv
  <1>5. CASE NotDurable(c)
    <2>1. /\ UNCHANGED <<index, visibleTo>> /\ txn' = [txn EXCEPT ![c].st = "active"]
          /\ events' = [events EXCEPT ![c] = <<>>]
      BY <1>5 DEF NotDurable
    <2>2. /\ \A d \in Clients \ {c} : txn'[d] = txn[d] /\ events'[d] = events[d]
          /\ DOMAIN events'[c] = {}
      BY <1>1, <2>1
    <2> QED  BY <1>1, <2>1, <2>2 DEF ToldInv
  <1> QED  BY <1>4, <1>5

LEMMA ToldPublish ==
  ASSUME TypeInv, FeedInv, ToldInv, NEW c \in Clients, Publish(c)
  PROVE  ToldInv'
  <1> USE DEF ghosts
  <1> DEFINE es == events[c]
  <1>1. /\ txn \in [Clients -> [st : {"none", "active", "wait", "publish", "ddl"}, writes : Seq(Dml)]]
        /\ events \in [Clients -> Seq(Events)] /\ published \in Seq(Events) /\ es # <<>> /\ es \in Seq(Events)
    BY DEF TypeInv, EngineTypes, FeedInv, CallInv, Publish
  <1>2. /\ UNCHANGED <<index, visibleTo>> /\ txn[c].st = "publish"
        /\ published' = Append(published, Head(es)) /\ events' = [events EXCEPT ![c] = Tail(es)]
        /\ txn' = IF Len(es) = 1 THEN [txn EXCEPT ![c] = Idle] ELSE txn
    BY DEF Publish
  <1>3. \A i \in DOMAIN es : es[i].commit <= visibleTo
    BY <1>2 DEF ToldInv
  <1>4. /\ \A d \in Clients \ {c} : txn'[d] = txn[d] /\ events'[d] = events[d]
        /\ txn'[c].st # "wait" /\ events'[c] = Tail(es)
    BY <1>1, <1>2 DEF Idle
  <1> HIDE DEF es
  <1>5. Head(es) = es[1] /\ 1 \in DOMAIN es /\ \A i \in DOMAIN Tail(es) : i + 1 \in DOMAIN es /\ Tail(es)[i] = es[i + 1]
    BY <1>1
  <1>6. \A j \in DOMAIN published' : published'[j] = Head(es) \/ (j \in DOMAIN published /\ published'[j] = published[j])
    BY <1>1, <1>2, <1>5
  <1> QED  BY <1>2, <1>3, <1>4, <1>5, <1>6 DEF ToldInv

LEMMA ToldNext ==
  ASSUME TypeInv, FeedInv, FeedInv', ToldInv, [Next]_<<vars, workload>>
  PROVE  ToldInv'
  <1> USE DEF engineVars, ghosts
  <1>1. txn \in [Clients -> [st : {"none", "active", "wait", "publish", "ddl"}, writes : Seq(Dml)]]
        /\ index \in [Clients -> 1..Len(states)]
    BY DEF TypeInv, EngineTypes, HistoryTypes
  <1>2. ASSUME NEW c \in Clients, Client(c) PROVE ToldInv'
    <2>1. UNCHANGED <<events, published, visibleTo>>
      BY <1>2 DEF Client, Stage, Rollback, CreateTable, DropTable, Ddl
    <2>2. txn[c].st # "wait" /\ txn'[c].st # "wait"
      <3>1. CASE Rollback(c) \/ \E w \in workload.writes : Stage(c, w)
        BY <1>1, <3>1 DEF Stage, Rollback, Idle
      <3>2. CASE \E t \in Tables : CreateTable(c, t) \/ DropTable(c, t)
        <4>1. txn[c].st = "none" /\ txn' = [txn EXCEPT ![c].st = "ddl"]
          BY <3>2 DEF CreateTable, DropTable, Ddl
        <4> QED  BY <1>1, <4>1
      <3> QED  BY <1>2, <3>1, <3>2 DEF Client
    <2>3. \A d \in Clients \ {c} : txn'[d] = txn[d] /\ index'[d] = index[d]
      BY <1>1, <1>2 DEF Client, Stage, Rollback, CreateTable, DropTable, Ddl, Effect
    <2> QED  BY <2>1, <2>2, <2>3 DEF ToldInv
  <1>3. ASSUME NEW c \in Clients, Progress(c) PROVE ToldInv'
    BY <1>3, ToldCommit, ToldAnswer, ToldPublish DEF Progress
  <1>4. CASE UNCHANGED <<events, published, txn, index, visibleTo>>
    BY <1>4 DEF ToldInv
  <1>5. CASE phase' # "run"
    <2>1. published' = <<>> /\ \A c \in Clients : events'[c] = <<>>
      BY <1>5 DEF FeedInv, CallInv
    <2> QED  BY <2>1 DEF ToldInv
  <1>6. CASE WriterStep \/ Checkpoint \/ SnapshotStep \/ WriteBack \/ ShutdownBegin \/ UNCHANGED <<vars, workload>>
    BY <1>4, <1>6 DEF WriterStep, Checkpoint, WriteSnapshot, SnapshotStep, WriteBack, ShutdownBegin, vars
  <1>7. CASE Shutdown
    BY <1>4, <1>5, <1>7 DEF Shutdown, ShutdownSnapshot, WriteSnapshot, ShutdownFlush, ShutdownClear, StopStep, Exit, Forget
  <1>8. CASE Crash \/ Boot
    BY <1>5, <1>8 DEF Crash, Forget, Boot
  <1>9. CASE Recovery
    BY <1>4, <1>5, <1>9 DEF Recovery, Replay, RecoveryComplete
  <1> QED  BY <1>2, <1>3, <1>6, <1>7, <1>8, <1>9 DEF Next, Step

LEMMA ToldInvariance == Spec => []ToldInv
  <1>1. Init => ToldInv
    BY DEF Init, ToldInv
  <1>2. TypeInv /\ FeedInv /\ FeedInv' /\ ToldInv /\ [Next]_<<vars, workload>> => ToldInv'
    BY ToldNext
  <1> QED  BY <1>1, <1>2, TypeInvariance, FeedInvariance, PTL DEF Spec

\* Commit, "subscribers never observe a write a later crash could lose": what recovery
\* would rebuild contains every commit of which an event was published; for any
\* tables, clients, transactions, checkpoints and crashes of the process, as long as
\* no system call fails and the log says what was done to the memtables.
THEOREM PublishedSurvives == NoFailures /\ Admitted = {} /\ Spec => []PublishedNeverLost
  <1> SUFFICES ASSUME NoFailures, Admitted = {} PROVE Spec => []PublishedNeverLost
    OBVIOUS
  <1>1. TypeInv /\ FeedInv /\ BaseInv /\ CrashInv /\ ToldInv => PublishedNeverLost
    <2> SUFFICES ASSUME TypeInv, FeedInv, BaseInv, CrashInv, ToldInv, Departures = {}
                 PROVE  \E i \in DOMAIN states : /\ Recovered(snap, file) = states[i]
                                                 /\ \A j \in DOMAIN published : published[j].commit <= i
      BY DEF PublishedNeverLost
    <2>1. PICK i \in visibleTo..Len(states) : Recovered(snap, file) = states[i]
      BY CrashInvIsEnough DEF RecoversPrefix
    <2>2. /\ states \in Seq(TableStates) /\ visibleTo \in 1..Len(states) /\ published \in Seq(Events)
          /\ Len(states) \in Nat
      BY DEF TypeInv, HistoryTypes, FeedInv, CallInv
    <2>3. i \in DOMAIN states /\ visibleTo <= i /\ i \in Nat /\ visibleTo \in Nat
      BY <2>2
    <2>4. \A j \in DOMAIN published : published[j].commit <= visibleTo /\ published[j].commit \in Nat
      BY <2>2, CommitNumbers DEF ToldInv
    <2>5. \A j \in DOMAIN published : published[j].commit <= i
      BY <2>3, <2>4
    <2> QED  BY <2>1, <2>3, <2>5
  <1> QED  BY <1>1, CrashInvariance, ToldInvariance, PTL

-----------------------------------------------------------------------------
(***************************************************************************)
(* The engine is a DurableStore.  The state that callers and subscribers see *)
(* is compared before and after each step.                                  *)
(***************************************************************************)
View == IF Running THEN tables ELSE NoSnapshot
FeedCommits == {published[i].commit : i \in DOMAIN published}
Exact == Departures \subseteq Admitted

\* A step of the store, or none.
StoreStep == [Store!Next]_Store!vars

LEMMA StoreSame ==
  ASSUME UNCHANGED <<View, states, visibleTo, FeedCommits>>, Exact' = Exact
  PROVE  StoreStep
  BY DEF StoreStep, Store!vars, View, FeedCommits, Exact

LEMMA StoreCommit ==
  ASSUME View # NoSnapshot, NEW x \in TableStates, View' = x, states' = Append(states, x),
         Exact' = Exact \/ ~Exact', UNCHANGED <<visibleTo, FeedCommits>>
  PROVE  StoreStep
  BY DEF StoreStep, Store!Next, Store!Commit, View, FeedCommits, Exact

LEMMA StoreAcknowledge ==
  ASSUME visibleTo' \in (visibleTo + 1)..Len(states), Exact' = Exact,
         UNCHANGED <<View, states, FeedCommits>>
  PROVE  StoreStep
  BY DEF StoreStep, Store!Next, Store!Acknowledge, View, FeedCommits, Exact

LEMMA StorePublish ==
  ASSUME NEW n \in 2..visibleTo, FeedCommits' = FeedCommits \union {n}, Exact' = Exact,
         UNCHANGED <<View, states, visibleTo>>
  PROVE  StoreStep
  BY DEF StoreStep, Store!Next, Store!Publish, View, FeedCommits, Exact

LEMMA StoreDepart ==
  ASSUME ~Exact', View' \in {View} \union TableStates, UNCHANGED <<states, visibleTo, FeedCommits>>
  PROVE  StoreStep
  BY DEF StoreStep, Store!Next, Store!Depart, View, FeedCommits, Exact

LEMMA StoreStop ==
  ASSUME View' = NoSnapshot, FeedCommits' \in {FeedCommits, {}}, Exact' = Exact \/ ~Exact',
         UNCHANGED <<states, visibleTo>>
  PROVE  StoreStep
  BY DEF StoreStep, Store!Next, Store!Stop, View, FeedCommits, Exact

LEMMA StoreRecover ==
  ASSUME View = NoSnapshot, View' = NoSnapshot, FeedCommits = {}, FeedCommits' = {},
         NEW x \in TableStates, states' = <<x>>, visibleTo' = 1,
         Exact => \E i \in visibleTo..Len(states) : states[i] = x,
         Exact' = Exact \/ Exact'
  PROVE  StoreStep
  BY DEF StoreStep, Store!Next, Store!Recover, View, FeedCommits, Exact

LEMMA StoreOpen ==
  ASSUME View = NoSnapshot, View' \in TableStates, Exact => View' = states[Len(states)],
         UNCHANGED <<states, visibleTo, FeedCommits>>, Exact' = Exact
  PROVE  StoreStep
  BY DEF StoreStep, Store!Next, Store!Open, View, FeedCommits, Exact

\* Staging, rolling back, DDL.
LEMMA ClientIsStore ==
  ASSUME TypeInv, NEW c \in Clients, Client(c)
  PROVE  StoreStep
  <1> USE DEF engineVars, ghosts, walVars
  <1>1. CASE Rollback(c) \/ \E w \in workload.writes : Stage(c, w)
    <2>1. UNCHANGED <<proc, phase, sd, tables, states, visibleTo, published, inexact, inherited>>
      BY <1>1 DEF Rollback, Stage
    <2>2. UNCHANGED <<View, states, visibleTo, FeedCommits>> /\ Exact' = Exact
      BY <2>1 DEF View, Running, FeedCommits, Exact, Departures
    <2> QED  BY <2>2, StoreSame
  <1>2. CASE \E t \in Tables : CreateTable(c, t) \/ DropTable(c, t)
    <2>1. PICK t \in Tables, e \in {EmptyTable, NoTable}, op \in {"CREATE_TABLE", "DROP_TABLE"} :
            /\ Ddl(c, op, t, [tables EXCEPT ![t] = e]) /\ UNCHANGED <<inexact, inherited>> /\ Running
      BY <1>2 DEF CreateTable, DropTable
    <2> DEFINE x == [tables EXCEPT ![t] = e]
    <2>2. tables \in TableStates /\ x \in TableStates
      BY DEF TypeInv, EngineTypes, TableStates, EmptyTable, Rows
    <2>3. /\ tables' = x /\ states' = Append(states, x)
          /\ UNCHANGED <<proc, phase, sd, visibleTo, published, inexact, inherited>>
      BY <2>1 DEF Ddl, Effect, AppendBatchAsync
    <2> HIDE DEF x
    <2>4. View # NoSnapshot /\ View' = x
      BY <2>1, <2>2, <2>3, StorageConstants DEF View, Running
    <2>5. UNCHANGED <<visibleTo, FeedCommits>> /\ Exact' = Exact
      BY <2>3 DEF FeedCommits, Exact, Departures
    <2> QED  BY <2>2, <2>3, <2>4, <2>5, StoreCommit
  <1> QED  BY <1>1, <1>2 DEF Client

LEMMA CommitIsStore ==
  ASSUME TypeInv, FeedInv, Admitted = {}, NEW c \in Clients, Commit(c)
  PROVE  StoreStep
  <1> DEFINE ws == txn[c].writes
             r == ApplyWrites(ws)
             x == r.tabs
  <1>1. /\ ws \in Seq(Dml) /\ tables \in TableStates /\ Len(states) \in Nat /\ Running
    BY DEF TypeInv, EngineTypes, HistoryTypes, Commit
  <1>2. r \in Accs
    BY <1>1, ApplyWritesType
  <1>3. x \in TableStates
    BY <1>2 DEF Accs
  <1>4. /\ UNCHANGED <<phase, sd, published, visibleTo, inherited>>
        /\ tables' = x /\ inexact \subseteq inexact'
    BY DEF Commit, Effect
  <1>5. UNCHANGED proc
    BY DEF Commit, AppendBatchAsync, walVars
  <1>6. View = tables /\ View' = x /\ View # NoSnapshot /\ FeedCommits' = FeedCommits
    BY <1>1, <1>4, <1>5, StorageConstants DEF View, Running, FeedCommits
  <1>7. CASE r.good
    <2>1. states' = Append(states, x)
      BY <1>7 DEF Commit, Effect
    <2>2. Exact' => Exact
      BY <1>4 DEF Exact, Departures
    <2>3. Exact' = Exact \/ ~Exact'
      BY <2>2 DEF Exact
    <2> HIDE DEF x
    <2> QED  BY <1>3, <1>4, <1>6, <2>1, <2>3, StoreCommit
  <1>8. CASE ~r.good
    <2>1. UNCHANGED states /\ inexact' = inexact \union (IF x # tables THEN {"partial"} ELSE {})
      BY <1>8 DEF Commit
    <2> HIDE DEF x
    <2>2. CASE x = tables
      <3>1. inexact' = inexact
        BY <2>1, <2>2
      <3>2. Exact' = Exact
        BY <1>4, <3>1 DEF Exact, Departures
      <3> QED  BY <1>4, <1>6, <2>1, <2>2, <3>2, StoreSame
    <2>3. CASE x # tables
      <3>1. ~Exact'
        BY <2>1, <2>3 DEF Exact, Departures
      <3> QED  BY <1>3, <1>4, <1>6, <2>1, <3>1, StoreDepart
    <2> QED  BY <2>2, <2>3
  <1> QED  BY <1>7, <1>8

LEMMA AnswerIsStore ==
  ASSUME TypeInv, BaseInv, NEW c \in Clients, Durable(c) \/ NotDurable(c) \/ DdlReturns(c)
  PROVE  StoreStep
  <1>1. Get(c, "ok") /\ ~NotDurable(c)
    BY DEF Durable, NotDurable, DdlReturns, Get, BaseInv, CalmInv
  <1>2. promise[c] # "failed"
    BY DEF BaseInv, CalmInv
  <1>3. Told(c) /\ UNCHANGED <<proc, phase, sd, tables, published, states, inexact, inherited>>
    BY <1>1, <1>2 DEF Durable, DdlReturns, Get
  <1>4. UNCHANGED <<View, FeedCommits>> /\ Exact' = Exact
    BY <1>3 DEF View, Running, FeedCommits, Exact, Departures
  <1>5. visibleTo \in 1..Len(states) /\ index[c] \in 1..Len(states) /\ Len(states) \in Nat
    BY DEF TypeInv, HistoryTypes
  <1>6. CASE index[c] > visibleTo
    <2>1. visibleTo' \in (visibleTo + 1)..Len(states)
      BY <1>3, <1>5, <1>6 DEF Told
    <2> QED  BY <1>3, <1>4, <2>1, StoreAcknowledge
  <1>7. CASE ~(index[c] > visibleTo)
    <2>1. visibleTo' = visibleTo
      BY <1>3, <1>7 DEF Told
    <2> QED  BY <1>3, <1>4, <2>1, StoreSame
  <1> QED  BY <1>6, <1>7

LEMMA PublishIsStore ==
  ASSUME TypeInv, FeedInv, ToldInv, NEW c \in Clients, Publish(c)
  PROVE  StoreStep
  <1> USE DEF ghosts, walVars
  <1> DEFINE es == events[c]
             m == Len(published)
             n == Head(es).commit
  <1>1. /\ published \in Seq(Events) /\ es # <<>> /\ es \in Seq(Events)
        /\ txn[c].st = "publish" /\ published' = Append(published, Head(es))
        /\ UNCHANGED <<proc, phase, sd, tables, states, visibleTo, inexact, inherited>>
    BY DEF FeedInv, CallInv, Publish
  <1>2. UNCHANGED <<View, states, visibleTo>> /\ Exact' = Exact
    BY <1>1 DEF View, Running, Exact, Departures
  <1>3. 1 \in DOMAIN es /\ Head(es) = es[1]
    BY <1>1
  <1>4. es[1].commit \in 2..Len(states) /\ es[1].commit <= visibleTo /\ visibleTo \in 1..Len(states)
        /\ Len(states) \in Nat
    BY <1>1, <1>3 DEF FeedInv, EventInv, ToldInv, TypeInv, HistoryTypes
  <1>5. n \in 2..visibleTo
    BY <1>3, <1>4
  <1>6. /\ m \in Nat /\ DOMAIN published = 1..m /\ DOMAIN published' = 1..(m + 1)
        /\ published'[m + 1] = Head(es) /\ \A i \in 1..m : published'[i] = published[i]
    BY <1>1, <1>3
  <1>7. 1..(m + 1) = 1..m \union {m + 1}
    BY <1>6
  <1>8. FeedCommits' = FeedCommits \union {n}
    <2> HIDE DEF es, m
    <2> QED  BY <1>6, <1>7 DEF FeedCommits
  <1> HIDE DEF n
  <1> QED  BY <1>2, <1>5, <1>8, StorePublish

LEMMA BackgroundIsStore ==
  ASSUME Admitted = {},
         \/ WriterStep \/ Checkpoint \/ SnapshotStep \/ WriteBack \/ ShutdownBegin
         \/ ShutdownSnapshot \/ ShutdownFlush \/ StopStep \/ UNCHANGED vars
  PROVE  StoreStep
  <1> USE DEF engineVars, ghosts, walVars
  <1>1. /\ UNCHANGED <<proc, phase, tables, states, visibleTo, published, inherited>>
        /\ sd' = "off" <=> sd = "off"
    <2>1. CASE WriterStep \/ StopStep \/ WriteBack \/ UNCHANGED vars
      BY <2>1 DEF WriterStep, Writer, WriterDrain, WriterWrite, WriterSync, WriterAck, WriterSetFatal, WriterExit,
                  StopStep, StopWriter, WriteBack, vars
    <2>2. CASE Checkpoint \/ ShutdownSnapshot
      BY <2>2 DEF Checkpoint, ShutdownSnapshot, WriteSnapshot, TruncateBegin
    <2>3. CASE SnapshotStep
      BY <2>3 DEF SnapshotStep, DrainEnqueue, DrainWait, TruncateReset
    <2>4. CASE ShutdownBegin \/ ShutdownFlush
      BY <2>4 DEF ShutdownBegin, ShutdownFlush, FlushBegin
    <2> QED  BY <2>1, <2>2, <2>3, <2>4
  <1>2. UNCHANGED <<View, FeedCommits>>
    BY <1>1 DEF View, Running, FeedCommits
  <1>3. inexact' = inexact \/ "snapshot_ahead" \in inexact'
    BY DEF WriterStep, StopStep, WriteBack, vars, Checkpoint, ShutdownSnapshot, WriteSnapshot, SnapshotStep,
           ShutdownBegin, ShutdownFlush
  <1>4. CASE inexact' = inexact
    <2>1. Exact' = Exact
      BY <1>1, <1>4 DEF Exact, Departures
    <2> QED  BY <1>1, <1>2, <2>1, StoreSame
  <1>5. CASE "snapshot_ahead" \in inexact'
    <2>1. ~Exact'
      BY <1>5 DEF Exact, Departures
    <2> QED  BY <1>1, <1>2, <2>1, StoreDepart
  <1> QED  BY <1>3, <1>4, <1>5

\* The end of a life.
LEMMA EndIsStore ==
  ASSUME TypeInv, ShutdownClear \/ Exit \/ Crash
  PROVE  StoreStep
  <1> USE DEF ghosts
  <1>1. /\ UNCHANGED <<states, visibleTo, inherited>> /\ inexact \subseteq inexact'
        /\ sd' = "off" \/ phase' = "down"
        /\ published' \in {published, <<>>}
    BY DEF ShutdownClear, Exit, Crash, Forget
  <1>2. View' = NoSnapshot
    BY <1>1 DEF View, Running
  <1>3. FeedCommits' \in {FeedCommits, {}}
    BY <1>1 DEF FeedCommits
  <1>4. Exact' => Exact
    BY <1>1 DEF Exact, Departures
  <1>5. Exact' = Exact \/ ~Exact'
    BY <1>4 DEF Exact
  <1> QED  BY <1>1, <1>2, <1>3, <1>5, StoreStop

LEMMA BootIsStore ==
  ASSUME NoFailures, Admitted = {}, TypeInv, FeedInv, BaseInv, CrashInv, Boot
  PROVE  StoreStep
  <1> DEFINE x == Recovered(snap, file)
  <1>1. /\ phase = "down" /\ phase' = "recover" /\ file' = file /\ UNCHANGED published
        /\ inexact' = {} /\ inherited' = IF file' = <<>> THEN {} ELSE Departures \ {"cut"}
        /\ states' = <<x>> /\ visibleTo' = 1
    BY DEF Boot, Initialize, WriteMagicIfEmpty, NoFailures
  <1>2. x \in TableStates
    <2>1. snap \in TableStates \union {NoSnapshot} /\ file \in Seq(Records)
      BY DEF TypeInv, EngineTypes, LogTypes
    <2> QED  BY <2>1, RecoveredType
  <1>3. View = NoSnapshot /\ View' = NoSnapshot
    BY <1>1 DEF View, Running
  <1>4. FeedCommits = {} /\ FeedCommits' = {}
    BY <1>1 DEF FeedInv, CallInv, FeedCommits
  <1>5. Exact => \E i \in visibleTo..Len(states) : states[i] = x
    BY CrashInvIsEnough DEF RecoversPrefix, Exact
  <1>6. Exact => Exact'
    BY <1>1 DEF Exact, Departures
  <1>7. Exact' = Exact \/ Exact'
    BY <1>6 DEF Exact
  <1> HIDE DEF x
  <1> QED  BY <1>1, <1>2, <1>3, <1>4, <1>5, <1>7, StoreRecover

LEMMA RecoveryIsStore ==
  ASSUME Admitted = {}, TypeInv, FeedInv, Recovery
  PROVE  StoreStep
  <1> USE DEF ghosts, walVars
  <1>1. /\ phase = "recover" /\ proc = "up" /\ UNCHANGED <<states, visibleTo, published, inherited, sd>>
    BY DEF Recovery, Replay, RecoveryComplete
  <1>2. View = NoSnapshot /\ FeedCommits' = FeedCommits
    BY <1>1 DEF View, Running, FeedCommits
  <1>3. CASE Replay
    <2>1. View' = NoSnapshot
      BY <1>1, <1>3 DEF View, Running, Replay
    <2>2. inexact' = inexact \/ "redrop" \in inexact'
      BY <1>3 DEF Replay
    <2>3. CASE inexact' = inexact
      <3>1. Exact' = Exact
        BY <1>1, <2>3 DEF Exact, Departures
      <3> QED  BY <1>1, <1>2, <2>1, <3>1, StoreSame
    <2>4. CASE "redrop" \in inexact'
      <3>1. ~Exact'
        BY <2>4 DEF Exact, Departures
      <3> QED  BY <1>1, <1>2, <2>1, <3>1, StoreDepart
    <2> QED  BY <2>2, <2>3, <2>4
  <1>4. CASE RecoveryComplete
    <2>1. phase' = "run" /\ entries = <<>> /\ UNCHANGED <<proc, tables, inexact>>
      BY <1>4 DEF RecoveryComplete
    <2>2. tables \in TableStates /\ sd = "no" /\ Len(states) = 1
          /\ Replayed(tables, <<>>)[Len(<<>>)] = states[1]
      BY <1>1, <2>1 DEF TypeInv, EngineTypes, FeedInv, CallInv, TablesInv
    <2>3. tables = states[Len(states)]
      <3>1. <<>> \in Seq(Whole) /\ Len(<<>>) = 0
        OBVIOUS
      <3>2. Replayed(tables, <<>>)[0] = tables
        BY <2>2, <3>1, ReplayedSteps
      <3> QED  BY <2>2, <3>1, <3>2
    <2>4. View' = tables
      BY <1>1, <2>1, <2>2 DEF View, Running
    <2>5. Exact' = Exact
      BY <1>1, <2>1 DEF Exact, Departures
    <2> QED  BY <1>1, <1>2, <2>2, <2>3, <2>4, <2>5, StoreOpen
  <1> QED  BY <1>3, <1>4 DEF Recovery

\* "the database reflects exactly the set of transactions whose commit was
\* acknowledged", or more: callers and subscribers see a DurableStore.  Commits,
\* group commit, checkpoints, shutdown, crashes of the process and recovery are steps
\* of it or change nothing that they see; for any tables, clients and transactions,
\* as long as no system call fails.
THEOREM EngineIsStore == NoFailures /\ Admitted = {} /\ Spec => ImplementsStore
  <1> SUFFICES ASSUME NoFailures, Admitted = {} PROVE Spec => ImplementsStore
    OBVIOUS
  <1>1. Init => Store!Init
    <2> SUFFICES ASSUME Init PROVE Store!Init
      OBVIOUS
    <2>1. View = BootState /\ FeedCommits = {} /\ Exact /\ states = <<BootState>> /\ visibleTo = 1
      BY DEF Init, WALInit, View, Running, FeedCommits, Exact, Departures
    <2> QED  BY <2>1, NoTablesType DEF Store!Init, View, FeedCommits, Exact
  <1>2. TypeInv /\ FeedInv /\ BaseInv /\ CrashInv /\ ToldInv /\ [Next]_<<vars, workload>> => StoreStep
    <2> SUFFICES ASSUME TypeInv, FeedInv, BaseInv, CrashInv, ToldInv, [Next]_<<vars, workload>>
                 PROVE  StoreStep
      OBVIOUS
    <2>1. ASSUME NEW c \in Clients, Client(c) \/ Progress(c) PROVE StoreStep
      BY <2>1, ClientIsStore, CommitIsStore, AnswerIsStore, PublishIsStore DEF Progress
    <2>2. CASE WriterStep \/ Checkpoint \/ SnapshotStep \/ WriteBack \/ ShutdownBegin \/ UNCHANGED vars
      BY <2>2, BackgroundIsStore
    <2>3. CASE Shutdown \/ Crash
      BY <2>3, BackgroundIsStore, EndIsStore DEF Shutdown
    <2>4. CASE Boot \/ Recovery
      BY <2>4, BootIsStore, RecoveryIsStore
    <2> QED  BY <2>1, <2>2, <2>3, <2>4 DEF Next, Step
  <1>3. TypeInv /\ FeedInv /\ BaseInv /\ CrashInv /\ ToldInv /\ [Next]_<<vars, workload>>
        => [Store!Next]_Store!vars
    BY <1>2 DEF StoreStep
  <1> QED  BY <1>1, <1>3, CrashInvariance, ToldInvariance, PTL DEF Spec, ImplementsStore, Store!Spec
=============================================================================
