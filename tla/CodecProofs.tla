---------------------------- MODULE CodecProofs ----------------------------
(***************************************************************************)
(* Proofs about the algorithms that have no state, for inputs of any size:   *)
(* base64 and JSON values, the order of versions, LIKE, and the codecs of    *)
(* rows, schemas and messages.                                               *)
(***************************************************************************)
EXTENDS FrameProofs, RowCodec, HostValues, LikePattern

-----------------------------------------------------------------------------
(***************************************************************************)
(* Sequences put together from pieces.                                      *)
(***************************************************************************)

\* P[i] is the first i of seqs, one after the other.
IsFlat(S, seqs, P) ==
  /\ P \in [0..Len(seqs) -> Seq(S)] /\ P[0] = <<>>
  /\ \A i \in 1..Len(seqs) : P[i] = P[i - 1] \o seqs[i]
  /\ FlattenSeq(seqs) = P[Len(seqs)]

LEMMA FlattenSteps ==
  ASSUME NEW S, NEW seqs \in Seq(Seq(S))
  PROVE  \E P : IsFlat(S, seqs, P)
  <1> DEFINE n == Len(seqs)
             T == Seq(S)
             F == [i \in 1..n |-> [x \in T |-> x \o seqs[i]]]
  <1>1. n \in Nat /\ <<>> \in T /\ \A i \in 1..n : seqs[i] \in T
    OBVIOUS
  <1>2. F \in [1..n -> [T -> T]]
    <2>1. ASSUME NEW i \in 1..n, NEW x \in T PROVE x \o seqs[i] \in T
      BY <1>1
    <2> HIDE DEF T
    <2> QED  BY <2>1
  <1>3. PICK P \in [0..n -> T] : P[0] = <<>> /\ \A i \in 1..n : P[i] = F[i][P[i - 1]]
    <2> HIDE DEF F, n, T
    <2>1. Paths(n, T, <<>>, F) # {}
      BY <1>1, <1>2, PathExists
    <2> QED  BY <2>1 DEF Paths
  <1>4. \A i \in 1..n : P[i] = P[i - 1] \o seqs[i]
    <2> SUFFICES ASSUME NEW i \in 1..n PROVE P[i] = P[i - 1] \o seqs[i]
      OBVIOUS
    <2>1. i - 1 \in 0..n
      BY <1>1
    <2>2. P[i - 1] \in T
      BY <1>3, <2>1
    <2> HIDE DEF T
    <2> QED  BY <1>3, <2>2
  <1>5. CASE n = 0
    <2>1. seqs = <<>> /\ FlattenSeq(seqs) = seqs
      BY <1>5 DEF FlattenSeq
    <2> QED  BY <1>3, <1>4, <1>5, <2>1 DEF IsFlat
  <1>6. CASE n # 0
    <2> DEFINE Add(x, i) == x \o seqs[i]
               G(g) == [i \in 1..n |-> IF i = 1 THEN seqs[i] ELSE Add(g[i - 1], i)]
               R == CHOOSE g : g = G(g)
               f == [i \in 1..n |-> P[i]]
    <2>1. f = G(f)
      <3> SUFFICES ASSUME NEW i \in 1..n PROVE f[i] = G(f)[i]
        OBVIOUS
      <3>1. CASE i = 1
        <4>1. P[1] = <<>> \o seqs[1]
          <5>1. 1 \in 1..n /\ 1 - 1 = 0
            BY <3>1
          <5> QED  BY <1>3, <1>4, <5>1
        <4>2. <<>> \o seqs[1] = seqs[1]
          BY <1>1, <3>1
        <4> QED  BY <3>1, <4>1, <4>2
      <3>2. CASE i # 1
        <4>1. i - 1 \in 1..n /\ f[i - 1] = P[i - 1]
          BY <1>1, <3>2
        <4> QED  BY <1>4, <3>2, <4>1
      <3> QED  BY <3>1, <3>2
    <2>2. R = G(R)
      <3> HIDE DEF G, f
      <3> QED  BY <2>1
    <2>3. FlattenSeq(seqs) = R[n]
      BY <1>6 DEF FlattenSeq
    <2> HIDE DEF R
    <2>4. R[1] = seqs[1] /\ \A i \in 2..n : R[i] = Add(R[i - 1], i)
      <3> HIDE DEF n, Add
      <3> QED  BY <1>1, <1>6, <2>2
    <2> DEFINE U == {i \in 0..n : i = 0 \/ R[i] = P[i]}
    <2>5. 0 \in U
      BY <1>1
    <2>6. ASSUME NEW i \in 0..(n - 1), i \in U PROVE i + 1 \in U
      <3>1. CASE i = 0
        <4>1. 1 \in 1..n /\ 1 - 1 = 0
          BY <1>1, <1>6
        <4>2. P[1] = <<>> \o seqs[1]
          BY <1>3, <1>4, <4>1
        <4>3. <<>> \o seqs[1] = seqs[1]
          BY <1>1, <4>1
        <4> QED  BY <2>4, <3>1, <4>1, <4>2, <4>3
      <3>2. CASE i # 0
        <4>1. i + 1 \in 2..n /\ i + 1 \in 1..n /\ (i + 1) - 1 = i
          BY <1>1, <3>2
        <4>2. R[i] = P[i]
          BY <2>6, <3>2
        <4>3. P[i + 1] = Add(P[i], i + 1)
          BY <1>4, <4>1
        <4> HIDE DEF Add
        <4>4. R[i + 1] = P[i + 1]
          BY <2>4, <4>1, <4>2, <4>3
        <4> QED  BY <4>1, <4>4
      <3> QED  BY <3>1, <3>2
    <2>7. n \in U
      <3> HIDE DEF U
      <3>1. \A i \in 0..n : i \in U
        BY <1>1, <2>5, <2>6, UpTo
      <3> QED  BY <1>1, <3>1
    <2> QED  BY <1>3, <1>4, <1>6, <2>3, <2>7 DEF IsFlat
  <1> QED  BY <1>5, <1>6

\* The bytes f are in w after the first p.
Stands(w, p, f) ==
  p \in Nat /\ p + Len(f) <= Len(w) /\ \A x \in 1..Len(f) : w[p + x] = f[x]

LEMMA StandsLeft ==
  ASSUME NEW S, NEW a \in Seq(S), NEW b \in Seq(S), NEW f \in Seq(S), NEW p, Stands(a, p, f)
  PROVE  Stands(a \o b, p, f)
  <1>1. IsConcat(S, a, b, a \o b)
    BY ConcatAt
  <1> DEFINE u == a \o b
  <1> HIDE DEF u
  <1>2. u \in Seq(S) /\ Len(u) = Len(a) + Len(b) /\ \A i \in 1..Len(a) : u[i] = a[i]
    BY <1>1 DEF IsConcat, u
  <1>3. p \in Nat /\ Len(f) \in Nat /\ Len(a) \in Nat /\ Len(b) \in Nat /\ p + Len(f) <= Len(a)
    BY DEF Stands
  <1>4. ASSUME NEW x \in 1..Len(f) PROVE u[p + x] = f[x]
    <2>1. p + x \in 1..Len(a)
      BY <1>3
    <2> QED  BY <1>2, <2>1 DEF Stands
  <1> QED  BY <1>2, <1>3, <1>4 DEF Stands, u

LEMMA StandsRight ==
  ASSUME NEW S, NEW a \in Seq(S), NEW b \in Seq(S), NEW f \in Seq(S), NEW p, Stands(b, p, f)
  PROVE  Stands(a \o b, Len(a) + p, f)
  <1>1. IsConcat(S, a, b, a \o b)
    BY ConcatAt
  <1> DEFINE u == a \o b
  <1> HIDE DEF u
  <1>2. u \in Seq(S) /\ Len(u) = Len(a) + Len(b) /\ \A i \in 1..Len(b) : u[Len(a) + i] = b[i]
    BY <1>1 DEF IsConcat, u
  <1>3. p \in Nat /\ Len(f) \in Nat /\ Len(a) \in Nat /\ Len(b) \in Nat /\ p + Len(f) <= Len(b)
    BY DEF Stands
  <1>4. ASSUME NEW x \in 1..Len(f) PROVE u[(Len(a) + p) + x] = f[x]
    <2>1. p + x \in 1..Len(b) /\ Len(a) + (p + x) = (Len(a) + p) + x
      BY <1>3
    <2> QED  BY <1>2, <2>1 DEF Stands
  <1> QED  BY <1>2, <1>3, <1>4 DEF Stands, u

LEMMA StandsInside ==
  ASSUME NEW S, NEW w \in Seq(S), NEW f \in Seq(S), NEW g \in Seq(S), NEW p, NEW q,
         Stands(w, p, f), Stands(f, q, g)
  PROVE  Stands(w, p + q, g)
  <1>1. /\ p \in Nat /\ q \in Nat /\ Len(w) \in Nat /\ Len(f) \in Nat /\ Len(g) \in Nat
        /\ p + Len(f) <= Len(w) /\ q + Len(g) <= Len(f)
    BY DEF Stands
  <1>2. ASSUME NEW x \in 1..Len(g) PROVE w[(p + q) + x] = g[x]
    <2>1. q + x \in 1..Len(f) /\ p + (q + x) = (p + q) + x
      BY <1>1
    <2> QED  BY <2>1 DEF Stands
  <1> QED  BY <1>1, <1>2 DEF Stands

LEMMA StandsWhole ==
  ASSUME NEW S, NEW w \in Seq(S)
  PROVE  Stands(w, 0, w)
  BY DEF Stands

LEMMA StandsParts ==
  ASSUME NEW S, NEW w \in Seq(S), NEW f \in Seq(S), NEW g \in Seq(S), NEW p, Stands(w, p, f \o g)
  PROVE  Stands(w, p, f) /\ Stands(w, p + Len(f), g)
  <1>1. Stands(f \o g, 0, f)
    BY StandsWhole, StandsLeft
  <1>2. Stands(f \o g, Len(f) + 0, g)
    BY StandsWhole, StandsRight
  <1>3. f \o g \in Seq(S) /\ Len(f) + 0 = Len(f) /\ p + 0 = p
    BY DEF Stands
  <1>4. Stands(w, p + 0, f)
    BY <1>1, <1>3, StandsInside
  <1>5. Stands(w, p + (Len(f) + 0), g)
    BY <1>2, <1>3, StandsInside
  <1> QED  BY <1>3, <1>4, <1>5

\* Every piece of a sequence is where those before it end, and the last ends it.
LEMMA FlatStands ==
  ASSUME NEW S, NEW seqs \in Seq(Seq(S)), NEW P, IsFlat(S, seqs, P)
  PROVE  \A i \in 1..Len(seqs) : /\ Stands(FlattenSeq(seqs), Len(P[i - 1]), seqs[i])
                                 /\ Len(P[i]) = Len(P[i - 1]) + Len(seqs[i])
                                 /\ Len(P[i]) <= Len(FlattenSeq(seqs))
  <1> DEFINE n == Len(seqs)
  <1>1. n \in Nat /\ \A i \in 1..n : seqs[i] \in Seq(S)
    OBVIOUS
  <1>2. \A i \in 0..n : P[i] \in Seq(S)
    BY DEF IsFlat
  <1> SUFFICES ASSUME NEW i \in 1..n
               PROVE  /\ Stands(FlattenSeq(seqs), Len(P[i - 1]), seqs[i])
                      /\ Len(P[i]) = Len(P[i - 1]) + Len(seqs[i])
                      /\ Len(P[i]) <= Len(FlattenSeq(seqs))
    OBVIOUS
  <1> DEFINE p == Len(P[i - 1])
             f == seqs[i]
             T == {j \in 0..n : j >= i => Stands(P[j], p, f)}
  <1>3. i - 1 \in 0..n /\ i \in 0..n /\ f \in Seq(S) /\ P[i - 1] \in Seq(S) /\ P[i] \in Seq(S)
    BY <1>1, <1>2
  <1>4. P[i] = P[i - 1] \o f
    BY DEF IsFlat
  <1>5. p \in Nat /\ Len(f) \in Nat /\ Len(P[i]) = p + Len(f)
    BY <1>3, <1>4
  <1>6. Stands(P[i], p, f)
    <2>1. Stands(f, 0, f)
      BY <1>3, StandsWhole
    <2>2. Stands(P[i - 1] \o f, p + 0, f)
      <3> HIDE DEF f
      <3> QED  BY <1>3, <2>1, StandsRight
    <2> QED  BY <1>4, <1>5, <2>2
  <1>7. 0 \in T
    BY <1>1
  <1>8. ASSUME NEW j \in 0..(n - 1), j \in T PROVE j + 1 \in T
    <2>1. j + 1 \in 0..n /\ j + 1 \in 1..n /\ (j + 1) - 1 = j /\ j \in 0..n
      BY <1>1
    <2>2. CASE j >= i
      <3>1. Stands(P[j], p, f)
        BY <1>8, <2>2
      <3>2. P[j + 1] = P[j] \o seqs[j + 1]
        BY <2>1 DEF IsFlat
      <3>3. P[j] \in Seq(S) /\ seqs[j + 1] \in Seq(S)
        BY <1>1, <1>2, <2>1
      <3>4. Stands(P[j + 1], p, f)
        <4> HIDE DEF p, f
        <4> QED  BY <1>3, <3>1, <3>2, <3>3, StandsLeft
      <3> QED  BY <2>1, <3>4
    <2>3. CASE j + 1 = i
      BY <1>6, <2>1, <2>3
    <2>4. CASE j + 1 < i
      BY <2>1, <2>4
    <2> QED  BY <1>1, <2>2, <2>3, <2>4
  <1>9. n \in T
    <2> HIDE DEF T
    <2>1. \A j \in 0..n : j \in T
      BY <1>1, <1>7, <1>8, UpTo
    <2> QED  BY <1>1, <2>1
  <1>10. Stands(P[n], p, f) /\ FlattenSeq(seqs) = P[n]
    BY <1>9 DEF IsFlat
  <1> QED  BY <1>5, <1>10 DEF Stands

-----------------------------------------------------------------------------
(***************************************************************************)
(* Base64.                                                                  *)
(***************************************************************************)

\* How many pieces of k there are in a sequence, and how long the i-th is.
Pieces(w, k) == (Len(w) + k - 1) \div k
Size(w, k, i) == IF k * i < Len(w) THEN k ELSE Len(w) - k * (i - 1)

LEMMA PieceCount ==
  ASSUME NEW l \in Nat, NEW k \in {3, 4}, NEW m, m = (l + k - 1) \div k
  PROVE  m \in Nat /\ l <= k * m /\ k * m < l + k
  <1>1. CASE k = 3
    <2>1. m = (l + 2) \div 3
      BY <1>1
    <2> QED  BY <1>1, <2>1
  <1>2. CASE k = 4
    <2>1. m = (l + 3) \div 4
      BY <1>2
    <2> QED  BY <1>2, <2>1
  <1> QED  BY <1>1, <1>2

LEMMA PieceIn ==
  ASSUME NEW l \in Nat, NEW k \in {3, 4}, NEW m \in Nat, l <= k * m, k * m < l + k, NEW i \in 1..m
  PROVE  /\ k * (i - 1) \in Nat /\ k * i \in Nat /\ k * i = k * (i - 1) + k
         /\ k * (i - 1) < l /\ (i < m => k * i < l)
  <1>1. CASE k = 3
    BY <1>1
  <1>2. CASE k = 4
    BY <1>2
  <1> QED  BY <1>1, <1>2

LEMMA PlaceIn ==
  ASSUME NEW l \in Nat, NEW k \in {3, 4}, NEW m \in Nat, l <= k * m, NEW x \in 1..l
  PROVE  \E i \in 1..m : \E j \in 1..k : x = k * (i - 1) + j
  <1> DEFINE y == x - 1
  <1>1. y \in Nat
    OBVIOUS
  <1>2. CASE k = 3
    <2> DEFINE q == y \div 3
    <2>1. q \in Nat /\ 3 * q <= y /\ y < 3 * q + 3
      BY <1>1
    <2> HIDE DEF q, y
    <2>2. q + 1 \in 1..m
      BY <1>2, <2>1 DEF y
    <2>3. y - 3 * q + 1 \in 1..3 /\ x = 3 * ((q + 1) - 1) + (y - 3 * q + 1)
      BY <1>1, <2>1 DEF y
    <2> QED  BY <1>2, <2>2, <2>3
  <1>3. CASE k = 4
    <2> DEFINE q == y \div 4
    <2>1. q \in Nat /\ 4 * q <= y /\ y < 4 * q + 4
      BY <1>1
    <2> HIDE DEF q, y
    <2>2. q + 1 \in 1..m
      BY <1>3, <2>1 DEF y
    <2>3. y - 4 * q + 1 \in 1..4 /\ x = 4 * ((q + 1) - 1) + (y - 4 * q + 1)
      BY <1>1, <2>1 DEF y
    <2> QED  BY <1>3, <2>2, <2>3
  <1> QED  BY <1>2, <1>3

LEMMA PiecesBound ==
  ASSUME NEW S, NEW w \in Seq(S), NEW k \in {3, 4}
  PROVE  /\ Pieces(w, k) \in Nat /\ Len(w) <= k * Pieces(w, k)
         /\ k * Pieces(w, k) < Len(w) + k
         /\ \A i \in 1..Pieces(w, k) : /\ k * (i - 1) \in Nat /\ Size(w, k, i) \in 1..k
                                       /\ k * (i - 1) + Size(w, k, i) =
                                            IF k * i < Len(w) THEN k * i ELSE Len(w)
                                       /\ k * (i - 1) + Size(w, k, i) <= Len(w)
                                       /\ i < Pieces(w, k) => Size(w, k, i) = k
  <1> DEFINE m == Pieces(w, k)
             l == Len(w)
  <1>1. l \in Nat /\ k \in Nat
    OBVIOUS
  <1>2. m = (l + k - 1) \div k
    BY DEF Pieces
  <1> HIDE DEF m, l
  <1>3. m \in Nat /\ l <= k * m /\ k * m < l + k
    BY <1>1, <1>2, PieceCount
  <1>4. ASSUME NEW i \in 1..m
        PROVE  /\ k * (i - 1) \in Nat /\ Size(w, k, i) \in 1..k
               /\ k * (i - 1) + Size(w, k, i) = IF k * i < l THEN k * i ELSE l
               /\ k * (i - 1) + Size(w, k, i) <= l
               /\ i < m => Size(w, k, i) = k
    <2> DEFINE a == k * (i - 1)
               b == k * i
    <2>1. a \in Nat /\ b \in Nat /\ b = a + k /\ a < l /\ (i < m => b < l)
      BY <1>1, <1>3, PieceIn
    <2>2. Size(w, k, i) = IF b < l THEN k ELSE l - a
      BY DEF Size, l
    <2> HIDE DEF a, b
    <2>3. /\ a \in Nat /\ Size(w, k, i) \in 1..k
          /\ a + Size(w, k, i) = IF b < l THEN b ELSE l
          /\ a + Size(w, k, i) <= l
          /\ i < m => Size(w, k, i) = k
      BY <1>1, <2>1, <2>2
    <2> QED  BY <2>3 DEF a, b
  <1> QED  BY <1>3, <1>4 DEF m, l

LEMMA SliceAt ==
  ASSUME NEW S, NEW w \in Seq(S), NEW k \in {3, 4}
  PROVE  /\ Slices(w, k) \in Seq(Seq(S)) /\ Len(Slices(w, k)) = Pieces(w, k)
         /\ \A i \in 1..Pieces(w, k) : IsCut(S, w, k * (i - 1), Size(w, k, i), Slices(w, k)[i])
  <1> DEFINE m == Pieces(w, k)
             s == Slices(w, k)
  <1>1. m \in Nat /\ k \in Nat /\ Len(w) \in Nat
    BY PiecesBound
  <1>2. ASSUME NEW i \in 1..m PROVE IsCut(S, w, k * (i - 1), Size(w, k, i), s[i])
    <2> DEFINE a == k * (i - 1)
               z == Size(w, k, i)
    <2>1. a \in Nat /\ z \in 1..k /\ a + z <= Len(w)
      BY PiecesBound
    <2>2. (IF k * i < Len(w) THEN k * i ELSE Len(w)) = a + z
      BY PiecesBound
    <2>3. s[i] = SubSeq(w, a + 1, a + z)
      <3>1. s[i] = SubSeq(w, a + 1, IF k * i < Len(w) THEN k * i ELSE Len(w))
        BY DEF Slices, Pieces
      <3> QED  BY <2>2, <3>1
    <2>4. z \in Nat
      BY <1>1, <2>1
    <2> HIDE DEF a, z
    <2>5. IsCut(S, w, a, z, SubSeq(w, a + 1, a + z))
      BY <2>1, <2>4, CutAt
    <2> QED  BY <2>3, <2>5 DEF a, z
  <1>3. s = [i \in 1..m |-> s[i]]
    BY DEF Slices, Pieces
  <1>4. \A i \in 1..m : s[i] \in Seq(S)
    BY <1>2 DEF IsCut
  <1> HIDE DEF s, m
  <1>5. s \in [1..m -> Seq(S)]
    BY <1>3, <1>4
  <1>6. s \in Seq(Seq(S)) /\ Len(s) = m
    BY <1>1, <1>5
  <1> QED  BY <1>2, <1>6 DEF s, m

\* Two sequences with the same elements.
LEMMA SameSequence ==
  ASSUME NEW S, NEW s \in Seq(S), NEW t \in Seq(S), Len(s) = Len(t), \A i \in 1..Len(s) : s[i] = t[i]
  PROVE  s = t
  OBVIOUS

\* The pieces of a sequence make it again.
LEMMA FlatOfSlices ==
  ASSUME NEW S, NEW w \in Seq(S), NEW k \in {3, 4}
  PROVE  FlattenSeq(Slices(w, k)) = w
  <1> DEFINE m == Pieces(w, k)
             s == Slices(w, k)
             end(i) == IF k * i < Len(w) THEN k * i ELSE Len(w)
  <1>1. /\ s \in Seq(Seq(S)) /\ Len(s) = m /\ m \in Nat /\ Len(w) \in Nat /\ k \in Nat
        /\ \A i \in 1..m : IsCut(S, w, k * (i - 1), Size(w, k, i), s[i])
    <2>1. Len(w) \in Nat /\ k \in Nat
      OBVIOUS
    <2>2. /\ s \in Seq(Seq(S)) /\ Len(s) = m
          /\ \A i \in 1..m : IsCut(S, w, k * (i - 1), Size(w, k, i), s[i])
      BY SliceAt
    <2> QED  BY <2>1, <2>2, PiecesBound
  <1> HIDE DEF s
  <1>2. PICK P : IsFlat(S, s, P)
    BY <1>1, FlattenSteps
  <1>3. /\ \A i \in 1..m : Stands(FlattenSeq(s), Len(P[i - 1]), s[i]) /\ Len(P[i]) = Len(P[i - 1]) + Len(s[i])
        /\ P[0] = <<>> /\ FlattenSeq(s) = P[m] /\ P \in [0..m -> Seq(S)]
    <2> HIDE DEF m
    <2>1. \A i \in 1..Len(s) : Stands(FlattenSeq(s), Len(P[i - 1]), s[i]) /\ Len(P[i]) = Len(P[i - 1]) + Len(s[i])
      BY <1>1, <1>2, FlatStands
    <2>2. P[0] = <<>> /\ FlattenSeq(s) = P[Len(s)] /\ P \in [0..Len(s) -> Seq(S)]
      BY <1>2 DEF IsFlat
    <2> QED  BY <1>1, <2>1, <2>2
  <1> DEFINE U == {i \in 0..m : Len(P[i]) = end(i)}
  <1>4. 0 \in U
    BY <1>1, <1>3
  <1>5. ASSUME NEW i \in 0..(m - 1), i \in U PROVE i + 1 \in U
    <2>1. i + 1 \in 1..m /\ (i + 1) - 1 = i /\ i + 1 \in 0..m
      BY <1>1
    <2>2. Len(P[i + 1]) = Len(P[i]) + Len(s[i + 1])
      BY <1>3, <2>1
    <2>3. Len(s[i + 1]) = Size(w, k, i + 1)
      BY <1>1, <2>1 DEF IsCut
    <2>4. end(i) + Size(w, k, i + 1) = end(i + 1)
      <3> DEFINE c == i + 1
      <3>1. c \in 1..m /\ c - 1 = i
        BY <2>1
      <3> HIDE DEF c, m
      <3>2. k * (c - 1) + Size(w, k, c) = IF k * c < Len(w) THEN k * c ELSE Len(w)
        BY <3>1, PiecesBound DEF m
      <3>3. k * (c - 1) \in Nat /\ Size(w, k, c) \in 1..k /\ k * (c - 1) + Size(w, k, c) <= Len(w)
        BY <3>1, PiecesBound DEF m
      <3>4. k * i < Len(w) /\ k * i \in Nat
        BY <1>1, <3>1, <3>3
      <3>5. end(i) = k * i /\ end(c) = k * i + Size(w, k, c)
        BY <3>1, <3>2, <3>4
      <3> QED  BY <3>5 DEF c
    <2>5. Len(P[i]) = end(i)
      BY <1>5
    <2> QED  BY <2>1, <2>2, <2>3, <2>4, <2>5
  <1>6. \A i \in 0..m : i \in U
    <2> HIDE DEF U, m
    <2> QED  BY <1>1, <1>4, <1>5, UpTo
  <1>7. Len(FlattenSeq(s)) = Len(w) /\ FlattenSeq(s) \in Seq(S)
    <2>1. Len(P[m]) = end(m) /\ P[m] \in Seq(S)
      <3>1. m \in 0..m
        <4> HIDE DEF m
        <4> QED  BY <1>1
      <3>2. m \in U
        <4> HIDE DEF U, m
        <4> QED  BY <1>6, <3>1
      <3>3. Len(P[m]) = end(m)
        <4> HIDE DEF m, end
        <4> QED  BY <3>2
      <3>4. P[m] \in Seq(S)
        <4> HIDE DEF m
        <4> QED  BY <1>3, <3>1
      <3> QED  BY <3>3, <3>4
    <2>2. end(m) = Len(w)
      <3>1. Len(w) <= k * m
        BY PiecesBound
      <3>2. k * m \in Nat
        BY <1>1
      <3> QED  BY <1>1, <3>1, <3>2
    <2> QED  BY <1>3, <2>1, <2>2
  <1>8. ASSUME NEW x \in 1..Len(w) PROVE FlattenSeq(s)[x] = w[x]
    <2>1. PICK i \in 1..m : \E j \in 1..Size(w, k, i) : x = k * (i - 1) + j
      <3>1. PICK i \in 1..m : \E j \in 1..k : x = k * (i - 1) + j
        <4>1. m \in Nat /\ Len(w) <= k * m
          BY PiecesBound
        <4> HIDE DEF m
        <4> QED  BY <1>1, <4>1, PlaceIn, ZenonT(30)
      <3>2. PICK j \in 1..k : x = k * (i - 1) + j
        BY <3>1
      <3>3. /\ k * (i - 1) \in Nat /\ Size(w, k, i) \in 1..k
            /\ k * (i - 1) + Size(w, k, i) = IF k * i < Len(w) THEN k * i ELSE Len(w)
        BY PiecesBound
      <3>4. k * i = k * (i - 1) + k
        BY <1>1
      <3> DEFINE a == k * (i - 1)
                 b == k * i
      <3> HIDE DEF a, b
      <3>5. a \in Nat /\ Size(w, k, i) \in 1..k /\ b = a + k /\ x = a + j
            /\ a + Size(w, k, i) = IF b < Len(w) THEN b ELSE Len(w)
        BY <3>2, <3>3, <3>4 DEF a, b
      <3>6. j <= Size(w, k, i)
        BY <1>1, <3>5
      <3> QED  BY <1>1, <3>2, <3>5, <3>6
    <2>2. PICK j \in 1..Size(w, k, i) : x = k * (i - 1) + j
      BY <2>1
    <2>3. i - 1 \in 0..m
      BY <1>1
    <2>4. Len(P[i - 1]) = k * (i - 1)
      <3>1. Len(P[i - 1]) = end(i - 1)
        BY <1>6, <2>3
      <3>2. k * (i - 1) \in Nat /\ k * (i - 1) < Len(w)
        <4>1. k * (i - 1) \in Nat /\ Size(w, k, i) \in 1..k /\ k * (i - 1) + Size(w, k, i) <= Len(w)
          BY PiecesBound
        <4> QED  BY <1>1, <4>1
      <3> QED  BY <3>1, <3>2
    <2>5. Len(s[i]) = Size(w, k, i) /\ s[i][j] = w[k * (i - 1) + j]
      BY <1>1 DEF IsCut
    <2>6. FlattenSeq(s)[Len(P[i - 1]) + j] = s[i][j]
      BY <1>3, <2>5 DEF Stands
    <2> QED  BY <2>2, <2>4, <2>5, <2>6
  <1>9. FlattenSeq(s) = w
    BY <1>1, <1>7, <1>8, SameSequence
  <1> QED  BY <1>9 DEF s

LEMMA CountIs ==
  ASSUME NEW l \in Nat, NEW k \in {3, 4}, NEW m \in Nat, l <= k * m, k * m < l + k,
         NEW n \in Nat, k * (n - 1) < l, l <= k * n
  PROVE  m = n
  <1>1. CASE k = 3
    BY <1>1
  <1>2. CASE k = 4
    BY <1>2
  <1> QED  BY <1>1, <1>2

\* Pieces of k, the last perhaps shorter, are those that their sequence is cut into.
AllButLast(seqs, k) ==
  \A i \in 1..Len(seqs) : Len(seqs[i]) \in 1..k /\ (i < Len(seqs) => Len(seqs[i]) = k)

LEMMA SlicesOfFlat ==
  ASSUME NEW S, NEW seqs \in Seq(Seq(S)), NEW k \in {3, 4}, AllButLast(seqs, k)
  PROVE  /\ FlattenSeq(seqs) \in Seq(S) /\ Slices(FlattenSeq(seqs), k) = seqs
         /\ seqs = <<>> => Len(FlattenSeq(seqs)) = 0
         /\ seqs # <<>> => Len(FlattenSeq(seqs)) = k * (Len(seqs) - 1) + Len(seqs[Len(seqs)])
  <1> DEFINE n == Len(seqs)
             w == FlattenSeq(seqs)
  <1>1. n \in Nat /\ k \in Nat /\ \A i \in 1..n : seqs[i] \in Seq(S) /\ Len(seqs[i]) \in Nat
    OBVIOUS
  <1>2. PICK P : IsFlat(S, seqs, P)
    BY FlattenSteps
  <1>3. /\ \A i \in 1..n : Stands(w, Len(P[i - 1]), seqs[i]) /\ Len(P[i]) = Len(P[i - 1]) + Len(seqs[i])
        /\ P[0] = <<>> /\ w = P[n] /\ P \in [0..n -> Seq(S)]
    <2>1. \A i \in 1..n : Stands(w, Len(P[i - 1]), seqs[i]) /\ Len(P[i]) = Len(P[i - 1]) + Len(seqs[i])
      BY <1>2, FlatStands
    <2>2. P[0] = <<>> /\ w = P[n] /\ P \in [0..n -> Seq(S)]
      BY <1>2 DEF IsFlat
    <2> QED  BY <2>1, <2>2
  <1> HIDE DEF w
  <1>4. w \in Seq(S) /\ Len(w) \in Nat
    BY <1>1, <1>3
  <1> DEFINE U == {i \in 0..n : i < n => Len(P[i]) = k * i}
  <1>5. 0 \in U
    BY <1>1, <1>3
  <1>6. ASSUME NEW i \in 0..(n - 1), i \in U PROVE i + 1 \in U
    <2>1. i + 1 \in 1..n /\ (i + 1) - 1 = i /\ i + 1 \in 0..n /\ i < n
      BY <1>1
    <2>2. Len(P[i + 1]) = Len(P[i]) + Len(seqs[i + 1])
      BY <1>3, <2>1
    <2>3. i + 1 < n => Len(seqs[i + 1]) = k
      BY <2>1 DEF AllButLast
    <2>4. Len(P[i]) = k * i
      BY <1>6, <2>1
    <2>5. k * i + k = k * (i + 1)
      BY <1>1
    <2> QED  BY <2>1, <2>2, <2>3, <2>4, <2>5
  <1>7. \A i \in 0..n : i \in U
    <2> HIDE DEF U, n
    <2> QED  BY <1>1, <1>5, <1>6, UpTo
  <1>8. ASSUME NEW i \in 1..n PROVE Len(P[i - 1]) = k * (i - 1) /\ k * (i - 1) \in Nat
    <2>1. i - 1 \in 0..n /\ i - 1 < n /\ i - 1 \in Nat
      BY <1>1
    <2> QED  BY <1>1, <1>7, <2>1
  <1>9. /\ n = 0 => Len(w) = 0
        /\ n # 0 => Len(w) = k * (n - 1) + Len(seqs[n])
    <2>1. CASE n = 0
      BY <1>3, <2>1
    <2>2. CASE n # 0
      <3>1. n \in 1..n
        BY <1>1, <2>2
      <3> QED  BY <1>3, <1>8, <2>2, <3>1
    <2> QED  BY <2>1, <2>2
  <1>10. Pieces(w, k) = n
    <2> DEFINE m == Pieces(w, k)
    <2>1. m \in Nat /\ Len(w) <= k * m /\ k * m < Len(w) + k
      BY <1>4, PiecesBound
    <2>2. k * (n - 1) < Len(w) /\ Len(w) <= k * n
      <3>1. CASE n = 0
        BY <1>1, <1>9, <3>1
      <3>2. CASE n # 0
        <4>1. n \in 1..n /\ Len(seqs[n]) \in 1..k /\ k * (n - 1) \in Nat
          BY <1>1, <1>8, <3>2 DEF AllButLast
        <4>2. k * n = k * (n - 1) + k
          BY <1>1
        <4> DEFINE a == k * (n - 1)
                   b == k * n
                   z == Len(seqs[n])
        <4>3. a \in Nat /\ z \in 1..k /\ b = a + k /\ Len(w) = a + z
          BY <1>9, <3>2, <4>1, <4>2
        <4> HIDE DEF a, b, z
        <4>4. a < Len(w) /\ Len(w) <= b
          BY <1>1, <4>3
        <4> QED  BY <4>4 DEF a, b
      <3> QED  BY <3>1, <3>2
    <2> HIDE DEF m, n
    <2>3. m = n
      BY <1>1, <1>4, <2>1, <2>2, CountIs
    <2> QED  BY <2>3 DEF m
  <1> DEFINE s == Slices(w, k)
  <1>11. /\ s \in Seq(Seq(S)) /\ Len(s) = n
         /\ \A i \in 1..n : IsCut(S, w, k * (i - 1), Size(w, k, i), s[i])
    BY <1>4, <1>10, SliceAt
  <1> HIDE DEF s
  <1>12. ASSUME NEW i \in 1..n PROVE s[i] = seqs[i]
    <2>1. Size(w, k, i) = Len(seqs[i])
      <3>1. /\ k * (i - 1) \in Nat /\ Size(w, k, i) \in 1..k
            /\ i < n => Size(w, k, i) = k
            /\ k * (i - 1) + Size(w, k, i) = IF k * i < Len(w) THEN k * i ELSE Len(w)
        BY <1>4, <1>10, PiecesBound, ZenonT(30)
      <3>2. CASE i < n
        BY <3>1, <3>2 DEF AllButLast
      <3>3. CASE i = n
        <4>1. Len(seqs[i]) \in 1..k /\ n # 0
          BY <1>1, <3>3 DEF AllButLast
        <4>2. Len(w) = k * (i - 1) + Len(seqs[i])
          BY <1>9, <3>3, <4>1
        <4>3. k * i = k * (i - 1) + k
          BY <1>1
        <4> DEFINE a == k * (i - 1)
                   b == k * i
                   z == Len(seqs[i])
                   y == Size(w, k, i)
        <4>4. a \in Nat /\ y \in 1..k /\ a + y = IF b < Len(w) THEN b ELSE Len(w)
          BY <3>1
        <4>5. b = a + k /\ z \in 1..k /\ Len(w) = a + z
          BY <4>1, <4>2, <4>3
        <4> HIDE DEF a, b, y, z
        <4>6. y = z
          BY <1>1, <4>4, <4>5
        <4> QED  BY <4>6 DEF y, z
      <3> QED  BY <1>1, <3>2, <3>3
    <2>2. /\ s[i] \in Seq(S) /\ Len(s[i]) = Len(seqs[i])
          /\ \A j \in 1..Len(seqs[i]) : s[i][j] = w[k * (i - 1) + j]
      BY <1>11, <2>1 DEF IsCut
    <2>3. \A j \in 1..Len(seqs[i]) : w[k * (i - 1) + j] = seqs[i][j]
      BY <1>3, <1>8 DEF Stands
    <2> DEFINE t == s[i]
               u == seqs[i]
    <2>4. t \in Seq(S) /\ u \in Seq(S) /\ Len(t) = Len(u) /\ \A j \in 1..Len(t) : t[j] = u[j]
      BY <1>1, <2>2, <2>3
    <2> HIDE DEF t, u
    <2>5. t = u
      BY <2>4, SameSequence
    <2> QED  BY <2>5 DEF t, u
  <1>13. s = seqs
    <2> DEFINE Q == Seq(S)
    <2> HIDE DEF Q
    <2>1. s \in Seq(Q) /\ seqs \in Seq(Q) /\ Len(s) = Len(seqs) /\ \A i \in 1..Len(s) : s[i] = seqs[i]
      BY <1>11, <1>12 DEF Q
    <2> QED  BY <2>1, SameSequence
  <1>14. seqs = <<>> <=> n = 0
    OBVIOUS
  <1> QED  BY <1>4, <1>9, <1>13, <1>14 DEF s, w

\* The sextets of a number of 24 bits.
Made(n, p, q, r, s) == n = p * 262144 + q * 4096 + r * 64 + s

Split(n, p, q, r, s) == /\ (n \div 262144) % 64 = p /\ (n \div 4096) % 64 = q
                        /\ (n \div 64) % 64 = r /\ n % 64 = s

LEMMA SextetsOf ==
  ASSUME NEW p \in 0..63, NEW q \in 0..63, NEW r \in 0..63, NEW s \in 0..63, NEW n,
         Made(n, p, q, r, s)
  PROVE  Split(n, p, q, r, s)
  <1> USE DEF Made
  <1>1. n \in Nat /\ p \in Nat /\ p * 64 + q \in Nat /\ (p * 64 + q) * 64 + r \in Nat
    BY SMT
  <1>2. n \div 262144 = p
    <2> DEFINE m == 262144
               l == q * 4096 + r * 64 + s
    <2>1. m \in Nat /\ m > 0 /\ l \in Nat /\ l < m /\ n = p * m + l
      BY SMT
    <2> HIDE DEF m, l
    <2>2. l \in 0..(m - 1) /\ m \in Nat \ {0}
      BY <2>1
    <2>3. n \div m = p
      BY <1>1, <2>1, <2>2, QuotientIs
    <2> QED  BY <2>3, SMT DEF m
  <1>3. n \div 4096 = p * 64 + q
    <2> DEFINE m == 4096
               l == r * 64 + s
               h == p * 64 + q
    <2>1. m \in Nat /\ m > 0 /\ l \in Nat /\ l < m /\ n = h * m + l /\ h \in Nat
      BY SMT
    <2> HIDE DEF m, l, h
    <2>2. l \in 0..(m - 1) /\ m \in Nat \ {0}
      BY <2>1
    <2>3. n \div m = h
      BY <1>1, <2>1, <2>2, QuotientIs
    <2> QED  BY <2>3, SMT DEF m, h
  <1>4. n \div 64 = (p * 64 + q) * 64 + r /\ n % 64 = s
    <2> DEFINE h == (p * 64 + q) * 64 + r
    <2>1. n = h * 64 + s
      BY SMT
    <2>2. h \in Nat
      BY <1>1
    <2> HIDE DEF h
    <2>3. n \div 64 = h /\ n % 64 = s
      BY <2>1, <2>2, SMT
    <2> QED  BY <2>3 DEF h
  <1>5. (p * 64 + q) % 64 = q
    BY SMT
  <1>6. ((p * 64 + q) * 64 + r) % 64 = r
    <2> DEFINE h == p * 64 + q
    <2>1. h \in Nat
      BY <1>1
    <2> HIDE DEF h
    <2>2. (h * 64 + r) % 64 = r
      BY <2>1, SMT
    <2> QED  BY <2>2 DEF h
  <1>7. p % 64 = p
    BY SMT
  <1> QED  BY <1>2, <1>3, <1>4, <1>5, <1>6, <1>7 DEF Split

\* The bytes of four sextets, with the bits that uint8_t drops.
Joined(p, q, r, s, x, y, z) ==
  /\ q \in 0..63 /\ r \in 0..63
  /\ (p * 4 + q \div 16) % 256 = x
  /\ (q * 16 + r \div 4) % 256 = y
  /\ (r * 64 + s) % 256 = z

LEMMA BytesOf ==
  ASSUME NEW p \in 0..63, NEW q1 \in 0..3, NEW q0 \in 0..15, NEW r1 \in 0..15, NEW r0 \in 0..3, NEW s \in 0..63,
         NEW q, q = 16 * q1 + q0, NEW r, r = 4 * r1 + r0
  PROVE  Joined(p, q, r, s, 4 * p + q1, 16 * q0 + r1, 64 * r0 + s)
  <1>1. q \in 0..63 /\ r \in 0..63 /\ q \div 16 = q1 /\ q % 16 = q0 /\ r \div 4 = r1 /\ r % 4 = r0
    BY SMT
  <1>2. (p * 4 + q1) % 256 = 4 * p + q1
    BY SMT
  <1>3. (q * 16 + r1) % 256 = 16 * q0 + r1
    <2>1. q * 16 + r1 = q1 * 256 + (16 * q0 + r1) /\ 16 * q0 + r1 \in 0..255
      BY SMT
    <2> QED  BY <2>1, SMT
  <1>4. (r * 64 + s) % 256 = 64 * r0 + s
    <2>1. r * 64 + s = r1 * 256 + (64 * r0 + s) /\ 64 * r0 + s \in 0..255
      BY SMT
    <2> QED  BY <2>1, SMT
  <1> QED  BY <1>1, <1>2, <1>3, <1>4 DEF Joined

LEMMA Halves ==
  /\ \A x \in 0..255 : /\ \E h \in 0..63, l \in 0..3 : x = 4 * h + l
                       /\ \E h \in 0..15, l \in 0..15 : x = 16 * h + l
                       /\ \E h \in 0..3, l \in 0..63 : x = 64 * h + l
  /\ \A x \in 0..63 : /\ \E h \in 0..3, l \in 0..15 : x = 16 * h + l
                      /\ \E h \in 0..15, l \in 0..3 : x = 4 * h + l
  <1>1. \A x \in 0..255 : /\ x \div 4 \in 0..63 /\ x % 4 \in 0..3 /\ x = 4 * (x \div 4) + (x % 4)
                          /\ x \div 16 \in 0..15 /\ x % 16 \in 0..15 /\ x = 16 * (x \div 16) + (x % 16)
                          /\ x \div 64 \in 0..3 /\ x % 64 \in 0..63 /\ x = 64 * (x \div 64) + (x % 64)
    BY SMT
  <1>2. \A x \in 0..63 : /\ x \div 16 \in 0..3 /\ x % 16 \in 0..15 /\ x = 16 * (x \div 16) + (x % 16)
                         /\ x \div 4 \in 0..15 /\ x % 4 \in 0..3 /\ x = 4 * (x \div 4) + (x % 4)
    BY SMT
  <1>3. \A x \in 0..255 : /\ \E h \in 0..63, l \in 0..3 : x = 4 * h + l
                          /\ \E h \in 0..15, l \in 0..15 : x = 16 * h + l
                          /\ \E h \in 0..3, l \in 0..63 : x = 64 * h + l
    BY <1>1, SMT
  <1>4. \A x \in 0..63 : /\ \E h \in 0..3, l \in 0..15 : x = 16 * h + l
                         /\ \E h \in 0..15, l \in 0..3 : x = 4 * h + l
    BY <1>2, SMT
  <1> QED  BY <1>3, <1>4

\* Up to three bytes are read back from their group.
LEMMA GroupBack ==
  ASSUME NEW b \in Seq(Chars), Len(b) \in 1..3
  PROVE  /\ Group(b) \in Seq(0..Other) /\ Len(Group(b)) = 4 /\ Sextets(Group(b))
         /\ Ungroup(Group(b)) = b
  <1> DEFINE x == b[1]
             y == IF 2 <= Len(b) THEN b[2] ELSE 0
             z == IF 3 <= Len(b) THEN b[3] ELSE 0
             n == x * 65536 + y * 256 + z
  <1>1. x \in 0..255 /\ y \in 0..255 /\ z \in 0..255
    <2>1. \A i \in 1..Len(b) : b[i] \in Chars
      OBVIOUS
    <2>2. CASE Len(b) = 1
      BY <2>1, <2>2 DEF Chars
    <2>3. CASE Len(b) = 2
      BY <2>1, <2>3 DEF Chars
    <2>4. CASE Len(b) = 3
      BY <2>1, <2>4 DEF Chars
    <2> QED  BY <2>2, <2>3, <2>4
  <1>2. Group(b) = <<(n \div 262144) % 64, (n \div 4096) % 64, IF Len(b) > 1 THEN (n \div 64) % 64 ELSE Pad,
                     IF Len(b) > 2 THEN n % 64 ELSE Pad>>
    <2>1. 1 <= Len(b)
      OBVIOUS
    <2> QED  BY <2>1 DEF Group
  <1>3. PICK x1 \in 0..63, x0 \in 0..3 : x = 4 * x1 + x0
    BY <1>1, Halves
  <1>4. PICK y1 \in 0..15, y0 \in 0..15 : y = 16 * y1 + y0
    BY <1>1, Halves
  <1>5. PICK z1 \in 0..3, z0 \in 0..63 : z = 64 * z1 + z0
    BY <1>1, Halves
  <1> DEFINE q == 16 * x0 + y1
             r == 4 * y0 + z1
  <1>6. Made(n, x1, q, r, z0)
    BY <1>1, <1>3, <1>4, <1>5, SMT DEF Made
  <1> HIDE DEF n, q, r
  <1>7. /\ q \in 0..63 /\ r \in 0..63
        /\ (x1 * 4 + q \div 16) % 256 = x
        /\ (q * 16 + r \div 4) % 256 = y
        /\ (r * 64 + z0) % 256 = z
    <2> HIDE DEF x, y, z
    <2>1. q = 16 * x0 + y1 /\ r = 4 * y0 + z1
      BY DEF q, r
    <2>2. Joined(x1, q, r, z0, 4 * x1 + x0, 16 * y1 + y0, 64 * z1 + z0)
      BY <2>1, BytesOf
    <2> QED  BY <1>3, <1>4, <1>5, <2>2 DEF Joined
  <1>8. Split(n, x1, q, r, z0)
    BY <1>6, <1>7, SextetsOf
  <1> DEFINE g == Group(b)
  <1>9. g = <<x1, q, IF Len(b) > 1 THEN r ELSE 64, IF Len(b) > 2 THEN z0 ELSE 64>>
    BY <1>2, <1>8 DEF Pad, Split
  <1> HIDE DEF g
  <1>10. /\ g \in Seq(0..Other) /\ Len(g) = 4
         /\ g[1] = x1 /\ g[2] = q /\ g[3] = (IF Len(b) > 1 THEN r ELSE 64)
         /\ g[4] = (IF Len(b) > 2 THEN z0 ELSE 64)
    <2>1. /\ x1 \in 0..65 /\ q \in 0..65 /\ (IF Len(b) > 1 THEN r ELSE 64) \in 0..65
          /\ (IF Len(b) > 2 THEN z0 ELSE 64) \in 0..65
      BY <1>7
    <2> QED  BY <1>9, <2>1 DEF Other
  <1>11. Sextets(g)
    BY <1>7, <1>10 DEF Sextets, Pad, Other
  <1>12. Ungroup(g) = b
    <2>1. CASE Len(b) = 1
      <3>1. Ungroup(g) = <<(x1 * 4 + q \div 16) % 256>>
        BY <1>10, <2>1 DEF Ungroup, Pad
      <3> QED  BY <1>7, <2>1, <3>1
    <2>2. CASE Len(b) = 2
      <3>1. Ungroup(g) = <<(x1 * 4 + q \div 16) % 256, (q * 16 + r \div 4) % 256>>
        BY <1>7, <1>10, <2>2 DEF Ungroup, Pad
      <3>2. Ungroup(g) = <<b[1], b[2]>>
        BY <1>7, <2>2, <3>1
      <3> QED  BY <2>2, <3>2
    <2>3. CASE Len(b) = 3
      <3>1. Ungroup(g) = <<(x1 * 4 + q \div 16) % 256, (q * 16 + r \div 4) % 256, (r * 64 + z0) % 256>>
        BY <1>7, <1>10, <2>3 DEF Ungroup, Pad
      <3>2. Ungroup(g) = <<b[1], b[2], b[3]>>
        BY <1>7, <2>3, <3>1
      <3> QED  BY <2>3, <3>2
    <2> QED  BY <2>1, <2>2, <2>3
  <1> QED  BY <1>10, <1>11, <1>12 DEF g

Bits24(x, y, z) == x * 65536 + y * 256 + z

LEMMA Renumbered ==
  ASSUME NEW p \in 0..63, NEW q1 \in 0..3, NEW q0 \in 0..15, NEW r1 \in 0..15, NEW r0 \in 0..3, NEW s \in 0..63,
         NEW q, q = 16 * q1 + q0, NEW r, r = 4 * r1 + r0
  PROVE  Made(Bits24(4 * p + q1, 16 * q0 + r1, 64 * r0 + s), p, q, r, s)
  BY SMT DEF Made, Bits24

\* Up to three bytes, in the number that they make.
Grouped(n, l) == <<(n \div 262144) % 64, (n \div 4096) % 64, IF l > 1 THEN (n \div 64) % 64 ELSE Pad,
                   IF l > 2 THEN n % 64 ELSE Pad>>

LEMMA GroupIs ==
  /\ \A x \in Chars : Group(<<x>>) = Grouped(Bits24(x, 0, 0), 1)
  /\ \A x \in Chars, y \in Chars : Group(<<x, y>>) = Grouped(Bits24(x, y, 0), 2)
  /\ \A x \in Chars, y \in Chars, z \in Chars : Group(<<x, y, z>>) = Grouped(Bits24(x, y, z), 3)
  <1>1. ASSUME NEW x \in Chars PROVE Group(<<x>>) = Grouped(Bits24(x, 0, 0), 1)
    <2>1. Len(<<x>>) = 1 /\ <<x>>[1] = x
      OBVIOUS
    <2> QED  BY <2>1 DEF Group, Grouped, Bits24
  <1>2. ASSUME NEW x \in Chars, NEW y \in Chars PROVE Group(<<x, y>>) = Grouped(Bits24(x, y, 0), 2)
    <2>1. Len(<<x, y>>) = 2 /\ <<x, y>>[1] = x /\ <<x, y>>[2] = y
      OBVIOUS
    <2> QED  BY <2>1 DEF Group, Grouped, Bits24
  <1>3. ASSUME NEW x \in Chars, NEW y \in Chars, NEW z \in Chars
        PROVE  Group(<<x, y, z>>) = Grouped(Bits24(x, y, z), 3)
    <2>1. Len(<<x, y, z>>) = 3 /\ <<x, y, z>>[1] = x /\ <<x, y, z>>[2] = y /\ <<x, y, z>>[3] = z
      OBVIOUS
    <2> QED  BY <2>1 DEF Group, Grouped, Bits24
  <1> QED  BY <1>1, <1>2, <1>3

\* A group as an encoder writes it.
Tidy(g) ==
  /\ g[3] = Pad => g[4] = Pad /\ g[2] % 16 = 0
  /\ g[3] # Pad /\ g[4] = Pad => g[3] % 4 = 0

\* A group that is not refused is one to three bytes, and a tidy one their group.
LEMMA UngroupBack ==
  ASSUME NEW g \in Seq(0..Other), Len(g) = 4, Sextets(g)
  PROVE  /\ Ungroup(g) \in Seq(Chars) /\ Len(Ungroup(g)) \in 1..3
         /\ (g[3] = Pad \/ g[4] = Pad) <=> Len(Ungroup(g)) # 3
         /\ Tidy(g) => Group(Ungroup(g)) = g
  <1>1. g[1] \in 0..65 /\ g[2] \in 0..65 /\ g[3] \in 0..65 /\ g[4] \in 0..65
    <2>1. \A i \in 1..Len(g) : g[i] \in 0..Other
      BY ElementOfSeq
    <2>2. 1 \in 1..Len(g) /\ 2 \in 1..Len(g) /\ 3 \in 1..Len(g) /\ 4 \in 1..Len(g)
      OBVIOUS
    <2> QED  BY <2>1, <2>2 DEF Other
  <1>2. g = <<g[1], g[2], g[3], g[4]>>
    OBVIOUS
  <1> DEFINE p == g[1]
             q == g[2]
             r == IF g[3] = 64 THEN 0 ELSE g[3]
             s == IF g[3] = 64 \/ g[4] = 64 THEN 0 ELSE g[4]
  <1>3. p \in 0..63 /\ q \in 0..63 /\ r \in 0..63 /\ s \in 0..63
    <2>1. g[1] < 64 /\ g[2] < 64 /\ (g[3] # 64 => g[3] < 64 /\ g[4] # 65)
      BY DEF Sextets, Pad, Other
    <2>2. \A v \in 0..65 : v < 64 \/ (v # 64 /\ v # 65) => v \in 0..63
      OBVIOUS
    <2>3. g[1] \in 0..63 /\ g[2] \in 0..63 /\ (g[3] # 64 => g[3] \in 0..63 /\ (g[4] # 64 => g[4] \in 0..63))
      BY <1>1, <2>1, <2>2
    <2> QED  BY <2>3
  <1>4. /\ g[1] = p /\ g[2] = q
        /\ g[3] # 64 => g[3] = r /\ (g[4] # 64 => g[4] = s)
        /\ g[3] = 64 => r = 0 /\ s = 0
        /\ g[4] = 64 => s = 0
    OBVIOUS
  <1> HIDE DEF p, q, r, s
  <1>5. PICK q1 \in 0..3, q0 \in 0..15 : q = 16 * q1 + q0
    BY <1>3, Halves
  <1>6. PICK r1 \in 0..15, r0 \in 0..3 : r = 4 * r1 + r0
    BY <1>3, Halves
  <1> DEFINE x == 4 * p + q1
             y == 16 * q0 + r1
             z == 64 * r0 + s
             n == Bits24(x, y, z)
  <1>7. x \in Chars /\ y \in Chars /\ z \in Chars
    BY <1>3 DEF Chars
  <1>8. Joined(p, q, r, s, x, y, z)
    BY <1>3, <1>5, <1>6, BytesOf
  <1>9. Split(n, p, q, r, s)
    <2>1. Made(n, p, q, r, s)
      BY <1>3, <1>5, <1>6, Renumbered
    <2> HIDE DEF n
    <2> QED  BY <1>3, <2>1, SextetsOf
  <1> HIDE DEF x, y, z
  <1>10. CASE g[3] = 64
    <2>1. Ungroup(g) = <<x>>
      BY <1>4, <1>8, <1>10 DEF Ungroup, Pad, Joined
    <2>2. ASSUME Tidy(g) PROVE Group(<<x>>) = g
      <3>1. g[4] = 64 /\ q0 = 0 /\ r = 0 /\ s = 0 /\ r1 = 0 /\ r0 = 0
        <4>1. g[4] = 64 /\ q % 16 = 0 /\ r = 0 /\ s = 0
          BY <1>4, <1>10, <2>2 DEF Tidy, Pad
        <4> QED  BY <4>1, <1>5, <1>6
      <3>2. y = 0 /\ z = 0
        BY <3>1 DEF y, z
      <3>3. Group(<<x>>) = Grouped(n, 1)
        BY <1>7, <3>2, GroupIs
      <3> HIDE DEF n
      <3>4. Grouped(n, 1) = <<p, q, 64, 64>>
        BY <1>9 DEF Grouped, Split, Pad
      <3> QED  BY <1>2, <1>4, <1>10, <3>1, <3>3, <3>4
    <2>3. <<x>> \in Seq(Chars) /\ Len(<<x>>) = 1
      BY <1>7
    <2> QED  BY <1>10, <2>1, <2>2, <2>3 DEF Pad
  <1>11. CASE g[3] # 64 /\ g[4] = 64
    <2>1. Ungroup(g) = <<x, y>>
      BY <1>4, <1>8, <1>11 DEF Ungroup, Pad, Joined
    <2>2. ASSUME Tidy(g) PROVE Group(<<x, y>>) = g
      <3>1. s = 0 /\ r0 = 0
        <4>1. r % 4 = 0 /\ s = 0
          BY <1>4, <1>11, <2>2 DEF Tidy, Pad
        <4> QED  BY <4>1, <1>6
      <3>2. z = 0
        BY <3>1 DEF z
      <3>3. Group(<<x, y>>) = Grouped(n, 2)
        BY <1>7, <3>2, GroupIs
      <3> HIDE DEF n
      <3>4. Grouped(n, 2) = <<p, q, r, 64>>
        BY <1>9 DEF Grouped, Split, Pad
      <3> QED  BY <1>2, <1>4, <1>11, <3>3, <3>4
    <2>3. <<x, y>> \in Seq(Chars) /\ Len(<<x, y>>) = 2
      BY <1>7
    <2> QED  BY <1>11, <2>1, <2>2, <2>3 DEF Pad
  <1>12. CASE g[3] # 64 /\ g[4] # 64
    <2>1. Ungroup(g) = <<x, y, z>>
      BY <1>4, <1>8, <1>12, ZenonT(30) DEF Ungroup, Pad, Joined
    <2>2. Group(<<x, y, z>>) = g
      <3>1. Group(<<x, y, z>>) = Grouped(n, 3)
        BY <1>7, GroupIs
      <3> HIDE DEF n
      <3>2. Grouped(n, 3) = <<p, q, r, s>>
        BY <1>9 DEF Grouped, Split, Pad
      <3> QED  BY <1>2, <1>4, <1>12, <3>1, <3>2
    <2>3. <<x, y, z>> \in Seq(Chars) /\ Len(<<x, y, z>>) = 3
      BY <1>7
    <2> QED  BY <1>12, <2>1, <2>2, <2>3 DEF Pad
  <1> QED  BY <1>10, <1>11, <1>12

\* Bytes of any number come back from their base64 text.
LEMMA DecodeOfEncode ==
  ASSUME NEW b \in Seq(Chars)
  PROVE  /\ Base64Encode(b) \in Seq(0..Other)
         /\ Base64Decode(Base64Encode(b)) = [ok |-> TRUE, val |-> b]
  <1> DEFINE s == Slices(b, 3)
             m == Len(s)
             G == [i \in 1..m |-> Group(s[i])]
             e == FlattenSeq(G)
  <1>1. s \in Seq(Seq(Chars)) /\ \A i \in 1..m : s[i] \in Seq(Chars) /\ Len(s[i]) \in 1..3
    <2>1. s \in Seq(Seq(Chars)) /\ m = Pieces(b, 3)
      BY SliceAt
    <2> HIDE DEF m, s
    <2>2. \A i \in 1..m : IsCut(Chars, b, 3 * (i - 1), Size(b, 3, i), s[i])
      BY <2>1, SliceAt DEF s
    <2>3. \A i \in 1..m : Size(b, 3, i) \in 1..3
      BY <2>1, PiecesBound
    <2> QED  BY <2>1, <2>2, <2>3 DEF IsCut
  <1>2. m \in Nat /\ s = [i \in 1..m |-> s[i]]
    BY <1>1
  <1> HIDE DEF s
  <1>3. \A i \in 1..m : /\ G[i] \in Seq(0..Other) /\ Len(G[i]) = 4 /\ Sextets(G[i])
                        /\ Ungroup(G[i]) = s[i]
    BY <1>1, GroupBack
  <1>4. G \in Seq(Seq(0..Other)) /\ Len(G) = m
    <2> DEFINE T == Seq(0..Other)
    <2>1. \A i \in 1..m : Group(s[i]) \in T
      BY <1>3
    <2> HIDE DEF T, m
    <2>2. G \in Seq(T) /\ Len(G) = m
      BY <1>2, <2>1
    <2> QED  BY <2>2 DEF T
  <1> HIDE DEF G, m
  <1>5. AllButLast(G, 4)
    <2>1. ASSUME NEW i \in 1..m PROVE Len(G[i]) \in 1..4
      <3>1. Len(G[i]) = 4
        BY <1>3
      <3> QED  BY <3>1
    <2> QED  BY <1>3, <1>4, <2>1 DEF AllButLast
  <1>6. /\ e \in Seq(0..Other) /\ Slices(e, 4) = G
        /\ G = <<>> => Len(e) = 0
        /\ G # <<>> => Len(e) = 4 * (Len(G) - 1) + Len(G[Len(G)])
    <2> HIDE DEF e
    <2>1. 4 \in {3, 4}
      OBVIOUS
    <2> QED  BY <1>4, <1>5, <2>1, SlicesOfFlat DEF e
  <1> HIDE DEF e
  <1>7. Len(e) % 4 = 0
    <2>1. CASE G = <<>>
      BY <1>6, <2>1
    <2>2. CASE G # <<>>
      <3>1. m \in 1..m
        BY <1>2, <1>4, <2>2
      <3>2. Len(G[m]) = 4 /\ Len(e) = 4 * (m - 1) + Len(G[m])
        BY <1>3, <1>4, <1>6, <2>2, <3>1
      <3>3. Len(e) = 4 * m
        BY <1>2, <3>2
      <3> QED  BY <1>2, <3>3
    <2> QED  BY <2>1, <2>2
  <1>8. [i \in 1..Len(G) |-> Ungroup(G[i])] = s
    BY <1>2, <1>3, <1>4
  <1>9. FlattenSeq(s) = b
    BY FlatOfSlices DEF s
  <1>10. Base64Decode(e) = [ok |-> TRUE, val |-> b]
    BY <1>3, <1>4, <1>6, <1>7, <1>8, <1>9 DEF Base64Decode
  <1>11. e = Base64Encode(b)
    BY DEF Base64Encode, e, G, m, s
  <1> QED  BY <1>6, <1>10, <1>11

\* Text that is not refused is made of groups of four.
LEMMA GroupsOf ==
  ASSUME NEW t \in Seq(0..Other), Len(t) % 4 = 0
  PROVE  /\ Slices(t, 4) \in Seq(Seq(0..Other))
         /\ \A i \in 1..Len(Slices(t, 4)) :
              /\ IsCut(0..Other, t, 4 * (i - 1), 4, Slices(t, 4)[i])
              /\ i < Len(Slices(t, 4)) => 4 * i + 4 <= Len(t)
              /\ i = Len(Slices(t, 4)) => 4 * i = Len(t)
  <1> DEFINE g == Slices(t, 4)
             m == Pieces(t, 4)
  <1>1. /\ g \in Seq(Seq(0..Other)) /\ Len(g) = m
        /\ \A i \in 1..m : IsCut(0..Other, t, 4 * (i - 1), Size(t, 4, i), g[i])
    BY SliceAt
  <1>2. /\ m \in Nat /\ Len(t) <= 4 * m /\ 4 * m < Len(t) + 4
        /\ \A i \in 1..m : i < m => Size(t, 4, i) = 4
    BY PiecesBound
  <1> HIDE DEF g, m
  <1>3. Len(t) = 4 * m
    BY <1>2
  <1>4. ASSUME NEW i \in 1..m
        PROVE  Size(t, 4, i) = 4 /\ (i < m => 4 * i + 4 <= Len(t)) /\ (i = m => 4 * i = Len(t))
    BY <1>2, <1>3 DEF Size
  <1> QED  BY <1>1, <1>4 DEF g

\* Text that is not refused stands for bytes, and the canonical one is their text.
LEMMA EncodeOfDecode ==
  ASSUME NEW t \in Seq(0..Other), Base64Decode(t).ok
  PROVE  /\ Base64Decode(t).val \in Seq(Chars)
         /\ Canonical(t) => Base64Encode(Base64Decode(t).val) = t
  <1> DEFINE g == Slices(t, 4)
             m == Len(g)
             U == [i \in 1..m |-> Ungroup(g[i])]
             v == FlattenSeq(U)
  <1>1. Len(t) % 4 = 0 /\ (\A i \in 1..m : Sextets(g[i])) /\ Base64Decode(t).val = v
    BY DEF Base64Decode
  <1>2. /\ g \in Seq(Seq(0..Other))
        /\ \A i \in 1..m : /\ IsCut(0..Other, t, 4 * (i - 1), 4, g[i])
                           /\ i < m => 4 * i + 4 <= Len(t)
                           /\ i = m => 4 * i = Len(t)
    BY <1>1, GroupsOf
  <1>3. m \in Nat /\ g = [i \in 1..m |-> g[i]]
    BY <1>2
  <1> HIDE DEF g
  <1>4. \A i \in 1..m : g[i] \in Seq(0..Other) /\ Len(g[i]) = 4
    BY <1>2 DEF IsCut
  <1>5. \A i \in 1..m : /\ U[i] \in Seq(Chars) /\ Len(U[i]) \in 1..3
                        /\ g[i][3] = Pad \/ g[i][4] = Pad <=> Len(U[i]) # 3
                        /\ Tidy(g[i]) => Group(U[i]) = g[i]
    BY <1>1, <1>4, UngroupBack
  <1>6. U \in Seq(Seq(Chars)) /\ Len(U) = m
    <2> DEFINE T == Seq(Chars)
    <2>1. \A i \in 1..m : Ungroup(g[i]) \in T
      BY <1>5
    <2> HIDE DEF T, m
    <2>2. U \in Seq(T) /\ Len(U) = m
      BY <1>3, <2>1
    <2> QED  BY <2>2 DEF T
  <1> HIDE DEF U, m, v
  <1>7. v \in Seq(Chars)
    <2>1. PICK P : IsFlat(Chars, U, P)
      BY <1>6, FlattenSteps
    <2> QED  BY <1>3, <1>6, <2>1 DEF IsFlat, v
  <1>8. ASSUME Canonical(t) PROVE Base64Encode(v) = t
    <2>1. ASSUME NEW i \in 1..m
          PROVE  /\ i < m => g[i][3] # Pad /\ g[i][4] # Pad
                 /\ Tidy(g[i])
      <3> DEFINE a == 4 * (i - 1)
                 h == g[i]
                 l == Len(t)
      <3>1. a \in Nat /\ l \in Nat /\ (i < m => a + 8 <= l) /\ (i = m => a + 4 = l)
        BY <1>2, <1>3
      <3>2. /\ h[2] = t[a + 2] /\ h[3] = t[a + 3] /\ h[4] = t[a + 4]
        <4>1. \A j \in 1..4 : h[j] = t[a + j]
          BY <1>2 DEF IsCut
        <4> HIDE DEF a, h
        <4> QED  BY <4>1
      <3> HIDE DEF a, h
      <3>3. \A x \in 1..l : t[x] \in 0..65
        <4>1. \A x \in 1..l : t[x] \in 0..Other
          BY ElementOfSeq
        <4> QED  BY <4>1 DEF Other
      <3>4. \A x \in 1..l :
              \/ t[x] < 64
              \/ t[x] = 64 /\ x = l /\ (t[x - 1] = 64 \/ t[x - 1] % 4 = 0)
              \/ t[x] = 64 /\ x = l - 1 /\ t[x + 1] = 64 /\ t[x - 1] < 64 /\ t[x - 1] % 16 = 0
        BY <1>8 DEF Canonical, Pad
      <3> HIDE DEF l
      <3>5. a + 3 \in 1..l /\ a + 4 \in 1..l /\ (a + 4) - 1 = a + 3 /\ (a + 3) - 1 = a + 2 /\ (a + 3) + 1 = a + 4
        BY <1>3, <3>1
      <3>6. ~(64 < 64)
        OBVIOUS
      <3>7. CASE i < m
        <4>1. a + 3 # l /\ a + 3 # l - 1 /\ a + 4 # l /\ a + 4 # l - 1
          BY <1>3, <3>1, <3>7
        <4>2. h[3] < 64 /\ h[4] < 64
          BY <3>2, <3>4, <3>5, <4>1
        <4>3. h[3] # 64 /\ h[4] # 64
          BY <3>6, <4>2
        <4> QED  BY <4>3 DEF Tidy, Pad, h
      <3>8. CASE i = m
        <4>1. a + 4 = l /\ a + 3 # l /\ a + 3 = l - 1 /\ a + 4 # l - 1
          BY <3>1, <3>8
        <4>2. h[3] = 64 => h[4] = 64 /\ h[2] % 16 = 0
          <5>1. h[3] < 64 \/ (t[(a + 3) + 1] = 64 /\ t[(a + 3) - 1] % 16 = 0)
            BY <3>2, <3>4, <3>5, <4>1
          <5> QED  BY <3>2, <3>5, <3>6, <5>1
        <4>3. h[4] = 64 /\ h[3] # 64 => h[3] % 4 = 0
          <5>1. h[4] < 64 \/ t[(a + 4) - 1] = 64 \/ t[(a + 4) - 1] % 4 = 0
            BY <3>2, <3>4, <3>5, <4>1
          <5> QED  BY <3>2, <3>5, <3>6, <5>1
        <4> QED  BY <3>8, <4>2, <4>3 DEF Tidy, Pad, h
      <3> QED  BY <1>3, <3>7, <3>8
    <2>2. AllButLast(U, 3)
      BY <1>5, <1>6, <2>1 DEF AllButLast
    <2>3. Slices(v, 3) = U
      <3>1. 3 \in {3, 4}
        OBVIOUS
      <3> QED  BY <1>6, <2>2, <3>1, SlicesOfFlat DEF v
    <2>4. [i \in 1..Len(U) |-> Group(U[i])] = g
      BY <1>3, <1>5, <1>6, <2>1
    <2>5. FlattenSeq(g) = t
      BY FlatOfSlices DEF g
    <2> QED  BY <2>3, <2>4, <2>5 DEF Base64Encode
  <1> QED  BY <1>1, <1>7, <1>8

-----------------------------------------------------------------------------
(***************************************************************************)
(* Versions.                                                                *)
(***************************************************************************)

\* Of a set of numbers up to n there is a smallest one.
LEMMA SmallestOf ==
  ASSUME NEW n \in Nat, NEW X, X \subseteq 0..n, X # {}
  PROVE  \E m \in X : \A k \in X : m <= k
  <1> DEFINE Y == {j \in 0..n : n - j \in X}
  <1>1. Y \subseteq 0..n /\ Y # {}
    <2>1. PICK k \in X : TRUE
      OBVIOUS
    <2>2. n - k \in 0..n /\ n - (n - k) = k
      OBVIOUS
    <2> QED  BY <2>2
  <1>2. PICK j \in Y : \A i \in Y : i <= j
    <2> HIDE DEF Y
    <2> QED  BY <1>1, LargestOf
  <1>3. ASSUME NEW k \in X PROVE n - j <= k
    <2>1. k \in 0..n /\ n - k \in 0..n /\ n - (n - k) = k
      OBVIOUS
    <2>2. n - k <= j
      BY <1>2, <2>1
    <2> QED  BY <2>1, <2>2
  <1> QED  BY <1>2, <1>3

LEMMA SignIs ==
  /\ \A x \in Nat, y \in Nat : Sign(x, y) \in {-1, 0, 1} /\ Sign(x, y) = -Sign(y, x)
  /\ \A x \in Nat, y \in Nat : Sign(x, y) = 0 <=> x = y
  /\ \A x \in Nat, y \in Nat : x < y => Sign(x, y) = -1 /\ Sign(y, x) = 1
  BY DEF Sign

LEMMA SegmentIs ==
  ASSUME NEW v \in Seq(Segments), NEW i \in Nat \ {0}
  PROVE  /\ Segment(v, i).num \in BOOLEAN /\ Segment(v, i).text \in Nat
         /\ Segment(v, i).val \in 0..(Int64Bound - 1) /\ Segment(v, i).val \in Nat
  <1>1. CASE i <= Len(v)
    <2>1. v[i] \in Segments /\ Segment(v, i) = v[i]
      BY <1>1 DEF Segment
    <2> QED  BY <2>1, HostAssumption DEF Segments
  <1>2. CASE ~(i <= Len(v))
    <2>1. Segment(v, i) = NoSegment
      BY <1>2 DEF Segment
    <2>2. NoSegment.num = FALSE /\ NoSegment.val = 0 /\ NoSegment.text = 0
      BY DEF NoSegment
    <2>3. 0 \in 0..(Int64Bound - 1)
      BY HostAssumption
    <2>4. FALSE \in BOOLEAN /\ 0 \in Nat
      OBVIOUS
    <2> HIDE DEF NoSegment
    <2> QED  BY <2>1, <2>2, <2>3, <2>4, Zenon
  <1> QED  BY <1>1, <1>2

\* Where two versions differ, and where they do so first.
Longer(a, b) == IF Len(a) > Len(b) THEN Len(a) ELSE Len(b)
Differ(a, b) == {i \in 1..Longer(a, b) : CompareSegments(Segment(a, i), Segment(b, i)) # 0}
First(D) == CHOOSE i \in D : \A j \in D : i <= j

LEMMA CompareIs ==
  ASSUME NEW a, NEW b
  PROVE  CompareVersions(a, b) =
           IF Differ(a, b) = {} THEN 0
           ELSE CompareSegments(Segment(a, First(Differ(a, b))), Segment(b, First(Differ(a, b))))
  BY DEF CompareVersions, Differ, Longer, First

LEMMA FirstIs ==
  ASSUME NEW a \in Seq(Segments), NEW b \in Seq(Segments), Differ(a, b) # {}
  PROVE  /\ First(Differ(a, b)) \in Differ(a, b)
         /\ \A j \in Differ(a, b) : First(Differ(a, b)) <= j
  <1> DEFINE D == Differ(a, b)
             n == Longer(a, b)
  <1>1. n \in Nat /\ D \subseteq 0..n
    BY DEF Differ, Longer
  <1> HIDE DEF D, n
  <1>2. \E i \in D : \A j \in D : i <= j
    BY <1>1, SmallestOf DEF D
  <1> QED  BY <1>2 DEF First, D

LEMMA CompareBack ==
  ASSUME NEW a \in Seq(Segments), NEW b \in Seq(Segments)
  PROVE  CompareVersions(a, b) = -CompareVersions(b, a)
  <1>1. ASSUME NEW i \in Nat \ {0}
        PROVE  /\ CompareSegments(Segment(a, i), Segment(b, i)) = -CompareSegments(Segment(b, i), Segment(a, i))
               /\ CompareSegments(Segment(b, i), Segment(a, i)) \in {-1, 0, 1}
    <2>1. /\ Segment(a, i).num \in BOOLEAN /\ Segment(a, i).text \in Nat /\ Segment(a, i).val \in Nat
          /\ Segment(b, i).num \in BOOLEAN /\ Segment(b, i).text \in Nat /\ Segment(b, i).val \in Nat
      BY SegmentIs
    <2> QED  BY <2>1, SignIs DEF CompareSegments
  <1>2. Longer(a, b) \in Nat /\ Longer(a, b) = Longer(b, a)
    BY DEF Longer
  <1> DEFINE D == Differ(a, b)
  <1>3. Differ(b, a) = D
    <2>1. \A i \in 1..Longer(a, b) : CompareSegments(Segment(a, i), Segment(b, i)) # 0
                                       <=> CompareSegments(Segment(b, i), Segment(a, i)) # 0
      BY <1>1, <1>2
    <2> QED  BY <1>2, <2>1 DEF Differ
  <1>4. CASE D = {}
    <2>1. CompareVersions(a, b) = 0 /\ CompareVersions(b, a) = 0
      BY <1>3, <1>4, CompareIs
    <2>2. \A x \in Int, y \in Int : x + y = 0 => x = -y
      OBVIOUS
    <2>3. 0 \in Int /\ 0 + 0 = 0
      OBVIOUS
    <2> QED  BY <2>1, <2>2, <2>3, Zenon
  <1>5. CASE D # {}
    <2>1. First(D) \in Nat \ {0}
      <3>1. First(D) \in D
        BY <1>5, FirstIs
      <3> QED  BY <1>2, <3>1 DEF Differ
    <2> QED  BY <1>1, <1>3, <1>5, <2>1, CompareIs
  <1> QED  BY <1>4, <1>5

\* The number that digits in a base are, from the first on.
Horner(l, B, v, f) ==
  f \in [0..l -> Nat] /\ f[0] = 0 /\ \A i \in 1..l : f[i] = f[i - 1] * B + v[i]

LEMMA WeightSteps ==
  ASSUME NEW v \in Seq(Segments)
  PROVE  \E f : Horner(Len(v), Int64Bound, [i \in 1..Len(v) |-> v[i].val], f) /\ Weight(v) = f[Len(v)]
  <1> DEFINE n == Len(v)
             B == Int64Bound
             F == [i \in 1..n |-> [x \in Nat |-> x * B + v[i].val]]
             G(f) == [i \in 0..n |-> IF i = 0 THEN 0 ELSE f[i - 1] * B + v[i].val]
             R == CHOOSE g : g = G(g)
  <1>1. n \in Nat /\ B \in Nat /\ \A i \in 1..n : v[i].val \in Nat
    <2>1. \A i \in 1..n : v[i] \in Segments
      OBVIOUS
    <2>2. Int64Bound \in Nat \ {0} /\ \A x \in 0..(Int64Bound - 1) : x \in Nat
      BY HostAssumption
    <2> QED  BY <2>1, <2>2 DEF Segments
  <1> HIDE DEF n, B
  <1>2. F \in [1..n -> [Nat -> Nat]]
    <2>1. ASSUME NEW i \in 1..n, NEW x \in Nat PROVE x * B + v[i].val \in Nat
      BY <1>1
    <2> QED  BY <2>1
  <1>3. PICK f \in [0..n -> Nat] : f[0] = 0 /\ \A i \in 1..n : f[i] = F[i][f[i - 1]]
    <2> HIDE DEF F
    <2>1. Paths(n, Nat, 0, F) # {}
      BY <1>1, <1>2, PathExists
    <2> QED  BY <2>1 DEF Paths
  <1>4. \A i \in 1..n : f[i] = f[i - 1] * B + v[i].val
    <2> SUFFICES ASSUME NEW i \in 1..n PROVE f[i] = f[i - 1] * B + v[i].val
      OBVIOUS
    <2>1. i - 1 \in 0..n
      BY <1>1
    <2> QED  BY <1>3, <2>1
  <1>5. f = G(f)
    <2> HIDE DEF F
    <2>1. \A i \in 0..n : f[i] = G(f)[i]
      BY <1>1, <1>3, <1>4
    <2> QED  BY <1>3, <2>1
  <1>6. R = G(R)
    <2> HIDE DEF G
    <2> QED  BY <1>5
  <1>7. Weight(v) = R[n]
    BY DEF Weight, n, B
  <1> HIDE DEF R
  <1>8. R[0] = 0 /\ \A i \in 1..n : R[i] = R[i - 1] * B + v[i].val
    BY <1>1, <1>6
  <1>9. R[n] = f[n]
    <2>1. GoesAlike(n, R, f)
      BY <1>3, <1>4, <1>8 DEF GoesAlike
    <2>2. Alike(n, R, f)
      BY <1>1, <2>1, SameUpTo
    <2> QED  BY <1>1, <2>2 DEF Alike
  <1>10. Horner(n, B, [i \in 1..n |-> v[i].val], f)
    BY <1>3, <1>4 DEF Horner
  <1> QED  BY <1>7, <1>9, <1>10 DEF n, B

\* Numbers whose digits are the same up to d are the same up to there.
LEMMA SameDigits ==
  ASSUME NEW l \in Nat, NEW B, NEW v, NEW w, NEW f, NEW g, Horner(l, B, v, f), Horner(l, B, w, g),
         NEW d \in 0..l, \A i \in 1..d : v[i] = w[i]
  PROVE  f[d] = g[d]
  <1>1. ASSUME NEW i \in 1..d, f[i - 1] = g[i - 1] PROVE f[i] = g[i]
    <2>1. i \in 1..l
      OBVIOUS
    <2> QED  BY <1>1, <2>1 DEF Horner
  <1>2. GoesAlike(d, f, g)
    BY <1>1 DEF GoesAlike, Horner
  <1>3. Alike(d, f, g)
    BY <1>2, SameUpTo
  <1> QED  BY <1>3 DEF Alike

\* The first digit that differs decides.
LEMMA FirstDigit ==
  ASSUME NEW l \in Nat, NEW B \in Nat \ {0}, NEW v, NEW w, NEW f, NEW g, Horner(l, B, v, f), Horner(l, B, w, g),
         \A i \in 1..l : v[i] \in 0..(B - 1) /\ w[i] \in 0..(B - 1),
         NEW d \in 1..l, \A i \in 1..(d - 1) : v[i] = w[i], v[d] < w[d]
  PROVE  f[l] < g[l]
  <1> DEFINE T == {i \in 0..l : i >= d => f[i] < g[i]}
  <1>1. 0 \in T
    OBVIOUS
  <1>2. ASSUME NEW i \in 0..(l - 1), i \in T PROVE i + 1 \in T
    <2>1. i + 1 \in 1..l /\ (i + 1) - 1 = i /\ i \in 0..l
      OBVIOUS
    <2> DEFINE a == f[i]
               b == g[i]
               x == v[i + 1]
               y == w[i + 1]
    <2>2. a \in Nat /\ b \in Nat /\ f[i + 1] = a * B + x /\ g[i + 1] = b * B + y
      BY <2>1 DEF Horner
    <2>3. x \in Nat /\ x < B /\ y \in Nat
      <3>1. x \in 0..(B - 1) /\ y \in 0..(B - 1)
        BY <2>1
      <3> HIDE DEF x, y
      <3> QED  BY <3>1
    <2>4. CASE i + 1 < d
      BY <2>1, <2>4
    <2>5. CASE i + 1 = d
      <3>1. a = b
        <4>1. i \in 0..l /\ \A j \in 1..i : v[j] = w[j]
          BY <2>5
        <4> HIDE DEF a, b
        <4> QED  BY <4>1, SameDigits DEF a, b
      <3>2. x < y
        BY <2>5
      <3> HIDE DEF a, b, x, y
      <3>3. a * B \in Nat
        BY <2>2
      <3>4. a * B + x < b * B + y
        BY <2>3, <3>1, <3>2, <3>3
      <3> QED  BY <2>1, <2>2, <3>4
    <2>6. CASE i + 1 > d
      <3>1. a < b
        BY <1>2, <2>6
      <3> HIDE DEF a, b, x, y
      <3>2. a * B + B <= b * B
        BY <2>2, <3>1, Times
      <3>3. a * B \in Nat /\ b * B \in Nat
        BY <2>2
      <3>4. a * B + x < b * B + y
        BY <2>3, <3>2, <3>3
      <3> QED  BY <2>1, <2>2, <3>4
    <2> QED  BY <2>4, <2>5, <2>6
  <1>3. l \in T
    <2> HIDE DEF T
    <2>1. \A i \in 0..l : i \in T
      BY <1>1, <1>2, UpTo
    <2> QED  BY <2>1
  <1> QED  BY <1>3

\* Numeric segments, as many of one version as of the other, are compared as digits.
LEMMA CompareDigits ==
  ASSUME NEW a \in Seq(Segments), NEW b \in Seq(Segments), Len(a) = Len(b),
         \A i \in 1..Len(a) : a[i].num /\ b[i].num
  PROVE  CompareVersions(a, b) = Sign(Weight(a), Weight(b))
  <1> DEFINE l == Len(a)
             B == Int64Bound
             v == [i \in 1..l |-> a[i].val]
             w == [i \in 1..l |-> b[i].val]
             D == Differ(a, b)
             d == First(D)
  <1>1. l \in Nat /\ l = Len(b) /\ B \in Nat \ {0}
    BY HostAssumption
  <1>2. ASSUME NEW i \in 1..l
        PROVE  /\ v[i] \in 0..(B - 1) /\ w[i] \in 0..(B - 1) /\ v[i] \in Nat /\ w[i] \in Nat
               /\ CompareSegments(Segment(a, i), Segment(b, i)) = Sign(v[i], w[i])
    <2>1. i \in Nat \ {0} /\ i <= Len(a) /\ i <= Len(b)
      BY <1>1
    <2>2. Segment(a, i) = a[i] /\ Segment(b, i) = b[i]
      BY <2>1 DEF Segment
    <2>3. a[i].val \in 0..(B - 1) /\ b[i].val \in 0..(B - 1) /\ a[i].val \in Nat /\ b[i].val \in Nat
      BY <2>1, <2>2, SegmentIs
    <2>4. a[i].num /\ b[i].num
      OBVIOUS
    <2> HIDE DEF l
    <2> QED  BY <2>2, <2>3, <2>4 DEF CompareSegments
  <1>3. PICK f : Horner(l, B, v, f) /\ Weight(a) = f[l]
    BY WeightSteps
  <1>4. PICK g : Horner(l, B, w, g) /\ Weight(b) = g[l]
    BY <1>1, WeightSteps
  <1>5. Longer(a, b) = l
    BY <1>1 DEF Longer
  <1> HIDE DEF l, B, v, w
  <1>6. f[l] \in Nat /\ g[l] \in Nat
    BY <1>1, <1>3, <1>4 DEF Horner
  <1>7. D = {i \in 1..l : v[i] # w[i]}
    <2>1. \A i \in 1..l : Sign(v[i], w[i]) # 0 <=> v[i] # w[i]
      BY <1>2, SignIs
    <2> QED  BY <1>2, <1>5, <2>1 DEF Differ
  <1>8. CASE D = {}
    <2>1. \A i \in 1..l : v[i] = w[i]
      BY <1>7, <1>8
    <2>2. l \in 0..l
      BY <1>1
    <2>3. f[l] = g[l]
      BY <1>1, <1>3, <1>4, <2>1, <2>2, SameDigits
    <2>4. CompareVersions(a, b) = 0
      BY <1>8, CompareIs
    <2> QED  BY <1>3, <1>4, <1>6, <2>3, <2>4, SignIs
  <1>9. CASE D # {}
    <2>1. d \in D /\ \A j \in D : d <= j
      BY <1>9, FirstIs
    <2>2. CompareVersions(a, b) = CompareSegments(Segment(a, d), Segment(b, d))
      BY <1>9, CompareIs
    <2> HIDE DEF d, D
    <2>3. d \in 1..l /\ v[d] # w[d]
      BY <1>7, <2>1
    <2>4. \A i \in 1..(d - 1) : v[i] = w[i]
      <3> SUFFICES ASSUME NEW i \in 1..(d - 1), v[i] # w[i] PROVE FALSE
        OBVIOUS
      <3>1. i \in 1..l /\ ~(d <= i)
        BY <1>1, <2>3
      <3> QED  BY <1>7, <2>1, <3>1
    <2>5. CompareVersions(a, b) = Sign(v[d], w[d]) /\ v[d] \in Nat /\ w[d] \in Nat
      BY <1>2, <2>2, <2>3
    <2>6. CASE v[d] < w[d]
      <3>1. f[l] < g[l]
        BY <1>1, <1>2, <1>3, <1>4, <2>3, <2>4, <2>6, FirstDigit
      <3> QED  BY <1>3, <1>4, <1>6, <2>5, <2>6, <3>1, SignIs
    <2>7. CASE w[d] < v[d]
      <3>1. g[l] < f[l]
        <4>1. \A i \in 1..(d - 1) : w[i] = v[i]
          BY <2>4
        <4> QED  BY <1>1, <1>2, <1>3, <1>4, <2>3, <4>1, <2>7, FirstDigit
      <3> QED  BY <1>3, <1>4, <1>6, <2>5, <2>7, <3>1, SignIs
    <2>8. v[d] < w[d] \/ w[d] < v[d]
      BY <2>3, <2>5
    <2> QED  BY <2>6, <2>7, <2>8
  <1> QED  BY <1>8, <1>9

\* The bytes of a $bytes string, to a column and back.
LEMMA BytesBack ==
  ASSUME NEW t \in Seq(0..Other), NEW a, a = ValueToJson(BytesValue(t))
  PROVE  IF ~Base64Decode(t).ok THEN a = [type |-> "null", val |-> <<>>]
         ELSE /\ a.type = "bytes" /\ Base64Decode(a.val) = Base64Decode(t)
              /\ Canonical(t) => a = [type |-> "bytes", val |-> t]
  <1> DEFINE b == Base64Decode(t)
  <1>1. BytesValue(t) = IF b.ok THEN [tag |-> "bytes", val |-> b.val] ELSE [tag |-> "null", val |-> <<>>]
    BY DEF BytesValue
  <1>2. b.ok \in BOOLEAN /\ (b.ok => b = [ok |-> TRUE, val |-> b.val])
    BY DEF Base64Decode
  <1> HIDE DEF b
  <1>3. CASE ~b.ok
    <2>1. BytesValue(t) = [tag |-> "null", val |-> <<>>]
      BY <1>1, <1>3
    <2>2. a = [type |-> "null", val |-> <<>>]
      BY <2>1 DEF ValueToJson
    <2> QED  BY <1>3, <2>2 DEF b
  <1>4. CASE b.ok
    <2>1. BytesValue(t) = [tag |-> "bytes", val |-> b.val]
      BY <1>1, <1>4
    <2>2. a = [type |-> "bytes", val |-> Base64Encode(b.val)]
      BY <2>1 DEF ValueToJson
    <2>3. b.val \in Seq(Chars) /\ (Canonical(t) => Base64Encode(b.val) = t)
      BY <1>4, EncodeOfDecode DEF b
    <2>4. Base64Decode(Base64Encode(b.val)) = b
      BY <1>2, <1>4, <2>3, DecodeOfEncode
    <2>5. a.type = "bytes" /\ Base64Decode(a.val) = b
      BY <2>2, <2>4
    <2>6. Canonical(t) => a = [type |-> "bytes", val |-> t]
      BY <2>2, <2>3
    <2> QED  BY <1>4, <2>5, <2>6 DEF b
  <1> QED  BY <1>2, <1>3, <1>4

\* An integer, to int64 and back: as it was, or 2^64 less.
LEMMA IntegerBack ==
  ASSUME NEW n \in -Int64Bound..(2 * Int64Bound - 1)
  PROVE  /\ n < Int64Bound => ToInt64(n) = n
         /\ n >= Int64Bound => ToInt64(n) \in -Int64Bound..-1 /\ n - ToInt64(n) = 2 * Int64Bound
  <1>1. Int64Bound \in Nat \ {0}
    BY HostAssumption
  <1> QED  BY <1>1 DEF ToInt64

\* A value of any other type, from JSON to a column and back.
LEMMA ValueBack ==
  ASSUME NEW json, json = [type |-> json.type, val |-> json.val],
         json.type = "null" => json.val = <<>>,
         NEW a, a = ValueToJson(JsonToValue(json))
  PROVE  /\ json.type \in {"array", "object"} => a.type = "string"
         /\ json.type \in {"null", "boolean", "float", "string"} => a = json
         /\ json.type = "integer" => a = [type |-> "integer", val |-> ToInt64(json.val)]
  <1>1. CASE json.type \in {"array", "object"}
    <2>1. JsonToValue(json).tag = "string"
      BY <1>1 DEF JsonToValue
    <2> QED  BY <1>1, <2>1 DEF ValueToJson
  <1>2. CASE json.type = "null"
    <2>1. JsonToValue(json) = [tag |-> "null", val |-> <<>>]
      BY <1>2 DEF JsonToValue
    <2> QED  BY <1>2, <2>1 DEF ValueToJson
  <1>3. CASE json.type = "boolean"
    <2>1. JsonToValue(json) = [tag |-> "bool", val |-> json.val]
      BY <1>3 DEF JsonToValue
    <2> QED  BY <1>3, <2>1 DEF ValueToJson
  <1>4. CASE json.type = "integer"
    <2>1. JsonToValue(json) = [tag |-> "int64", val |-> ToInt64(json.val)]
      BY <1>4 DEF JsonToValue
    <2> QED  BY <1>4, <2>1 DEF ValueToJson
  <1>5. CASE json.type = "float"
    <2>1. JsonToValue(json) = [tag |-> "double", val |-> json.val]
      BY <1>5 DEF JsonToValue
    <2> QED  BY <1>5, <2>1 DEF ValueToJson
  <1>6. CASE json.type = "string"
    <2>1. JsonToValue(json) = [tag |-> "string", val |-> json.val]
      BY <1>6 DEF JsonToValue
    <2> QED  BY <1>6, <2>1 DEF ValueToJson
  <1> QED  BY <1>1, <1>2, <1>3, <1>4, <1>5, <1>6

HostInv ==
  /\ call \in Calls
  /\ answer # Pending =>
       /\ call.of = "value" => answer = ValueToJson(JsonToValue(call.json))
       /\ call.of = "versions" => answer = <<CompareVersions(call.a, call.b), CompareVersions(call.b, call.a)>>

\* What has been answered is what JsonToRow, RowToJson and CompareVersions make of
\* the call.
THEOREM HostInvariant == HostSpec => []HostInv
  <1>1. CallInit => HostInv
    BY DEF CallInit, HostInv
  <1>2. HostInv /\ [HostNext]_callVars => HostInv'
    <2> SUFFICES ASSUME HostInv, [HostNext]_callVars PROVE HostInv'
      OBVIOUS
    <2>1. CASE StoreValue /\ UNCHANGED call
      <3>1. call.of # "versions"
        BY <2>1 DEF StoreValue, Called
      <3> QED  BY <2>1, <3>1 DEF HostInv, StoreValue
    <2>2. CASE Compare /\ UNCHANGED call
      <3>1. call.of # "value"
        BY <2>2 DEF Compare, Called
      <3> QED  BY <2>2, <3>1 DEF HostInv, Compare
    <2>3. CASE UNCHANGED callVars
      BY <2>3 DEF HostInv, callVars
    <2> QED  BY <2>1, <2>2, <2>3 DEF HostNext
  <1> QED  BY <1>1, <1>2, PTL DEF HostSpec

\* What a reducer reads back of a JSON value it stored: the value itself, but for
\* integers that int64 does not hold, which wrap, for the keys beside $bytes, which
\* are lost, and for nested values, which become text (JsonToRow, RowToJson,
\* Base64Encode, Base64Decode).
THEOREM ValuesKept == HostSpec => []ValuesSurvive
  <1>1. HostInv => ValuesSurvive
    <2> SUFFICES ASSUME HostInv, Answered("value") PROVE ValuesSurvive
      BY DEF ValuesSurvive
    <2> DEFINE json == call.json
               Recovers(t) == IF ~Base64Decode(t).ok THEN answer = [type |-> "null", val |-> <<>>]
                              ELSE /\ answer.type = "bytes" /\ Base64Decode(answer.val) = Base64Decode(t)
                                   /\ Canonical(t) => answer = [type |-> "bytes", val |-> t]
    <2>1. call \in Calls /\ call.of = "value" /\ answer = ValueToJson(JsonToValue(json))
      BY DEF HostInv, Answered
    <2>2. IsJson(json)
      BY <2>1, HostAssumption
    <2> HIDE DEF json
    <2>3. /\ json = [type |-> json.type, val |-> json.val]
          /\ json.type \in {"null", "boolean", "integer", "float", "string", "bytes", "mixed", "array", "object"}
          /\ json.type = "null" => json.val = <<>>
      BY <2>2 DEF IsJson
    <2>4. /\ json.type \in {"array", "object"} => answer.type = "string"
          /\ json.type \in {"null", "boolean", "float", "string"} => answer = json
          /\ json.type = "integer" => answer = [type |-> "integer", val |-> ToInt64(json.val)]
      BY <2>1, <2>3, ValueBack
    <2>5. ASSUME json.type = "integer"
          PROVE  /\ json.val < Int64Bound => answer = json
                 /\ json.val >= Int64Bound =>
                      /\ answer = [type |-> "integer", val |-> answer.val] /\ answer.val \in -Int64Bound..-1
                      /\ json.val - answer.val = 2 * Int64Bound
      <3>1. json.val \in -Int64Bound..(2 * Int64Bound - 1)
        BY <2>2, <2>5 DEF IsJson
      <3>2. answer = [type |-> "integer", val |-> ToInt64(json.val)] /\ answer.val = ToInt64(json.val)
        BY <2>4, <2>5
      <3>3. json.val < Int64Bound => answer = json
        BY <2>3, <2>5, <3>1, <3>2, IntegerBack
      <3> QED  BY <3>1, <3>2, <3>3, IntegerBack
    <2>6. ASSUME json.type = "bytes" PROVE Recovers(json.val)
      <3>1. json.val \in Seq(0..Other)
        BY <2>2, <2>6 DEF IsJson
      <3>2. answer = ValueToJson(BytesValue(json.val))
        BY <2>1, <2>6 DEF JsonToValue
      <3> QED  BY <3>1, <3>2, BytesBack
    <2>7. ASSUME json.type = "mixed" PROVE Recovers(json.val.bytes)
      <3>1. json.val.bytes \in Seq(0..Other)
        BY <2>2, <2>7 DEF IsJson
      <3>2. answer = ValueToJson(BytesValue(json.val.bytes))
        BY <2>1, <2>7 DEF JsonToValue
      <3> QED  BY <3>1, <3>2, BytesBack
    <2>8. CASE json.type \in {"array", "object"}
      BY <2>4, <2>8 DEF ValuesSurvive, json
    <2>9. CASE json.type = "integer"
      BY <2>5, <2>9 DEF ValuesSurvive, json
    <2>10. CASE json.type = "bytes"
      BY <2>6, <2>10 DEF ValuesSurvive, json
    <2>11. CASE json.type = "mixed"
      BY <2>7, <2>11 DEF ValuesSurvive, json
    <2>12. CASE json.type \in {"null", "boolean", "float", "string"}
      BY <2>4, <2>12 DEF ValuesSurvive, json
    <2> QED  BY <2>3, <2>8, <2>9, <2>10, <2>11, <2>12
  <1> QED  BY <1>1, HostInvariant, PTL

\* CompareVersions orders versions of numeric segments by their numbers, whatever
\* their length, and of any two versions at most one is newer.
THEOREM VersionsCompared == HostSpec => []VersionsOrdered
  <1>1. HostInv => VersionsOrdered
    <2> SUFFICES ASSUME HostInv, Answered("versions") PROVE VersionsOrdered
      BY DEF VersionsOrdered
    <2> DEFINE a == call.a
               b == call.b
    <2>1. call \in Calls /\ call.of = "versions" /\ answer = <<CompareVersions(a, b), CompareVersions(b, a)>>
      BY DEF HostInv, Answered
    <2>2. a \in Seq(Segments) /\ b \in Seq(Segments)
      BY <2>1, HostAssumption
    <2>3. answer[1] = CompareVersions(a, b) /\ answer[2] = CompareVersions(b, a)
      BY <2>1
    <2> HIDE DEF a, b
    <2>4. answer[1] = -answer[2]
      BY <2>2, <2>3, CompareBack
    <2>5. Len(a) = Len(b) /\ (\A i \in 1..Len(a) : a[i].num /\ b[i].num) => answer[1] = Sign(Weight(a), Weight(b))
      BY <2>2, <2>3, CompareDigits
    <2> QED  BY <2>4, <2>5 DEF VersionsOrdered, a, b
  <1> QED  BY <1>1, HostInvariant, PTL

-----------------------------------------------------------------------------
(***************************************************************************)
(* LIKE.                                                                    *)
(***************************************************************************)

\* Where an item of a regex can end, from where those before it can.
Next1(text, item, X) ==
  IF item.many
  THEN {i \in 0..Len(text) : \E k \in X : k <= i /\ \A m \in (k + 1)..i : Takes(item, text[m])}
  ELSE {i \in 1..Len(text) : i - 1 \in X /\ Takes(item, text[i])}

IsEnds(text, regex, f) ==
  /\ f[0] = {0} /\ \A j \in 1..Len(regex) : f[j] = Next1(text, regex[j], f[j - 1])
  /\ \A j \in 0..Len(regex) : f[j] \subseteq 0..Len(text)

LEMMA EndsSteps ==
  ASSUME NEW text, Len(text) \in Nat, NEW regex, Len(regex) \in Nat
  PROVE  IsEnds(text, regex, Ends(text, regex))
  <1> DEFINE n == Len(regex)
             S == SUBSET (0..Len(text))
             F == [j \in 1..n |-> [X \in S |-> Next1(text, regex[j], X)]]
             G(f) == [j \in 0..n |-> IF j = 0 THEN {0} ELSE Next1(text, regex[j], f[j - 1])]
             R == CHOOSE g : g = G(g)
  <1>1. n \in Nat /\ {0} \in S
    OBVIOUS
  <1>2. F \in [1..n -> [S -> S]]
    <2>1. ASSUME NEW j \in 1..n, NEW X \in S PROVE Next1(text, regex[j], X) \in S
      BY DEF Next1
    <2> HIDE DEF S, n
    <2> QED  BY <2>1
  <1>3. PICK f \in [0..n -> S] : f[0] = {0} /\ \A j \in 1..n : f[j] = F[j][f[j - 1]]
    <2> HIDE DEF F, S, n
    <2>1. Paths(n, S, {0}, F) # {}
      BY <1>1, <1>2, PathExists
    <2> QED  BY <2>1 DEF Paths
  <1>4. \A j \in 1..n : f[j] = Next1(text, regex[j], f[j - 1])
    <2> SUFFICES ASSUME NEW j \in 1..n PROVE f[j] = Next1(text, regex[j], f[j - 1])
      OBVIOUS
    <2>1. j - 1 \in 0..n
      BY <1>1
    <2> HIDE DEF S, n
    <2> QED  BY <1>3, <2>1
  <1>5. f = G(f)
    <2> HIDE DEF F, S, n
    <2>1. \A j \in 0..n : f[j] = G(f)[j]
      BY <1>1, <1>3, <1>4
    <2> QED  BY <1>3, <2>1
  <1>6. R = G(R)
    <2> HIDE DEF G
    <2> QED  BY <1>5
  <1>7. Ends(text, regex) = R
    BY DEF Ends, Next1
  <1> HIDE DEF R
  <1>8. R[0] = {0} /\ \A j \in 1..n : R[j] = Next1(text, regex[j], R[j - 1])
    <2> HIDE DEF n, S, F
    <2>1. 0 \in 0..n /\ \A j \in 1..n : j \in 0..n /\ j # 0
      BY <1>1
    <2>2. \A j \in 0..n : R[j] = G(R)[j]
      <3> HIDE DEF G
      <3> QED  BY <1>6
    <2>3. \A j \in 0..n : G(R)[j] = IF j = 0 THEN {0} ELSE Next1(text, regex[j], R[j - 1])
      OBVIOUS
    <2> HIDE DEF G
    <2> QED  BY <2>1, <2>2, <2>3
  <1>9. \A j \in 0..n : R[j] = f[j]
    <2> HIDE DEF n, S, F, G
    <2>1. GoesAlike(n, R, f)
      BY <1>3, <1>4, <1>8 DEF GoesAlike
    <2>2. Alike(n, R, f)
      BY <1>1, <2>1, SameUpTo
    <2> QED  BY <2>2 DEF Alike
  <1>10. \A j \in 0..n : R[j] \subseteq 0..Len(text)
    BY <1>3, <1>9
  <1> QED  BY <1>7, <1>8, <1>10 DEF IsEnds

\* An item is the character of the pattern, and the last cut one of its pieces.
LEMMA ItemIs ==
  ASSUME NEW pattern \in Seq(Characters)
  PROVE  /\ Len(LikePatternToRegex(pattern)) = Len(pattern)
         /\ \A j \in 1..Len(pattern) :
              /\ LikePatternToRegex(pattern)[j].many <=> pattern[j] = "%"
              /\ LikePatternToRegex(pattern)[j].any <=> pattern[j] = "%" \/ pattern[j] = "_"
              /\ LikePatternToRegex(pattern)[j].char = pattern[j]
  <1> DEFINE n == Len(pattern)
             Item(i) == [any |-> pattern[i] \in {"%", "_"}, many |-> pattern[i] = "%", char |-> pattern[i]]
             r == LikePatternToRegex(pattern)
  <1>1. n \in Nat
    OBVIOUS
  <1>2. r = [i \in 1..n |-> Item(i)]
    BY DEF LikePatternToRegex
  <1>3. (\A j \in 1..n : r[j] = Item(j)) /\ Len(r) = n
    <2> HIDE DEF n, Item, r
    <2> QED  BY <1>1, <1>2
  <1>4. ASSUME NEW j \in 1..n
        PROVE  /\ Item(j).many <=> pattern[j] = "%"
               /\ Item(j).any <=> pattern[j] = "%" \/ pattern[j] = "_"
               /\ Item(j).char = pattern[j]
    OBVIOUS
  <1> HIDE DEF Item, n
  <1> QED  BY <1>3, <1>4 DEF n

\* The regex matches only what LIKE matches.
LEMMA EndsAreCuts ==
  ASSUME NEW text \in Seq(Characters), NEW pattern \in Seq(Characters), NEW R,
         IsEnds(text, LikePatternToRegex(pattern), R)
  PROVE  \A j \in 0..Len(pattern) : \A i \in R[j] : \E cut \in Cuts(text, pattern, j) : cut[j] = i
  <1> DEFINE n == Len(pattern)
             l == Len(text)
             regex == LikePatternToRegex(pattern)
             T == {j \in 0..n : \A i \in R[j] : \E cut \in Cuts(text, pattern, j) : cut[j] = i}
  <1>1. n \in Nat /\ l \in Nat
    OBVIOUS
  <1>2. Len(regex) = n
    BY ItemIs
  <1>3. R[0] = {0} /\ (\A j \in 1..n : R[j] = Next1(text, regex[j], R[j - 1])) /\ \A j \in 0..n : R[j] \subseteq 0..l
    BY <1>2 DEF IsEnds
  <1>4. 0 \in T
    <2> DEFINE c == [x \in 0..0 |-> 0]
    <2>1. c \in [0..0 -> 0..l] /\ c[0] = 0 /\ 1..0 = {}
      BY <1>1
    <2>2. c \in Cuts(text, pattern, 0)
      BY <2>1 DEF Cuts
    <2> QED  BY <1>1, <1>3, <2>1, <2>2
  <1>5. ASSUME NEW j \in 0..(n - 1), j \in T PROVE j + 1 \in T
    <2>1. j \in Nat /\ j \in 0..n /\ j + 1 \in 0..n /\ j + 1 \in 1..n /\ (j + 1) - 1 = j
      BY <1>1
    <2> SUFFICES ASSUME NEW i \in R[j + 1] PROVE \E cut \in Cuts(text, pattern, j + 1) : cut[j + 1] = i
      BY <2>1
    <2> DEFINE item == regex[j + 1]
               p == pattern[j + 1]
    <2>2. i \in 0..l /\ R[j] \subseteq 0..l
      BY <1>3, <2>1
    <2>3. i \in Next1(text, item, R[j])
      BY <1>3, <2>1
    <2>4. /\ item.many <=> p = "%"
          /\ item.any <=> p = "%" \/ p = "_"
          /\ item.char = p
      BY <2>1, ItemIs
    <2> HIDE DEF item, p
    <2>5. \E k \in R[j] : /\ k <= i /\ (p # "%" => i = k + 1)
                          /\ p \notin {"%", "_"} => text[i] = p
      <3>1. CASE p = "%"
        <4>1. i \in {x \in 0..Len(text) : \E k \in R[j] : k <= x /\ \A m \in (k + 1)..x : Takes(item, text[m])}
          BY <2>3, <2>4, <3>1 DEF Next1
        <4>2. PICK k \in R[j] : k <= i
          BY <4>1
        <4> QED  BY <3>1, <4>2
      <3>2. CASE p # "%"
        <4>1. i \in 1..l /\ i - 1 \in R[j] /\ Takes(item, text[i])
          BY <2>3, <2>4, <3>2 DEF Next1
        <4>2. i - 1 <= i /\ i = (i - 1) + 1
          BY <4>1
        <4>3. p # "_" => text[i] = p
          BY <2>4, <3>2, <4>1 DEF Takes
        <4> QED  BY <3>2, <4>1, <4>2, <4>3
      <3> QED  BY <3>1, <3>2
    <2>6. PICK k \in R[j] : /\ k <= i /\ (p # "%" => i = k + 1)
                            /\ p \notin {"%", "_"} => text[i] = p
      BY <2>5
    <2>7. PICK cut \in Cuts(text, pattern, j) : cut[j] = k
      BY <1>5
    <2> DEFINE c == [x \in 0..(j + 1) |-> IF x = j + 1 THEN i ELSE cut[x]]
    <2>8. cut \in [0..j -> 0..l] /\ cut[0] = 0
      BY <2>7 DEF Cuts
    <2>9. /\ c \in [0..(j + 1) -> 0..l] /\ c[j + 1] = i /\ (\A x \in 0..j : c[x] = cut[x])
      BY <2>1, <2>2, <2>8
    <2> HIDE DEF c
    <2>10. ASSUME NEW x \in 1..(j + 1)
           PROVE  /\ c[x - 1] <= c[x]
                  /\ pattern[x] # "%" => c[x] = c[x - 1] + 1
                  /\ pattern[x] \notin {"%", "_"} => text[c[x]] = pattern[x]
      <3>1. CASE x = j + 1
        <4>1. c[x] = i /\ c[x - 1] = k
          <5>1. x - 1 = j /\ j \in 0..j
            BY <2>1, <3>1
          <5> QED  BY <2>7, <2>9, <3>1, <5>1
        <4>2. pattern[x] = p
          BY <3>1 DEF p
        <4> QED  BY <2>6, <4>1, <4>2
      <3>2. CASE x # j + 1
        <4>1. x \in 1..j /\ x \in 0..j /\ x - 1 \in 0..j
          BY <2>1, <3>2
        <4>2. /\ cut[x - 1] <= cut[x]
              /\ pattern[x] # "%" => cut[x] = cut[x - 1] + 1
              /\ pattern[x] \notin {"%", "_"} => text[cut[x]] = pattern[x]
          BY <2>7, <4>1 DEF Cuts
        <4> QED  BY <2>9, <4>1, <4>2
      <3> QED  BY <3>1, <3>2
    <2>11. c[0] = 0
      BY <2>1, <2>8, <2>9
    <2>12. c \in Cuts(text, pattern, j + 1)
      BY <2>9, <2>10, <2>11 DEF Cuts
    <2> QED  BY <2>9, <2>12
  <1> HIDE DEF T
  <1>6. \A j \in 0..n : j \in T
    BY <1>1, <1>4, <1>5, UpTo
  <1> QED  BY <1>6 DEF T

\* Where no line ends in the text, it matches all of it.
LEMMA CutsAreEnds ==
  ASSUME NEW text \in Seq(Characters), NEW pattern \in Seq(Characters), NEW R,
         IsEnds(text, LikePatternToRegex(pattern), R),
         \A i \in 1..Len(text) : text[i] \notin LineTerminators
  PROVE  \A j \in 0..Len(pattern) : \A cut \in Cuts(text, pattern, j) : cut[j] \in R[j]
  <1> DEFINE n == Len(pattern)
             l == Len(text)
             regex == LikePatternToRegex(pattern)
             T == {j \in 0..n : \A cut \in Cuts(text, pattern, j) : cut[j] \in R[j]}
  <1>1. n \in Nat /\ l \in Nat
    OBVIOUS
  <1>2. Len(regex) = n
    BY ItemIs
  <1>3. R[0] = {0} /\ \A j \in 1..n : R[j] = Next1(text, regex[j], R[j - 1])
    BY <1>2 DEF IsEnds
  <1>4. 0 \in T
    <2>1. \A cut \in Cuts(text, pattern, 0) : cut[0] = 0
      BY DEF Cuts
    <2>2. 0 \in 0..n /\ 0 \in R[0]
      BY <1>1, <1>3
    <2> QED  BY <2>1, <2>2
  <1>5. ASSUME NEW j \in 0..(n - 1), j \in T PROVE j + 1 \in T
    <2>1. j \in Nat /\ j \in 0..n /\ j + 1 \in 0..n /\ j + 1 \in 1..n /\ (j + 1) - 1 = j
      BY <1>1
    <2> SUFFICES ASSUME NEW cut \in Cuts(text, pattern, j + 1) PROVE cut[j + 1] \in R[j + 1]
      BY <2>1
    <2> DEFINE item == regex[j + 1]
               p == pattern[j + 1]
               c == [x \in 0..j |-> cut[x]]
               k == cut[j]
               i == cut[j + 1]
    <2>2. cut \in [0..(j + 1) -> 0..l] /\ cut[0] = 0
      BY DEF Cuts
    <2>3. \A x \in 1..(j + 1) : /\ cut[x - 1] <= cut[x]
                                /\ pattern[x] # "%" => cut[x] = cut[x - 1] + 1
                                /\ pattern[x] \notin {"%", "_"} => text[cut[x]] = pattern[x]
      BY DEF Cuts
    <2>4. c \in Cuts(text, pattern, j)
      <3>1. c \in [0..j -> 0..l] /\ \A x \in 0..j : c[x] = cut[x]
        BY <2>1, <2>2
      <3> HIDE DEF c
      <3>2. 0 \in 0..j /\ \A x \in 1..j : x \in 1..(j + 1) /\ x \in 0..j /\ x - 1 \in 0..j
        BY <2>1
      <3>3. \A x \in 1..j : /\ c[x - 1] <= c[x]
                            /\ pattern[x] # "%" => c[x] = c[x - 1] + 1
                            /\ pattern[x] \notin {"%", "_"} => text[c[x]] = pattern[x]
        BY <2>3, <3>1, <3>2
      <3> QED  BY <2>2, <3>1, <3>2, <3>3 DEF Cuts
    <2>5. k \in R[j] /\ k \in 0..l /\ i \in 0..l
      <3>1. c[j] = k
        BY <2>1
      <3>2. c[j] \in R[j]
        BY <1>5, <2>4
      <3> QED  BY <2>1, <2>2, <3>1, <3>2
    <2>6. k <= i /\ (p # "%" => i = k + 1) /\ (p \notin {"%", "_"} => text[i] = p)
      <3>1. j + 1 \in 1..(j + 1)
        BY <2>1
      <3> QED  BY <2>1, <2>3, <3>1
    <2>7. /\ item.many <=> p = "%"
          /\ item.any <=> p = "%" \/ p = "_"
          /\ item.char = p
      BY <2>1, ItemIs
    <2> HIDE DEF item, p, k, i, c
    <2>8. i \in Next1(text, item, R[j])
      <3>1. CASE p = "%"
        <4>1. ASSUME NEW m \in (k + 1)..i PROVE Takes(item, text[m])
          <5>1. m \in 1..l
            BY <1>1, <2>5
          <5> QED  BY <2>7, <3>1, <5>1 DEF Takes
        <4>2. i \in {x \in 0..Len(text) : \E y \in R[j] : y <= x /\ \A m \in (y + 1)..x : Takes(item, text[m])}
          BY <2>5, <2>6, <4>1
        <4> QED  BY <2>7, <3>1, <4>2 DEF Next1
      <3>2. CASE p # "%"
        <4>1. i \in 1..l /\ i - 1 = k
          <5>1. i = k + 1
            BY <2>6, <3>2
          <5> QED  BY <1>1, <2>5, <5>1
        <4>2. Takes(item, text[i])
          BY <2>6, <2>7, <3>2, <4>1 DEF Takes
        <4>3. i \in {x \in 1..Len(text) : x - 1 \in R[j] /\ Takes(item, text[x])}
          BY <2>5, <4>1, <4>2
        <4> QED  BY <2>7, <3>2, <4>3 DEF Next1
      <3> QED  BY <3>1, <3>2
    <2> QED  BY <1>3, <2>1, <2>8 DEF i, item
  <1> HIDE DEF T
  <1>6. \A j \in 0..n : j \in T
    BY <1>1, <1>4, <1>5, UpTo
  <1> QED  BY <1>6 DEF T

LikeInv ==
  /\ call \in Calls
  /\ answer # Pending /\ call.of = "like" =>
       answer = [match |-> RegexMatch(call.text, LikePatternToRegex(call.pattern))]

\* LikePatternToRegex and regex_match agree with LIKE for texts and patterns of any
\* length; where the text has a line terminator they match no more than LIKE.
THEOREM LikeAgrees == LikeSpec => []LikeMatches
  <1>1. CallInit => LikeInv
    BY DEF CallInit, LikeInv
  <1>2. LikeInv /\ [LikeNext]_callVars => LikeInv'
    BY DEF LikeInv, LikeNext, MatchLike, callVars
  <1>3. LikeInv => LikeMatches
    <2> SUFFICES ASSUME LikeInv, Answered("like") PROVE LikeMatches
      BY DEF LikeMatches
    <2> DEFINE t == call.text
               p == call.pattern
               r == LikePatternToRegex(p)
               R == Ends(t, r)
    <2>1. call \in Calls /\ call.of = "like" /\ answer = [match |-> RegexMatch(t, r)]
      BY DEF LikeInv, Answered
    <2>2. t \in Seq(Characters) /\ p \in Seq(Characters)
      BY <2>1, LikeAssumption
    <2>3. answer.match <=> Len(t) \in R[Len(p)]
      <3>1. Len(r) = Len(p)
        BY <2>2, ItemIs
      <3> HIDE DEF r
      <3> QED  BY <2>1, <3>1 DEF RegexMatch
    <2> HIDE DEF t, p
    <2>4. IsEnds(t, r, R)
      <3>1. Len(r) = Len(p)
        BY <2>2, ItemIs
      <3>2. Len(p) \in Nat /\ Len(t) \in Nat
        BY <2>2
      <3> QED  BY <3>1, <3>2, EndsSteps
    <2>5. Len(p) \in 0..Len(p)
      BY <2>2
    <2> HIDE DEF R
    <2>6. Len(t) \in R[Len(p)] => Like(t, p)
      <3>1. \A i \in R[Len(p)] : \E cut \in Cuts(t, p, Len(p)) : cut[Len(p)] = i
        BY <2>2, <2>4, <2>5, EndsAreCuts
      <3> QED  BY <3>1 DEF Like
    <2>7. (\A i \in 1..Len(t) : t[i] \notin LineTerminators) => (Like(t, p) => Len(t) \in R[Len(p)])
      <3> SUFFICES ASSUME \A i \in 1..Len(t) : t[i] \notin LineTerminators, Like(t, p)
                   PROVE  Len(t) \in R[Len(p)]
        OBVIOUS
      <3>1. \A cut \in Cuts(t, p, Len(p)) : cut[Len(p)] \in R[Len(p)]
        BY <2>2, <2>4, <2>5, CutsAreEnds
      <3> QED  BY <3>1 DEF Like
    <2> QED  BY <2>3, <2>6, <2>7 DEF LikeMatches, t, p
  <1> QED  BY <1>1, <1>2, <1>3, PTL DEF LikeSpec

-----------------------------------------------------------------------------
(***************************************************************************)
(* Records: numbers and strings.                                            *)
(***************************************************************************)

\* A length below 2^32 is the number of its four bytes.
LEMMA FourBytes ==
  ASSUME NEW k \in Nat
  PROVE  \E k1 \in Nat, k2 \in Nat, k3 \in Nat :
           /\ k1 = k \div 256 /\ k2 = k \div 65536 /\ k3 = k \div 16777216
           /\ k = k1 * 256 + (k % 256) /\ k1 = k2 * 256 + (k1 % 256) /\ k2 = k3 * 256 + (k2 % 256)
  <1> DEFINE k1 == k \div 256
             k2 == k1 \div 256
             k3 == k2 \div 256
  <1>1. \A x \in Nat : x \div 256 \in Nat /\ x % 256 \in 0..255 /\ x = (x \div 256) * 256 + (x % 256)
    BY SMT
  <1>2. k1 \in Nat /\ k % 256 \in 0..255 /\ k = k1 * 256 + (k % 256)
    BY <1>1
  <1> HIDE DEF k1
  <1>3. k2 \in Nat /\ k1 % 256 \in 0..255 /\ k1 = k2 * 256 + (k1 % 256)
    BY <1>1, <1>2
  <1> HIDE DEF k2
  <1>4. k3 \in Nat /\ k2 % 256 \in 0..255 /\ k2 = k3 * 256 + (k2 % 256)
    BY <1>1, <1>3
  <1> HIDE DEF k3
  <1> DEFINE c0 == k % 256
             c1 == k1 % 256
             c2 == k2 % 256
  <1> HIDE DEF c0, c1, c2
  <1>0. /\ c0 \in Nat /\ c0 < 256 /\ c1 \in Nat /\ c1 < 256 /\ c2 \in Nat /\ c2 < 256
        /\ k = k1 * 256 + c0 /\ k1 = k2 * 256 + c1 /\ k2 = k3 * 256 + c2
    BY <1>2, <1>3, <1>4 DEF c0, c1, c2
  <1>5. k \div 65536 = k2
    <2> DEFINE m == 65536
               l == c1 * 256 + c0
    <2>1. m \in Nat /\ m > 0 /\ l \in Nat /\ l < m /\ k = k2 * m + l
      BY <1>0, <1>3, SMT
    <2> HIDE DEF m, l
    <2>2. l \in 0..(m - 1) /\ m \in Nat \ {0}
      BY <2>1
    <2>3. k \div m = k2
      BY <1>3, <2>1, <2>2, QuotientIs
    <2> QED  BY <2>3, SMT DEF m
  <1>6. k \div 16777216 = k3
    <2> DEFINE m == 16777216
               l == c2 * 65536 + c1 * 256 + c0
    <2>1. m \in Nat /\ m > 0 /\ l \in Nat /\ l < m /\ k = k3 * m + l
      BY <1>0, <1>4, SMT
    <2> HIDE DEF m, l
    <2>2. l \in 0..(m - 1) /\ m \in Nat \ {0}
      BY <2>1
    <2>3. k \div m = k3
      BY <1>4, <2>1, <2>2, QuotientIs
    <2> QED  BY <2>3, SMT DEF m
  <1> QED  BY <1>2, <1>3, <1>4, <1>5, <1>6, SMT DEF k1

\* The number that four bytes, the lowest first, make.
Word32(b0, b1, b2, b3) == b0 + b1 * 256 + b2 * 65536 + b3 * 16777216

LEMMA WordBack ==
  ASSUME NEW k \in Nat
  PROVE  /\ Byte0(k) \in Chars /\ Byte1(k) \in Chars /\ Byte2(k) \in Chars /\ Byte3(k) \in Chars
         /\ Fits(k) => Word32(Byte0(k), Byte1(k), Byte2(k), Byte3(k)) = k
  <1>1. PICK k1 \in Nat, k2 \in Nat, k3 \in Nat :
           /\ k1 = k \div 256 /\ k2 = k \div 65536 /\ k3 = k \div 16777216
           /\ k = k1 * 256 + (k % 256) /\ k1 = k2 * 256 + (k1 % 256) /\ k2 = k3 * 256 + (k2 % 256)
    BY FourBytes
  <1>2. Byte0(k) = k % 256 /\ Byte1(k) = k1 % 256 /\ Byte2(k) = k2 % 256 /\ Byte3(k) = k3 % 256
    BY <1>1 DEF Byte0, Byte1, Byte2, Byte3
  <1>3. k % 256 \in 0..255 /\ k1 % 256 \in 0..255 /\ k2 % 256 \in 0..255 /\ k3 % 256 \in 0..255
    <2>1. \A x \in Nat : x % 256 \in 0..255
      OBVIOUS
    <2> QED  BY <2>1
  <1>4. ASSUME Fits(k) PROVE Word32(k % 256, k1 % 256, k2 % 256, k3 % 256) = k
    <2>1. k3 < 256
      BY <1>1, <1>4 DEF Fits
    <2>2. k3 % 256 = k3
      BY <2>1
    <2> DEFINE a == k % 256
               b == k1 % 256
               c == k2 % 256
    <2>3. k = k1 * 256 + a /\ k1 = k2 * 256 + b /\ k2 = k3 * 256 + c /\ a \in Nat /\ b \in Nat /\ c \in Nat
      BY <1>1, <1>3
    <2> HIDE DEF a, b, c
    <2>4. a + b * 256 + c * 65536 + k3 * 16777216 = k
      BY <2>3, SMT
    <2> QED  BY <2>2, <2>4 DEF Word32, a, b, c
  <1> QED  BY <1>2, <1>3, <1>4 DEF Chars

LEMMA Smaller ==
  ASSUME NEW k, Fits(k), NEW l \in Nat, l <= k
  PROVE  Fits(l)
  <1> DEFINE m == 16777216
  <1>1. k \in Nat /\ k \div m < 256 /\ m \in Nat /\ m > 0
    BY DEF Fits
  <1> HIDE DEF m
  <1>2. m \in Nat \ {0}
    BY <1>1
  <1> DEFINE x == k \div m
             y == l \div m
  <1>3. /\ x \in Nat /\ k % m \in 0..(m - 1) /\ k = x * m + (k % m)
        /\ y \in Nat /\ l % m \in 0..(m - 1) /\ l = y * m + (l % m)
    BY <1>1, <1>2, Quotient
  <1> HIDE DEF x, y
  <1>4. y <= x
    <2> SUFFICES ASSUME x < y PROVE FALSE
      BY <1>3
    <2>1. x * m + m <= y * m
      BY <1>1, <1>3, Times
    <2>2. x * m \in Nat /\ y * m \in Nat
      BY <1>1, <1>3
    <2> HIDE DEF m
    <2> DEFINE xm == x * m
               ym == y * m
    <2> HIDE DEF xm, ym
    <2>3. xm + m <= ym /\ xm \in Nat /\ ym \in Nat /\ k = xm + (k % m) /\ l = ym + (l % m)
      BY <1>3, <2>1, <2>2 DEF xm, ym
    <2> DEFINE u == k % m
               v == l % m
    <2>4. u \in 0..(m - 1) /\ v \in 0..(m - 1) /\ k = xm + u /\ l = ym + v
      BY <1>3, <2>3
    <2> HIDE DEF u, v
    <2> QED  BY <1>1, <2>3, <2>4
  <1>5. l \div m < 256
    BY <1>1, <1>3, <1>4 DEF x, y
  <1> QED  BY <1>5 DEF Fits, m

\* d is the first n bytes of W; a reader there has read v up to q, unless the bytes
\* end before.
Prefix(W, n, d) == /\ W \in Seq(Chars) /\ n \in 0..Len(W)
                   /\ d \in Seq(Chars) /\ Len(d) = n /\ \A i \in 1..n : d[i] = W[i]

At(n, q, v) == IF q <= n THEN Read(q, v) ELSE Failed

LEMMA PrefixIs ==
  ASSUME NEW W \in Seq(Chars), NEW n \in 0..Len(W)
  PROVE  Prefix(W, n, SubSeq(W, 1, n))
  <1>1. 0 \in Nat /\ n \in Nat /\ 0 + n <= Len(W) /\ 0 + 1 = 1 /\ 0 + n = n /\ \A i \in 1..n : 0 + i = i
    OBVIOUS
  <1>2. IsCut(Chars, W, 0, n, SubSeq(W, 0 + 1, 0 + n))
    BY <1>1, CutAt
  <1> DEFINE d == SubSeq(W, 1, n)
  <1>3. IsCut(Chars, W, 0, n, d)
    BY <1>1, <1>2
  <1> HIDE DEF d
  <1>4. d \in Seq(Chars) /\ Len(d) = n /\ \A i \in 1..n : d[i] = W[i]
    BY <1>1, <1>3 DEF IsCut
  <1> QED  BY <1>4 DEF Prefix, d

LEMMA ReadIs ==
  /\ \A q, v : Read(q, v).ok /\ Read(q, v).at = q /\ Read(q, v).val = v
  /\ ~Failed.ok
  BY DEF Read, Failed

LEMMA NeedAt ==
  ASSUME NEW W, NEW n, NEW d, Prefix(W, n, d), NEW f \in Seq(Chars), NEW q, Stands(W, q, f), NEW v
  PROVE  Need(d, At(n, q, v), Len(f)) = At(n, q + Len(f), f)
  <1> DEFINE l == Len(f)
  <1>1. W \in Seq(Chars) /\ n \in Nat /\ d \in Seq(Chars) /\ Len(d) = n /\ n <= Len(W) /\ q \in Nat /\ l \in Nat
    BY DEF Prefix, Stands
  <1>2. CASE q + l <= n
    <2>1. q <= n
      BY <1>1, <1>2
    <2>2. At(n, q, v) = Read(q, v) /\ At(n, q + l, f) = Read(q + l, f)
      BY <1>2, <2>1 DEF At
    <2> DEFINE u == SubSeq(d, q + 1, q + l)
    <2>3. IsCut(Chars, d, q, l, u)
      <3> HIDE DEF l
      <3> QED  BY <1>1, <1>2, CutAt
    <2> HIDE DEF u
    <2>4. \A i \in 1..l : u[i] = f[i]
      <3> SUFFICES ASSUME NEW i \in 1..l PROVE u[i] = f[i]
        OBVIOUS
      <3>1. q + i \in 1..n
        BY <1>1, <1>2
      <3>2. u[i] = d[q + i] /\ d[q + i] = W[q + i] /\ W[q + i] = f[i]
        BY <2>3, <3>1 DEF IsCut, Prefix, Stands
      <3> QED  BY <3>2
    <2>5. u = f
      BY <2>3, <2>4, SameSequence DEF IsCut
    <2>6. Need(d, Read(q, v), l) = Read(q + l, u)
      BY <1>1, <1>2, ReadIs DEF Need, u
    <2> QED  BY <2>2, <2>5, <2>6
  <1>3. CASE ~(q + l <= n)
    <2>1. At(n, q + l, f) = Failed
      BY <1>3 DEF At
    <2>2. CASE q <= n
      <3>1. At(n, q, v) = Read(q, v)
        BY <2>2 DEF At
      <3> QED  BY <1>1, <1>3, <2>1, <3>1, ReadIs DEF Need
    <2>3. CASE ~(q <= n)
      <3>1. At(n, q, v) = Failed
        BY <2>3 DEF At
      <3> QED  BY <2>1, <3>1, ReadIs DEF Need
    <2> QED  BY <2>2, <2>3
  <1> QED  BY <1>2, <1>3

\* The four bytes of a number, in either order.
LEMMA WordBytes ==
  ASSUME NEW k, Fits(k)
  PROVE  /\ PutU32(k) \in Seq(Chars) /\ Len(PutU32(k)) = 4
         /\ WriteUint32(k) \in Seq(Chars) /\ Len(WriteUint32(k)) = 4
         /\ Word32(PutU32(k)[1], PutU32(k)[2], PutU32(k)[3], PutU32(k)[4]) = k
         /\ Word32(WriteUint32(k)[4], WriteUint32(k)[3], WriteUint32(k)[2], WriteUint32(k)[1]) = k
  <1> DEFINE a == Byte0(k)
             b == Byte1(k)
             c == Byte2(k)
             d == Byte3(k)
  <1>1. a \in Chars /\ b \in Chars /\ c \in Chars /\ d \in Chars /\ Word32(a, b, c, d) = k
    BY WordBack DEF Fits
  <1>2. PutU32(k) = <<a, b, c, d>> /\ WriteUint32(k) = <<d, c, b, a>>
    BY DEF PutU32, WriteUint32
  <1> HIDE DEF a, b, c, d
  <1>3. <<a, b, c, d>> \in Seq(Chars) /\ <<d, c, b, a>> \in Seq(Chars)
    BY <1>1
  <1>4. Len(<<a, b, c, d>>) = 4 /\ Len(<<d, c, b, a>>) = 4
    OBVIOUS
  <1> QED  BY <1>1, <1>2, <1>3, <1>4

LEMMA NumberAt ==
  ASSUME NEW W, NEW n, NEW d, Prefix(W, n, d), NEW k, Fits(k), NEW q, NEW v
  PROVE  /\ Stands(W, q, PutU32(k)) => U32(d, At(n, q, v)) = At(n, q + 4, k)
         /\ Stands(W, q, WriteUint32(k)) => ReadUint32(d, At(n, q, v)) = At(n, q + 4, k)
  <1>1. ASSUME Stands(W, q, PutU32(k)) PROVE U32(d, At(n, q, v)) = At(n, q + 4, k)
    <2> DEFINE f == PutU32(k)
               b == Need(d, At(n, q, v), 4)
    <2>1. b = At(n, q + 4, f)
      <3>1. f \in Seq(Chars)
        BY WordBytes
      <3>2. Len(f) = 4
        BY WordBytes
      <3>3. Stands(W, q, f)
        BY <1>1
      <3> HIDE DEF f
      <3>4. Need(d, At(n, q, v), Len(f)) = At(n, q + Len(f), f)
        BY <3>1, <3>3, NeedAt
      <3> QED  BY <3>2, <3>4
    <2>2. U32(d, At(n, q, v)) = IF b.ok THEN Read(b.at, Word32(b.val[1], b.val[2], b.val[3], b.val[4])) ELSE Failed
      BY DEF U32, LittleEndian, Word32
    <2>3. Word32(f[1], f[2], f[3], f[4]) = k
      BY WordBytes
    <2> HIDE DEF b, f
    <2> QED  BY <2>1, <2>2, <2>3, ReadIs DEF At
  <1>2. ASSUME Stands(W, q, WriteUint32(k)) PROVE ReadUint32(d, At(n, q, v)) = At(n, q + 4, k)
    <2> DEFINE f == WriteUint32(k)
               b == Need(d, At(n, q, v), 4)
    <2>1. b = At(n, q + 4, f)
      <3>1. f \in Seq(Chars)
        BY WordBytes
      <3>2. Len(f) = 4
        BY WordBytes
      <3>3. Stands(W, q, f)
        BY <1>2
      <3> HIDE DEF f
      <3>4. Need(d, At(n, q, v), Len(f)) = At(n, q + Len(f), f)
        BY <3>1, <3>3, NeedAt
      <3> QED  BY <3>2, <3>4
    <2>2. /\ ReadUint32(d, At(n, q, v)) =
               IF b.ok THEN Read(b.at, b.val[1] * 16777216 + b.val[2] * 65536 + b.val[3] * 256 + b.val[4]) ELSE Failed
      BY DEF ReadUint32, BigEndian
    <2>3. f[1] \in Nat /\ f[2] \in Nat /\ f[3] \in Nat /\ f[4] \in Nat /\ Word32(f[4], f[3], f[2], f[1]) = k
      <3>1. f \in Seq(Chars) /\ Len(f) = 4 /\ Word32(f[4], f[3], f[2], f[1]) = k
        BY WordBytes
      <3> HIDE DEF f
      <3>2. f[1] \in Chars /\ f[2] \in Chars /\ f[3] \in Chars /\ f[4] \in Chars
        <4>1. 1 \in 1..Len(f) /\ 2 \in 1..Len(f) /\ 3 \in 1..Len(f) /\ 4 \in 1..Len(f)
          BY <3>1
        <4> QED  BY <3>1, <4>1, ElementOfSeq
      <3>3. \A x \in Chars : x \in Nat
        BY DEF Chars
      <3> QED  BY <3>1, <3>2, <3>3
    <2> HIDE DEF b, f
    <2>4. f[1] * 16777216 + f[2] * 65536 + f[3] * 256 + f[4] = k
      BY <2>3, SMT DEF Word32
    <2> QED  BY <2>1, <2>2, <2>4, ReadIs DEF At
  <1> QED  BY <1>1, <1>2

LEMMA StringBytes ==
  ASSUME NEW s \in Texts
  PROVE  /\ Fits(Len(s)) /\ s \in Seq(Chars)
         /\ PutString(s) \in Seq(Chars) /\ Len(PutString(s)) = 4 + Len(s)
         /\ WriteString(s) \in Seq(Chars) /\ Len(WriteString(s)) = 4 + Len(s)
  <1>1. s \in Seq(Chars) /\ Fits(Len(s))
    BY DEF Texts
  <1>2. /\ PutU32(Len(s)) \in Seq(Chars) /\ Len(PutU32(Len(s))) = 4
        /\ WriteUint32(Len(s)) \in Seq(Chars) /\ Len(WriteUint32(Len(s))) = 4
    BY <1>1, WordBytes
  <1>3. IsConcat(Chars, PutU32(Len(s)), s, PutString(s)) /\ IsConcat(Chars, WriteUint32(Len(s)), s, WriteString(s))
    BY <1>1, <1>2, ConcatAt DEF PutString, WriteString
  <1> QED  BY <1>1, <1>2, <1>3 DEF IsConcat

LEMMA StringAt ==
  ASSUME NEW W, NEW n, NEW d, Prefix(W, n, d), NEW s \in Texts, NEW q, NEW v
  PROVE  /\ Stands(W, q, PutString(s)) => Str(d, At(n, q, v)) = At(n, q + Len(PutString(s)), s)
         /\ Stands(W, q, WriteString(s)) => ReadString(d, At(n, q, v)) = At(n, q + Len(WriteString(s)), s)
  <1> DEFINE l == Len(s)
  <1>1. Fits(l) /\ s \in Seq(Chars) /\ l \in Nat /\ n \in Nat /\ W \in Seq(Chars)
    BY StringBytes DEF Prefix
  <1>2. /\ PutU32(l) \in Seq(Chars) /\ Len(PutU32(l)) = 4
        /\ WriteUint32(l) \in Seq(Chars) /\ Len(WriteUint32(l)) = 4
    BY <1>1, WordBytes
  <1>3. ASSUME NEW p, p \in Nat, Stands(W, p, s)
        PROVE  (IF At(n, p, l).ok THEN Need(d, At(n, p, l), At(n, p, l).val) ELSE Failed) = At(n, p + l, s)
    <2>1. CASE p <= n
      <3>1. At(n, p, l) = Read(p, l)
        BY <2>1 DEF At
      <3>2. Need(d, At(n, p, l), l) = At(n, p + l, s)
        BY <1>1, <1>3, NeedAt
      <3> QED  BY <3>1, <3>2, ReadIs
    <2>2. CASE ~(p <= n)
      <3>1. ~(p + l <= n)
        BY <1>1, <1>3, <2>2
      <3> QED  BY <2>2, <3>1, ReadIs DEF At
    <2> QED  BY <2>1, <2>2
  <1>4. ASSUME Stands(W, q, PutString(s)) PROVE Str(d, At(n, q, v)) = At(n, q + Len(PutString(s)), s)
    <2>1. Stands(W, q, PutU32(l)) /\ Stands(W, q + 4, s)
      BY <1>1, <1>2, <1>4, StandsParts DEF PutString
    <2>2. q + 4 \in Nat /\ q + Len(PutString(s)) = (q + 4) + l
      <3>1. q \in Nat
        BY <1>4 DEF Stands
      <3>2. Len(PutString(s)) = 4 + l
        BY StringBytes
      <3> QED  BY <1>1, <3>1, <3>2
    <2>3. U32(d, At(n, q, v)) = At(n, q + 4, l)
      BY <1>1, <2>1, NumberAt
    <2> QED  BY <1>3, <2>1, <2>2, <2>3 DEF Str, Counted
  <1>5. ASSUME Stands(W, q, WriteString(s)) PROVE ReadString(d, At(n, q, v)) = At(n, q + Len(WriteString(s)), s)
    <2>1. Stands(W, q, WriteUint32(l)) /\ Stands(W, q + 4, s)
      BY <1>1, <1>2, <1>5, StandsParts DEF WriteString
    <2>2. q + 4 \in Nat /\ q + Len(WriteString(s)) = (q + 4) + l
      <3>1. q \in Nat
        BY <1>5 DEF Stands
      <3>2. Len(WriteString(s)) = 4 + l
        BY StringBytes
      <3> QED  BY <1>1, <3>1, <3>2
    <2>3. ReadUint32(d, At(n, q, v)) = At(n, q + 4, l)
      BY <1>1, <2>1, NumberAt
    <2> QED  BY <1>3, <2>1, <2>2, <2>3 DEF ReadString, Counted
  <1> QED  BY <1>4, <1>5

-----------------------------------------------------------------------------
(***************************************************************************)
(* Values, columns and fields.                                              *)
(***************************************************************************)
LEMMA TagIs ==
  /\ Tag.null = 0 /\ Tag.int32 = 1 /\ Tag.float = 3 /\ Tag.string = 5 /\ Tag.bytes = 6 /\ Tag.bool = 7
  /\ \A t : Fixed(t) \in {4, 8}
  BY DEF Tag, Fixed

\* What is written of a value after its tag.
Body(v) == CASE v.tag = 0        -> <<>>
             [] v.tag \in {5, 6} -> PutString(v.val)
             [] v.tag = 7        -> <<IF v.val THEN 1 ELSE 0>>
             [] OTHER            -> v.val

LEMMA OneByte ==
  ASSUME NEW x \in Chars
  PROVE  <<x>> \in Seq(Chars) /\ Len(<<x>>) = 1 /\ <<x>>[1] = x
  OBVIOUS

LEMMA FlagByte ==
  ASSUME NEW b \in BOOLEAN
  PROVE  /\ (IF b THEN 1 ELSE 0) \in Chars
         /\ <<IF b THEN 1 ELSE 0>> # <<0>> <=> b
         /\ (IF b THEN 1 ELSE 0) # 0 <=> b
  <1>1. 0 \in Chars /\ 1 \in Chars
    BY DEF Chars
  <1>2. <<1>> # <<0>>
    OBVIOUS
  <1> QED  BY <1>1, <1>2

LEMMA ValueKinds ==
  ASSUME NEW v, IsValue(v)
  PROVE  /\ v = [tag |-> v.tag, val |-> v.val] /\ v.tag \in 0..8
         /\ v.tag = 0 => v.val = <<>>
         /\ v.tag \in {5, 6} => v.val \in Texts
         /\ v.tag = 7 => v.val \in BOOLEAN
         /\ v.tag \notin {0, 5, 6, 7} => /\ v.val \in Seq(Chars) /\ Len(v.val) = Fixed(v.tag)
  <1>1. /\ v = [tag |-> v.tag, val |-> v.val]
        /\ CASE v.tag = 0        -> v.val = <<>>
             [] v.tag \in {5, 6} -> v.val \in Texts
             [] v.tag = 7        -> v.val \in BOOLEAN
             [] OTHER            -> v.tag \in 1..8 /\ v.val \in [1..Fixed(v.tag) -> Chars]
    BY TagIs DEF IsValue
  <1>2. CASE v.tag \in {0, 5, 6, 7}
    BY <1>1, <1>2
  <1>3. CASE v.tag \notin {0, 5, 6, 7}
    <2>1. v.tag \in 1..8 /\ v.val \in [1..Fixed(v.tag) -> Chars]
      BY <1>1, <1>3
    <2>2. Fixed(v.tag) \in Nat
      BY TagIs
    <2>3. v.val \in Seq(Chars) /\ Len(v.val) = Fixed(v.tag)
      <3> DEFINE m == Fixed(v.tag)
                 s == v.val
      <3> HIDE DEF m, s
      <3>1. m \in Nat /\ s \in [1..m -> Chars]
        BY <2>1, <2>2 DEF m, s
      <3>2. s \in Seq(Chars) /\ Len(s) = m
        BY <3>1
      <3> QED  BY <3>2 DEF m, s
    <2> QED  BY <1>1, <1>3, <2>1, <2>3
  <1> QED  BY <1>2, <1>3

LEMMA ValueBytes ==
  ASSUME NEW v, IsValue(v)
  PROVE  /\ v.tag \in Chars /\ Body(v) \in Seq(Chars)
         /\ EncodeValue(v) = <<v.tag>> \o Body(v)
         /\ EncodeValue(v) \in Seq(Chars) /\ Len(EncodeValue(v)) = 1 + Len(Body(v))
  <1>1. v.tag \in Chars
    BY ValueKinds DEF Chars
  <1>2. EncodeValue(v) = <<v.tag>> \o Body(v)
    BY TagIs DEF EncodeValue, Body
  <1>3. Body(v) \in Seq(Chars)
    <2>1. CASE v.tag = 0
      <3>1. Body(v) = <<>>
        BY <2>1 DEF Body
      <3> QED  BY <3>1
    <2>2. CASE v.tag \in {5, 6}
      <3>1. Body(v) = PutString(v.val) /\ v.val \in Texts
        BY <2>2, ValueKinds DEF Body
      <3> QED  BY <3>1, StringBytes
    <2>3. CASE v.tag = 7
      <3>1. Body(v) = <<IF v.val THEN 1 ELSE 0>> /\ v.val \in BOOLEAN
        BY <2>3, ValueKinds DEF Body
      <3>2. (IF v.val THEN 1 ELSE 0) \in Chars
        BY <3>1, FlagByte
      <3> QED  BY <3>1, <3>2, OneByte
    <2>4. CASE v.tag \notin {0, 5, 6, 7}
      <3>1. Body(v) = v.val
        BY <2>4 DEF Body
      <3> QED  BY <2>4, <3>1, ValueKinds
    <2> QED  BY <2>1, <2>2, <2>3, <2>4
  <1>4. IsConcat(Chars, <<v.tag>>, Body(v), EncodeValue(v)) /\ Len(<<v.tag>>) = 1
    BY <1>1, <1>2, <1>3, OneByte, ConcatAt
  <1> QED  BY <1>1, <1>2, <1>3, <1>4 DEF IsConcat

LEMMA ByteAt ==
  ASSUME NEW W, NEW n, NEW d, Prefix(W, n, d), NEW x \in Chars, NEW q, Stands(W, q, <<x>>), NEW v
  PROVE  Need(d, At(n, q, v), 1) = At(n, q + 1, <<x>>)
  <1> DEFINE f == <<x>>
  <1>1. f \in Seq(Chars)
    BY OneByte
  <1>2. Len(f) = 1
    BY OneByte
  <1>3. Stands(W, q, f)
    OBVIOUS
  <1> HIDE DEF f
  <1>4. Need(d, At(n, q, v), Len(f)) = At(n, q + Len(f), f)
    BY <1>1, <1>3, NeedAt
  <1> QED  BY <1>2, <1>4 DEF f

\* DecodeValue reads back what EncodeValue wrote.
LEMMA ValueAt ==
  ASSUME NEW W, NEW n, NEW d, Prefix(W, n, d), NEW v, IsValue(v), NEW q, Stands(W, q, EncodeValue(v)), NEW w
  PROVE  DecodeValue(d, At(n, q, w)) = At(n, q + Len(EncodeValue(v)), v)
  <1> DEFINE t == Need(d, At(n, q, w), 1)
             tag == t.val[1]
             B == CASE tag = 0        -> Read(t.at, <<>>)
                    [] tag \in {5, 6} -> Str(d, t)
                    [] tag = 7        -> Need(d, t, 1)
                    [] OTHER          -> Need(d, t, Fixed(tag))
             val == IF tag = 7 THEN B.val # <<0>> ELSE B.val
             b == Body(v)
             p == q + 1
             e == p + Len(b)
  <1>1. /\ v.tag \in Chars /\ b \in Seq(Chars) /\ EncodeValue(v) = <<v.tag>> \o b
        /\ EncodeValue(v) \in Seq(Chars) /\ Len(EncodeValue(v)) = 1 + Len(b)
    BY ValueBytes
  <1>2. <<v.tag>> \in Seq(Chars) /\ Len(<<v.tag>>) = 1 /\ <<v.tag>>[1] = v.tag
    BY <1>1, OneByte
  <1>3. W \in Seq(Chars) /\ n \in Nat /\ q \in Nat /\ Len(b) \in Nat
    BY <1>1 DEF Prefix, Stands
  <1>4. Stands(W, q, <<v.tag>>) /\ Stands(W, p, b)
    <2> HIDE DEF b, p
    <2>1. Stands(W, q, <<v.tag>>) /\ Stands(W, q + Len(<<v.tag>>), b)
      BY <1>1, <1>2, <1>3, StandsParts
    <2> QED  BY <1>2, <2>1 DEF p
  <1>5. t = At(n, p, <<v.tag>>)
    BY <1>1, <1>4, ByteAt
  <1>6. q + Len(EncodeValue(v)) = e /\ p \in Nat /\ e \in Nat /\ p <= e
    BY <1>1, <1>3
  <1>7. DecodeValue(d, At(n, q, w)) =
          IF t.ok /\ tag \in 0..8 /\ B.ok THEN Read(B.at, [tag |-> tag, val |-> val]) ELSE Failed
    BY TagIs DEF DecodeValue
  <1> HIDE DEF t, p, b, e
  <1>8. CASE ~(p <= n)
    <2>1. ~t.ok
      BY <1>5, <1>8, ReadIs DEF At
    <2>2. ~(e <= n)
      BY <1>3, <1>6, <1>8
    <2> QED  BY <1>6, <1>7, <2>1, <2>2 DEF At
  <1>9. CASE p <= n
    <2>1. t = Read(p, <<v.tag>>)
      BY <1>5, <1>9 DEF At
    <2>2. t.ok /\ tag = v.tag /\ tag \in 0..8 /\ t.at = p
      BY <1>2, <2>1, ReadIs, ValueKinds
    <2> HIDE DEF tag
    <2>3. B = At(n, e, B.val) /\ (e <= n => val = v.val)
      <3>1. CASE tag = 0
        <4>1. b = <<>> /\ v.val = <<>>
          <5>1. v.tag = 0
            BY <2>2, <3>1
          <5>2. v.val = <<>>
            BY <5>1, ValueKinds
          <5> QED  BY <5>1, <5>2 DEF Body, b
        <4>2. e = p
          BY <1>6, <4>1 DEF e
        <4>3. B = Read(p, <<>>)
          BY <2>2, <3>1
        <4>4. val = <<>>
          BY <3>1, <4>3, ReadIs
        <4> QED  BY <1>9, <4>1, <4>2, <4>3, <4>4, ReadIs DEF At
      <3>2. CASE tag \in {5, 6}
        <4>1. b = PutString(v.val) /\ v.val \in Texts
          BY <2>2, <3>2, ValueKinds DEF Body, b
        <4>2. B = At(n, e, v.val)
          <5>1. B = Str(d, t)
            BY <3>2
          <5> QED  BY <1>4, <1>5, <4>1, <5>1, StringAt DEF e
        <4>3. tag # 7
          BY <3>2
        <4> HIDE DEF B
        <4> QED  BY <4>2, <4>3, ReadIs DEF At
      <3>3. CASE tag = 7
        <4> DEFINE x == IF v.val THEN 1 ELSE 0
        <4>1. b = <<x>> /\ v.val \in BOOLEAN
          <5>1. v.tag = 7
            BY <2>2, <3>3
          <5>2. v.val \in BOOLEAN
            BY <5>1, ValueKinds
          <5> QED  BY <5>1, <5>2 DEF Body, b
        <4>2. x \in Chars /\ (<<x>> # <<0>> <=> v.val)
          BY <4>1, FlagByte
        <4> HIDE DEF x
        <4>3. Len(b) = 1
          BY <4>1, <4>2, OneByte
        <4>4. B = At(n, e, <<x>>)
          <5>1. B = Need(d, t, 1)
            BY <3>3
          <5> QED  BY <1>4, <1>5, <4>1, <4>2, <4>3, <5>1, ByteAt DEF e
        <4>5. val = (B.val # <<0>>)
          BY <3>3
        <4> HIDE DEF B, val
        <4>6. e <= n => val = v.val
          <5> SUFFICES ASSUME e <= n PROVE val = v.val
            OBVIOUS
          <5>1. B.val = <<x>>
            BY <4>4, ReadIs DEF At
          <5>2. (<<x>> # <<0>>) \in BOOLEAN
            OBVIOUS
          <5> QED  BY <4>1, <4>2, <4>5, <5>1, <5>2
        <4> QED  BY <4>4, <4>6, ReadIs DEF At
      <3>4. CASE tag \notin {0, 5, 6, 7}
        <4>1. b = v.val /\ b \in Seq(Chars) /\ Len(b) = Fixed(tag)
          BY <2>2, <3>4, ValueKinds DEF Body, b
        <4>2. B = At(n, e, v.val)
          <5>1. B = Need(d, t, Fixed(tag))
            BY <3>4
          <5>2. Need(d, t, Len(b)) = At(n, e, b)
            <6>1. b \in Seq(Chars)
              BY <4>1
            <6> QED  BY <1>4, <1>5, <6>1, NeedAt DEF e
          <5> QED  BY <4>1, <5>1, <5>2
        <4>3. tag # 7
          BY <3>4
        <4> HIDE DEF B
        <4> QED  BY <4>2, <4>3, ReadIs DEF At
      <3> QED  BY <3>1, <3>2, <3>3, <3>4
    <2> HIDE DEF B, val
    <2>4. CASE e <= n
      <3>1. B.ok /\ B.at = e /\ val = v.val
        BY <2>3, <2>4, ReadIs DEF At
      <3>2. v = [tag |-> tag, val |-> val]
        BY <2>2, <3>1, ValueKinds
      <3> QED  BY <1>6, <1>7, <2>2, <2>4, <3>1, <3>2 DEF At
    <2>5. CASE ~(e <= n)
      <3>1. ~B.ok
        BY <2>3, <2>5, ReadIs DEF At
      <3> QED  BY <1>6, <1>7, <2>5, <3>1 DEF At
    <2> QED  BY <2>4, <2>5
  <1> QED  BY <1>8, <1>9

\* One column of a row.
ColumnBytes(name, v) == PutString(name) \o EncodeValue(v)

LEMMA ColumnAt ==
  ASSUME NEW W, NEW n, NEW d, Prefix(W, n, d), NEW name \in Texts, NEW v, IsValue(v)
  PROVE  /\ ColumnBytes(name, v) \in Seq(Chars)
         /\ \A q, w : Stands(W, q, ColumnBytes(name, v)) =>
              ReadColumn(d, At(n, q, w)) = At(n, q + Len(ColumnBytes(name, v)), [name |-> name, val |-> v])
  <1> DEFINE a == PutString(name)
             b == EncodeValue(v)
             f == ColumnBytes(name, v)
  <1>0. f = a \o b
    BY DEF ColumnBytes
  <1> HIDE DEF f
  <1>1. a \in Seq(Chars) /\ b \in Seq(Chars)
    BY StringBytes, ValueBytes
  <1>2. f \in Seq(Chars) /\ Len(f) = Len(a) + Len(b)
    <2> HIDE DEF a, b
    <2>1. IsConcat(Chars, a, b, f)
      BY <1>0, <1>1, ConcatAt
    <2> QED  BY <2>1 DEF IsConcat
  <1>3. ASSUME NEW q, NEW w, Stands(W, q, f)
        PROVE  ReadColumn(d, At(n, q, w)) = At(n, q + Len(f), [name |-> name, val |-> v])
    <2> DEFINE p == q + Len(a)
               e == q + Len(f)
    <2>1. W \in Seq(Chars) /\ n \in Nat /\ q \in Nat /\ Len(a) \in Nat /\ Len(b) \in Nat
      BY <1>1, <1>3 DEF Prefix, Stands
    <2>2. Stands(W, q, a) /\ Stands(W, p, b)
      BY <1>0, <1>1, <1>3, <2>1, StandsParts
    <2>3. p \in Nat /\ e = p + Len(b) /\ p <= e /\ e \in Nat
      BY <1>2, <2>1
    <2>4. Str(d, At(n, q, w)) = At(n, p, name)
      BY <2>2, StringAt
    <2>5. DecodeValue(d, At(n, p, name)) = At(n, e, v)
      BY <2>2, <2>3, ValueAt
    <2> HIDE DEF p, e
    <2>6. ReadColumn(d, At(n, q, w)) =
            IF At(n, e, v).ok THEN Read(At(n, e, v).at, [name |-> At(n, p, name).val, val |-> At(n, e, v).val])
            ELSE Failed
      BY <2>4, <2>5 DEF ReadColumn
    <2>7. CASE e <= n
      <3>1. p <= n
        BY <2>1, <2>3, <2>7
      <3> QED  BY <2>6, <2>7, <3>1, ReadIs DEF At, e
    <2>8. CASE ~(e <= n)
      BY <2>6, <2>8, ReadIs DEF At, e
    <2> QED  BY <2>7, <2>8
  <1> QED  BY <1>2, <1>3 DEF f

\* One column of a schema.
LEMMA SchemaColumnAt ==
  ASSUME NEW W, NEW n, NEW d, Prefix(W, n, d), NEW c \in SchemaColumns
  PROVE  /\ EncodeColumn(c) \in Seq(Chars)
         /\ \A q, w : Stands(W, q, EncodeColumn(c)) =>
              ReadSchemaColumn(d, At(n, q, w)) = At(n, q + Len(EncodeColumn(c)), c)
  <1> DEFINE a == PutString(c.name)
             x == IF c.nullable THEN 1 ELSE 0
             y == IF c.is_primary_key THEN 1 ELSE 0
             b == <<c.type, x, y>>
             f == EncodeColumn(c)
  <1>1. /\ c.name \in Texts /\ c.type \in Chars /\ c.nullable \in BOOLEAN /\ c.is_primary_key \in BOOLEAN
        /\ c = [name |-> c.name, type |-> c.type, nullable |-> c.nullable, is_primary_key |-> c.is_primary_key]
    BY DEF SchemaColumns
  <1>2. x \in Chars /\ y \in Chars /\ (x # 0 <=> c.nullable) /\ (y # 0 <=> c.is_primary_key)
    BY <1>1, FlagByte
  <1>3. f = a \o b
    BY DEF EncodeColumn
  <1> HIDE DEF x, y, f
  <1>4. a \in Seq(Chars) /\ b \in Seq(Chars)
    BY <1>1, <1>2, StringBytes
  <1>5. Len(b) = 3 /\ b[1] = c.type /\ b[2] = x /\ b[3] = y
    OBVIOUS
  <1> HIDE DEF b
  <1>6. f \in Seq(Chars) /\ Len(f) = Len(a) + Len(b)
    <2> HIDE DEF a
    <2>1. IsConcat(Chars, a, b, f)
      BY <1>3, <1>4, ConcatAt
    <2> QED  BY <2>1 DEF IsConcat
  <1>7. ASSUME NEW q, NEW w, Stands(W, q, f)
        PROVE  ReadSchemaColumn(d, At(n, q, w)) = At(n, q + Len(f), c)
    <2> DEFINE p == q + Len(a)
               e == q + Len(f)
    <2>1. W \in Seq(Chars) /\ n \in Nat /\ q \in Nat /\ Len(a) \in Nat /\ Len(b) \in Nat
      BY <1>4, <1>7 DEF Prefix, Stands
    <2>2. Stands(W, q, a) /\ Stands(W, p, b)
      BY <1>3, <1>4, <1>7, <2>1, StandsParts
    <2>3. p \in Nat /\ e = p + Len(b) /\ p <= e /\ e \in Nat
      BY <1>6, <2>1
    <2>4. Str(d, At(n, q, w)) = At(n, p, c.name)
      BY <1>1, <2>2, StringAt
    <2>5. Need(d, At(n, p, c.name), 3) = At(n, e, b)
      <3>1. Need(d, At(n, p, c.name), Len(b)) = At(n, p + Len(b), b)
        BY <1>4, <2>2, NeedAt
      <3> QED  BY <1>5, <2>3, <3>1
    <2> HIDE DEF p, e
    <2> DEFINE u == At(n, e, b)
               r == [name |-> At(n, p, c.name).val, type |-> u.val[1], nullable |-> u.val[2] # 0,
                     is_primary_key |-> u.val[3] # 0]
    <2>6. ReadSchemaColumn(d, At(n, q, w)) = IF u.ok THEN Read(u.at, r) ELSE Failed
      BY <2>4, <2>5 DEF ReadSchemaColumn
    <2>7. CASE e <= n
      <3>1. p <= n
        BY <2>1, <2>3, <2>7
      <3>2. u.ok /\ u.at = e /\ u.val = b /\ At(n, p, c.name).val = c.name
        BY <2>7, <3>1, ReadIs DEF At
      <3>3. /\ r.name = c.name /\ r.type = c.type
            /\ r.nullable = (x # 0) /\ r.is_primary_key = (y # 0)
        BY <1>5, <3>2
      <3>4. (x # 0) = c.nullable /\ (y # 0) = c.is_primary_key
        BY <1>1, <1>2
      <3>5. r = c
        <4>1. r = [name |-> r.name, type |-> r.type, nullable |-> r.nullable, is_primary_key |-> r.is_primary_key]
          OBVIOUS
        <4> HIDE DEF r
        <4> QED  BY <1>1, <3>3, <3>4, <4>1
      <3> HIDE DEF u, r
      <3> QED  BY <2>6, <2>7, <3>2, <3>5 DEF At, e
    <2>8. CASE ~(e <= n)
      BY <2>6, <2>8, ReadIs DEF At, e
    <2> QED  BY <2>7, <2>8
  <1> QED  BY <1>6, <1>7 DEF f

\* What is written of a field after its type.
FieldBody(v) == CASE v.type = "string"  -> WriteString(v.val)
                  [] v.type = "boolean" -> <<IF v.val THEN 1 ELSE 0>>
                  [] OTHER              -> v.val

FieldTypes == {"boolean", "integer", "float", "string"}

LEMMA TypeIs ==
  /\ DOMAIN DataType = FieldTypes
  /\ DataType.string = 8 /\ DataType.boolean = 1
  /\ \A t \in FieldTypes : /\ DataType[t] \in {1, 5, 7, 8} /\ DataType[t] \in Chars /\ JsonType(DataType[t]) = t
                           /\ DataType[t] = 8 <=> t = "string"
                           /\ DataType[t] = 1 <=> t = "boolean"
  <1>1. DOMAIN DataType = FieldTypes
    BY DEF DataType, FieldTypes
  <1>2. DataType.string = 8 /\ DataType.boolean = 1 /\ DataType.integer = 5 /\ DataType.float = 7
    BY DEF DataType
  <1>3. JsonType(1) = "boolean" /\ JsonType(5) = "integer" /\ JsonType(7) = "float" /\ JsonType(8) = "string"
    BY DEF JsonType
  <1>4. 1 \in Chars /\ 5 \in Chars /\ 7 \in Chars /\ 8 \in Chars
    BY DEF Chars
  <1>5. DataType["string"] = 8 /\ DataType["boolean"] = 1 /\ DataType["integer"] = 5 /\ DataType["float"] = 7
    BY <1>2
  <1> QED  BY <1>1, <1>2, <1>3, <1>4, <1>5 DEF FieldTypes

LEMMA FieldKinds ==
  ASSUME NEW v, IsField(v), v.type \in FieldTypes
  PROVE  /\ v = [type |-> v.type, val |-> v.val]
         /\ v.type = "string" => v.val \in Texts
         /\ v.type = "boolean" => v.val \in BOOLEAN
         /\ v.type \notin {"string", "boolean"} => v.val \in Seq(Chars) /\ Len(v.val) = 8
  <1>1. v = [type |-> v.type, val |-> v.val] /\ (v.type = "string" => v.val \in Texts)
    BY DEF IsField
  <1>2. v.type = "boolean" => v.val \in BOOLEAN
    BY DEF IsField
  <1>3. v.type \notin {"string", "boolean"} => v.val \in Seq(Chars) /\ Len(v.val) = 8
    <2> SUFFICES ASSUME v.type \notin {"string", "boolean"} PROVE v.val \in Seq(Chars) /\ Len(v.val) = 8
      OBVIOUS
    <2> DEFINE m == 8
               s == v.val
    <2>1. m \in Nat /\ s \in [1..m -> Chars]
      BY DEF IsField
    <2> HIDE DEF m, s
    <2>2. s \in Seq(Chars) /\ Len(s) = m
      BY <2>1
    <2> QED  BY <2>2 DEF m, s
  <1> QED  BY <1>1, <1>2, <1>3

LEMMA FieldBytes ==
  ASSUME NEW v, IsField(v), v.type \in FieldTypes
  PROVE  FieldBody(v) \in Seq(Chars)
  <1>1. CASE v.type = "string"
    <2>1. FieldBody(v) = WriteString(v.val) /\ v.val \in Texts
      BY <1>1, FieldKinds DEF FieldBody
    <2> QED  BY <2>1, StringBytes
  <1>2. CASE v.type = "boolean"
    <2>1. v.val \in BOOLEAN
      BY <1>2, FieldKinds
    <2>2. FieldBody(v) = <<IF v.val THEN 1 ELSE 0>>
      BY <1>2 DEF FieldBody
    <2>3. (IF v.val THEN 1 ELSE 0) \in Chars
      BY <2>1, FlagByte
    <2> QED  BY <2>2, <2>3, OneByte
  <1>3. CASE v.type \notin {"string", "boolean"}
    <2>1. FieldBody(v) = v.val
      BY <1>3 DEF FieldBody
    <2> QED  BY <1>3, <2>1, FieldKinds
  <1> QED  BY <1>1, <1>2, <1>3

\* One field of an event.
LEMMA FieldAt ==
  ASSUME NEW W, NEW n, NEW d, Prefix(W, n, d), NEW nm \in Texts, NEW v, IsField(v), v.type \in FieldTypes
  PROVE  /\ WriteField(nm, v) \in Seq(Chars)
         /\ \A q, w : Stands(W, q, WriteField(nm, v)) =>
              ReadField(d, At(n, q, w)) = At(n, q + Len(WriteField(nm, v)), [name |-> nm, val |-> v])
  <1> DEFINE f == WriteField(nm, v)
             a == WriteString(nm)
             x == DataType[v.type]
             c == <<x>>
             b == FieldBody(v)
  <1>1. f = (a \o c) \o b
    BY DEF WriteField, FieldBody
  <1>2. a \in Seq(Chars) /\ b \in Seq(Chars) /\ c \in Seq(Chars) /\ Len(c) = 1 /\ c[1] = x /\ x \in Chars
    <2>1. x \in Chars
      BY TypeIs
    <2> HIDE DEF x
    <2> QED  BY <2>1, StringBytes, FieldBytes, OneByte
  <1> HIDE DEF f, a, b
  <1>3. a \o c \in Seq(Chars) /\ Len(a \o c) = Len(a) + 1
    <2> HIDE DEF c
    <2>1. IsConcat(Chars, a, c, a \o c)
      BY <1>2, ConcatAt
    <2> QED  BY <1>2, <2>1 DEF IsConcat
  <1>4. f \in Seq(Chars) /\ Len(f) = (Len(a) + 1) + Len(b)
    <2> HIDE DEF c
    <2>1. IsConcat(Chars, a \o c, b, f)
      BY <1>1, <1>2, <1>3, ConcatAt
    <2> QED  BY <1>3, <2>1 DEF IsConcat
  <1>5. ASSUME NEW q, NEW w, Stands(W, q, f)
        PROVE  ReadField(d, At(n, q, w)) = At(n, q + Len(f), [name |-> nm, val |-> v])
    <2> DEFINE o == q + Len(a)
               p == o + 1
               e == q + Len(f)
               t == Need(d, At(n, o, nm), 1)
               byte == t.val[1]
               B == CASE byte = 8 -> ReadString(d, t)
                      [] byte = 1 -> Need(d, t, 1)
                      [] OTHER    -> Need(d, t, 8)
               val == IF byte = 1 THEN B.val # <<0>> ELSE B.val
    <2>1. W \in Seq(Chars) /\ n \in Nat /\ q \in Nat /\ Len(a) \in Nat /\ Len(b) \in Nat
      BY <1>2, <1>5 DEF Prefix, Stands
    <2>2. o \in Nat /\ p \in Nat /\ e = p + Len(b) /\ p <= e /\ e \in Nat /\ p = q + (Len(a) + 1) /\ o <= p
      BY <1>4, <2>1
    <2>3. Stands(W, q, a) /\ Stands(W, o, c) /\ Stands(W, p, b)
      <3> HIDE DEF c, p
      <3>1. Stands(W, q, a \o c) /\ Stands(W, q + (Len(a) + 1), b)
        BY <1>1, <1>2, <1>3, <1>5, <2>1, StandsParts
      <3>2. Stands(W, q, a) /\ Stands(W, o, c)
        BY <1>2, <2>1, <3>1, StandsParts
      <3> QED  BY <2>2, <3>1, <3>2
    <2>4. ReadString(d, At(n, q, w)) = At(n, o, nm)
      BY <2>3, StringAt DEF a
    <2>5. t = At(n, p, c)
      BY <1>2, <2>3, ByteAt
    <2>6. ReadField(d, At(n, q, w)) =
            IF t.ok /\ byte \in {1, 5, 7, 8} /\ B.ok
            THEN Read(B.at, [name |-> At(n, o, nm).val, val |-> [type |-> JsonType(byte), val |-> val]])
            ELSE Failed
      BY <2>4, TypeIs DEF ReadField
    <2> HIDE DEF o, p, e, t, c
    <2>7. CASE ~(p <= n)
      <3>1. ~t.ok
        BY <2>5, <2>7, ReadIs DEF At
      <3>2. ~(e <= n)
        BY <2>1, <2>2, <2>7
      <3> QED  BY <2>6, <3>1, <3>2 DEF At, e
    <2>8. CASE p <= n
      <3>1. t = Read(p, c)
        BY <2>5, <2>8 DEF At
      <3>2. t.ok /\ byte = x /\ t.at = p
        BY <1>2, <3>1, ReadIs
      <3>3. byte \in {1, 5, 7, 8} /\ JsonType(byte) = v.type /\ (byte = 8 <=> v.type = "string") /\ (byte = 1 <=> v.type = "boolean")
        BY <3>2, TypeIs
      <3> HIDE DEF byte, x
      <3>4. B = At(n, e, B.val) /\ (e <= n => val = v.val)
        <4>1. CASE v.type = "string"
          <5>1. b = WriteString(v.val) /\ v.val \in Texts
            BY <4>1, FieldKinds DEF FieldBody, b
          <5>2. byte = 8 /\ byte # 1
            BY <3>3, <4>1
          <5>3. B = At(n, e, v.val)
            <6>1. B = ReadString(d, t)
              BY <5>2
            <6>2. ReadString(d, t) = At(n, p + Len(b), v.val)
              BY <2>3, <2>5, <5>1, StringAt
            <6> QED  BY <2>2, <6>1, <6>2
          <5> HIDE DEF B
          <5> QED  BY <5>2, <5>3, ReadIs DEF At
        <4>2. CASE v.type = "boolean"
          <5> DEFINE y == IF v.val THEN 1 ELSE 0
          <5>1. v.val \in BOOLEAN
            BY <4>2, FieldKinds
          <5>2. b = <<y>>
            BY <4>2 DEF FieldBody, b
          <5>3. y \in Chars /\ (<<y>> # <<0>> <=> v.val)
            BY <5>1, FlagByte
          <5> HIDE DEF y
          <5>4. Len(b) = 1
            BY <5>2, <5>3, OneByte
          <5>5. byte = 1 /\ byte # 8
            BY <3>3, <4>2
          <5>6. B = At(n, e, <<y>>)
            <6>1. B = Need(d, t, 1)
              BY <5>5
            <6>2. Need(d, t, 1) = At(n, p + 1, <<y>>)
              BY <2>3, <2>5, <5>2, <5>3, ByteAt
            <6> QED  BY <2>2, <5>4, <6>1, <6>2
          <5>7. val = (B.val # <<0>>)
            BY <5>5
          <5> HIDE DEF B, val
          <5>8. e <= n => val = v.val
            <6> SUFFICES ASSUME e <= n PROVE val = v.val
              OBVIOUS
            <6>1. B.val = <<y>>
              BY <5>6, ReadIs DEF At
            <6>2. (<<y>> # <<0>>) \in BOOLEAN
              OBVIOUS
            <6> QED  BY <5>1, <5>3, <5>7, <6>1, <6>2
          <5> QED  BY <5>6, <5>8, ReadIs DEF At
        <4>3. CASE v.type \notin {"string", "boolean"}
          <5>1. b = v.val
            BY <4>3 DEF FieldBody, b
          <5>2. Len(b) = 8
            BY <4>3, <5>1, FieldKinds
          <5>3. byte # 1 /\ byte # 8
            BY <3>3, <4>3
          <5>4. B = At(n, e, v.val)
            <6>1. B = Need(d, t, 8)
              BY <5>3
            <6>2. Need(d, t, Len(b)) = At(n, p + Len(b), b)
              BY <1>2, <2>3, <2>5, NeedAt
            <6> QED  BY <2>2, <5>1, <5>2, <6>1, <6>2
          <5> HIDE DEF B
          <5> QED  BY <5>3, <5>4, ReadIs DEF At
        <4> QED  BY <4>1, <4>2, <4>3
      <3> HIDE DEF B, val
      <3>5. CASE e <= n
        <4>1. B.ok /\ B.at = e /\ val = v.val
          BY <3>4, <3>5, ReadIs DEF At
        <4>2. o <= n
          BY <2>1, <2>2, <2>8
        <4>3. At(n, o, nm).val = nm
          BY <4>2, ReadIs DEF At
        <4>4. v = [type |-> JsonType(byte), val |-> val]
          BY <3>3, <4>1, FieldKinds
        <4> QED  BY <2>6, <3>2, <3>3, <3>5, <4>1, <4>3, <4>4 DEF At, e
      <3>6. CASE ~(e <= n)
        <4>1. ~B.ok
          BY <3>4, <3>6, ReadIs DEF At
        <4> QED  BY <2>6, <3>6, <4>1 DEF At, e
      <3> QED  BY <3>5, <3>6
    <2> QED  BY <2>7, <2>8
  <1> QED  BY <1>4, <1>5 DEF f

-----------------------------------------------------------------------------
(***************************************************************************)
(* Lists.                                                                   *)
(***************************************************************************)
Kinds == {"column", "name", "schema column", "field"}

IsEntry(kind, x) ==
  CASE kind = "column"        -> x = [name |-> x.name, val |-> x.val] /\ x.name \in Texts /\ IsValue(x.val)
    [] kind = "name"          -> x \in Texts
    [] kind = "schema column" -> x \in SchemaColumns
    [] kind = "field"         -> /\ x = [name |-> x.name, val |-> x.val] /\ x.name \in Texts
                                 /\ IsField(x.val) /\ x.val.type \in FieldTypes

EncodeEntry(kind, x) ==
  CASE kind = "column"        -> ColumnBytes(x.name, x.val)
    [] kind = "name"          -> PutString(x)
    [] kind = "schema column" -> EncodeColumn(x)
    [] kind = "field"         -> WriteField(x.name, x.val)

LEMMA EntryAt ==
  ASSUME NEW W, NEW n, NEW d, Prefix(W, n, d), NEW kind \in Kinds, NEW x, IsEntry(kind, x)
  PROVE  /\ EncodeEntry(kind, x) \in Seq(Chars)
         /\ \A q, w : Stands(W, q, EncodeEntry(kind, x)) =>
              Entry(kind, d, At(n, q, w)) = At(n, q + Len(EncodeEntry(kind, x)), x)
  <1> DEFINE f == EncodeEntry(kind, x)
  <1>1. CASE kind = "column"
    <2>1. x = [name |-> x.name, val |-> x.val] /\ x.name \in Texts /\ IsValue(x.val)
      BY <1>1 DEF IsEntry
    <2>2. f = ColumnBytes(x.name, x.val) /\ \A r : Entry(kind, d, r) = ReadColumn(d, r)
      BY <1>1 DEF EncodeEntry, Entry
    <2> HIDE DEF f
    <2>3. /\ f \in Seq(Chars)
          /\ \A q, w : Stands(W, q, f) => ReadColumn(d, At(n, q, w)) = At(n, q + Len(f), [name |-> x.name, val |-> x.val])
      BY <2>1, <2>2, ColumnAt
    <2> QED  BY <2>1, <2>2, <2>3 DEF f
  <1>2. CASE kind = "name"
    <2>1. x \in Texts /\ f = PutString(x) /\ \A r : Entry(kind, d, r) = Str(d, r)
      BY <1>2 DEF IsEntry, EncodeEntry, Entry
    <2> HIDE DEF f
    <2>2. f \in Seq(Chars)
      BY <2>1, StringBytes
    <2>3. \A q, w : Stands(W, q, f) => Str(d, At(n, q, w)) = At(n, q + Len(f), x)
      BY <2>1, StringAt
    <2> QED  BY <2>1, <2>2, <2>3 DEF f
  <1>3. CASE kind = "schema column"
    <2>1. x \in SchemaColumns /\ f = EncodeColumn(x) /\ \A r : Entry(kind, d, r) = ReadSchemaColumn(d, r)
      BY <1>3 DEF IsEntry, EncodeEntry, Entry
    <2> HIDE DEF f
    <2>2. /\ f \in Seq(Chars)
          /\ \A q, w : Stands(W, q, f) => ReadSchemaColumn(d, At(n, q, w)) = At(n, q + Len(f), x)
      BY <2>1, SchemaColumnAt
    <2> QED  BY <2>1, <2>2 DEF f
  <1>4. CASE kind = "field"
    <2>1. /\ x = [name |-> x.name, val |-> x.val] /\ x.name \in Texts
          /\ IsField(x.val) /\ x.val.type \in FieldTypes
      BY <1>4 DEF IsEntry
    <2>2. f = WriteField(x.name, x.val) /\ \A r : Entry(kind, d, r) = ReadField(d, r)
      BY <1>4 DEF EncodeEntry, Entry
    <2> HIDE DEF f
    <2>3. /\ f \in Seq(Chars)
          /\ \A q, w : Stands(W, q, f) => ReadField(d, At(n, q, w)) = At(n, q + Len(f), [name |-> x.name, val |-> x.val])
      BY <2>1, <2>2, FieldAt
    <2> QED  BY <2>1, <2>2, <2>3 DEF f
  <1> QED  BY <1>1, <1>2, <1>3, <1>4 DEF Kinds

\* The bytes of the entries.
ListBytes(kind, xs) == FlattenSeq([i \in 1..Len(xs) |-> EncodeEntry(kind, xs[i])])

\* One round of the loop that reads them.
Round(kind, d, r) == Grown(r, Entry(kind, d, r))

LEMMA RoundAt ==
  ASSUME NEW W, NEW n, NEW d, Prefix(W, n, d), NEW kind \in Kinds, NEW x, IsEntry(kind, x), NEW q,
         Stands(W, q, EncodeEntry(kind, x)), NEW ys
  PROVE  Round(kind, d, At(n, q, ys)) = At(n, q + Len(EncodeEntry(kind, x)), Append(ys, x))
  <1> DEFINE f == EncodeEntry(kind, x)
             e == q + Len(f)
  <1>1. f \in Seq(Chars) /\ Entry(kind, d, At(n, q, ys)) = At(n, e, x)
    BY EntryAt
  <1>2. n \in Nat /\ q \in Nat /\ Len(f) \in Nat
    BY <1>1 DEF Prefix, Stands
  <1>3. e \in Nat /\ q <= e
    BY <1>2
  <1> HIDE DEF e
  <1>4. CASE e <= n
    <2>1. q <= n
      BY <1>2, <1>3, <1>4
    <2>2. At(n, e, x) = Read(e, x) /\ At(n, q, ys) = Read(q, ys)
      BY <1>4, <2>1 DEF At
    <2> QED  BY <1>1, <1>4, <2>2, ReadIs DEF Round, Grown, At, e
  <1>5. CASE ~(e <= n)
    <2>1. At(n, e, x) = Failed
      BY <1>5 DEF At
    <2> QED  BY <1>1, <1>5, <2>1, ReadIs DEF Round, Grown, At, e
  <1> QED  BY <1>4, <1>5

LEMMA ListAt ==
  ASSUME NEW W, NEW n, NEW d, Prefix(W, n, d), NEW kind \in Kinds, NEW X, NEW xs \in Seq(X),
         \A i \in 1..Len(xs) : IsEntry(kind, xs[i])
  PROVE  /\ ListBytes(kind, xs) \in Seq(Chars)
         /\ \A q : Stands(W, q, ListBytes(kind, xs)) =>
              ReadList(kind, d, At(n, q, Len(xs))) = At(n, q + Len(ListBytes(kind, xs)), xs)
  <1> DEFINE m == Len(xs)
             F(i) == EncodeEntry(kind, xs[i])
             fs == [i \in 1..m |-> F(i)]
             f == FlattenSeq(fs)
  <1>1. m \in Nat /\ \A i \in 1..m : F(i) \in Seq(Chars)
    BY EntryAt
  <1>2. ListBytes(kind, xs) = f
    BY DEF ListBytes
  <1>3. fs \in Seq(Seq(Chars)) /\ Len(fs) = m /\ \A i \in 1..m : fs[i] = F(i)
    <2> DEFINE T == Seq(Chars)
    <2>1. \A i \in 1..m : F(i) \in T
      BY <1>1
    <2> HIDE DEF T, m, F
    <2>2. fs \in Seq(T) /\ Len(fs) = m /\ \A i \in 1..m : fs[i] = F(i)
      BY <1>1, <2>1
    <2> QED  BY <2>2 DEF T
  <1> HIDE DEF fs
  <1>4. PICK P : IsFlat(Chars, fs, P)
    BY <1>3, FlattenSteps
  <1>5. \A i \in 1..m : /\ Stands(f, Len(P[i - 1]), fs[i])
                        /\ Len(P[i]) = Len(P[i - 1]) + Len(fs[i])
                        /\ Len(P[i]) <= Len(f)
    BY <1>3, <1>4, FlatStands
  <1>6. P \in [0..m -> Seq(Chars)] /\ P[0] = <<>> /\ f = P[m] /\ f \in Seq(Chars)
    <2>1. P \in [0..m -> Seq(Chars)] /\ P[0] = <<>> /\ f = P[m]
      BY <1>3, <1>4 DEF IsFlat
    <2> HIDE DEF f
    <2> QED  BY <1>1, <2>1
  <1> HIDE DEF f
  <1>7. ASSUME NEW q, Stands(W, q, f)
        PROVE  ReadList(kind, d, At(n, q, m)) = At(n, q + Len(f), xs)
    <2> DEFINE o(k) == q + Len(P[k])
               L == [k \in 0..m |-> At(n, o(k), SubSeq(xs, 1, k))]
               G(g) == [k \in 0..m |-> IF k = 0 THEN Read(q, <<>>) ELSE Round(kind, d, g[k - 1])]
               R == CHOOSE g : g = G(g)
    <2>1. W \in Seq(Chars) /\ n \in Nat /\ q \in Nat /\ Len(f) \in Nat
      BY <1>6, <1>7 DEF Prefix, Stands
    <2>2. CASE ~(q <= n)
      <3>1. At(n, q, m) = Failed /\ At(n, q + Len(f), xs) = Failed
        BY <2>1, <2>2 DEF At
      <3> QED  BY <3>1, ReadIs DEF ReadList
    <2>3. CASE q <= n
      <3>1. At(n, q, m) = Read(q, m)
        BY <2>3 DEF At
      <3>2. ReadList(kind, d, Read(q, m)) = R[m]
        BY DEF ReadList, Round, Read
      <3>3. L[0] = Read(q, <<>>)
        <4>1. Len(P[0]) = 0 /\ SubSeq(xs, 1, 0) = <<>> /\ 0 \in 0..m
          BY <1>1, <1>6
        <4>2. o(0) = q
          BY <2>1, <4>1
        <4> HIDE DEF o
        <4> QED  BY <2>3, <4>1, <4>2 DEF At
      <3>4. ASSUME NEW k \in 1..m PROVE L[k] = Round(kind, d, L[k - 1])
        <4>1. k - 1 \in 0..m /\ k \in 0..m /\ k \in Nat \ {0}
          BY <1>1
        <4>2. Stands(W, o(k - 1), F(k))
          <5> DEFINE z == Len(P[k - 1])
          <5>1. Stands(f, z, F(k))
            BY <1>3, <1>5
          <5>2. F(k) \in Seq(Chars)
            BY <1>1
          <5> HIDE DEF z, F
          <5>3. Stands(W, q + z, F(k))
            BY <1>6, <1>7, <2>1, <5>1, <5>2, StandsInside
          <5> QED  BY <5>3 DEF z
        <4>3. o(k) = o(k - 1) + Len(F(k))
          <5>1. Len(P[k]) = Len(P[k - 1]) + Len(F(k)) /\ Len(F(k)) \in Nat
            <6>1. fs[k] = F(k) /\ F(k) \in Seq(Chars)
              BY <1>1, <1>3
            <6>2. Len(P[k]) = Len(P[k - 1]) + Len(fs[k])
              BY <1>5
            <6> HIDE DEF F
            <6> QED  BY <6>1, <6>2
          <5>2. Len(P[k - 1]) \in Nat
            BY <1>6, <4>1
          <5> HIDE DEF F
          <5> QED  BY <2>1, <5>1, <5>2
        <4>4. SubSeq(xs, 1, k) = Append(SubSeq(xs, 1, k - 1), xs[k])
          <5>1. k \in 1..Len(xs)
            OBVIOUS
          <5> HIDE DEF m
          <5> QED  BY <4>1, <5>1
        <4>5. IsEntry(kind, xs[k])
          OBVIOUS
        <4> HIDE DEF o, L
        <4>6. L[k - 1] = At(n, o(k - 1), SubSeq(xs, 1, k - 1)) /\ L[k] = At(n, o(k), SubSeq(xs, 1, k))
          BY <4>1 DEF L
        <4>7. Round(kind, d, At(n, o(k - 1), SubSeq(xs, 1, k - 1))) =
                At(n, o(k - 1) + Len(F(k)), Append(SubSeq(xs, 1, k - 1), xs[k]))
          BY <4>2, <4>5, RoundAt
        <4> QED  BY <4>3, <4>4, <4>6, <4>7
      <3> HIDE DEF o
      <3>5. L = G(L)
        <4>1. \A k \in 0..m : L[k] = G(L)[k]
          <5> HIDE DEF L, m
          <5>1. \A k \in 0..m : k = 0 \/ k \in 1..m
            BY <1>1
          <5> QED  BY <3>3, <3>4, <5>1
        <4> HIDE DEF m
        <4> QED  BY <4>1
      <3>6. R = G(R)
        <4> HIDE DEF G, L
        <4> QED  BY <3>5
      <3> HIDE DEF R, L, m
      <3>7. R[0] = Read(q, <<>>) /\ \A k \in 1..m : R[k] = Round(kind, d, R[k - 1])
        BY <1>1, <3>6
      <3>8. GoesAlike(m, R, L)
        <4> HIDE DEF G
        <4> QED  BY <3>3, <3>4, <3>7 DEF GoesAlike
      <3>9. R[m] = L[m]
        <4>1. Alike(m, R, L)
          BY <1>1, <3>8, SameUpTo
        <4> QED  BY <1>1, <4>1 DEF Alike
      <3>10. L[m] = At(n, q + Len(f), xs)
        <4>1. m \in 0..m /\ SubSeq(xs, 1, m) = xs
          BY <1>1 DEF m
        <4> QED  BY <1>6, <4>1 DEF L, o
      <3> QED  BY <3>1, <3>2, <3>9, <3>10
    <2> QED  BY <2>2, <2>3
  <1> QED  BY <1>2, <1>6, <1>7

\* The entries of a map, in an order of its names.
Named(order, M) == [i \in 1..Len(order) |-> [name |-> order[i], val |-> M[order[i]]]]

LEMMA OrderIs ==
  ASSUME NEW S, IsFiniteSet(S), NEW order \in Orders(S), NEW M
  PROVE  /\ order \in Seq(S) /\ Len(order) = Cardinality(S) /\ Len(order) \in Nat
         /\ \A x \in S : \E i \in 1..Len(order) : order[i] = x
         /\ Len(Named(order, M)) = Len(order)
         /\ \A i \in 1..Len(order) : /\ order[i] \in S
                                     /\ Named(order, M)[i] = [name |-> order[i], val |-> M[order[i]]]
         /\ \E X : Named(order, M) \in Seq(X)
  <1> DEFINE c == Cardinality(S)
             E(i) == [name |-> order[i], val |-> M[order[i]]]
             X == {E(i) : i \in 1..c}
             N == Named(order, M)
  <1>1. c \in Nat
    BY FS_CardinalityType
  <1>2. order \in [1..c -> S] /\ \A x \in S : \E i \in 1..c : order[i] = x
    BY DEF Orders
  <1> HIDE DEF c
  <1>3. order \in Seq(S) /\ Len(order) = c
    BY <1>1, <1>2
  <1>4. N = [i \in 1..c |-> E(i)] /\ \A i \in 1..c : E(i) \in X
    BY <1>3 DEF Named
  <1>5. N \in Seq(X) /\ Len(N) = c /\ \A i \in 1..c : N[i] = E(i)
    <2> HIDE DEF E, X, N
    <2> QED  BY <1>1, <1>4
  <1> HIDE DEF X, N
  <1>6. \E Y : N \in Seq(Y)
    BY <1>5
  <1> QED  BY <1>1, <1>2, <1>3, <1>5, <1>6 DEF c, N

\* The map of the entries of a map is the map, whatever their order.
LEMMA MapBack ==
  ASSUME NEW S, IsFiniteSet(S), NEW order \in Orders(S), NEW M
  PROVE  MapOf(Named(order, M)) = [x \in S |-> M[x]]
  <1> DEFINE xs == Named(order, M)
             m == Len(order)
             Latest(x) == CHOOSE i \in 1..m : /\ xs[i].name = x
                                            /\ \A j \in 1..m : xs[j].name = x => j <= i
  <1>1. /\ m \in Nat /\ Len(xs) = m /\ \A x \in S : \E i \in 1..m : order[i] = x
        /\ \A i \in 1..m : order[i] \in S /\ xs[i] = [name |-> order[i], val |-> M[order[i]]]
    BY OrderIs
  <1>2. \A i \in 1..m : order[i] \in S /\ xs[i].name = order[i] /\ xs[i].val = M[order[i]]
    <2> SUFFICES ASSUME NEW i \in 1..m PROVE order[i] \in S /\ xs[i].name = order[i] /\ xs[i].val = M[order[i]]
      OBVIOUS
    <2> HIDE DEF xs, m
    <2>1. order[i] \in S /\ xs[i] = [name |-> order[i], val |-> M[order[i]]]
      BY <1>1
    <2> QED  BY <2>1
  <1> HIDE DEF xs, m
  <1>3. MapOf(xs) = [x \in {xs[i].name : i \in 1..m} |-> xs[Latest(x)].val]
    BY <1>1 DEF MapOf
  <1>4. {xs[i].name : i \in 1..m} = S
    <2>1. \A i \in 1..m : xs[i].name \in S
      BY <1>2
    <2>2. ASSUME NEW x \in S PROVE x \in {xs[i].name : i \in 1..m}
      <3>1. PICK i \in 1..m : order[i] = x
        BY <1>1
      <3>2. xs[i].name = x
        BY <1>2, <3>1
      <3> QED  BY <3>2
    <2> QED  BY <2>1, <2>2
  <1>5. ASSUME NEW x \in S PROVE xs[Latest(x)].val = M[x]
    <2> DEFINE Y == {i \in 1..m : xs[i].name = x}
    <2>1. Y \subseteq 0..m /\ Y # {}
      <3>1. x \in {xs[i].name : i \in 1..m}
        BY <1>4
      <3>2. \A i \in 1..m : i \in 0..m
        BY <1>1
      <3> QED  BY <3>1, <3>2
    <2>2. \E i \in Y : \A j \in Y : j <= i
      <3> HIDE DEF Y
      <3> QED  BY <1>1, <2>1, LargestOf
    <2>3. \E i \in 1..m : xs[i].name = x /\ \A j \in 1..m : xs[j].name = x => j <= i
      BY <2>2
    <2>4. Latest(x) \in 1..m /\ xs[Latest(x)].name = x
      BY <2>3
    <2> HIDE DEF Latest
    <2> QED  BY <1>2, <2>4
  <1> HIDE DEF Latest
  <1> QED  BY <1>3, <1>4, <1>5 DEF xs

LEMMA SizeFits ==
  ASSUME NEW S, NEW T, IsFiniteSet(T), S \subseteq T, Fits(Cardinality(T))
  PROVE  IsFiniteSet(S) /\ Fits(Cardinality(S))
  <1>1. IsFiniteSet(S) /\ Cardinality(S) <= Cardinality(T)
    BY FS_Subset
  <1>2. Cardinality(S) \in Nat
    BY <1>1, FS_CardinalityType
  <1> QED  BY <1>1, <1>2, Smaller

LEMMA StartIs ==
  ASSUME NEW W, NEW n, NEW d, Prefix(W, n, d)
  PROVE  Start = At(n, 0, <<>>)
  <1>1. 0 <= n
    BY DEF Prefix
  <1> QED  BY <1>1 DEF Start, At

\* DecodeRow reads back what EncodeRow wrote, and nothing from fewer bytes.
LEMMA RowAt ==
  ASSUME NEW row, IsRow(row), NEW order \in Orders(DOMAIN row.columns), NEW W, W = EncodeRow(row, order)
  PROVE  /\ W \in Seq(Chars)
         /\ \A n \in 0..Len(W) : DecodeRow(SubSeq(W, 1, n)) = At(n, Len(W), row)
  <1> DEFINE cols == row.columns
             S == DOMAIN cols
             xs == Named(order, cols)
             m == Len(order)
             a == PutString(row.key)
             b == PutU32(m)
             f == ListBytes("column", xs)
  <1>1. /\ row = [key |-> row.key, columns |-> cols] /\ row.key \in Texts
        /\ cols = [x \in S |-> cols[x]] /\ S \subseteq Texts /\ IsFiniteSet(S) /\ Fits(Cardinality(S))
        /\ \A x \in S : IsValue(cols[x])
    BY DEF IsRow, IsMap
  <1>2. /\ order \in Seq(S) /\ m = Cardinality(S) /\ m \in Nat /\ Len(xs) = m
        /\ \A i \in 1..m : order[i] \in S /\ xs[i] = [name |-> order[i], val |-> cols[order[i]]]
        /\ \E X : xs \in Seq(X)
    BY <1>1, OrderIs
  <1>3. PICK X : xs \in Seq(X)
    BY <1>2
  <1>4. Fits(m)
    BY <1>1, <1>2
  <1>5. W = (a \o b) \o f
    <2>1. \A i \in 1..m : EncodeEntry("column", xs[i]) = PutString(order[i]) \o EncodeValue(cols[order[i]])
      <3> SUFFICES ASSUME NEW i \in 1..m
                   PROVE  EncodeEntry("column", xs[i]) = PutString(order[i]) \o EncodeValue(cols[order[i]])
        OBVIOUS
      <3> HIDE DEF xs
      <3>0. xs[i] = [name |-> order[i], val |-> cols[order[i]]]
        BY <1>2
      <3>1. xs[i].name = order[i] /\ xs[i].val = cols[order[i]]
        BY <3>0
      <3> QED  BY <3>1 DEF EncodeEntry, ColumnBytes
    <2>2. [i \in 1..Len(xs) |-> EncodeEntry("column", xs[i])] =
            [i \in 1..m |-> PutString(order[i]) \o EncodeValue(cols[order[i]])]
      BY <1>2, <2>1
    <2> QED  BY <2>2 DEF EncodeRow, ListBytes
  <1>6. ASSUME NEW i \in 1..Len(xs) PROVE IsEntry("column", xs[i])
    <2>1. xs[i] = [name |-> order[i], val |-> cols[order[i]]] /\ order[i] \in S
      BY <1>2, <1>6
    <2>2. xs[i].name \in Texts /\ IsValue(xs[i].val) /\ xs[i] = [name |-> xs[i].name, val |-> xs[i].val]
      BY <1>1, <2>1
    <2> QED  BY <2>2 DEF IsEntry
  <1>7. MapOf(xs) = cols
    BY <1>1, MapBack
  <1> HIDE DEF xs, m, f, cols
  <1>8. "column" \in Kinds
    BY DEF Kinds
  <1>9. a \in Seq(Chars) /\ b \in Seq(Chars) /\ Len(b) = 4 /\ f \in Seq(Chars)
    <2>1. <<>> \in Seq(Chars) /\ Prefix(<<>>, 0, <<>>)
      BY DEF Prefix
    <2>2. f \in Seq(Chars)
      BY <1>3, <1>6, <1>8, <2>1, ListAt DEF f
    <2> QED  BY <1>1, <1>4, <2>2, StringBytes, WordBytes
  <1> DEFINE A == Len(a)
             p == A + 4
  <1> HIDE DEF a, b
  <1>10. A \in Nat /\ p \in Nat /\ Len(f) \in Nat
    BY <1>9
  <1>11. a \o b \in Seq(Chars) /\ Len(a \o b) = p
    <2>1. IsConcat(Chars, a, b, a \o b)
      BY <1>9, ConcatAt
    <2> QED  BY <1>9, <2>1 DEF IsConcat
  <1>12. W \in Seq(Chars) /\ Len(W) = p + Len(f)
    <2> DEFINE ab == a \o b
    <2> HIDE DEF ab
    <2>1. IsConcat(Chars, ab, f, W)
      BY <1>5, <1>9, <1>11, ConcatAt DEF ab
    <2> QED  BY <1>11, <2>1 DEF IsConcat, ab
  <1>13. Stands(W, 0, a) /\ Stands(W, A, b) /\ Stands(W, p, f)
    <2> HIDE DEF A, p
    <2>1. Stands(W, 0, W)
      BY <1>12, StandsWhole
    <2>2. Stands(W, 0, a \o b) /\ Stands(W, 0 + p, f)
      <3> DEFINE ab == a \o b
      <3>1. ab \in Seq(Chars) /\ Len(ab) = p /\ W = ab \o f
        BY <1>5, <1>11
      <3> HIDE DEF ab
      <3>2. Stands(W, 0, ab \o f)
        BY <2>1, <3>1
      <3>3. Stands(W, 0, ab) /\ Stands(W, 0 + Len(ab), f)
        BY <1>9, <1>12, <3>1, <3>2, StandsParts
      <3> QED  BY <3>1, <3>3 DEF ab
    <2>3. Stands(W, 0, a) /\ Stands(W, 0 + A, b)
      BY <1>9, <1>12, <2>2, StandsParts DEF A
    <2>4. 0 + A = A /\ 0 + p = p
      BY <1>10
    <2> QED  BY <2>2, <2>3, <2>4
  <1> HIDE DEF A, p
  <1>14. ASSUME NEW n \in 0..Len(W) PROVE DecodeRow(SubSeq(W, 1, n)) = At(n, Len(W), row)
    <2> DEFINE d == SubSeq(W, 1, n)
               e == Len(W)
    <2>1. Prefix(W, n, d)
      BY <1>12, PrefixIs
    <2> HIDE DEF d
    <2>2. Start = At(n, 0, <<>>)
      BY <2>1, StartIs
    <2>3. Str(d, Start) = At(n, A, row.key)
      <3>1. Str(d, At(n, 0, <<>>)) = At(n, 0 + Len(PutString(row.key)), row.key)
        BY <1>1, <1>13, <2>1, StringAt DEF a
      <3>2. 0 + Len(PutString(row.key)) = A
        BY <1>10 DEF A, a
      <3> QED  BY <2>2, <3>1, <3>2
    <2>4. U32(d, At(n, A, row.key)) = At(n, p, m)
      BY <1>4, <1>13, <2>1, NumberAt DEF b, p
    <2>5. ReadList("column", d, At(n, p, m)) = At(n, e, xs)
      <3>1. ReadList("column", d, At(n, p, Len(xs))) = At(n, p + Len(f), xs)
        BY <1>3, <1>6, <1>8, <1>13, <2>1, ListAt DEF f
      <3> QED  BY <1>2, <1>12, <3>1
    <2>6. DecodeRow(d) = IF At(n, e, xs).ok THEN Read(At(n, e, xs).at, [key |-> At(n, A, row.key).val,
                                                                       columns |-> MapOf(At(n, e, xs).val)])
                         ELSE Failed
      BY <2>3, <2>4, <2>5 DEF DecodeRow
    <2>7. n \in Nat /\ e = p + Len(f)
      BY <1>12
    <2> HIDE DEF e
    <2>8. CASE e <= n
      <3>1. A <= n
        BY <1>10, <2>7, <2>8 DEF p
      <3>2. At(n, e, xs).ok /\ At(n, e, xs).at = e /\ At(n, e, xs).val = xs /\ At(n, A, row.key).val = row.key
        BY <2>8, <3>1, ReadIs DEF At
      <3>3. DecodeRow(d) = Read(e, [key |-> row.key, columns |-> cols])
        BY <1>7, <2>6, <3>2
      <3> QED  BY <1>1, <2>8, <3>3 DEF At, d, e
    <2>9. CASE ~(e <= n)
      BY <2>6, <2>9, ReadIs DEF At, d, e
    <2> QED  BY <2>8, <2>9
  <1> QED  BY <1>12, <1>14

\* DecodeSchema reads back what EncodeSchema wrote, and nothing from fewer bytes.
LEMMA SchemaAt ==
  ASSUME NEW s, IsSchema(s), NEW W, W = EncodeSchema(s)
  PROVE  /\ W \in Seq(Chars)
         /\ \A n \in 0..Len(W) : DecodeSchema(SubSeq(W, 1, n)) = At(n, Len(W), s)
  <1> DEFINE ks == s.primary_key
             cs == s.columns
             a == PutString(s.name)
             b == PutU32(Len(ks))
             f == ListBytes("name", ks)
             c == PutU32(Len(cs))
             g == ListBytes("schema column", cs)
             x1 == a \o b
             x2 == x1 \o f
             x3 == x2 \o c
  <1>1. /\ s = [name |-> s.name, primary_key |-> ks, columns |-> cs] /\ s.name \in Texts
        /\ ks \in Seq(Texts) /\ Fits(Len(ks)) /\ cs \in Seq(SchemaColumns) /\ Fits(Len(cs))
    BY DEF IsSchema
  <1>2. W = x3 \o g
    <2>1. f = FlattenSeq([i \in 1..Len(ks) |-> PutString(ks[i])])
      BY DEF ListBytes, EncodeEntry
    <2>2. g = FlattenSeq([i \in 1..Len(cs) |-> EncodeColumn(cs[i])])
      BY DEF ListBytes, EncodeEntry
    <2> HIDE DEF f, g
    <2> QED  BY <2>1, <2>2 DEF EncodeSchema
  <1>3. /\ \A i \in 1..Len(ks) : IsEntry("name", ks[i])
        /\ \A i \in 1..Len(cs) : IsEntry("schema column", cs[i])
        /\ "name" \in Kinds /\ "schema column" \in Kinds
    BY <1>1 DEF IsEntry, Kinds
  <1> HIDE DEF ks, cs
  <1>4. /\ a \in Seq(Chars) /\ b \in Seq(Chars) /\ f \in Seq(Chars) /\ c \in Seq(Chars) /\ g \in Seq(Chars)
        /\ Len(b) = 4 /\ Len(c) = 4
    <2>1. Prefix(<<>>, 0, <<>>)
      BY DEF Prefix
    <2>2. f \in Seq(Chars) /\ g \in Seq(Chars)
      BY <1>1, <1>3, <2>1, ListAt
    <2> QED  BY <1>1, <2>2, StringBytes, WordBytes
  <1> DEFINE A == Len(a)
             p1 == A + 4
             p2 == p1 + Len(f)
             p3 == p2 + 4
             e == Len(W)
  <1> HIDE DEF a, b, f, c, g
  <1>5. x1 \in Seq(Chars) /\ Len(x1) = p1
    <2>1. IsConcat(Chars, a, b, x1)
      BY <1>4, ConcatAt
    <2> QED  BY <1>4, <2>1 DEF IsConcat
  <1> HIDE DEF x1
  <1>6. x2 \in Seq(Chars) /\ Len(x2) = p2
    <2>1. IsConcat(Chars, x1, f, x2)
      BY <1>4, <1>5, ConcatAt
    <2> QED  BY <1>5, <2>1 DEF IsConcat
  <1> HIDE DEF x2
  <1>7. x3 \in Seq(Chars) /\ Len(x3) = p3
    <2>1. IsConcat(Chars, x2, c, x3)
      BY <1>4, <1>6, ConcatAt
    <2> QED  BY <1>4, <1>6, <2>1 DEF IsConcat
  <1> HIDE DEF x3
  <1>8. W \in Seq(Chars) /\ e = p3 + Len(g)
    <2>1. IsConcat(Chars, x3, g, W)
      BY <1>2, <1>4, <1>7, ConcatAt
    <2> QED  BY <1>7, <2>1 DEF IsConcat
  <1>9. /\ A \in Nat /\ p1 \in Nat /\ p2 \in Nat /\ p3 \in Nat /\ e \in Nat
        /\ A <= p1 /\ p1 <= p2 /\ p2 <= p3 /\ p3 <= e
    <2>1. A \in Nat /\ Len(f) \in Nat /\ Len(g) \in Nat
      BY <1>4
    <2> QED  BY <1>8, <2>1
  <1> HIDE DEF A, p1, p2, p3
  <1>10. Stands(W, 0, a) /\ Stands(W, A, b) /\ Stands(W, p1, f) /\ Stands(W, p2, c) /\ Stands(W, p3, g)
    <2>1. Stands(W, 0, x3 \o g)
      BY <1>2, <1>8, StandsWhole
    <2>2. Stands(W, 0, x3) /\ Stands(W, 0 + p3, g)
      BY <1>4, <1>7, <1>8, <2>1, StandsParts
    <2>3. Stands(W, 0, x2) /\ Stands(W, 0 + p2, c)
      BY <1>4, <1>6, <1>8, <2>2, StandsParts DEF x3
    <2>4. Stands(W, 0, x1) /\ Stands(W, 0 + p1, f)
      BY <1>4, <1>5, <1>8, <2>3, StandsParts DEF x2
    <2>5. Stands(W, 0, a) /\ Stands(W, 0 + A, b)
      BY <1>4, <1>8, <2>4, StandsParts DEF x1, A
    <2>6. 0 + A = A /\ 0 + p1 = p1 /\ 0 + p2 = p2 /\ 0 + p3 = p3
      BY <1>9
    <2> QED  BY <2>2, <2>3, <2>4, <2>5, <2>6
  <1>11. ASSUME NEW n \in 0..Len(W) PROVE DecodeSchema(SubSeq(W, 1, n)) = At(n, Len(W), s)
    <2> DEFINE d == SubSeq(W, 1, n)
               r1 == At(n, A, s.name)
               r2 == At(n, p2, ks)
               r3 == At(n, e, cs)
    <2>1. Prefix(W, n, d)
      BY <1>8, PrefixIs
    <2> HIDE DEF d, e
    <2>2. Str(d, Start) = r1
      <3>1. Str(d, At(n, 0, <<>>)) = At(n, 0 + Len(PutString(s.name)), s.name)
        BY <1>1, <1>10, <2>1, StringAt DEF a
      <3>2. 0 + Len(PutString(s.name)) = A
        BY <1>9 DEF A, a
      <3> QED  BY <2>1, <3>1, <3>2, StartIs
    <2>3. U32(d, r1) = At(n, p1, Len(ks))
      BY <1>1, <1>10, <2>1, NumberAt DEF b, p1
    <2>4. ReadList("name", d, At(n, p1, Len(ks))) = r2
      <3>1. \A q : Stands(W, q, ListBytes("name", ks)) =>
              ReadList("name", d, At(n, q, Len(ks))) = At(n, q + Len(ListBytes("name", ks)), ks)
        <4>1. ks \in Seq(Texts)
          BY <1>1
        <4>2. "name" \in Kinds
          BY <1>3
        <4>3. \A i \in 1..Len(ks) : IsEntry("name", ks[i])
          BY <1>3
        <4> QED  BY <2>1, <4>1, <4>2, <4>3, ListAt
      <3> QED  BY <1>10, <3>1 DEF f, p2
    <2>5. U32(d, r2) = At(n, p3, Len(cs))
      BY <1>1, <1>10, <2>1, NumberAt DEF c, p3
    <2>6. ReadList("schema column", d, At(n, p3, Len(cs))) = r3
      <3>1. ReadList("schema column", d, At(n, p3, Len(cs))) = At(n, p3 + Len(g), cs)
        <4>1. \A q : Stands(W, q, ListBytes("schema column", cs)) =>
                ReadList("schema column", d, At(n, q, Len(cs))) = At(n, q + Len(ListBytes("schema column", cs)), cs)
          <5> DEFINE k == "schema column"
          <5>1. PICK X : cs \in Seq(X)
            BY <1>1
          <5>2. k \in Kinds
            BY <1>3
          <5>3. \A i \in 1..Len(cs) : IsEntry(k, cs[i])
            BY <1>3
          <5> HIDE DEF k
          <5>4. \A q : Stands(W, q, ListBytes(k, cs)) =>
                  ReadList(k, d, At(n, q, Len(cs))) = At(n, q + Len(ListBytes(k, cs)), cs)
            BY <2>1, <5>1, <5>2, <5>3, ListAt
          <5> QED  BY <5>4 DEF k
        <4> QED  BY <1>10, <4>1 DEF g
      <3> QED  BY <1>8, <3>1
    <2>7. DecodeSchema(d) = IF r3.ok THEN Read(r3.at, [name |-> r1.val, primary_key |-> r2.val, columns |-> r3.val])
                            ELSE Failed
      <3> HIDE DEF r1, r2, r3
      <3> QED  BY <2>2, <2>3, <2>4, <2>5, <2>6 DEF DecodeSchema
    <2>8. CASE e <= n
      <3>1. n \in Nat /\ A <= n /\ p2 <= n
        BY <1>8, <1>9, <2>8
      <3>2. r3.ok /\ r3.at = e /\ r3.val = cs /\ r1.val = s.name /\ r2.val = ks
        BY <2>8, <3>1, ReadIs DEF At
      <3> HIDE DEF r1, r2, r3
      <3>3. DecodeSchema(d) = Read(e, s)
        BY <1>1, <2>7, <3>2
      <3> QED  BY <2>8, <3>3 DEF At, d, e
    <2>9. CASE ~(e <= n)
      BY <2>7, <2>9, ReadIs DEF At, d, e
    <2> QED  BY <2>8, <2>9
  <1> QED  BY <1>8, <1>11

-----------------------------------------------------------------------------
(***************************************************************************)
(* Messages of the binary protocol.                                         *)
(***************************************************************************)

\* Four bytes are written of any number, those of its remainder by 2^32.
LEMMA AnyWord ==
  ASSUME NEW k \in Nat
  PROVE  WriteUint32(k) \in Seq(Chars) /\ Len(WriteUint32(k)) = 4
  <1> DEFINE a == Byte0(k)
             b == Byte1(k)
             c == Byte2(k)
             d == Byte3(k)
  <1>1. a \in Chars /\ b \in Chars /\ c \in Chars /\ d \in Chars
    BY WordBack
  <1>2. WriteUint32(k) = <<d, c, b, a>>
    BY DEF WriteUint32
  <1> HIDE DEF a, b, c, d
  <1>3. <<d, c, b, a>> \in Seq(Chars)
    BY <1>1
  <1> QED  BY <1>2, <1>3

LEMMA AnyNumberAt ==
  ASSUME NEW W, NEW n, NEW d, Prefix(W, n, d), NEW l \in Nat, NEW q,
         Stands(W, q, WriteUint32(l)), NEW v
  PROVE  \E k : ReadUint32(d, At(n, q, v)) = At(n, q + 4, k)
  <1> DEFINE f == WriteUint32(l)
             b == Need(d, At(n, q, v), 4)
             k == f[1] * 16777216 + f[2] * 65536 + f[3] * 256 + f[4]
  <1>1. b = At(n, q + 4, f)
    <2>1. f \in Seq(Chars)
      BY AnyWord
    <2>2. Len(f) = 4
      BY AnyWord
    <2>3. Stands(W, q, f)
      OBVIOUS
    <2> HIDE DEF f
    <2>4. Need(d, At(n, q, v), Len(f)) = At(n, q + Len(f), f)
      BY <2>1, <2>3, NeedAt
    <2> QED  BY <2>2, <2>4
  <1>2. ReadUint32(d, At(n, q, v)) =
          IF b.ok THEN Read(b.at, b.val[1] * 16777216 + b.val[2] * 65536 + b.val[3] * 256 + b.val[4]) ELSE Failed
    BY DEF ReadUint32, BigEndian
  <1> HIDE DEF b, f
  <1>3. CASE q + 4 <= n
    <2>1. b.ok /\ b.at = q + 4 /\ b.val = f
      BY <1>1, <1>3, ReadIs DEF At
    <2>2. ReadUint32(d, At(n, q, v)) = Read(q + 4, k)
      BY <1>2, <2>1
    <2>3. At(n, q + 4, k) = Read(q + 4, k)
      BY <1>3 DEF At
    <2> HIDE DEF k
    <2> QED  BY <2>2, <2>3
  <1>4. CASE ~(q + 4 <= n)
    <2>1. ~b.ok
      BY <1>1, <1>4, ReadIs DEF At
    <2>2. At(n, q + 4, k) = Failed
      BY <1>4 DEF At
    <2> HIDE DEF k
    <2> QED  BY <1>2, <2>1, <2>2
  <1> QED  BY <1>3, <1>4

Heading(t) == <<219, 1, t, 0>>

\* A message is its header, the size of its payload, and the payload.
LEMMA MessageBytes ==
  ASSUME NEW t \in Chars, NEW p \in Seq(Chars)
  PROVE  /\ Message(t, p) \in Seq(Chars) /\ Len(Message(t, p)) = 8 + Len(p)
         /\ Heading(t) \in Seq(Chars) /\ Len(Heading(t)) = 4
         /\ Stands(Message(t, p), 0, Heading(t)) /\ Stands(Message(t, p), 4, WriteUint32(Len(p)))
         /\ Stands(Message(t, p), 8, p)
  <1> DEFINE h == Heading(t)
             w == WriteUint32(Len(p))
             x == h \o w
             W == Message(t, p)
  <1>1. h \in Seq(Chars) /\ Len(h) = 4
    BY DEF Heading, Chars
  <1>2. w \in Seq(Chars) /\ Len(w) = 4
    <2>1. Len(p) \in Nat
      OBVIOUS
    <2> QED  BY <2>1, AnyWord
  <1>3. W = x \o p
    <2>1. Magic \o <<t, 0>> = h
      <3> DEFINE m == <<219, 1>>
                 z == <<t, 0>>
                 u == m \o z
      <3>1. /\ m \in Seq(Chars) /\ Len(m) = 2 /\ m[1] = 219 /\ m[2] = 1
            /\ z \in Seq(Chars) /\ Len(z) = 2 /\ z[1] = t /\ z[2] = 0
        BY DEF Chars
      <3>2. h[1] = 219 /\ h[2] = 1 /\ h[3] = t /\ h[4] = 0
        BY DEF Heading
      <3> HIDE DEF m, z, h
      <3>3. IsConcat(Chars, m, z, u)
        BY <3>1, ConcatAt
      <3> HIDE DEF u
      <3>4. u \in Seq(Chars) /\ Len(u) = 4 /\ u[1] = m[1] /\ u[2] = m[2] /\ u[2 + 1] = z[1] /\ u[2 + 2] = z[2]
        BY <3>1, <3>3 DEF IsConcat
      <3>5. u[1] = h[1] /\ u[2] = h[2] /\ u[3] = h[3] /\ u[4] = h[4]
        BY <3>1, <3>2, <3>4
      <3>6. \A i \in 1..Len(u) : u[i] = h[i]
        BY <3>4, <3>5
      <3>7. u = h
        BY <1>1, <3>4, <3>6, SameSequence
      <3> QED  BY <3>7 DEF Magic, u, m, z
    <2> QED  BY <2>1 DEF Message
  <1> HIDE DEF h, w, W
  <1>4. x \in Seq(Chars) /\ Len(x) = 8
    <2>1. IsConcat(Chars, h, w, x)
      BY <1>1, <1>2, ConcatAt
    <2> QED  BY <1>1, <1>2, <2>1 DEF IsConcat
  <1> HIDE DEF x
  <1>5. W \in Seq(Chars) /\ Len(W) = 8 + Len(p)
    <2>1. IsConcat(Chars, x, p, W)
      BY <1>3, <1>4, ConcatAt
    <2> QED  BY <1>4, <2>1 DEF IsConcat
  <1>6. Stands(W, 0, x) /\ Stands(W, 8, p)
    <2>1. Stands(W, 0, x \o p)
      BY <1>3, <1>5, StandsWhole
    <2>2. Stands(W, 0, x) /\ Stands(W, 0 + Len(x), p)
      BY <1>4, <1>5, <2>1, StandsParts
    <2>3. 0 + Len(x) = 8
      BY <1>4
    <2> QED  BY <2>2, <2>3
  <1>7. Stands(W, 0, h) /\ Stands(W, 4, w)
    <2>1. Stands(W, 0, h) /\ Stands(W, 0 + Len(h), w)
      BY <1>1, <1>2, <1>5, <1>6, StandsParts DEF x
    <2>2. 0 + Len(h) = 4
      BY <1>1
    <2> QED  BY <2>1, <2>2
  <1> QED  BY <1>1, <1>5, <1>6, <1>7 DEF h, w, W

\* What every reader of a message reads first.
LEMMA HeaderAt ==
  ASSUME NEW t \in Chars, NEW p \in Seq(Chars), NEW n, NEW d, Prefix(Message(t, p), n, d)
  PROVE  /\ Need(d, Start, 4) = At(n, 4, Heading(t))
         /\ \E k : ReadUint32(d, At(n, 4, Heading(t))) = At(n, 8, k)
         /\ Fits(Len(p)) => ReadUint32(d, At(n, 4, Heading(t))) = At(n, 8, Len(p))
  <1> DEFINE W == Message(t, p)
             h == Heading(t)
             w == WriteUint32(Len(p))
  <1>1. h \in Seq(Chars) /\ Stands(W, 0, h) /\ Stands(W, 4, w)
    BY MessageBytes
  <1>2. Len(h) = 4
    BY MessageBytes
  <1>3. Prefix(W, n, d)
    OBVIOUS
  <1>4. Fits(Len(p)) => ReadUint32(d, At(n, 4, h)) = At(n, 4 + 4, Len(p))
    <2> HIDE DEF h, W
    <2> QED  BY <1>1, <1>3, NumberAt
  <1> HIDE DEF h, w, W
  <1>5. Need(d, At(n, 0, <<>>), Len(h)) = At(n, 0 + Len(h), h)
    BY <1>1, <1>3, NeedAt
  <1>6. Need(d, Start, 4) = At(n, 4, h)
    <2>1. Start = At(n, 0, <<>>)
      BY <1>3, StartIs
    <2> QED  BY <1>2, <1>5, <2>1
  <1>7. \E k : ReadUint32(d, At(n, 4, h)) = At(n, 4 + 4, k)
    <2>1. Len(p) \in Nat
      OBVIOUS
    <2> QED  BY <1>1, <1>3, <2>1, AnyNumberAt DEF w
  <1>8. 4 + 4 = 8
    OBVIOUS
  <1> QED  BY <1>4, <1>6, <1>7, <1>8 DEF h

\* Where the six parts of an event's payload stand.
Laid(W, q, a, b, c, k, m, g) ==
  /\ Stands(W, q, a) /\ Stands(W, q + Len(a), b)
  /\ Stands(W, q + (Len(a) + Len(b)), c) /\ Stands(W, q + (Len(a) + Len(b) + Len(c)), k)
  /\ Stands(W, q + (Len(a) + Len(b) + Len(c) + Len(k)), m)
  /\ Stands(W, q + (Len(a) + Len(b) + Len(c) + Len(k) + Len(m)), g)

LEMMA PayloadParts ==
  ASSUME NEW a \in Seq(Chars), NEW b \in Seq(Chars), NEW c \in Seq(Chars), NEW k \in Seq(Chars),
         NEW m \in Seq(Chars), NEW g \in Seq(Chars), NEW p, p = ((((a \o b) \o c) \o k) \o m) \o g
  PROVE  /\ p \in Seq(Chars) /\ Len(p) = Len(a) + Len(b) + Len(c) + Len(k) + Len(m) + Len(g)
         /\ \A W \in Seq(Chars), q \in Nat : Stands(W, q, p) => Laid(W, q, a, b, c, k, m, g)
  <1> DEFINE x1 == a \o b
             x2 == x1 \o c
             x3 == x2 \o k
             x4 == x3 \o m
  <1>0. p = x4 \o g
    OBVIOUS
  <1>1. x1 \in Seq(Chars) /\ Len(x1) = Len(a) + Len(b)
    OBVIOUS
  <1> HIDE DEF x1
  <1>2. x2 \in Seq(Chars) /\ Len(x2) = Len(x1) + Len(c)
    <2>1. IsConcat(Chars, x1, c, x2)
      BY <1>1, ConcatAt
    <2> HIDE DEF x2
    <2> QED  BY <2>1 DEF IsConcat
  <1> HIDE DEF x2
  <1>3. x3 \in Seq(Chars) /\ Len(x3) = Len(x2) + Len(k)
    <2>1. IsConcat(Chars, x2, k, x3)
      BY <1>2, ConcatAt
    <2> HIDE DEF x3
    <2> QED  BY <2>1 DEF IsConcat
  <1> HIDE DEF x3
  <1>4. x4 \in Seq(Chars) /\ Len(x4) = Len(x3) + Len(m)
    <2>1. IsConcat(Chars, x3, m, x4)
      BY <1>3, ConcatAt
    <2> HIDE DEF x4
    <2> QED  BY <2>1 DEF IsConcat
  <1> HIDE DEF x4
  <1>5. p \in Seq(Chars) /\ Len(p) = Len(x4) + Len(g)
    <2>1. IsConcat(Chars, x4, g, x4 \o g)
      BY <1>4, ConcatAt
    <2> QED  BY <1>0, <2>1 DEF IsConcat
  <1>6. ASSUME NEW W \in Seq(Chars), NEW q \in Nat, Stands(W, q, p)
        PROVE  /\ Stands(W, q, a) /\ Stands(W, q + Len(a), b) /\ Stands(W, q + Len(x1), c)
               /\ Stands(W, q + Len(x2), k) /\ Stands(W, q + Len(x3), m) /\ Stands(W, q + Len(x4), g)
    <2>1. Stands(W, q, x4) /\ Stands(W, q + Len(x4), g)
      BY <1>0, <1>4, <1>6, StandsParts
    <2>2. Stands(W, q, x3) /\ Stands(W, q + Len(x3), m)
      BY <1>3, <2>1, StandsParts DEF x4
    <2>3. Stands(W, q, x2) /\ Stands(W, q + Len(x2), k)
      BY <1>2, <2>2, StandsParts DEF x3
    <2>4. Stands(W, q, x1) /\ Stands(W, q + Len(x1), c)
      BY <1>1, <2>3, StandsParts DEF x2
    <2>5. Stands(W, q, a) /\ Stands(W, q + Len(a), b)
      BY <2>4, StandsParts DEF x1
    <2> QED  BY <2>1, <2>2, <2>3, <2>4, <2>5
  <1> QED  BY <1>1, <1>2, <1>3, <1>4, <1>5, <1>6 DEF Laid

LEMMA OperationBack ==
  ASSUME NEW op
  PROVE  /\ OperationType(op) \in Chars
         /\ Operations[OperationType(op)] = IF op \in {"insert", "update", "delete"} THEN op ELSE "truncate"
  <1>1. 1 \in Chars /\ 2 \in Chars /\ 3 \in Chars /\ 4 \in Chars
    BY DEF Chars
  <1>2. CASE op = "insert"
    BY <1>1, <1>2 DEF OperationType, Operations
  <1>3. CASE op = "update"
    BY <1>1, <1>3 DEF OperationType, Operations
  <1>4. CASE op = "delete"
    BY <1>1, <1>4 DEF OperationType, Operations
  <1>5. CASE op \notin {"insert", "update", "delete"}
    BY <1>1, <1>5 DEF OperationType, Operations
  <1> QED  BY <1>2, <1>3, <1>4, <1>5

\* The fields that are written of an event.
LEMMA FieldsOf ==
  ASSUME NEW e, IsEvent(e), NEW order \in Orders(Kept(e.data))
  PROVE  /\ Fits(Len(order)) /\ Len(Named(order, e.data)) = Len(order)
         /\ \E X : Named(order, e.data) \in Seq(X)
         /\ \A i \in 1..Len(Named(order, e.data)) : IsEntry("field", Named(order, e.data)[i])
         /\ ListBytes("field", Named(order, e.data)) =
              FlattenSeq([i \in 1..Len(order) |-> WriteField(order[i], e.data[order[i]])])
         /\ MapOf(Named(order, e.data)) = Carried(e).data
  <1> DEFINE M == e.data
             S == Kept(M)
             xs == Named(order, M)
             m == Len(order)
  <1>1. /\ IsFiniteSet(DOMAIN M) /\ Fits(Cardinality(DOMAIN M)) /\ DOMAIN M \subseteq Texts
        /\ \A f \in S : IsField(M[f])
    BY DEF IsEvent, IsMap
  <1>2. S \subseteq DOMAIN M /\ \A f \in S : M[f].type \in FieldTypes
    BY TypeIs DEF Kept
  <1> HIDE DEF S, M
  <1>3. IsFiniteSet(S) /\ Fits(Cardinality(S))
    BY <1>1, <1>2, SizeFits
  <1>4. order \in Orders(S)
    BY DEF S, M
  <1>5. /\ m = Cardinality(S) /\ m \in Nat /\ Len(xs) = m
        /\ \A i \in 1..m : order[i] \in S /\ xs[i] = [name |-> order[i], val |-> M[order[i]]]
        /\ \E X : xs \in Seq(X)
    BY <1>3, <1>4, OrderIs
  <1>6. MapOf(xs) = [f \in S |-> M[f]]
    BY <1>3, <1>4, MapBack
  <1>7. Carried(e).data = [f \in S |-> M[f]]
    BY DEF Carried, S, M
  <1> HIDE DEF xs, m
  <1>8. ASSUME NEW i \in 1..m
        PROVE  IsEntry("field", xs[i]) /\ EncodeEntry("field", xs[i]) = WriteField(order[i], M[order[i]])
    <2>1. xs[i] = [name |-> order[i], val |-> M[order[i]]] /\ order[i] \in S
      BY <1>5
    <2>2. xs[i].name = order[i] /\ xs[i].val = M[order[i]] /\ xs[i] = [name |-> xs[i].name, val |-> xs[i].val]
      BY <2>1
    <2>3. xs[i].name \in Texts /\ IsField(xs[i].val) /\ xs[i].val.type \in FieldTypes
      BY <1>1, <1>2, <2>1, <2>2
    <2> QED  BY <2>2, <2>3 DEF IsEntry, EncodeEntry
  <1>9. ListBytes("field", xs) = FlattenSeq([i \in 1..m |-> WriteField(order[i], M[order[i]])])
    <2>1. [i \in 1..Len(xs) |-> EncodeEntry("field", xs[i])] = [i \in 1..m |-> WriteField(order[i], M[order[i]])]
      BY <1>5, <1>8
    <2> QED  BY <2>1 DEF ListBytes
  <1>10. Fits(m) /\ Len(xs) = m /\ (\E X : xs \in Seq(X)) /\ \A i \in 1..Len(xs) : IsEntry("field", xs[i])
    BY <1>3, <1>5, <1>8
  <1> QED  BY <1>6, <1>7, <1>9, <1>10 DEF xs, m, M

\* BinaryToJsonChangefeedEvent reads back what ChangefeedEventToBinary wrote of an
\* event, and nothing from fewer bytes.
LEMMA EventAt ==
  ASSUME NEW ev, IsEvent(ev), NEW order \in Orders(Kept(ev.data)),
         NEW W, W = ChangefeedEventToBinary(ev, order)
  PROVE  /\ W \in Seq(Chars)
         /\ \A n \in 0..Len(W) : BinaryToJsonChangefeedEvent(SubSeq(W, 1, n)) = At(n, Len(W), Carried(ev))
  <1> DEFINE xs == Named(order, ev.data)
             a == WriteString(ev.subscription_id)
             b == WriteString(ev.table)
             t == OperationType(ev.operation)
             c == <<t>>
             k == WriteString(ev.key)
             m == WriteUint32(Len(order))
             g == ListBytes("field", xs)
             p == ((((a \o b) \o c) \o k) \o m) \o g
  <1>1. ev.subscription_id \in Texts /\ ev.table \in Texts /\ ev.key \in Texts
    BY DEF IsEvent
  <1>2. /\ Fits(Len(order)) /\ Len(xs) = Len(order) /\ (\E X : xs \in Seq(X))
        /\ \A i \in 1..Len(xs) : IsEntry("field", xs[i])
    BY FieldsOf
  <1>3. g = FlattenSeq([i \in 1..Len(order) |-> WriteField(order[i], ev.data[order[i]])])
    BY FieldsOf
  <1>4. MapOf(xs) = Carried(ev).data
    BY FieldsOf
  <1>5. t \in Chars /\ Operations[t] = Carried(ev).operation
    BY OperationBack DEF Carried
  <1>6. W = Message(32, p)
    <2> HIDE DEF g
    <2> QED  BY <1>3 DEF ChangefeedEventToBinary, MessageType
  <1>7. PICK X : xs \in Seq(X)
    BY <1>2
  <1>8. "field" \in Kinds
    BY DEF Kinds
  <1> HIDE DEF xs, t
  <1>9. g \in Seq(Chars)
    <2>1. Prefix(<<>>, 0, <<>>)
      BY DEF Prefix
    <2> QED  BY <1>2, <1>7, <1>8, <2>1, ListAt
  <1>10. a \in Seq(Chars) /\ b \in Seq(Chars) /\ c \in Seq(Chars) /\ k \in Seq(Chars) /\ m \in Seq(Chars)
    BY <1>1, <1>2, <1>5, StringBytes, OneByte, WordBytes
  <1>11. Len(m) = 4 /\ Len(c) = 1
    BY <1>2, WordBytes
  <1> HIDE DEF a, b, c, k, m, g
  <1> DEFINE A == Len(a)
             B == Len(a) + Len(b)
             C == Len(a) + Len(b) + Len(c)
             K == Len(a) + Len(b) + Len(c) + Len(k)
             M == Len(a) + Len(b) + Len(c) + Len(k) + Len(m)
             P == Len(a) + Len(b) + Len(c) + Len(k) + Len(m) + Len(g)
  <1>12. /\ p \in Seq(Chars) /\ Len(p) = P
         /\ \A w \in Seq(Chars), q \in Nat : Stands(w, q, p) =>
              /\ Stands(w, q, a) /\ Stands(w, q + A, b) /\ Stands(w, q + B, c)
              /\ Stands(w, q + C, k) /\ Stands(w, q + K, m) /\ Stands(w, q + M, g)
    <2>1. p = ((((a \o b) \o c) \o k) \o m) \o g
      OBVIOUS
    <2> HIDE DEF p
    <2>2. p \in Seq(Chars) /\ Len(p) = P
      BY <1>9, <1>10, <2>1, PayloadParts
    <2>3. \A w \in Seq(Chars), q \in Nat : Stands(w, q, p) => Laid(w, q, a, b, c, k, m, g)
      BY <1>9, <1>10, <2>1, PayloadParts
    <2> QED  BY <2>2, <2>3 DEF Laid
  <1>13. /\ A \in Nat /\ B \in Nat /\ C \in Nat /\ K \in Nat /\ M \in Nat /\ P \in Nat
         /\ B = A + Len(b) /\ C = B + Len(c) /\ K = C + Len(k) /\ M = K + 4 /\ P = M + Len(g)
         /\ A <= B /\ B <= C /\ C <= K /\ K <= M /\ M <= P /\ C = B + 1
    <2>1. Len(a) \in Nat /\ Len(b) \in Nat /\ Len(c) \in Nat /\ Len(k) \in Nat /\ Len(m) \in Nat /\ Len(g) \in Nat
      BY <1>9, <1>10
    <2> QED  BY <1>11, <2>1
  <1> HIDE DEF A, B, C, K, M, P, p
  <1>14. 32 \in Chars
    BY DEF Chars
  <1>15. W \in Seq(Chars) /\ Len(W) = 8 + P /\ Stands(W, 8, p)
    BY <1>6, <1>12, <1>14, MessageBytes
  <1>16. /\ Stands(W, 8, a) /\ Stands(W, 8 + A, b) /\ Stands(W, 8 + B, c)
         /\ Stands(W, 8 + C, k) /\ Stands(W, 8 + K, m) /\ Stands(W, 8 + M, g)
    <2>1. 8 \in Nat
      OBVIOUS
    <2> QED  BY <1>12, <1>15, <2>1
  <1>17. ASSUME NEW n \in 0..Len(W)
         PROVE  BinaryToJsonChangefeedEvent(SubSeq(W, 1, n)) = At(n, Len(W), Carried(ev))
    <2> DEFINE d == SubSeq(W, 1, n)
               e == Len(W)
               rh == At(n, 4, Heading(32))
               ra == At(n, 8 + A, ev.subscription_id)
               rb == At(n, 8 + B, ev.table)
               rc == At(n, 8 + C, c)
               rk == At(n, 8 + K, ev.key)
               rm == At(n, 8 + M, Len(xs))
               rg == At(n, e, xs)
    <2>1. Prefix(W, n, d)
      BY <1>15, PrefixIs
    <2> HIDE DEF d, e
    <2>2. Need(d, Start, 4) = rh /\ \E l : ReadUint32(d, rh) = At(n, 8, l)
      <3>1. Prefix(Message(32, p), n, d)
        BY <1>6, <2>1
      <3> QED  BY <1>12, <1>14, <3>1, HeaderAt
    <2>3. PICK l : ReadUint32(d, rh) = At(n, 8, l)
      BY <2>2
    <2>4. ReadString(d, At(n, 8, l)) = ra
      <3>1. ReadString(d, At(n, 8, l)) = At(n, 8 + Len(WriteString(ev.subscription_id)), ev.subscription_id)
        BY <1>1, <1>16, <2>1, StringAt DEF a
      <3> QED  BY <3>1 DEF A, a
    <2>5. ReadString(d, ra) = rb
      <3>1. ReadString(d, ra) = At(n, (8 + A) + Len(WriteString(ev.table)), ev.table)
        BY <1>1, <1>16, <2>1, StringAt DEF b
      <3>2. (8 + A) + Len(b) = 8 + B
        BY <1>10, <1>13
      <3> QED  BY <3>1, <3>2 DEF b
    <2>6. Need(d, rb, 1) = rc
      <3>1. Need(d, rb, Len(c)) = At(n, (8 + B) + Len(c), c)
        BY <1>10, <1>16, <2>1, NeedAt
      <3>2. Len(c) = 1 /\ (8 + B) + Len(c) = 8 + C
        BY <1>11, <1>13
      <3> HIDE DEF rb
      <3> QED  BY <3>1, <3>2
    <2>7. ReadString(d, rc) = rk
      <3>1. ReadString(d, rc) = At(n, (8 + C) + Len(WriteString(ev.key)), ev.key)
        BY <1>1, <1>16, <2>1, StringAt DEF k
      <3>2. (8 + C) + Len(k) = 8 + K
        BY <1>10, <1>13
      <3> QED  BY <3>1, <3>2 DEF k
    <2>8. ReadUint32(d, rk) = rm
      <3>1. ReadUint32(d, rk) = At(n, (8 + K) + 4, Len(order))
        BY <1>2, <1>16, <2>1, NumberAt DEF m
      <3>2. (8 + K) + 4 = 8 + M
        BY <1>13
      <3> QED  BY <1>2, <3>1, <3>2
    <2>9. ReadList("field", d, rm) = rg
      <3>1. ReadList("field", d, rm) = At(n, (8 + M) + Len(g), xs)
        <4> DEFINE kind == "field"
        <4>1. kind \in Kinds /\ \A i \in 1..Len(xs) : IsEntry(kind, xs[i])
          BY <1>2, <1>8
        <4>2. g = ListBytes(kind, xs)
          BY DEF g
        <4> HIDE DEF kind
        <4>3. \A q : Stands(W, q, ListBytes(kind, xs)) =>
                ReadList(kind, d, At(n, q, Len(xs))) = At(n, q + Len(ListBytes(kind, xs)), xs)
          BY <1>7, <2>1, <4>1, ListAt
        <4>4. ReadList(kind, d, At(n, 8 + M, Len(xs))) = At(n, (8 + M) + Len(g), xs)
          BY <1>16, <4>2, <4>3
        <4> QED  BY <4>4 DEF kind
      <3>2. (8 + M) + Len(g) = e
        BY <1>9, <1>13, <1>15 DEF e
      <3> QED  BY <3>1, <3>2
    <2>10. BinaryToJsonChangefeedEvent(d) =
             IF rh.ok /\ rh.val[3] = 32 /\ rg.ok
             THEN Read(rg.at, [subscription_id |-> ra.val, table |-> rb.val, operation |-> Operations[rc.val[1]],
                               key |-> rk.val, data |-> MapOf(rg.val)])
             ELSE Failed
      <3> HIDE DEF rh, ra, rb, rc, rk, rm, rg
      <3>1. Need(d, Start, 4) = rh /\ ReadString(d, ReadUint32(d, rh)) = ra
        BY <2>2, <2>3, <2>4
      <3>2. MessageType.changefeed_event = 32
        BY DEF MessageType
      <3> HIDE DEF d
      <3> QED  BY <2>5, <2>6, <2>7, <2>8, <2>9, <3>1, <3>2 DEF BinaryToJsonChangefeedEvent
    <2>11. CASE e <= n
      <3>1. n \in Nat /\ e = 8 + P
        BY <1>15 DEF e
      <3>2. 4 <= n /\ 8 + A <= n /\ 8 + B <= n /\ 8 + C <= n /\ 8 + K <= n
        BY <1>13, <2>11, <3>1, SMTT(30)
      <3>3. /\ rh.ok /\ rh.val = Heading(32) /\ rg.ok /\ rg.at = e /\ rg.val = xs /\ ra.val = ev.subscription_id
            /\ rb.val = ev.table /\ rc.val = c /\ rk.val = ev.key
        BY <2>11, <3>2, ReadIs DEF At
      <3> HIDE DEF rh, ra, rb, rc, rk, rm, rg
      <3>4. rh.val[3] = 32 /\ rc.val[1] = t
        BY <3>3 DEF Heading, c
      <3>5. BinaryToJsonChangefeedEvent(d) =
              Read(e, [subscription_id |-> ev.subscription_id, table |-> ev.table, operation |-> Carried(ev).operation,
                       key |-> ev.key, data |-> Carried(ev).data])
        BY <1>4, <1>5, <2>10, <3>3, <3>4
      <3>6. BinaryToJsonChangefeedEvent(d) = Read(e, Carried(ev))
        BY <3>5 DEF Carried
      <3> QED  BY <2>11, <3>6 DEF At, d, e
    <2>12. CASE ~(e <= n)
      BY <2>10, <2>12, ReadIs DEF At, d, e
    <2> QED  BY <2>11, <2>12
  <1> QED  BY <1>15, <1>17

\* The other messages: told by their magic, of the size that they say, no event.
LEMMA OtherMessage ==
  ASSUME NEW t \in {1, 2, 3, 4}, NEW p \in Seq(Chars), Fits(Len(p)), NEW W, W = Message(t, p)
  PROVE  /\ IsBinaryProtocol(W) /\ ReadUint32(W, Need(W, Start, 4)).val + 8 - Len(W) = 0
         /\ ~BinaryToJsonChangefeedEvent(W).ok
  <1> DEFINE h == Heading(t)
             n == Len(W)
  <1>1. t \in Chars /\ t # 32
    BY DEF Chars
  <1>2. W \in Seq(Chars) /\ n = 8 + Len(p) /\ Stands(W, 0, h) /\ Len(h) = 4
    BY <1>1, MessageBytes
  <1>3. n \in Nat /\ Len(p) \in Nat /\ 4 <= n /\ 8 <= n /\ 2 <= n
    BY <1>2
  <1>4. Prefix(Message(t, p), n, W)
    BY <1>2, <1>3 DEF Prefix
  <1>5. Need(W, Start, 4) = At(n, 4, h) /\ ReadUint32(W, At(n, 4, h)) = At(n, 8, Len(p))
    <2> HIDE DEF n
    <2> QED  BY <1>1, <1>4, HeaderAt
  <1>6. h[1] = 219 /\ h[2] = 1 /\ h[3] = t
    BY DEF Heading
  <1> HIDE DEF h, n
  <1>7. Need(W, Start, 4) = Read(4, h) /\ ReadUint32(W, Need(W, Start, 4)) = Read(8, Len(p))
    BY <1>3, <1>5 DEF At
  <1>8. ReadUint32(W, Need(W, Start, 4)).val + 8 - Len(W) = 0
    <2>1. ReadUint32(W, Need(W, Start, 4)).val = Len(p)
      BY <1>7, ReadIs
    <2> QED  BY <1>2, <1>3, <2>1 DEF n
  <1>9. IsBinaryProtocol(W)
    <2> DEFINE u == SubSeq(W, 1, 2)
    <2>1. Prefix(W, 2, u)
      <3>1. 2 \in 0..Len(W)
        BY <1>3 DEF n
      <3> QED  BY <1>2, <3>1, PrefixIs
    <2> HIDE DEF u
    <2>2. u \in Seq(Chars) /\ Len(u) = 2 /\ u[1] = W[1] /\ u[2] = W[2]
      BY <2>1 DEF Prefix
    <2>3. W[0 + 1] = h[1] /\ W[0 + 2] = h[2]
      BY <1>2 DEF Stands
    <2>4. u[1] = 219 /\ u[2] = 1
      BY <1>6, <2>2, <2>3
    <2>5. u = <<219, 1>>
      BY <2>2, <2>4
    <2> QED  BY <1>3, <2>5 DEF IsBinaryProtocol, Magic, u, n
  <1>10. ~BinaryToJsonChangefeedEvent(W).ok
    <2>1. Need(W, Start, 4).val[3] # 32
      BY <1>1, <1>6, <1>7, ReadIs
    <2>2. MessageType.changefeed_event = 32
      BY DEF MessageType
    <2>3. BinaryToJsonChangefeedEvent(W) = Failed
      BY <2>1, <2>2 DEF BinaryToJsonChangefeedEvent
    <2> QED  BY <2>3, ReadIs
  <1> QED  BY <1>8, <1>9, <1>10

IsOther(W, s, k) ==
  \/ W = CreateBinaryWelcomeMessage(s, s) \/ W = CreateBinaryErrorMessage(k, s)
  \/ \E t \in {"ping", "pong"} : W = CreateBinaryPingMessage(t, WriteUint32(0) \o WriteUint32(k))

\* The messages that are made are of this form.
LEMMA OtherPayloads ==
  ASSUME NEW s \in Texts, NEW k, Fits(k), Fits(Len(CreateBinaryWelcomeMessage(s, s))),
         Fits(Len(CreateBinaryErrorMessage(k, s))),
         NEW W, IsOther(W, s, k)
  PROVE  \E t \in {1, 2, 3, 4}, p \in Seq(Chars) : Fits(Len(p)) /\ W = Message(t, p)
  <1>1. /\ MessageType.welcome = 1 /\ MessageType.error = 4
        /\ MessageType["ping"] = 2 /\ MessageType["pong"] = 3
    BY DEF MessageType
  <1>2. WriteString(s) \in Seq(Chars)
    BY StringBytes
  <1>3. Fits(0) /\ Fits(3) /\ Fits(8) /\ Fits(1)
    BY SMT DEF Fits
  <1>4. ASSUME NEW t \in {1, 4}, NEW p \in Seq(Chars), Fits(Len(Message(t, p))) PROVE Fits(Len(p))
    <2>1. t \in Chars
      BY DEF Chars
    <2>2. Len(Message(t, p)) = 8 + Len(p) /\ Len(p) \in Nat
      BY <2>1, MessageBytes
    <2>3. Len(p) <= Len(Message(t, p))
      BY <2>2
    <2> QED  BY <1>4, <2>2, <2>3, Smaller
  <1>5. CASE W = CreateBinaryWelcomeMessage(s, s)
    <2> DEFINE a == WriteString(s)
               c == WriteUint32(3)
               f1 == WriteString(Features[1])
               f2 == WriteString(Features[2])
               f3 == WriteString(Features[3])
               p == ((((a \o a) \o c) \o f1) \o f2) \o f3
    <2>1. W = Message(1, p)
      BY <1>1, <1>5 DEF CreateBinaryWelcomeMessage
    <2>2. Features[1] \in Texts /\ Features[2] \in Texts /\ Features[3] \in Texts
      <3>1. <<1>> \in Seq(Chars) /\ <<2>> \in Seq(Chars) /\ <<3>> \in Seq(Chars)
        BY DEF Chars
      <3>2. Len(<<1>>) = 1 /\ Len(<<2>>) = 1 /\ Len(<<3>>) = 1
        OBVIOUS
      <3>3. <<1>> \in Texts /\ <<2>> \in Texts /\ <<3>> \in Texts
        BY <1>3, <3>1, <3>2 DEF Texts
      <3> QED  BY <3>3 DEF Features
    <2>3. c \in Seq(Chars) /\ f1 \in Seq(Chars) /\ f2 \in Seq(Chars) /\ f3 \in Seq(Chars)
      BY <1>3, <2>2, StringBytes, WordBytes
    <2> HIDE DEF a, c, f1, f2, f3
    <2>4. p \in Seq(Chars)
      <3>1. a \in Seq(Chars)
        BY <1>2 DEF a
      <3> QED  BY <2>3, <3>1
    <2> HIDE DEF p
    <2>5. Fits(Len(Message(1, p)))
      BY <1>5, <2>1
    <2> QED  BY <1>4, <2>1, <2>4, <2>5
  <1>6. CASE W = CreateBinaryErrorMessage(k, s)
    <2> DEFINE p == WriteUint32(k) \o WriteString(s)
    <2>1. W = Message(4, p)
      BY <1>1, <1>6 DEF CreateBinaryErrorMessage
    <2>2. WriteUint32(k) \in Seq(Chars)
      BY WordBytes
    <2>3. p \in Seq(Chars)
      BY <1>2, <2>2
    <2> HIDE DEF p
    <2>4. Fits(Len(Message(4, p)))
      BY <1>6, <2>1
    <2> QED  BY <1>4, <2>1, <2>3, <2>4
  <1>7. ASSUME NEW t \in {"ping", "pong"}, W = CreateBinaryPingMessage(t, WriteUint32(0) \o WriteUint32(k))
        PROVE  \E y \in {1, 2, 3, 4}, p \in Seq(Chars) : Fits(Len(p)) /\ W = Message(y, p)
    <2> DEFINE x == WriteUint32(0)
               z == WriteUint32(k)
               p == x \o z
    <2>1. W = Message(MessageType[t], p) /\ MessageType[t] \in {1, 2, 3, 4}
      BY <1>1, <1>7 DEF CreateBinaryPingMessage
    <2>2. x \in Seq(Chars) /\ Len(x) = 4 /\ z \in Seq(Chars) /\ Len(z) = 4
      BY <1>3, WordBytes
    <2> HIDE DEF x, z
    <2>3. p \in Seq(Chars) /\ Len(p) = 8
      <3>1. IsConcat(Chars, x, z, p)
        BY <2>2, ConcatAt
      <3> HIDE DEF p
      <3> QED  BY <2>2, <3>1 DEF IsConcat
    <2> HIDE DEF p
    <2> QED  BY <1>3, <2>1, <2>3
  <1> QED  BY <1>5, <1>6, <1>7 DEF IsOther

\* Read whole, or not at all.
LEMMA WholeOrNot ==
  ASSUME NEW W \in Seq(Chars), NEW n \in 0..Len(W), NEW v, NEW r, r = At(n, Len(W), v),
         NEW a, a = [whole |-> n = Len(W), read |-> r]
  PROVE  a.read.ok = a.whole /\ (a.whole => a.read.val = v)
  <1>1. a.whole = (n = Len(W)) /\ a.read = r
    OBVIOUS
  <1>2. CASE n = Len(W)
    <2>1. r = Read(Len(W), v)
      BY <1>2 DEF At
    <2>2. r.ok = TRUE /\ r.val = v
      BY <2>1 DEF Read
    <2>3. a.whole = TRUE
      BY <1>1, <1>2
    <2> QED  BY <1>1, <2>2, <2>3
  <1>3. CASE n # Len(W)
    <2>1. ~(Len(W) <= n)
      BY <1>3
    <2>2. r = Failed
      BY <2>1 DEF At
    <2>3. r.ok = FALSE
      BY <2>2 DEF Failed
    <2>4. a.whole = FALSE
      BY <1>1, <1>3
    <2> QED  BY <1>1, <2>3, <2>4
  <1> QED  BY <1>2, <1>3

CodecInv == call \in Calls /\ RecordsRoundTrip /\ EventSurvives

\* A call is one of the calls, and the answer to it what RowCodec and
\* ProtocolConverter promise.
THEOREM CodecInvariant == CodecSpec => []CodecInv
  <1>1. CallInit => CodecInv
    BY DEF CallInit, CodecInv, RecordsRoundTrip, EventSurvives, Answered
  <1>2. CodecInv /\ [CodecNext]_callVars => CodecInv'
    <2> SUFFICES ASSUME CodecInv, [CodecNext]_callVars PROVE CodecInv'
      OBVIOUS
    <2>0. call \in Calls
      BY DEF CodecInv
    <2>1. CASE ReadRow /\ UNCHANGED call
      <3>1. call.of = "row" /\ call' = call
        BY <2>1 DEF ReadRow, Called
      <3>2. IsRow(call.row)
        BY <2>0, <3>1, CodecAssumption
      <3>3. PICK order \in Orders(DOMAIN call.row.columns) :
              \E n \in 0..Len(EncodeRow(call.row, order)) :
                 answer' = [whole |-> n = Len(EncodeRow(call.row, order)),
                            read |-> DecodeRow(SubSeq(EncodeRow(call.row, order), 1, n))]
        BY <2>1 DEF ReadRow
      <3> DEFINE W == EncodeRow(call.row, order)
      <3>4. W \in Seq(Chars) /\ \A n \in 0..Len(W) : DecodeRow(SubSeq(W, 1, n)) = At(n, Len(W), call.row)
        BY <3>2, RowAt
      <3>5. PICK n \in 0..Len(W) : answer' = [whole |-> n = Len(W), read |-> DecodeRow(SubSeq(W, 1, n))]
        BY <3>3
      <3> HIDE DEF W
      <3>6. answer'.read.ok = answer'.whole /\ (answer'.whole => answer'.read.val = call.row)
        BY <3>4, <3>5, WholeOrNot
      <3> QED  BY <2>0, <3>1, <3>6 DEF CodecInv, RecordsRoundTrip, EventSurvives, Answered
    <2>2. CASE ReadSchema /\ UNCHANGED call
      <3>1. call.of = "schema" /\ call' = call
        BY <2>2 DEF ReadSchema, Called
      <3>2. IsSchema(call.schema)
        BY <2>0, <3>1, CodecAssumption
      <3> DEFINE W == EncodeSchema(call.schema)
      <3>3. PICK n \in 0..Len(W) : answer' = [whole |-> n = Len(W), read |-> DecodeSchema(SubSeq(W, 1, n))]
        BY <2>2 DEF ReadSchema
      <3>4. W \in Seq(Chars) /\ \A i \in 0..Len(W) : DecodeSchema(SubSeq(W, 1, i)) = At(i, Len(W), call.schema)
        BY <3>2, SchemaAt
      <3> HIDE DEF W
      <3>5. answer'.read.ok = answer'.whole /\ (answer'.whole => answer'.read.val = call.schema)
        BY <3>3, <3>4, WholeOrNot
      <3> QED  BY <2>0, <3>1, <3>5 DEF CodecInv, RecordsRoundTrip, EventSurvives, Answered
    <2>3. CASE ReadEvent /\ UNCHANGED call
      <3>1. call.of = "event" /\ call' = call
        BY <2>3 DEF ReadEvent, Called
      <3>2. IsEvent(call.event)
        BY <2>0, <3>1, CodecAssumption
      <3>3. PICK order \in Orders(Kept(call.event.data)) :
              \E n \in 0..Len(ChangefeedEventToBinary(call.event, order)) :
                 answer' = [whole |-> n = Len(ChangefeedEventToBinary(call.event, order)),
                            read |-> BinaryToJsonChangefeedEvent(SubSeq(ChangefeedEventToBinary(call.event, order), 1, n))]
        BY <2>3 DEF ReadEvent
      <3> DEFINE W == ChangefeedEventToBinary(call.event, order)
      <3>4. /\ W \in Seq(Chars)
            /\ \A n \in 0..Len(W) : BinaryToJsonChangefeedEvent(SubSeq(W, 1, n)) = At(n, Len(W), Carried(call.event))
        BY <3>2, EventAt
      <3>5. PICK n \in 0..Len(W) : answer' = [whole |-> n = Len(W), read |-> BinaryToJsonChangefeedEvent(SubSeq(W, 1, n))]
        BY <3>3
      <3> HIDE DEF W
      <3>6. answer'.read.ok = answer'.whole /\ (answer'.whole => answer'.read.val = Carried(call.event))
        BY <3>4, <3>5, WholeOrNot
      <3> QED  BY <2>0, <3>1, <3>6 DEF CodecInv, RecordsRoundTrip, EventSurvives, Answered
    <2>4. CASE ReadOther /\ UNCHANGED call
      <3>1. call.of = "message" /\ call' = call
        BY <2>4 DEF ReadOther, Called
      <3> DEFINE s == call.bytes
                 k == call.number
      <3>2. /\ s \in Texts /\ Fits(k) /\ Fits(Len(CreateBinaryWelcomeMessage(s, s)))
            /\ Fits(Len(CreateBinaryErrorMessage(k, s)))
        BY <2>0, <3>1, CodecAssumption
      <3>3. PICK W : /\ IsOther(W, s, k)
                     /\ answer' = [binary |-> IsBinaryProtocol(W),
                                   size |-> ReadUint32(W, Need(W, Start, 4)).val + 8 - Len(W),
                                   read |-> BinaryToJsonChangefeedEvent(W)]
        BY <2>4 DEF ReadOther, IsOther
      <3> HIDE DEF s, k
      <3>4. PICK t \in {1, 2, 3, 4}, p \in Seq(Chars) : Fits(Len(p)) /\ W = Message(t, p)
        BY <3>2, <3>3, OtherPayloads
      <3>5. /\ IsBinaryProtocol(W) /\ ReadUint32(W, Need(W, Start, 4)).val + 8 - Len(W) = 0
            /\ ~BinaryToJsonChangefeedEvent(W).ok
        BY <3>4, OtherMessage
      <3>6. answer'.binary /\ answer'.size = 0 /\ ~answer'.read.ok
        BY <3>3, <3>5
      <3> QED  BY <2>0, <3>1, <3>6 DEF CodecInv, RecordsRoundTrip, EventSurvives, Answered
    <2>5. CASE UNCHANGED callVars
      BY <2>5 DEF CodecInv, RecordsRoundTrip, EventSurvives, Answered, callVars
    <2> QED  BY <2>1, <2>2, <2>3, <2>4, <2>5 DEF CodecNext
  <1> QED  BY <1>1, <1>2, PTL DEF CodecSpec

\* A row, with its columns in whatever order, and a schema are what is read from
\* their bytes, and no prefix of the bytes is taken for one (RowCodec).
THEOREM RecordsKept == CodecSpec => []RecordsRoundTrip
  <1>1. CodecInv => RecordsRoundTrip
    BY DEF CodecInv
  <1> QED  BY <1>1, CodecInvariant, PTL

\* The binary protocol carries every event that has a place in it, refuses one
\* that is cut short, and takes no other message for an event (ProtocolConverter).
THEOREM EventsCarried == CodecSpec => []EventSurvives
  <1>1. CodecInv => EventSurvives
    BY DEF CodecInv
  <1> QED  BY <1>1, CodecInvariant, PTL

=============================================================================
