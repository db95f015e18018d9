---------------------------- MODULE FrameProofs ----------------------------
(***************************************************************************)
(* Proofs about websocket frames, for any widths of the length and the mask, *)
(* any traffic and any way of cutting it into pieces, in the order           *)
(*   - what the recursive definitions compute, and arithmetic;               *)
(*   - a length is read back from its bytes, a payload from under its mask;  *)
(*   - what CompleteFrameSize says of a piece of a frame: ServerFramesParse; *)
(*   - where the frames are in the stream, and what the loop makes of a piece*)
(*     of it: FramesDelivered.                                               *)
(***************************************************************************)
EXTENDS WebSocketFrames, FiniteSetTheorems, SequenceTheorems, TLAPS

-----------------------------------------------------------------------------
(***************************************************************************)
(* Recursive functions.                                                     *)
(***************************************************************************)

\* Induction up to n over a set of numbers.
LEMMA UpTo ==
  ASSUME NEW n \in Nat, NEW T, 0 \in T, \A i \in 0..(n - 1) : i \in T => i + 1 \in T
  PROVE  \A i \in 0..n : i \in T
  <1> DEFINE R == OpToRel(<, Nat)
             U == {i \in 0..n : i \notin T}
  <1>1. SUFFICES ASSUME U # {} PROVE FALSE
    OBVIOUS
  <1>2. PICK m \in U : \A k \in U : ~(<<k, m>> \in R)
    <2> HIDE DEF R
    <2>1. IsWellFoundedOn(R, Nat)
      BY NatLessThanWellFounded DEF R
    <2>2. U \subseteq Nat
      OBVIOUS
    <2> HIDE DEF U
    <2> QED  BY <1>1, <2>1, <2>2, WFMin
  <1>3. m \in 0..n /\ m # 0 /\ m \notin T /\ m - 1 \in 0..(n - 1)
    <2>1. m \in 0..n /\ m # 0 /\ m \notin T
      BY <1>2
    <2> QED  BY <2>1
  <1>4. <<m - 1, m>> \in R
    BY <1>3 DEF OpToRel
  <1>5. m - 1 \in T
    <2> HIDE DEF R
    <2> QED  BY <1>2, <1>3, <1>4
  <1>6. (m - 1) + 1 \in T /\ (m - 1) + 1 = m
    BY <1>3, <1>5
  <1> QED  BY <1>3, <1>6

\* Two functions that start and go on alike are alike.
GoesAlike(n, f, g) == f[0] = g[0] /\ \A i \in 1..n : f[i - 1] = g[i - 1] => f[i] = g[i]
Alike(n, f, g) == \A i \in 0..n : f[i] = g[i]

LEMMA SameUpTo ==
  ASSUME NEW n \in Nat, NEW f, NEW g, GoesAlike(n, f, g)
  PROVE  Alike(n, f, g)
  <1> DEFINE T == {i \in 0..n : f[i] = g[i]}
  <1>1. 0 \in T
    BY DEF GoesAlike
  <1>2. ASSUME NEW i \in 0..(n - 1), i \in T PROVE i + 1 \in T
    <2>1. i + 1 \in 1..n /\ (i + 1) - 1 = i /\ i + 1 \in 0..n
      OBVIOUS
    <2> QED  BY <1>2, <2>1 DEF GoesAlike
  <1>3. \A i \in 0..n : i \in T
    <2> HIDE DEF T
    <2> QED  BY <1>1, <1>2, UpTo
  <1> QED  BY <1>3 DEF Alike

\* From a, n steps F of a set S into itself can be taken one after the other.
Paths(n, S, a, F) == {f \in [0..n -> S] : f[0] = a /\ \A i \in 1..n : f[i] = F[i][f[i - 1]]}

LEMMA PathExists ==
  ASSUME NEW n \in Nat, NEW S, NEW a \in S, NEW F \in [1..n -> [S -> S]]
  PROVE  Paths(n, S, a, F) # {}
  <1> DEFINE T == {k \in 0..n : Paths(k, S, a, F) # {}}
  <1>1. 0 \in T
    <2> DEFINE f == [i \in 0..0 |-> a]
    <2>1. f \in [0..0 -> S] /\ f[0] = a
      OBVIOUS
    <2>2. f \in Paths(0, S, a, F)
      BY <2>1 DEF Paths
    <2> QED  BY <2>2
  <1>2. ASSUME NEW k \in 0..(n - 1), k \in T PROVE k + 1 \in T
    <2>1. PICK f \in Paths(k, S, a, F) : TRUE
      BY <1>2
    <2>2. f \in [0..k -> S] /\ f[0] = a /\ \A i \in 1..k : f[i] = F[i][f[i - 1]]
      BY <2>1 DEF Paths
    <2> DEFINE g == [i \in 0..(k + 1) |-> IF i <= k THEN f[i] ELSE F[k + 1][f[k]]]
    <2>3. F[k + 1][f[k]] \in S
      BY <2>2
    <2>4. g \in [0..(k + 1) -> S] /\ g[0] = a
      BY <2>2, <2>3
    <2>5. ASSUME NEW i \in 1..(k + 1) PROVE g[i] = F[i][g[i - 1]]
      <3>1. CASE i <= k
        BY <2>2, <3>1
      <3>2. CASE i = k + 1
        BY <2>2, <3>2
      <3> QED  BY <3>1, <3>2
    <2>6. g \in Paths(k + 1, S, a, F)
      <3> HIDE DEF g
      <3> QED  BY <2>4, <2>5 DEF Paths
    <2> QED  BY <2>6
  <1>3. n \in T
    <2> HIDE DEF T
    <2>1. \A k \in 0..n : k \in T
      BY <1>1, <1>2, UpTo
    <2> QED  BY <2>1
  <1> QED  BY <1>3

\* Base^i.
LEMMA PowerSteps ==
  /\ Power[0] = 1
  /\ \A i \in 1..LongBytes : Power[i] = Power[i - 1] * Base
  /\ \A i \in 0..LongBytes : Power[i] \in Nat \ {0}
  <1> DEFINE n == LongBytes
             S == Nat \ {0}
             F == [i \in 1..n |-> [x \in S |-> x * Base]]
             G(f) == [i \in 0..n |-> IF i = 0 THEN 1 ELSE f[i - 1] * Base]
  <1>1. n \in Nat /\ Base \in Nat /\ Base > 1 /\ 1 \in S
    BY WidthAssumption
  <1>2. F \in [1..n -> [S -> S]]
    <2>1. ASSUME NEW x \in S PROVE x * Base \in S
      BY <1>1
    <2> QED  BY <2>1
  <1>3. PICK f \in [0..n -> S] : f[0] = 1 /\ \A i \in 1..n : f[i] = F[i][f[i - 1]]
    <2> HIDE DEF F, n, S
    <2>1. Paths(n, S, 1, F) # {}
      BY <1>1, <1>2, PathExists
    <2> QED  BY <2>1 DEF Paths
  <1>4. \A i \in 1..n : f[i - 1] \in S /\ f[i] = f[i - 1] * Base
    <2> SUFFICES ASSUME NEW i \in 1..n PROVE f[i - 1] \in S /\ f[i] = f[i - 1] * Base
      OBVIOUS
    <2>1. i - 1 \in 0..n
      BY <1>1
    <2>2. f[i - 1] \in S
      BY <1>3, <2>1
    <2> QED  BY <1>3, <2>2
  <1>5. f = G(f)
    <2> HIDE DEF n, S, F
    <2>1. \A i \in 0..n : f[i] = G(f)[i]
      BY <1>1, <1>3, <1>4
    <2> QED  BY <1>3, <2>1
  <1>6. Power = CHOOSE g : g = G(g)
    BY DEF Power
  <1>7. Power = G(Power)
    <2> HIDE DEF G
    <2> QED  BY <1>5, <1>6
  <1>8. Power[0] = 1 /\ \A i \in 1..n : Power[i] = Power[i - 1] * Base
    <2> HIDE DEF n
    <2> QED  BY <1>1, <1>7
  <1>9. \A i \in 0..n : Power[i] = f[i]
    <2> DEFINE P == Power
    <2> HIDE DEF n, S, F, G
    <2>1. n \in Nat
      BY <1>1
    <2>2. P[0] = f[0]
      BY <1>3, <1>8
    <2>3. \A i \in 1..n : P[i - 1] = f[i - 1] => P[i] = f[i]
      BY <1>4, <1>8
    <2>4. GoesAlike(n, P, f)
      BY <2>2, <2>3 DEF GoesAlike
    <2> HIDE DEF P
    <2>5. Alike(n, P, f)
      BY <2>1, <2>4, SameUpTo
    <2> QED  BY <2>5 DEF P, Alike
  <1> QED  BY <1>3, <1>8, <1>9

\* The value of big-endian bytes, from the first on.
Value(bytes) ==
  LET value[i \in 0..Len(bytes)] == IF i = 0 THEN 0 ELSE value[i - 1] * Base + bytes[i]
  IN value

LEMMA ValueSteps ==
  ASSUME NEW bytes \in Seq(Octets)
  PROVE  /\ Number(bytes) = Value(bytes)[Len(bytes)]
         /\ Value(bytes)[0] = 0
         /\ \A i \in 1..Len(bytes) : Value(bytes)[i] = Value(bytes)[i - 1] * Base + bytes[i]
  <1> DEFINE n == Len(bytes)
             F == [i \in 1..n |-> [x \in Nat |-> x * Base + bytes[i]]]
             G(f) == [i \in 0..n |-> IF i = 0 THEN 0 ELSE f[i - 1] * Base + bytes[i]]
             R == Value(bytes)
  <1>1. n \in Nat /\ Base \in Nat /\ \A i \in 1..n : bytes[i] \in Nat
    BY WidthAssumption DEF Octets
  <1>2. F \in [1..n -> [Nat -> Nat]]
    <2>1. ASSUME NEW i \in 1..n, NEW x \in Nat PROVE x * Base + bytes[i] \in Nat
      BY <1>1
    <2> QED  BY <2>1
  <1>3. PICK f \in [0..n -> Nat] : f[0] = 0 /\ \A i \in 1..n : f[i] = F[i][f[i - 1]]
    <2> HIDE DEF F, n
    <2>1. Paths(n, Nat, 0, F) # {}
      BY <1>1, <1>2, PathExists
    <2> QED  BY <2>1 DEF Paths
  <1>4. \A i \in 1..n : f[i] = f[i - 1] * Base + bytes[i]
    <2> SUFFICES ASSUME NEW i \in 1..n PROVE f[i] = f[i - 1] * Base + bytes[i]
      OBVIOUS
    <2>1. i - 1 \in 0..n
      BY <1>1
    <2> QED  BY <1>3, <2>1
  <1>5. f = G(f)
    <2> HIDE DEF n, F
    <2>1. \A i \in 0..n : f[i] = G(f)[i]
      BY <1>1, <1>3, <1>4
    <2> QED  BY <1>3, <2>1
  <1>6. R = CHOOSE g : g = G(g)
    BY DEF Value
  <1>7. R = G(R)
    <2> HIDE DEF G, R
    <2> QED  BY <1>5, <1>6
  <1>8. R[0] = 0 /\ \A i \in 1..n : R[i] = R[i - 1] * Base + bytes[i]
    <2> HIDE DEF n, R
    <2> QED  BY <1>1, <1>7
  <1>9. Number(bytes) = R[n]
    BY DEF Number, Value
  <1> QED  BY <1>8, <1>9

-----------------------------------------------------------------------------
(***************************************************************************)
(* Lengths and masks.                                                       *)
(***************************************************************************)
LEMMA Quotient ==
  ASSUME NEW x \in Nat, NEW m \in Nat \ {0}
  PROVE  /\ x \div m \in Nat /\ x % m \in 0..(m - 1)
         /\ x = (x \div m) * m + (x % m)
  OBVIOUS

LEMMA Times ==
  ASSUME NEW a \in Nat, NEW b \in Nat, NEW m \in Nat, a < b
  PROVE  a * m + m <= b * m
  <1>1. PICK c \in Nat : b = a + 1 + c
    <2>1. b - a - 1 \in Nat /\ b = a + 1 + (b - a - 1)
      OBVIOUS
    <2> QED  BY <2>1
  <1>2. b * m = a * m + m + c * m /\ c * m \in Nat
    BY <1>1
  <1>3. a * m \in Nat
    OBVIOUS
  <1> QED  BY <1>2, <1>3

\* There is one quotient.
LEMMA QuotientIs ==
  ASSUME NEW x \in Nat, NEW m \in Nat \ {0}, NEW q \in Nat, NEW r \in 0..(m - 1), x = q * m + r
  PROVE  x \div m = q
  <1> DEFINE p == x \div m
             s == x % m
  <1>1. p \in Nat /\ s \in 0..(m - 1) /\ x = p * m + s
    BY Quotient
  <1> HIDE DEF p, s
  <1>2. p * m \in Nat /\ q * m \in Nat
    BY <1>1
  <1>3. ~(p < q)
    <2> SUFFICES ASSUME p < q PROVE FALSE
      OBVIOUS
    <2>1. p * m + m <= q * m
      BY <1>1, Times
    <2> QED  BY <1>1, <1>2, <2>1
  <1>4. ~(q < p)
    <2> SUFFICES ASSUME q < p PROVE FALSE
      OBVIOUS
    <2>1. q * m + m <= p * m
      BY <1>1, Times
    <2> QED  BY <1>1, <1>2, <2>1
  <1>5. p = q
    BY <1>1, <1>3, <1>4
  <1> QED  BY <1>5 DEF p

\* Dividing twice.
LEMMA QuotientTwice ==
  ASSUME NEW x \in Nat, NEW m \in Nat \ {0}, NEW b \in Nat \ {0}
  PROVE  (x \div m) \div b = x \div (m * b)
  <1> DEFINE q == x \div m
             r == x % m
             s == q \div b
             t == q % b
  <1>1. q \in Nat /\ r \in 0..(m - 1) /\ x = q * m + r
    BY Quotient
  <1>2. s \in Nat /\ t \in 0..(b - 1) /\ q = s * b + t
    <2> HIDE DEF q
    <2> QED  BY <1>1, Quotient
  <1> HIDE DEF q, r, s, t
  <1>3. x = s * (m * b) + (t * m + r)
    <2>1. (s * b + t) * m = s * (m * b) + t * m
      BY <1>1, <1>2
    <2> QED  BY <1>1, <1>2, <2>1
  <1>4. t * m + r \in 0..((m * b) - 1)
    <2>1. t * m + m <= b * m
      BY <1>2, Times
    <2>2. t * m \in Nat /\ b * m \in Nat /\ m * b = b * m
      BY <1>2
    <2> QED  BY <1>1, <2>1, <2>2
  <1>5. m * b \in Nat \ {0}
    OBVIOUS
  <1>6. x \div (m * b) = s
    <2> DEFINE k == m * b
               u == t * m + r
    <2>1. k \in Nat \ {0} /\ u \in 0..(k - 1) /\ x = s * k + u
      BY <1>3, <1>4, <1>5
    <2> HIDE DEF k, u
    <2>2. x \div k = s
      BY <1>2, <2>1, QuotientIs
    <2> QED  BY <2>2 DEF k
  <1> QED  BY <1>6 DEF q, s

\* The bytes of a length are a byte each, and make it again.
LEMMA LengthBack ==
  ASSUME NEW n \in 1..LongBytes, NEW len \in Nat, len < Power[n]
  PROVE  /\ LengthBytes(len, n) \in Seq(Octets)
         /\ Len(LengthBytes(len, n)) = n
         /\ Number(LengthBytes(len, n)) = len
  <1> DEFINE bytes == LengthBytes(len, n)
             V == Value(bytes)
             Q == [i \in 0..n |-> len \div Power[n - i]]
  <1>1. Base \in Nat \ {0} /\ LongBytes \in Nat /\ n \in Nat
    BY WidthAssumption
  <1>2. \A i \in 0..n : n - i \in 0..LongBytes /\ Power[n - i] \in Nat \ {0}
    BY <1>1, PowerSteps
  <1>3. ASSUME NEW i \in 1..n PROVE bytes[i] = Q[i] % Base /\ Q[i] \in Nat /\ bytes[i] \in Octets
    <2>1. i \in 0..n /\ Power[n - i] \in Nat \ {0}
      BY <1>2
    <2>2. len \div Power[n - i] \in Nat
      BY <2>1, Quotient
    <2>3. (len \div Power[n - i]) % Base \in 0..(Base - 1)
      <3> DEFINE y == len \div Power[n - i]
      <3> HIDE DEF y
      <3>1. y \in Nat
        BY <2>2 DEF y
      <3>2. y % Base \in 0..(Base - 1)
        BY <1>1, <3>1, Quotient
      <3> QED  BY <3>2 DEF y
    <2> QED  BY <2>1, <2>2, <2>3 DEF LengthBytes, Octets
  <1>4. bytes \in Seq(Octets) /\ Len(bytes) = n
    <2>1. bytes = [i \in 1..n |-> bytes[i]]
      BY DEF LengthBytes
    <2>2. \A i \in 1..n : bytes[i] \in Octets
      BY <1>3
    <2> HIDE DEF bytes, Q
    <2>3. bytes \in [1..n -> Octets]
      BY <2>1, <2>2
    <2> QED  BY <1>1, <2>3
  <1>5. /\ Number(bytes) = V[n] /\ V[0] = 0
        /\ \A i \in 1..n : V[i] = V[i - 1] * Base + bytes[i]
    <2> HIDE DEF bytes
    <2> QED  BY <1>4, ValueSteps
  <1>6. Q[0] = 0
    <2>1. Power[n] \in Nat \ {0}
      BY <1>2
    <2> DEFINE w == Power[n]
    <2>2. len = 0 * w + len /\ len \in 0..(w - 1) /\ w \in Nat \ {0}
      BY <2>1
    <2> HIDE DEF w
    <2>3. len \div w = 0
      BY <2>2, QuotientIs
    <2> QED  BY <1>1, <2>3 DEF w
  <1>7. ASSUME NEW i \in 1..n PROVE Q[i] = Q[i - 1] * Base + bytes[i]
    <2> DEFINE m == Power[n - i]
               q == len \div m
    <2>1. m \in Nat \ {0} /\ i - 1 \in 0..n /\ n - i + 1 \in 1..LongBytes /\ i \in 0..n
      BY <1>1, <1>2
    <2>2. Power[n - i + 1] = m * Base
      <3>1. (n - i + 1) - 1 = n - i
        BY <1>1
      <3> QED  BY <2>1, <3>1, PowerSteps
    <2>3. n - (i - 1) = n - i + 1
      BY <1>1
    <2>4. Q[i - 1] = len \div (m * Base)
      BY <2>1, <2>2, <2>3
    <2>5. Q[i] = q
      BY <2>1
    <2> HIDE DEF m
    <2>6. q \in Nat
      BY <2>1, Quotient
    <2>7. q \div Base = len \div (m * Base)
      BY <1>1, <2>1, QuotientTwice
    <2> HIDE DEF q, Q
    <2>8. q = (q \div Base) * Base + (q % Base)
      BY <1>1, <2>6, Quotient
    <2> QED  BY <1>3, <2>4, <2>5, <2>7, <2>8
  <1>8. V[n] = Q[n]
    <2> HIDE DEF bytes, V, Q
    <2>1. GoesAlike(n, V, Q)
      BY <1>5, <1>6, <1>7 DEF GoesAlike
    <2>2. Alike(n, V, Q)
      BY <1>1, <2>1, SameUpTo
    <2> QED  BY <1>1, <2>2 DEF Alike
  <1>9. Q[n] = len
    <2>1. n - n = 0 /\ n \in 0..n /\ len \div 1 = len
      BY <1>1
    <2> QED  BY <2>1, PowerSteps
  <1> QED  BY <1>4, <1>5, <1>8, <1>9

\* A payload keeps its length and its bytes under a mask, and the mask takes
\* itself off again.
Masks == {<<>>} \union [1..MaskBytes -> Octets]

LEMMA MaskedTwice ==
  ASSUME NEW payload \in Seq(Octets), NEW mask \in Masks
  PROVE  /\ Masked(payload, mask) \in Seq(Octets)
         /\ Len(Masked(payload, mask)) = Len(payload)
         /\ Masked(Masked(payload, mask), mask) = payload
  <1>1. CASE mask = <<>>
    BY <1>1 DEF Masked
  <1>2. CASE mask # <<>>
    <2> DEFINE n == Len(payload)
               at(i) == mask[((i - 1) % MaskBytes) + 1]
               once == [i \in 1..n |-> BitXor(payload[i], at(i))]
               twice == [i \in 1..n |-> BitXor(once[i], at(i))]
    <2>1. n \in Nat /\ MaskBytes \in Nat \ {0} /\ mask \in [1..MaskBytes -> Octets]
      BY <1>2, WidthAssumption DEF Masks
    <2>2. ASSUME NEW i \in 1..n
          PROVE  at(i) \in Octets /\ payload[i] \in Octets /\ once[i] \in Octets /\ twice[i] = payload[i]
      <3>1. (i - 1) % MaskBytes \in 0..(MaskBytes - 1)
        <4>1. i - 1 \in Nat
          OBVIOUS
        <4> DEFINE k == i - 1
        <4> HIDE DEF k
        <4>2. k % MaskBytes \in 0..(MaskBytes - 1)
          BY <2>1, <4>1, Quotient DEF k
        <4> QED  BY <4>2 DEF k
      <3>2. ((i - 1) % MaskBytes) + 1 \in 1..MaskBytes
        <4> DEFINE k == (i - 1) % MaskBytes
        <4>1. k \in 0..(MaskBytes - 1)
          BY <3>1
        <4> HIDE DEF k
        <4>2. k + 1 \in 1..MaskBytes
          BY <2>1, <4>1
        <4> QED  BY <4>2 DEF k
      <3>3. at(i) \in Octets
        BY <2>1, <3>2
      <3>4. payload[i] \in Octets
        OBVIOUS
      <3>5. once[i] = BitXor(payload[i], at(i)) /\ twice[i] = BitXor(once[i], at(i))
        OBVIOUS
      <3> HIDE DEF at, once, twice
      <3> QED  BY <3>3, <3>4, <3>5, XorAssumption
    <2>3. once \in Seq(Octets) /\ Len(once) = n
      <3> HIDE DEF at
      <3>1. \A i \in 1..n : BitXor(payload[i], at(i)) \in Octets
        BY <2>2
      <3> QED  BY <2>1, <3>1
    <2>4. Masked(payload, mask) = once
      BY <1>2 DEF Masked
    <2>5. Masked(once, mask) = twice
      BY <1>2, <2>3 DEF Masked
    <2>6. twice = payload
      <3>1. payload = [i \in 1..n |-> payload[i]]
        OBVIOUS
      <3>2. twice = [i \in 1..n |-> twice[i]]
        OBVIOUS
      <3> HIDE DEF twice
      <3>3. [i \in 1..n |-> twice[i]] = [i \in 1..n |-> payload[i]]
        BY <2>2
      <3> QED  BY <3>1, <3>2, <3>3
    <2> QED  BY <2>3, <2>4, <2>5, <2>6
  <1> QED  BY <1>1, <1>2

-----------------------------------------------------------------------------
(***************************************************************************)
(* A frame and its pieces.                                                  *)
(***************************************************************************)
Wire == [opcode : 0..15] \union [masked : BOOLEAN, len : Nat] \union Octets

\* A payload short enough for its frame to have a size.
Payloads == {p \in Seq(Octets) : 2 + LongBytes + MaskBytes + Len(p) < Power[LongBytes]}

ExtendedBytes(payload) == Extended(Len(payload)).bytes
Mark(payload) == Extended(Len(payload)).mark

LEMMA ExtendedParts ==
  ASSUME NEW payload \in Payloads
  PROVE  /\ ExtendedBytes(payload) \in Seq(Octets)
         /\ Mark(payload) \in Nat
         /\ Len(ExtendedBytes(payload)) \in 0..LongBytes
         /\ \/ /\ Mark(payload) = Len(payload) /\ Mark(payload) < Short
               /\ Len(ExtendedBytes(payload)) = 0
            \/ /\ Mark(payload) = Short /\ Len(ExtendedBytes(payload)) = 2
               /\ Number(ExtendedBytes(payload)) = Len(payload)
            \/ /\ Mark(payload) = Short + 1 /\ Len(ExtendedBytes(payload)) = LongBytes
               /\ Number(ExtendedBytes(payload)) = Len(payload)
  <1> DEFINE n == Len(payload)
  <1>1. n \in Nat /\ n < Power[LongBytes] /\ Short \in Nat /\ LongBytes \in Nat /\ 2 <= LongBytes
    <2>1. Power[LongBytes] \in Nat
      BY WidthAssumption, PowerSteps
    <2> QED  BY <2>1, WidthAssumption DEF Payloads
  <1>2. CASE n < Short
    <2>1. Extended(n) = [mark |-> n, bytes |-> <<>>]
      BY <1>1, <1>2 DEF Extended
    <2>2. ExtendedBytes(payload) = <<>> /\ Mark(payload) = n
      BY <2>1 DEF ExtendedBytes, Mark
    <2> QED  BY <1>1, <1>2, <2>2
  <1>3. CASE n >= Short /\ n < Power[2]
    <2>1. Extended(n) = [mark |-> Short, bytes |-> LengthBytes(n, 2)]
      <3>1. ~(n < Short)
        BY <1>1, <1>3
      <3> QED  BY <1>3, <3>1 DEF Extended
    <2>2. 2 \in 1..LongBytes
      BY <1>1
    <2> HIDE DEF n
    <2>3. /\ LengthBytes(n, 2) \in Seq(Octets) /\ Len(LengthBytes(n, 2)) = 2
          /\ Number(LengthBytes(n, 2)) = n
      BY <1>1, <1>3, <2>2, LengthBack
    <2>4. ExtendedBytes(payload) = LengthBytes(n, 2) /\ Mark(payload) = Short
      BY <2>1 DEF ExtendedBytes, Mark, n
    <2>5. /\ ExtendedBytes(payload) \in Seq(Octets) /\ Len(ExtendedBytes(payload)) = 2
          /\ Number(ExtendedBytes(payload)) = Len(payload)
      BY <2>3, <2>4, Zenon DEF n
    <2>6. 2 \in 0..LongBytes /\ Short \in Nat
      BY <1>1
    <2> QED  BY <2>4, <2>5, <2>6, Zenon
  <1>4. CASE n >= Short /\ ~(n < Power[2])
    <2>1. Extended(n) = [mark |-> Short + 1, bytes |-> LengthBytes(n, LongBytes)]
      <3>1. ~(n < Short)
        BY <1>1, <1>4
      <3> QED  BY <1>4, <3>1 DEF Extended
    <2>2. LongBytes \in 1..LongBytes
      BY <1>1
    <2> HIDE DEF n
    <2>3. /\ LengthBytes(n, LongBytes) \in Seq(Octets) /\ Len(LengthBytes(n, LongBytes)) = LongBytes
          /\ Number(LengthBytes(n, LongBytes)) = n
      BY <1>1, <2>2, LengthBack
    <2>4. ExtendedBytes(payload) = LengthBytes(n, LongBytes) /\ Mark(payload) = Short + 1
      BY <2>1 DEF ExtendedBytes, Mark, n
    <2>5. /\ ExtendedBytes(payload) \in Seq(Octets) /\ Len(ExtendedBytes(payload)) = LongBytes
          /\ Number(ExtendedBytes(payload)) = Len(payload)
      BY <2>3, <2>4, Zenon DEF n
    <2> QED  BY <1>1, <2>4, <2>5
  <1> QED  BY <1>1, <1>2, <1>3, <1>4

LEMMA MaskLength ==
  ASSUME NEW mask \in Masks
  PROVE  /\ mask \in Seq(Octets)
         /\ Len(mask) = IF mask # <<>> THEN MaskBytes ELSE 0
  <1>1. MaskBytes \in Nat \ {0}
    BY WidthAssumption
  <1>2. CASE mask = <<>>
    BY <1>2
  <1>3. CASE mask \in [1..MaskBytes -> Octets]
    <2>1. mask \in Seq(Octets) /\ Len(mask) = MaskBytes
      BY <1>1, <1>3
    <2> QED  BY <1>1, <2>1
  <1> QED  BY <1>2, <1>3 DEF Masks

\* Two sequences, one after the other.
IsConcat(S, s, t, u) ==
  /\ u \in Seq(S) /\ Len(u) = Len(s) + Len(t)
  /\ \A i \in 1..Len(s) : u[i] = s[i]
  /\ \A i \in 1..Len(t) : u[Len(s) + i] = t[i]

LEMMA ConcatAt ==
  ASSUME NEW S, NEW s \in Seq(S), NEW t \in Seq(S)
  PROVE  IsConcat(S, s, t, s \o t)
  <1>1. s \o t \in Seq(S) /\ Len(s \o t) = Len(s) + Len(t)
    OBVIOUS
  <1>2. \A i \in 1..Len(s) : (s \o t)[i] = s[i]
    OBVIOUS
  <1>3. ASSUME NEW i \in 1..Len(t) PROVE (s \o t)[Len(s) + i] = t[i]
    OBVIOUS
  <1> QED  BY <1>1, <1>2, <1>3 DEF IsConcat

\* n of the elements of a sequence, after a of them.
IsCut(S, s, a, n, u) == u \in Seq(S) /\ Len(u) = n /\ \A i \in 1..n : u[i] = s[a + i]

LEMMA CutAt ==
  ASSUME NEW S, NEW s \in Seq(S), NEW a \in Nat, NEW n \in Nat, a + n <= Len(s)
  PROVE  IsCut(S, s, a, n, SubSeq(s, a + 1, a + n))
  <1> DEFINE u == SubSeq(s, a + 1, a + n)
  <1>1. Len(u) = n
    OBVIOUS
  <1>2. u \in Seq(S)
    OBVIOUS
  <1>3. ASSUME NEW i \in 1..n PROVE u[i] = s[a + i]
    OBVIOUS
  <1> QED  BY <1>1, <1>2, <1>3 DEF IsCut

\* Where the payload of a frame starts.
HeaderSize(mask, payload) == 2 + Len(ExtendedBytes(payload)) + Len(mask)

HasParts(f, opcode, mask, payload) ==
  LET x == Len(ExtendedBytes(payload))
  IN /\ f \in Seq(Wire)
     /\ Len(f) = HeaderSize(mask, payload) + Len(payload)
     /\ f[1] = [opcode |-> opcode]
     /\ f[2] = [masked |-> mask # <<>>, len |-> Mark(payload)]
     /\ \A i \in 1..x : f[2 + i] = ExtendedBytes(payload)[i]
     /\ \A i \in 1..Len(mask) : f[2 + x + i] = mask[i]
     /\ \A i \in 1..Len(payload) : f[HeaderSize(mask, payload) + i] = Masked(payload, mask)[i]

LEMMA FrameParts ==
  ASSUME NEW opcode \in 0..15, NEW mask \in Masks, NEW payload \in Payloads
  PROVE  HasParts(Frame(opcode, mask, payload), opcode, mask, payload)
  <1> DEFINE f == Frame(opcode, mask, payload)
             e == ExtendedBytes(payload)
             p == Masked(payload, mask)
             h == <<[opcode |-> opcode], [masked |-> mask # <<>>, len |-> Mark(payload)]>>
             he == h \o e
             hem == he \o mask
  <1>1. f = hem \o p
    BY DEF Frame, ExtendedBytes, Mark
  <1>2. e \in Seq(Wire) /\ mask \in Seq(Wire) /\ p \in Seq(Wire) /\ Len(p) = Len(payload)
    <2>1. payload \in Seq(Octets)
      BY DEF Payloads
    <2>2. p \in Seq(Octets) /\ Len(p) = Len(payload)
      BY <2>1, MaskedTwice
    <2>3. e \in Seq(Octets) /\ mask \in Seq(Octets)
      BY ExtendedParts, MaskLength
    <2>4. \A s \in Seq(Octets) : s \in Seq(Wire)
      BY DEF Wire
    <2> HIDE DEF p, e
    <2> QED  BY <2>2, <2>3, <2>4
  <1>3. h \in Seq(Wire) /\ Len(h) = 2 /\ h[1] = [opcode |-> opcode]
        /\ h[2] = [masked |-> mask # <<>>, len |-> Mark(payload)]
    <2>1. [opcode |-> opcode] \in Wire
      BY DEF Wire
    <2>2. [masked |-> mask # <<>>, len |-> Mark(payload)] \in Wire
      <3>1. Mark(payload) \in Nat
        BY ExtendedParts
      <3>2. (mask # <<>>) \in BOOLEAN
        OBVIOUS
      <3> QED  BY <3>1, <3>2 DEF Wire
    <2> QED  BY <2>1, <2>2
  <1> HIDE DEF f, e, p, h
  <1>4. /\ he \in Seq(Wire) /\ Len(he) = 2 + Len(e) /\ he[1] = h[1] /\ he[2] = h[2]
        /\ \A i \in 1..Len(e) : he[2 + i] = e[i]
    <2>1. IsConcat(Wire, h, e, he)
      BY <1>2, <1>3, ConcatAt
    <2> HIDE DEF he
    <2>2. 1 \in 1..Len(h) /\ 2 \in 1..Len(h)
      BY <1>3
    <2> QED  BY <1>3, <2>1, <2>2 DEF IsConcat
  <1> HIDE DEF he
  <1>5. /\ hem \in Seq(Wire) /\ Len(hem) = 2 + Len(e) + Len(mask)
        /\ \A i \in 1..(2 + Len(e)) : hem[i] = he[i]
        /\ \A i \in 1..Len(mask) : hem[2 + Len(e) + i] = mask[i]
    <2>1. IsConcat(Wire, he, mask, hem)
      BY <1>2, <1>4, ConcatAt
    <2> HIDE DEF hem
    <2> QED  BY <1>4, <2>1 DEF IsConcat
  <1> HIDE DEF hem
  <1>6. /\ f \in Seq(Wire) /\ Len(f) = 2 + Len(e) + Len(mask) + Len(payload)
        /\ \A i \in 1..(2 + Len(e) + Len(mask)) : f[i] = hem[i]
        /\ \A i \in 1..Len(payload) : f[2 + Len(e) + Len(mask) + i] = p[i]
    <2>1. IsConcat(Wire, hem, p, f)
      BY <1>1, <1>2, <1>5, ConcatAt
    <2> QED  BY <1>2, <1>5, <2>1 DEF IsConcat
  <1>7. Len(e) \in Nat /\ Len(mask) \in Nat
    BY <1>2
  <1>8. f[1] = h[1] /\ f[2] = h[2]
    BY <1>4, <1>5, <1>6, <1>7
  <1>9. \A i \in 1..Len(e) : f[2 + i] = e[i]
    <2> SUFFICES ASSUME NEW i \in 1..Len(e) PROVE f[2 + i] = e[i]
      OBVIOUS
    <2>1. 2 + i \in 1..(2 + Len(e)) /\ 2 + i \in 1..(2 + Len(e) + Len(mask))
      BY <1>7
    <2> QED  BY <1>4, <1>5, <1>6, <2>1
  <1>10. \A i \in 1..Len(mask) : f[2 + Len(e) + i] = mask[i]
    <2> SUFFICES ASSUME NEW i \in 1..Len(mask) PROVE f[2 + Len(e) + i] = mask[i]
      OBVIOUS
    <2>1. 2 + Len(e) + i \in 1..(2 + Len(e) + Len(mask))
      BY <1>7
    <2> QED  BY <1>5, <1>6, <2>1
  <1> QED  BY <1>3, <1>6, <1>8, <1>9, <1>10 DEF f, e, p, HeaderSize, HasParts

\* What has arrived, data, goes like the frame f as far as either reaches.
Starts(data, f) ==
  /\ data \in Seq(Wire)
  /\ \A i \in 1..Len(data) : i <= Len(f) => data[i] = f[i]

\* The header is read from any piece that has it.
LEMMA HeaderRead ==
  ASSUME NEW opcode \in 0..15, NEW mask \in Masks, NEW payload \in Payloads, NEW data,
         Starts(data, Frame(opcode, mask, payload))
  PROVE  /\ Len(data) < 2 + Len(ExtendedBytes(payload)) => Header(data).size = 0
         /\ Len(data) >= 2 + Len(ExtendedBytes(payload)) =>
              /\ Header(data).size = HeaderSize(mask, payload)
              /\ Header(data).len = Len(payload)
  <1> DEFINE f == Frame(opcode, mask, payload)
             x == Len(ExtendedBytes(payload))
             y == IF Len(data) < 2 THEN 0
                  ELSE CASE data[2].len = Short     -> 2
                         [] data[2].len = Short + 1 -> LongBytes
                         [] OTHER                   -> 0
             N == Number(SubSeq(data, 3, 2 + y))
  <1>1. /\ f \in Seq(Wire)
        /\ Len(f) = HeaderSize(mask, payload) + Len(payload)
        /\ f[2] = [masked |-> mask # <<>>, len |-> Mark(payload)]
        /\ \A i \in 1..x : f[2 + i] = ExtendedBytes(payload)[i]
    <2>1. HasParts(f, opcode, mask, payload)
      BY FrameParts
    <2> HIDE DEF f
    <2> QED  BY <2>1 DEF HasParts
  <1>2. /\ data \in Seq(Wire) /\ Len(data) \in Nat
        /\ \A i \in 1..Len(data) : i <= Len(f) => data[i] = f[i]
    BY DEF Starts
  <1>3. x \in Nat /\ Len(mask) \in Nat /\ Len(payload) \in Nat /\ Len(f) >= 2 + x
    <2>1. x \in Nat /\ Len(mask) \in Nat /\ Len(payload) \in Nat
      BY ExtendedParts, MaskLength DEF Payloads
    <2> QED  BY <1>1, <2>1 DEF HeaderSize
  <1>4. Header(data) = IF Len(data) < 2 + y THEN [size |-> 0, len |-> 0]
                       ELSE [size |-> 2 + y + (IF data[2].masked THEN MaskBytes ELSE 0),
                             len  |-> IF y = 0 THEN data[2].len ELSE N]
    BY DEF Header
  <1> HIDE DEF f
  <1>5. CASE Len(data) < 2
    <2>1. y = 0
      BY <1>5
    <2> HIDE DEF y, N
    <2>2. Header(data).size = 0
      BY <1>2, <1>4, <1>5, <2>1
    <2>3. Len(data) < 2 + x
      BY <1>2, <1>3, <1>5
    <2> HIDE DEF x
    <2>4. ~(Len(data) >= 2 + x)
      BY <1>2, <1>3, <2>3
    <2> QED  BY <2>2, <2>4 DEF x
  <1>6. CASE ~(Len(data) < 2)
    <2>1. data[2] = f[2]
      <3>1. 2 \in 1..Len(data) /\ 2 <= Len(f)
        BY <1>2, <1>3, <1>6
      <3> QED  BY <1>2, <3>1
    <2>2. data[2].masked = (mask # <<>>) /\ data[2].len = Mark(payload)
      BY <1>1, <2>1
    <2>3. y = x /\ (x = 0 => Mark(payload) = Len(payload))
      <3>0. /\ Short \in Nat /\ Mark(payload) \in Nat /\ LongBytes > 1 /\ LongBytes \in Nat
            /\ \/ Mark(payload) = Len(payload) /\ Mark(payload) < Short /\ x = 0
               \/ Mark(payload) = Short /\ x = 2
               \/ Mark(payload) = Short + 1 /\ x = LongBytes
        BY ExtendedParts, WidthAssumption
      <3> HIDE DEF x
      <3>1. CASE Mark(payload) = Len(payload) /\ Mark(payload) < Short /\ x = 0
        <4>1. data[2].len # Short /\ data[2].len # Short + 1
          BY <2>2, <3>0, <3>1
        <4>2. y = 0
          BY <1>6, <4>1
        <4> HIDE DEF y
        <4> QED  BY <3>1, <4>2
      <3>2. CASE Mark(payload) = Short /\ x = 2
        <4>1. data[2].len = Short /\ data[2].len # Short + 1
          BY <2>2, <3>0, <3>2
        <4>2. y = 2
          BY <1>6, <4>1
        <4> HIDE DEF y
        <4> QED  BY <3>2, <4>2
      <3>3. CASE Mark(payload) = Short + 1 /\ x = LongBytes
        <4>1. data[2].len # Short /\ data[2].len = Short + 1
          BY <2>2, <3>0, <3>3
        <4>2. y = LongBytes
          BY <1>6, <4>1
        <4> HIDE DEF y
        <4> QED  BY <3>0, <3>3, <4>2
      <3> HIDE DEF y
      <3> QED  BY <3>0, <3>1, <3>2, <3>3
    <2> HIDE DEF y
    <2>4. ASSUME Len(data) >= 2 + x, x # 0
          PROVE  N = Len(payload)
      <3>1. SubSeq(data, 3, 2 + x) = ExtendedBytes(payload)
        <4> DEFINE s == SubSeq(data, 3, 2 + x)
                   e == ExtendedBytes(payload)
        <4>1. e \in Seq(Octets)
          BY ExtendedParts
        <4>2. s \in Seq(Wire) /\ Len(s) = x /\ \A i \in 1..x : s[i] = data[2 + i]
          <5> HIDE DEF x
          <5>1. 2 \in Nat /\ x \in Nat /\ 2 + x <= Len(data) /\ 2 + 1 = 3
            BY <1>2, <1>3, <2>4
          <5>2. IsCut(Wire, data, 2, x, s)
            BY <1>2, <5>1, CutAt
          <5> QED  BY <5>2 DEF IsCut
        <4>3. ASSUME NEW i \in 1..x PROVE s[i] = e[i]
          <5>1. 2 + i \in 1..Len(data) /\ 2 + i <= Len(f)
            <6> HIDE DEF x
            <6> QED  BY <1>2, <1>3, <2>4
          <5>2. data[2 + i] = f[2 + i]
            BY <1>2, <5>1
          <5> QED  BY <1>1, <4>2, <5>2
        <4>4. Len(e) = x
          OBVIOUS
        <4>5. \A s1, s2 : s1 \in Seq(Wire) /\ s2 \in Seq(Octets) /\ Len(s1) = Len(s2)
                         /\ (\A i \in 1..Len(s1) : s1[i] = s2[i]) => s1 = s2
          OBVIOUS
        <4> HIDE DEF s, e, x
        <4>6. s = e
          BY <4>1, <4>2, <4>3, <4>4, <4>5
        <4> QED  BY <4>6 DEF s, e
      <3>2. Number(ExtendedBytes(payload)) = Len(payload)
        BY <2>4, ExtendedParts
      <3> QED  BY <2>3, <3>1, <3>2
    <2>5. (IF data[2].masked THEN MaskBytes ELSE 0) = Len(mask)
      BY <2>2, MaskLength
    <2>6. CASE Len(data) < 2 + x
      <3>1. Header(data).size = 0
        BY <1>4, <2>3, <2>6
      <3> HIDE DEF x
      <3>2. ~(Len(data) >= 2 + x)
        BY <1>2, <1>3, <2>6
      <3> QED  BY <3>1, <3>2 DEF x
    <2>7. CASE ~(Len(data) < 2 + x)
      <3>0. Len(data) >= 2 + x
        BY <1>2, <1>3, <2>7
      <3>1. Header(data) = [size |-> 2 + x + Len(mask), len |-> IF x = 0 THEN data[2].len ELSE N]
        BY <1>4, <2>3, <2>5, <2>7
      <3>2. (IF x = 0 THEN data[2].len ELSE N) = Len(payload)
        BY <2>2, <2>3, <2>4, <3>0
      <3> HIDE DEF x, N
      <3>3. Header(data).size = 2 + x + Len(mask) /\ Header(data).len = Len(payload)
        BY <3>1, <3>2
      <3> QED  BY <2>7, <3>0, <3>3 DEF HeaderSize, x
    <2> QED  BY <2>6, <2>7
  <1> QED  BY <1>5, <1>6

\* The size of a frame is known from its header on, and is 0 before.
LEMMA FrameSize ==
  ASSUME NEW opcode \in 0..15, NEW mask \in Masks, NEW payload \in Payloads, NEW data,
         Starts(data, Frame(opcode, mask, payload))
  PROVE  LET f == Frame(opcode, mask, payload)
         IN /\ Len(data) >= Len(f) => CompleteFrameSize(data) = Len(f)
            /\ CompleteFrameSize(data) \in {0, Len(f)}
  <1> DEFINE f == Frame(opcode, mask, payload)
             x == Len(ExtendedBytes(payload))
             h == Header(data)
  <1>1. /\ Len(data) < 2 + x => h.size = 0
        /\ Len(data) >= 2 + x => h.size = HeaderSize(mask, payload) /\ h.len = Len(payload)
    BY HeaderRead, ZenonT(30)
  <1>2. Len(f) = HeaderSize(mask, payload) + Len(payload)
    <2>1. HasParts(f, opcode, mask, payload)
      BY FrameParts
    <2> QED  BY <2>1 DEF HasParts
  <1>3. /\ x \in 0..LongBytes /\ LongBytes \in Nat /\ Len(mask) \in 0..MaskBytes /\ Len(payload) \in Nat
        /\ MaskBytes \in Nat /\ Power[LongBytes] \in Nat \ {0}
        /\ 2 + LongBytes + MaskBytes + Len(payload) < Power[LongBytes]
    <2>1. Len(mask) \in 0..MaskBytes
      BY MaskLength, WidthAssumption
    <2>2. Power[LongBytes] \in Nat \ {0}
      BY WidthAssumption, PowerSteps
    <2>3. x \in 0..LongBytes
      BY ExtendedParts
    <2> QED  BY <2>1, <2>2, <2>3, WidthAssumption DEF Payloads
  <1>4. HeaderSize(mask, payload) = 2 + x + Len(mask)
    BY DEF HeaderSize
  <1>5. Len(data) \in Nat
    BY DEF Starts
  <1>6. CompleteFrameSize(data) = IF h.size = 0 THEN 0 ELSE (h.size + h.len) % Power[LongBytes]
    BY DEF CompleteFrameSize
  <1> HIDE DEF f, x, h
  <1>7. HeaderSize(mask, payload) \in Nat \ {0} /\ Len(f) >= 2 + x
        /\ Len(f) \in 0..(Power[LongBytes] - 1)
    <2> HIDE DEF HeaderSize
    <2> QED  BY <1>2, <1>3, <1>4
  <1>8. CASE Len(data) < 2 + x
    <2>1. CompleteFrameSize(data) = 0
      BY <1>1, <1>6, <1>8
    <2>2. ~(Len(data) >= Len(f))
      BY <1>3, <1>5, <1>7, <1>8
    <2> QED  BY <2>1, <2>2 DEF f
  <1>9. CASE Len(data) >= 2 + x
    <2> DEFINE w == Power[LongBytes]
               k == Len(f)
    <2>1. h.size # 0 /\ h.size + h.len = Len(f)
      BY <1>1, <1>2, <1>7, <1>9
    <2>2. k % w = k
      <3>1. k \in 0..(w - 1) /\ w \in Nat \ {0}
        BY <1>3, <1>7
      <3> HIDE DEF k, w
      <3> QED  BY <3>1
    <2>3. CompleteFrameSize(data) = Len(f)
      BY <1>6, <2>1, <2>2
    <2> QED  BY <2>3 DEF f
  <1> QED  BY <1>3, <1>5, <1>8, <1>9

\* A whole frame is read back as what was put in it.
LEMMA FrameParsed ==
  ASSUME NEW opcode \in 0..15, NEW mask \in Masks, NEW payload \in Payloads
  PROVE  LET f == Frame(opcode, mask, payload)
         IN /\ Starts(f, f)
            /\ ParseWebSocketFrame(f) = IF opcode = 1 THEN payload ELSE <<>>
  <1> DEFINE f == Frame(opcode, mask, payload)
             x == Len(ExtendedBytes(payload))
             hs == HeaderSize(mask, payload)
             n == Len(payload)
             h == Header(f)
             p == SubSeq(f, h.size + 1, h.size + h.len)
             m == IF f[2].masked THEN SubSeq(f, h.size - MaskBytes + 1, h.size) ELSE <<>>
             q == Masked(payload, mask)
  <1>1. /\ f \in Seq(Wire) /\ Len(f) = hs + n
        /\ f[1] = [opcode |-> opcode]
        /\ f[2] = [masked |-> mask # <<>>, len |-> Mark(payload)]
        /\ \A i \in 1..Len(mask) : f[2 + x + i] = mask[i]
        /\ \A i \in 1..n : f[hs + i] = q[i]
    <2>1. HasParts(f, opcode, mask, payload)
      BY FrameParts
    <2> HIDE DEF f
    <2> QED  BY <2>1 DEF HasParts
  <1>2. Starts(f, f)
    BY <1>1 DEF Starts
  <1>3. x \in Nat /\ Len(mask) \in Nat /\ n \in Nat /\ hs = 2 + x + Len(mask)
    BY ExtendedParts, MaskLength DEF Payloads, HeaderSize
  <1>4. h.size = hs /\ h.len = n
    <2>1. Len(f) \in Nat /\ Len(f) >= 2 + x
      BY <1>1, <1>3
    <2> QED  BY <1>2, <2>1, HeaderRead
  <1>5. ParseWebSocketFrame(f) = IF f[1].opcode # 1 \/ Len(f) < h.size + h.len THEN <<>> ELSE Masked(p, m)
    BY DEF ParseWebSocketFrame
  <1>6. f[1].opcode = opcode /\ f[2].masked = (mask # <<>>)
    BY <1>1
  <1>7. q \in Seq(Octets) /\ Len(q) = n /\ payload \in Seq(Octets) /\ Masked(q, mask) = payload
    BY MaskedTwice DEF Payloads
  <1> HIDE DEF f, x, hs, h, n, q
  <1>8. ~(Len(f) < h.size + h.len)
    BY <1>1, <1>3, <1>4
  <1>9. \A s1, s2 : s1 \in Seq(Wire) /\ s2 \in Seq(Octets) /\ Len(s1) = Len(s2)
                    /\ (\A i \in 1..Len(s1) : s1[i] = s2[i]) => s1 = s2
    OBVIOUS
  <1>10. p = q
    <2>1. p = SubSeq(f, hs + 1, hs + n)
      BY <1>4
    <2>2. hs \in Nat /\ hs + n <= Len(f)
      BY <1>1, <1>3
    <2> HIDE DEF p
    <2>3. IsCut(Wire, f, hs, n, p)
      BY <1>1, <1>3, <2>1, <2>2, CutAt
    <2> QED  BY <1>1, <1>7, <1>9, <2>3 DEF IsCut
  <1>11. m = mask
    <2>1. CASE mask = <<>>
      BY <1>6, <2>1
    <2>2. CASE mask # <<>>
      <3>1. mask \in Seq(Octets) /\ Len(mask) = MaskBytes
        BY <2>2, MaskLength
      <3> DEFINE a == 2 + x
                 k == Len(mask)
      <3>2. m = SubSeq(f, a + 1, a + k)
        <4>1. hs - MaskBytes + 1 = a + 1 /\ hs = a + k
          BY <1>3, <3>1
        <4> QED  BY <1>4, <1>6, <2>2, <4>1
      <3>3. a \in Nat /\ k \in Nat /\ a + k <= Len(f)
        BY <1>1, <1>3
      <3>4. \A i \in 1..k : f[a + i] = mask[i]
        BY <1>1
      <3>5. Len(mask) = k
        OBVIOUS
      <3> HIDE DEF m, a, k
      <3>6. IsCut(Wire, f, a, k, m)
        BY <1>1, <3>2, <3>3, CutAt
      <3> QED  BY <1>9, <3>1, <3>4, <3>5, <3>6 DEF IsCut
    <2> QED  BY <2>1, <2>2
  <1>12. Masked(p, m) = payload
    BY <1>7, <1>10, <1>11
  <1> HIDE DEF p, m
  <1>13. ParseWebSocketFrame(f) = IF opcode = 1 THEN payload ELSE <<>>
    BY <1>5, <1>6, <1>8, <1>12
  <1> QED  BY <1>2, <1>13 DEF f

-----------------------------------------------------------------------------
(***************************************************************************)
(* Frames in a stream.                                                      *)
(***************************************************************************)
Sendable == {t \in Seq(Frames) : \A i \in 1..Len(t) : t[i].payload \in Payloads}

FrameOf(t, i) == Frame(t[i].opcode, t[i].mask, t[i].payload)

LEMMA TrafficSendable ==
  Traffic \subseteq Sendable
  <1> SUFFICES ASSUME NEW t \in Traffic PROVE t \in Sendable
    OBVIOUS
  <1>1. /\ t \in Seq(Frames)
        /\ \A i \in 1..Len(t) : 2 + LongBytes + MaskBytes + Len(t[i].payload) < Power[LongBytes]
    BY TrafficAssumption
  <1>2. ASSUME NEW i \in 1..Len(t) PROVE t[i].payload \in Payloads
    <2>1. t[i] \in Frames
      BY <1>1
    <2>2. t[i].payload \in Seq(Octets)
      BY <2>1 DEF Frames
    <2> QED  BY <1>1, <2>2 DEF Payloads
  <1> QED  BY <1>1, <1>2 DEF Sendable

LEMMA FrameAt ==
  ASSUME NEW t \in Sendable, NEW i \in 1..Len(t)
  PROVE  /\ t[i].opcode \in 0..15 /\ t[i].mask \in Masks /\ t[i].payload \in Payloads
         /\ FrameOf(t, i) \in Seq(Wire)
         /\ Len(FrameOf(t, i)) \in Nat /\ Len(FrameOf(t, i)) >= 2
         /\ FrameOf(t, i)[1].opcode = t[i].opcode
  <1>1. t[i] \in Frames /\ t[i].payload \in Payloads
    BY DEF Sendable
  <1>2. t[i].opcode \in 0..15 /\ t[i].mask \in Masks
    BY <1>1 DEF Frames, Masks
  <1> DEFINE o == t[i].opcode
             m == t[i].mask
             p == t[i].payload
             f == Frame(o, m, p)
  <1>3. HasParts(f, o, m, p)
    <2> HIDE DEF o, m, p
    <2> QED  BY <1>1, <1>2, FrameParts DEF o, m, p
  <1>4. Len(ExtendedBytes(p)) \in Nat /\ Len(m) \in Nat /\ Len(p) \in Nat
    BY <1>1, <1>2, ExtendedParts, MaskLength DEF Payloads
  <1>5. f \in Seq(Wire) /\ Len(f) = 2 + Len(ExtendedBytes(p)) + Len(m) + Len(p) /\ f[1].opcode = o
    <2> HIDE DEF o, m, p, f
    <2> QED  BY <1>3 DEF HasParts, HeaderSize
  <1>6. Len(f) \in Nat /\ Len(f) >= 2
    <2> HIDE DEF o, m, p, f
    <2> QED  BY <1>4, <1>5
  <1> HIDE DEF f
  <1> QED  BY <1>1, <1>2, <1>5, <1>6 DEF FrameOf, f

LEMMA StreamSteps ==
  ASSUME NEW t \in Sendable
  PROVE  /\ Stream(t)[0] = <<>>
         /\ \A i \in 1..Len(t) : Stream(t)[i] = Stream(t)[i - 1] \o FrameOf(t, i)
         /\ \A i \in 0..Len(t) : Stream(t)[i] \in Seq(Wire)
  <1> DEFINE n == Len(t)
             S == Seq(Wire)
             Add(x, i) == x \o FrameOf(t, i)
             F == [i \in 1..n |-> [x \in S |-> Add(x, i)]]
             G(f) == [i \in 0..n |-> IF i = 0 THEN <<>> ELSE Add(f[i - 1], i)]
             R == Stream(t)
  <1>1. n \in Nat /\ <<>> \in S
    BY DEF Sendable
  <1>2. \A i \in 1..n : FrameOf(t, i) \in Seq(Wire)
    BY FrameAt
  <1>3. F \in [1..n -> [S -> S]]
    <2>1. ASSUME NEW i \in 1..n, NEW x \in S PROVE Add(x, i) \in S
      BY <1>2
    <2> HIDE DEF S, Add
    <2> QED  BY <2>1
  <1>4. PICK f \in [0..n -> S] : f[0] = <<>> /\ \A i \in 1..n : f[i] = F[i][f[i - 1]]
    <2> HIDE DEF F, n, S
    <2>1. Paths(n, S, <<>>, F) # {}
      BY <1>1, <1>3, PathExists
    <2> QED  BY <2>1 DEF Paths
  <1>5. \A i \in 1..n : f[i] = Add(f[i - 1], i)
    <2> SUFFICES ASSUME NEW i \in 1..n PROVE f[i] = Add(f[i - 1], i)
      OBVIOUS
    <2>1. i - 1 \in 0..n
      BY <1>1
    <2>2. f[i - 1] \in S
      BY <1>4, <2>1
    <2> HIDE DEF S, Add
    <2> QED  BY <1>4, <2>2
  <1>6. f = G(f)
    <2> HIDE DEF n, F, Add
    <2>1. \A i \in 0..n : f[i] = G(f)[i]
      BY <1>1, <1>4, <1>5
    <2> QED  BY <1>4, <2>1
  <1>7. R = CHOOSE g : g = G(g)
    BY DEF Stream, FrameOf
  <1>8. R = G(R)
    <2> HIDE DEF G, R
    <2> QED  BY <1>6, <1>7
  <1>9. R[0] = <<>> /\ \A i \in 1..n : R[i] = Add(R[i - 1], i)
    <2> HIDE DEF n, R, Add
    <2> QED  BY <1>1, <1>8
  <1>10. \A i \in 0..n : R[i] = f[i]
    <2> HIDE DEF n, S, F, G, R, Add
    <2>1. GoesAlike(n, R, f)
      BY <1>4, <1>5, <1>9 DEF GoesAlike
    <2>2. Alike(n, R, f)
      BY <1>1, <2>1, SameUpTo
    <2> QED  BY <2>2 DEF Alike
  <1> HIDE DEF R
  <1>11. \A i \in 0..n : R[i] \in Seq(Wire)
    BY <1>4, <1>10
  <1> QED  BY <1>9, <1>11 DEF R

LEMMA DueSteps ==
  ASSUME NEW t \in Sendable, NEW a
  PROVE  /\ Due(t, a)[0] = <<>>
         /\ \A i \in 1..Len(t) :
              Due(t, a)[i] = IF Counts(t, a, i) THEN Append(Due(t, a)[i - 1], t[i].payload)
                             ELSE Due(t, a)[i - 1]
  <1> DEFINE n == Len(t)
             S == Seq(Seq(Octets))
             Add(x, i) == IF Counts(t, a, i) THEN Append(x, t[i].payload) ELSE x
             F == [i \in 1..n |-> [x \in S |-> Add(x, i)]]
             G(f) == [i \in 0..n |-> IF i = 0 THEN <<>> ELSE Add(f[i - 1], i)]
             R == Due(t, a)
  <1>1. n \in Nat /\ <<>> \in S
    BY DEF Sendable
  <1>2. \A i \in 1..n : t[i].payload \in Seq(Octets)
    BY FrameAt DEF Payloads
  <1>3. F \in [1..n -> [S -> S]]
    <2>1. ASSUME NEW i \in 1..n, NEW x \in S PROVE Add(x, i) \in S
      BY <1>2
    <2> HIDE DEF S, Add
    <2> QED  BY <2>1
  <1>4. PICK f \in [0..n -> S] : f[0] = <<>> /\ \A i \in 1..n : f[i] = F[i][f[i - 1]]
    <2> HIDE DEF F, n, S
    <2>1. Paths(n, S, <<>>, F) # {}
      BY <1>1, <1>3, PathExists
    <2> QED  BY <2>1 DEF Paths
  <1>5. \A i \in 1..n : f[i] = Add(f[i - 1], i)
    <2> SUFFICES ASSUME NEW i \in 1..n PROVE f[i] = Add(f[i - 1], i)
      OBVIOUS
    <2>1. i - 1 \in 0..n
      BY <1>1
    <2>2. f[i - 1] \in S
      BY <1>4, <2>1
    <2> HIDE DEF S, Add
    <2> QED  BY <1>4, <2>2
  <1>6. f = G(f)
    <2> HIDE DEF n, F, Add
    <2>1. \A i \in 0..n : f[i] = G(f)[i]
      BY <1>1, <1>4, <1>5
    <2> QED  BY <1>4, <2>1
  <1>7. R = CHOOSE g : g = G(g)
    BY DEF Due
  <1>8. R = G(R)
    <2> HIDE DEF G, R
    <2> QED  BY <1>6, <1>7
  <1>9. /\ R[0] = <<>>
        /\ \A i \in 1..n : R[i] = Add(R[i - 1], i)
    <2> HIDE DEF n, R, Add
    <2> QED  BY <1>1, <1>8
  <1> QED  BY <1>9

\* Where the first i frames end.
EndOf(t, i) == Len(Stream(t)[i])

\* A part of the stream is the beginning of all longer ones, and every frame adds
\* to it.
LEMMA StreamGrows ==
  ASSUME NEW t \in Sendable, NEW i \in 0..Len(t), NEW j \in i..Len(t)
  PROVE  /\ EndOf(t, i) \in Nat /\ EndOf(t, j) \in Nat /\ EndOf(t, i) + (j - i) <= EndOf(t, j)
         /\ \A p \in 1..EndOf(t, i) : Stream(t)[j][p] = Stream(t)[i][p]
  <1> DEFINE n == Len(t)
             s == Stream(t)
             Good(k) == /\ Len(s[i]) + k <= Len(s[i + k])
                        /\ \A p \in 1..Len(s[i]) : s[i + k][p] = s[i][p]
             T == {k \in 0..(n - i) : Good(k)}
  <1>1. n \in Nat
    BY DEF Sendable
  <1>2. \A k \in 0..n : s[k] \in Seq(Wire) /\ Len(s[k]) \in Nat
    BY StreamSteps
  <1>3. \A k \in 1..n : s[k] = s[k - 1] \o FrameOf(t, k)
    BY StreamSteps
  <1> HIDE DEF s
  <1>4. 0 \in T
    <2>1. i + 0 = i /\ 0 \in 0..(n - i) /\ Len(s[i]) \in Nat
      BY <1>1, <1>2
    <2> QED  BY <2>1
  <1>5. ASSUME NEW k \in 0..((n - i) - 1), k \in T PROVE k + 1 \in T
    <2> DEFINE h == i + k
               f == FrameOf(t, h + 1)
    <2>1. h \in 0..n /\ h + 1 \in 1..n /\ h + 1 \in 0..n /\ (h + 1) - 1 = h /\ i + (k + 1) = h + 1
          /\ k + 1 \in 0..(n - i)
      BY <1>1
    <2>2. f \in Seq(Wire) /\ Len(f) \in Nat /\ Len(f) >= 2
      BY <2>1, FrameAt
    <2>3. IsConcat(Wire, s[h], f, s[h + 1])
      <3> DEFINE u == s[h]
      <3>1. u \in Seq(Wire) /\ s[h + 1] = u \o f
        BY <1>2, <1>3, <2>1
      <3> HIDE DEF u, f
      <3>2. IsConcat(Wire, u, f, u \o f)
        BY <2>2, <3>1, ConcatAt
      <3> QED  BY <3>1, <3>2 DEF u
    <2>4. Good(k) /\ Len(s[i]) \in Nat /\ Len(s[h]) \in Nat
      BY <1>2, <1>5, <2>1
    <2> HIDE DEF f, h
    <2>5. Len(s[h + 1]) = Len(s[h]) + Len(f) /\ \A p \in 1..Len(s[h]) : s[h + 1][p] = s[h][p]
      BY <2>3 DEF IsConcat
    <2>6. Len(s[i]) + k <= Len(s[h]) /\ \A p \in 1..Len(s[i]) : s[h][p] = s[i][p]
      BY <2>4 DEF h
    <2>7. Len(s[i]) + (k + 1) <= Len(s[h + 1])
      <3>1. \A x, y, z, q \in Nat : x + q <= y /\ z >= 2 => x + (q + 1) <= y + z
        OBVIOUS
      <3>2. k \in Nat
        BY <1>1
      <3> QED  BY <2>2, <2>4, <2>5, <2>6, <3>1, <3>2, Zenon
    <2>8. ASSUME NEW p \in 1..Len(s[i]) PROVE s[h + 1][p] = s[i][p]
      <3>1. p \in 1..Len(s[h])
        BY <2>4, <2>6
      <3> QED  BY <2>5, <2>6, <3>1
    <2>9. Good(k + 1)
      BY <2>1, <2>7, <2>8
    <2> HIDE DEF Good
    <2> QED  BY <2>1, <2>9
  <1>6. n - i \in Nat /\ j - i \in 0..(n - i) /\ i + (j - i) = j /\ j \in 0..n
    BY <1>1
  <1>7. j - i \in T
    <2> DEFINE m == n - i
    <2> HIDE DEF T, m
    <2>1. m \in Nat /\ \A k \in 0..(m - 1) : k \in T => k + 1 \in T
      BY <1>5, <1>6 DEF m
    <2>2. \A k \in 0..m : k \in T
      BY <1>4, <2>1, UpTo
    <2> QED  BY <1>6, <2>2 DEF m
  <1>8. Len(s[i]) + (j - i) <= Len(s[j]) /\ \A p \in 1..Len(s[i]) : s[j][p] = s[i][p]
    BY <1>6, <1>7
  <1> QED  BY <1>2, <1>6, <1>8 DEF EndOf, s

Whole(t) == Stream(t)[Len(t)]

\* A frame is in the whole stream, after those before it.
LEMMA FrameInStream ==
  ASSUME NEW t \in Sendable, NEW d \in 0..(Len(t) - 1)
  PROVE  /\ Whole(t) \in Seq(Wire)
         /\ EndOf(t, d) \in Nat /\ EndOf(t, d + 1) = EndOf(t, d) + Len(FrameOf(t, d + 1))
         /\ EndOf(t, d + 1) <= Len(Whole(t))
         /\ \A p \in 1..Len(FrameOf(t, d + 1)) : Whole(t)[EndOf(t, d) + p] = FrameOf(t, d + 1)[p]
  <1> DEFINE n == Len(t)
             s == Stream(t)
             f == FrameOf(t, d + 1)
  <1>1. n \in Nat /\ d \in 0..n /\ d + 1 \in 1..n /\ (d + 1) - 1 = d /\ d + 1 \in 0..n /\ n \in 0..n
        /\ n \in (d + 1)..n
    BY DEF Sendable
  <1>2. s[d] \in Seq(Wire) /\ s[n] \in Seq(Wire) /\ s[d + 1] = s[d] \o f
    BY <1>1, StreamSteps
  <1>3. f \in Seq(Wire) /\ Len(f) \in Nat
    BY <1>1, FrameAt
  <1>4. IsConcat(Wire, s[d], f, s[d + 1])
    <2> DEFINE u == s[d]
    <2> HIDE DEF u, f
    <2>1. IsConcat(Wire, u, f, u \o f)
      BY <1>2, <1>3, ConcatAt DEF u
    <2> QED  BY <1>2, <2>1 DEF u
  <1>5. /\ EndOf(t, d + 1) \in Nat /\ EndOf(t, n) \in Nat
        /\ EndOf(t, d + 1) + (n - (d + 1)) <= EndOf(t, n)
        /\ \A p \in 1..EndOf(t, d + 1) : s[n][p] = s[d + 1][p]
    <2> DEFINE c == d + 1
    <2> HIDE DEF c
    <2>1. c \in 0..n /\ n \in c..n
      BY <1>1 DEF c
    <2>2. /\ EndOf(t, c) \in Nat /\ EndOf(t, n) \in Nat /\ EndOf(t, c) + (n - c) <= EndOf(t, n)
          /\ \A p \in 1..EndOf(t, c) : s[n][p] = s[c][p]
      BY <2>1, StreamGrows
    <2> QED  BY <2>2 DEF c
  <1> HIDE DEF s, f
  <1>6. /\ EndOf(t, d) = Len(s[d]) /\ EndOf(t, d + 1) = Len(s[d + 1]) /\ Len(Whole(t)) = EndOf(t, n)
        /\ Whole(t) = s[n]
    BY DEF EndOf, Whole, s
  <1>7. Len(s[d]) \in Nat
    BY <1>2
  <1>8. Len(s[d + 1]) = Len(s[d]) + Len(f) /\ \A p \in 1..Len(f) : s[d + 1][Len(s[d]) + p] = f[p]
    BY <1>4 DEF IsConcat
  <1>9. ASSUME NEW p \in 1..Len(f) PROVE Whole(t)[EndOf(t, d) + p] = f[p]
    <2>1. EndOf(t, d) + p \in 1..EndOf(t, d + 1)
      BY <1>3, <1>6, <1>7, <1>8
    <2>2. s[n][EndOf(t, d) + p] = s[d + 1][EndOf(t, d) + p]
      BY <1>5, <2>1
    <2> QED  BY <1>6, <1>8, <2>2
  <1>10. EndOf(t, d + 1) <= Len(Whole(t))
    <2> DEFINE x == EndOf(t, d + 1)
               y == EndOf(t, n)
    <2> HIDE DEF x, y
    <2>1. x \in Nat /\ y \in Nat /\ x + (n - (d + 1)) <= y
      BY <1>5 DEF x, y
    <2>2. x <= y
      BY <1>1, <2>1
    <2> QED  BY <1>6, <2>2 DEF x, y
  <1> QED  BY <1>2, <1>6, <1>7, <1>8, <1>9, <1>10 DEF f

\* What has arrived, of n bytes, after the first d frames.
Piece(t, d, n) == SubSeq(Whole(t), EndOf(t, d) + 1, n)

LEMMA PieceAt ==
  ASSUME NEW t \in Sendable, NEW d \in 0..Len(t), NEW n \in EndOf(t, d)..Len(Whole(t))
  PROVE  /\ Whole(t) \in Seq(Wire) /\ EndOf(t, d) \in Nat /\ n \in Nat
         /\ IsCut(Wire, Whole(t), EndOf(t, d), n - EndOf(t, d), Piece(t, d, n))
  <1> DEFINE a == EndOf(t, d)
             w == Whole(t)
             k == n - a
  <1>1. w \in Seq(Wire) /\ a \in Nat
    <2>1. Len(t) \in Nat
      BY DEF Sendable
    <2>2. Len(t) \in 0..Len(t)
      BY <2>1
    <2>3. Stream(t)[d] \in Seq(Wire) /\ Stream(t)[Len(t)] \in Seq(Wire)
      BY <2>2, StreamSteps
    <2> QED  BY <2>3 DEF Whole, EndOf
  <1>2. n \in a..Len(w)
    OBVIOUS
  <1> HIDE DEF a, w
  <1>3. n \in Nat /\ k \in Nat /\ a + k <= Len(w) /\ a + k = n
    BY <1>1, <1>2
  <1>4. Piece(t, d, n) = SubSeq(w, a + 1, a + k)
    BY <1>3 DEF Piece, a, w
  <1>5. IsCut(Wire, w, a, k, SubSeq(w, a + 1, a + k))
    <2> HIDE DEF k
    <2> QED  BY <1>1, <1>3, CutAt
  <1> QED  BY <1>1, <1>3, <1>4, <1>5 DEF a, w

\* It starts with the next frame.
LEMMA PieceStarts ==
  ASSUME NEW t \in Sendable, NEW d \in 0..(Len(t) - 1), NEW n \in EndOf(t, d)..Len(Whole(t))
  PROVE  Starts(Piece(t, d, n), FrameOf(t, d + 1))
  <1> DEFINE a == EndOf(t, d)
             w == Whole(t)
             u == Piece(t, d, n)
             f == FrameOf(t, d + 1)
  <1>1. d \in 0..Len(t)
    BY DEF Sendable
  <1>2. a \in Nat /\ n \in Nat /\ IsCut(Wire, w, a, n - a, u)
    BY <1>1, PieceAt
  <1>3. Len(f) \in Nat /\ \A p \in 1..Len(f) : w[a + p] = f[p]
    <2>1. \A p \in 1..Len(f) : w[a + p] = f[p]
      BY FrameInStream
    <2>2. d + 1 \in 1..Len(t)
      BY DEF Sendable
    <2>3. Len(f) \in Nat
      BY <2>2, FrameAt
    <2> QED  BY <2>1, <2>3
  <1> HIDE DEF a, w, u, f
  <1>4. u \in Seq(Wire) /\ Len(u) = n - a /\ \A i \in 1..(n - a) : u[i] = w[a + i]
    BY <1>2 DEF IsCut
  <1>5. ASSUME NEW i \in 1..Len(u), i <= Len(f) PROVE u[i] = f[i]
    <2>1. i \in 1..Len(f) /\ i \in 1..(n - a)
      BY <1>3, <1>4, <1>5
    <2> QED  BY <1>3, <1>4, <2>1
  <1>6. Starts(u, f)
    BY <1>4, <1>5 DEF Starts
  <1> QED  BY <1>6 DEF u, f

-----------------------------------------------------------------------------
(***************************************************************************)
(* The loop.                                                                *)
(***************************************************************************)
LoopState(data, got, closed) == [pending |-> data, handled |-> got, closed |-> closed]

\* Sequences that agree everywhere are the same.
LEMMA SameBytes ==
  ASSUME NEW u \in Seq(Wire), NEW v \in Seq(Wire), Len(u) = Len(v), \A i \in 1..Len(u) : u[i] = v[i]
  PROVE  u = v
  OBVIOUS

\* A frame that is whole is taken, and leaves what follows it.
LEMMA TakesFrame ==
  ASSUME NEW t \in Sendable, NEW d \in 0..(Len(t) - 1),
         NEW n \in EndOf(t, d + 1)..Len(Whole(t)), NEW got
  PROVE  Take(LoopState(Piece(t, d, n), got, FALSE)) =
           LoopState(Piece(t, d + 1, n),
                     IF t[d + 1].opcode = 1 /\ t[d + 1].payload # <<>>
                     THEN Append(got, t[d + 1].payload) ELSE got,
                     t[d + 1].opcode = 8)
  <1> DEFINE a == EndOf(t, d)
             b == EndOf(t, d + 1)
             w == Whole(t)
             u == Piece(t, d, n)
             v == Piece(t, d + 1, n)
             f == FrameOf(t, d + 1)
             o == t[d + 1].opcode
             p == t[d + 1].payload
  <1>1. d \in 0..Len(t) /\ d + 1 \in 1..Len(t) /\ d + 1 \in 0..Len(t)
    BY DEF Sendable
  <1>2. /\ w \in Seq(Wire) /\ a \in Nat /\ b = a + Len(f) /\ b <= Len(w)
        /\ \A i \in 1..Len(f) : w[a + i] = f[i]
    BY FrameInStream
  <1>3. /\ o \in 0..15 /\ t[d + 1].mask \in Masks /\ p \in Payloads
        /\ f \in Seq(Wire) /\ Len(f) \in Nat /\ Len(f) >= 2 /\ f[1].opcode = o
    BY <1>1, FrameAt
  <1>4. n \in a..Len(w)
    <2>1. n \in b..Len(w)
      OBVIOUS
    <2> HIDE DEF a, b, w, f
    <2> QED  BY <1>2, <1>3, <2>1
  <1>5. Starts(u, f)
    <2> HIDE DEF f, u
    <2> QED  BY <1>4, PieceStarts DEF f, u
  <1>6. IsCut(Wire, w, a, n - a, u)
    BY <1>1, <1>4, PieceAt
  <1>7. IsCut(Wire, w, b, n - b, v) /\ n \in Nat
    <2> DEFINE c == d + 1
    <2>1. c \in 0..Len(t) /\ n \in EndOf(t, c)..Len(Whole(t))
      BY <1>1
    <2> HIDE DEF c
    <2>2. n \in Nat /\ IsCut(Wire, Whole(t), EndOf(t, c), n - EndOf(t, c), Piece(t, c, n))
      BY <2>1, PieceAt
    <2> QED  BY <2>2 DEF c
  <1>8. n \in b..Len(w)
    OBVIOUS
  <1>9. f = Frame(o, t[d + 1].mask, p)
    BY DEF FrameOf
  <1>10. (Len(u) >= Len(f) => CompleteFrameSize(u) = Len(f))
    <2> DEFINE m == t[d + 1].mask
    <2> HIDE DEF u, o, p, m, f
    <2>1. Starts(u, Frame(o, m, p))
      BY <1>5, <1>9 DEF m
    <2>2. m \in Masks
      BY <1>3 DEF m
    <2>3. Len(u) >= Len(Frame(o, m, p)) => CompleteFrameSize(u) = Len(Frame(o, m, p))
      BY <1>3, <2>1, <2>2, FrameSize
    <2> QED  BY <1>9, <2>3 DEF m
  <1>11. ParseWebSocketFrame(f) = IF o = 1 THEN p ELSE <<>>
    <2> DEFINE m == t[d + 1].mask
    <2> HIDE DEF o, p, m, f
    <2>1. m \in Masks
      BY <1>3 DEF m
    <2>2. ParseWebSocketFrame(Frame(o, m, p)) = IF o = 1 THEN p ELSE <<>>
      BY <1>3, <2>1, FrameParsed
    <2> QED  BY <1>9, <2>2 DEF m
  <1> HIDE DEF a, b, w, u, v, f, o, p
  <1>12. u \in Seq(Wire) /\ Len(u) = n - a /\ \A i \in 1..(n - a) : u[i] = w[a + i]
    BY <1>6 DEF IsCut
  <1>13. v \in Seq(Wire) /\ Len(v) = n - b /\ \A i \in 1..(n - b) : v[i] = w[b + i]
    BY <1>7 DEF IsCut
  <1>14. Len(u) \in Nat /\ Len(u) >= Len(f) /\ CompleteFrameSize(u) = Len(f) /\ b \in Nat
    <2>1. Len(u) \in Nat /\ Len(u) >= Len(f) /\ b \in Nat
      BY <1>2, <1>3, <1>7, <1>8, <1>12
    <2> QED  BY <1>10, <2>1
  <1>15. SubSeq(u, 1, Len(f)) = f
    <2> DEFINE x == SubSeq(u, 1, Len(f))
               k == Len(f)
    <2>1. x = SubSeq(u, 0 + 1, 0 + k) /\ 0 \in Nat /\ k \in Nat /\ 0 + k <= Len(u)
      BY <1>3, <1>14
    <2> HIDE DEF x, k
    <2>2. IsCut(Wire, u, 0, k, x)
      BY <1>12, <2>1, CutAt
    <2>3. x \in Seq(Wire) /\ Len(x) = Len(f) /\ \A i \in 1..Len(f) : x[i] = u[0 + i]
      BY <2>2 DEF IsCut, k
    <2>4. ASSUME NEW i \in 1..Len(x) PROVE x[i] = f[i]
      <3>1. i \in 1..Len(f) /\ 0 + i = i /\ i \in 1..Len(u)
        BY <1>3, <1>14, <2>3
      <3>2. u[i] = f[i]
        BY <1>3, <1>5, <3>1 DEF Starts
      <3> QED  BY <2>3, <3>1, <3>2
    <2>5. x = f
      BY <1>3, <2>3, <2>4, SameBytes
    <2> QED  BY <2>5 DEF x
  <1>16. SubSeq(u, Len(f) + 1, Len(u)) = v
    <2> DEFINE k == Len(f)
               m == Len(u) - Len(f)
               x == SubSeq(u, k + 1, k + m)
    <2>1. k \in Nat /\ m \in Nat /\ k + m = Len(u)
      BY <1>3, <1>14
    <2> HIDE DEF k, m
    <2>2. IsCut(Wire, u, k, m, x)
      BY <1>12, <2>1, CutAt
    <2> HIDE DEF x
    <2>3. x \in Seq(Wire) /\ Len(x) = m /\ \A i \in 1..m : x[i] = u[k + i]
      BY <2>2 DEF IsCut
    <2>4. m = n - b
      BY <1>2, <1>3, <1>7, <1>12, <1>14 DEF m
    <2>5. ASSUME NEW i \in 1..Len(x) PROVE x[i] = v[i]
      <3>1. i \in 1..m /\ i \in 1..(n - b) /\ k + i \in 1..(n - a) /\ a + (k + i) = b + i
        BY <1>2, <1>3, <1>7, <1>12, <2>1, <2>3, <2>4 DEF k
      <3> QED  BY <1>12, <1>13, <2>3, <3>1
    <2>6. x = v
      BY <1>13, <2>3, <2>4, <2>5, SameBytes
    <2> QED  BY <2>1, <2>6 DEF x, k
  <1>17. /\ LoopState(u, got, FALSE).pending = u /\ LoopState(u, got, FALSE).handled = got
         /\ LoopState(u, got, FALSE).closed = FALSE
    BY DEF LoopState
  <1>18. Take(LoopState(u, got, FALSE)) =
           [pending |-> v,
            handled |-> IF o = 8 \/ (IF o = 1 THEN p ELSE <<>>) = <<>> THEN got
                        ELSE Append(got, IF o = 1 THEN p ELSE <<>>),
            closed |-> o = 8]
    <2> DEFINE s == LoopState(u, got, FALSE)
               size == CompleteFrameSize(s.pending)
               first == SubSeq(s.pending, 1, size)
               message == ParseWebSocketFrame(first)
    <2>1. size = Len(f) /\ first = f /\ message = IF o = 1 THEN p ELSE <<>>
      BY <1>11, <1>14, <1>15, <1>17
    <2>2. s.pending = u /\ s.handled = got /\ s.closed = FALSE
      BY <1>17
    <2>3. Take(s) = IF s.closed \/ size = 0 \/ size > Len(s.pending) THEN s
                    ELSE [pending |-> SubSeq(s.pending, size + 1, Len(s.pending)),
                          handled |-> IF first[1].opcode = 8 \/ message = <<>> THEN s.handled
                                      ELSE Append(s.handled, message),
                          closed  |-> first[1].opcode = 8]
      BY DEF Take
    <2> HIDE DEF s, size, first, message
    <2>4. ~(s.closed \/ size = 0 \/ size > Len(s.pending))
      BY <1>3, <1>14, <2>1, <2>2
    <2>5. first[1].opcode = o
      BY <1>3, <2>1
    <2> QED  BY <1>16, <2>1, <2>2, <2>3, <2>4, <2>5 DEF s
  <1>19. (IF o = 8 \/ (IF o = 1 THEN p ELSE <<>>) = <<>> THEN got
          ELSE Append(got, IF o = 1 THEN p ELSE <<>>))
         = IF o = 1 /\ p # <<>> THEN Append(got, p) ELSE got
    <2>1. o = 1 => o # 8
      OBVIOUS
    <2> QED  BY <2>1
  <1> QED  BY <1>18, <1>19 DEF LoopState, u, v, o, p

\* A frame that is not whole is left, and so is everything once the client has
\* closed.
LEMMA TakesNothing ==
  ASSUME NEW t \in Sendable, NEW d \in 0..Len(t), NEW n \in EndOf(t, d)..Len(Whole(t)), NEW got,
         d = Len(t) \/ n < EndOf(t, d + 1)
  PROVE  Take(LoopState(Piece(t, d, n), got, FALSE)) = LoopState(Piece(t, d, n), got, FALSE)
  <1> DEFINE a == EndOf(t, d)
             u == Piece(t, d, n)
             s == LoopState(u, got, FALSE)
  <1>1. Len(t) \in Nat
    BY DEF Sendable
  <1>2. a \in Nat /\ n \in Nat /\ n \in a..Len(Whole(t)) /\ u \in Seq(Wire) /\ Len(u) = n - a
    <2>1. a \in Nat /\ n \in Nat /\ IsCut(Wire, Whole(t), a, n - a, u)
      BY PieceAt
    <2> HIDE DEF a, u
    <2> QED  BY <2>1 DEF IsCut, a
  <1>3. CompleteFrameSize(u) = 0 \/ CompleteFrameSize(u) > Len(u)
    <2>1. CASE d = Len(t)
      <3>1. a = Len(Whole(t))
        BY <2>1 DEF EndOf, Whole
      <3> HIDE DEF a, u
      <3>2. Len(u) = 0
        BY <1>2, <3>1
      <3>3. Header(u).size = 0
        BY <3>2 DEF Header
      <3> QED  BY <3>3 DEF CompleteFrameSize
    <2>2. CASE d # Len(t)
      <3>1. d \in 0..(Len(t) - 1) /\ d + 1 \in 1..Len(t)
        BY <1>1, <2>2
      <3> DEFINE f == FrameOf(t, d + 1)
                 o == t[d + 1].opcode
                 m == t[d + 1].mask
                 p == t[d + 1].payload
      <3>2. o \in 0..15 /\ m \in Masks /\ p \in Payloads /\ Len(f) \in Nat /\ f = Frame(o, m, p)
        BY <3>1, FrameAt DEF FrameOf
      <3>3. Starts(u, f)
        <4> HIDE DEF u, f
        <4> QED  BY <3>1, PieceStarts DEF u, f
      <3>4. EndOf(t, d + 1) = a + Len(f)
        BY <3>1, FrameInStream
      <3>5. n < EndOf(t, d + 1)
        BY <2>2
      <3> HIDE DEF f, o, m, p, u, a
      <3>6. CompleteFrameSize(u) \in {0, Len(f)}
        BY <3>2, <3>3, FrameSize
      <3>7. Len(f) > Len(u)
        BY <1>2, <3>2, <3>4, <3>5
      <3> QED  BY <3>6, <3>7
    <2> QED  BY <2>1, <2>2
  <1>4. s.pending = u
    BY DEF LoopState
  <1> HIDE DEF u, s
  <1>5. Take(s) = s
    BY <1>3, <1>4 DEF Take
  <1> QED  BY <1>5 DEF s, u

LEMMA TakesNoMore ==
  ASSUME NEW data, NEW got
  PROVE  Take(LoopState(data, got, TRUE)) = LoopState(data, got, TRUE)
  <1> DEFINE s == LoopState(data, got, TRUE)
  <1>1. s.closed
    BY DEF LoopState
  <1> HIDE DEF s
  <1>2. Take(s) = s
    BY <1>1 DEF Take
  <1> QED  BY <1>2 DEF s

-----------------------------------------------------------------------------
(***************************************************************************)
(* What is due.                                                             *)
(***************************************************************************)

\* The same frames make the same messages due, whatever else has arrived.
LEMMA DueSame ==
  ASSUME NEW t \in Sendable, NEW a, NEW b, NEW d \in 0..Len(t),
         \A i \in 1..d : Counts(t, a, i) <=> Counts(t, b, i)
  PROVE  Due(t, a)[d] = Due(t, b)[d]
  <1> DEFINE f == Due(t, a)
             g == Due(t, b)
             Add(c, x, i) == IF Counts(t, c, i) THEN Append(x, t[i].payload) ELSE x
  <1>1. d \in Nat /\ \A i \in 1..d : i \in 1..Len(t)
    BY DEF Sendable
  <1>2. f[0] = <<>> /\ \A i \in 1..Len(t) : f[i] = Add(a, f[i - 1], i)
    BY DueSteps
  <1>3. g[0] = <<>> /\ \A i \in 1..Len(t) : g[i] = Add(b, g[i - 1], i)
    BY DueSteps
  <1>4. \A i \in 1..d : \A x : Add(a, x, i) = Add(b, x, i)
    OBVIOUS
  <1> HIDE DEF f, g, Add
  <1>5. GoesAlike(d, f, g)
    BY <1>1, <1>2, <1>3, <1>4 DEF GoesAlike
  <1>6. Alike(d, f, g)
    BY <1>1, <1>5, SameUpTo
  <1> QED  BY <1>1, <1>6 DEF Alike, f, g

\* Frames that do not count add nothing.
LEMMA DueStays ==
  ASSUME NEW t \in Sendable, NEW a, NEW d \in 0..Len(t), NEW e \in d..Len(t),
         \A i \in (d + 1)..e : ~Counts(t, a, i)
  PROVE  Due(t, a)[e] = Due(t, a)[d]
  <1> DEFINE D == Due(t, a)
             n == e - d
             f == [k \in 0..n |-> D[d + k]]
             g == [k \in 0..n |-> D[d]]
  <1>1. n \in Nat /\ d + n = e /\ Len(t) \in Nat /\ d + 0 = d
    BY DEF Sendable
  <1>2. ASSUME NEW i \in 1..Len(t), ~Counts(t, a, i) PROVE D[i] = D[i - 1]
    BY <1>2, DueSteps
  <1> HIDE DEF D
  <1>3. f[0] = g[0]
    BY <1>1
  <1>4. ASSUME NEW k \in 1..n PROVE f[k] = f[k - 1]
    <2>1. d + k \in (d + 1)..e /\ d + k \in 1..Len(t) /\ (d + k) - 1 = d + (k - 1)
          /\ k \in 0..n /\ k - 1 \in 0..n
      BY <1>1
    <2>2. D[d + k] = D[(d + k) - 1]
      BY <1>2, <2>1
    <2> QED  BY <2>1, <2>2
  <1>5. \A k \in 1..n : g[k] = g[k - 1]
    <2> SUFFICES ASSUME NEW k \in 1..n PROVE g[k] = g[k - 1]
      OBVIOUS
    <2>1. k \in 0..n /\ k - 1 \in 0..n
      BY <1>1
    <2> QED  BY <2>1
  <1>6. f[n] = D[e] /\ g[n] = D[d]
    <2>1. n \in 0..n
      BY <1>1
    <2> QED  BY <1>1, <2>1
  <1> HIDE DEF f, g, n
  <1>7. GoesAlike(n, f, g)
    BY <1>3, <1>4, <1>5 DEF GoesAlike
  <1>8. Alike(n, f, g)
    BY <1>1, <1>7, SameUpTo
  <1>9. f[n] = g[n]
    BY <1>1, <1>8 DEF Alike
  <1> QED  BY <1>6, <1>9 DEF D

\* Of a set of numbers up to n there is a largest one.
LEMMA LargestOf ==
  ASSUME NEW n \in Nat, NEW X, X \subseteq 0..n, X # {}
  PROVE  \E m \in X : \A k \in X : k <= m
  <1> DEFINE T == {j \in 0..n : (\E k \in X : k <= j) => \E m \in X : \A k \in X : k <= j => k <= m}
  <1>1. 0 \in T
    <2>1. 0 \in 0..n
      OBVIOUS
    <2>2. ASSUME NEW c \in X, c <= 0 PROVE \A k \in X : k <= 0 => k <= c
      <3>1. \A k \in X : k \in Nat
        OBVIOUS
      <3> QED  BY <2>2, <3>1
    <2> QED  BY <2>1, <2>2
  <1>2. ASSUME NEW j \in 0..(n - 1), j \in T PROVE j + 1 \in T
    <2>1. j + 1 \in 0..n /\ \A k \in X : k \in Nat /\ (k <= j + 1 <=> k <= j \/ k = j + 1)
      OBVIOUS
    <2>2. CASE j + 1 \in X
      <3>1. \A k \in X : k <= j + 1 => k <= j + 1
        OBVIOUS
      <3> QED  BY <2>1, <2>2, <3>1
    <2>3. CASE j + 1 \notin X
      <3>1. \A k \in X : k <= j + 1 <=> k <= j
        BY <2>1, <2>3
      <3>2. (\E k \in X : k <= j) => \E m \in X : \A k \in X : k <= j => k <= m
        BY <1>2
      <3> QED  BY <2>1, <3>1, <3>2
    <2> QED  BY <2>2, <2>3
  <1>3. n \in T
    <2> HIDE DEF T
    <2>1. \A j \in 0..n : j \in T
      BY <1>1, <1>2, UpTo
    <2> QED  BY <2>1
  <1>4. \A k \in X : k <= n
    OBVIOUS
  <1> QED  BY <1>3, <1>4

-----------------------------------------------------------------------------
(***************************************************************************)
(* All the rounds of the loop.                                              *)
(***************************************************************************)

\* From d frames on, with n bytes there, the loop stops after e frames.
Ready(t, d, n) == /\ t \in Sendable /\ d \in 0..Len(t)
                  /\ n \in EndOf(t, d)..Len(Whole(t))
                  /\ \A j \in 1..d : t[j].opcode # 8

StopsAt(t, d, n, e) == /\ e \in d..Len(t) /\ EndOf(t, e) <= n
                       /\ \A j \in (d + 1)..(e - 1) : t[j].opcode # 8
                       /\ \/ e > d /\ t[e].opcode = 8
                          \/ e = Len(t)
                          \/ n < EndOf(t, e + 1)

LEMMA Stops ==
  ASSUME NEW t, NEW d, NEW n, Ready(t, d, n)
  PROVE  \E e : StopsAt(t, d, n, e)
  <1> DEFINE N == Len(t)
             X == {i \in d..N : EndOf(t, i) <= n /\ \A j \in (d + 1)..(i - 1) : t[j].opcode # 8}
  <1>1. N \in Nat /\ d \in 0..N /\ EndOf(t, d) \in Nat /\ n \in EndOf(t, d)..Len(Whole(t)) /\ t \in Sendable
    <2>1. d \in 0..Len(t) /\ n \in EndOf(t, d)..Len(Whole(t)) /\ t \in Sendable
      BY DEF Ready
    <2>2. EndOf(t, d) \in Nat
      BY <2>1, PieceAt
    <2> QED  BY <2>1, <2>2 DEF Sendable
  <1> HIDE DEF N
  <1>2. d \in X
    BY <1>1
  <1>3. PICK e \in X : \A k \in X : k <= e
    <2>1. X \subseteq 0..N /\ X # {}
      BY <1>1, <1>2
    <2> HIDE DEF X
    <2> QED  BY <1>1, <2>1, LargestOf
  <1>4. e \in d..N /\ EndOf(t, e) <= n /\ \A j \in (d + 1)..(e - 1) : t[j].opcode # 8
    BY <1>3
  <1>5. (e > d /\ t[e].opcode = 8) \/ e = N \/ n < EndOf(t, e + 1)
    <2> SUFFICES ASSUME ~(e > d /\ t[e].opcode = 8), e # N, ~(n < EndOf(t, e + 1)) PROVE FALSE
      OBVIOUS
    <2>1. e \in Nat /\ e + 1 \in d..N /\ e \in 0..(Len(t) - 1)
      BY <1>1, <1>4 DEF N
    <2>2. EndOf(t, e + 1) \in Nat
      <3> DEFINE c == e + 1
      <3>1. c \in 0..Len(t) /\ Len(t) \in c..Len(t)
        BY <1>1, <2>1 DEF N
      <3> HIDE DEF c
      <3>2. EndOf(t, c) \in Nat
        BY <1>1, <3>1, StreamGrows
      <3> QED  BY <3>2 DEF c
    <2>3. EndOf(t, e + 1) <= n
      BY <1>1, <2>2
    <2>4. ASSUME NEW j \in (d + 1)..((e + 1) - 1) PROVE t[j].opcode # 8
      <3>1. j \in (d + 1)..(e - 1) \/ (j = e /\ e > d)
        BY <1>1, <2>1
      <3> QED  BY <1>4, <3>1
    <2>5. e + 1 \in X
      BY <2>1, <2>3, <2>4
    <2> QED  BY <1>3, <2>1, <2>5
  <1> QED  BY <1>4, <1>5 DEF StopsAt, N

\* The loop after m frames.
After(t, d, n, m) ==
  LoopState(Piece(t, m, n), Due(t, n)[m], m > d /\ t[m].opcode = 8)

\* One round, before the end ...
LEMMA GoesOn ==
  ASSUME NEW t, NEW d, NEW n, NEW e, Ready(t, d, n), StopsAt(t, d, n, e), NEW m \in d..(e - 1)
  PROVE  Take(After(t, d, n, m)) = After(t, d, n, m + 1)
  <1>1. /\ t \in Sendable /\ d \in 0..Len(t) /\ Len(t) \in Nat /\ e \in d..Len(t)
        /\ n \in EndOf(t, d)..Len(Whole(t)) /\ EndOf(t, e) <= n
        /\ \A j \in 1..d : t[j].opcode # 8
        /\ \A j \in (d + 1)..(e - 1) : t[j].opcode # 8
    BY DEF Ready, StopsAt, Sendable
  <1>2. m \in 0..(Len(t) - 1) /\ m + 1 \in 1..Len(t) /\ m + 1 \in 0..Len(t) /\ e \in (m + 1)..Len(t)
        /\ (m + 1) - 1 = m /\ m + 1 > d /\ m \in Nat /\ d \in Nat
    BY <1>1
  <1>3. n \in EndOf(t, m + 1)..Len(Whole(t)) /\ EndOf(t, m + 1) <= n
    <2> DEFINE c == m + 1
    <2>1. c \in 0..Len(t) /\ e \in c..Len(t)
      BY <1>2
    <2> HIDE DEF c
    <2>2. EndOf(t, c) \in Nat /\ EndOf(t, e) \in Nat /\ EndOf(t, c) + (e - c) <= EndOf(t, e)
      BY <1>1, <2>1, StreamGrows
    <2>3. EndOf(t, d) \in Nat
      BY <1>1, PieceAt
    <2>4. EndOf(t, c) <= EndOf(t, e)
      <3>1. \A x, y, z \in Nat : x + z <= y => x <= y
        OBVIOUS
      <3>2. e - c \in Nat
        BY <1>1, <2>1
      <3> QED  BY <2>2, <3>1, <3>2
    <2>5. n \in Int /\ n <= Len(Whole(t)) /\ EndOf(t, c) <= n
      BY <1>1, <2>2, <2>3, <2>4
    <2> QED  BY <2>2, <2>5 DEF c
  <1>4. ~(m > d /\ t[m].opcode = 8)
    <2>1. m > d => m \in (d + 1)..(e - 1)
      BY <1>1
    <2> QED  BY <1>1, <2>1
  <1>5. \A j \in 1..((m + 1) - 1) : t[j].opcode # 8
    <2> SUFFICES ASSUME NEW j \in 1..((m + 1) - 1) PROVE t[j].opcode # 8
      OBVIOUS
    <2>1. j \in 1..d \/ j \in (d + 1)..(e - 1)
      BY <1>1, <1>2
    <2> QED  BY <1>1, <2>1
  <1>6. Counts(t, n, m + 1) <=> t[m + 1].opcode = 1 /\ t[m + 1].payload # <<>>
    BY <1>3, <1>5 DEF Counts, EndOf
  <1>7. Due(t, n)[m + 1] = IF Counts(t, n, m + 1) THEN Append(Due(t, n)[m], t[m + 1].payload)
                           ELSE Due(t, n)[m]
    <2> DEFINE c == m + 1
    <2>1. c \in 1..Len(t)
      BY <1>2
    <2> HIDE DEF c
    <2>2. Due(t, n)[c] = IF Counts(t, n, c) THEN Append(Due(t, n)[c - 1], t[c].payload)
                         ELSE Due(t, n)[c - 1]
      BY <1>1, <2>1, DueSteps
    <2> QED  BY <1>2, <2>2 DEF c
  <1>8. After(t, d, n, m) = LoopState(Piece(t, m, n), Due(t, n)[m], FALSE)
    BY <1>4 DEF After
  <1> DEFINE got == Due(t, n)[m]
  <1>9. Take(LoopState(Piece(t, m, n), got, FALSE)) =
           LoopState(Piece(t, m + 1, n),
                     IF t[m + 1].opcode = 1 /\ t[m + 1].payload # <<>>
                     THEN Append(got, t[m + 1].payload) ELSE got,
                     t[m + 1].opcode = 8)
    <2> HIDE DEF got
    <2> QED  BY <1>1, <1>2, <1>3, TakesFrame
  <1>10. (m + 1 > d /\ t[m + 1].opcode = 8) = (t[m + 1].opcode = 8)
    BY <1>2
  <1> QED  BY <1>6, <1>7, <1>8, <1>9, <1>10 DEF After

\* ... and at the end.
LEMMA StandsStill ==
  ASSUME NEW t, NEW d, NEW n, NEW e, Ready(t, d, n), StopsAt(t, d, n, e)
  PROVE  Take(After(t, d, n, e)) = After(t, d, n, e)
  <1>1. /\ t \in Sendable /\ d \in 0..Len(t) /\ Len(t) \in Nat /\ e \in d..Len(t)
        /\ n \in EndOf(t, d)..Len(Whole(t)) /\ EndOf(t, e) <= n
    BY DEF Ready, StopsAt, Sendable
  <1> DEFINE got == Due(t, n)[e]
  <1>2. CASE e > d /\ t[e].opcode = 8
    <2>1. After(t, d, n, e) = LoopState(Piece(t, e, n), got, TRUE)
      BY <1>2 DEF After
    <2> HIDE DEF got
    <2>2. Take(LoopState(Piece(t, e, n), got, TRUE)) = LoopState(Piece(t, e, n), got, TRUE)
      BY TakesNoMore
    <2> QED  BY <2>1, <2>2
  <1>3. CASE ~(e > d /\ t[e].opcode = 8)
    <2>1. After(t, d, n, e) = LoopState(Piece(t, e, n), got, FALSE)
      BY <1>3 DEF After
    <2>2. e = Len(t) \/ n < EndOf(t, e + 1)
      BY <1>3 DEF StopsAt
    <2>3. e \in 0..Len(t) /\ n \in EndOf(t, e)..Len(Whole(t))
      <3>1. e \in 0..Len(t)
        BY <1>1
      <3>2. EndOf(t, e) \in Nat /\ EndOf(t, d) \in Nat
        BY <1>1, StreamGrows
      <3> QED  BY <1>1, <3>1, <3>2
    <2> HIDE DEF got
    <2>4. Take(LoopState(Piece(t, e, n), got, FALSE)) = LoopState(Piece(t, e, n), got, FALSE)
      BY <1>1, <2>2, <2>3, TakesNothing
    <2> QED  BY <2>1, <2>4
  <1> QED  BY <1>2, <1>3

\* The loop takes e - d frames and stops there.
LEMMA Drains ==
  ASSUME NEW t, NEW d, NEW n, NEW e, Ready(t, d, n), StopsAt(t, d, n, e)
  PROVE  Drain(Piece(t, d, n), Due(t, n)[d]) = After(t, d, n, e)
  <1> DEFINE data == Piece(t, d, n)
             got == Due(t, n)[d]
             K == Len(data)
             M(k) == IF d + k <= e THEN d + k ELSE e
             g == [k \in 0..K |-> After(t, d, n, M(k))]
             G(f) == [k \in 0..K |-> IF k = 0 THEN [pending |-> data, handled |-> got, closed |-> FALSE]
                                     ELSE Take(f[k - 1])]
             R == CHOOSE f : f = G(f)
  <1>1. /\ t \in Sendable /\ d \in 0..Len(t) /\ Len(t) \in Nat /\ e \in d..Len(t)
        /\ n \in EndOf(t, d)..Len(Whole(t)) /\ EndOf(t, e) <= n
    BY DEF Ready, StopsAt, Sendable
  <1>2. K \in Nat /\ e - d \in Nat /\ e - d <= K
    <2>1. EndOf(t, d) \in Nat /\ n \in Nat /\ IsCut(Wire, Whole(t), EndOf(t, d), n - EndOf(t, d), data)
      BY <1>1, PieceAt
    <2> HIDE DEF data
    <2>2. K = n - EndOf(t, d)
      BY <2>1 DEF IsCut
    <2>3. EndOf(t, e) \in Nat /\ EndOf(t, d) + (e - d) <= EndOf(t, e)
      BY <1>1, StreamGrows
    <2> HIDE DEF K
    <2> QED  BY <1>1, <2>1, <2>2, <2>3
  <1>3. Drain(data, got) = R[K]
    BY DEF Drain
  <1>4. After(t, d, n, d) = [pending |-> data, handled |-> got, closed |-> FALSE]
    <2>1. ~(d > d)
      BY <1>1
    <2> QED  BY <2>1 DEF After, LoopState
  <1> DEFINE Z == [pending |-> data, handled |-> got, closed |-> FALSE]
  <1> HIDE DEF data, got, K, Z
  <1>5. g[0] = Z
    <2>1. M(0) = d /\ 0 \in 0..K
      BY <1>1, <1>2
    <2> HIDE DEF M
    <2> QED  BY <1>4, <2>1 DEF Z
  <1>6. ASSUME NEW k \in 1..K PROVE g[k] = Take(g[k - 1])
    <2>1. k \in 0..K /\ k - 1 \in 0..K
      BY <1>2
    <2>2. Take(After(t, d, n, M(k - 1))) = After(t, d, n, M(k))
      <3>1. CASE d + k <= e
        <4> DEFINE m == d + (k - 1)
        <4>1. M(k - 1) = m /\ M(k) = m + 1 /\ m \in d..(e - 1)
          BY <1>1, <1>2, <3>1
        <4> HIDE DEF M, m
        <4>2. Take(After(t, d, n, m)) = After(t, d, n, m + 1)
          BY <4>1, GoesOn
        <4> QED  BY <4>1, <4>2
      <3>2. CASE ~(d + k <= e)
        <4>1. M(k - 1) = e /\ M(k) = e
          BY <1>1, <1>2, <3>2
        <4> HIDE DEF M
        <4>2. Take(After(t, d, n, e)) = After(t, d, n, e)
          BY StandsStill
        <4> QED  BY <4>1, <4>2
      <3> QED  BY <3>1, <3>2
    <2> HIDE DEF M
    <2> QED  BY <2>1, <2>2
  <1>7. g[K] = After(t, d, n, e)
    <2>1. K \in 0..K /\ M(K) = e
      BY <1>1, <1>2
    <2> HIDE DEF M
    <2> QED  BY <2>1
  <1>8. DOMAIN g = 0..K /\ g = [k \in 0..K |-> g[k]]
    OBVIOUS
  <1> HIDE DEF g
  <1>9. g = G(g)
    <2>1. \A k \in 0..K : g[k] = G(g)[k]
      <3> SUFFICES ASSUME NEW k \in 0..K PROVE g[k] = G(g)[k]
        OBVIOUS
      <3>1. CASE k = 0
        BY <1>5, <3>1 DEF Z
      <3>2. CASE k # 0
        <4>1. k \in 1..K
          BY <1>2, <3>2
        <4> QED  BY <1>6, <3>2, <4>1
      <3> QED  BY <3>1, <3>2
    <2>2. G(g) = [k \in 0..K |-> G(g)[k]]
      OBVIOUS
    <2> HIDE DEF G
    <2> QED  BY <1>8, <2>1, <2>2
  <1>10. R = G(R)
    <2> HIDE DEF G
    <2> QED  BY <1>9
  <1> HIDE DEF R
  <1>11. R[0] = Z /\ \A k \in 1..K : R[k] = Take(R[k - 1])
    <2>1. 0 \in 0..K /\ \A k \in 1..K : k \in 0..K /\ k # 0
      BY <1>2
    <2> QED  BY <1>10, <2>1 DEF Z
  <1>12. GoesAlike(K, R, g)
    BY <1>5, <1>6, <1>11 DEF GoesAlike
  <1>13. Alike(K, R, g)
    BY <1>2, <1>12, SameUpTo
  <1>14. R[K] = g[K]
    BY <1>2, <1>13 DEF Alike
  <1> QED  BY <1>3, <1>7, <1>14 DEF data, got

-----------------------------------------------------------------------------
(***************************************************************************)
(* The theorems.                                                            *)
(***************************************************************************)

\* After d frames, of which none was a close frame, the receive loop waits for the
\* rest of the next one: the bytes it keeps are those that follow the d frames.
Waiting(t, n, data, got, d) ==
  /\ d \in 0..Len(t)
  /\ n \in EndOf(t, d)..Len(Whole(t))
  /\ \A j \in 1..d : t[j].opcode # 8
  /\ d = Len(t) \/ n < EndOf(t, d + 1)
  /\ data = Piece(t, d, n)
  /\ got = Due(t, n)[d]

FrameInv ==
  /\ traffic \in Traffic
  /\ arrived \in Nat
  /\ client_state \in {"open", "closed", "dropped"}
  /\ client_state # "closed" => \E d : Waiting(traffic, arrived, pending, handled, d)
  /\ client_state = "closed" => handled = Due(traffic, arrived)[Len(traffic)]

\* Where the loop waits, no later frame is due.
LEMMA WaitingDue ==
  ASSUME NEW t \in Sendable, NEW n \in Nat, NEW data, NEW got, NEW d, Waiting(t, n, data, got, d)
  PROVE  got = Due(t, n)[Len(t)]
  <1>1. Len(t) \in Nat /\ d \in 0..Len(t) /\ Len(t) \in d..Len(t)
    BY DEF Waiting, Sendable
  <1>2. ASSUME NEW i \in (d + 1)..Len(t) PROVE ~Counts(t, n, i)
    <2>1. d + 1 \in 0..Len(t) /\ i \in (d + 1)..Len(t) /\ d # Len(t) /\ i - (d + 1) \in Nat
      BY <1>1
    <2> DEFINE c == d + 1
    <2> HIDE DEF c
    <2>2. EndOf(t, c) \in Nat /\ EndOf(t, i) \in Nat /\ EndOf(t, c) + (i - c) <= EndOf(t, i)
      BY <2>1, StreamGrows DEF c
    <2>3. n < EndOf(t, c)
      BY <2>1 DEF Waiting, c
    <2>4. ~(EndOf(t, i) <= n)
      <3>1. \A x, y, z \in Nat : x + z <= y /\ n < x => ~(y <= n)
        OBVIOUS
      <3>2. i - c \in Nat
        BY <2>1 DEF c
      <3> QED  BY <2>2, <2>3, <3>1, <3>2
    <2> QED  BY <2>4 DEF Counts, EndOf
  <1>3. Due(t, n)[Len(t)] = Due(t, n)[d]
    BY <1>1, <1>2, DueStays
  <1> QED  BY <1>3 DEF Waiting

\* What arrives is added to what is kept.
LEMMA PieceGrows ==
  ASSUME NEW t \in Sendable, NEW d \in 0..Len(t), NEW n \in EndOf(t, d)..Len(Whole(t)), NEW k \in Nat,
         n + k <= Len(Whole(t))
  PROVE  Piece(t, d, n) \o SubSeq(Whole(t), n + 1, n + k) = Piece(t, d, n + k)
  <1> DEFINE w == Whole(t)
             a == EndOf(t, d)
             u == Piece(t, d, n)
             v == SubSeq(w, n + 1, n + k)
             x == Piece(t, d, n + k)
  <1>1. w \in Seq(Wire) /\ a \in Nat /\ n \in Nat /\ IsCut(Wire, w, a, n - a, u)
    BY PieceAt
  <1>2. n \in a..Len(w) /\ n + k <= Len(w)
    OBVIOUS
  <1>3. IsCut(Wire, w, a, (n + k) - a, x)
    <2> DEFINE m == n + k
    <2>1. m \in EndOf(t, d)..Len(Whole(t))
      BY <1>1, <1>2
    <2> HIDE DEF m
    <2>2. IsCut(Wire, Whole(t), EndOf(t, d), m - EndOf(t, d), Piece(t, d, m))
      BY <2>1, PieceAt
    <2> QED  BY <2>2 DEF m
  <1> HIDE DEF w, a, u, x
  <1>4. IsCut(Wire, w, n, k, v)
    BY <1>1, <1>2, CutAt
  <1> HIDE DEF v
  <1>5. IsConcat(Wire, u, v, u \o v)
    <2>1. u \in Seq(Wire) /\ v \in Seq(Wire)
      BY <1>1, <1>4 DEF IsCut
    <2> QED  BY <2>1, ConcatAt
  <1> DEFINE y == u \o v
  <1> HIDE DEF y
  <1>6. /\ u \in Seq(Wire) /\ Len(u) = n - a /\ \A i \in 1..(n - a) : u[i] = w[a + i]
        /\ v \in Seq(Wire) /\ Len(v) = k /\ \A i \in 1..k : v[i] = w[n + i]
        /\ x \in Seq(Wire) /\ Len(x) = (n + k) - a /\ \A i \in 1..((n + k) - a) : x[i] = w[a + i]
    BY <1>1, <1>3, <1>4 DEF IsCut
  <1>7. /\ y \in Seq(Wire) /\ Len(y) = Len(u) + Len(v)
        /\ \A i \in 1..Len(u) : y[i] = u[i]
        /\ \A i \in 1..Len(v) : y[Len(u) + i] = v[i]
    BY <1>5 DEF IsConcat, y
  <1>8. Len(y) = Len(x)
    BY <1>1, <1>2, <1>6, <1>7
  <1>9. ASSUME NEW i \in 1..Len(y) PROVE y[i] = x[i]
    <2>1. x[i] = w[a + i]
      BY <1>6, <1>8
    <2>2. CASE i <= n - a
      <3>1. i \in 1..(n - a) /\ i \in 1..Len(u)
        BY <1>1, <1>2, <1>6, <2>2
      <3> QED  BY <1>6, <1>7, <2>1, <3>1
    <2>3. CASE ~(i <= n - a)
      <3> DEFINE j == i - (n - a)
      <3>1. j \in 1..k /\ Len(u) + j = i /\ n + j = a + i /\ j \in 1..Len(v)
        BY <1>1, <1>2, <1>6, <1>7, <2>3
      <3> HIDE DEF j
      <3> QED  BY <1>6, <1>7, <2>1, <3>1
    <2> QED  BY <2>2, <2>3
  <1>10. y = x
    BY <1>6, <1>7, <1>8, <1>9, SameBytes
  <1> QED  BY <1>10 DEF y, u, v, x, w

\* Frames that had arrived count as they did.
LEMMA DueGrows ==
  ASSUME NEW t \in Sendable, NEW d \in 0..Len(t), NEW n \in Nat, NEW m \in Nat, EndOf(t, d) <= n, n <= m
  PROVE  Due(t, n)[d] = Due(t, m)[d]
  <1>1. ASSUME NEW i \in 1..d PROVE Counts(t, n, i) <=> Counts(t, m, i)
    <2>1. i \in 0..Len(t) /\ d \in i..Len(t) /\ d - i \in Nat
      BY DEF Sendable
    <2>2. EndOf(t, i) \in Nat /\ EndOf(t, d) \in Nat /\ EndOf(t, i) + (d - i) <= EndOf(t, d)
      BY <2>1, StreamGrows
    <2>3. EndOf(t, i) <= n /\ EndOf(t, i) <= m
      <3>1. \A x, y, z \in Nat : x + z <= y /\ y <= n => x <= n /\ x <= m
        OBVIOUS
      <3> QED  BY <2>1, <2>2, <3>1
    <2> QED  BY <2>3 DEF Counts, EndOf
  <1> QED  BY <1>1, DueSame

\* One recv: the loop, from where it waited, to where it waits or closes.
LEMMA Received ==
  ASSUME NEW t \in Sendable, NEW n \in Nat, NEW data, NEW got, NEW d, Waiting(t, n, data, got, d),
         NEW k \in Nat, n + k <= Len(Whole(t))
  PROVE  LET r == Drain(data \o SubSeq(Whole(t), n + 1, n + k), got)
         IN /\ ~r.closed => \E e : Waiting(t, n + k, r.pending, r.handled, e)
            /\ r.closed => r.handled = Due(t, n + k)[Len(t)]
            /\ r.closed \in BOOLEAN
  <1> DEFINE m == n + k
             r == Drain(data \o SubSeq(Whole(t), n + 1, n + k), got)
  <1>1. /\ d \in 0..Len(t) /\ n \in EndOf(t, d)..Len(Whole(t)) /\ data = Piece(t, d, n)
        /\ got = Due(t, n)[d] /\ \A j \in 1..d : t[j].opcode # 8
    BY DEF Waiting
  <1>2. EndOf(t, d) \in Nat /\ Whole(t) \in Seq(Wire)
    BY <1>1, PieceAt
  <1>3. m \in Nat /\ n <= m /\ m \in EndOf(t, d)..Len(Whole(t)) /\ EndOf(t, d) <= n
    BY <1>1, <1>2
  <1>4. data \o SubSeq(Whole(t), n + 1, n + k) = Piece(t, d, m)
    BY <1>1, PieceGrows
  <1>5. got = Due(t, m)[d]
    <2> HIDE DEF m
    <2> QED  BY <1>1, <1>3, DueGrows
  <1>6. r = Drain(Piece(t, d, m), Due(t, m)[d])
    BY <1>4, <1>5
  <1> HIDE DEF m, r
  <1>7. Ready(t, d, m)
    BY <1>1, <1>3 DEF Ready
  <1>8. PICK e : StopsAt(t, d, m, e)
    BY <1>7, Stops
  <1>9. r = After(t, d, m, e)
    BY <1>6, <1>7, <1>8, Drains
  <1>10. /\ r.pending = Piece(t, e, m) /\ r.handled = Due(t, m)[e]
         /\ r.closed = (e > d /\ t[e].opcode = 8)
    BY <1>9 DEF After, LoopState
  <1>11. /\ Len(t) \in Nat /\ e \in d..Len(t) /\ e \in 0..Len(t) /\ Len(t) \in e..Len(t)
         /\ EndOf(t, e) <= m
         /\ \A j \in (d + 1)..(e - 1) : t[j].opcode # 8
    BY <1>1, <1>8 DEF StopsAt, Sendable
  <1>12. ASSUME ~r.closed PROVE Waiting(t, m, r.pending, r.handled, e)
    <2>1. ~(e > d /\ t[e].opcode = 8)
      BY <1>10, <1>12
    <2>2. e = Len(t) \/ m < EndOf(t, e + 1)
      BY <1>8, <2>1 DEF StopsAt
    <2>3. m \in EndOf(t, e)..Len(Whole(t))
      <3>1. EndOf(t, e) \in Nat
        BY <1>11, StreamGrows
      <3> QED  BY <1>3, <1>11, <3>1
    <2>4. ASSUME NEW j \in 1..e PROVE t[j].opcode # 8
      <3>1. j \in 1..d \/ j \in (d + 1)..(e - 1) \/ (j = e /\ e > d)
        BY <1>1, <1>11
      <3> QED  BY <1>1, <1>11, <2>1, <3>1
    <2> QED  BY <1>10, <1>11, <2>2, <2>3, <2>4 DEF Waiting
  <1>13. ASSUME r.closed PROVE r.handled = Due(t, m)[Len(t)]
    <2>1. e > d /\ t[e].opcode = 8
      BY <1>10, <1>13
    <2>2. ASSUME NEW i \in (e + 1)..Len(t) PROVE ~Counts(t, m, i)
      <3>1. e \in 1..(i - 1)
        BY <1>1, <1>11, <2>1
      <3> QED  BY <2>1, <3>1 DEF Counts
    <2>3. Due(t, m)[Len(t)] = Due(t, m)[e]
      BY <1>11, <2>2, DueStays
    <2> QED  BY <1>10, <2>3
  <1>14. r.closed \in BOOLEAN
    BY <1>10
  <1> QED  BY <1>12, <1>13, <1>14 DEF m, r

LEMMA FrameInvInit ==
  FrameInit => FrameInv
  <1> SUFFICES ASSUME FrameInit PROVE FrameInv
    OBVIOUS
  <1>1. /\ traffic \in Traffic /\ arrived = 0 /\ pending = <<>> /\ handled = <<>>
        /\ client_state = "open"
    BY DEF FrameInit
  <1>2. traffic \in Sendable
    BY <1>1, TrafficSendable
  <1> DEFINE N == Len(traffic)
  <1>3. N \in Nat /\ 0 \in 0..N /\ N \in 0..N
    BY <1>2 DEF Sendable
  <1>4. Stream(traffic)[0] = <<>> /\ Due(traffic, 0)[0] = <<>>
    BY <1>2, StreamSteps, DueSteps
  <1>5. EndOf(traffic, 0) = 0
    BY <1>4 DEF EndOf
  <1>6. Whole(traffic) \in Seq(Wire)
    BY <1>2, <1>3, StreamSteps DEF Whole
  <1>7. 0 \in EndOf(traffic, 0)..Len(Whole(traffic))
    BY <1>5, <1>6
  <1>8. 0 = N \/ 0 < EndOf(traffic, 0 + 1)
    <2> SUFFICES ASSUME N # 0 PROVE 0 < EndOf(traffic, 1)
      OBVIOUS
    <2>1. 1 \in 0..N /\ 1 \in 0..N /\ 1 - 0 = 1 /\ 1 \in 0..Len(traffic)
      BY <1>3
    <2>2. EndOf(traffic, 1) \in Nat /\ EndOf(traffic, 0) + (1 - 0) <= EndOf(traffic, 1)
      BY <1>2, <1>3, <2>1, StreamGrows
    <2> QED  BY <1>5, <2>2
  <1>9. Piece(traffic, 0, 0) = <<>>
    <2>1. IsCut(Wire, Whole(traffic), EndOf(traffic, 0), 0 - EndOf(traffic, 0), Piece(traffic, 0, 0))
      BY <1>2, <1>3, <1>7, PieceAt
    <2>2. Piece(traffic, 0, 0) \in Seq(Wire) /\ Len(Piece(traffic, 0, 0)) = 0
      BY <1>5, <2>1 DEF IsCut
    <2> QED  BY <2>2
  <1>10. Waiting(traffic, 0, <<>>, <<>>, 0)
    BY <1>3, <1>4, <1>7, <1>8, <1>9 DEF Waiting
  <1> QED  BY <1>1, <1>10 DEF FrameInv

LEMMA FrameInvStep ==
  FrameInv /\ [FrameNext]_frameVars => FrameInv'
  <1> SUFFICES ASSUME FrameInv, [FrameNext]_frameVars PROVE FrameInv'
    OBVIOUS
  <1>1. CASE UNCHANGED frameVars
    BY <1>1 DEF FrameInv, frameVars, Waiting
  <1>2. ASSUME NEW k \in Chunks, Recv(k) PROVE FrameInv'
    <2> DEFINE r == Drain(pending \o SubSeq(Sent, arrived + 1, arrived + k), handled)
    <2>1. /\ client_state = "open" /\ arrived + k <= Len(Sent)
          /\ arrived' = arrived + k /\ pending' = r.pending /\ handled' = r.handled
          /\ client_state' = IF r.closed THEN "closed"
                             ELSE IF Len(r.pending) > MaxPending THEN "dropped" ELSE "open"
          /\ traffic' = traffic
      BY <1>2 DEF Recv
    <2>2. k \in Nat /\ traffic \in Traffic /\ arrived \in Nat
      BY ChunksAssumption DEF FrameInv
    <2>3. traffic \in Sendable
      BY <2>2, TrafficSendable
    <2>4. PICK d : Waiting(traffic, arrived, pending, handled, d)
      BY <2>1 DEF FrameInv
    <2>5. Sent = Whole(traffic)
      BY DEF Sent, Whole
    <2>6. /\ ~r.closed => \E e : Waiting(traffic, arrived + k, r.pending, r.handled, e)
          /\ r.closed => r.handled = Due(traffic, arrived + k)[Len(traffic)]
          /\ r.closed \in BOOLEAN
      <3>1. arrived + k <= Len(Whole(traffic))
        BY <2>1, <2>5
      <3>2. r = Drain(pending \o SubSeq(Whole(traffic), arrived + 1, arrived + k), handled)
        BY <2>5
      <3> HIDE DEF r
      <3> QED  BY <2>2, <2>3, <2>4, <3>1, <3>2, Received
    <2>7. arrived' \in Nat /\ traffic' \in Traffic
      BY <2>1, <2>2
    <2> HIDE DEF r
    <2>8. CASE r.closed
      <3>1. client_state' = "closed"
        BY <2>1, <2>8
      <3> QED  BY <2>1, <2>6, <2>7, <2>8, <3>1 DEF FrameInv
    <2>9. CASE ~r.closed
      <3>1. client_state' \in {"dropped", "open"}
        BY <2>1, <2>9
      <3>2. \E e : Waiting(traffic', arrived', pending', handled', e)
        BY <2>1, <2>6, <2>9
      <3> QED  BY <2>7, <3>1, <3>2 DEF FrameInv
    <2> QED  BY <2>6, <2>8, <2>9
  <1> QED  BY <1>1, <1>2 DEF FrameNext

THEOREM FrameInvariant ==
  FrameSpec => []FrameInv
  <1> QED  BY FrameInvInit, FrameInvStep, PTL DEF FrameSpec

\* However recv cuts the stream of a client, and whatever its frames are, the loop
\* of HandleClient gives HandleWebSocketMessage the payloads of the text frames
\* that have arrived whole, in order, none twice, up to a close frame; also when it
\* then drops the client for what is left.
THEOREM MessagesDelivered ==
  FrameSpec => []FramesDelivered
  <1>1. FrameInv => FramesDelivered
    <2> SUFFICES ASSUME FrameInv
                 PROVE  handled = Due(traffic, arrived)[Len(traffic)]
      BY DEF FramesDelivered
    <2>1. traffic \in Sendable /\ arrived \in Nat
      BY TrafficSendable DEF FrameInv
    <2>2. CASE client_state = "closed"
      BY <2>2 DEF FrameInv
    <2>3. CASE client_state # "closed"
      <3>1. PICK d : Waiting(traffic, arrived, pending, handled, d)
        BY <2>3 DEF FrameInv
      <3> QED  BY <2>1, <3>1, WaitingDue
    <2> QED  BY <2>2, <2>3
  <1> QED  BY <1>1, FrameInvariant, PTL

\* A frame made by SendWebSocketFrame from any of the payloads is complete by the
\* rules of CompleteFrameSize, and ParseWebSocketFrame reads the payload from it.
THEOREM ServerFramesRead ==
  FrameSpec => []ServerFramesParse
  <1>1. FrameInv => ServerFramesParse
    <2> SUFFICES ASSUME FrameInv, NEW i \in 1..Len(traffic)
                 PROVE  LET f == ServerFrame(traffic[i].payload)
                        IN CompleteFrameSize(f) = Len(f) /\ ParseWebSocketFrame(f) = traffic[i].payload
      BY DEF ServerFramesParse
    <2> DEFINE p == traffic[i].payload
               f == Frame(1, <<>>, p)
    <2>1. traffic \in Sendable
      BY TrafficSendable DEF FrameInv
    <2>2. p \in Payloads
      BY <2>1, FrameAt
    <2>3. 1 \in 0..15 /\ <<>> \in Masks
      BY DEF Masks
    <2> HIDE DEF p
    <2>4. Starts(f, f) /\ ParseWebSocketFrame(f) = p
      BY <2>2, <2>3, FrameParsed
    <2>5. Len(f) >= Len(f) => CompleteFrameSize(f) = Len(f)
      BY <2>2, <2>3, <2>4, FrameSize
    <2>6. Len(f) \in Nat
      BY <2>4 DEF Starts
    <2> HIDE DEF f
    <2>7. CompleteFrameSize(f) = Len(f)
      BY <2>5, <2>6
    <2> QED  BY <2>4, <2>7 DEF ServerFrame, f, p
  <1> QED  BY <1>1, FrameInvariant, PTL

=============================================================================
