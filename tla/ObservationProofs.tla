-------------------------- MODULE ObservationProofs --------------------------
(***************************************************************************)
(* The parsers read the very name the client means, or none, from any      *)
(* beginning of any message.                                               *)
(***************************************************************************)
EXTENDS Observation, SequenceTheorems, WellFoundedInduction, TLAPS

-----------------------------------------------------------------------------
(* Counting up.                                                            *)

\* A set of numbers with 0 in it, and with each number the next, has them all.
LEMMA CountUp ==
    ASSUME NEW P \in SUBSET Nat, 0 \in P, \A n \in P : n + 1 \in P
    PROVE  P = Nat
<1> DEFINE Less == {ss \in Nat \X Nat : ss[1] < ss[2]}
<1>1. IsWellFoundedOn(Less, Nat)
  BY NatLessThanWellFounded DEF OpToRel
<1>2. SUFFICES ASSUME Nat \ P # {}
               PROVE  FALSE
  OBVIOUS
<1>3. PICK x \in Nat \ P : \A y \in Nat \ P : <<y, x>> \notin Less
  <2>1. Nat \ P \subseteq Nat
    OBVIOUS
  <2> HIDE DEF Less
  <2> QED
    BY <1>1, <1>2, <2>1, WFMin
<1>4. x # 0 /\ x - 1 \in Nat
  BY <1>3
<1>5. <<x - 1, x>> \in Less
  BY <1>3, <1>4
<1>6. x - 1 \in P
  BY <1>3, <1>4, <1>5
<1>7. (x - 1) + 1 = x
  BY <1>3
<1> QED
  BY <1>3, <1>6, <1>7

-----------------------------------------------------------------------------
(* FlattenSeq: the parts one after the other.                              *)

\* What there is of the parts after each of them.
Beginnings(s) ==
    CHOOSE f \in [0..Len(s) -> Seq(Byte)] :
        f[0] = <<>> /\ \A k \in 1..Len(s) : f[k] = f[k - 1] \o s[k]

\* A function given by what it is at 1 and how it goes on exists.
LEMMA FlattenExists ==
    ASSUME NEW s \in Seq(Seq(Byte)), NEW n \in Nat, n < Len(s)
    PROVE  \E f : f = [i \in 1..n + 1 |-> IF i = 1 THEN s[i] ELSE f[i - 1] \o s[i]]
<1> DEFINE Eq(f, m) == f = [i \in 1..m |-> IF i = 1 THEN s[i] ELSE f[i - 1] \o s[i]]
           Has == {m \in Nat : \E f : Eq(f, m + 1)}
<1>1. Eq([i \in 1..1 |-> s[i]], 0 + 1)
  OBVIOUS
<1>2. ASSUME NEW m \in Nat, NEW f, Eq(f, m + 1)
      PROVE  \E g : Eq(g, (m + 1) + 1)
  <2> DEFINE g == [i \in 1..(m + 1) + 1 |-> IF i = m + 2 THEN f[m + 1] \o s[m + 2] ELSE f[i]]
  <2>1. DOMAIN g = 1..(m + 1) + 1 /\ g = [i \in 1..(m + 1) + 1 |-> g[i]]
    OBVIOUS
  <2>2. ASSUME NEW i \in 1..(m + 1) + 1
        PROVE  g[i] = IF i = 1 THEN s[i] ELSE g[i - 1] \o s[i]
    <3>1. CASE i = m + 2
      <4>1. i # 1 /\ i - 1 = m + 1 /\ i - 1 \in 1..(m + 1) + 1 /\ i - 1 # m + 2
        BY <3>1
      <4>2. g[i] = f[m + 1] \o s[m + 2]
        BY <3>1
      <4>3. g[i - 1] = f[i - 1]
        BY <4>1
      <4> HIDE DEF g
      <4> QED
        BY <3>1, <4>1, <4>2, <4>3
    <3>2. CASE i # m + 2
      <4>1. i \in 1..m + 1
        BY <3>2
      <4>2. f[i] = IF i = 1 THEN s[i] ELSE f[i - 1] \o s[i]
        BY <1>2, <4>1
      <4>3. g[i] = f[i] /\ (i # 1 => g[i - 1] = f[i - 1])
        BY <3>2, <4>1
      <4> QED
        BY <4>2, <4>3
    <3> QED
      BY <3>1, <3>2
  <2> HIDE DEF g
  <2>3. Eq(g, (m + 1) + 1)
    BY <2>1, <2>2
  <2> HIDE DEF Eq
  <2> QED
    BY <2>3
<1> HIDE DEF Eq
<1>3. 0 \in Has
  BY <1>1
<1>4. \A m \in Has : m + 1 \in Has
  BY <1>2
<1>5. Has = Nat
  <2>1. Has \subseteq Nat
    OBVIOUS
  <2> HIDE DEF Has
  <2> QED
    BY <1>3, <1>4, <2>1, CountUp
<1>6. \E f : Eq(f, n + 1)
  BY <1>5
<1> QED
  BY <1>6 DEF Eq

\* FlattenSeq puts the parts together from the first to the last.
LEMMA Flatten ==
    ASSUME NEW s \in Seq(Seq(Byte))
    PROVE  /\ Beginnings(s) \in [0..Len(s) -> Seq(Byte)]
           /\ Beginnings(s)[0] = <<>>
           /\ \A k \in 1..Len(s) : Beginnings(s)[k] = Beginnings(s)[k - 1] \o s[k]
           /\ FlattenSeq(s) = Beginnings(s)[Len(s)]
<1> DEFINE N == Len(s)
           Eq(f) == f = [i \in 1..N |-> IF i = 1 THEN s[i] ELSE f[i - 1] \o s[i]]
           F == CHOOSE f : Eq(f)
           Typed == {n \in Nat : n + 1 <= N => F[n + 1] \in Seq(Byte)}
           P == [k \in 0..N |-> IF k = 0 THEN <<>> ELSE F[k]]
<1>1. N \in Nat /\ \A k \in 1..N : s[k] \in Seq(Byte)
  OBVIOUS
<1>2. CASE N = 0
  <2>1. FlattenSeq(s) = <<>>
    BY <1>2 DEF FlattenSeq
  <2>2. \E f \in [0..N -> Seq(Byte)] :
           f[0] = <<>> /\ \A k \in 1..N : f[k] = f[k - 1] \o s[k]
    <3> WITNESS [k \in 0..N |-> <<>>] \in [0..N -> Seq(Byte)]
    <3> QED
      BY <1>2
  <2> QED
    BY <1>2, <2>1, <2>2 DEF Beginnings
<1>3. CASE N # 0
  <2>1. \E f : Eq(f)
    <3>1. N - 1 \in Nat /\ N - 1 < Len(s) /\ (N - 1) + 1 = N
      BY <1>1, <1>3
    <3> HIDE DEF N
    <3>2. \E f : f = [i \in 1..(N - 1) + 1 |-> IF i = 1 THEN s[i] ELSE f[i - 1] \o s[i]]
      BY <3>1, FlattenExists
    <3> QED
      BY <3>1, <3>2
  <2>2. Eq(F)
    <3> HIDE DEF Eq
    <3> QED
      BY <2>1, Zenon
  <2>3. FlattenSeq(s) = F[N]
    BY <1>3 DEF FlattenSeq
  <2> HIDE DEF F, N
  <2>4. \A i \in 1..N : F[i] = IF i = 1 THEN s[i] ELSE F[i - 1] \o s[i]
    BY <2>2
  <2>5. 1 \in 1..N /\ F[1] = s[1]
    BY <1>1, <1>3, <2>4
  <2>6. ASSUME NEW n \in Nat, n + 2 <= N
        PROVE  F[(n + 1) + 1] = F[n + 1] \o s[n + 2] /\ s[n + 2] \in Seq(Byte)
    <3>1. n + 2 \in 1..N /\ n + 2 # 1 /\ (n + 2) - 1 = n + 1 /\ (n + 1) + 1 = n + 2
      BY <1>1, <2>6
    <3>2. F[n + 2] = F[(n + 2) - 1] \o s[n + 2]
      BY <2>4, <3>1
    <3> QED
      BY <1>1, <3>1, <3>2
  <2>7. \A i \in 1..N : F[i] \in Seq(Byte)
    <3>1. 0 \in Typed
      BY <1>1, <2>5
    <3>2. ASSUME NEW n \in Typed
          PROVE  n + 1 \in Typed
      <4>1. SUFFICES ASSUME n + 2 <= N
                     PROVE  F[(n + 1) + 1] \in Seq(Byte)
        BY <1>1
      <4>2. F[n + 1] \in Seq(Byte)
        BY <1>1, <4>1
      <4>3. F[(n + 1) + 1] = F[n + 1] \o s[n + 2] /\ s[n + 2] \in Seq(Byte)
        BY <2>6, <4>1
      <4> HIDE DEF Typed
      <4> QED
        BY <4>2, <4>3, ConcatProperties
    <3>3. Typed = Nat
      <4>1. Typed \subseteq Nat
        OBVIOUS
      <4> HIDE DEF Typed
      <4> QED
        BY <3>1, <3>2, <4>1, CountUp
    <3> QED
      <4> TAKE i \in 1..N
      <4>1. i - 1 \in Nat /\ (i - 1) + 1 = i /\ i <= N
        BY <1>1
      <4>2. i - 1 \in Typed
        BY <3>3, <4>1, Zenon
      <4> QED
        BY <4>1, <4>2
  <2>8. /\ P \in [0..N -> Seq(Byte)] /\ P[0] = <<>>
        /\ \A k \in 1..N : P[k] = P[k - 1] \o s[k]
    <3>1. P \in [0..N -> Seq(Byte)] /\ P[0] = <<>>
      BY <1>1, <2>7
    <3>2. ASSUME NEW k \in 1..N
          PROVE  P[k] = P[k - 1] \o s[k]
      <4>1. k \in Nat /\ k - 1 \in 0..N /\ k \in 0..N /\ k # 0
        BY <1>1
      <4>2. P[k] = F[k]
        BY <4>1
      <4>3. CASE k = 1
        BY <1>1, <2>5, <4>1, <4>2, <4>3
      <4>4. CASE k # 1
        <5>1. P[k - 1] = F[k - 1]
          BY <4>1, <4>4
        <5> QED
          BY <2>4, <4>2, <4>4, <5>1
      <4> QED
        BY <4>3, <4>4
    <3> QED
      BY <3>1, <3>2
  <2>9. ASSUME NEW f \in [0..N -> Seq(Byte)], f[0] = <<>>,
               \A k \in 1..N : f[k] = f[k - 1] \o s[k]
        PROVE  f[N] = F[N]
    <3> DEFINE Same == {n \in Nat : n + 1 <= N => F[n + 1] = f[n + 1]}
    <3>1. 0 \in Same
      <4>1. 1 - 1 = 0
        OBVIOUS
      <4>2. f[1] = f[1 - 1] \o s[1]
        BY <2>5, <2>9, Zenon
      <4>3. f[1] = <<>> \o s[1]
        BY <2>9, <4>1, <4>2, Zenon
      <4>4. s[1] \in Seq(Byte)
        BY <1>1, <2>5
      <4>5. f[0 + 1] = F[0 + 1]
        BY <2>5, <4>3, <4>4, ConcatEmptySeq
      <4> QED
        BY <4>5
    <3>2. ASSUME NEW n \in Same
          PROVE  n + 1 \in Same
      <4>1. SUFFICES ASSUME n + 2 <= N
                     PROVE  F[(n + 1) + 1] = f[(n + 1) + 1]
        BY <1>1
      <4>2. F[n + 1] = f[n + 1]
        BY <1>1, <4>1
      <4>3. n + 2 \in 1..N /\ (n + 2) - 1 = n + 1 /\ (n + 1) + 1 = n + 2
        BY <1>1, <4>1
      <4>4. f[n + 2] = f[(n + 2) - 1] \o s[n + 2]
        BY <2>9, <4>3
      <4> QED
        BY <2>6, <4>1, <4>2, <4>3, <4>4
    <3>3. Same = Nat
      <4>1. Same \subseteq Nat
        OBVIOUS
      <4> HIDE DEF Same
      <4> QED
        BY <3>1, <3>2, <4>1, CountUp
    <3>4. N - 1 \in Nat /\ (N - 1) + 1 = N
      BY <1>1, <1>3
    <3>5. N - 1 \in Same
      BY <3>3, <3>4, Zenon
    <3> QED
      BY <1>1, <3>4, <3>5
  <2> HIDE DEF P
  <2>10. /\ Beginnings(s) \in [0..Len(s) -> Seq(Byte)]
         /\ Beginnings(s)[0] = <<>>
         /\ \A k \in 1..Len(s) : Beginnings(s)[k] = Beginnings(s)[k - 1] \o s[k]
    BY <2>8 DEF Beginnings, N
  <2> QED
    BY <2>3, <2>9, <2>10 DEF N
<1> QED
  BY <1>2, <1>3

\* How many bytes the first k parts take.
Taken(s, k) == Len(Beginnings(s)[k])

\* What the first parts are is not changed by those that follow.
LEMMA BeginningsGrow ==
    ASSUME NEW s \in Seq(Seq(Byte)), NEW k \in 0..Len(s), NEW m \in k..Len(s)
    PROVE  /\ Taken(s, k) \in Nat /\ Taken(s, m) \in Nat /\ Taken(s, k) <= Taken(s, m)
           /\ \A i \in 1..Taken(s, k) : Beginnings(s)[m][i] = Beginnings(s)[k][i]
<1> DEFINE P == Beginnings(s)
           Keeps(n) == /\ Len(P[k]) <= Len(P[k + n])
                       /\ \A i \in 1..Len(P[k]) : P[k + n][i] = P[k][i]
           Good == {n \in Nat : k + n <= Len(s) => Keeps(n)}
<1>1. /\ P \in [0..Len(s) -> Seq(Byte)]
      /\ \A j \in 1..Len(s) : P[j] = P[j - 1] \o s[j]
  BY Flatten
<1>2. Len(s) \in Nat /\ (\A j \in 1..Len(s) : s[j] \in Seq(Byte)) /\ k \in Nat /\ m \in Nat
  OBVIOUS
<1> HIDE DEF P
<1>3. \A j \in 0..Len(s) : P[j] \in Seq(Byte) /\ Len(P[j]) \in Nat
  BY <1>1
<1>4. 0 \in Good
  BY <1>2, <1>3
<1>5. ASSUME NEW n \in Good
      PROVE  n + 1 \in Good
  <2>1. SUFFICES ASSUME k + (n + 1) <= Len(s)
                 PROVE  Keeps(n + 1)
    BY <1>2
  <2>2. Keeps(n)
    BY <1>2, <2>1
  <2>3. /\ k + (n + 1) \in 1..Len(s) /\ (k + (n + 1)) - 1 = k + n
        /\ k + n \in 0..Len(s) /\ k + (n + 1) \in 0..Len(s)
    BY <1>2, <2>1
  <2>4. P[k + (n + 1)] = P[k + n] \o s[k + (n + 1)]
    BY <1>1, <2>3
  <2>5. /\ Len(P[k + (n + 1)]) = Len(P[k + n]) + Len(s[k + (n + 1)])
        /\ \A i \in 1..Len(P[k + n]) : P[k + (n + 1)][i] = P[k + n][i]
    <3>1. P[k + n] \in Seq(Byte) /\ s[k + (n + 1)] \in Seq(Byte)
      BY <1>2, <1>3, <2>3
    <3> DEFINE a == P[k + n]
               b == s[k + (n + 1)]
    <3>2. a \in Seq(Byte) /\ b \in Seq(Byte) /\ P[k + (n + 1)] = a \o b
      BY <3>1, <2>4
    <3> HIDE DEF a, b
    <3>3. Len(a \o b) = Len(a) + Len(b) /\ \A i \in 1..Len(a) : (a \o b)[i] = a[i]
      BY <3>2
    <3> QED
      BY <3>2, <3>3 DEF a, b
  <2>6. Len(s[k + (n + 1)]) \in Nat /\ Len(P[k + n]) \in Nat /\ Len(P[k]) \in Nat
    BY <1>2, <1>3, <2>3
  <2>7. Len(P[k]) <= Len(P[k + (n + 1)])
    <3> DEFINE a == Len(P[k])
               b == Len(P[k + n])
               c == Len(P[k + (n + 1)])
               d == Len(s[k + (n + 1)])
    <3>1. a <= b /\ c = b + d /\ a \in Nat /\ b \in Nat /\ d \in Nat
      BY <2>2, <2>5, <2>6
    <3> HIDE DEF a, b, c, d
    <3>2. a <= c
      BY <3>1
    <3> QED
      BY <3>2 DEF a, c
  <2>8. ASSUME NEW i \in 1..Len(P[k])
        PROVE  P[k + (n + 1)][i] = P[k][i]
    <3>1. i \in 1..Len(P[k + n]) /\ P[k + n][i] = P[k][i]
      BY <2>2, <2>6
    <3> HIDE DEF Good, Keeps
    <3> QED
      BY <2>5, <3>1
  <2> QED
    BY <2>7, <2>8
<1>6. Good = Nat
  <2>1. Good \subseteq Nat
    OBVIOUS
  <2> HIDE DEF Good
  <2> QED
    BY <1>4, <1>5, <2>1, CountUp
<1>7. m - k \in Nat /\ k + (m - k) = m /\ m \in 0..Len(s)
  BY <1>2
<1>8. Keeps(m - k)
  <2>1. m - k \in Good
    BY <1>6, <1>7, Zenon
  <2> QED
    BY <1>7, <2>1
<1>9. Len(P[k]) <= Len(P[m]) /\ \A i \in 1..Len(P[k]) : P[m][i] = P[k][i]
  BY <1>7, <1>8
<1> QED
  BY <1>3, <1>7, <1>9 DEF P, Taken

\* Where the bytes of each part are.
LEMMA Positions ==
    ASSUME NEW s \in Seq(Seq(Byte))
    PROVE  /\ FlattenSeq(s) \in Seq(Byte) /\ Len(FlattenSeq(s)) = Taken(s, Len(s))
           /\ Taken(s, 0) = 0
           /\ \A k \in 0..Len(s) : Taken(s, k) \in Nat /\ Taken(s, k) <= Taken(s, Len(s))
           /\ \A k \in 1..Len(s) :
                 /\ Taken(s, k) = Taken(s, k - 1) + Len(s[k])
                 /\ \A j \in 1..Len(s[k]) : FlattenSeq(s)[Taken(s, k - 1) + j] = s[k][j]
<1> DEFINE P == Beginnings(s)
<1>1. /\ P \in [0..Len(s) -> Seq(Byte)] /\ P[0] = <<>>
      /\ \A k \in 1..Len(s) : P[k] = P[k - 1] \o s[k]
      /\ FlattenSeq(s) = P[Len(s)]
  BY Flatten
<1>2. Len(s) \in Nat /\ \A j \in 1..Len(s) : s[j] \in Seq(Byte)
  OBVIOUS
<1>3. \A k \in 0..Len(s) : Taken(s, k) = Len(P[k])
  BY DEF Taken
<1> HIDE DEF P
<1>4. FlattenSeq(s) \in Seq(Byte) /\ Len(FlattenSeq(s)) = Taken(s, Len(s))
  BY <1>1, <1>2, <1>3
<1>5. Taken(s, 0) = 0
  BY <1>1, <1>2, <1>3
<1>6. ASSUME NEW k \in 0..Len(s)
      PROVE  Taken(s, k) \in Nat /\ Taken(s, k) <= Taken(s, Len(s))
  <2>1. Len(s) \in k..Len(s)
    BY <1>2
  <2> QED
    BY <2>1, BeginningsGrow
<1>7. ASSUME NEW k \in 1..Len(s)
      PROVE  /\ Taken(s, k) = Taken(s, k - 1) + Len(s[k])
             /\ \A j \in 1..Len(s[k]) : FlattenSeq(s)[Taken(s, k - 1) + j] = s[k][j]
  <2> DEFINE a == P[k - 1]
             b == s[k]
  <2>1. k - 1 \in 0..Len(s) /\ k \in 0..Len(s) /\ Len(s) \in k..Len(s)
    BY <1>2
  <2>2. a \in Seq(Byte) /\ b \in Seq(Byte) /\ P[k] = a \o b
    BY <1>1, <1>2, <2>1
  <2>3. Taken(s, k - 1) = Len(a) /\ Taken(s, k) = Len(P[k])
    BY <1>3, <2>1
  <2>4. \A i \in 1..Len(P[k]) : P[Len(s)][i] = P[k][i]
    <3>1. \A i \in 1..Taken(s, k) : Beginnings(s)[Len(s)][i] = Beginnings(s)[k][i]
      BY <2>1, BeginningsGrow
    <3> QED
      BY <2>3, <3>1 DEF P
  <2> HIDE DEF a, b
  <2>5. /\ Len(a \o b) = Len(a) + Len(b) /\ Len(a) \in Nat /\ Len(b) \in Nat
        /\ \A j \in 1..Len(b) : (a \o b)[Len(a) + j] = b[j]
    BY <2>2
  <2>6. Taken(s, k) = Taken(s, k - 1) + Len(b)
    BY <2>2, <2>3, <2>5
  <2>7. ASSUME NEW j \in 1..Len(b)
        PROVE  FlattenSeq(s)[Taken(s, k - 1) + j] = b[j]
    <3>1. Len(a) + j \in 1..Len(P[k])
      BY <2>2, <2>5
    <3> QED
      BY <1>1, <2>2, <2>3, <2>4, <2>5, <3>1
  <2> QED
    BY <2>6, <2>7 DEF b
<1> QED
  BY <1>4, <1>5, <1>6, <1>7

-----------------------------------------------------------------------------
(* The walks of the two parsers over their bytes.                          *)

\* A byte that is there is a number of 8 bits, two are one of 16.
LEMMA Reads ==
    ASSUME NEW d \in Seq(Byte), NEW i \in Nat
    PROVE  /\ i + 1 <= Len(d) => At(d, i) \in Nat /\ At(d, i) <= 255
           /\ i + 2 <= Len(d) => U16(d, i) \in Nat /\ U16(d, i) <= 65535
<1>1. ASSUME NEW j \in Nat, j + 1 <= Len(d)
      PROVE  At(d, j) \in Nat /\ At(d, j) <= 255
  <2>1. d[j + 1] \in Byte
    BY <1>1, ElementOfSeq
  <2>2. \A x \in Byte : x \in Nat /\ x <= 255
    BY DEF Byte
  <2> QED
    BY <2>1, <2>2 DEF At
<1>2. ASSUME i + 2 <= Len(d)
      PROVE  U16(d, i) \in Nat /\ U16(d, i) <= 65535
  <2>1. At(d, i) \in Nat /\ At(d, i) <= 255 /\ At(d, i + 1) \in Nat /\ At(d, i + 1) <= 255
    BY <1>1, <1>2
  <2> QED
    BY <2>1 DEF U16
<1> QED
  BY <1>1, <1>2

\* The extensions end among the bytes.
LEMMA ExtensionsEnd ==
    ASSUME NEW d \in Seq(Byte), HasExtensions(d)
    PROVE  ExtStart(d) \in Nat /\ ExtEnd(d) \in Nat /\ ExtEnd(d) <= Len(d)
<1>1. /\ Len(d) \in Nat /\ 43 < Len(d)
      /\ AfterSession(d) + 2 <= Len(d) /\ AfterCiphers(d) + 1 <= Len(d)
      /\ AfterCompression(d) + 2 <= Len(d)
  BY DEF HasExtensions
<1>2. AfterSession(d) \in Nat
  BY <1>1, Reads DEF AfterSession
<1>3. AfterCiphers(d) \in Nat
  BY <1>1, <1>2, Reads DEF AfterCiphers
<1>4. AfterCompression(d) \in Nat
  BY <1>1, <1>3, Reads DEF AfterCompression
<1>5. U16(d, AfterCompression(d)) \in Nat
  BY <1>1, <1>4, Reads
<1> QED
  BY <1>1, <1>4, <1>5 DEF ExtStart, ExtEnd

\* What the walk over the extensions finds from pos on, if it finds rest(p) from
\* any p that it may come to.
SniFrom(d, rest, pos) ==
    IF pos + 4 > ExtEnd(d) THEN NoName
    ELSE IF U16(d, pos) = 0 THEN ServerName(d, pos + 4)
    ELSE rest[pos + 4 + U16(d, pos + 2)]

\* The walk is a function that finds at every position what it should, since it
\* only ever goes on to later ones.
LEMMA SniWalk ==
    ASSUME NEW d \in Seq(Byte), HasExtensions(d)
    PROVE  \E walk : /\ extract_sni(d) = walk[ExtStart(d)]
                     /\ \A pos \in Nat : walk[pos] = SniFrom(d, walk, pos)
<1> DEFINE E == ExtEnd(d)
           Eq(f) == f = [pos \in Nat |->
                           IF pos + 4 > ExtEnd(d) THEN NoName
                           ELSE IF U16(d, pos) = 0 THEN ServerName(d, pos + 4)
                           ELSE f[pos + 4 + U16(d, pos + 2)]]
           OkFrom(f, e) == /\ f = [pos \in Nat |-> f[pos]]
                           /\ \A pos \in Nat : pos >= e => f[pos] = SniFrom(d, f, pos)
           Good == {n \in Nat : \E f : OkFrom(f, E - n)}
           W == CHOOSE f : Eq(f)
<1>1. E \in Nat /\ E <= Len(d)
  BY ExtensionsEnd
<1>2. ASSUME NEW pos \in Nat, ~(pos + 4 > E)
      PROVE  pos + 4 + U16(d, pos + 2) \in Nat /\ pos + 4 + U16(d, pos + 2) > pos
  <2>1. pos + 2 \in Nat /\ (pos + 2) + 2 <= Len(d)
    BY <1>1, <1>2
  <2>2. U16(d, pos + 2) \in Nat
    BY <2>1, Reads
  <2> HIDE DEF E
  <2> QED
    BY <2>2
<1> HIDE DEF E
<1>3. ASSUME NEW f, NEW g, NEW pos \in Nat, \A p \in Nat : p > pos => f[p] = g[p]
      PROVE  SniFrom(d, f, pos) = SniFrom(d, g, pos)
  <2>1. CASE pos + 4 > E
    BY <2>1 DEF SniFrom, E
  <2>2. CASE ~(pos + 4 > E)
    <3>1. f[pos + 4 + U16(d, pos + 2)] = g[pos + 4 + U16(d, pos + 2)]
      BY <1>2, <1>3, <2>2
    <3> QED
      BY <3>1 DEF SniFrom
  <2> QED
    BY <2>1, <2>2
<1>4. 0 \in Good
  <2> DEFINE f == [pos \in Nat |-> NoName]
  <2>1. ASSUME NEW pos \in Nat, pos >= E - 0
        PROVE  f[pos] = SniFrom(d, f, pos)
    <3>1. pos + 4 > E
      BY <1>1, <2>1
    <3> QED
      BY <3>1 DEF SniFrom, E
  <2>2. OkFrom(f, E - 0)
    BY <2>1
  <2> HIDE DEF OkFrom, f
  <2> QED
    BY <2>2
<1>5. ASSUME NEW n \in Good
      PROVE  n + 1 \in Good
  <2>1. PICK f : OkFrom(f, E - n)
    OBVIOUS
  <2> DEFINE e == E - (n + 1)
             g == [pos \in Nat |-> IF pos = e THEN SniFrom(d, f, e) ELSE f[pos]]
  <2>2. \A p \in Nat : p > e => g[p] = f[p]
    BY <1>1
  <2>3. ASSUME NEW pos \in Nat, pos >= e
        PROVE  g[pos] = SniFrom(d, g, pos)
    <3>1. \A p \in Nat : p > pos => f[p] = g[p]
      BY <1>1, <2>2, <2>3
    <3>2. SniFrom(d, f, pos) = SniFrom(d, g, pos)
      BY <1>3, <3>1
    <3>3. CASE pos = e
      BY <3>2, <3>3
    <3>4. CASE pos # e
      <4>1. pos >= E - n
        BY <1>1, <2>3, <3>4
      <4>2. f[pos] = SniFrom(d, f, pos)
        BY <2>1, <4>1
      <4>3. g[pos] = f[pos]
        BY <3>4
      <4> HIDE DEF g
      <4> QED
        BY <3>2, <4>2, <4>3
    <3> QED
      BY <3>3, <3>4
  <2>4. g = [pos \in Nat |-> g[pos]]
    OBVIOUS
  <2> HIDE DEF g
  <2>5. OkFrom(g, E - (n + 1))
    BY <2>3, <2>4
  <2> HIDE DEF OkFrom
  <2> QED
    BY <2>5
<1>6. Good = Nat
  <2>1. Good \subseteq Nat
    OBVIOUS
  <2> HIDE DEF Good
  <2> QED
    BY <1>4, <1>5, <2>1, CountUp
<1>7. PICK f : OkFrom(f, 0)
  <2>1. E \in Good
    BY <1>1, <1>6, Zenon
  <2>2. E - E = 0
    BY <1>1
  <2> HIDE DEF OkFrom
  <2> QED
    BY <2>1, <2>2
<1>8. Eq(f)
  <2>1. f = [pos \in Nat |-> f[pos]] /\ \A pos \in Nat : f[pos] = SniFrom(d, f, pos)
    BY <1>7
  <2> QED
    BY <2>1, Zenon DEF SniFrom
<1>9. Eq(W)
  <2> HIDE DEF Eq
  <2> QED
    BY <1>8, Zenon
<1>10. extract_sni(d) = W[ExtStart(d)]
  BY DEF extract_sni
<1> HIDE DEF W
<1>11. \A pos \in Nat : W[pos] = SniFrom(d, W, pos)
  BY <1>9, Zenon DEF SniFrom
<1> QED
  BY <1>10, <1>11

\* The same for the walk over the labels.
LabelsFrom(d, rest, pos) ==
    IF pos >= Len(d) \/ (At(d, pos) \in 1..191 /\ pos + 1 + At(d, pos) > Len(d))
    THEN [ends |-> FALSE, text |-> <<>>]
    ELSE IF At(d, pos) \notin 1..191
    THEN [ends |-> TRUE, text |-> <<>>]
    ELSE [rest[pos + 1 + At(d, pos)] EXCEPT
            !.text = Slice(d, pos + 1, At(d, pos)) \o <<Dot>> \o @]

\* There is a walk over the labels: LabelsFrom at every position.
LEMMA LabelWalk ==
    ASSUME NEW d \in Seq(Byte)
    PROVE  \E walk : /\ Labels(d) = walk[12]
                     /\ \A pos \in Nat : walk[pos] = LabelsFrom(d, walk, pos)
<1> DEFINE E == Len(d)
           Eq(f) == f = [pos \in Nat |->
               IF pos >= Len(d) \/ (At(d, pos) \in 1..191 /\ pos + 1 + At(d, pos) > Len(d))
               THEN [ends |-> FALSE, text |-> <<>>]
               ELSE IF At(d, pos) \notin 1..191
               THEN [ends |-> TRUE, text |-> <<>>]
               ELSE [f[pos + 1 + At(d, pos)] EXCEPT
                       !.text = Slice(d, pos + 1, At(d, pos)) \o <<Dot>> \o @]]
           OkFrom(f, e) == /\ f = [pos \in Nat |-> f[pos]]
                           /\ \A pos \in Nat : pos >= e => f[pos] = LabelsFrom(d, f, pos)
           Good == {n \in Nat : \E f : OkFrom(f, E - n)}
           W == CHOOSE f : Eq(f)
<1>1. E \in Nat
  OBVIOUS
<1>2. ASSUME NEW pos \in Nat, ~(pos >= E)
      PROVE  pos + 1 + At(d, pos) \in Nat /\ pos + 1 + At(d, pos) > pos
  <2>1. pos + 1 <= Len(d)
    BY <1>1, <1>2
  <2>2. At(d, pos) \in Nat
    BY <2>1, Reads
  <2> HIDE DEF E
  <2> QED
    BY <2>2
<1> HIDE DEF E
<1>3. ASSUME NEW f, NEW g, NEW pos \in Nat, \A p \in Nat : p > pos => f[p] = g[p]
      PROVE  LabelsFrom(d, f, pos) = LabelsFrom(d, g, pos)
  <2>1. CASE pos >= E
    BY <2>1 DEF LabelsFrom, E
  <2>2. CASE ~(pos >= E)
    <3>1. f[pos + 1 + At(d, pos)] = g[pos + 1 + At(d, pos)]
      BY <1>2, <1>3, <2>2
    <3> QED
      BY <3>1, Zenon DEF LabelsFrom
  <2> QED
    BY <2>1, <2>2
<1>4. 0 \in Good
  <2> DEFINE f == [pos \in Nat |-> [ends |-> FALSE, text |-> <<>>]]
  <2>1. ASSUME NEW pos \in Nat, pos >= E - 0
        PROVE  f[pos] = LabelsFrom(d, f, pos)
    <3>1. pos >= E
      BY <1>1, <2>1
    <3> QED
      BY <3>1 DEF LabelsFrom, E
  <2>2. OkFrom(f, E - 0)
    BY <2>1
  <2> HIDE DEF OkFrom, f
  <2> QED
    BY <2>2
<1>5. ASSUME NEW n \in Good
      PROVE  n + 1 \in Good
  <2>1. PICK f : OkFrom(f, E - n)
    OBVIOUS
  <2> DEFINE e == E - (n + 1)
             g == [pos \in Nat |-> IF pos = e THEN LabelsFrom(d, f, e) ELSE f[pos]]
  <2>2. \A p \in Nat : p > e => g[p] = f[p]
    BY <1>1
  <2>3. ASSUME NEW pos \in Nat, pos >= e
        PROVE  g[pos] = LabelsFrom(d, g, pos)
    <3>1. \A p \in Nat : p > pos => f[p] = g[p]
      BY <1>1, <2>2, <2>3
    <3>2. LabelsFrom(d, f, pos) = LabelsFrom(d, g, pos)
      BY <1>3, <3>1
    <3>3. CASE pos = e
      BY <3>2, <3>3
    <3>4. CASE pos # e
      <4>1. pos >= E - n
        <5>1. n \in Nat /\ e = E - (n + 1)
          OBVIOUS
        <5> HIDE DEF Good, e, g
        <5> QED
          BY <1>1, <2>3, <3>4, <5>1
      <4>2. f[pos] = LabelsFrom(d, f, pos)
        BY <2>1, <4>1
      <4>3. g[pos] = f[pos]
        BY <3>4
      <4> HIDE DEF g
      <4> QED
        BY <3>2, <4>2, <4>3
    <3> QED
      BY <3>3, <3>4
  <2>4. g = [pos \in Nat |-> g[pos]]
    OBVIOUS
  <2> HIDE DEF g
  <2>5. OkFrom(g, E - (n + 1))
    BY <2>3, <2>4
  <2> HIDE DEF OkFrom
  <2> QED
    BY <2>5
<1>6. Good = Nat
  <2>1. Good \subseteq Nat
    OBVIOUS
  <2> HIDE DEF Good
  <2> QED
    BY <1>4, <1>5, <2>1, CountUp
<1>7. PICK f : OkFrom(f, 0)
  <2>1. E \in Good
    BY <1>1, <1>6, Zenon
  <2>2. E - E = 0
    BY <1>1
  <2> HIDE DEF OkFrom
  <2> QED
    BY <2>1, <2>2
<1>8. Eq(f)
  <2>1. f = [pos \in Nat |-> f[pos]] /\ \A pos \in Nat : f[pos] = LabelsFrom(d, f, pos)
    BY <1>7
  <2> QED
    BY <2>1, Zenon DEF LabelsFrom
<1>9. Eq(W)
  <2> HIDE DEF Eq
  <2> QED
    BY <1>8, Zenon
<1>10. Labels(d) = W[12]
  BY DEF Labels
<1> HIDE DEF W
<1>11. \A pos \in Nat : W[pos] = LabelsFrom(d, W, pos)
  BY <1>9, Zenon DEF LabelsFrom
<1> QED
  BY <1>10, <1>11

-----------------------------------------------------------------------------
(* Which bytes are where.                                                  *)

\* The bytes of part are in d, the first of them after p others.
Holds(d, p, part) ==
    /\ p + Len(part) <= Len(d)
    /\ \A j \in 1..Len(part) : d[p + j] = part[j]

\* One sequence of bytes after another.
LEMMA Joined ==
    ASSUME NEW a \in Seq(Byte), NEW b \in Seq(Byte)
    PROVE  /\ a \o b \in Seq(Byte) /\ Len(a \o b) = Len(a) + Len(b)
           /\ Len(a) \in Nat /\ Len(b) \in Nat
           /\ \A i \in 1..Len(a) : (a \o b)[i] = a[i]
           /\ \A j \in 1..Len(b) : (a \o b)[Len(a) + j] = b[j]
  OBVIOUS

\* Added bytes are at the end and leave the others where they are.
LEMMA Added ==
    ASSUME NEW a \in Seq(Byte), NEW b \in Seq(Byte), NEW m, Len(a) = m
    PROVE  /\ a \o b \in Seq(Byte) /\ Len(a \o b) = m + Len(b)
           /\ Holds(a \o b, m, b)
           /\ \A p \in Nat, part \in Seq(Byte) : Holds(a, p, part) => Holds(a \o b, p, part)
<1>1. /\ a \o b \in Seq(Byte) /\ Len(a \o b) = Len(a) + Len(b)
      /\ Len(a) \in Nat /\ Len(b) \in Nat
      /\ \A i \in 1..Len(a) : (a \o b)[i] = a[i]
      /\ \A j \in 1..Len(b) : (a \o b)[Len(a) + j] = b[j]
  BY ONLY a \in Seq(Byte), b \in Seq(Byte), Joined
<1>2. Holds(a \o b, Len(a), b)
  BY ONLY <1>1 DEF Holds
<1>3. ASSUME NEW p \in Nat, NEW part \in Seq(Byte), Holds(a, p, part)
      PROVE  Holds(a \o b, p, part)
  <2>1. Len(part) \in Nat
    OBVIOUS
  <2> QED
    BY ONLY <1>1, <1>3, <2>1, p \in Nat DEF Holds
<1>4. Len(a) = m
  OBVIOUS
<1> QED
  BY ONLY <1>1, <1>2, <1>3, <1>4

\* A sequence holds itself, and what its parts hold.
LEMMA HeldWithin ==
    ASSUME NEW d \in Seq(Byte)
    PROVE  /\ Holds(d, 0, d)
           /\ \A p, q \in Nat, e, f \in Seq(Byte) :
                 Holds(d, p, e) /\ Holds(e, q, f) => Holds(d, p + q, f)
<1>1. Holds(d, 0, d)
  <2>1. Len(d) \in Nat
    OBVIOUS
  <2> QED
    BY ONLY <2>1 DEF Holds
<1>2. ASSUME NEW p \in Nat, NEW q \in Nat, NEW e \in Seq(Byte), NEW f \in Seq(Byte),
             Holds(d, p, e), Holds(e, q, f)
      PROVE  Holds(d, p + q, f)
  <2>1. Len(d) \in Nat /\ Len(e) \in Nat /\ Len(f) \in Nat
    OBVIOUS
  <2>2. p + q + Len(f) <= Len(d)
    BY ONLY <1>2, <2>1, p \in Nat, q \in Nat DEF Holds
  <2>3. ASSUME NEW j \in 1..Len(f)
        PROVE  d[p + q + j] = f[j]
    <3>1. q + j \in 1..Len(e) /\ p + (q + j) = p + q + j
      BY ONLY <1>2, <2>1, j \in 1..Len(f), p \in Nat, q \in Nat DEF Holds
    <3>2. d[p + (q + j)] = e[q + j] /\ e[q + j] = f[j]
      BY ONLY <1>2, <3>1, j \in 1..Len(f) DEF Holds
    <3> QED
      BY ONLY <3>1, <3>2
  <2> QED
    BY ONLY <2>2, <2>3 DEF Holds
<1> QED
  BY <1>1, <1>2

\* What the first n bytes hold.
LEMMA HeldFirst ==
    ASSUME NEW b \in Seq(Byte), NEW n \in 0..Len(b)
    PROVE  /\ SubSeq(b, 1, n) \in Seq(Byte) /\ Len(SubSeq(b, 1, n)) = n
           /\ \A p \in Nat, part \in Seq(Byte) :
                 Holds(b, p, part) /\ p + Len(part) <= n => Holds(SubSeq(b, 1, n), p, part)
<1>1. /\ SubSeq(b, 1, n) \in Seq(Byte) /\ Len(SubSeq(b, 1, n)) = n /\ n \in Nat
      /\ \A i \in 1..n : SubSeq(b, 1, n)[i] = b[i]
  OBVIOUS
<1>2. ASSUME NEW p \in Nat, NEW part \in Seq(Byte), Holds(b, p, part), p + Len(part) <= n
      PROVE  Holds(SubSeq(b, 1, n), p, part)
  <2>1. Len(part) \in Nat
    OBVIOUS
  <2>2. \A j \in 1..Len(part) : p + j \in 1..n
    BY ONLY <1>1, <1>2, <2>1, p \in Nat
  <2> QED
    BY ONLY <1>1, <1>2, <2>2 DEF Holds
<1> QED
  BY <1>1, <1>2

\* A held part is read as it is.
LEMMA HeldIsRead ==
    ASSUME NEW d \in Seq(Byte), NEW p \in Nat
    PROVE  /\ \A x \in Byte : Holds(d, p, <<x>>) => At(d, p) = x
           /\ \A x, y \in Byte :
                 Holds(d, p, <<x, y>>) => U16(d, p) = 256 * x + y
           /\ \A part \in Seq(Byte) : Holds(d, p, part) => Slice(d, p, Len(part)) = part
<1>1. ASSUME NEW x \in Byte, Holds(d, p, <<x>>)
      PROVE  At(d, p) = x
  <2>1. Len(<<x>>) = 1 /\ <<x>>[1] = x /\ 1 \in 1..1
    OBVIOUS
  <2>2. 1 \in 1..Len(<<x>>)
    BY <2>1, Zenon
  <2>3. d[p + 1] = <<x>>[1]
    BY <1>1, <2>2, Zenon DEF Holds
  <2> QED
    BY <2>1, <2>3, Zenon DEF At
<1>2. ASSUME NEW x \in Byte, NEW y \in Byte, Holds(d, p, <<x, y>>)
      PROVE  U16(d, p) = 256 * x + y
  <2>1. /\ Len(<<x, y>>) = 2 /\ <<x, y>>[1] = x /\ <<x, y>>[2] = y
        /\ 1 \in 1..2 /\ 2 \in 1..2 /\ p + 1 + 1 = p + 2
    OBVIOUS
  <2>2. 1 \in 1..Len(<<x, y>>) /\ 2 \in 1..Len(<<x, y>>)
    BY <2>1, Zenon
  <2>3. d[p + 1] = <<x, y>>[1] /\ d[p + 2] = <<x, y>>[2]
    BY <1>2, <2>2, Zenon DEF Holds
  <2> QED
    BY <2>1, <2>3, Zenon DEF At, U16
<1>3. ASSUME NEW part \in Seq(Byte), Holds(d, p, part)
      PROVE  Slice(d, p, Len(part)) = part
  <2> DEFINE n == Len(part)
             s == SubSeq(d, p + 1, p + n)
  <2>1. n \in Nat /\ p + n <= Len(d) /\ Len(d) \in Nat
    BY <1>3 DEF Holds
  <2>2. s \in Seq(Byte) /\ Len(s) = n /\ \A j \in 1..n : s[j] = d[p + j]
    <3> HIDE DEF n
    <3> QED
      BY <2>1
  <2>3. \A j \in 1..n : s[j] = part[j]
    BY <1>3, <2>2, Zenon DEF Holds
  <2> HIDE DEF s
  <2>4. s = part
    BY <2>2, <2>3, SeqEqual, Zenon
  <2> QED
    BY <2>4 DEF Slice, s
<1> QED
  BY <1>1, <1>2, <1>3

\* A number of 16 bits is sent as two bytes.
LEMMA TwoBytes ==
    ASSUME NEW n \in Nat, Fits(n)
    PROVE  /\ Two(n) \in Seq(Byte) /\ Len(Two(n)) = 2
           /\ \A d \in Seq(Byte), p \in Nat : Holds(d, p, Two(n)) => U16(d, p) = n
<1>1. n \div 256 \in Byte /\ n % 256 \in Byte /\ 256 * (n \div 256) + (n % 256) = n
  BY DEF Byte, Fits
<1>2. ASSUME NEW d \in Seq(Byte), NEW p \in Nat, Holds(d, p, Two(n))
      PROVE  U16(d, p) = n
  <2> DEFINE x == n \div 256
             y == n % 256
  <2>1. x \in Byte /\ y \in Byte /\ 256 * x + y = n
    BY <1>1
  <2>2. Two(n) = <<x, y>>
    BY DEF Two
  <2> HIDE DEF x, y
  <2>3. Holds(d, p, <<x, y>>)
    BY ONLY <1>2, <2>2, Zenon
  <2>4. U16(d, p) = 256 * x + y
    BY ONLY <2>1, <2>3, d \in Seq(Byte), p \in Nat, HeldIsRead
  <2> QED
    BY ONLY <2>1, <2>4, Zenon
<1>3. Two(n) \in Seq(Byte) /\ Len(Two(n)) = 2
  BY <1>1 DEF Two
<1> QED
  BY <1>2, <1>3

\* Padding is bytes.
LEMMA ZeroBytes ==
    ASSUME NEW n \in Nat
    PROVE  Zeros(n) \in Seq(Byte) /\ Len(Zeros(n)) = n
  BY DEF Zeros, Byte

\* The bytes of each extension.
Part(e)     == Two(e.type) \o Two(Len(e.data)) \o e.data
\* The extensions as bytes, one by one.
ExtParts(x) == [i \in DOMAIN x |-> Part(x[i])]

\* What an extension is made of: its type, the length of its data, the data.
LEMMA PartShape ==
    ASSUME NEW e \in Extension, Fits(e.type), Fits(Len(e.data))
    PROVE  /\ Part(e) \in Seq(Byte) /\ Len(Part(e)) = 4 + Len(e.data)
           /\ Holds(Part(e), 0, Two(e.type)) /\ Holds(Part(e), 2, Two(Len(e.data)))
           /\ Holds(Part(e), 4, e.data)
<1>1. e.type \in Nat /\ e.data \in Seq(Byte) /\ Len(e.data) \in Nat
  BY DEF Extension
<1> DEFINE a == Two(e.type)
           b == Two(Len(e.data))
           c == e.data
<1>2. a \in Seq(Byte) /\ Len(a) = 2
  BY <1>1, TwoBytes
<1>3. b \in Seq(Byte) /\ Len(b) = 2
  BY <1>1, TwoBytes
<1>4. Part(e) = (a \o b) \o c
  BY DEF Part
<1>5. c \in Seq(Byte) /\ Len(c) = Len(e.data)
  BY <1>1
<1>6. Holds(a, 0, a)
  BY <1>2, HeldWithin
<1> HIDE DEF a, b, c
<1>7. /\ a \o b \in Seq(Byte) /\ Len(a \o b) = 2 + Len(b)
      /\ Holds(a \o b, 2, b) /\ Holds(a \o b, 0, a)
  BY ONLY <1>2, <1>3, <1>6, 0 \in Nat, Added, Zenon
<1>8. Len(a \o b) = 4 /\ 2 \in Nat
  BY ONLY <1>3, <1>7
<1>9. /\ (a \o b) \o c \in Seq(Byte) /\ Len((a \o b) \o c) = 4 + Len(c)
      /\ Holds((a \o b) \o c, 4, c)
      /\ Holds((a \o b) \o c, 2, b) /\ Holds((a \o b) \o c, 0, a)
  BY ONLY <1>2, <1>3, <1>5, <1>7, <1>8, 0 \in Nat, Added, Zenon
<1> QED
  BY ONLY <1>4, <1>5, <1>9, Zenon DEF a, b, c

\* The data of server_name.
LEMMA SniData ==
    ASSUME NEW name \in Seq(Byte), Fits(Len(Sni(name).data))
    PROVE  LET c == Sni(name).data
           IN  /\ c \in Seq(Byte) /\ Len(c) = 5 + Len(name) /\ Fits(Len(name))
               /\ Holds(c, 2, <<0>>) /\ Holds(c, 3, Two(Len(name))) /\ Holds(c, 5, name)
<1> DEFINE n == Len(name)
           a == Two(n + 3)
           z == <<0>>
           b == Two(n)
           c == Sni(name).data
<1>1. n \in Nat
  OBVIOUS
<1>2. c = ((a \o z) \o b) \o name
  BY DEF Sni
<1>3. Fits(n + 3) /\ Fits(n)
  <2>1. Byte \subseteq Nat /\ Nat \subseteq Nat
    BY DEF Byte
  <2>2. name \in Seq(Nat)
    BY ONLY <2>1, name \in Seq(Byte), SeqMonotonic, Zenon
  <2>3. name \in Seq(Nat) /\ z \in Seq(Nat)
    BY <2>2
  <2>4. (n + 3) \div 256 \in Nat /\ (n + 3) % 256 \in Nat /\ n \div 256 \in Nat /\ n % 256 \in Nat
    BY <1>1
  <2>5. a \in Seq(Nat) /\ b \in Seq(Nat)
    BY <2>4 DEF Two
  <2>6. Len(a) = 2 /\ Len(b) = 2 /\ Len(z) = 1
    BY DEF Two
  <2> HIDE DEF a, b, c, z, n
  <2>7. \A s, t \in Seq(Nat) : s \o t \in Seq(Nat) /\ Len(s \o t) = Len(s) + Len(t)
    OBVIOUS
  <2>8. a \o z \in Seq(Nat) /\ Len(a \o z) = Len(a) + Len(z)
    BY ONLY <2>3, <2>5, <2>7
  <2>9. (a \o z) \o b \in Seq(Nat) /\ Len((a \o z) \o b) = Len(a \o z) + Len(b)
    BY ONLY <2>3, <2>5, <2>7, <2>8
  <2>10. Len(((a \o z) \o b) \o name) = Len((a \o z) \o b) + Len(name)
    BY ONLY <2>3, <2>9, <2>7
  <2>11. Len(c) = 5 + n
    BY ONLY <1>2, <2>6, <2>8, <2>9, <2>10, n \in Nat, <1>1 DEF n
  <2>12. Fits(Len(c))
    BY DEF c
  <2> QED
    BY ONLY <1>1, <2>11, <2>12 DEF Fits
<1>4. a \in Seq(Byte) /\ Len(a) = 2
  BY <1>1, <1>3, TwoBytes
<1>5. b \in Seq(Byte) /\ Len(b) = 2
  BY <1>1, <1>3, TwoBytes
<1>6. z \in Seq(Byte) /\ Len(z) = 1
  BY DEF Byte
<1> HIDE DEF a, b, c, z
<1>7. a \o z \in Seq(Byte) /\ Len(a \o z) = 2 + Len(z) /\ Holds(a \o z, 2, z)
  BY ONLY <1>4, <1>6, Added, Zenon
<1>8. Len(a \o z) = 3 /\ 2 \in Nat /\ 3 \in Nat
  BY ONLY <1>6, <1>7
<1>9. /\ (a \o z) \o b \in Seq(Byte) /\ Len((a \o z) \o b) = 3 + Len(b)
      /\ Holds((a \o z) \o b, 3, b) /\ Holds((a \o z) \o b, 2, z)
  BY ONLY <1>5, <1>6, <1>7, <1>8, Added, Zenon
<1>10. Len((a \o z) \o b) = 5
  BY ONLY <1>5, <1>9
<1>11. /\ c \in Seq(Byte) /\ Len(c) = 5 + Len(name) /\ Holds(c, 5, name)
       /\ Holds(c, 3, b) /\ Holds(c, 2, z)
  BY ONLY <1>2, <1>5, <1>6, <1>8, <1>9, <1>10, name \in Seq(Byte), Added, Zenon
<1>12. Fits(Len(name))
  BY <1>1, <1>3
<1> QED
  BY ONLY <1>11, <1>12 DEF b, c, z, n

\* The bytes of the extensions of a hello are those of each, one after the other.
LEMMA ExtShape ==
    ASSUME NEW m, IsHelloMessage(m), NEW x, x = m.exts
    PROVE  /\ x \in Seq(Extension) /\ ExtParts(x) \in Seq(Seq(Byte)) /\ Len(ExtParts(x)) = Len(x)
           /\ ExtBytes(x) = FlattenSeq(ExtParts(x))
           /\ \A k \in 1..Len(x) :
                 /\ ExtParts(x)[k] = Part(x[k]) /\ x[k] \in Extension
                 /\ Fits(x[k].type) /\ Fits(Len(x[k].data))
<1>1. x \in Seq(Extension) /\ DOMAIN x = 1..Len(x) /\ Len(x) \in Nat
  BY DEF IsHelloMessage
<1>2. \A k \in 1..Len(x) : x[k] \in Extension /\ Fits(x[k].type) /\ Fits(Len(x[k].data))
  BY <1>1 DEF IsHelloMessage
<1>3. ExtBytes(x) = FlattenSeq(ExtParts(x))
  BY DEF ExtBytes, ExtParts, Part
<1>4. \A k \in 1..Len(x) : ExtParts(x)[k] = Part(x[k])
  BY <1>1 DEF ExtParts
<1>5. ExtParts(x) \in Seq(Seq(Byte)) /\ Len(ExtParts(x)) = Len(x)
  <2>1. ExtParts(x) = [k \in 1..Len(x) |-> Part(x[k])]
    BY <1>1 DEF ExtParts
  <2>2. \A k \in 1..Len(x) : Part(x[k]) \in Seq(Byte)
    BY <1>2, PartShape
  <2> QED
    BY <1>1, <2>1, <2>2
<1> QED
  BY <1>1, <1>2, <1>3, <1>4, <1>5

\* The numbers that are bytes.
LEMMA IsByte ==
    ASSUME NEW x \in Nat, x <= 255
    PROVE  x \in Byte
  BY DEF Byte

\* One and two bytes that are held.
LEMMA HeldBytes ==
    ASSUME NEW d \in Seq(Byte), NEW p \in Nat, p + 1 <= Len(d)
    PROVE  /\ \A x : d[p + 1] = x => Holds(d, p, <<x>>)
           /\ \A x, y : p + 2 <= Len(d) /\ d[p + 1] = x /\ d[p + 2] = y => Holds(d, p, <<x, y>>)
<1>1. ASSUME NEW x, d[p + 1] = x
      PROVE  Holds(d, p, <<x>>)
  <2>1. Len(<<x>>) = 1 /\ <<x>>[1] = x /\ \A j \in 1..1 : j = 1
    OBVIOUS
  <2>2. \A j \in 1..Len(<<x>>) : j = 1
    BY ONLY <2>1, Zenon
  <2> QED
    BY ONLY <1>1, <2>1, <2>2, p + 1 <= Len(d), Zenon DEF Holds
<1>2. ASSUME NEW x, NEW y, p + 2 <= Len(d), d[p + 1] = x, d[p + 2] = y
      PROVE  Holds(d, p, <<x, y>>)
  <2>1. /\ Len(<<x, y>>) = 2 /\ <<x, y>>[1] = x /\ <<x, y>>[2] = y
        /\ \A j \in 1..2 : j = 1 \/ j = 2
    OBVIOUS
  <2>2. \A j \in 1..Len(<<x, y>>) : j = 1 \/ j = 2
    BY ONLY <2>1, Zenon
  <2> QED
    BY ONLY <1>2, <2>1, <2>2, Zenon DEF Holds
<1> QED
  BY <1>1, <1>2

\* A sequence of n bytes that holds parts, each a pair of a position and bytes.
Layout(d, n, parts) ==
    /\ d \in Seq(Byte) /\ Len(d) = n
    /\ \A h \in parts : h \in Nat \X Seq(Byte) /\ Holds(d, h[1], h[2])

\* What is added to a layout is one more part at its end.
LEMMA LayoutGrows ==
    ASSUME NEW d, NEW n \in Nat, NEW parts, Layout(d, n, parts),
           NEW a \in Seq(Byte), NEW k, k = n + Len(a)
    PROVE  Layout(d \o a, k, parts \cup {<<n, a>>})
<1>1. d \in Seq(Byte) /\ Len(d) = n
  BY DEF Layout
<1>2. /\ d \o a \in Seq(Byte) /\ Len(d \o a) = n + Len(a) /\ Holds(d \o a, n, a)
      /\ \A p \in Nat, part \in Seq(Byte) : Holds(d, p, part) => Holds(d \o a, p, part)
  BY ONLY <1>1, a \in Seq(Byte), Added
<1>3. ASSUME NEW h \in parts
      PROVE  h \in Nat \X Seq(Byte) /\ Holds(d \o a, h[1], h[2])
  <2>1. h \in Nat \X Seq(Byte) /\ Holds(d, h[1], h[2])
    BY DEF Layout
  <2>2. h[1] \in Nat /\ h[2] \in Seq(Byte)
    BY <2>1
  <2> QED
    BY ONLY <1>2, <2>1, <2>2
<1>4. /\ <<n, a>> \in Nat \X Seq(Byte)
      /\ <<n, a>>[1] = n /\ <<n, a>>[2] = a
  OBVIOUS
<1>5. \A h \in parts \cup {<<n, a>>} : h \in Nat \X Seq(Byte) /\ Holds(d \o a, h[1], h[2])
  BY ONLY <1>2, <1>3, <1>4
<1> QED
  BY ONLY <1>2, <1>5, k = n + Len(a) DEF Layout

\* Each part of a layout is held where the layout says.
LEMMA LayoutHas ==
    ASSUME NEW d, NEW n, NEW parts, Layout(d, n, parts), NEW p, NEW a, <<p, a>> \in parts
    PROVE  Holds(d, p, a)
<1>1. Holds(d, <<p, a>>[1], <<p, a>>[2])
  BY Zenon DEF Layout
<1>2. <<p, a>>[1] = p /\ <<p, a>>[2] = a
  OBVIOUS
<1> QED
  BY <1>1, <1>2, Zenon

-----------------------------------------------------------------------------
(* A TLS hello.                                                            *)

\* The parts before the extensions whose length is the client's choice.
Lengths(m) == Len(m.session) + Len(m.ciphers) + Len(m.methods)

\* Where a hello b with s bytes in those parts and the extensions e has what.
HelloLayout(m, b, s, e) ==
    /\ b \in Seq(Byte) /\ s \in Nat /\ e \in Seq(Byte)
    /\ Len(m.session) \in Byte /\ Len(m.ciphers) \in Nat /\ Fits(Len(m.ciphers))
    /\ Len(m.methods) \in Byte /\ s = Len(m.session) + Len(m.ciphers) + Len(m.methods)
    /\ Len(e) \in Nat /\ Fits(Len(e))
    /\ Len(b) = 49 + s + Len(e) + Len(m.after) /\ Len(m.after) \in Nat
    /\ Holds(b, 0, <<IF m.kind = "hello" THEN 22 ELSE 23>>)
    /\ Holds(b, 1, <<3>>) /\ Holds(b, 5, <<1>>) /\ Holds(b, 43, <<Len(m.session)>>)
    /\ Holds(b, 44 + Len(m.session), Two(Len(m.ciphers)))
    /\ Holds(b, 46 + Len(m.session) + Len(m.ciphers), <<Len(m.methods)>>)
    /\ Holds(b, 47 + s, Two(Len(e))) /\ Holds(b, 49 + s, e)

\* HelloBytes puts everything there, whatever the parts are.
LEMMA HelloShape ==
    ASSUME NEW m, IsHelloMessage(m),
           NEW b, b = HelloBytes(m), NEW s, s = Lengths(m), NEW e, e = ExtBytes(m.exts)
    PROVE  HelloLayout(m, b, s, e)
<1> DEFINE t  == IF m.kind = "hello" THEN 22 ELSE 23
           p1 == <<t, 3, 1, 0, 0, 1, 0, 0, 0, 3, 3>>
           p2 == Zeros(32)
           p4 == m.session
           p6 == m.ciphers
           p8 == m.methods
           p11 == m.after
           x  == Len(p4)
           y  == Len(p6)
           z  == Len(p8)
           l  == Len(e)
           p3 == <<x>>
           p5 == Two(y)
           p7 == <<z>>
           p9 == Two(l)
           h1 == {<<0, <<t>>>>, <<1, <<3>>>>, <<5, <<1>>>>}
           h2 == h1 \cup {<<11, p2>>}
           h3 == h2 \cup {<<43, p3>>}
           h4 == h3 \cup {<<44, p4>>}
           h5 == h4 \cup {<<44 + x, p5>>}
           h6 == h5 \cup {<<46 + x, p6>>}
           h7 == h6 \cup {<<46 + x + y, p7>>}
           h8 == h7 \cup {<<47 + x + y, p8>>}
           h9 == h8 \cup {<<47 + s, p9>>}
           h10 == h9 \cup {<<49 + s, e>>}
           h11 == h10 \cup {<<49 + s + l, p11>>}
           q2 == p1 \o p2
           q3 == q2 \o p3
           q4 == q3 \o p4
           q5 == q4 \o p5
           q6 == q5 \o p6
           q7 == q6 \o p7
           q8 == q7 \o p8
           q9 == q8 \o p9
           q10 == q9 \o e
           q11 == q10 \o p11
<1>0. /\ p4 \in Seq(Byte) /\ x \in Byte /\ p6 \in Seq(Byte) /\ Fits(y)
      /\ p8 \in Seq(Byte) /\ z \in Byte /\ p11 \in Seq(Byte) /\ Fits(Len(ExtBytes(m.exts)))
  BY DEF IsHelloMessage
<1>1. s = x + y + z
  BY DEF Lengths
<1>2. e \in Seq(Byte) /\ l \in Nat /\ Fits(l)
  <2>1. e = FlattenSeq(ExtParts(m.exts)) /\ ExtParts(m.exts) \in Seq(Seq(Byte))
    BY ExtShape
  <2>2. e \in Seq(Byte)
    BY <2>1, Positions
  <2> QED
    BY <1>0, <2>2
<1>3. t \in Byte /\ 0 \in Byte /\ 1 \in Byte /\ 3 \in Byte
  <2>1. t \in Nat /\ t <= 255
    OBVIOUS
  <2> QED
    BY ONLY <2>1, IsByte
<1>4. b = q11
  BY DEF HelloBytes
<1> HIDE DEF p4, p6, p8, p11
<1>5. y \in Nat /\ Len(p11) \in Nat
  BY ONLY <1>0
<1> HIDE DEF x, y, z, l
<1>6. x \in Nat /\ z \in Nat /\ s \in Nat
  BY ONLY <1>0, <1>1, <1>5 DEF Byte
<1>7. Layout(p1, 11, h1)
  <2> HIDE DEF t
  <2>1. p1 \in Seq(Byte) /\ Len(p1) = 11 /\ p1[1] = t /\ p1[2] = 3 /\ p1[6] = 1
    BY <1>3
  <2> HIDE DEF p1
  <2>2. /\ 0 \in Nat /\ 1 \in Nat /\ 5 \in Nat /\ 0 + 1 = 1 /\ 1 + 1 = 2 /\ 5 + 1 = 6
        /\ 0 + 1 <= Len(p1) /\ 1 + 1 <= Len(p1) /\ 5 + 1 <= Len(p1)
    BY ONLY <2>1
  <2>3. Holds(p1, 0, <<t>>) /\ Holds(p1, 1, <<3>>) /\ Holds(p1, 5, <<1>>)
    <3>1. Holds(p1, 0, <<t>>)
      BY ONLY <2>1, <2>2, HeldBytes, Zenon
    <3>2. Holds(p1, 1, <<3>>)
      BY ONLY <2>1, <2>2, HeldBytes, Zenon
    <3>3. Holds(p1, 5, <<1>>)
      BY ONLY <2>1, <2>2, HeldBytes, Zenon
    <3> QED
      BY <3>1, <3>2, <3>3
  <2>4. ASSUME NEW h \in h1
        PROVE  h \in Nat \X Seq(Byte) /\ Holds(p1, h[1], h[2])
    <3>1. <<t>> \in Seq(Byte) /\ <<3>> \in Seq(Byte) /\ <<1>> \in Seq(Byte)
      BY <1>3
    <3>2. PICK p, a : h = <<p, a>> /\ p \in Nat /\ a \in Seq(Byte) /\ Holds(p1, p, a)
      BY ONLY <2>2, <2>3, <3>1, h \in h1, Zenon
    <3> QED
      BY ONLY <3>2
  <2> QED
    BY <2>1, <2>4, Zenon DEF Layout
<1>8. p2 \in Seq(Byte) /\ Len(p2) = 32
  BY ZeroBytes
<1>9. p3 \in Seq(Byte) /\ Len(p3) = 1 /\ p7 \in Seq(Byte) /\ Len(p7) = 1
  BY ONLY <1>0
<1>10. p5 \in Seq(Byte) /\ Len(p5) = 2 /\ p9 \in Seq(Byte) /\ Len(p9) = 2
  BY <1>0, <1>2, <1>5, TwoBytes
<1>11. Len(p4) = x /\ Len(p6) = y /\ Len(p8) = z /\ Len(e) = l
  BY ONLY Zenon DEF x, y, z, l
<1> HIDE DEF p1, p2, p3, p5, p7, p9, t, h1, q2, q3, q4, q5, q6, q7, q8, q9, q10, q11,
             h2, h3, h4, h5, h6, h7, h8, h9, h10, h11
<1>12. Layout(q2, 43, h2)
  <2>1. 11 \in Nat /\ 43 = 11 + Len(p2)
    BY ONLY <1>8
  <2> QED
    BY ONLY <1>7, <1>8, <2>1, LayoutGrows DEF q2, h2
<1>13. Layout(q3, 44, h3)
  <2>1. 43 \in Nat /\ 44 = 43 + Len(p3)
    BY ONLY <1>9
  <2> QED
    BY ONLY <1>12, <1>9, <2>1, LayoutGrows DEF q3, h3
<1>14. Layout(q4, 44 + x, h4)
  <2>1. 44 \in Nat /\ 44 + x = 44 + Len(p4)
    BY ONLY <1>6, <1>11
  <2> QED
    BY ONLY <1>13, <1>0, <2>1, LayoutGrows DEF q4, h4
<1>15. Layout(q5, 46 + x, h5)
  <2>1. 44 + x \in Nat /\ 46 + x = 44 + x + Len(p5)
    BY ONLY <1>6, <1>10
  <2> QED
    BY ONLY <1>14, <1>10, <2>1, LayoutGrows DEF q5, h5
<1>16. Layout(q6, 46 + x + y, h6)
  <2>1. 46 + x \in Nat /\ 46 + x + y = 46 + x + Len(p6)
    BY ONLY <1>5, <1>6, <1>11
  <2> QED
    BY ONLY <1>15, <1>0, <2>1, LayoutGrows DEF q6, h6
<1>17. Layout(q7, 47 + x + y, h7)
  <2>1. 46 + x + y \in Nat /\ 47 + x + y = 46 + x + y + Len(p7)
    BY ONLY <1>5, <1>6, <1>9
  <2> QED
    BY ONLY <1>16, <1>9, <2>1, LayoutGrows DEF q7, h7
<1>18. Layout(q8, 47 + s, h8)
  <2>1. 47 + x + y \in Nat /\ 47 + s = 47 + x + y + Len(p8)
    BY ONLY <1>1, <1>5, <1>6, <1>11
  <2> QED
    BY ONLY <1>17, <1>0, <2>1, LayoutGrows DEF q8, h8
<1>19. Layout(q9, 49 + s, h9)
  <2>1. 47 + s \in Nat /\ 49 + s = 47 + s + Len(p9)
    BY ONLY <1>6, <1>10
  <2> QED
    BY ONLY <1>18, <1>10, <2>1, LayoutGrows DEF q9, h9
<1>20. Layout(q10, 49 + s + l, h10)
  <2>1. 49 + s \in Nat /\ 49 + s + l = (49 + s) + Len(e)
    BY ONLY <1>2, <1>6, <1>11
  <2> QED
    BY ONLY <1>19, <1>2, <2>1, LayoutGrows DEF q10, h10
<1>21. Layout(q11, 49 + s + l + Len(p11), h11)
  <2>1. 49 + s + l \in Nat
    BY ONLY <1>2, <1>6
  <2> QED
    BY ONLY <1>20, <1>0, <2>1, LayoutGrows DEF q11, h11
<1>22. /\ <<0, <<t>>>> \in h11 /\ <<1, <<3>>>> \in h11 /\ <<5, <<1>>>> \in h11
       /\ <<43, p3>> \in h11 /\ <<44 + x, p5>> \in h11 /\ <<46 + x + y, p7>> \in h11
       /\ <<47 + s, p9>> \in h11 /\ <<49 + s, e>> \in h11
  BY ONLY Zenon DEF h1, h2, h3, h4, h5, h6, h7, h8, h9, h10, h11
<1>23. /\ Holds(q11, 0, <<t>>) /\ Holds(q11, 1, <<3>>) /\ Holds(q11, 5, <<1>>)
       /\ Holds(q11, 43, p3) /\ Holds(q11, 44 + x, p5) /\ Holds(q11, 46 + x + y, p7)
       /\ Holds(q11, 47 + s, p9) /\ Holds(q11, 49 + s, e)
  BY ONLY <1>21, <1>22, LayoutHas, Zenon
<1>24. q11 \in Seq(Byte) /\ Len(q11) = 49 + s + l + Len(p11)
  BY ONLY <1>21, Zenon DEF Layout
<1>25. /\ Holds(b, 0, <<t>>) /\ Holds(b, 1, <<3>>) /\ Holds(b, 5, <<1>>)
       /\ Holds(b, 43, p3) /\ Holds(b, 44 + x, p5) /\ Holds(b, 46 + x + y, p7)
       /\ Holds(b, 47 + s, p9) /\ Holds(b, 49 + s, e)
       /\ b \in Seq(Byte) /\ Len(b) = 49 + s + l + Len(p11)
  BY ONLY <1>4, <1>23, <1>24, Zenon
<1>26. /\ Holds(b, 0, <<IF m.kind = "hello" THEN 22 ELSE 23>>)
       /\ Holds(b, 43, <<Len(m.session)>>)
       /\ Holds(b, 44 + Len(m.session), Two(Len(m.ciphers)))
       /\ Holds(b, 46 + Len(m.session) + Len(m.ciphers), <<Len(m.methods)>>)
       /\ Holds(b, 47 + s, Two(Len(e)))
       /\ Len(b) = 49 + s + Len(e) + Len(m.after) /\ Len(m.after) \in Nat
       /\ Len(m.session) \in Byte /\ Len(m.ciphers) \in Nat /\ Fits(Len(m.ciphers))
       /\ Len(m.methods) \in Byte /\ s = Len(m.session) + Len(m.ciphers) + Len(m.methods)
  BY <1>0, <1>1, <1>5, <1>25, Zenon DEF t, p3, p4, p5, p6, p7, p8, p9, p11, x, y, z, l
<1>27. e \in Seq(Byte) /\ Len(e) \in Nat /\ Fits(Len(e))
  BY ONLY <1>2, Zenon DEF l
<1> QED
  BY ONLY <1>6, <1>25, <1>26, <1>27, PTL DEF HelloLayout

\* How far the parser gets with the bytes d, the first n of a hello.
HelloParse(m, d, n, s, e) ==
    /\ d \in Seq(Byte) /\ Len(d) = n
    /\ HasExtensions(d) <=> m.kind = "hello" /\ 49 + s <= n
    /\ HasExtensions(d) => /\ ExtStart(d) = 49 + s
                           /\ ExtEnd(d) <= 49 + s + Len(e) /\ ExtEnd(d) <= n
                           /\ (ExtEnd(d) = 49 + s + Len(e) \/ ExtEnd(d) = n)

\* HasExtensions, ExtStart and ExtEnd find that in the first n bytes.
LEMMA HelloRead ==
    ASSUME NEW m, IsHelloMessage(m), NEW b, b = HelloBytes(m), NEW n \in 0..Len(b),
           NEW d, d = SubSeq(b, 1, n), NEW s, s = Lengths(m), NEW e, e = ExtBytes(m.exts)
    PROVE  HelloParse(m, d, n, s, e)
<1> DEFINE t == IF m.kind = "hello" THEN 22 ELSE 23
           l == Len(e)
           x == Len(m.session)
           y == Len(m.ciphers)
           z == Len(m.methods)
<1>0. HelloLayout(m, b, s, e)
  BY ONLY IsHelloMessage(m), b = HelloBytes(m), s = Lengths(m), e = ExtBytes(m.exts),
          HelloShape, Zenon
<1>1. /\ b \in Seq(Byte) /\ s \in Nat /\ l \in Nat /\ Fits(l)
      /\ x \in Byte /\ y \in Nat /\ Fits(y) /\ z \in Byte /\ s = x + y + z
      /\ Holds(b, 0, <<t>>) /\ Holds(b, 1, <<3>>) /\ Holds(b, 5, <<1>>) /\ Holds(b, 43, <<x>>)
      /\ Holds(b, 44 + x, Two(y)) /\ Holds(b, 46 + x + y, <<z>>) /\ Holds(b, 47 + s, Two(l))
  BY ONLY <1>0, PTL DEF HelloLayout, t, l, x, y, z
<1>2. n \in Nat
  BY ONLY <1>1, n \in 0..Len(b)
<1>3. /\ d \in Seq(Byte) /\ Len(d) = n
      /\ \A p \in Nat, part \in Seq(Byte) :
            Holds(b, p, part) /\ p + Len(part) <= n => Holds(d, p, part)
  <2>1. /\ SubSeq(b, 1, n) \in Seq(Byte) /\ Len(SubSeq(b, 1, n)) = n
        /\ \A p \in Nat, part \in Seq(Byte) :
              Holds(b, p, part) /\ p + Len(part) <= n => Holds(SubSeq(b, 1, n), p, part)
    BY ONLY <1>1, n \in 0..Len(b), HeldFirst
  <2> QED
    BY ONLY <2>1, d = SubSeq(b, 1, n), Zenon
<1> HIDE DEF t, l, x, y, z
<1>4. /\ t \in Byte /\ x \in Nat /\ z \in Nat /\ 1 \in Byte /\ 3 \in Byte
      /\ (t = 22 <=> m.kind = "hello")
  <2>1. x \in Nat /\ z \in Nat /\ t \in Nat /\ t <= 255 /\ (t = 22 <=> m.kind = "hello")
    BY <1>1 DEF t, Byte
  <2> QED
    BY ONLY <1>1, <2>1, IsByte
<1>5. Two(l) \in Seq(Byte) /\ Len(Two(l)) = 2
  BY ONLY <1>1, TwoBytes
<1>6. ASSUME NEW p \in Nat, NEW v \in Byte, Holds(b, p, <<v>>), p + 1 <= n
      PROVE  At(d, p) = v
  <2>1. <<v>> \in Seq(Byte) /\ p + Len(<<v>>) <= n
    BY ONLY v \in Byte, p + 1 <= n, p \in Nat
  <2>2. Holds(d, p, <<v>>)
    BY ONLY <1>3, <1>6, <2>1
  <2> QED
    BY ONLY <1>3, <2>2, v \in Byte, p \in Nat, HeldIsRead
<1>7. IsHello(d) <=> n >= 43 /\ m.kind = "hello"
  <2>1. ASSUME n >= 43
        PROVE  At(d, 0) = t /\ At(d, 1) = 3 /\ At(d, 5) = 1
    <3>1. 0 + 1 <= n /\ 1 + 1 <= n /\ 5 + 1 <= n /\ 0 \in Nat /\ 1 \in Nat /\ 5 \in Nat
      BY ONLY <2>1, <1>2
    <3> QED
      BY ONLY <1>1, <1>4, <1>6, <3>1
  <2> QED
    BY ONLY <1>2, <1>3, <1>4, <2>1 DEF IsHello
<1>8. n >= 44 => AfterSession(d) = 44 + x
  <2>1. n >= 44 => 43 + 1 <= n /\ 43 \in Nat
    BY ONLY <1>2
  <2>2. n >= 44 => At(d, 43) = x
    BY ONLY <1>1, <1>6, <2>1
  <2> QED
    BY ONLY <2>2 DEF AfterSession
<1>9. n >= 46 + x => AfterCiphers(d) = 46 + x + y
  <2>1. n >= 46 + x => n >= 44 /\ 44 + x \in Nat /\ 44 + x + 2 <= n
    BY ONLY <1>2, <1>4
  <2>2. ASSUME n >= 46 + x
        PROVE  U16(d, 44 + x) = y
    <3>1. Two(y) \in Seq(Byte) /\ Len(Two(y)) = 2
      BY ONLY <1>1, TwoBytes
    <3>2. 44 + x \in Nat /\ 44 + x + Len(Two(y)) <= n
      BY ONLY <2>1, <2>2, <3>1, Zenon
    <3>3. Holds(d, 44 + x, Two(y))
      BY ONLY <1>1, <1>3, <3>1, <3>2, Zenon
    <3> QED
      BY ONLY <1>1, <1>3, <3>2, <3>3, TwoBytes
  <2> QED
    BY ONLY <1>1, <1>4, <1>8, <2>1, <2>2 DEF AfterCiphers
<1>10. n >= 47 + x + y => AfterCompression(d) = 47 + s
  <2>1. n >= 47 + x + y => n >= 46 + x /\ 46 + x + y \in Nat /\ 46 + x + y + 1 <= n
    BY ONLY <1>1, <1>2, <1>4
  <2>2. n >= 47 + x + y => At(d, 46 + x + y) = z
    BY ONLY <1>1, <1>6, <2>1
  <2> QED
    BY ONLY <1>1, <1>4, <1>9, <2>1, <2>2 DEF AfterCompression
<1>11. ASSUME n >= 49 + s
       PROVE  U16(d, 47 + s) = l
  <2>1. 47 + s \in Nat /\ 47 + s + 2 <= n
    BY ONLY <1>1, <1>2, <1>11
  <2>2. 47 + s + Len(Two(l)) <= n
    BY ONLY <1>5, <2>1, Zenon
  <2>3. Holds(d, 47 + s, Two(l))
    BY ONLY <1>1, <1>3, <1>5, <2>1, <2>2, Zenon
  <2> QED
    BY ONLY <1>1, <1>3, <2>1, <2>3, TwoBytes
<1>12. HasExtensions(d) <=> m.kind = "hello" /\ 49 + s <= n
  BY ONLY <1>1, <1>2, <1>3, <1>4, <1>7, <1>8, <1>9, <1>10 DEF HasExtensions
<1>13. n >= 49 + s => /\ ExtStart(d) = 49 + s
                      /\ ExtEnd(d) = IF 49 + s + l > n THEN n ELSE 49 + s + l
  <2>1. n >= 49 + s => n >= 47 + x + y
    BY ONLY <1>1, <1>2, <1>4
  <2>2. n >= 49 + s => AfterCompression(d) = 47 + s /\ 47 + s + 2 = 49 + s
    BY ONLY <1>1, <1>10, <2>1
  <2> QED
    BY ONLY <1>3, <1>11, <2>2 DEF ExtStart, ExtEnd
<1>14. HasExtensions(d) => /\ ExtStart(d) = 49 + s
                           /\ ExtEnd(d) <= 49 + s + l /\ ExtEnd(d) <= n
                           /\ (ExtEnd(d) = 49 + s + l \/ ExtEnd(d) = n)
  BY ONLY <1>1, <1>2, <1>12, <1>13
<1> QED
  BY <1>3, <1>12, <1>14, Zenon DEF l, HelloParse

\* HeldFirst, with a name for the first n bytes.
LEMMA FirstBytes ==
    ASSUME NEW b \in Seq(Byte), NEW n \in 0..Len(b), NEW d, d = SubSeq(b, 1, n)
    PROVE  /\ d \in Seq(Byte) /\ Len(d) = n
           /\ \A p \in Nat, part \in Seq(Byte) :
                 Holds(b, p, part) /\ p + Len(part) <= n => Holds(d, p, part)
<1>1. /\ SubSeq(b, 1, n) \in Seq(Byte) /\ Len(SubSeq(b, 1, n)) = n
      /\ \A p \in Nat, part \in Seq(Byte) :
            Holds(b, p, part) /\ p + Len(part) <= n => Holds(SubSeq(b, 1, n), p, part)
  BY ONLY b \in Seq(Byte), n \in 0..Len(b), HeldFirst
<1> QED
  BY ONLY <1>1, d = SubSeq(b, 1, n), Zenon

\* What is read of the first n bytes where all of it is there.
LEMMA ReadByte ==
    ASSUME NEW b \in Seq(Byte), NEW n \in 0..Len(b), NEW d, d = SubSeq(b, 1, n),
           NEW p \in Nat, NEW x \in Byte, Holds(b, p, <<x>>), p + 1 <= n
    PROVE  At(d, p) = x
<1>1. <<x>> \in Seq(Byte) /\ p + Len(<<x>>) <= n
  BY ONLY x \in Byte, p + 1 <= n, p \in Nat
<1>2. d \in Seq(Byte) /\ Holds(d, p, <<x>>)
  BY <1>1, FirstBytes, Zenon
<1> QED
  BY ONLY <1>2, x \in Byte, p \in Nat, HeldIsRead

\* The same of a number of 16 bits.
LEMMA ReadTwo ==
    ASSUME NEW b \in Seq(Byte), NEW n \in 0..Len(b), NEW d, d = SubSeq(b, 1, n),
           NEW p \in Nat, NEW v \in Nat, Fits(v), Holds(b, p, Two(v)), p + 2 <= n
    PROVE  U16(d, p) = v
<1>1. Two(v) \in Seq(Byte) /\ Len(Two(v)) = 2
  BY ONLY v \in Nat, Fits(v), TwoBytes
<1>2. p + Len(Two(v)) <= n
  BY ONLY <1>1, p + 2 <= n, Zenon
<1>3. d \in Seq(Byte) /\ Holds(d, p, Two(v))
  BY <1>1, <1>2, FirstBytes, Zenon
<1> QED
  BY ONLY <1>3, v \in Nat, Fits(v), p \in Nat, TwoBytes

\* The same of a part of any length.
LEMMA ReadPart ==
    ASSUME NEW b \in Seq(Byte), NEW n \in 0..Len(b), NEW d, d = SubSeq(b, 1, n),
           NEW p \in Nat, NEW part \in Seq(Byte), Holds(b, p, part), p + Len(part) <= n
    PROVE  Slice(d, p, Len(part)) = part
<1>1. d \in Seq(Byte) /\ Holds(d, p, part)
  BY FirstBytes, Zenon
<1> QED
  BY ONLY <1>1, p \in Nat, part \in Seq(Byte), HeldIsRead

\* Parts of which one has bytes at most make that one.
LEMMA OnlyPart ==
    ASSUME NEW s \in Seq(Seq(Byte)), NEW j \in 1..Len(s) + 1,
           \A i \in 1..Len(s) : i # j => s[i] = <<>>
    PROVE  FlattenSeq(s) = IF j <= Len(s) THEN s[j] ELSE <<>>
<1> DEFINE P == Beginnings(s)
           N == Len(s)
           Is(k) == P[k] = IF j <= k THEN s[j] ELSE <<>>
           Good == {k \in Nat : k <= N => Is(k)}
<1>1. N \in Nat /\ j \in Nat /\ 1 <= j /\ j <= N + 1 /\ \A k \in 1..N : s[k] \in Seq(Byte)
  OBVIOUS
<1>2. P[0] = <<>> /\ (\A k \in 1..N : P[k] = P[k - 1] \o s[k]) /\ FlattenSeq(s) = P[N]
  BY Flatten
<1> HIDE DEF P, N, Is
<1>3. 0 \in Good
  <2>1. ~(j <= 0)
    BY ONLY <1>1
  <2> QED
    BY ONLY <1>2, <2>1, 0 \in Nat DEF Is
<1>4. ASSUME NEW k \in Good
      PROVE  k + 1 \in Good
  <2>0. k \in Nat /\ k + 1 \in Nat
    OBVIOUS
  <2>1. SUFFICES ASSUME k + 1 <= N
                 PROVE  Is(k + 1)
    BY <2>0
  <2>2. k + 1 \in 1..N /\ (k + 1) - 1 = k /\ k <= N
    BY ONLY <1>1, <2>0, <2>1
  <2>3. P[k + 1] = P[k] \o s[k + 1] /\ s[k + 1] \in Seq(Byte)
    BY ONLY <1>1, <1>2, <2>2
  <2>4. Is(k)
    BY <2>2
  <2>5. CASE j = k + 1
    <3>1. ~(j <= k) /\ j <= k + 1
      BY ONLY <1>1, <2>0, <2>5
    <3>2. P[k] = <<>>
      BY ONLY <2>4, <3>1 DEF Is
    <3>3. P[k + 1] = <<>> \o s[k + 1]
      BY ONLY <2>3, <3>2, Zenon
    <3>4. P[k + 1] = s[k + 1]
      BY ONLY <2>3, <3>3, ConcatEmptySeq
    <3> QED
      BY ONLY <2>5, <3>1, <3>4 DEF Is
  <2>6. CASE j # k + 1
    <3>1. s[k + 1] = <<>> /\ (j <= k <=> j <= k + 1)
      BY ONLY <1>1, <2>0, <2>2, <2>6, \A i \in 1..Len(s) : i # j => s[i] = <<>> DEF N
    <3>2. P[k] \in Seq(Byte)
      <4>1. <<>> \in Seq(Byte)
        OBVIOUS
      <4>2. j <= k => j \in 1..N
        BY ONLY <1>1, <2>0, <2>2
      <4> QED
        BY ONLY <1>1, <2>4, <4>1, <4>2 DEF Is
    <3>3. P[k + 1] = P[k] \o <<>>
      BY ONLY <2>3, <3>1, Zenon
    <3>4. P[k + 1] = P[k]
      BY ONLY <3>2, <3>3, ConcatEmptySeq
    <3> QED
      BY ONLY <2>4, <3>1, <3>4 DEF Is
  <2> QED
    BY ONLY <2>5, <2>6
<1>5. Good = Nat
  <2>1. Good \subseteq Nat
    OBVIOUS
  <2> HIDE DEF Good
  <2> QED
    BY ONLY <1>3, <1>4, <2>1, CountUp
<1>6. N \in Good
  BY ONLY <1>1, <1>5, Zenon
<1>7. Is(N)
  BY ONLY <1>1, <1>6
<1> QED
  BY ONLY <1>2, <1>7 DEF N, Is

\* Of the extensions x the j-th, if there is one, has type 0, and no other.
Sole(x, j) == j \in 1..Len(x) + 1 /\ \A i \in 1..Len(x) : x[i].type = 0 <=> i = j

\* The name found in d, the first n bytes of the hello m.
Found(m, x, j, n, d) ==
    extract_sni(d) = IF /\ m.kind = "hello" /\ j <= Len(x)
                        /\ 49 + Lengths(m) + Taken(ExtParts(x), j) <= n
                     THEN x[j].name ELSE NoName

\* extract_sni finds server_name when, and only when, all of it is there,
\* wherever it stands among the extensions.
LEMMA SniOfFirst ==
    ASSUME NEW m, IsHelloMessage(m), NEW x, x = m.exts, NEW j, Sole(x, j),
           NEW b, b = HelloBytes(m), NEW n \in 0..Len(b), NEW d, d = SubSeq(b, 1, n)
    PROVE  Found(m, x, j, n, d)
<1>a. j \in 1..Len(x) + 1 /\ \A i \in 1..Len(x) : x[i].type = 0 <=> i = j
  BY DEF Sole
<1> DEFINE s == Lengths(m)
           e == ExtBytes(m.exts)
           q == Len(x)
           parts == ExtParts(x)
           T(k) == Taken(parts, k)
           E == ExtEnd(d)
<1>1. HelloLayout(m, b, s, e)
  BY ONLY IsHelloMessage(m), b = HelloBytes(m), x = m.exts, HelloShape, Zenon
<1>2. b \in Seq(Byte) /\ s \in Nat /\ e \in Seq(Byte) /\ Len(e) \in Nat /\ Holds(b, 49 + s, e)
  BY ONLY <1>1, PTL DEF HelloLayout
<1>3. /\ d \in Seq(Byte) /\ Len(d) = n
      /\ HasExtensions(d) <=> m.kind = "hello" /\ 49 + s <= n
      /\ HasExtensions(d) => /\ ExtStart(d) = 49 + s
                             /\ E <= 49 + s + Len(e) /\ E <= n
                             /\ (E = 49 + s + Len(e) \/ E = n)
  <2>1. s = Lengths(m) /\ e = ExtBytes(m.exts)
    OBVIOUS
  <2> HIDE DEF s, e
  <2>2. HelloParse(m, d, n, s, e)
    BY ONLY IsHelloMessage(m), b = HelloBytes(m), n \in 0..Len(b), d = SubSeq(b, 1, n),
            <2>1, HelloRead, Zenon
  <2> QED
    BY ONLY <2>2, PTL DEF HelloParse
<1>4. /\ x \in Seq(Extension) /\ parts \in Seq(Seq(Byte)) /\ Len(parts) = q
      /\ e = FlattenSeq(parts)
      /\ \A k \in 1..q :
            /\ parts[k] = Part(x[k]) /\ x[k] \in Extension
            /\ Fits(x[k].type) /\ Fits(Len(x[k].data))
  BY ONLY IsHelloMessage(m), x = m.exts, ExtShape, Zenon
<1>5. n \in Nat /\ n <= Len(b) /\ q \in Nat /\ j \in Nat /\ 1 <= j /\ j <= q + 1
  BY ONLY <1>2, <1>4, n \in 0..Len(b), <1>a DEF q
<1>6. /\ T(0) = 0 /\ T(q) = Len(e)
      /\ \A k \in 0..q : T(k) \in Nat /\ T(k) <= T(q)
      /\ \A k \in 1..q :
            /\ T(k) = T(k - 1) + Len(parts[k])
            /\ \A i \in 1..Len(parts[k]) : e[T(k - 1) + i] = parts[k][i]
  <2> HIDE DEF e, q, parts
  <2>1. /\ T(0) = 0 /\ T(Len(parts)) = Len(FlattenSeq(parts))
        /\ \A k \in 0..Len(parts) : T(k) \in Nat /\ T(k) <= T(Len(parts))
        /\ \A k \in 1..Len(parts) :
              /\ T(k) = T(k - 1) + Len(parts[k])
              /\ \A i \in 1..Len(parts[k]) : FlattenSeq(parts)[T(k - 1) + i] = parts[k][i]
    BY ONLY <1>4, Positions
  <2> HIDE DEF T
  <2> QED
    BY ONLY <1>4, <2>1, Zenon
<1> HIDE DEF s, e, q, parts, T, E
\* What is where of the k-th extension.
<1>7. ASSUME NEW k \in 1..q, NEW p, p = 49 + s + T(k - 1)
      PROVE  /\ p \in Nat /\ x[k].type \in Nat /\ x[k].data \in Seq(Byte)
             /\ Fits(x[k].type) /\ Fits(Len(x[k].data)) /\ Len(x[k].data) \in Nat
             /\ Holds(b, p, Two(x[k].type)) /\ Holds(b, p + 2, Two(Len(x[k].data)))
             /\ Holds(b, p + 4, x[k].data)
             /\ 49 + s + T(k) = p + 4 + Len(x[k].data)
             /\ 49 + s + T(k) <= 49 + s + Len(e)
  <2>1. k - 1 \in 0..q /\ k \in 0..q /\ k \in Nat
    BY ONLY <1>5, k \in 1..q
  <2>2. T(k - 1) \in Nat /\ T(k) \in Nat /\ T(k) <= Len(e)
    BY ONLY <1>6, <2>1
  <2>3. x[k] \in Extension /\ parts[k] = Part(x[k])
    BY ONLY <1>4, k \in 1..q
  <2>4. /\ x[k].type \in Nat /\ x[k].data \in Seq(Byte) /\ Len(x[k].data) \in Nat
        /\ Fits(x[k].type) /\ Fits(Len(x[k].data))
    BY ONLY <1>4, <2>3, k \in 1..q DEF Extension
  <2>5. /\ parts[k] \in Seq(Byte) /\ Len(parts[k]) = 4 + Len(x[k].data)
        /\ Holds(parts[k], 0, Two(x[k].type)) /\ Holds(parts[k], 2, Two(Len(x[k].data)))
        /\ Holds(parts[k], 4, x[k].data)
    BY ONLY <2>3, <2>4, PartShape, Zenon
  <2>6. Two(x[k].type) \in Seq(Byte) /\ Two(Len(x[k].data)) \in Seq(Byte)
    BY ONLY <2>4, TwoBytes
  <2>7. T(k) = T(k - 1) + Len(parts[k])
    BY ONLY <1>6, k \in 1..q
  <2>8. Holds(e, T(k - 1), parts[k])
    <3>1. \A i \in 1..Len(parts[k]) : e[T(k - 1) + i] = parts[k][i]
      BY ONLY <1>6, k \in 1..q, Zenon
    <3>2. T(k - 1) + Len(parts[k]) <= Len(e)
      BY ONLY <2>2, <2>7
    <3> QED
      BY ONLY <3>1, <3>2, Zenon DEF Holds
  <2>9. Holds(b, p, parts[k])
    <3>1. 49 + s \in Nat /\ (49 + s) + T(k - 1) = p
      BY ONLY <1>2, <2>2, p = 49 + s + T(k - 1)
    <3>2. Holds(b, (49 + s) + T(k - 1), parts[k])
      BY ONLY <1>2, <2>2, <2>5, <2>8, <3>1, HeldWithin, Zenon
    <3> QED
      BY ONLY <3>1, <3>2, Zenon
  <2>10. p \in Nat /\ 0 \in Nat /\ 2 \in Nat /\ 4 \in Nat /\ p + 0 = p
    BY ONLY <1>2, <2>2, p = 49 + s + T(k - 1)
  <2>11. Holds(b, p + 0, Two(x[k].type))
    BY ONLY <1>2, <2>5, <2>6, <2>9, <2>10, HeldWithin, Zenon
  <2>12. Holds(b, p + 2, Two(Len(x[k].data)))
    BY ONLY <1>2, <2>5, <2>6, <2>9, <2>10, HeldWithin, Zenon
  <2>13. Holds(b, p + 4, x[k].data)
    BY ONLY <1>2, <2>4, <2>5, <2>9, <2>10, HeldWithin, Zenon
  <2>14. 49 + s + T(k) = p + 4 + Len(x[k].data) /\ 49 + s + T(k) <= 49 + s + Len(e)
    <3>1. T(k) = T(k - 1) + (4 + Len(x[k].data))
      BY ONLY <2>5, <2>7, Zenon
    <3>2. PICK t \in Nat, u \in Nat, l \in Nat, f \in Nat :
             t = T(k - 1) /\ u = T(k) /\ l = Len(x[k].data) /\ f = Len(e)
      BY ONLY <1>2, <2>2, <2>4
    <3>3. u = t + (4 + l) /\ u <= f /\ p = 49 + s + t
      BY ONLY <2>2, <3>1, <3>2, p = 49 + s + T(k - 1)
    <3>4. 49 + s + u = p + 4 + l /\ 49 + s + u <= 49 + s + f
      BY ONLY <1>2, <3>3
    <3> QED
      BY ONLY <3>2, <3>4
  <2>15. Holds(b, p, Two(x[k].type))
    BY ONLY <2>10, <2>11, Zenon
  <2> QED
    BY ONLY <2>4, <2>10, <2>12, <2>13, <2>14, <2>15, PTL
<1>8. CASE ~HasExtensions(d)
  <2>1. extract_sni(d) = NoName
    BY ONLY <1>8 DEF extract_sni
  <2>2. ASSUME m.kind = "hello", j <= q, 49 + s + T(j) <= n
        PROVE  FALSE
    <3>1. T(j) \in Nat
      BY ONLY <1>5, <1>6, <2>2
    <3>2. 49 + s <= n
      BY ONLY <1>2, <1>5, <2>2, <3>1
    <3> QED
      BY ONLY <1>3, <1>8, <2>2, <3>2
  <2> QED
    BY ONLY <2>1, <2>2 DEF q, s, T, parts, Found
<1>9. CASE HasExtensions(d)
  <2>1. m.kind = "hello" /\ 49 + s <= n /\ ExtStart(d) = 49 + s
    BY ONLY <1>3, <1>9, PTL
  <2>2. E \in Nat /\ E <= n /\ E <= 49 + s + Len(e) /\ (E = n \/ E = 49 + s + Len(e))
    BY ONLY <1>2, <1>3, <1>5, <1>9
  <2>3. PICK w : /\ extract_sni(d) = w[ExtStart(d)]
                 /\ \A p \in Nat : w[p] = SniFrom(d, w, p)
    BY ONLY <1>3, <1>9, SniWalk
  <2>4. \A p \in Nat : p + 4 > E => w[p] = NoName
    BY ONLY <2>3 DEF SniFrom, E
  <2> DEFINE W(k) == w[49 + s + T(k)]
  \* Every extension of another type is passed.
  <2>5. ASSUME NEW k \in 1..q, k # j
        PROVE  W(k - 1) = W(k)
    <3> DEFINE p == 49 + s + T(k - 1)
               l == Len(x[k].data)
    <3>1. /\ p \in Nat /\ x[k].type \in Nat /\ x[k].data \in Seq(Byte)
          /\ Fits(x[k].type) /\ Fits(l) /\ l \in Nat
          /\ Holds(b, p, Two(x[k].type)) /\ Holds(b, p + 2, Two(l))
          /\ Holds(b, p + 4, x[k].data)
          /\ 49 + s + T(k) = p + 4 + l
          /\ 49 + s + T(k) <= 49 + s + Len(e)
      BY ONLY <1>7, k \in 1..q, Zenon
    <3>2. x[k].type # 0
      BY ONLY <2>5, k \in 1..q, <1>a DEF q
    <3>3. W(k - 1) = w[p] /\ W(k) = w[p + 4 + l]
      BY ONLY <3>1
    <3> HIDE DEF p, l, W
    <3>4. CASE p + 4 > E
      <4>1. p + 4 + l \in Nat /\ p + 4 + l + 4 > E
        BY ONLY <2>2, <3>1, <3>4
      <4> QED
        BY ONLY <2>4, <3>1, <3>3, <3>4, <4>1
    <3>5. CASE ~(p + 4 > E)
      <4>1. p + 2 <= n /\ p + 2 \in Nat /\ (p + 2) + 2 <= n
        BY ONLY <1>5, <2>2, <3>1, <3>5
      <4>2. U16(d, p) = x[k].type
        BY ONLY <1>2, <3>1, <4>1, n \in 0..Len(b), d = SubSeq(b, 1, n), ReadTwo, Zenon
      <4>3. U16(d, p + 2) = l
        BY ONLY <1>2, <3>1, <4>1, n \in 0..Len(b), d = SubSeq(b, 1, n), ReadTwo, Zenon
      <4>4. w[p] = SniFrom(d, w, p)
        BY ONLY <2>3, <3>1
      <4>5. w[p] = w[p + 4 + l]
        BY ONLY <3>2, <3>5, <4>2, <4>3, <4>4, Zenon DEF SniFrom, E
      <4> QED
        BY ONLY <3>3, <4>5
    <3> QED
      BY ONLY <3>4, <3>5
  \* So the walk comes to the j-th.
  <2>6. W(0) = W(j - 1)
    <3> DEFINE Good == {k \in Nat : k + 1 <= j => W(0) = W(k)}
    <3> HIDE DEF W
    <3>1. 0 \in Good
      OBVIOUS
    <3>2. ASSUME NEW k \in Good
          PROVE  k + 1 \in Good
      <4>1. SUFFICES ASSUME (k + 1) + 1 <= j
                     PROVE  W(0) = W(k + 1)
        OBVIOUS
      <4>2. k \in Nat /\ k + 1 \in 1..q /\ k + 1 # j /\ (k + 1) - 1 = k /\ k + 1 <= j
        BY ONLY <1>5, <4>1, k \in Good
      <4>3. W(0) = W(k)
        BY ONLY <4>2, k \in Good
      <4>4. W((k + 1) - 1) = W(k + 1)
        BY ONLY <2>5, <4>2
      <4> QED
        BY ONLY <4>2, <4>3, <4>4
    <3>3. Good = Nat
      <4>1. Good \subseteq Nat
        OBVIOUS
      <4> HIDE DEF Good
      <4> QED
        BY ONLY <3>1, <3>2, <4>1, CountUp
    <3>4. j - 1 \in Nat /\ (j - 1) + 1 <= j
      BY ONLY <1>5
    <3>5. j - 1 \in Good
      BY ONLY <3>3, <3>4, Zenon
    <3> QED
      BY ONLY <3>4, <3>5
  <2>7. extract_sni(d) = W(j - 1)
    <3>1. 49 + s + T(0) = 49 + s
      BY ONLY <1>2, <1>6
    <3> QED
      BY ONLY <2>1, <2>3, <2>6, <3>1
  <2>8. CASE ~(j <= q)
    <3>1. j - 1 = q /\ q \in 0..q
      BY ONLY <1>5, <2>8
    <3>2. 49 + s + T(q) \in Nat /\ 49 + s + T(q) + 4 > E
      BY ONLY <1>2, <1>6, <2>2
    <3>3. extract_sni(d) = NoName
      BY ONLY <2>4, <2>7, <3>1, <3>2
    <3> QED
      BY ONLY <2>8, <3>3 DEF q, Found
  <2>9. CASE j <= q
    <3> DEFINE p == 49 + s + T(j - 1)
               c == x[j].data
               name == x[j].name
    <3>1. j \in 1..q
      BY ONLY <1>5, <2>9
    <3>2. /\ p \in Nat /\ c \in Seq(Byte) /\ Fits(Len(c)) /\ Len(c) \in Nat
          /\ Holds(b, p, Two(x[j].type)) /\ Holds(b, p + 4, c)
          /\ 49 + s + T(j) = p + 4 + Len(c)
          /\ 49 + s + T(j) <= 49 + s + Len(e)
      BY ONLY <1>7, <3>1, Zenon
    <3>3. x[j].type = 0 /\ name \in Seq(Byte) /\ c = Sni(name).data
      <4>1. x[j].type = 0
        BY ONLY <3>1, <1>a DEF q
      <4>2. x[j] = Sni(x[j].name)
        <5>1. j \in DOMAIN m.exts
          BY ONLY <1>4, <3>1, x = m.exts DEF q
        <5> QED
          BY ONLY <4>1, <5>1, x = m.exts, IsHelloMessage(m) DEF IsHelloMessage
      <4>3. x[j].name \in Seq(Byte)
        BY ONLY <1>4, <3>1 DEF Extension
      <4> QED
        BY ONLY <4>1, <4>2, <4>3, Zenon
    <3> DEFINE l == Len(name)
    <3>4. /\ Len(c) = 5 + l /\ l \in Nat /\ Fits(l)
          /\ Holds(c, 2, <<0>>) /\ Holds(c, 3, Two(l)) /\ Holds(c, 5, name)
      <4>1. Fits(Len(Sni(name).data))
        BY ONLY <3>2, <3>3, Zenon
      <4> QED
        BY ONLY <3>3, <4>1, SniData
    <3>5. W(j - 1) = w[p]
      OBVIOUS
    <3> HIDE DEF p, c, l, W, name
    <3>6. w[p] = SniFrom(d, w, p)
      BY ONLY <2>3, <3>2
    <3>7. 49 + s + T(j) = p + 9 + l
      BY ONLY <3>2, <3>4
    <3>8. CASE p + 4 > E
      <4>1. w[p] = NoName /\ ~(p + 9 + l <= n)
        BY ONLY <2>2, <2>4, <3>2, <3>4, <3>7, <3>8, <1>5
      <4> QED
        BY ONLY <2>7, <3>5, <3>7, <4>1 DEF T, parts, s, q, Found
    <3>9. CASE ~(p + 4 > E)
      <4>1. p + 2 <= n
        BY ONLY <1>5, <2>2, <3>2, <3>9
      <4>2. U16(d, p) = 0
        <5>1. Holds(b, p, Two(0)) /\ 0 \in Nat
          BY ONLY <3>2, <3>3
        <5>2. Fits(0)
          BY DEF Fits
        <5> QED
          BY ONLY <1>2, <3>2, <4>1, <5>1, <5>2, n \in 0..Len(b), d = SubSeq(b, 1, n), ReadTwo, Zenon
      <4>3. w[p] = ServerName(d, p + 4)
        BY ONLY <3>6, <3>9, <4>2, Zenon DEF SniFrom, E
      <4>4. PICK r \in Nat : r = p + 4
        BY ONLY <3>2
      <4>5. ASSUME r + 5 <= E
            PROVE  At(d, r + 2) = 0 /\ U16(d, r + 3) = l
        <5>1. /\ 2 \in Nat /\ 3 \in Nat /\ r + 2 \in Nat /\ r + 3 \in Nat
              /\ (r + 2) + 1 <= n /\ (r + 3) + 2 <= n
          BY ONLY <1>5, <2>2, <4>4, <4>5
        <5>2. 0 \in Byte
          BY DEF Byte
        <5>3. <<0>> \in Seq(Byte) /\ Two(l) \in Seq(Byte)
          BY ONLY <3>4, <5>2, TwoBytes
        <5>4. Holds(b, r, c)
          BY ONLY <3>2, <4>4
        <5>5. Holds(b, r + 2, <<0>>)
          BY ONLY <1>2, <3>2, <3>4, <4>4, <5>1, <5>3, <5>4, HeldWithin, Zenon
        <5>6. Holds(b, r + 3, Two(l))
          BY ONLY <1>2, <3>2, <3>4, <4>4, <5>1, <5>3, <5>4, HeldWithin, Zenon
        <5>7. At(d, r + 2) = 0
          BY ONLY <1>2, <5>1, <5>2, <5>5, n \in 0..Len(b), d = SubSeq(b, 1, n), ReadByte, Zenon
        <5>8. U16(d, r + 3) = l
          BY ONLY <1>2, <3>4, <5>1, <5>6, n \in 0..Len(b), d = SubSeq(b, 1, n), ReadTwo, Zenon
        <5> QED
          BY ONLY <5>7, <5>8
      <4>6. ASSUME r + 5 + l <= E
            PROVE  Slice(d, r + 5, l) = name
        <5>1. 5 \in Nat /\ r + 5 \in Nat /\ (r + 5) + l <= n
          BY ONLY <1>5, <2>2, <3>4, <4>4, <4>6
        <5>2. Holds(b, r, c)
          BY ONLY <3>2, <4>4
        <5>3. Holds(b, r + 5, name)
          BY ONLY <1>2, <3>2, <3>3, <3>4, <4>4, <5>1, <5>2, HeldWithin, Zenon
        <5>4. (r + 5) + Len(name) <= n
          BY ONLY <5>1 DEF l
        <5>5. Slice(d, r + 5, Len(name)) = name
          BY ONLY <1>2, <3>3, <5>1, <5>3, <5>4, n \in 0..Len(b), d = SubSeq(b, 1, n), ReadPart, Zenon
        <5> QED
          BY ONLY <5>5 DEF l
      <4>7. /\ r + 5 + l <= E <=> p + 9 + l <= n
            /\ r + 5 + l <= E => r + 5 <= E
        BY ONLY <1>5, <2>2, <3>2, <3>4, <3>7, <4>4
      <4>8. w[p] = ServerName(d, r)
        BY ONLY <4>3, <4>4
      <4>9. w[p] = IF r + 5 + l <= E THEN name ELSE NoName
        BY ONLY <4>5, <4>6, <4>7, <4>8, Zenon DEF ServerName, E
      <4>10. w[p] = IF 49 + s + T(j) <= n THEN name ELSE NoName
        BY ONLY <3>7, <4>7, <4>9
      <4> QED
        BY ONLY <2>1, <2>7, <2>9, <3>5, <4>10 DEF T, parts, s, q, name, Found
    <3> QED
      BY ONLY <3>8, <3>9
  <2> QED
    BY ONLY <2>8, <2>9
<1> QED
  BY ONLY <1>8, <1>9

\* From some number of bytes of a hello on the parser finds its true name, before
\* that none.
LEMMA HelloExact ==
    ASSUME NEW m, IsHelloMessage(m)
    PROVE  \E e \in 0..Len(HelloBytes(m)) : \A n \in 0..Len(HelloBytes(m)) :
              extract_sni(SubSeq(HelloBytes(m), 1, n)) = IF n >= e THEN TrueName(m) ELSE NoName
<1> DEFINE b == HelloBytes(m)
           x == m.exts
           q == Len(x)
           parts == ExtParts(x)
           names == [i \in DOMAIN x |-> x[i].name]
<1>1. /\ x \in Seq(Extension) /\ parts \in Seq(Seq(Byte)) /\ Len(parts) = q
      /\ ExtBytes(m.exts) = FlattenSeq(parts)
      /\ \A k \in 1..q : x[k] \in Extension
  BY ExtShape
<1>2. q \in Nat /\ DOMAIN x = 1..q
  BY ONLY <1>1
<1>3. names \in Seq(Seq(Byte)) /\ Len(names) = q /\ \A i \in 1..q : names[i] = x[i].name
  <2>1. \A i \in 1..q : x[i].name \in Seq(Byte)
    BY <1>1 DEF Extension
  <2>2. names = [i \in 1..q |-> x[i].name]
    BY <1>2
  <2> HIDE DEF names, q
  <2> QED
    BY ONLY <1>2, <2>1, <2>2
<1>4. PICK j \in 1..q + 1 : \A i \in 1..q : x[i].type = 0 <=> i = j
  <2>1. CASE \E i \in 1..q : x[i].type = 0
    <3>1. PICK j \in 1..q : x[j].type = 0
      BY <2>1
    <3>2. \A i \in 1..q : x[i].type = 0 <=> i = j
      BY <1>2, <3>1 DEF IsHelloMessage
    <3>3. j \in 1..q + 1
      BY <1>2
    <3> QED
      BY ONLY <3>2, <3>3
  <2>2. CASE ~\E i \in 1..q : x[i].type = 0
    <3>1. q + 1 \in 1..q + 1 /\ \A i \in 1..q : i # q + 1
      BY <1>2
    <3> QED
      BY ONLY <2>2, <3>1
  <2> QED
    BY ONLY <2>1, <2>2
<1>5. m.kind = "hello" => TrueName(m) = IF j <= q THEN x[j].name ELSE NoName
  <2>1. SUFFICES ASSUME m.kind = "hello"
                 PROVE  TrueName(m) = IF j <= q THEN x[j].name ELSE NoName
    OBVIOUS
  <2>2. TrueName(m) = FlattenSeq(names)
    BY <2>1 DEF TrueName
  <2>3. \A i \in 1..q : i # j => names[i] = <<>>
    <3>1. \A i \in 1..q : x[i].type # 0 => x[i].name = <<>>
      BY <1>2 DEF IsHelloMessage, NoName
    <3> QED
      BY ONLY <1>3, <1>4, <3>1
  <2> HIDE DEF names, q
  <2>4. FlattenSeq(names) = IF j <= q THEN names[j] ELSE <<>>
    <3>1. /\ names \in Seq(Seq(Byte)) /\ j \in 1..Len(names) + 1
          /\ \A i \in 1..Len(names) : i # j => names[i] = <<>>
      BY ONLY <1>3, <1>4, <2>3, Zenon
    <3>2. FlattenSeq(names) = IF j <= Len(names) THEN names[j] ELSE <<>>
      BY ONLY <3>1, OnlyPart
    <3> QED
      BY ONLY <1>3, <3>2, Zenon
  <2>5. j <= q => names[j] = x[j].name
    BY ONLY <1>2, <1>3, <1>4
  <2> QED
    BY ONLY <2>2, <2>4, <2>5, Zenon DEF NoName
<1>6. m.kind # "hello" => TrueName(m) = NoName
  BY DEF IsHelloMessage, TrueName
<1>7. ASSUME NEW n \in 0..Len(b)
      PROVE  extract_sni(SubSeq(b, 1, n)) =
                IF /\ m.kind = "hello" /\ j <= q
                   /\ 49 + Lengths(m) + Taken(parts, j) <= n
                THEN x[j].name ELSE NoName
  <2>1. PICK d : d = SubSeq(b, 1, n)
    OBVIOUS
  <2>2. extract_sni(d) = IF /\ m.kind = "hello" /\ j <= q
                            /\ 49 + Lengths(m) + Taken(parts, j) <= n
                         THEN x[j].name ELSE NoName
    <3>1. x = m.exts /\ b = HelloBytes(m)
      OBVIOUS
    <3>2. Sole(x, j) /\ q = Len(x)
      BY ONLY <1>4 DEF Sole
    <3>3. parts = ExtParts(x)
      OBVIOUS
    <3> HIDE DEF x, b, q, parts
    <3>4. Found(m, x, j, n, d)
      BY ONLY IsHelloMessage(m), n \in 0..Len(b), <2>1, <3>1, <3>2, SniOfFirst, Zenon
    <3> QED
      BY ONLY <3>2, <3>3, <3>4 DEF Found
  <2> QED
    BY ONLY <2>1, <2>2
<1>8. b \in Seq(Byte) /\ Len(b) \in Nat
  <2>1. HelloLayout(m, b, Lengths(m), ExtBytes(m.exts))
    BY HelloShape, Zenon
  <2>2. b \in Seq(Byte)
    BY ONLY <2>1, PTL DEF HelloLayout
  <2> HIDE DEF b
  <2> QED
    BY ONLY <2>2
<1>9. CASE m.kind = "hello" /\ j <= q
  <2> DEFINE e == 49 + Lengths(m) + Taken(parts, j)
  <2>1. e \in 0..Len(b)
    <3> DEFINE s == Lengths(m)
               y == ExtBytes(m.exts)
               T == Taken(parts, j)
    <3>1. HelloLayout(m, b, s, y)
      BY HelloShape, Zenon
    <3>2. /\ s \in Nat /\ Len(y) \in Nat /\ Len(m.after) \in Nat
          /\ Len(b) = 49 + s + Len(y) + Len(m.after)
      BY ONLY <3>1, PTL DEF HelloLayout
    <3>3. T \in Nat /\ T <= Len(y)
      <4>1. j \in 0..q
        BY <1>2, <1>4, <1>9
      <4>2. j \in 0..Len(parts)
        BY ONLY <1>1, <4>1
      <4> HIDE DEF parts
      <4>3. T \in Nat /\ T <= Taken(parts, Len(parts)) /\ Len(FlattenSeq(parts)) = Taken(parts, Len(parts))
        BY ONLY <1>1, <4>2, Positions
      <4> QED
        BY ONLY <1>1, <4>3, Zenon
    <3> HIDE DEF s, y, T, b
    <3>4. 49 + s + T \in 0..Len(b)
      <4>1. PICK l \in Nat, a \in Nat : l = Len(y) /\ a = Len(m.after)
        BY ONLY <3>2
      <4>2. Len(b) = 49 + s + l + a /\ T <= l
        BY ONLY <3>2, <3>3, <4>1
      <4>3. 49 + s + T \in 0..49 + s + l + a
        BY ONLY <3>2, <3>3, <4>2
      <4> QED
        BY ONLY <4>2, <4>3, Zenon
    <3> QED
      BY ONLY <3>4 DEF s, T
  <2>2. e \in Nat
    BY ONLY <1>8, <2>1
  <2> HIDE DEF e, b
  <2>3. ASSUME NEW n \in 0..Len(b)
        PROVE  extract_sni(SubSeq(b, 1, n)) = IF n >= e THEN TrueName(m) ELSE NoName
    <3>1. e <= n <=> n >= e
      BY ONLY <1>8, <2>2, n \in 0..Len(b)
    <3>2. extract_sni(SubSeq(b, 1, n)) = IF e <= n THEN x[j].name ELSE NoName
      BY ONLY <1>7, <1>9, n \in 0..Len(b), Zenon DEF e
    <3>3. TrueName(m) = x[j].name
      BY ONLY <1>5, <1>9, Zenon
    <3> QED
      BY ONLY <3>1, <3>2, <3>3, Zenon
  <2> QED
    BY ONLY <2>1, <2>3 DEF b
<1>10. CASE ~(m.kind = "hello" /\ j <= q)
  <2> HIDE DEF b
  <2>1. 0 \in 0..Len(b)
    BY ONLY <1>8
  <2>2. ASSUME NEW n \in 0..Len(b)
        PROVE  extract_sni(SubSeq(b, 1, n)) = IF n >= 0 THEN TrueName(m) ELSE NoName
    <3>1. extract_sni(SubSeq(b, 1, n)) = NoName
      BY ONLY <1>7, <1>10, n \in 0..Len(b), Zenon
    <3>2. TrueName(m) = NoName
      BY ONLY <1>5, <1>6, <1>10, Zenon
    <3> QED
      BY ONLY <3>1, <3>2, Zenon
  <2> QED
    BY ONLY <2>1, <2>2 DEF b
<1> QED
  BY ONLY <1>9, <1>10

-----------------------------------------------------------------------------
(* A DNS message.                                                          *)

\* The bytes of each label of a question, and each label with a dot after it.
LabelPart(l)     == <<Len(l)>> \o l
LabelParts(ls)   == [i \in DOMAIN ls |-> LabelPart(ls[i])]
LabelsDotted(ls) == [i \in DOMAIN ls |-> ls[i] \o <<Dot>>]

\* What a label is made of: its length and its bytes.
LEMMA LabelShape ==
    ASSUME NEW l \in Seq(Byte), Len(l) \in 1..63
    PROVE  /\ LabelPart(l) \in Seq(Byte) /\ Len(LabelPart(l)) = 1 + Len(l)
           /\ Len(l) \in Byte
           /\ Holds(LabelPart(l), 0, <<Len(l)>>) /\ Holds(LabelPart(l), 1, l)
           /\ l \o <<Dot>> \in Seq(Byte)
<1>1. Len(l) \in Nat /\ Len(l) <= 255
  <2>1. \A k \in 1..63 : k \in Nat /\ k <= 255
    OBVIOUS
  <2> QED
    BY ONLY <2>1, Len(l) \in 1..63, Zenon
<1> DEFINE a == <<Len(l)>>
<1>2. Len(l) \in Byte
  BY ONLY <1>1, IsByte
<1>3. a \in Seq(Byte) /\ Len(a) = 1
  BY ONLY <1>2
<1> HIDE DEF a
<1>4. Holds(a, 0, a)
  BY ONLY <1>3, HeldWithin
<1>5. /\ a \o l \in Seq(Byte) /\ Len(a \o l) = 1 + Len(l) /\ Holds(a \o l, 1, l)
      /\ Holds(a \o l, 0, a)
  BY ONLY <1>3, <1>4, l \in Seq(Byte), 0 \in Nat, Added, Zenon
<1>6. l \o <<Dot>> \in Seq(Byte)
  <2>1. <<Dot>> \in Seq(Byte)
    BY DEF Dot, Byte
  <2> QED
    BY ONLY <2>1, l \in Seq(Byte), Joined
<1> QED
  BY ONLY <1>2, <1>5, <1>6, Zenon DEF LabelPart, a

\* Where a question or an answer b with the labels f has what.
DnsLayout(b, f) ==
    /\ b \in Seq(Byte) /\ f \in Seq(Byte) /\ Len(f) \in Nat /\ Len(b) = 17 + Len(f)
    /\ Holds(b, 4, <<0, 1>>) /\ Holds(b, 12, f) /\ Holds(b, 12 + Len(f), <<0>>)

\* DnsBytes puts everything there, whatever the labels.
LEMMA DnsShape ==
    ASSUME NEW m, IsDnsMessage(m), NEW ls, ls = m.labels, NEW b, b = DnsBytes(m),
           NEW f, f = FlattenSeq(LabelParts(ls))
    PROVE  /\ DnsLayout(b, f) /\ ls \in Seq(Seq(Byte))
           /\ LabelParts(ls) \in Seq(Seq(Byte)) /\ Len(LabelParts(ls)) = Len(ls)
           /\ LabelsDotted(ls) \in Seq(Seq(Byte)) /\ Len(LabelsDotted(ls)) = Len(ls)
           /\ \A k \in 1..Len(ls) :
                 /\ ls[k] \in Seq(Byte) /\ Len(ls[k]) \in 1..63
                 /\ LabelParts(ls)[k] = LabelPart(ls[k])
                 /\ LabelsDotted(ls)[k] = ls[k] \o <<Dot>>
<1> DEFINE t  == IF m.kind = "answer" THEN 129 ELSE 1
           p1 == <<0, 7, t, 0, 0, 1>>
           p2 == Zeros(6)
           p4 == <<0, 0, 1, 0, 1>>
           h1 == {<<4, <<0, 1>>>>}
           h2 == h1 \cup {<<6, p2>>}
           h3 == h2 \cup {<<12, f>>}
           h4 == h3 \cup {<<12 + Len(f), p4>>}
           q2 == p1 \o p2
           q3 == q2 \o f
           q4 == q3 \o p4
<1>1. ls \in Seq(Seq(Byte)) /\ \A i \in DOMAIN ls : Len(ls[i]) \in 1..63
  BY DEF IsDnsMessage
<1>2. Len(ls) \in Nat /\ DOMAIN ls = 1..Len(ls) /\ \A k \in 1..Len(ls) : ls[k] \in Seq(Byte)
  BY ONLY <1>1
<1>3. \A k \in 1..Len(ls) : /\ Len(ls[k]) \in 1..63
                           /\ LabelParts(ls)[k] = LabelPart(ls[k])
                           /\ LabelsDotted(ls)[k] = ls[k] \o <<Dot>>
  BY ONLY <1>1, <1>2 DEF LabelParts, LabelsDotted
<1>4. /\ LabelParts(ls) \in Seq(Seq(Byte)) /\ Len(LabelParts(ls)) = Len(ls)
      /\ LabelsDotted(ls) \in Seq(Seq(Byte)) /\ Len(LabelsDotted(ls)) = Len(ls)
  <2>1. \A k \in 1..Len(ls) : LabelPart(ls[k]) \in Seq(Byte) /\ ls[k] \o <<Dot>> \in Seq(Byte)
    BY ONLY <1>2, <1>3, LabelShape
  <2>2. LabelParts(ls) = [k \in 1..Len(ls) |-> LabelPart(ls[k])]
    BY ONLY <1>2 DEF LabelParts
  <2>3. LabelsDotted(ls) = [k \in 1..Len(ls) |-> ls[k] \o <<Dot>>]
    BY ONLY <1>2 DEF LabelsDotted
  <2>4. LabelParts(ls) \in Seq(Seq(Byte)) /\ Len(LabelParts(ls)) = Len(ls)
    BY ONLY <1>2, <2>1, <2>2
  <2>5. LabelsDotted(ls) \in Seq(Seq(Byte)) /\ Len(LabelsDotted(ls)) = Len(ls)
    BY ONLY <1>2, <2>1, <2>3
  <2> QED
    BY ONLY <2>4, <2>5
<1>5. f \in Seq(Byte) /\ Len(f) \in Nat
  BY ONLY <1>4, f = FlattenSeq(LabelParts(ls)), Positions
<1>6. b = q4
  BY ls = m.labels DEF DnsBytes, LabelParts, LabelPart
<1>7. t \in Byte /\ 0 \in Byte /\ 1 \in Byte /\ 7 \in Byte
  BY DEF Byte
<1>8. Layout(p1, 6, h1)
  <2> HIDE DEF t
  <2>1. p1 \in Seq(Byte) /\ Len(p1) = 6 /\ p1[5] = 0 /\ p1[6] = 1
    BY ONLY <1>7
  <2> HIDE DEF p1
  <2>2. 4 \in Nat /\ 4 + 1 = 5 /\ 4 + 2 = 6 /\ 4 + 1 <= Len(p1) /\ 4 + 2 <= Len(p1)
    BY ONLY <2>1
  <2>3. Holds(p1, 4, <<0, 1>>)
    BY ONLY <2>1, <2>2, HeldBytes, Zenon
  <2>4. ASSUME NEW h \in h1
        PROVE  h \in Nat \X Seq(Byte) /\ Holds(p1, h[1], h[2])
    <3>1. <<0, 1>> \in Seq(Byte)
      BY <1>7
    <3>2. PICK p, a : h = <<p, a>> /\ p \in Nat /\ a \in Seq(Byte) /\ Holds(p1, p, a)
      BY ONLY <2>2, <2>3, <3>1, h \in h1, Zenon
    <3> QED
      BY ONLY <3>2
  <2> QED
    BY ONLY <2>1, <2>4, Zenon DEF Layout
<1>9. p2 \in Seq(Byte) /\ Len(p2) = 6
  BY ZeroBytes
<1>10. p4 \in Seq(Byte) /\ Len(p4) = 5 /\ p4[1] = 0
  BY <1>7
<1> HIDE DEF p1, p2, p4, h1, h2, h3, h4, q2, q3, q4
<1>11. Layout(q2, 12, h2)
  <2>1. 6 \in Nat /\ 12 = 6 + Len(p2)
    BY ONLY <1>9
  <2> QED
    BY ONLY <1>8, <1>9, <2>1, LayoutGrows DEF q2, h2
<1>12. Layout(q3, 12 + Len(f), h3)
  <2>1. 12 \in Nat
    OBVIOUS
  <2> QED
    BY ONLY <1>11, <1>5, <2>1, LayoutGrows DEF q3, h3
<1>13. Layout(q4, 17 + Len(f), h4)
  <2>1. 12 + Len(f) \in Nat /\ 17 + Len(f) = 12 + Len(f) + Len(p4)
    BY ONLY <1>5, <1>10
  <2> QED
    BY ONLY <1>12, <1>10, <2>1, LayoutGrows DEF q4, h4
<1>14. <<4, <<0, 1>>>> \in h4 /\ <<12, f>> \in h4 /\ <<12 + Len(f), p4>> \in h4
  BY ONLY Zenon DEF h1, h2, h3, h4
<1>15. Holds(q4, 4, <<0, 1>>) /\ Holds(q4, 12, f) /\ Holds(q4, 12 + Len(f), p4)
  BY ONLY <1>13, <1>14, LayoutHas, Zenon
<1>16. q4 \in Seq(Byte) /\ Len(q4) = 17 + Len(f)
  BY ONLY <1>13, Zenon DEF Layout
<1>17. Holds(q4, 12 + Len(f), <<0>>)
  <2>1. 0 \in Nat /\ 0 + 1 = 1 /\ 0 + 1 <= Len(p4)
    BY ONLY <1>10
  <2>2. Holds(p4, 0, <<0>>)
    BY ONLY <1>10, <2>1, HeldBytes, Zenon
  <2>3. <<0>> \in Seq(Byte) /\ 12 + Len(f) \in Nat /\ 12 + Len(f) + 0 = 12 + Len(f)
    BY ONLY <1>5, <1>7
  <2>4. Holds(q4, 12 + Len(f) + 0, <<0>>)
    BY ONLY <1>10, <1>15, <1>16, <2>1, <2>2, <2>3, HeldWithin, Zenon
  <2> QED
    BY ONLY <2>3, <2>4
<1>18. DnsLayout(b, f)
  BY ONLY <1>5, <1>6, <1>15, <1>16, <1>17, Zenon DEF DnsLayout
<1> QED
  BY ONLY <1>1, <1>2, <1>3, <1>4, <1>18, Zenon

\* How three sequences are grouped does not matter.
LEMMA Grouping == \A x, y, z \in Seq(Byte) : (x \o y) \o z = x \o (y \o z)
  BY ConcatAssociative, ConcatEmptySeq

\* The same of the four that DotsBetween meets.
LEMMA Regrouped ==
    ASSUME NEW a \in Seq(Byte), NEW b \in Seq(Byte), NEW c \in Seq(Byte)
    PROVE  (a \o (b \o c)) \o b = (a \o b) \o (c \o b)
<1>1. a \o b \in Seq(Byte) /\ b \o c \in Seq(Byte) /\ c \o b \in Seq(Byte)
  BY Joined
<1>2. \A x, y, z \in Seq(Byte) : (x \o y) \o z = x \o (y \o z)
  BY ONLY Grouping
<1>3. (a \o (b \o c)) = (a \o b) \o c
  BY ONLY <1>2, a \in Seq(Byte), b \in Seq(Byte), c \in Seq(Byte), Zenon
<1>4. ((a \o b) \o c) \o b = (a \o b) \o (c \o b)
  <2>1. \A x \in Seq(Byte) : (x \o c) \o b = x \o (c \o b)
    BY ONLY <1>2, b \in Seq(Byte), c \in Seq(Byte), Zenon
  <2> QED
    BY ONLY <1>1, <2>1, Zenon
<1> QED
  BY ONLY <1>3, <1>4, Zenon

\* A dot after each label makes a dot between them and one at the end.
LEMMA DotsBetween ==
    ASSUME NEW ls \in Seq(Seq(Byte)), Len(ls) # 0
    PROVE  Dotted(ls) \in Seq(Byte) /\ FlattenSeq(LabelsDotted(ls)) = Dotted(ls) \o <<Dot>>
<1> DEFINE u == [i \in DOMAIN ls |-> (IF i = 1 THEN <<>> ELSE <<Dot>>) \o ls[i]]
           v == LabelsDotted(ls)
           N == Len(ls)
           dot == <<Dot>>
           P == Beginnings(u)
           Q == Beginnings(v)
           Is(k) == Q[k] = P[k] \o dot
           Good == {k \in Nat : k + 1 <= N => Is(k + 1)}
<1>1. N \in Nat /\ N # 0 /\ DOMAIN ls = 1..N /\ \A k \in 1..N : ls[k] \in Seq(Byte)
  OBVIOUS
<1>2. dot \in Seq(Byte) /\ <<>> \in Seq(Byte)
  BY DEF Dot, Byte
<1>3. \A k \in 1..N : v[k] = ls[k] \o dot /\ v[k] \in Seq(Byte)
  <2>1. \A k \in 1..N : v[k] = ls[k] \o dot
    BY ONLY <1>1 DEF LabelsDotted
  <2>2. \A k \in 1..N : ls[k] \o dot \in Seq(Byte)
    <3> HIDE DEF dot
    <3> QED
      BY ONLY <1>1, <1>2, Joined
  <2> QED
    BY ONLY <2>1, <2>2
<1>4. \A k \in 1..N : u[k] = (IF k = 1 THEN <<>> ELSE dot) \o ls[k] /\ u[k] \in Seq(Byte)
  <2>1. \A k \in 1..N : u[k] = (IF k = 1 THEN <<>> ELSE dot) \o ls[k]
    BY ONLY <1>1
  <2>2. \A k \in 1..N : (IF k = 1 THEN <<>> ELSE dot) \o ls[k] \in Seq(Byte)
    <3> HIDE DEF dot
    <3>1. ASSUME NEW k \in 1..N
          PROVE  (IF k = 1 THEN <<>> ELSE dot) \o ls[k] \in Seq(Byte)
      <4>1. (IF k = 1 THEN <<>> ELSE dot) \in Seq(Byte)
        BY ONLY <1>2
      <4> QED
        BY ONLY <1>1, <4>1, k \in 1..N, Joined
    <3> QED
      BY ONLY <3>1
  <2> QED
    BY ONLY <2>1, <2>2
<1>5. u \in Seq(Seq(Byte)) /\ Len(u) = N
  <2>1. u = [k \in 1..N |-> u[k]]
    BY ONLY <1>1
  <2> HIDE DEF u, N
  <2> QED
    BY ONLY <1>1, <1>4, <2>1
<1>6. v \in Seq(Seq(Byte)) /\ Len(v) = N
  <2>1. v = [k \in 1..N |-> ls[k] \o dot]
    BY ONLY <1>1 DEF LabelsDotted
  <2>2. \A k \in 1..N : ls[k] \o dot \in Seq(Byte)
    BY ONLY <1>3, Zenon
  <2> HIDE DEF v, N, dot
  <2> QED
    BY ONLY <1>1, <2>1, <2>2
<1>7. Dotted(ls) = FlattenSeq(u)
  BY DEF Dotted
<1> HIDE DEF u, v, N, dot, Is
<1>8. /\ P \in [0..N -> Seq(Byte)] /\ P[0] = <<>> /\ FlattenSeq(u) = P[N]
      /\ \A k \in 1..N : P[k] = P[k - 1] \o u[k]
  <2>1. /\ P \in [0..Len(u) -> Seq(Byte)] /\ P[0] = <<>> /\ FlattenSeq(u) = P[Len(u)]
        /\ \A k \in 1..Len(u) : P[k] = P[k - 1] \o u[k]
    BY ONLY <1>5, Flatten
  <2> HIDE DEF P
  <2> QED
    BY ONLY <1>5, <2>1, Zenon
<1>9. /\ Q[0] = <<>> /\ FlattenSeq(v) = Q[N]
      /\ \A k \in 1..N : Q[k] = Q[k - 1] \o v[k]
  <2>1. /\ Q[0] = <<>> /\ FlattenSeq(v) = Q[Len(v)]
        /\ \A k \in 1..Len(v) : Q[k] = Q[k - 1] \o v[k]
    BY ONLY <1>6, Flatten
  <2> HIDE DEF Q
  <2> QED
    BY ONLY <1>6, <2>1, Zenon
<1> HIDE DEF P, Q
<1>10. \A k \in 0..N : P[k] \in Seq(Byte)
  BY ONLY <1>8
<1>11. \A a, c, e \in Seq(Byte) : (a \o c) \o e = a \o (c \o e) /\ <<>> \o a = a
  BY ONLY ConcatAssociative, ConcatEmptySeq
<1>12. 0 \in Good
  <2>1. 1 \in 1..N /\ 1 - 1 = 0 /\ 0 + 1 = 1
    BY ONLY <1>1
  <2>2. u[1] = <<>> \o ls[1] /\ v[1] = ls[1] \o dot /\ ls[1] \in Seq(Byte)
    BY ONLY <1>1, <1>3, <1>4, <2>1
  <2>3. P[1] = P[1 - 1] \o u[1] /\ Q[1] = Q[1 - 1] \o v[1] /\ v[1] \in Seq(Byte)
    BY ONLY <1>3, <1>8, <1>9, <2>1, Zenon
  <2>4. P[1] = <<>> \o (<<>> \o ls[1]) /\ Q[1] = <<>> \o (ls[1] \o dot)
    BY ONLY <1>8, <1>9, <2>1, <2>2, <2>3, Zenon
  <2>5. <<>> \o ls[1] = ls[1] /\ <<>> \o (ls[1] \o dot) = ls[1] \o dot
    BY ONLY <1>11, <2>2, <2>3, Zenon
  <2>6. P[1] = ls[1] /\ Q[1] = ls[1] \o dot
    BY ONLY <2>4, <2>5, Zenon
  <2>7. Is(0 + 1)
    BY ONLY <2>1, <2>6, Zenon DEF Is
  <2> QED
    BY <2>7
<1>13. ASSUME NEW k \in Good
       PROVE  k + 1 \in Good
  <2>1. SUFFICES ASSUME (k + 1) + 1 <= N
                 PROVE  Is((k + 1) + 1)
    OBVIOUS
  <2>2. PICK n \in Nat : n = k + 2
    OBVIOUS
  <2>3. n \in 1..N /\ n # 1 /\ n - 1 = k + 1 /\ n - 1 \in 0..N /\ k + 1 <= N /\ (k + 1) + 1 = n
    BY ONLY <1>1, <2>1, <2>2, k \in Good
  <2>4. Q[n - 1] = P[n - 1] \o dot
    BY ONLY <2>3, k \in Good DEF Is
  <2>5. P[n] = P[n - 1] \o (dot \o ls[n]) /\ Q[n] = Q[n - 1] \o (ls[n] \o dot)
    BY ONLY <1>3, <1>4, <1>8, <1>9, <2>3, Zenon
  <2>6. P[n - 1] \in Seq(Byte) /\ ls[n] \in Seq(Byte)
    BY ONLY <1>1, <1>10, <2>3
  <2>7. PICK a, l : a = P[n - 1] /\ l = ls[n]
    OBVIOUS
  <2>8. P[n] = a \o (dot \o l) /\ Q[n] = (a \o dot) \o (l \o dot) /\ a \in Seq(Byte) /\ l \in Seq(Byte)
    BY ONLY <2>4, <2>5, <2>6, <2>7, Zenon
  <2>9. a \o dot \in Seq(Byte) /\ dot \o l \in Seq(Byte)
    BY ONLY <1>2, <2>8, Joined
  <2>11. (a \o (dot \o l)) \o dot = (a \o dot) \o (l \o dot)
    BY ONLY <1>2, <2>8, Regrouped
  <2>12. Q[n] = P[n] \o dot
    BY ONLY <2>8, <2>11, Zenon
  <2> QED
    BY ONLY <2>3, <2>12, Zenon DEF Is
<1>14. Good = Nat
  <2>1. Good \subseteq Nat
    OBVIOUS
  <2> HIDE DEF Good
  <2> QED
    BY ONLY <1>12, <1>13, <2>1, CountUp
<1>15. N - 1 \in Nat /\ (N - 1) + 1 = N /\ N \in 0..N
  BY ONLY <1>1
<1>16. N - 1 \in Good
  BY ONLY <1>14, <1>15, Zenon
<1>17. Q[N] = P[N] \o dot
  BY ONLY <1>1, <1>15, <1>16 DEF Is
<1>18. Dotted(ls) \in Seq(Byte) /\ FlattenSeq(v) = Dotted(ls) \o dot
  BY ONLY <1>7, <1>8, <1>9, <1>10, <1>15, <1>17, Zenon
<1> QED
  BY ONLY <1>18 DEF v, dot

\* No labels, no dots.
LEMMA NoDots ==
    ASSUME NEW ls \in Seq(Seq(Byte)), Len(ls) = 0
    PROVE  Dotted(ls) = NoName /\ FlattenSeq(LabelsDotted(ls)) = <<>>
<1>1. ls = <<>>
  OBVIOUS
<1>2. \A f : DOMAIN f = {} => TRUE
  OBVIOUS
<1> DEFINE u == [i \in DOMAIN ls |-> (IF i = 1 THEN <<>> ELSE <<Dot>>) \o ls[i]]
<1>3. u \in Seq(Seq(Byte)) /\ Len(u) = 0
  BY ONLY <1>1
<1>4. LabelsDotted(ls) \in Seq(Seq(Byte)) /\ Len(LabelsDotted(ls)) = 0
  BY ONLY <1>1 DEF LabelsDotted
<1> QED
  BY <1>3, <1>4 DEF Dotted, FlattenSeq, NoName

\* What the parser makes of the labels ls in d, the first n bytes of a question.
LabelsFound(ls, n, d) ==
    /\ n >= 13 + Len(FlattenSeq(LabelParts(ls))) =>
          Labels(d).ends /\ Labels(d).text = FlattenSeq(LabelsDotted(ls))
    /\ ~(n >= 13 + Len(FlattenSeq(LabelParts(ls)))) => ~Labels(d).ends

\* The walk over the labels ends when, and only when, the root label is there.
LEMMA LabelsOfFirst ==
    ASSUME NEW m, IsDnsMessage(m), NEW ls, ls = m.labels,
           NEW b, b = DnsBytes(m), NEW n \in 0..Len(b), NEW d, d = SubSeq(b, 1, n)
    PROVE  LabelsFound(ls, n, d)
<1> DEFINE q == Len(ls)
           parts == LabelParts(ls)
           f == FlattenSeq(parts)
           V == LabelsDotted(ls)
           Q == Beginnings(V)
           T(k) == Taken(parts, k)
           dot == <<Dot>>
<1>1. /\ DnsLayout(b, f) /\ ls \in Seq(Seq(Byte))
      /\ parts \in Seq(Seq(Byte)) /\ Len(parts) = q
      /\ V \in Seq(Seq(Byte)) /\ Len(V) = q
      /\ \A k \in 1..q :
            /\ ls[k] \in Seq(Byte) /\ Len(ls[k]) \in 1..63
            /\ parts[k] = LabelPart(ls[k])
            /\ V[k] = ls[k] \o <<Dot>>
  BY ONLY IsDnsMessage(m), ls = m.labels, b = DnsBytes(m), DnsShape
<1>2. /\ b \in Seq(Byte) /\ f \in Seq(Byte) /\ Len(f) \in Nat /\ Len(b) = 17 + Len(f)
      /\ Holds(b, 12, f) /\ Holds(b, 12 + Len(f), <<0>>)
  BY ONLY <1>1, PTL DEF DnsLayout
<1>3. d \in Seq(Byte) /\ Len(d) = n
  BY ONLY <1>2, n \in 0..Len(b), d = SubSeq(b, 1, n), FirstBytes
<1>4. n \in Nat /\ q \in Nat
  BY ONLY <1>1, <1>2, n \in 0..Len(b)
<1>5. /\ T(0) = 0 /\ T(q) = Len(f)
      /\ \A k \in 0..q : T(k) \in Nat /\ T(k) <= T(q)
      /\ \A k \in 1..q :
            /\ T(k) = T(k - 1) + Len(parts[k])
            /\ \A i \in 1..Len(parts[k]) : f[T(k - 1) + i] = parts[k][i]
  <2> HIDE DEF q, parts
  <2>1. /\ T(0) = 0 /\ T(Len(parts)) = Len(FlattenSeq(parts))
        /\ \A k \in 0..Len(parts) : T(k) \in Nat /\ T(k) <= T(Len(parts))
        /\ \A k \in 1..Len(parts) :
              /\ T(k) = T(k - 1) + Len(parts[k])
              /\ \A i \in 1..Len(parts[k]) : FlattenSeq(parts)[T(k - 1) + i] = parts[k][i]
    BY ONLY <1>1, Positions
  <2> HIDE DEF T
  <2> QED
    BY ONLY <1>1, <2>1, Zenon
<1>6. /\ Q \in [0..q -> Seq(Byte)] /\ Q[0] = <<>> /\ FlattenSeq(V) = Q[q]
      /\ \A k \in 1..q : Q[k] = Q[k - 1] \o V[k]
  <2> HIDE DEF V, q
  <2>1. /\ Q \in [0..Len(V) -> Seq(Byte)] /\ Q[0] = <<>> /\ FlattenSeq(V) = Q[Len(V)]
        /\ \A k \in 1..Len(V) : Q[k] = Q[k - 1] \o V[k]
    BY ONLY <1>1, Flatten
  <2> HIDE DEF Q
  <2> QED
    BY ONLY <1>1, <2>1, Zenon
<1>7. PICK w : /\ Labels(d) = w[12]
               /\ \A pos \in Nat : w[pos] = LabelsFrom(d, w, pos)
  BY ONLY <1>3, LabelWalk
<1> DEFINE W(k) == w[12 + T(k)]
           Cut == [ends |-> FALSE, text |-> <<>>]
           Full == n >= 13 + Len(f)
           Claim(k) ==
              \E t \in Seq(Byte) : /\ W(k) = [ends |-> Full, text |-> t]
                                   /\ Full => Q[k] \o t = Q[q]
           Good == {i \in Nat : i <= q => Claim(q - i)}
<1> HIDE DEF q, parts, f, V, Q, T, dot
\* Where the labels end.
<1>8. Claim(q)
  <2>1. 12 + Len(f) \in Nat /\ W(q) = w[12 + Len(f)]
    BY ONLY <1>2, <1>5
  <2> HIDE DEF W
  <2>2. w[12 + Len(f)] = LabelsFrom(d, w, 12 + Len(f))
    BY ONLY <1>7, <2>1
  <2>3. <<>> \in Seq(Byte)
    OBVIOUS
  <2>4. CASE ~Full
    <3>1. 12 + Len(f) >= Len(d)
      BY ONLY <1>2, <1>3, <1>4, <2>4
    <3>2. W(q) = [ends |-> FALSE, text |-> <<>>]
      BY ONLY <2>1, <2>2, <3>1, Zenon DEF LabelsFrom
    <3>3. Full = FALSE
      BY ONLY <2>4
    <3> HIDE DEF Full
    <3>4. W(q) = [ends |-> Full, text |-> <<>>]
      BY ONLY <3>2, <3>3, Zenon
    <3> QED
      BY ONLY <2>3, <2>4, <3>4, Zenon
  <2>5. CASE Full
    <3>1. ~(12 + Len(f) >= Len(d)) /\ 12 + Len(f) + 1 <= n
      BY ONLY <1>2, <1>3, <1>4, <2>5
    <3>2. 0 \in Byte /\ ~(0 \in 1..191)
      BY DEF Byte
    <3>3. At(d, 12 + Len(f)) = 0
      <4>1. PICK r \in Nat : r = 12 + Len(f)
        BY ONLY <2>1
      <4>2. Holds(b, r, <<0>>) /\ r + 1 <= n
        BY ONLY <1>2, <3>1, <4>1, Zenon
      <4>3. At(d, r) = 0
        BY ONLY <1>2, <3>2, <4>2, n \in 0..Len(b), d = SubSeq(b, 1, n), ReadByte
      <4> QED
        BY ONLY <4>1, <4>3
    <3>4. W(q) = [ends |-> TRUE, text |-> <<>>]
      BY ONLY <2>1, <2>2, <3>1, <3>2, <3>3, Zenon DEF LabelsFrom
    <3>5. Q[q] \o <<>> = Q[q]
      <4>1. Q[q] \in Seq(Byte)
        BY ONLY <1>4, <1>6
      <4> QED
        BY ONLY <4>1, ConcatEmptySeq
    <3> QED
      BY ONLY <2>3, <2>5, <3>4, <3>5
  <2> QED
    BY ONLY <2>4, <2>5
\* What the walk makes of one label.
<1>9. ASSUME NEW k \in 1..q
      PROVE  IF 12 + T(k) > n THEN W(k - 1) = Cut
             ELSE W(k - 1) = [W(k) EXCEPT !.text = (ls[k] \o dot) \o @]
  <2> DEFINE p == 12 + T(k - 1)
             l == Len(ls[k])
  <2>1. /\ ls[k] \in Seq(Byte) /\ l \in 1..63 /\ parts[k] = LabelPart(ls[k])
        /\ k - 1 \in 0..q /\ k \in 0..q
    BY ONLY <1>1, <1>4, k \in 1..q
  <2>2. /\ parts[k] \in Seq(Byte) /\ Len(parts[k]) = 1 + l /\ l \in Byte
        /\ Holds(parts[k], 0, <<l>>) /\ Holds(parts[k], 1, ls[k])
    BY ONLY <2>1, LabelShape, Zenon
  <2>3. l \in Nat /\ l \in 1..191
    <3>1. \A i \in 1..63 : i \in Nat /\ i \in 1..191
      OBVIOUS
    <3> QED
      BY ONLY <2>1, <3>1, Zenon
  <2>4. T(k - 1) \in Nat /\ T(k) \in Nat /\ T(k) <= Len(f)
    BY ONLY <1>5, <2>1
  <2>5. T(k) = T(k - 1) + (1 + l)
    BY ONLY <1>5, <2>2, k \in 1..q, Zenon
  <2> HIDE DEF l
  <2>6. Holds(f, T(k - 1), parts[k])
    <3>1. \A i \in 1..Len(parts[k]) : f[T(k - 1) + i] = parts[k][i]
      BY ONLY <1>5, k \in 1..q, Zenon
    <3>2. T(k) = T(k - 1) + Len(parts[k])
      BY ONLY <1>5, k \in 1..q, Zenon
    <3>3. T(k - 1) + Len(parts[k]) <= Len(f)
      BY ONLY <2>4, <3>2, Zenon
    <3> QED
      BY ONLY <3>1, <3>3, Zenon DEF Holds
  <2>7. /\ p \in Nat /\ 0 \in Nat /\ 1 \in Nat /\ 12 \in Nat /\ p + 0 = p /\ p + 1 \in Nat
        /\ 12 + T(k) = p + 1 + l
    <3>1. PICK t \in Nat, u \in Nat : t = T(k - 1) /\ u = T(k)
      BY ONLY <2>4
    <3>2. p = 12 + t
      BY ONLY <3>1
    <3>3. u = t + (1 + l)
      BY ONLY <2>5, <3>1
    <3> HIDE DEF p
    <3>4. 12 + u = p + 1 + l /\ p \in Nat /\ p + 0 = p /\ p + 1 \in Nat
      BY ONLY <2>3, <3>2, <3>3
    <3>5. 0 \in Nat /\ 1 \in Nat /\ 12 \in Nat
      OBVIOUS
    <3> QED
      BY ONLY <3>1, <3>4, <3>5
  <2>8. Holds(b, p, parts[k])
    BY ONLY <1>2, <2>2, <2>4, <2>6, <2>7, HeldWithin, Zenon
  <2>9. W(k - 1) = w[p] /\ W(k) = w[p + 1 + l]
    BY ONLY <2>7
  <2> HIDE DEF p, W
  <2>10. <<l>> \in Seq(Byte)
    BY ONLY <2>2
  <2>11. Holds(b, p + 0, <<l>>)
    BY ONLY <1>2, <2>2, <2>7, <2>8, <2>10, HeldWithin, Zenon
  <2>12. Holds(b, p + 1, ls[k])
    BY ONLY <1>2, <2>1, <2>2, <2>7, <2>8, HeldWithin, Zenon
  <2>13. Holds(b, p, <<l>>)
    BY ONLY <2>7, <2>11, Zenon
  <2>14. ASSUME p + 1 <= n
         PROVE  At(d, p) = l
    BY ONLY <1>2, <2>2, <2>7, <2>13, <2>14, n \in 0..Len(b), d = SubSeq(b, 1, n), ReadByte, Zenon
  <2>15. w[p] = LabelsFrom(d, w, p)
    BY ONLY <1>7, <2>7
  <2>16. CASE 12 + T(k) > n
    <3>1. p >= Len(d) \/ p + 1 <= n
      BY ONLY <1>3, <1>4, <2>7
    <3>2. p + 1 <= n => At(d, p) = l /\ p + 1 + l > Len(d)
      BY ONLY <1>3, <2>7, <2>14, <2>16
    <3>3. p >= Len(d) \/ (At(d, p) \in 1..191 /\ p + 1 + At(d, p) > Len(d))
      BY ONLY <2>3, <3>1, <3>2, Zenon
    <3>4. w[p] = Cut
      BY ONLY <2>15, <3>3, Zenon DEF LabelsFrom
    <3> QED
      BY ONLY <2>9, <2>16, <3>4
  <2>17. CASE ~(12 + T(k) > n)
    <3>1. p + 1 <= n /\ ~(p >= Len(d)) /\ ~(p + 1 + l > Len(d)) /\ (p + 1) + l <= n
      BY ONLY <1>3, <1>4, <2>3, <2>7, <2>17
    <3>2. At(d, p) = l
      BY ONLY <2>14, <3>1
    <3>3. Slice(d, p + 1, l) = ls[k]
      <4>1. (p + 1) + Len(ls[k]) <= n
        BY ONLY <3>1 DEF l
      <4>2. Slice(d, p + 1, Len(ls[k])) = ls[k]
        BY ONLY <1>2, <2>1, <2>7, <2>12, <4>1, n \in 0..Len(b), d = SubSeq(b, 1, n), ReadPart, Zenon
      <4> QED
        BY ONLY <4>2 DEF l
    <3>4. w[p] = [w[p + 1 + l] EXCEPT !.text = Slice(d, p + 1, l) \o <<Dot>> \o @]
      BY ONLY <2>3, <2>15, <3>1, <3>2, Zenon DEF LabelsFrom
    <3>5. w[p] = [w[p + 1 + l] EXCEPT !.text = (ls[k] \o dot) \o @]
      BY ONLY <3>3, <3>4, Zenon DEF dot
    <3> QED
      BY ONLY <2>9, <2>17, <3>5
  <2> QED
    BY ONLY <2>16, <2>17
<1> HIDE DEF W
\* So the claim goes from one label to the one before it.
<1>10. ASSUME NEW k \in 1..q, Claim(k)
       PROVE  Claim(k - 1)
  <2>1. PICK t \in Seq(Byte) : W(k) = [ends |-> Full, text |-> t] /\ (Full => Q[k] \o t = Q[q])
    BY ONLY <1>10
  <2>2. <<>> \in Seq(Byte)
    OBVIOUS
  <2>3. T(k) \in Nat /\ T(k) <= Len(f) /\ k \in 0..q /\ k - 1 \in 0..q
    BY ONLY <1>4, <1>5, k \in 1..q
  <2>4. V[k] = ls[k] \o dot /\ V[k] \in Seq(Byte) /\ Q[k] = Q[k - 1] \o V[k] /\ Q[k - 1] \in Seq(Byte)
    <3>1. V[k] = ls[k] \o dot
      BY ONLY <1>1, k \in 1..q DEF dot
    <3>2. V[k] \in Seq(Byte)
      BY ONLY <1>1, k \in 1..q
    <3> QED
      BY ONLY <1>6, <2>3, <3>1, <3>2
  <2>5. CASE 12 + T(k) > n
    <3>1. ~Full
      BY ONLY <1>2, <1>4, <2>3, <2>5
    <3>2. W(k - 1) = [ends |-> FALSE, text |-> <<>>]
      BY ONLY <1>9, <2>5
    <3> QED
      <4>1. Full = FALSE
        BY ONLY <3>1
      <4> HIDE DEF Full
      <4>2. W(k - 1) = [ends |-> Full, text |-> <<>>]
        BY ONLY <3>2, <4>1, Zenon
      <4> QED
        BY ONLY <2>2, <3>1, <4>2, Zenon
  <2>6. CASE ~(12 + T(k) > n)
    <3>1. W(k - 1) = [W(k) EXCEPT !.text = (ls[k] \o dot) \o @]
      BY ONLY <1>9, <2>6
    <3> DEFINE u == V[k] \o t
    <3>2. u \in Seq(Byte)
      BY ONLY <2>4, t \in Seq(Byte), Joined
    <3>3. W(k - 1) = [ends |-> Full, text |-> u]
      <4>1. PICK full : full = Full
        OBVIOUS
      <4>2. W(k) = [ends |-> full, text |-> t]
        BY ONLY <2>1, <4>1
      <4>3. W(k - 1) = [ends |-> full, text |-> (ls[k] \o dot) \o t]
        <5>1. PICK x : x = ls[k] \o dot
          OBVIOUS
        <5>2. \A y : [[ends |-> full, text |-> t] EXCEPT !.text = y]
                        = [ends |-> full, text |-> y]
          OBVIOUS
        <5>3. [ends |-> full, text |-> t].text = t
          OBVIOUS
        <5>4. W(k - 1) = [W(k) EXCEPT !.text = x \o W(k).text]
          BY ONLY <3>1, <5>1, Zenon
        <5>5. W(k - 1) = [[ends |-> full, text |-> t] EXCEPT !.text = x \o t]
          BY ONLY <4>2, <5>3, <5>4, Zenon
        <5> QED
          BY ONLY <5>1, <5>2, <5>5, Zenon
      <4> QED
        BY ONLY <2>4, <4>1, <4>3, Zenon
    <3>4. Full => Q[k - 1] \o u = Q[q]
      <4>1. (Q[k - 1] \o V[k]) \o t = Q[k - 1] \o (V[k] \o t)
        BY ONLY <2>4, t \in Seq(Byte), Grouping
      <4> QED
        BY ONLY <2>1, <2>4, <4>1, Zenon
    <3> HIDE DEF u, Full
    <3> QED
      BY ONLY <3>2, <3>3, <3>4
  <2> QED
    BY ONLY <2>5, <2>6
<1> HIDE DEF Claim
<1>11. Good = Nat
  <2>1. 0 \in Good
    <3>1. q - 0 = q
      BY ONLY <1>4
    <3> QED
      BY ONLY <1>8, <3>1
  <2>2. ASSUME NEW i \in Good
        PROVE  i + 1 \in Good
    <3>1. SUFFICES ASSUME i + 1 <= q
                   PROVE  Claim(q - (i + 1))
      OBVIOUS
    <3>2. i \in Nat /\ i <= q /\ q - i \in 1..q /\ (q - i) - 1 = q - (i + 1)
      BY ONLY <1>4, <3>1, i \in Good
    <3>3. Claim(q - i)
      BY ONLY <3>2, i \in Good
    <3>4. Claim((q - i) - 1)
      BY ONLY <1>10, <3>2, <3>3
    <3> QED
      BY ONLY <3>2, <3>4
  <2>3. Good \subseteq Nat
    OBVIOUS
  <2> HIDE DEF Good
  <2> QED
    BY ONLY <2>1, <2>2, <2>3, CountUp
<1>12. Claim(0)
  <2>1. q \in Good
    BY ONLY <1>4, <1>11, Zenon
  <2>2. q <= q /\ q - q = 0
    BY ONLY <1>4
  <2> QED
    BY ONLY <2>1, <2>2
<1>13. PICK t \in Seq(Byte) : W(0) = [ends |-> Full, text |-> t] /\ (Full => Q[0] \o t = Q[q])
  BY ONLY <1>12 DEF Claim
<1>14. W(0) = w[12]
  <2>1. 12 + T(0) = 12
    BY ONLY <1>5
  <2> QED
    BY ONLY <2>1 DEF W
<1>15. Labels(d).ends = Full /\ Labels(d).text = t
  BY ONLY <1>7, <1>13, <1>14
<1>16. Full => t = FlattenSeq(V)
  <2>1. <<>> \o t = t
    BY ONLY t \in Seq(Byte), ConcatEmptySeq
  <2> QED
    BY ONLY <1>6, <1>13, <2>1, Zenon
<1> QED
  BY <1>15, <1>16, Zenon DEF LabelsFound, V, f, parts

\* Without the last dot the text of the labels is the name.
LEMMA LastDotOff ==
    ASSUME NEW t \in Seq(Byte)
    PROVE  /\ t \o <<Dot>> # <<>>
           /\ SubSeq(t \o <<Dot>>, 1, Len(t \o <<Dot>>) - 1) = t
<1> DEFINE dot == <<Dot>>
           s == t \o dot
<1>1. dot \in Seq(Byte) /\ Len(dot) = 1
  BY DEF Dot, Byte
<1>2. Len(t) \in Nat
  OBVIOUS
<1> HIDE DEF dot
<1>3. s \in Seq(Byte) /\ Len(s) = Len(t) + Len(dot) /\ \A i \in 1..Len(t) : s[i] = t[i]
  BY ONLY <1>1, t \in Seq(Byte), Joined
<1> HIDE DEF s
<1>4. Len(s) = Len(t) + 1
  BY ONLY <1>1, <1>3, Zenon
<1>5. Len(s) - 1 = Len(t) /\ Len(t) <= Len(s) /\ Len(s) # 0
  BY ONLY <1>2, <1>4
<1>6. s # <<>>
  <2>1. Len(<<>>) = 0
    OBVIOUS
  <2> QED
    BY ONLY <1>5, <2>1, Zenon
<1>7. SubSeq(s, 1, Len(t)) = t
  <2>1. PICK n \in Nat : n = Len(t)
    BY ONLY <1>2
  <2>2. n <= Len(s) /\ \A i \in 1..n : s[i] = t[i]
    BY ONLY <1>3, <1>5, <2>1
  <2>3. /\ SubSeq(s, 1, n) \in Seq(Byte) /\ Len(SubSeq(s, 1, n)) = n
        /\ \A i \in 1..n : SubSeq(s, 1, n)[i] = s[i]
    <3>1. s \in Seq(Byte)
      BY ONLY <1>3
    <3> QED
      BY ONLY <2>2, <3>1, n \in Nat
  <2>4. SubSeq(s, 1, n) = t
    BY ONLY <2>1, <2>2, <2>3, t \in Seq(Byte), SeqEqual, Zenon
  <2> QED
    BY ONLY <2>1, <2>4
<1> QED
  BY ONLY <1>5, <1>6, <1>7, Zenon DEF s, dot

\* The same of a question, or of an answer that repeats it.
LEMMA DnsExact ==
    ASSUME NEW m, IsDnsMessage(m)
    PROVE  \E e \in 0..Len(DnsBytes(m)) : \A n \in 0..Len(DnsBytes(m)) :
              extract_query_domain(SubSeq(DnsBytes(m), 1, n))
                 = IF n >= e THEN TrueName(m) ELSE NoName
<1> DEFINE b == DnsBytes(m)
           ls == m.labels
           f == FlattenSeq(LabelParts(ls))
           e == 13 + Len(f)
<1>1. DnsLayout(b, f) /\ ls \in Seq(Seq(Byte))
  BY DnsShape
<1>2. b \in Seq(Byte) /\ Len(f) \in Nat /\ Len(b) = 17 + Len(f) /\ Holds(b, 4, <<0, 1>>)
  BY ONLY <1>1, PTL DEF DnsLayout
<1>3. TrueName(m) = Dotted(ls)
  BY DEF IsDnsMessage, TrueName
<1>4. ASSUME NEW n \in 0..Len(b)
      PROVE  extract_query_domain(SubSeq(b, 1, n)) = IF n >= e THEN TrueName(m) ELSE NoName
  <2>1. PICK d : d = SubSeq(b, 1, n)
    OBVIOUS
  <2>2. b = DnsBytes(m) /\ ls = m.labels
    OBVIOUS
  <2> DEFINE found == Labels(d)
  <2>3. /\ n >= e => found.ends /\ found.text = FlattenSeq(LabelsDotted(ls))
        /\ ~(n >= e) => ~found.ends
    <3> HIDE DEF b, ls
    <3>1. LabelsFound(ls, n, d)
      BY ONLY IsDnsMessage(m), n \in 0..Len(b), <2>1, <2>2, LabelsOfFirst, Zenon
    <3> QED
      BY ONLY <3>1 DEF LabelsFound, f, e
  <2> HIDE DEF b, ls, f, found
  <2>4. n \in Nat
    BY ONLY <1>2, n \in 0..Len(b)
  <2>5. d \in Seq(Byte) /\ Len(d) = n
    BY ONLY <1>2, <2>1, n \in 0..Len(b), FirstBytes
  <2>6. CASE ~(n >= e)
    <3>1. extract_query_domain(d) = NoName
      BY ONLY <2>3, <2>6, Zenon DEF extract_query_domain, found
    <3> QED
      BY ONLY <2>1, <2>6, <3>1, Zenon
  <2>7. CASE n >= e
    <3>1. Question(d)
      <4>1. n >= 12 /\ 4 + 2 <= n
        BY ONLY <1>2, <2>4, <2>7
      <4>2. 0 \in Byte /\ 1 \in Byte /\ 4 \in Nat
        BY DEF Byte
      <4>3. <<0, 1>> \in Seq(Byte) /\ Len(<<0, 1>>) = 2
        BY ONLY <4>2
      <4>4. 4 + Len(<<0, 1>>) <= n
        BY ONLY <4>1, <4>3, Zenon
      <4>5. Holds(d, 4, <<0, 1>>)
        <5>1. PICK p \in Nat, a \in Seq(Byte) : p = 4 /\ a = <<0, 1>>
          BY ONLY <4>2, <4>3
        <5>2. Holds(b, p, a) /\ p + Len(a) <= n
          BY ONLY <1>2, <4>4, <5>1, Zenon
        <5>3. Holds(d, p, a)
          BY ONLY <1>2, <2>1, <5>2, n \in 0..Len(b), FirstBytes, Zenon
        <5> QED
          BY ONLY <5>1, <5>3, Zenon
      <4>6. U16(d, 4) = 256 * 0 + 1
        BY ONLY <2>5, <4>2, <4>5, HeldIsRead
      <4>7. U16(d, 4) > 0
        BY ONLY <4>6
      <4>8. Len(d) >= 12
        BY ONLY <2>5, <4>1
      <4> QED
        BY ONLY <4>7, <4>8 DEF Question
    <3>2. found.ends /\ found.text = FlattenSeq(LabelsDotted(ls))
      BY ONLY <2>3, <2>7
    <3>3. extract_query_domain(d) =
             IF found.text # <<>> THEN SubSeq(found.text, 1, Len(found.text) - 1) ELSE NoName
      BY ONLY <3>1, <3>2, Zenon DEF extract_query_domain, found
    <3>4. extract_query_domain(d) = Dotted(ls)
      <4>1. CASE Len(ls) = 0
        <5>1. Dotted(ls) = NoName /\ found.text = <<>>
          BY ONLY <1>1, <3>2, <4>1, NoDots
        <5> QED
          BY ONLY <3>3, <5>1, Zenon
      <4>2. CASE Len(ls) # 0
        <5>1. Dotted(ls) \in Seq(Byte) /\ found.text = Dotted(ls) \o <<Dot>>
          BY ONLY <1>1, <3>2, <4>2, DotsBetween, Zenon
        <5>2. /\ Dotted(ls) \o <<Dot>> # <<>>
              /\ SubSeq(Dotted(ls) \o <<Dot>>, 1, Len(Dotted(ls) \o <<Dot>>) - 1) = Dotted(ls)
          BY ONLY <5>1, LastDotOff, Zenon
        <5> QED
          BY ONLY <3>3, <5>1, <5>2, Zenon
      <4> QED
        BY ONLY <4>1, <4>2
    <3> QED
      BY ONLY <1>3, <2>1, <2>7, <3>4, Zenon
  <2> QED
    BY ONLY <2>6, <2>7
<1>5. e \in 0..Len(b)
  <2>1. PICK l \in Nat : l = Len(f)
    BY ONLY <1>2
  <2> HIDE DEF b, f
  <2>2. Len(b) = 17 + l /\ 13 + l \in 0..17 + l /\ e = 13 + l
    BY ONLY <1>2, <2>1
  <2> HIDE DEF e
  <2> QED
    BY ONLY <2>2, Zenon
<1> HIDE DEF e
<1> QED
  BY ONLY <1>4, <1>5

\* What the parser that a message is for finds in its first n bytes.
Read(m, n) == IF IsTls(m) THEN extract_sni(SubSeq(Bytes(m), 1, n))
                          ELSE extract_query_domain(SubSeq(Bytes(m), 1, n))

\* Nothing or the true name, and that from some number of bytes on.
LEMMA Exact ==
    ASSUME NEW m, IsHelloMessage(m) \/ IsDnsMessage(m)
    PROVE  /\ Len(Bytes(m)) \in Nat
           /\ \E e \in 0..Len(Bytes(m)) : \A n \in 0..Len(Bytes(m)) :
                 Read(m, n) = IF n >= e THEN TrueName(m) ELSE NoName
<1>1. CASE IsHelloMessage(m)
  <2>1. IsTls(m)
    BY ONLY <1>1 DEF IsTls, IsHelloMessage
  <2>2. Bytes(m) = HelloBytes(m) /\ \A n : Read(m, n) = extract_sni(SubSeq(HelloBytes(m), 1, n))
    BY ONLY <2>1 DEF Bytes, Read
  <2>3. Len(HelloBytes(m)) \in Nat
    <3>1. HelloLayout(m, HelloBytes(m), Lengths(m), ExtBytes(m.exts))
      BY ONLY <1>1, HelloShape, Zenon
    <3>2. HelloBytes(m) \in Seq(Byte)
      BY ONLY <3>1, PTL DEF HelloLayout
    <3> QED
      BY ONLY <3>2
  <2>4. \E e \in 0..Len(HelloBytes(m)) : \A n \in 0..Len(HelloBytes(m)) :
           extract_sni(SubSeq(HelloBytes(m), 1, n)) = IF n >= e THEN TrueName(m) ELSE NoName
    BY ONLY <1>1, HelloExact
  <2> QED
    BY ONLY <2>2, <2>3, <2>4, Zenon
<1>2. CASE IsDnsMessage(m)
  <2>1. ~IsTls(m)
    BY ONLY <1>2 DEF IsTls, IsDnsMessage
  <2>2. Bytes(m) = DnsBytes(m) /\ \A n : Read(m, n) = extract_query_domain(SubSeq(DnsBytes(m), 1, n))
    BY ONLY <2>1 DEF Bytes, Read
  <2>3. Len(DnsBytes(m)) \in Nat
    <3>1. DnsLayout(DnsBytes(m), FlattenSeq(LabelParts(m.labels)))
      BY ONLY <1>2, DnsShape
    <3>2. DnsBytes(m) \in Seq(Byte)
      BY ONLY <3>1, PTL DEF DnsLayout
    <3> QED
      BY ONLY <3>2
  <2>4. \E e \in 0..Len(DnsBytes(m)) : \A n \in 0..Len(DnsBytes(m)) :
           extract_query_domain(SubSeq(DnsBytes(m), 1, n)) = IF n >= e THEN TrueName(m) ELSE NoName
    BY ONLY <1>2, DnsExact
  <2> QED
    BY ONLY <2>2, <2>3, <2>4, Zenon
<1> QED
  BY <1>1, <1>2

\* The true name is a sequence of bytes.
LEMMA NameIsBytes ==
    ASSUME NEW m, IsHelloMessage(m) \/ IsDnsMessage(m)
    PROVE  TrueName(m) \in Seq(Byte)
<1>1. CASE m.kind = "other"
  BY ONLY <1>1 DEF TrueName, NoName
<1>2. CASE IsHelloMessage(m) /\ m.kind # "other"
  <2> DEFINE x == m.exts
             names == [i \in DOMAIN x |-> x[i].name]
  <2>1. x \in Seq(Extension) /\ DOMAIN x = 1..Len(x) /\ Len(x) \in Nat
    BY ONLY <1>2 DEF IsHelloMessage
  <2>2. \A i \in 1..Len(x) : x[i].name \in Seq(Byte)
    <3>1. \A i \in 1..Len(m.exts) : m.exts[i] \in Extension
      BY ONLY <2>1
    <3> QED
      BY ONLY <3>1 DEF Extension
  <2>3. names = [i \in 1..Len(x) |-> x[i].name]
    BY ONLY <2>1
  <2>4. TrueName(m) = FlattenSeq(names)
    BY ONLY <1>2 DEF TrueName, IsHelloMessage
  <2> HIDE DEF names, x
  <2>5. names \in Seq(Seq(Byte))
    BY ONLY <2>1, <2>2, <2>3
  <2> QED
    BY ONLY <2>4, <2>5, Positions
<1>3. CASE IsDnsMessage(m)
  <2>1. TrueName(m) = Dotted(m.labels) /\ m.labels \in Seq(Seq(Byte))
    BY ONLY <1>3 DEF TrueName, IsDnsMessage
  <2>2. CASE Len(m.labels) = 0
    BY ONLY <2>1, <2>2, NoDots DEF NoName
  <2>3. CASE Len(m.labels) # 0
    BY ONLY <2>1, <2>3, DotsBetween
  <2> QED
    BY ONLY <2>2, <2>3
<1> QED
  BY <1>1, <1>2, <1>3

-----------------------------------------------------------------------------
(* The specification.                                                      *)

\* The events of a look that saw n bytes of m, put to the account of i.
EventsOf(i, m, n) == {[ip |-> i, domain |-> d] : d \in {Read(m, n)} \ {NoName}}

\* The last look found what the parser makes of the bytes it saw.
Inv ==
    /\ message \in Message
    /\ there \in 0..Len(Bytes(message))
    /\ look.made \in BOOLEAN /\ look.saw \in 0..there
    /\ IF look.made
       THEN \E i \in {Client, Server} : /\ message.kind # "answer" => i = Client
                                        /\ look.events = EventsOf(i, message, look.saw)
       ELSE look.events = {}

\* Whose account a captured message is put to: its source address.
Sender(m) == IF m.kind # "answer" THEN Client ELSE Server

\* A captured packet gives what the parser makes of its payload.
LEMMA CaptureReads ==
    ASSUME NEW m, IsHelloMessage(m) \/ IsDnsMessage(m), NEW n
    PROVE  pcap_packet_handler(Packet(m, n)) = EventsOf(Sender(m), m, n)
<1> DEFINE p == Packet(m, n)
           payload == SubSeq(Bytes(m), 1, n)
           name == IF p.proto = "udp" /\ 53 \in {p.sport, p.dport}
                   THEN extract_query_domain(p.payload)
                   ELSE IF p.proto = "tcp" /\ p.dport = 443 /\ p.payload # <<>>
                   THEN extract_sni(p.payload)
                   ELSE NoName
<1>1. pcap_packet_handler(p) = {[ip |-> p.src, domain |-> d] : d \in {name} \ {NoName}}
  BY ONLY TRUE, Zenon DEF pcap_packet_handler
<1>2. p.src = Sender(m) /\ p.payload = payload
  BY ONLY TRUE DEF Packet, Sender
<1>3. p.proto = IF IsTls(m) THEN "tcp" ELSE "udp"
  BY ONLY TRUE DEF Packet
<1>4. /\ p.dport = IF m.kind # "answer" THEN IF IsTls(m) THEN 443 ELSE 53 ELSE EphemeralPort
      /\ p.sport = IF m.kind # "answer" THEN EphemeralPort ELSE IF IsTls(m) THEN 443 ELSE 53
  BY ONLY TRUE DEF Packet
<1>5. name = Read(m, n)
  <2> HIDE DEF p, payload
  <2>1. CASE IsTls(m)
    <3>1. m.kind # "answer"
      BY ONLY <2>1 DEF IsTls
    <3>2. p.proto = "tcp" /\ p.dport = 443 /\ p.proto # "udp"
      BY ONLY <1>3, <1>4, <2>1, <3>1
    <3>3. Read(m, n) = extract_sni(payload)
      BY ONLY <2>1 DEF Read, payload
    <3>4. extract_sni(<<>>) = NoName
      <4>1. ~HasExtensions(<<>>)
        BY DEF HasExtensions, IsHello
      <4> QED
        BY ONLY <4>1 DEF extract_sni
    <3>5. CASE payload # <<>>
      BY ONLY <1>2, <3>2, <3>3, <3>5
    <3>6. CASE payload = <<>>
      <4>1. name = NoName
        BY ONLY <1>2, <3>2, <3>6
      <4>2. Read(m, n) = NoName
        BY ONLY <3>3, <3>4, <3>6, Zenon
      <4> QED
        BY ONLY <4>1, <4>2
    <3> QED
      BY ONLY <3>5, <3>6
  <2>2. CASE ~IsTls(m)
    <3>1. p.proto = "udp" /\ (p.sport = 53 \/ p.dport = 53)
      BY ONLY <1>3, <1>4, <2>2
    <3>2. Read(m, n) = extract_query_domain(payload)
      BY ONLY <2>2 DEF Read, payload
    <3>3. 53 \in {p.sport, p.dport}
      BY ONLY <3>1
    <3> QED
      BY ONLY <1>2, <3>1, <3>2, <3>3, Zenon
  <2> QED
    BY ONLY <2>1, <2>2
<1> HIDE DEF p, name
<1>6. pcap_packet_handler(p) = EventsOf(Sender(m), m, n)
  BY ONLY <1>1, <1>2, <1>5, Zenon DEF EventsOf
<1> QED
  BY ONLY <1>6 DEF p

\* The assumption on the messages, of one message.
LEMMA MessageIs ==
    ASSUME NEW m \in Message
    PROVE  IsHelloMessage(m) \/ IsDnsMessage(m)
  BY MessageAssumption, Zenon

\* No look has been taken.
LEMMA InitInv == Init => Inv
<1> SUFFICES ASSUME Init
             PROVE  Inv
  OBVIOUS
<1>1. message \in Message /\ there = 0 /\ look.made = FALSE /\ look.saw = 0 /\ look.events = {}
  BY DEF Init
<1>2. Len(Bytes(message)) \in Nat
  BY <1>1, MessageIs, Exact
<1>3. 0 \in 0..Len(Bytes(message)) /\ 0 \in 0..0
  BY ONLY <1>2
<1> QED
  BY ONLY <1>1, <1>3 DEF Inv

\* A look finds what there is to find, and arriving bytes leave it alone.
LEMMA NextInv == Inv /\ [Next]_vars => Inv'
<1> SUFFICES ASSUME Inv, [Next]_vars
             PROVE  Inv'
  OBVIOUS
<1>1. /\ message \in Message /\ there \in 0..Len(Bytes(message))
      /\ look.made \in BOOLEAN /\ look.saw \in 0..there
  BY DEF Inv
<1>2. Len(Bytes(message)) \in Nat /\ (IsHelloMessage(message) \/ IsDnsMessage(message))
  BY <1>1, MessageIs, Exact
<1>3. PICK l \in Nat : l = Len(Bytes(message))
  BY ONLY <1>2
<1>4. there \in Nat /\ there <= l
  BY ONLY <1>1, <1>3
\* A look at the first n bytes.
<1>5. ASSUME NEW n \in 0..there, NEW i \in {Client, Server}, NEW evs,
             message.kind # "answer" => i = Client, evs = EventsOf(i, message, n),
             look' = [made |-> TRUE, saw |-> n, events |-> evs], UNCHANGED <<message, there>>
      PROVE  Inv'
  <2>1. look'.made = TRUE /\ look'.saw = n /\ look'.events = evs /\ message' = message /\ there' = there
    BY <1>5
  <2>2. look'.events = EventsOf(i, message', look'.saw)
    BY ONLY <1>5, <2>1, Zenon
  <2>3. message'.kind # "answer" => i = Client
    BY ONLY <1>5, <2>1, Zenon
  <2>4. /\ message' \in Message /\ there' \in 0..Len(Bytes(message'))
        /\ look'.made \in BOOLEAN /\ look'.saw \in 0..there'
    BY ONLY <1>1, <2>1, n \in 0..there
  <2> QED
    BY ONLY <2>1, <2>2, <2>3, <2>4, i \in {Client, Server}, Zenon DEF Inv
<1>6. CASE Arrive
  <2>1. there < Len(Bytes(message)) /\ there' = there + 1 /\ message' = message /\ look' = look
    BY <1>6 DEF Arrive
  <2>2. there' \in 0..Len(Bytes(message'))
    <3>1. there + 1 \in 0..l
      BY ONLY <1>3, <1>4, <2>1
    <3> QED
      BY ONLY <1>3, <2>1, <3>1
  <2>3. look'.saw \in 0..there'
    <3>1. PICK t \in Nat : t = there
      BY ONLY <1>4
    <3>2. \A k \in 0..t : k \in 0..t + 1
      OBVIOUS
    <3> QED
      BY ONLY <1>1, <2>1, <3>1, <3>2
  <2>4. message' \in Message /\ look'.made \in BOOLEAN
    BY ONLY <1>1, <2>1
  <2>5. IF look'.made
        THEN \E i \in {Client, Server} : /\ message'.kind # "answer" => i = Client
                                         /\ look'.events = EventsOf(i, message', look'.saw)
        ELSE look'.events = {}
    BY <2>1, Zenon DEF Inv
  <2> QED
    BY ONLY <2>2, <2>3, <2>4, <2>5, Zenon DEF Inv
<1>7. CASE Peek
  <2> DEFINE n == IF there < PeekSize THEN there ELSE PeekSize
             name == extract_sni(SubSeq(Bytes(message), 1, n))
             evs == {[ip |-> Client, domain |-> d] : d \in {name} \ {NoName}}
  <2>1. /\ IsTls(message) /\ look' = [made |-> TRUE, saw |-> n, events |-> evs]
        /\ UNCHANGED <<message, there>>
    BY <1>7 DEF Peek, Looks
  <2>2. n \in 0..there
    BY ONLY <1>4, MessageAssumption DEF MessageAssumption
  <2> HIDE DEF n
  <2>3. evs = EventsOf(Client, message, n)
    BY ONLY <2>1, Zenon DEF EventsOf, Read
  <2> HIDE DEF evs
  <2> QED
    BY ONLY <1>5, <2>1, <2>2, <2>3, Zenon
<1>8. CASE Capture
  <2> DEFINE i == Sender(message)
             evs == pcap_packet_handler(Packet(message, there))
  <2>1. look' = [made |-> TRUE, saw |-> there, events |-> evs] /\ UNCHANGED <<message, there>>
    BY <1>8 DEF Capture, Looks
  <2>2. i \in {Client, Server} /\ (message.kind # "answer" => i = Client)
    BY DEF Sender
  <2>3. evs = EventsOf(i, message, there)
    BY ONLY <1>2, CaptureReads, Zenon
  <2>4. there \in 0..there
    BY ONLY <1>4
  <2> HIDE DEF evs, i
  <2> QED
    BY ONLY <1>5, <2>1, <2>2, <2>3, <2>4, Zenon
<1>9. CASE UNCHANGED vars
  BY <1>9, Zenon DEF Inv, vars
<1> QED
  BY <1>6, <1>7, <1>8, <1>9 DEF Next

\* What the invariant says of the events.
LEMMA InvTells ==
    ASSUME Inv
    PROVE  TypeOK /\ NeverAPart /\ WholeIsNamed
<1> DEFINE n == look.saw
           b == Bytes(message)
<1>1. message \in Message /\ there \in 0..Len(b) /\ n \in 0..there /\ look.made \in BOOLEAN
  BY DEF Inv
<1>2. IsHelloMessage(message) \/ IsDnsMessage(message)
  BY ONLY <1>1, MessageIs
<1>3. PICK e \in 0..Len(b) : \A k \in 0..Len(b) :
         Read(message, k) = IF k >= e THEN TrueName(message) ELSE NoName
  BY ONLY <1>2, Exact
<1>4. Len(b) \in Nat
  BY ONLY <1>2, Exact
<1> HIDE DEF b, n
<1>5. n \in 0..Len(b)
  <2>1. PICK l \in Nat : l = Len(b)
    BY ONLY <1>4
  <2> QED
    BY ONLY <1>1, <2>1
<1>6. Read(message, n) \in {TrueName(message), NoName}
  BY ONLY <1>3, <1>5
<1>7. ASSUME NEW v \in look.events
      PROVE  /\ v.ip \in {Client, Server} /\ (message.kind # "answer" => v.ip = Client)
             /\ v.domain = TrueName(message) /\ v.domain # NoName
  <2>1. PICK i \in {Client, Server} : /\ message.kind # "answer" => i = Client
                                      /\ look.events = EventsOf(i, message, n)
    BY v \in look.events DEF Inv, n
  <2>2. v = [ip |-> i, domain |-> Read(message, n)] /\ Read(message, n) # NoName
    BY ONLY <2>1, v \in look.events DEF EventsOf
  <2> QED
    BY ONLY <1>6, <2>1, <2>2
<1>8. TypeOK
  <2>1. TrueName(message) \in Seq(0..255)
    BY ONLY <1>2, NameIsBytes DEF Byte
  <2>2. \A v \in look.events : v.ip \in {Client, Server} /\ v.domain \in Seq(0..255) \ {NoName}
    BY ONLY <1>7, <2>1, Zenon
  <2> QED
    BY ONLY <1>1, <2>2, Zenon DEF TypeOK, n, b
<1>9. NeverAPart
  BY ONLY <1>7, Zenon DEF NeverAPart
<1>10. WholeIsNamed
  <2>1. SUFFICES ASSUME look.made, n = Len(b), TrueName(message) # NoName
                 PROVE  look.events # {}
    BY DEF WholeIsNamed, n, b
  <2>2. n >= e
    BY ONLY <1>3, <1>4, <2>1
  <2>3. Read(message, n) # NoName
    BY ONLY <1>3, <1>5, <2>1, <2>2
  <2>4. PICK i : look.events = EventsOf(i, message, n)
    BY <2>1 DEF Inv, n
  <2>5. [ip |-> i, domain |-> Read(message, n)] \in look.events
    BY ONLY <2>3, <2>4, Zenon DEF EventsOf
  <2> QED
    BY ONLY <2>5
<1> QED
  BY ONLY <1>8, <1>9, <1>10

\* A look at more bytes finds what one at fewer found: Exact gives the number
\* of bytes it takes.
LEMMA LooksKeep ==
    Inv /\ Inv' /\ [Next]_vars
        => (look.events # {} /\ look'.saw >= look.saw => look'.events # {})
<1> SUFFICES ASSUME Inv, Inv', [Next]_vars, look.events # {}, look'.saw >= look.saw
             PROVE  look'.events # {}
  OBVIOUS
<1>1. CASE look' = look
  BY <1>1
<1>2. CASE Peek \/ Capture
  <2>1. message' = message /\ there' = there /\ look'.made = TRUE
    BY <1>2 DEF Peek, Capture, Looks
  <2>2. message \in Message /\ there \in 0..Len(Bytes(message)) /\ look.saw \in 0..there
    BY DEF Inv
  <2>3. look'.saw \in 0..there'
    BY DEF Inv
  <2>4. IsHelloMessage(message) \/ IsDnsMessage(message)
    BY ONLY <2>2, MessageIs
  <2>5. PICK e \in 0..Len(Bytes(message)) : \A k \in 0..Len(Bytes(message)) :
           Read(message, k) = IF k >= e THEN TrueName(message) ELSE NoName
    BY ONLY <2>4, Exact
  <2>6. Len(Bytes(message)) \in Nat
    BY ONLY <2>4, Exact
  <2>7. PICK l \in Nat, k \in Nat, n \in Nat :
           l = Len(Bytes(message)) /\ k = look.saw /\ n = look'.saw /\ k <= l /\ n <= l /\ n >= k
    BY ONLY <2>1, <2>2, <2>3, <2>6, look'.saw >= look.saw
  <2>8. Read(message, k) # NoName
    BY <2>7 DEF Inv, EventsOf
  <2>9. k \in 0..l /\ n \in 0..l /\ e \in Nat
    BY ONLY <2>5, <2>6, <2>7
  <2>10. k >= e /\ TrueName(message) # NoName
    BY ONLY <2>5, <2>7, <2>8, <2>9
  <2>11. n >= e
    BY ONLY <2>7, <2>9, <2>10
  <2>12. Read(message, n) # NoName
    BY ONLY <2>5, <2>7, <2>9, <2>10, <2>11
  <2>13. PICK i : look'.events = EventsOf(i, message, n)
    BY <2>1, <2>7 DEF Inv
  <2>14. [ip |-> i, domain |-> Read(message, n)] \in look'.events
    BY ONLY <2>12, <2>13, Zenon DEF EventsOf
  <2> QED
    BY ONLY <2>14
<1>3. CASE Arrive \/ UNCHANGED vars
  BY <1>1, <1>3 DEF Arrive, vars
<1> QED
  BY <1>2, <1>3 DEF Next

\* The invariant holds in every state.
LEMMA InvHolds == Spec => []Inv
<1> QED
  BY InitInv, NextInv, PTL DEF Spec

\* Events of extract_sni and extract_query_domain have one of the two addresses
\* and a name of bytes that is not empty.
THEOREM TypeCorrect == Spec => []TypeOK
  BY InvHolds, InvTells, PTL

\* Wherever segments end and however few bytes the peek or the captured packet
\* holds, an event has the very name the client means, never a part of it, and
\* only an answer of a DNS server is put to another account than the client's.
THEOREM NamesAreWhole == Spec => []NeverAPart
  BY InvHolds, InvTells, PTL

\* A look at all the bytes of a message that has a name gives an event: no
\* order of extensions, padding or number of labels makes the parsers miss it.
THEOREM WholeGivesName == Spec => []WholeIsNamed
  BY InvHolds, InvTells, PTL

\* A peek or packet that sees at least the bytes that sufficed before gives an
\* event as well: no bytes that follow make the parsers drop the name.
THEOREM LaterIsNeverWorse == Spec => LaterLooksKeep
<1>1. Inv /\ Inv' /\ [Next]_vars => [look.events # {} /\ look'.saw >= look.saw => look'.events # {}]_vars
  BY LooksKeep
<1> QED
  BY InvHolds, <1>1, PTL DEF Spec, LaterLooksKeep
=============================================================================
