------------------------------- MODULE Induction ------------------------------
(* Induction over the naturals for properties given as sets, and what      *)
(* follows from it about values defined by recursion along a walk, and     *)
(* about sequences flattened.                                              *)
EXTENDS Integers, SequencesExt, SequenceTheorems, WellFoundedInduction, NaturalsInduction, TLAPS

-----------------------------------------------------------------------------
(* Induction, with the property as a set of naturals.                      *)
LEMMA InductionOnSet ==
    ASSUME NEW T, 0 \in T, \A n \in Nat : n \in T => n + 1 \in T
    PROVE  Nat \subseteq T
<1> DEFINE Rest == Nat \ T
<1> SUFFICES ASSUME Rest # {} PROVE FALSE
  OBVIOUS
<1>1. IsWellFoundedOn(OpToRel(<, Nat), Nat)
  BY NatLessThanWellFounded
<1>2. PICK n \in Rest : \A y \in Rest : ~ (<<y, n>> \in OpToRel(<, Nat))
  BY <1>1, WFMin
<1>3. n \in Nat \ {0}
  BY <1>2
<1>4. n - 1 \in Nat /\ n - 1 < n
  BY <1>3
<1>5. <<n - 1, n>> \in OpToRel(<, Nat)
  BY <1>3, <1>4 DEF OpToRel
<1>6. n - 1 \in T
  BY <1>2, <1>4, <1>5
<1>7. (n - 1) + 1 = n
  BY <1>3
<1> QED
  BY <1>2, <1>4, <1>6, <1>7

(* Induction up to a bound, and along a function.                          *)
LEMMA InductionUpTo ==
    ASSUME NEW n \in Nat, NEW T, 0 \in T, \A i \in 1 .. n : i - 1 \in T => i \in T
    PROVE  \A i \in 0 .. n : i \in T
<1> DEFINE U == {m \in Nat : m <= n => m \in T}
<1>1. 0 \in U
  OBVIOUS
<1>2. ASSUME NEW m \in Nat, m \in U PROVE m + 1 \in U
  <2>1. ASSUME m + 1 <= n PROVE m + 1 \in T
    <3>1. m + 1 \in 1 .. n /\ (m + 1) - 1 = m /\ m <= n
      BY <2>1
    <3>2. m \in T
      BY <1>2, <3>1
    <3> QED
      BY <3>1, <3>2
  <2> QED
    BY <2>1
<1> HIDE DEF U
<1>3. Nat \subseteq U
  BY <1>1, <1>2, InductionOnSet
<1> QED
  BY <1>3 DEF U

LEMMA WalkStays ==
    ASSUME NEW n \in Nat, NEW S, NEW g, g[0] \in S,
           \A i \in 1 .. n : g[i - 1] \in S => g[i] \in S
    PROVE  \A i \in 0 .. n : g[i] \in S
<1> DEFINE T == {m \in 0 .. n : g[m] \in S}
<1>1. 0 \in T /\ \A i \in 1 .. n : i - 1 \in T => i \in T
  OBVIOUS
<1> HIDE DEF T
<1>2. \A i \in 0 .. n : i \in T
  BY <1>1, InductionUpTo
<1> QED
  BY <1>2 DEF T

(* A walk over nodes that keeps a value: what it is after each of them.    *)
Walks(n, S, a, step) ==
    {f \in [0 .. n -> S] : f[0] = a /\ \A i \in 1 .. n : f[i] = step[<<i, f[i - 1]>>]}

LEMMA WalkGoesOn ==
    ASSUME NEW n \in Nat, NEW S, NEW a \in S, NEW step,
           NEW f \in Walks(n, S, a, step), step[<<n + 1, f[n]>>] \in S
    PROVE  Walks(n + 1, S, a, step) # {}
<1> DEFINE v == step[<<n + 1, f[n]>>]
           g == [i \in 0 .. n + 1 |-> IF i = n + 1 THEN v ELSE f[i]]
<1>1. /\ f \in [0 .. n -> S] /\ f[0] = a
      /\ \A i \in 1 .. n : f[i] = step[<<i, f[i - 1]>>]
  BY DEF Walks
<1>2. v \in S
  OBVIOUS
<1> HIDE DEF v
<1>3. g \in [0 .. n + 1 -> S]
  BY <1>1, <1>2
<1>4. g[0] = a /\ g[n] = f[n] /\ g[n + 1] = v
  BY <1>1
<1>5. ASSUME NEW i \in 1 .. n + 1 PROVE g[i] = step[<<i, g[i - 1]>>]
  <2>1. CASE i = n + 1
    BY <1>4, <2>1 DEF v
  <2>2. CASE i \in 1 .. n
    <3>1. g[i] = f[i] /\ g[i - 1] = f[i - 1]
      BY <2>2
    <3>2. f[i] = step[<<i, f[i - 1]>>]
      BY <1>1, <2>2
    <3> QED
      BY <3>1, <3>2
  <2> QED
    BY <2>1, <2>2
<1> HIDE DEF g
<1> QED
  BY <1>3, <1>4, <1>5 DEF Walks

LEMMA WalkExists ==
    ASSUME NEW m \in Nat, NEW S, NEW a \in S, NEW step \in [(1 .. m) \X S -> S]
    PROVE  Walks(m, S, a, step) # {}
<1> DEFINE T == {n \in Nat : n <= m => Walks(n, S, a, step) # {}}
<1>1. 0 \in T
  <2>1. [i \in 0 .. 0 |-> a] \in Walks(0, S, a, step)
    BY DEF Walks
  <2> QED
    BY <2>1
<1>2. ASSUME NEW n \in Nat, n \in T PROVE n + 1 \in T
  <2>1. ASSUME n + 1 <= m PROVE Walks(n + 1, S, a, step) # {}
    <3>1. PICK f : f \in Walks(n, S, a, step)
      BY <1>2, <2>1
    <3>2. f[n] \in S
      BY <3>1 DEF Walks
    <3>3. step[<<n + 1, f[n]>>] \in S
      BY <3>2, <2>1
    <3> QED
      BY <3>1, <3>3, WalkGoesOn
  <2> QED
    BY <2>1
<1> HIDE DEF T
<1>3. m \in T
  BY <1>1, <1>2, InductionOnSet
<1> QED
  BY <1>3 DEF T

-----------------------------------------------------------------------------
(* A sequence of sequences is flattened by a walk along it.                *)
Partial(ss) == CHOOSE flatten : flatten =
    [i \in 1 .. Len(ss) |-> IF i = 1 THEN ss[i] ELSE flatten[i - 1] \o ss[i]]

LEMMA PartialIsWalk ==
    ASSUME NEW D, NEW ss \in Seq(Seq(D))
    PROVE  \E k \in [0 .. Len(ss) -> Seq(D)] :
              /\ k[0] = <<>>
              /\ \A i \in 1 .. Len(ss) : k[i] = k[i - 1] \o ss[i]
              /\ \A i \in 1 .. Len(ss) : Partial(ss)[i] = k[i]
<1> DEFINE n == Len(ss)
           S == Seq(D)
           step == [x \in (1 .. n) \X S |-> x[2] \o ss[x[1]]]
           G(k) == [i \in 1 .. n |-> IF i = 1 THEN ss[i] ELSE k[i - 1] \o ss[i]]
           K == CHOOSE k : k = G(k)
<1>1. n \in Nat /\ <<>> \in S /\ \A i \in 1 .. n : ss[i] \in S
  OBVIOUS
<1>2. step \in [(1 .. n) \X S -> S]
  <2> SUFFICES ASSUME NEW i \in 1 .. n, NEW s \in S PROVE step[<<i, s>>] \in S
    OBVIOUS
  <2>1. s \o ss[i] \in S
    BY <1>1
  <2> QED
    BY <2>1
<1>3. Partial(ss) = K
  BY DEF Partial
<1> HIDE DEF S
<1>4. PICK f : f \in Walks(n, S, <<>>, step)
  <2> HIDE DEF n, step
  <2> QED
    BY <1>1, <1>2, WalkExists
<1>5. f \in [0 .. n -> S] /\ f[0] = <<>> /\ \A i \in 1 .. n : f[i] = step[<<i, f[i - 1]>>]
  BY <1>4 DEF Walks
<1> HIDE DEF n
<1>6. ASSUME NEW i \in 1 .. n PROVE f[i] = f[i - 1] \o ss[i]
  <2>1. f[i - 1] \in S
    BY <1>1, <1>5
  <2> QED
    BY <1>5, <2>1
<1> HIDE DEF step
<1> DEFINE g == [i \in 1 .. n |-> f[i]]
<1>7. g = G(g)
  <2> SUFFICES ASSUME NEW i \in 1 .. n PROVE g[i] = G(g)[i]
    OBVIOUS
  <2>1. CASE i = 1
    <3>1. f[i - 1] = <<>> /\ f[i] = f[i - 1] \o ss[i] /\ g[i] = f[i]
      <4>1. f[i] = f[i - 1] \o ss[i]
        BY <1>6
      <4>0. i - 1 = 0
        BY <2>1
      <4>2. g[i] = f[i]
        OBVIOUS
      <4> HIDE DEF g, G
      <4> QED
        BY <1>5, <4>0, <4>1, <4>2
    <3>2. <<>> \o ss[i] = ss[i]
      BY <1>1
    <3> QED
      BY <2>1, <3>1, <3>2
  <2>2. CASE i # 1
    <3>1. i - 1 \in 1 .. n /\ g[i - 1] = f[i - 1]
      BY <1>1, <2>2
    <3> QED
      BY <1>6, <2>2, <3>1
  <2> QED
    BY <2>1, <2>2
<1>8. K = G(K)
  <2> HIDE DEF G, g
  <2> QED
    BY <1>7
<1>9. \A i \in 1 .. n : K[i] = f[i]
  <2> DEFINE T == {i \in Nat : i + 1 <= n => K[i + 1] = f[i + 1]}
  <2> HIDE DEF K
  <2>1. ASSUME NEW i \in 1 .. n
        PROVE  K[i] = IF i = 1 THEN ss[i] ELSE K[i - 1] \o ss[i]
    <3>1. G(K)[i] = IF i = 1 THEN ss[i] ELSE K[i - 1] \o ss[i]
      OBVIOUS
    <3> HIDE DEF G
    <3> QED
      BY <1>8, <3>1
  <2>2. ASSUME NEW i \in 1 .. n
        PROVE  f[i] = IF i = 1 THEN ss[i] ELSE f[i - 1] \o ss[i]
    <3>1. g[i] = G(g)[i] /\ g[i] = f[i] /\ (i # 1 => g[i - 1] = f[i - 1])
      BY <1>1, <1>7
    <3>2. G(g)[i] = IF i = 1 THEN ss[i] ELSE g[i - 1] \o ss[i]
      OBVIOUS
    <3> HIDE DEF G, g
    <3> QED
      BY <3>1, <3>2
  <2> HIDE DEF G, g
  <2>3. 0 \in T
    <3>1. 1 <= n => 1 \in 1 .. n
      BY <1>1
    <3> QED
      BY <2>1, <2>2, <3>1
  <2>4. ASSUME NEW i \in Nat, i \in T PROVE i + 1 \in T
    <3>1. ASSUME (i + 1) + 1 <= n PROVE K[(i + 1) + 1] = f[(i + 1) + 1]
      <4> DEFINE m == (i + 1) + 1
      <4>1. m \in 1 .. n /\ m # 1 /\ m - 1 = i + 1 /\ i + 1 <= n
        BY <1>1, <3>1
      <4> HIDE DEF m
      <4>2. K[m - 1] = f[m - 1]
        BY <2>4, <4>1
      <4>3. K[m] = K[m - 1] \o ss[m] /\ f[m] = f[m - 1] \o ss[m]
        BY <2>1, <2>2, <4>1
      <4> QED
        BY <4>2, <4>3 DEF m
    <3> QED
      BY <3>1
  <2> HIDE DEF T
  <2>5. Nat \subseteq T
    BY <2>3, <2>4, InductionOnSet
  <2>6. ASSUME NEW i \in 1 .. n PROVE i - 1 \in Nat /\ (i - 1) + 1 = i /\ i <= n
    BY <1>1
  <2> QED
    BY <2>5, <2>6 DEF T
<1> HIDE DEF K, G
<1> QED
  BY <1>3, <1>5, <1>6, <1>9 DEF S, n

LEMMA FlattenIsWalk ==
    ASSUME NEW D, NEW ss \in Seq(Seq(D))
    PROVE  \E k \in [0 .. Len(ss) -> Seq(D)] :
              /\ k[0] = <<>>
              /\ \A i \in 1 .. Len(ss) : k[i] = k[i - 1] \o ss[i]
              /\ FlattenSeq(ss) = k[Len(ss)]
<1>1. PICK k \in [0 .. Len(ss) -> Seq(D)] :
        /\ k[0] = <<>>
        /\ \A i \in 1 .. Len(ss) : k[i] = k[i - 1] \o ss[i]
        /\ \A i \in 1 .. Len(ss) : Partial(ss)[i] = k[i]
  BY PartialIsWalk
<1>2. FlattenSeq(ss) = k[Len(ss)]
  <2>1. CASE Len(ss) = 0
    <3>1. ss = <<>>
      BY <2>1
    <3> QED
      BY <1>1, <2>1, <3>1 DEF FlattenSeq
  <2>2. CASE Len(ss) # 0
    <3>1. FlattenSeq(ss) = Partial(ss)[Len(ss)]
      BY <2>2 DEF FlattenSeq, Partial
    <3>2. Len(ss) \in 1 .. Len(ss)
      BY <2>2
    <3> QED
      BY <1>1, <3>1, <3>2
  <2> QED
    BY <2>1, <2>2
<1> QED
  BY <1>1, <1>2

(* ... each of them has its place in what comes out.                       *)
FlatPlaces(ss) ==
    {u \in [0 .. Len(ss) -> Nat] :
        /\ u[0] = 0 /\ u[Len(ss)] = Len(FlattenSeq(ss))
        /\ \A i \in 1 .. Len(ss) :
            /\ u[i] = u[i - 1] + Len(ss[i])
            /\ \A j \in 1 .. Len(ss[i]) : FlattenSeq(ss)[u[i - 1] + j] = ss[i][j]
        /\ \A i, l \in 0 .. Len(ss) : i <= l => u[i] <= u[l]}

LEMMA ConcatParts ==
    ASSUME NEW D, NEW a \in Seq(D), NEW b \in Seq(D), NEW c, c = a \o b
    PROVE  /\ c \in Seq(D) /\ Len(c) = Len(a) + Len(b)
           /\ \A j \in 1 .. Len(a) : c[j] = a[j]
           /\ \A j \in 1 .. Len(b) : c[Len(a) + j] = b[j]
<1>1. ASSUME NEW j \in 1 .. Len(b) PROVE c[Len(a) + j] = b[j]
  <2>1. Len(a) + j \in 1 .. Len(a) + Len(b) /\ Len(a) + j > Len(a) /\ (Len(a) + j) - Len(a) = j
    OBVIOUS
  <2> QED
    BY <2>1
<1> QED
  BY <1>1

LEMMA FlattenPlaces ==
    ASSUME NEW D, NEW ss \in Seq(Seq(D))
    PROVE  FlattenSeq(ss) \in Seq(D) /\ FlatPlaces(ss) # {}
<1>1. PICK k \in [0 .. Len(ss) -> Seq(D)] :
        /\ k[0] = <<>>
        /\ \A i \in 1 .. Len(ss) : k[i] = k[i - 1] \o ss[i]
        /\ FlattenSeq(ss) = k[Len(ss)]
  BY FlattenIsWalk
<1> DEFINE n == Len(ss)
           u == [i \in 0 .. n |-> Len(k[i])]
           Fits(m) ==
                    /\ \A i \in 1 .. m, j \in Nat \ {0} :
                          j <= Len(ss[i]) => u[i - 1] + j <= u[m] /\ k[m][u[i - 1] + j] = ss[i][j]
                    /\ \A i \in 0 .. m : u[i] <= u[m]
           T == {m \in Nat : m <= n => Fits(m)}
<1>2. /\ n \in Nat
      /\ \A i \in 0 .. n : k[i] \in Seq(D) /\ Len(k[i]) \in Nat /\ u[i] = Len(k[i])
      /\ \A i \in 1 .. n : ss[i] \in Seq(D) /\ Len(ss[i]) \in Nat
  BY <1>1
<1>3. ASSUME NEW i \in 1 .. n
      PROVE  /\ u[i] = u[i - 1] + Len(ss[i]) /\ u[i - 1] \in Nat /\ u[i] \in Nat
             /\ \A j \in 1 .. u[i - 1] : k[i][j] = k[i - 1][j]
             /\ \A j \in 1 .. Len(ss[i]) : k[i][u[i - 1] + j] = ss[i][j]
  <2>1. i - 1 \in 0 .. n /\ i \in 0 .. n
    BY <1>2
  <2>2. k[i] = k[i - 1] \o ss[i]
    BY <1>1
  <2>3. k[i - 1] \in Seq(D) /\ ss[i] \in Seq(D) /\ u[i - 1] = Len(k[i - 1]) /\ u[i] = Len(k[i])
    BY <1>2, <2>1
  <2>4. /\ Len(k[i]) = Len(k[i - 1]) + Len(ss[i])
        /\ \A j \in 1 .. Len(k[i - 1]) : k[i][j] = k[i - 1][j]
        /\ \A j \in 1 .. Len(ss[i]) : k[i][Len(k[i - 1]) + j] = ss[i][j]
    <3> DEFINE a == k[i - 1]
               b == ss[i]
               c == k[i]
    <3>1. a \in Seq(D) /\ b \in Seq(D) /\ c = a \o b
      BY <2>2, <2>3
    <3> HIDE DEF a, b, c
    <3>2. /\ Len(c) = Len(a) + Len(b)
          /\ \A j \in 1 .. Len(a) : c[j] = a[j]
          /\ \A j \in 1 .. Len(b) : c[Len(a) + j] = b[j]
      BY <3>1, ConcatParts
    <3> QED
      BY <3>2 DEF a, b, c
  <2>5. Len(k[i - 1]) \in Nat /\ Len(k[i]) \in Nat
    BY <1>2, <2>1
  <2> HIDE DEF u, n
  <2> QED
    BY <2>3, <2>4, <2>5
<1>4. 0 \in T
  BY <1>2
<1>5. ASSUME NEW m \in Nat, m \in T PROVE m + 1 \in T
  <2> SUFFICES ASSUME m + 1 <= n PROVE Fits(m + 1)
    <3> HIDE DEF Fits
    <3> QED
      OBVIOUS
  <2>1. m <= n /\ m \in 0 .. n /\ m + 1 \in 1 .. n /\ (m + 1) - 1 = m
    BY <1>2
  <2>2. /\ \A i \in 1 .. m, j \in Nat \ {0} :
             j <= Len(ss[i]) => u[i - 1] + j <= u[m] /\ k[m][u[i - 1] + j] = ss[i][j]
        /\ \A i \in 0 .. m : u[i] <= u[m]
    <3>1. Fits(m)
      <4> HIDE DEF Fits
      <4> QED
        BY <1>5, <2>1
    <3> QED
      BY <3>1
  <2>3. /\ u[m + 1] = u[m] + Len(ss[m + 1]) /\ u[m] \in Nat /\ Len(ss[m + 1]) \in Nat
        /\ \A j \in 1 .. u[m] : k[m + 1][j] = k[m][j]
        /\ \A j \in 1 .. Len(ss[m + 1]) : k[m + 1][u[m] + j] = ss[m + 1][j]
    <3> DEFINE p == m + 1
    <3>1. p \in 1 .. n /\ p - 1 = m
      BY <2>1
    <3> HIDE DEF p, u, n
    <3>2. /\ u[p] = u[p - 1] + Len(ss[p]) /\ u[p - 1] \in Nat
          /\ \A j \in 1 .. u[p - 1] : k[p][j] = k[p - 1][j]
          /\ \A j \in 1 .. Len(ss[p]) : k[p][u[p - 1] + j] = ss[p][j]
      BY <1>3, <3>1
    <3>3. Len(ss[p]) \in Nat
      BY <1>2, <3>1
    <3> QED
      BY <3>1, <3>2, <3>3 DEF p
  <2>4. \A i \in 0 .. m : u[i] \in Nat
    BY <1>2, <2>1
  <2> HIDE DEF u, T
  <2>5. ASSUME NEW i \in 1 .. m + 1, NEW j \in Nat \ {0}, j <= Len(ss[i])
        PROVE  u[i - 1] + j <= u[m + 1] /\ k[m + 1][u[i - 1] + j] = ss[i][j]
    <3>1. CASE i = m + 1
      <4>1. i - 1 = m /\ j \in 1 .. Len(ss[m + 1])
        BY <2>3, <2>5, <3>1
      <4> QED
        BY <2>3, <2>5, <3>1, <4>1
    <3>2. CASE i \in 1 .. m
      <4>1. u[i - 1] + j <= u[m] /\ k[m][u[i - 1] + j] = ss[i][j]
        BY <2>2, <2>5, <3>2
      <4>2. i - 1 \in 0 .. m /\ u[i - 1] \in Nat
        BY <2>4, <3>2
      <4> DEFINE q == u[i - 1] + j
                 z == Len(ss[m + 1])
      <4>3. q \in Int /\ q >= 1 /\ q <= u[m] /\ u[m] \in Nat
        <5>1. j \in Nat /\ j >= 1 /\ u[i - 1] \in Nat /\ u[m] \in Nat /\ q <= u[m]
          BY <2>3, <2>5, <4>1, <4>2
        <5> DEFINE v == u[i - 1]
        <5> HIDE DEF v
        <5>2. v + j \in Int /\ v + j >= 1
          <6>1. v \in Nat
            BY <5>1 DEF v
          <6> QED
            BY <5>1, <6>1
        <5> QED
          BY <5>1, <5>2 DEF v
      <4>4. u[m + 1] = u[m] + z /\ z \in Nat
        BY <2>3
      <4>5. k[m + 1][q] = k[m][q] /\ k[m][q] = ss[i][j]
        <5>1. q \in 1 .. u[m]
          BY <4>3
        <5> QED
          BY <2>3, <4>1, <5>1
      <4> HIDE DEF q, z
      <4>6. q <= u[m + 1] /\ k[m + 1][q] = ss[i][j]
        BY <4>3, <4>4, <4>5
      <4> QED
        BY <4>6 DEF q
    <3> QED
      BY <3>1, <3>2
  <2>6. ASSUME NEW i \in 0 .. m + 1 PROVE u[i] <= u[m + 1]
    <3>1. CASE i = m + 1
      BY <2>3, <3>1
    <3>2. CASE i \in 0 .. m
      BY <2>2, <2>3, <2>4, <3>2
    <3> QED
      BY <3>1, <3>2
  <2> QED
    BY <2>5, <2>6
<1>6. Nat \subseteq T
  <2> HIDE DEF T
  <2> QED
    BY <1>4, <1>5, InductionOnSet
<1>7. ASSUME NEW m \in 0 .. n
      PROVE  /\ \A i \in 1 .. m, j \in Nat \ {0} :
                   j <= Len(ss[i]) => u[i - 1] + j <= u[m] /\ k[m][u[i - 1] + j] = ss[i][j]
             /\ \A i \in 0 .. m : u[i] <= u[m]
  <2>1. Fits(m)
    <3> HIDE DEF Fits
    <3> QED
      BY <1>2, <1>6
  <2> QED
    BY <2>1
<1>8. u \in FlatPlaces(ss)
  <2>1. u \in [0 .. n -> Nat] /\ n \in 0 .. n /\ 0 \in 0 .. n
    BY <1>2
  <2>2. u[0] = 0 /\ u[n] = Len(FlattenSeq(ss))
    <3>1. u[0] = Len(k[0]) /\ u[n] = Len(k[n]) /\ Len(<<>>) = 0
      BY <1>2, <2>1
    <3> HIDE DEF u, n
    <3> QED
      BY <1>1, <3>1 DEF n
  <2>3. ASSUME NEW i \in 1 .. n, NEW j \in 1 .. Len(ss[i])
        PROVE  FlattenSeq(ss)[u[i - 1] + j] = ss[i][j]
    <3>1. j \in Nat \ {0} /\ j <= Len(ss[i])
      BY <1>2
    <3>2. k[n][u[i - 1] + j] = ss[i][j]
      BY <1>7, <2>1, <3>1
    <3> QED
      BY <1>1, <3>2
  <2>4. ASSUME NEW i \in 0 .. n, NEW l \in 0 .. n, i <= l PROVE u[i] <= u[l]
    <3>1. i \in 0 .. l
      BY <2>4
    <3> QED
      BY <1>7, <3>1
  <2> HIDE DEF u
  <2> QED
    BY <1>3, <2>1, <2>2, <2>3, <2>4 DEF FlatPlaces
<1>9. FlattenSeq(ss) \in Seq(D)
  BY <1>1, <1>2
<1> QED
  BY <1>8, <1>9

-----------------------------------------------------------------------------
(* The least element of a set of naturals.                                 *)
LEMMA LeastOf ==
    ASSUME NEW S \in SUBSET Nat, S # {}
    PROVE  Min(S) \in S
<1>1. IsWellFoundedOn(OpToRel(<, Nat), Nat)
  BY NatLessThanWellFounded
<1>2. PICK n \in S : \A y \in S : ~ (<<y, n>> \in OpToRel(<, Nat))
  BY <1>1, WFMin
<1>3. ASSUME NEW y \in S PROVE n <= y
  <2>1. n \in Nat /\ y \in Nat
    OBVIOUS
  <2>2. ~ (y < n)
    BY <1>2, <2>1 DEF OpToRel
  <2> QED
    BY <2>1, <2>2
<1>4. \E x \in S : \A y \in S : x <= y
  BY <1>3
<1> QED
  BY <1>4 DEF Min

===============================================================================
