--------------------------- MODULE MapCache_proofs ----------------------------
(* CacheInv is inductive, for every file, page size, set of requests, cache *)
(* size and number of uses held at once: what a caller holds stays mapped.  *)
EXTENDS MapCache, Induction, SequenceTheorems, FiniteSetTheorems, TLAPS

-----------------------------------------------------------------------------
Uses == [obj : ObjIds, address : 0 .. FileSize - 1, bytes : Nat \ {0}]
MapObjects == [map_start : Nat, map_size : Nat, num_using : Nat, is_mapped : BOOLEAN]

CacheTypeOK ==
    /\ list \in Seq(ObjIds)
    /\ front \in 0 .. Len(list)
    /\ back \in ObjIds \cup {NoObj}
    /\ length \in Nat
    /\ obj \in [ObjIds -> MapObjects]
    /\ held \in Seq(Uses) /\ Len(held) <= MaxHeld

(* a mapObject is in the list once *)
ListedOnce == \A i, j \in 1 .. Len(list) : list[i] = list[j] => i = j

(* Until the cache is full nothing has been dequeued and nothing cleaned   *)
(* up, and from then on length stays at the limit or is the whole list.    *)
LengthTells ==
    /\ length <= MaxMapObjs /\ length <= Len(list)
    /\ length < MaxMapObjs => length = Len(list)
    /\ list # <<>> => Len(list) - front + 1 <= length

(* the conjuncts about the list *)
ListOK ==
    /\ ListedOnce
    /\ list # <<>> => front # NoNode /\ back = list[Len(list)]
    /\ LengthTells
    /\ Len(list) <= Max({CleanLength, MaxHeld})

CacheInv == CacheTypeOK /\ ListOK /\ HeldStaysMapped /\ UsesCounted

-----------------------------------------------------------------------------
(* The clean-up pass: what it has kept after i nodes.                      *)
UsedUpTo(l, os, i) == {j \in 1 .. i : InUse(os, l[j])}
Once(s) == \A i, j \in 1 .. Len(s) : s[i] = s[j] => i = j

KeptWell(l, os, i, s) ==
    /\ s \in Seq(ObjIds)
    /\ Len(s) = Cardinality(UsedUpTo(l, os, i))
    /\ ToSet(s) = {l[j] : j \in UsedUpTo(l, os, i)}
    /\ Once(s)
    /\ i > 0 /\ InUse(os, l[i]) => s # <<>> /\ s[Len(s)] = l[i]

LEMMA KeptIsWalk ==
    ASSUME NEW l \in Seq(ObjIds), NEW os
    PROVE  \E k \in [0 .. Len(l) -> Seq(ObjIds)] :
              /\ k[0] = <<>>
              /\ \A i \in 1 .. Len(l) :
                    k[i] = IF InUse(os, l[i]) THEN Append(k[i - 1], l[i]) ELSE k[i - 1]
              /\ Kept(l, os) = k[Len(l)]
<1> DEFINE n == Len(l)
           S == Seq(ObjIds)
           step == [x \in (1 .. n) \X S |->
                       IF InUse(os, l[x[1]]) THEN Append(x[2], l[x[1]]) ELSE x[2]]
           G(k) == [i \in 0 .. n |->
                       IF i = 0 THEN <<>>
                       ELSE IF InUse(os, l[i]) THEN Append(k[i - 1], l[i]) ELSE k[i - 1]]
           K == CHOOSE k : k = G(k)
<1>1. n \in Nat /\ <<>> \in S /\ \A i \in 1 .. n : l[i] \in ObjIds
  OBVIOUS
<1>2. step \in [(1 .. n) \X S -> S]
  <2> SUFFICES ASSUME NEW i \in 1 .. n, NEW s \in S PROVE step[<<i, s>>] \in S
    OBVIOUS
  <2>1. Append(s, l[i]) \in S
    BY <1>1
  <2> QED
    BY <2>1
<1>3. Kept(l, os) = K[n]
  BY DEF Kept
<1> HIDE DEF S
<1>4. PICK f : f \in Walks(n, S, <<>>, step)
  <2> HIDE DEF n, step
  <2> QED
    BY <1>1, <1>2, WalkExists
<1>5. f \in [0 .. n -> S] /\ f[0] = <<>> /\ \A i \in 1 .. n : f[i] = step[<<i, f[i - 1]>>]
  BY <1>4 DEF Walks
<1> HIDE DEF n
<1>6. ASSUME NEW i \in 1 .. n
      PROVE  f[i] = IF InUse(os, l[i]) THEN Append(f[i - 1], l[i]) ELSE f[i - 1]
  <2>1. f[i - 1] \in S
    BY <1>1, <1>5
  <2> QED
    BY <1>5, <2>1
<1> HIDE DEF step
<1>0. ASSUME NEW k, NEW i \in 0 .. n
      PROVE  /\ DOMAIN G(k) = 0 .. n
             /\ i = 0 => G(k)[i] = <<>>
             /\ i # 0 => G(k)[i] = IF InUse(os, l[i]) THEN Append(k[i - 1], l[i]) ELSE k[i - 1]
  OBVIOUS
<1>7. f = G(f)
  <2>1. DOMAIN f = 0 .. n /\ f = [i \in 0 .. n |-> f[i]]
    BY <1>5
  <2>2. \A i \in 0 .. n : f[i] = G(f)[i]
    <3> SUFFICES ASSUME NEW i \in 0 .. n PROVE f[i] = G(f)[i]
      OBVIOUS
    <3> HIDE DEF G
    <3>1. CASE i = 0
      BY <1>0, <1>5, <3>1
    <3>2. CASE i \in 1 .. n
      BY <1>0, <1>6, <3>2
    <3> QED
      BY <1>1, <3>1, <3>2
  <2> HIDE DEF G
  <2>3. DOMAIN G(f) = 0 .. n /\ G(f) = [i \in 0 .. n |-> G(f)[i]]
    BY DEF G
  <2> QED
    BY <2>1, <2>2, <2>3
<1>8. K = G(K)
  <2> HIDE DEF G
  <2> QED
    BY <1>7
<1> HIDE DEF K
<1>9. K[0] = <<>> /\ \A i \in 1 .. n :
                        K[i] = IF InUse(os, l[i]) THEN Append(K[i - 1], l[i]) ELSE K[i - 1]
  <2> HIDE DEF G
  <2>1. K[0] = <<>>
    BY <1>0, <1>1, <1>8
  <2>2. ASSUME NEW i \in 1 .. n
        PROVE  K[i] = IF InUse(os, l[i]) THEN Append(K[i - 1], l[i]) ELSE K[i - 1]
    <3>1. i \in 0 .. n /\ i # 0
      BY <1>1
    <3>2. G(K)[i] = IF InUse(os, l[i]) THEN Append(K[i - 1], l[i]) ELSE K[i - 1]
      BY <1>0, <3>1
    <3> QED
      BY <1>8, <3>2
  <2> QED
    BY <2>1, <2>2
<1>10. DOMAIN K = 0 .. n /\ K = [i \in 0 .. n |-> K[i]]
  BY <1>8
<1> DEFINE T == {i \in Nat : i <= n => K[i] \in S}
<1>11. 0 \in T
  BY <1>1, <1>9
<1>12. ASSUME NEW i \in Nat, i \in T PROVE i + 1 \in T
  <2>1. ASSUME i + 1 <= n PROVE K[i + 1] \in S
    <3>1. i + 1 \in 1 .. n /\ (i + 1) - 1 = i /\ K[i] \in S /\ l[i + 1] \in ObjIds
      BY <1>1, <1>12, <2>1
    <3>2. Append(K[i], l[i + 1]) \in S
      BY <3>1 DEF S
    <3>3. K[i + 1] = IF InUse(os, l[i + 1]) THEN Append(K[i], l[i + 1]) ELSE K[i]
      BY <1>9, <3>1
    <3> QED
      BY <3>1, <3>2, <3>3
  <2> QED
    BY <2>1
<1> HIDE DEF T
<1>13. \A i \in 0 .. n : i \in T
  BY <1>11, <1>12, InductionOnSet
<1>14. \A i \in 0 .. n : K[i] \in S
  BY <1>1, <1>13 DEF T
<1>15. K \in [0 .. n -> S]
  BY <1>10, <1>14
<1> QED
  BY <1>3, <1>9, <1>15 DEF S, n

LEMMA UsedGrows ==
    ASSUME NEW l, NEW os, NEW i \in Nat \ {0}
    PROVE  /\ IsFiniteSet(UsedUpTo(l, os, i)) /\ Cardinality(UsedUpTo(l, os, i)) \in Nat
           /\ IsFiniteSet(UsedUpTo(l, os, i - 1))
           /\ UsedUpTo(l, os, i) = IF InUse(os, l[i]) THEN UsedUpTo(l, os, i - 1) \cup {i}
                                   ELSE UsedUpTo(l, os, i - 1)
           /\ Cardinality(UsedUpTo(l, os, i)) =
                 Cardinality(UsedUpTo(l, os, i - 1)) + (IF InUse(os, l[i]) THEN 1 ELSE 0)
<1> DEFINE U == UsedUpTo(l, os, i)
           V == UsedUpTo(l, os, i - 1)
<1>1. IsFiniteSet(1 .. i)
  BY FS_Interval
<1>2. U \in SUBSET (1 .. i) /\ V \in SUBSET (1 .. i)
  BY DEF UsedUpTo
<1>3. IsFiniteSet(U) /\ IsFiniteSet(V)
  BY <1>1, <1>2, FS_Subset
<1>4. 1 .. i = (1 .. i - 1) \cup {i} /\ i \notin 1 .. i - 1
  OBVIOUS
<1>5. i \notin V
  BY <1>4 DEF UsedUpTo
<1>6. U = IF InUse(os, l[i]) THEN V \cup {i} ELSE V
  BY <1>4 DEF UsedUpTo
<1> HIDE DEF U, V
<1>7. Cardinality(U) \in Nat /\ Cardinality(V) \in Nat
  BY <1>3, FS_CardinalityType
<1>8. Cardinality(V \cup {i}) = Cardinality(V) + 1
  BY <1>3, <1>5, FS_AddElement
<1>9. Cardinality(U) = Cardinality(V) + (IF InUse(os, l[i]) THEN 1 ELSE 0)
  BY <1>6, <1>7, <1>8
<1> QED
  BY <1>3, <1>6, <1>7, <1>9 DEF U, V

LEMMA KeptGrows ==
    ASSUME NEW l \in Seq(ObjIds), Once(l), NEW os, NEW i \in 1 .. Len(l),
           NEW s, KeptWell(l, os, i - 1, s)
    PROVE  KeptWell(l, os, i, IF InUse(os, l[i]) THEN Append(s, l[i]) ELSE s)
<1> DEFINE o == l[i]
           r == Append(s, o)
           U == UsedUpTo(l, os, i)
           V == UsedUpTo(l, os, i - 1)
<1>1. /\ s \in Seq(ObjIds) /\ o \in ObjIds /\ Len(s) \in Nat /\ i \in Nat \ {0}
      /\ DOMAIN s = 1 .. Len(s)
  BY DEF KeptWell
<1>2. Len(s) = Cardinality(V) /\ ToSet(s) = {l[j] : j \in V} /\ Once(s)
  BY DEF KeptWell
<1>3. CASE ~ InUse(os, o)
  <2>1. U = V
    BY <1>1, <1>3, UsedGrows
  <2> QED
    BY <1>1, <1>2, <1>3, <2>1 DEF KeptWell
<1>4. CASE InUse(os, o)
  <2>1. U = V \cup {i} /\ Cardinality(U) = Cardinality(V) + 1
    BY <1>1, <1>2, <1>4, UsedGrows
  <2>2. /\ r \in Seq(ObjIds) /\ r # <<>> /\ Len(r) = Len(s) + 1
        /\ \A j \in 1 .. Len(s) : r[j] = s[j]
        /\ r[Len(s) + 1] = o /\ DOMAIN r = 1 .. Len(s) + 1
    BY <1>1, AppendProperties, LenProperties
  <2>3. o \notin ToSet(s)
    <3>1. \A j \in V : j \in 1 .. Len(l) /\ j # i
      BY DEF UsedUpTo
    <3> QED
      BY <1>2, <3>1 DEF Once
  <2>4. \A j \in 1 .. Len(s) : s[j] # o
    BY <1>1, <2>3 DEF ToSet
  <2>5. ToSet(r) = ToSet(s) \cup {o}
    <3>1. 1 .. Len(s) + 1 = (1 .. Len(s)) \cup {Len(s) + 1}
      BY <1>1
    <3> HIDE DEF r
    <3> QED
      BY <1>1, <2>2, <3>1 DEF ToSet
  <2>6. ToSet(r) = {l[j] : j \in U}
    BY <1>2, <2>1, <2>5
  <2>7. Once(r)
    <3> SUFFICES ASSUME NEW a \in 1 .. Len(s) + 1, NEW b \in 1 .. Len(s) + 1, r[a] = r[b]
                 PROVE  a = b
      BY <2>2 DEF Once
    <3> HIDE DEF r
    <3>1. CASE a \in 1 .. Len(s) /\ b \in 1 .. Len(s)
      BY <1>2, <2>2, <3>1 DEF Once
    <3>2. CASE a = Len(s) + 1 /\ b = Len(s) + 1
      BY <3>2
    <3>3. CASE a = Len(s) + 1 /\ b \in 1 .. Len(s)
      BY <2>2, <2>4, <3>3
    <3>4. CASE a \in 1 .. Len(s) /\ b = Len(s) + 1
      BY <2>2, <2>4, <3>4
    <3> QED
      BY <1>1, <3>1, <3>2, <3>3, <3>4
  <2> HIDE DEF r, U, V, o
  <2>8. Len(r) = Cardinality(U) /\ r[Len(r)] = o
    BY <1>2, <2>1, <2>2
  <2>9. KeptWell(l, os, i, r)
    BY <2>2, <2>6, <2>7, <2>8 DEF KeptWell, U, o
  <2> QED
    BY <1>4, <2>9 DEF r, o
<1> QED
  BY <1>3, <1>4

LEMMA KeptIs ==
    ASSUME NEW l \in Seq(ObjIds), Once(l), NEW os
    PROVE  KeptWell(l, os, Len(l), Kept(l, os))
<1>1. PICK k \in [0 .. Len(l) -> Seq(ObjIds)] :
              /\ k[0] = <<>>
              /\ \A i \in 1 .. Len(l) :
                    k[i] = IF InUse(os, l[i]) THEN Append(k[i - 1], l[i]) ELSE k[i - 1]
              /\ Kept(l, os) = k[Len(l)]
  BY KeptIsWalk
<1> DEFINE T == {i \in Nat : i <= Len(l) => KeptWell(l, os, i, k[i])}
<1>2. Len(l) \in Nat
  OBVIOUS
<1>3. 0 \in T
  <2>1. UsedUpTo(l, os, 0) = {}
    BY DEF UsedUpTo
  <2>2. Cardinality({}) = 0
    BY FS_EmptySet
  <2>3. ToSet(<<>>) = {} /\ Once(<<>>) /\ <<>> \in Seq(ObjIds) /\ Len(<<>>) = 0
    BY DEF ToSet, Once
  <2>4. {l[j] : j \in {}} = {}
    OBVIOUS
  <2>5. KeptWell(l, os, 0, <<>>)
    BY <2>1, <2>2, <2>3, <2>4 DEF KeptWell
  <2> QED
    BY <1>1, <2>5
<1>4. ASSUME NEW i \in Nat, i \in T PROVE i + 1 \in T
  <2>1. ASSUME i + 1 <= Len(l) PROVE KeptWell(l, os, i + 1, k[i + 1])
    <3>1. i + 1 \in 1 .. Len(l) /\ (i + 1) - 1 = i /\ KeptWell(l, os, i, k[i])
      BY <1>2, <1>4, <2>1
    <3>2. k[i + 1] = IF InUse(os, l[i + 1]) THEN Append(k[i], l[i + 1]) ELSE k[i]
      BY <1>1, <3>1
    <3> QED
      BY <3>1, <3>2, KeptGrows
  <2> QED
    BY <2>1
<1> HIDE DEF T
<1>5. Len(l) \in T
  BY <1>2, <1>3, <1>4, InductionOnSet
<1> QED
  BY <1>1, <1>2, <1>5 DEF T

-----------------------------------------------------------------------------
(* The lesser and the greater of two.                                      *)
LEMMA MinOfTwo ==
    ASSUME NEW a \in Int, NEW b \in Int
    PROVE  Min({a, b}) = IF a <= b THEN a ELSE b
BY DEF Min

LEMMA MaxOfTwo ==
    ASSUME NEW a \in Int, NEW b \in Int
    PROVE  Max({a, b}) = IF a >= b THEN a ELSE b
BY DEF Max

LEMMA CleanLengthNat == CleanLength \in Nat /\ CleanLength >= MaxMapObjs
<1>1. \A a, b \in Nat \ {0} : a * b \in Nat /\ a * b >= b
  OBVIOUS
<1> QED
  BY <1>1, CacheAssumption DEF CleanLength

(* Where a mapping starts and ends.                                        *)
LEMMA StartBelow ==
    ASSUME NEW a \in Nat
    PROVE  StartOf(a) \in Nat /\ a % AllocGran \in Nat /\ StartOf(a) + (a % AllocGran) = a
<1>1. AllocGran \in Nat \ {0}
  BY CacheAssumption
<1>2. a % AllocGran \in 0 .. AllocGran - 1
  BY <1>1
<1>3. a % AllocGran <= a
  <2>1. a = AllocGran * (a \div AllocGran) + (a % AllocGran)
    BY <1>1
  <2>2. a \div AllocGran \in Nat
    BY <1>1
  <2>3. AllocGran * (a \div AllocGran) \in Nat
    BY <1>1, <2>2
  <2> QED
    BY <1>1, <1>2, <2>1, <2>3
<1> QED
  BY <1>1, <1>2, <1>3 DEF StartOf

LEMMA MappingCovers ==
    ASSUME NEW a \in 0 .. FileSize - 1, NEW b \in Nat \ {0}
    PROVE  /\ StartOf(a) \in Nat /\ SizeFor(a, b) \in Nat /\ StartOf(a) <= a
           /\ Min({a + b, FileSize}) <= StartOf(a) + SizeFor(a, b)
<1>1. /\ a \in Nat /\ StartOf(a) \in Nat /\ a % AllocGran \in Nat
      /\ StartOf(a) + (a % AllocGran) = a /\ FileSize \in Nat
  BY CacheAssumption, StartBelow
<1> DEFINE d == a % AllocGran
           m == StartOf(a)
<1>2. SizeFor(a, b) = IF d + b <= FileSize - m THEN d + b ELSE FileSize - m
  BY <1>1, MinOfTwo DEF SizeFor
<1>3. Min({a + b, FileSize}) = IF a + b <= FileSize THEN a + b ELSE FileSize
  BY <1>1, MinOfTwo
<1> HIDE DEF d, m
<1> QED
  BY <1>1, <1>2, <1>3 DEF d, m

-----------------------------------------------------------------------------
(* The two invariants about what is given out, of any list, mapObjects and *)
(* uses.                                                                   *)
UsesOf(h, o) == {i \in DOMAIN h : h[i].obj = o}

HoldsRight(l, os, u) ==
    /\ u.obj \in ToSet(l)
    /\ os[u.obj].is_mapped
    /\ os[u.obj].map_start <= u.address
    /\ Min({u.address + u.bytes, FileSize}) <= os[u.obj].map_start + os[u.obj].map_size

HeldIn(l, os, h)  == \A i \in DOMAIN h : HoldsRight(l, os, h[i])
CountedIn(os, h)  == \A o \in ObjIds : os[o].num_using = Cardinality(UsesOf(h, o))

LEMMA InTheseTerms ==
    /\ HeldStaysMapped <=> HeldIn(list, obj, held)
    /\ UsesCounted <=> CountedIn(obj, held)
    /\ ListedOnce <=> Once(list)
BY DEF HeldStaysMapped, HeldIn, HoldsRight, UsesCounted, CountedIn, UsesOf, ListedOnce, Once

LEMMA UseTyped ==
    ASSUME NEW h \in Seq(Uses), NEW i \in DOMAIN h
    PROVE  /\ h[i] \in Uses
           /\ h[i].obj \in ObjIds /\ h[i].address \in 0 .. FileSize - 1 /\ h[i].bytes \in Nat \ {0}
<1>1. i \in 1 .. Len(h)
  BY LenProperties
<1>2. h[i] \in Uses
  BY <1>1, ElementOfSeq
<1> QED
  BY <1>2 DEF Uses

LEMMA UsesOfFinite ==
    ASSUME NEW h \in Seq(Uses), NEW o
    PROVE  IsFiniteSet(UsesOf(h, o)) /\ Cardinality(UsesOf(h, o)) \in Nat
<1>1. DOMAIN h = 1 .. Len(h) /\ Len(h) \in Nat
  OBVIOUS
<1>2. IsFiniteSet(1 .. Len(h))
  BY <1>1, FS_Interval
<1>3. UsesOf(h, o) \in SUBSET (1 .. Len(h))
  BY <1>1 DEF UsesOf
<1>4. IsFiniteSet(UsesOf(h, o))
  BY <1>2, <1>3, FS_Subset
<1> QED
  BY <1>4, FS_CardinalityType

(* A mapObject somebody uses has num_using above zero, and another has not. *)
LEMMA UsedIsCounted ==
    ASSUME NEW os, NEW h \in Seq(Uses), CountedIn(os, h), NEW o \in ObjIds
    PROVE  /\ os[o].num_using \in Nat
           /\ InUse(os, o) <=> \E i \in DOMAIN h : h[i].obj = o
<1>1. IsFiniteSet(UsesOf(h, o)) /\ Cardinality(UsesOf(h, o)) \in Nat
  BY UsesOfFinite
<1>2. os[o].num_using = Cardinality(UsesOf(h, o))
  BY DEF CountedIn
<1>3. Cardinality(UsesOf(h, o)) = 0 <=> UsesOf(h, o) = {}
  BY <1>1, FS_EmptySet
<1>4. InUse(os, o) <=> UsesOf(h, o) # {}
  BY <1>1, <1>2, <1>3 DEF InUse
<1> QED
  BY <1>1, <1>2, <1>4 DEF UsesOf

(* A use more, of the last place.                                          *)
LEMMA OneUseMore ==
    ASSUME NEW h \in Seq(Uses), NEW u \in Uses, NEW o
    PROVE  Cardinality(UsesOf(Append(h, u), o)) =
              Cardinality(UsesOf(h, o)) + (IF u.obj = o THEN 1 ELSE 0)
<1> DEFINE g == Append(h, u)
           n == Len(h)
<1>1. /\ n \in Nat /\ DOMAIN h = 1 .. n /\ DOMAIN g = 1 .. n + 1
      /\ (\A i \in 1 .. n : g[i] = h[i]) /\ g[n + 1] = u
  BY AppendProperties, LenProperties
<1>2. IsFiniteSet(UsesOf(h, o)) /\ Cardinality(UsesOf(h, o)) \in Nat
  BY UsesOfFinite
<1> HIDE DEF g, n
<1>3. 1 .. n + 1 = (1 .. n) \cup {n + 1} /\ n + 1 \notin 1 .. n
  BY <1>1
<1>4. UsesOf(g, o) = IF u.obj = o THEN UsesOf(h, o) \cup {n + 1} ELSE UsesOf(h, o)
  BY <1>1, <1>3 DEF UsesOf
<1>5. n + 1 \notin UsesOf(h, o)
  BY <1>1, <1>3 DEF UsesOf
<1>6. Cardinality(UsesOf(h, o) \cup {n + 1}) = Cardinality(UsesOf(h, o)) + 1
  BY <1>2, <1>5, FS_AddElement
<1> QED
  BY <1>2, <1>4, <1>6 DEF g

(* A use less, wherever it is.                                             *)
LEMMA RemoveAtIs ==
    ASSUME NEW h \in Seq(Uses), NEW i \in 1 .. Len(h)
    PROVE  /\ RemoveAt(h, i) \in Seq(Uses) /\ Len(RemoveAt(h, i)) = Len(h) - 1
           /\ \A j \in 1 .. Len(h) - 1 : RemoveAt(h, i)[j] = IF j < i THEN h[j] ELSE h[j + 1]
<1> DEFINE n == Len(h)
           a == SubSeq(h, 1, i - 1)
           b == SubSeq(h, i + 1, n)
<1>1. n \in Nat /\ i \in 1 .. n /\ \A j \in 1 .. n : h[j] \in Uses
  OBVIOUS
<1> HIDE DEF n
<1>2. /\ a \in Seq(Uses) /\ Len(a) = i - 1
      /\ \A j \in 1 .. i - 1 : a[j] = h[j]
  <2>1. 1 \in Int /\ i - 1 \in Int /\ \A j \in 1 .. i - 1 : h[j] \in Uses
    BY <1>1
  <2>2. /\ a \in Seq(Uses) /\ Len(a) = IF 1 <= i - 1 THEN (i - 1) - 1 + 1 ELSE 0
        /\ \A j \in 1 .. (i - 1) - 1 + 1 : a[j] = h[1 + j - 1]
    BY <2>1, SubSeqProperties
  <2> QED
    BY <1>1, <2>2
<1>3. /\ b \in Seq(Uses) /\ Len(b) = n - i
      /\ \A j \in 1 .. n - i : b[j] = h[j + i]
  <2>1. i + 1 \in Int /\ n \in Int /\ \A j \in i + 1 .. n : h[j] \in Uses
    BY <1>1
  <2>2. /\ b \in Seq(Uses) /\ Len(b) = IF i + 1 <= n THEN n - (i + 1) + 1 ELSE 0
        /\ \A j \in 1 .. n - (i + 1) + 1 : b[j] = h[(i + 1) + j - 1]
    BY <2>1, SubSeqProperties
  <2> QED
    BY <1>1, <2>2
<1> HIDE DEF a, b
<1>4. /\ a \o b \in Seq(Uses) /\ Len(a \o b) = Len(a) + Len(b)
      /\ \A j \in 1 .. Len(a) + Len(b) : (a \o b)[j] = IF j <= Len(a) THEN a[j] ELSE b[j - Len(a)]
  BY <1>2, <1>3, ConcatProperties
<1>5. ASSUME NEW j \in 1 .. n - 1 PROVE (a \o b)[j] = IF j < i THEN h[j] ELSE h[j + 1]
  <2>1. CASE j < i
    BY <1>1, <1>2, <1>3, <1>4, <2>1
  <2>2. CASE ~ (j < i)
    <3>1. j - (i - 1) \in 1 .. n - i /\ (j - (i - 1)) + i = j + 1
      BY <1>1, <2>2
    <3>2. (a \o b)[j] = b[j - (i - 1)]
      BY <1>1, <1>2, <1>3, <1>4, <2>2
    <3> QED
      BY <1>3, <2>2, <3>1, <3>2
  <2> QED
    BY <2>1, <2>2
<1>6. RemoveAt(h, i) = a \o b
  BY DEF RemoveAt, a, b, n
<1> QED
  BY <1>1, <1>2, <1>3, <1>4, <1>5, <1>6 DEF n

LEMMA OneUseLess ==
    ASSUME NEW h \in Seq(Uses), NEW i \in 1 .. Len(h), NEW o
    PROVE  Cardinality(UsesOf(RemoveAt(h, i), o)) =
              Cardinality(UsesOf(h, o)) - (IF h[i].obj = o THEN 1 ELSE 0)
<1> DEFINE g == RemoveAt(h, i)
           n == Len(h)
           S == UsesOf(g, o)
           T == UsesOf(h, o) \ {i}
           f == [j \in S |-> IF j < i THEN j ELSE j + 1]
<1>1. /\ g \in Seq(Uses) /\ n \in Nat /\ Len(g) = n - 1 /\ i \in 1 .. n
      /\ DOMAIN h = 1 .. n /\ DOMAIN g = 1 .. n - 1
      /\ \A j \in 1 .. n - 1 : g[j] = IF j < i THEN h[j] ELSE h[j + 1]
  BY RemoveAtIs, LenProperties
<1>2. IsFiniteSet(S) /\ IsFiniteSet(UsesOf(h, o)) /\ Cardinality(UsesOf(h, o)) \in Nat
  BY <1>1, UsesOfFinite
<1> HIDE DEF g, n
<1>3. S = {j \in 1 .. n - 1 : (IF j < i THEN h[j] ELSE h[j + 1]).obj = o}
  BY <1>1 DEF UsesOf
<1>4. T = {j \in 1 .. n : h[j].obj = o /\ j # i}
  BY <1>1 DEF UsesOf
<1> HIDE DEF S, T
<1>5. f \in [S -> T]
  <2> SUFFICES ASSUME NEW j \in S PROVE f[j] \in T
    OBVIOUS
  <2>1. CASE j < i
    BY <1>1, <1>3, <1>4, <2>1
  <2>2. CASE ~ (j < i)
    BY <1>1, <1>3, <1>4, <2>2
  <2> QED
    BY <2>1, <2>2
<1>6. \A j, k \in S : f[j] = f[k] => j = k
  BY <1>1, <1>3
<1>7. ASSUME NEW k \in T PROVE \E j \in S : f[j] = k
  <2>1. CASE k < i
    <3>1. k \in S
      BY <1>1, <1>3, <1>4, <2>1
    <3> QED
      BY <2>1, <3>1
  <2>2. CASE ~ (k < i)
    <3>1. k \in 1 .. n /\ h[k].obj = o /\ k # i
      BY <1>4
    <3>2. k - 1 \in 1 .. n - 1 /\ ~ (k - 1 < i) /\ (k - 1) + 1 = k
      BY <1>1, <2>2, <3>1
    <3>3. k - 1 \in S
      BY <1>3, <3>1, <3>2
    <3> QED
      BY <3>2, <3>3
  <2> QED
    BY <2>1, <2>2
<1> HIDE DEF f
<1>8. f \in Bijection(S, T)
  BY <1>5, <1>6, <1>7 DEF Bijection, Injection, Surjection, IsInjective
<1>9. ExistsBijection(S, T)
  BY <1>8 DEF ExistsBijection
<1>10. Cardinality(T) = Cardinality(S)
  BY <1>2, <1>9, FS_Bijection
<1>11. Cardinality(T) = IF i \in UsesOf(h, o) THEN Cardinality(UsesOf(h, o)) - 1
                                              ELSE Cardinality(UsesOf(h, o))
  BY <1>2, FS_RemoveElement DEF T
<1>12. i \in UsesOf(h, o) <=> h[i].obj = o
  BY <1>1 DEF UsesOf
<1> QED
  BY <1>2, <1>10, <1>11, <1>12 DEF S, g

(* A mapping in use once more or once less is the same mapping, and one    *)
(* that nobody uses is nobody's loss.                                      *)
LEMMA SameMappingHolds ==
    ASSUME NEW l, NEW os, NEW qs, NEW u, HoldsRight(l, os, u),
           qs[u.obj].is_mapped = os[u.obj].is_mapped,
           qs[u.obj].map_start = os[u.obj].map_start,
           qs[u.obj].map_size = os[u.obj].map_size
    PROVE  HoldsRight(l, qs, u)
BY DEF HoldsRight

LEMMA LetGoKeeps ==
    ASSUME NEW l, NEW os \in [ObjIds -> MapObjects], NEW h \in Seq(Uses), NEW x \in ObjIds,
           HeldIn(l, os, h), CountedIn(os, h)
    PROVE  /\ LetGo(os, x) \in [ObjIds -> MapObjects]
           /\ HeldIn(l, LetGo(os, x), h) /\ CountedIn(LetGo(os, x), h)
           /\ \A o \in ObjIds : LetGo(os, x)[o].num_using = os[o].num_using
<1>1. Unmapped \in MapObjects /\ Unmapped.num_using = 0
  BY DEF Unmapped, MapObjects
<1> DEFINE qs == LetGo(os, x)
<1>2. qs \in [ObjIds -> MapObjects]
  BY <1>1 DEF LetGo
<1>3. \A o \in ObjIds : qs[o].num_using = os[o].num_using
  BY <1>1 DEF LetGo
<1>4. CountedIn(qs, h)
  BY <1>3 DEF CountedIn
<1>5. ASSUME NEW i \in DOMAIN h PROVE HoldsRight(l, qs, h[i])
  <2>1. h[i] \in Uses /\ h[i].obj \in ObjIds
    BY UseTyped
  <2>2. InUse(os, h[i].obj)
    BY <2>1, UsedIsCounted
  <2>3. os[h[i].obj].num_using # 0
    BY <2>1, <2>2, UsedIsCounted DEF InUse
  <2>4. qs[h[i].obj] = os[h[i].obj]
    BY <2>1, <2>3 DEF LetGo
  <2>5. HoldsRight(l, os, h[i])
    BY DEF HeldIn
  <2> HIDE DEF qs
  <2> QED
    BY <2>4, <2>5, SameMappingHolds
<1> QED
  BY <1>2, <1>3, <1>4, <1>5 DEF HeldIn

(* The clean-up pass frees what nobody uses and keeps the rest.            *)
LEMMA CleanUpKeeps ==
    ASSUME NEW l \in Seq(ObjIds), Once(l), NEW os \in [ObjIds -> MapObjects],
           NEW h \in Seq(Uses), HeldIn(l, os, h), CountedIn(os, h)
    PROVE  LET qs == [o \in ObjIds |-> IF InUse(os, o) THEN os[o] ELSE Unmapped]
           IN  /\ qs \in [ObjIds -> MapObjects]
               /\ HeldIn(Kept(l, os), qs, h) /\ CountedIn(qs, h)
<1> DEFINE qs == [o \in ObjIds |-> IF InUse(os, o) THEN os[o] ELSE Unmapped]
<1>1. Unmapped \in MapObjects /\ Unmapped.num_using = 0
  BY DEF Unmapped, MapObjects
<1>2. qs \in [ObjIds -> MapObjects]
  BY <1>1
<1>3. ASSUME NEW o \in ObjIds PROVE qs[o].num_using = os[o].num_using
  BY <1>1, UsedIsCounted DEF InUse
<1>4. CountedIn(qs, h)
  BY <1>3 DEF CountedIn
<1>5. ASSUME NEW i \in DOMAIN h PROVE HoldsRight(Kept(l, os), qs, h[i])
  <2>1. h[i] \in Uses /\ h[i].obj \in ObjIds
    BY UseTyped
  <2>2. InUse(os, h[i].obj)
    BY <2>1, UsedIsCounted
  <2>3. qs[h[i].obj] = os[h[i].obj]
    BY <2>1, <2>2
  <2>4. HoldsRight(l, os, h[i])
    BY DEF HeldIn
  <2>5. h[i].obj \in ToSet(Kept(l, os))
    <3>1. PICK j \in 1 .. Len(l) : l[j] = h[i].obj
      BY <2>4 DEF HoldsRight, ToSet
    <3>2. j \in UsedUpTo(l, os, Len(l))
      BY <2>2, <3>1 DEF UsedUpTo
    <3>3. ToSet(Kept(l, os)) = {l[k] : k \in UsedUpTo(l, os, Len(l))}
      BY KeptIs DEF KeptWell
    <3> QED
      BY <3>1, <3>2, <3>3
  <2> HIDE DEF qs
  <2> QED
    BY <2>3, <2>4, <2>5 DEF HoldsRight
<1> QED
  BY <1>2, <1>4, <1>5 DEF HeldIn

(* What is kept is used, so there are no more nodes than uses.             *)
LEMMA KeptFew ==
    ASSUME NEW l \in Seq(ObjIds), Once(l), NEW os, NEW h \in Seq(Uses), CountedIn(os, h)
    PROVE  Len(Kept(l, os)) <= Len(h)
<1> DEFINE k == Kept(l, os)
           m == Len(k)
           n == Len(h)
           f == [x \in 1 .. m |-> CHOOSE i \in 1 .. n : h[i].obj = k[x]]
<1>1. /\ k \in Seq(ObjIds) /\ Once(k) /\ n \in Nat /\ m \in Nat
      /\ DOMAIN h = 1 .. n
      /\ ToSet(k) = {l[j] : j \in UsedUpTo(l, os, Len(l))}
  BY KeptIs DEF KeptWell
<1>2. ASSUME NEW x \in 1 .. m PROVE \E i \in 1 .. n : h[i].obj = k[x]
  <2>1. k[x] \in ToSet(k) /\ k[x] \in ObjIds
    BY <1>1 DEF ToSet
  <2>2. InUse(os, k[x])
    BY <1>1, <2>1 DEF UsedUpTo
  <2> QED
    BY <1>1, <2>1, <2>2, UsedIsCounted
<1> HIDE DEF k, m, n
<1>3. \A x \in 1 .. m : f[x] \in 1 .. n /\ h[f[x]].obj = k[x]
  BY <1>2
<1>4. \A x, y \in 1 .. m : f[x] = f[y] => x = y
  <2>1. \A x, y \in 1 .. m : k[x] = k[y] => x = y
    BY <1>1 DEF Once, m
  <2> HIDE DEF f
  <2> QED
    BY <1>3, <2>1
<1>5. f \in [1 .. m -> 1 .. n]
  BY <1>3
<1> HIDE DEF f
<1>6. f \in Injection(1 .. m, 1 .. n)
  BY <1>4, <1>5 DEF Injection, IsInjective
<1>7. /\ IsFiniteSet(1 .. n) /\ Cardinality(1 .. n) = n /\ Cardinality(1 .. m) = m
  BY <1>1, FS_Interval
<1>8. Cardinality(1 .. m) <= Cardinality(1 .. n)
  BY <1>6, <1>7, FS_Injection
<1> QED
  BY <1>7, <1>8 DEF k, m, n

(* Where the front is after the clean-up: what is ahead of it was ahead of *)
(* it before, and the last node, in use, is still there.                   *)
LEMMA KeptFrontIs ==
    ASSUME NEW l \in Seq(ObjIds), Once(l), NEW os, NEW f \in 1 .. Len(l),
           InUse(os, l[Len(l)])
    PROVE  LET k == Kept(l, os)
               g == KeptFront(l, f, os)
           IN  /\ g \in 1 .. Len(k)
               /\ Len(k) - g + 1 <= Len(l) - f + 1
               /\ k[Len(k)] = l[Len(l)]
<1> DEFINE n == Len(l)
           k == Kept(l, os)
           behind == {i \in 1 .. f - 1 : InUse(os, l[i])}
           ahead  == {i \in f .. n : InUse(os, l[i])}
           used   == UsedUpTo(l, os, n)
<1>1. n \in Nat /\ f \in 1 .. n
  OBVIOUS
<1>2. KeptWell(l, os, n, k)
  BY KeptIs
<1>3. Len(k) = Cardinality(used) /\ k[Len(k)] = l[n]
  BY <1>1, <1>2 DEF KeptWell
<1>4. KeptFront(l, f, os) = IF f = NoNode \/ ahead = {} THEN NoNode ELSE Cardinality(behind) + 1
  BY DEF KeptFront
<1>5. used = behind \cup ahead /\ behind \cap ahead = {}
  BY <1>1 DEF UsedUpTo
<1>6. n \in ahead
  BY <1>1
<1>7. IsFiniteSet(1 .. f - 1) /\ IsFiniteSet(f .. n) /\ Cardinality(f .. n) = n - f + 1
  BY <1>1, FS_Interval
<1>8. behind \in SUBSET (1 .. f - 1) /\ ahead \in SUBSET (f .. n)
  OBVIOUS
<1> HIDE DEF behind, ahead, used, k, n
<1>9. IsFiniteSet(behind) /\ IsFiniteSet(ahead) /\ Cardinality(ahead) <= n - f + 1
  BY <1>7, <1>8, FS_Subset
<1>10. Cardinality(behind) \in Nat /\ Cardinality(ahead) \in Nat
  BY <1>9, FS_CardinalityType
<1>11. Cardinality(ahead) # 0
  BY <1>6, <1>9, FS_EmptySet
<1>12. Cardinality({}) = 0
  BY FS_EmptySet
<1>13. Cardinality(used) = Cardinality(behind) + Cardinality(ahead) - Cardinality(behind \cap ahead)
  BY <1>5, <1>9, FS_Union
<1>14. Cardinality(used) = Cardinality(behind) + Cardinality(ahead)
  <2>1. Cardinality(behind \cap ahead) = 0
    BY <1>5, <1>12
  <2> QED
    BY <1>10, <1>13, <2>1
<1>15. KeptFront(l, f, os) = Cardinality(behind) + 1
  BY <1>1, <1>4, <1>6 DEF NoNode
<1>16. Len(k) = Cardinality(behind) + Cardinality(ahead)
  BY <1>3, <1>14
<1>17. Cardinality(behind) + 1 \in 1 .. Len(k)
  BY <1>10, <1>11, <1>16
<1>18. Len(k) - (Cardinality(behind) + 1) + 1 <= n - f + 1
  BY <1>1, <1>9, <1>10, <1>16
<1> QED
  BY <1>3, <1>15, <1>17, <1>18 DEF k, n

(* num_using changes and nothing else does.                                *)
LEMMA Recount ==
    ASSUME NEW os \in [ObjIds -> MapObjects], NEW o \in ObjIds, NEW k \in Nat
    PROVE  LET qs == [os EXCEPT ![o].num_using = k]
           IN  /\ qs \in [ObjIds -> MapObjects]
               /\ \A x \in ObjIds : /\ qs[x].num_using = IF x = o THEN k ELSE os[x].num_using
                                    /\ qs[x].is_mapped = os[x].is_mapped
                                    /\ qs[x].map_start = os[x].map_start
                                    /\ qs[x].map_size = os[x].map_size
<1> DEFINE m == os[o]
           r == [m EXCEPT !.num_using = k]
<1>1. m \in MapObjects
  OBVIOUS
<1> HIDE DEF m
<1>2. /\ r \in MapObjects /\ r.num_using = k /\ r.is_mapped = m.is_mapped
      /\ r.map_start = m.map_start /\ r.map_size = m.map_size
  BY <1>1 DEF MapObjects
<1>3. [os EXCEPT ![o].num_using = k] = [os EXCEPT ![o] = r]
  BY DEF m
<1> HIDE DEF r
<1> DEFINE qs == [os EXCEPT ![o] = r]
<1>4. qs \in [ObjIds -> MapObjects]
  BY <1>2
<1>5. \A x \in ObjIds : qs[x] = IF x = o THEN r ELSE os[x]
  OBVIOUS
<1> HIDE DEF qs
<1> QED
  BY <1>2, <1>3, <1>4, <1>5 DEF qs, m

(* A use more, counted.                                                    *)
LEMMA CountOneMore ==
    ASSUME NEW l, NEW os \in [ObjIds -> MapObjects], NEW h \in Seq(Uses), NEW u \in Uses,
           HeldIn(l, os, h), CountedIn(os, h), HoldsRight(l, os, u)
    PROVE  LET qs == [os EXCEPT ![u.obj].num_using = @ + 1]
           IN  /\ qs \in [ObjIds -> MapObjects]
               /\ HeldIn(l, qs, Append(h, u)) /\ CountedIn(qs, Append(h, u))
<1> DEFINE o == u.obj
           k == os[o].num_using + 1
           qs == [os EXCEPT ![o].num_using = k]
           g == Append(h, u)
<1>1. o \in ObjIds
  BY DEF Uses
<1>2. os[o].num_using \in Nat /\ k \in Nat
  BY <1>1, UsedIsCounted
<1> HIDE DEF k
<1>3. /\ qs \in [ObjIds -> MapObjects]
      /\ \A x \in ObjIds : /\ qs[x].num_using = IF x = o THEN k ELSE os[x].num_using
                           /\ qs[x].is_mapped = os[x].is_mapped
                           /\ qs[x].map_start = os[x].map_start
                           /\ qs[x].map_size = os[x].map_size
  BY <1>1, <1>2, Recount
<1> HIDE DEF qs
<1>4. ASSUME NEW x \in ObjIds PROVE qs[x].num_using = Cardinality(UsesOf(g, x))
  <2>1. os[x].num_using = Cardinality(UsesOf(h, x)) /\ Cardinality(UsesOf(h, x)) \in Nat
    BY UsesOfFinite DEF CountedIn
  <2>2. Cardinality(UsesOf(g, x)) = Cardinality(UsesOf(h, x)) + (IF o = x THEN 1 ELSE 0)
    BY OneUseMore
  <2> QED
    BY <1>3, <2>1, <2>2 DEF k
<1>5. ASSUME NEW i \in DOMAIN g PROVE HoldsRight(l, qs, g[i])
  <2>1. /\ DOMAIN h = 1 .. Len(h) /\ DOMAIN g = 1 .. Len(h) + 1 /\ Len(h) \in Nat
        /\ (\A j \in 1 .. Len(h) : g[j] = h[j]) /\ g[Len(h) + 1] = u
    BY AppendProperties, LenProperties
  <2>2. g[i] = u \/ (i \in DOMAIN h /\ g[i] = h[i])
    BY <2>1
  <2>3. HoldsRight(l, os, g[i]) /\ g[i].obj \in ObjIds
    BY <1>1, <2>2, UseTyped DEF HeldIn
  <2> HIDE DEF g
  <2> QED
    BY <1>3, <2>3, SameMappingHolds
<1> QED
  BY <1>3, <1>4, <1>5 DEF qs, k, HeldIn, CountedIn

(* A use less, counted.                                                    *)
LEMMA CountOneLess ==
    ASSUME NEW l, NEW os \in [ObjIds -> MapObjects], NEW h \in Seq(Uses), NEW i \in 1 .. Len(h),
           HeldIn(l, os, h), CountedIn(os, h)
    PROVE  LET qs == [os EXCEPT ![h[i].obj].num_using = @ - 1]
           IN  /\ qs \in [ObjIds -> MapObjects]
               /\ HeldIn(l, qs, RemoveAt(h, i)) /\ CountedIn(qs, RemoveAt(h, i))
<1> DEFINE o == h[i].obj
           k == os[o].num_using - 1
           qs == [os EXCEPT ![o].num_using = k]
           g == RemoveAt(h, i)
<1>0. i \in DOMAIN h /\ DOMAIN h = 1 .. Len(h) /\ Len(h) \in Nat
  BY LenProperties
<1>1. o \in ObjIds
  BY <1>0, UseTyped
<1>2. os[o].num_using \in Nat /\ k \in Nat
  <2>1. os[o].num_using \in Nat /\ InUse(os, o)
    BY <1>0, <1>1, UsedIsCounted
  <2> QED
    BY <2>1 DEF InUse
<1> HIDE DEF k
<1>3. /\ qs \in [ObjIds -> MapObjects]
      /\ \A x \in ObjIds : /\ qs[x].num_using = IF x = o THEN k ELSE os[x].num_using
                           /\ qs[x].is_mapped = os[x].is_mapped
                           /\ qs[x].map_start = os[x].map_start
                           /\ qs[x].map_size = os[x].map_size
  BY <1>1, <1>2, Recount
<1> HIDE DEF qs
<1>4. ASSUME NEW x \in ObjIds PROVE qs[x].num_using = Cardinality(UsesOf(g, x))
  <2>1. os[x].num_using = Cardinality(UsesOf(h, x)) /\ Cardinality(UsesOf(h, x)) \in Nat
    BY UsesOfFinite DEF CountedIn
  <2>2. Cardinality(UsesOf(g, x)) = Cardinality(UsesOf(h, x)) - (IF o = x THEN 1 ELSE 0)
    BY OneUseLess
  <2> QED
    BY <1>3, <2>1, <2>2 DEF k
<1>5. ASSUME NEW j \in DOMAIN g PROVE HoldsRight(l, qs, g[j])
  <2>1. /\ g \in Seq(Uses) /\ Len(g) = Len(h) - 1 /\ DOMAIN g = 1 .. Len(g)
        /\ \A n \in 1 .. Len(h) - 1 : g[n] = IF n < i THEN h[n] ELSE h[n + 1]
    BY RemoveAtIs, LenProperties
  <2>2. \E n \in DOMAIN h : g[j] = h[n]
    BY <1>0, <2>1
  <2>3. HoldsRight(l, os, g[j]) /\ g[j].obj \in ObjIds
    BY <2>2, UseTyped DEF HeldIn
  <2> HIDE DEF g
  <2> QED
    BY <1>3, <2>3, SameMappingHolds
<1> QED
  BY <1>3, <1>4, <1>5 DEF qs, k, HeldIn, CountedIn

-----------------------------------------------------------------------------
(* initQueue leaves a cache that satisfies the invariant, and so does      *)
(* freeQueue.                                                              *)
LEMMA EmptyCache ==
    ASSUME list = <<>>, front = NoNode, back = NoObj, length = 0,
           obj = [o \in ObjIds |-> Unmapped], held = <<>>
    PROVE  CacheInv
<1>1. Unmapped \in MapObjects /\ Unmapped.num_using = 0
  BY DEF Unmapped, MapObjects
<1>2. <<>> \in Seq(ObjIds) /\ <<>> \in Seq(Uses) /\ Len(<<>>) = 0 /\ DOMAIN <<>> = {}
  OBVIOUS
<1>3. CacheTypeOK
  BY <1>1, <1>2, CacheAssumption DEF CacheTypeOK, NoNode
<1>4. ListOK
  <2>1. Max({CleanLength, MaxHeld}) >= 0
    BY CleanLengthNat, CacheAssumption, MaxOfTwo
  <2>2. LengthTells
    BY <1>2, CacheAssumption DEF LengthTells
  <2> QED
    BY <1>2, <2>1, <2>2 DEF ListOK, ListedOnce
<1>5. HeldIn(list, obj, held)
  BY <1>2 DEF HeldIn
<1>6. CountedIn(obj, held)
  <2>1. Cardinality({}) = 0
    BY FS_EmptySet
  <2>2. \A o : UsesOf(held, o) = {}
    BY <1>2 DEF UsesOf
  <2>3. \A o \in ObjIds : obj[o].num_using = 0
    BY <1>1
  <2> QED
    BY <2>1, <2>2, <2>3 DEF CountedIn
<1> QED
  BY <1>3, <1>4, <1>5, <1>6, InTheseTerms DEF CacheInv

(* Before the first lookup the cache is as the invariant says.             *)
THEOREM CacheInitInv == CacheInit => CacheInv
BY EmptyCache DEF CacheInit

LEMMA FreeKeeps ==
    ASSUME FreeCache
    PROVE  CacheInv'
<1>1. Unmapped \in MapObjects /\ Unmapped.num_using = 0
  BY DEF Unmapped, MapObjects
<1>2. <<>> \in Seq(ObjIds) /\ <<>> \in Seq(Uses) /\ Len(<<>>) = 0 /\ DOMAIN <<>> = {}
  OBVIOUS
<1>0. /\ list' = <<>> /\ front' = NoNode /\ back' = NoObj /\ length' = 0
      /\ obj' = [o \in ObjIds |-> Unmapped] /\ held' = <<>>
  BY DEF FreeCache
<1>3. CacheTypeOK'
  BY <1>0, <1>1, <1>2, CacheAssumption DEF CacheTypeOK, NoNode
<1>4. ListOK'
  <2>1. Max({CleanLength, MaxHeld}) >= 0
    BY CleanLengthNat, CacheAssumption, MaxOfTwo
  <2>2. LengthTells'
    BY <1>0, <1>2, CacheAssumption DEF LengthTells
  <2> QED
    BY <1>0, <1>2, <2>1, <2>2 DEF ListOK, ListedOnce
<1>5. HeldStaysMapped'
  BY <1>0, <1>2 DEF HeldStaysMapped
<1>6. UsesCounted'
  <2>1. Cardinality({}) = 0
    BY FS_EmptySet
  <2>2. \A o : {i \in DOMAIN held' : held'[i].obj = o} = {}
    BY <1>0, <1>2
  <2>3. \A o \in ObjIds : obj'[o].num_using = 0
    BY <1>0, <1>1
  <2> QED
    BY <2>1, <2>2, <2>3 DEF UsesCounted
<1> QED
  BY <1>3, <1>4, <1>5, <1>6 DEF CacheInv

(* Looking up and giving back leave the list alone.                        *)
LEMMA UsesChange ==
    ASSUME CacheInv, UNCHANGED <<list, front, back, length>>,
           held' \in Seq(Uses), Len(held') <= MaxHeld, obj' \in [ObjIds -> MapObjects],
           HeldIn(list, obj', held'), CountedIn(obj', held')
    PROVE  CacheInv'
<1>1. CacheTypeOK'
  BY DEF CacheInv, CacheTypeOK
<1>2. ListOK'
  BY DEF CacheInv, ListOK, ListedOnce, LengthTells
<1>3. HeldStaysMapped' /\ UsesCounted'
  BY DEF HeldStaysMapped, UsesCounted, HeldIn, HoldsRight, CountedIn, UsesOf
<1> QED
  BY <1>1, <1>2, <1>3 DEF CacheInv

LEMMA RequestTyped ==
    ASSUME NEW r \in Requests
    PROVE  r[1] \in 0 .. FileSize - 1 /\ r[2] \in Nat \ {0} /\ r[1] \in Nat /\ FileSize \in Nat
<1>1. r \in (0 .. FileSize - 1) \X (Nat \ {0})
  BY CacheAssumption
<1> QED
  BY <1>1, CacheAssumption

LEMMA HitKeeps ==
    ASSUME CacheInv, NEW r \in Requests, NavigateHit(r[1], r[2])
    PROVE  CacheInv'
<1> DEFINE a == r[1]
           b == r[2]
           H == HitsFor(a, b)
           m == Min(H)
           o == list[m]
           u == Use(o, a, b)
<1>1. a \in 0 .. FileSize - 1 /\ b \in Nat \ {0} /\ a \in Nat /\ FileSize \in Nat
  BY RequestTyped
<1>2. /\ Len(held) < MaxHeld /\ H # {}
      /\ obj' = [obj EXCEPT ![o].num_using = @ + 1]
      /\ held' = Append(held, u)
      /\ UNCHANGED <<list, front, back, length>>
  BY DEF NavigateHit
<1>3. /\ list \in Seq(ObjIds) /\ front \in 0 .. Len(list) /\ Len(list) \in Nat
      /\ obj \in [ObjIds -> MapObjects] /\ held \in Seq(Uses) /\ Len(held) \in Nat
  BY DEF CacheInv, CacheTypeOK
<1>4. m \in 1 .. Len(list) /\ Covers(o, a, b)
  <2>1. Scanned \subseteq 1 .. Len(list)
    <3>1. CASE front = NoNode
      BY <3>1 DEF Scanned
    <3>2. CASE front # NoNode
      <4> DEFINE e == front + MaxMapObjs - 1
      <4>1. front \in 1 .. Len(list) /\ e \in Int
        BY <1>3, <3>2, CacheAssumption DEF NoNode
      <4>3. Scanned = front .. Min({Len(list), e})
        BY <3>2 DEF Scanned
      <4> HIDE DEF e
      <4>2. Min({Len(list), e}) <= Len(list) /\ Min({Len(list), e}) \in Int
        <5>1. Min({Len(list), e}) = IF Len(list) <= e THEN Len(list) ELSE e
          BY <1>3, <4>1, MinOfTwo
        <5> QED
          BY <1>3, <4>1, <5>1
      <4> QED
        BY <4>1, <4>2, <4>3
    <3> QED
      BY <3>1, <3>2
  <2>2. H \in SUBSET Nat
    <3>1. H \subseteq Scanned
      BY DEF HitsFor
    <3>2. 1 .. Len(list) \subseteq Nat
      OBVIOUS
    <3> QED
      BY <2>1, <3>1, <3>2
  <2>3. m \in H
    BY <1>2, <2>2, LeastOf
  <2> QED
    BY <2>1, <2>3 DEF HitsFor
<1>5. o \in ObjIds /\ o \in ToSet(list)
  BY <1>3, <1>4 DEF ToSet
<1>6. u \in Uses /\ u.obj = o /\ u.address = a /\ u.bytes = b
  BY <1>1, <1>5 DEF Use, Uses
<1> HIDE DEF a, b, H, m, o, u
<1>7. obj[o].map_start \in Nat /\ obj[o].map_size \in Nat
  BY <1>3, <1>5 DEF MapObjects
<1>8. HoldsRight(list, obj, u)
  <2>1. /\ obj[o].map_start <= a /\ obj[o].is_mapped
        /\ a + b <= obj[o].map_start + obj[o].map_size
    BY <1>4 DEF Covers
  <2>2. Min({a + b, FileSize}) <= a + b
    BY <1>1, MinOfTwo
  <2>3. Min({a + b, FileSize}) \in Int
    BY <1>1, MinOfTwo
  <2>4. Min({a + b, FileSize}) <= obj[o].map_start + obj[o].map_size
    BY <1>1, <1>7, <2>1, <2>2, <2>3
  <2> QED
    BY <1>5, <1>6, <2>1, <2>4 DEF HoldsRight
<1>9. HeldIn(list, obj, held) /\ CountedIn(obj, held)
  BY InTheseTerms DEF CacheInv
<1>10. obj' = [obj EXCEPT ![u.obj].num_using = @ + 1]
  BY <1>2, <1>6
<1>11. /\ obj' \in [ObjIds -> MapObjects]
       /\ HeldIn(list, obj', held') /\ CountedIn(obj', held')
  <2> DEFINE qs == [obj EXCEPT ![u.obj].num_using = @ + 1]
  <2>1. /\ qs \in [ObjIds -> MapObjects]
        /\ HeldIn(list, qs, Append(held, u)) /\ CountedIn(qs, Append(held, u))
    BY <1>3, <1>6, <1>8, <1>9, CountOneMore
  <2>2. obj' = qs /\ held' = Append(held, u)
    BY <1>2, <1>10
  <2> HIDE DEF qs
  <2> QED
    BY <2>1, <2>2
<1>12. held' \in Seq(Uses) /\ Len(held') <= MaxHeld
  BY <1>2, <1>3, <1>6, CacheAssumption, AppendProperties
<1> QED
  BY <1>2, <1>11, <1>12, UsesChange

LEMMA ReleaseKeeps ==
    ASSUME CacheInv, NEW i \in 1 .. Len(held), ReleaseMap(i)
    PROVE  CacheInv'
<1>1. held \in Seq(Uses) /\ obj \in [ObjIds -> MapObjects] /\ Len(held) \in Nat /\ Len(held) <= MaxHeld
  BY DEF CacheInv, CacheTypeOK
<1>2. HeldIn(list, obj, held) /\ CountedIn(obj, held)
  BY InTheseTerms DEF CacheInv
<1>3. /\ obj' = [obj EXCEPT ![held[i].obj].num_using = @ - 1]
      /\ held' = RemoveAt(held, i)
      /\ UNCHANGED <<list, front, back, length>>
  BY DEF ReleaseMap
<1>4. /\ obj' \in [ObjIds -> MapObjects]
      /\ HeldIn(list, obj', held') /\ CountedIn(obj', held')
  BY <1>1, <1>2, <1>3, CountOneLess
<1>5. held' \in Seq(Uses) /\ Len(held') <= MaxHeld
  BY <1>1, <1>3, RemoveAtIs, CacheAssumption
<1> QED
  BY <1>3, <1>4, <1>5, UsesChange

-----------------------------------------------------------------------------
(* The rest of st_navigateTo, once the new mapping is in the list.         *)
LEMMA ListedOK ==
    ASSUME list' \in Seq(ObjIds), Once(list'), front' \in 1 .. Len(list'),
           back' = list'[Len(list')], back' \in ObjIds, length' \in Nat,
           length' <= MaxMapObjs, length' <= Len(list'),
           length' < MaxMapObjs => length' = Len(list'),
           Len(list') - front' + 1 <= length',
           Len(list') <= CleanLength \/ Len(list') <= MaxHeld,
           obj' \in [ObjIds -> MapObjects], held' \in Seq(Uses), Len(held') <= MaxHeld,
           HeldIn(list', obj', held'), CountedIn(obj', held')
    PROVE  CacheInv'
<1>1. Len(list') \in Nat /\ front' # NoNode /\ front' \in 0 .. Len(list')
  BY DEF NoNode
<1>2. CacheTypeOK'
  BY <1>1 DEF CacheTypeOK
<1>3. Max({CleanLength, MaxHeld}) = IF CleanLength >= MaxHeld THEN CleanLength ELSE MaxHeld
  BY CleanLengthNat, CacheAssumption, MaxOfTwo
<1>4. Len(list') <= Max({CleanLength, MaxHeld})
  BY <1>1, <1>3, CleanLengthNat, CacheAssumption
<1>5. LengthTells'
  BY DEF LengthTells
<1>6. ListedOnce'
  BY DEF ListedOnce, Once
<1>7. ListOK'
  BY <1>1, <1>4, <1>5, <1>6 DEF ListOK
<1>8. HeldStaysMapped' /\ UsesCounted'
  BY DEF HeldStaysMapped, UsesCounted, HeldIn, HoldsRight, CountedIn, UsesOf
<1> QED
  BY <1>2, <1>7, <1>8 DEF CacheInv

LEMMA ShrinkKeeps ==
    ASSUME NEW l \in Seq(ObjIds), Once(l), NEW f \in 1 .. Len(l), NEW n \in 1 .. Len(l),
           n <= MaxMapObjs + 1, n <= MaxMapObjs => n = Len(l),
           Len(l) - f + 1 <= n, n > 1 => f < Len(l),
           NEW os \in [ObjIds -> MapObjects], InUse(os, l[Len(l)]),
           NEW h \in Seq(Uses), Len(h) <= MaxHeld, HeldIn(l, os, h), CountedIn(os, h),
           Shrink(l, f, n, os), back' = l[Len(l)], held' = h
    PROVE  CacheInv'
<1> DEFINE m == Len(l)
           os1 == LetGo(os, l[f])
           f1 == NextNode(l, f)
           k == Kept(l, os1)
           g == KeptFront(l, f1, os1)
           qs == [o \in ObjIds |-> IF InUse(os1, o) THEN os1[o] ELSE Unmapped]
<1>1. /\ m \in Nat /\ f \in 1 .. m /\ n \in 1 .. m /\ MaxMapObjs \in Nat \ {0}
      /\ l[m] \in ObjIds /\ l[f] \in ObjIds /\ CleanLength \in Nat /\ CleanLength >= MaxMapObjs
  BY CacheAssumption, CleanLengthNat
<1>2. /\ os1 \in [ObjIds -> MapObjects] /\ HeldIn(l, os1, h) /\ CountedIn(os1, h)
      /\ InUse(os1, l[m])
  <2>1. /\ os1 \in [ObjIds -> MapObjects] /\ HeldIn(l, os1, h) /\ CountedIn(os1, h)
        /\ \A o \in ObjIds : os1[o].num_using = os[o].num_using
    <3> DEFINE x == l[f]
    <3>1. x \in ObjIds
      BY <1>1
    <3> HIDE DEF x
    <3>2. /\ LetGo(os, x) \in [ObjIds -> MapObjects]
          /\ HeldIn(l, LetGo(os, x), h) /\ CountedIn(LetGo(os, x), h)
          /\ \A o \in ObjIds : LetGo(os, x)[o].num_using = os[o].num_using
      BY <3>1, LetGoKeeps
    <3>3. os1 = LetGo(os, x)
      BY DEF x
    <3> HIDE DEF os1
    <3> QED
      BY <3>2, <3>3
  <2> HIDE DEF os1
  <2>2. InUse(os1, l[m])
    BY <1>1, <2>1 DEF InUse
  <2> QED
    BY <2>1, <2>2
<1>3. CASE n <= MaxMapObjs
  <2>1. list' = l /\ front' = f /\ length' = n /\ obj' = os
    BY <1>3 DEF Shrink
  <2> HIDE DEF m
  <2>2. n = m /\ m - f + 1 <= n
    BY <1>3 DEF m
  <2> USE DEF m
  <2>3. m <= CleanLength
    BY <1>1, <1>3, <2>2
  <2> QED
    BY <1>1, <1>3, <2>1, <2>2, <2>3, ListedOK
<1>4. CASE n = MaxMapObjs + 1
  <2>1. f1 = f + 1 /\ f < m
    <3>1. f < m
      BY <1>1, <1>4
    <3> QED
      BY <3>1 DEF NextNode
  <2>2. CASE ~ (m > CleanLength)
    <3>1. list' = l /\ front' = f1 /\ length' = n - 1 /\ obj' = os1
      BY <1>1, <1>4, <2>2 DEF Shrink
    <3>2. m <= CleanLength
      BY <1>1, <2>2
    <3>3. m - (f + 1) + 1 <= n - 1 /\ f + 1 \in 1 .. m /\ n - 1 = MaxMapObjs /\ n - 1 <= m
      BY <1>1, <1>4, <2>1
    <3> HIDE DEF os1, f1
    <3> QED
      BY <1>1, <1>2, <2>1, <3>1, <3>2, <3>3, ListedOK
  <2>3. CASE m > CleanLength
    <3>1. list' = k /\ front' = g /\ length' = KeptLength(l, n - 1, os1) /\ obj' = qs
      BY <1>1, <1>4, <2>3 DEF Shrink
    <3> HIDE DEF os1, f1
    <3>2. qs \in [ObjIds -> MapObjects] /\ HeldIn(k, qs, h) /\ CountedIn(qs, h)
      BY <1>2, CleanUpKeeps
    <3>3. k \in Seq(ObjIds) /\ Once(k) /\ Len(k) \in Nat
      BY KeptIs DEF KeptWell
    <3>4. Len(k) <= Len(h) /\ Len(h) \in Nat
      BY <1>2, KeptFew
    <3>5. f + 1 \in 1 .. m
      BY <1>1, <2>1
    <3>6. g \in 1 .. Len(k) /\ Len(k) - g + 1 <= m - (f + 1) + 1 /\ k[Len(k)] = l[m]
      BY <1>2, <2>1, <3>5, KeptFrontIs
    <3> HIDE DEF k, g, qs, m
    <3>7. MaxHeld \in Nat /\ Len(k) <= MaxHeld
      BY <3>3, <3>4, CacheAssumption
    <3>8. length' = IF MaxMapObjs <= Len(k) THEN MaxMapObjs ELSE Len(k)
      <4>1. n - 1 = MaxMapObjs
        BY <1>1, <1>4
      <4>2. length' = Min({MaxMapObjs, Len(k)})
        BY <3>1, <4>1 DEF KeptLength, k
      <4> QED
        BY <1>1, <3>3, <4>2, MinOfTwo
    <3>9. m - f + 1 <= MaxMapObjs + 1
      BY <1>4 DEF m
    <3>10. Len(k) - g + 1 <= length'
      BY <1>1, <3>3, <3>6, <3>8, <3>9
    <3>11. /\ length' \in Nat /\ length' <= MaxMapObjs /\ length' <= Len(k)
           /\ length' < MaxMapObjs => length' = Len(k)
      BY <1>1, <3>3, <3>8
    <3>12. back' = k[Len(k)] /\ back' \in ObjIds
      BY <1>1, <3>6 DEF m
    <3> QED
      BY <3>1, <3>2, <3>3, <3>6, <3>7, <3>10, <3>11, <3>12, ListedOK
  <2> QED
    BY <2>2, <2>3
<1> QED
  BY <1>1, <1>3, <1>4

(* There is a mapObject that is not in the list.                           *)
LEMMA RoomForOne ==
    ASSUME CacheInv
    PROVE  ObjIds \ ToSet(list) # {}
<1> DEFINE n == Len(list)
<1>1. list \in Seq(ObjIds) /\ n \in Nat /\ DOMAIN list = 1 .. n /\ list \in [1 .. n -> ObjIds]
  BY LenProperties DEF CacheInv, CacheTypeOK
<1>2. CleanLength \in Nat /\ MaxHeld \in Nat
  BY CleanLengthNat, CacheAssumption
<1>3. n <= CleanLength + MaxHeld
  <2>1. Max({CleanLength, MaxHeld}) = IF CleanLength >= MaxHeld THEN CleanLength ELSE MaxHeld
    BY <1>2, MaxOfTwo
  <2>2. n <= Max({CleanLength, MaxHeld})
    BY DEF CacheInv, ListOK
  <2> QED
    BY <1>1, <1>2, <2>1, <2>2
<1>4. IsFiniteSet(1 .. n) /\ Cardinality(1 .. n) = n
  BY <1>1, FS_Interval
<1>5. IsFiniteSet(ObjIds) /\ Cardinality(ObjIds) = CleanLength + MaxHeld + 1
  BY <1>2, FS_Interval DEF ObjIds
<1>6. list \in Surjection(1 .. n, ToSet(list))
  BY <1>1 DEF Surjection, ToSet
<1>7. IsFiniteSet(ToSet(list)) /\ Cardinality(ToSet(list)) <= n
  BY <1>4, <1>6, FS_Surjection
<1>8. ASSUME ObjIds \ ToSet(list) = {} PROVE FALSE
  <2>1. ObjIds \in SUBSET ToSet(list)
    BY <1>8
  <2>2. Cardinality(ObjIds) <= Cardinality(ToSet(list))
    BY <1>7, <2>1, FS_Subset
  <2>3. Cardinality(ToSet(list)) \in Nat
    BY <1>7, FS_CardinalityType
  <2> QED
    BY <1>1, <1>2, <1>3, <1>5, <1>7, <2>2, <2>3
<1> QED
  BY <1>8

(* The new mapping, in the list and used once.                             *)
LEMMA NewMappingHolds ==
    ASSUME CacheInv, NEW o \in ObjIds \ ToSet(list),
           NEW a \in 0 .. FileSize - 1, NEW b \in Nat \ {0}
    PROVE  LET l  == Append(list, o)
               os == [obj EXCEPT ![o] = [map_start |-> StartOf(a), map_size |-> SizeFor(a, b),
                                         num_using |-> 1, is_mapped |-> TRUE]]
               h  == Append(held, Use(o, a, b))
           IN  /\ l \in Seq(ObjIds) /\ Len(l) = Len(list) + 1 /\ l[Len(l)] = o /\ Once(l)
               /\ os \in [ObjIds -> MapObjects] /\ InUse(os, o)
               /\ h \in Seq(Uses) /\ Len(h) = Len(held) + 1
               /\ HeldIn(l, os, h) /\ CountedIn(os, h)
<1> DEFINE u  == Use(o, a, b)
           m  == [map_start |-> StartOf(a), map_size |-> SizeFor(a, b),
                  num_using |-> 1, is_mapped |-> TRUE]
           l  == Append(list, o)
           os == [obj EXCEPT ![o] = m]
           h  == Append(held, u)
           n  == Len(list)
           p  == Len(held)
<1>1. /\ list \in Seq(ObjIds) /\ n \in Nat /\ obj \in [ObjIds -> MapObjects]
      /\ held \in Seq(Uses) /\ p \in Nat /\ DOMAIN held = 1 .. p /\ DOMAIN list = 1 .. n
  BY LenProperties DEF CacheInv, CacheTypeOK
<1>2. HeldIn(list, obj, held) /\ CountedIn(obj, held) /\ Once(list)
  BY InTheseTerms DEF CacheInv, ListOK
<1>3. /\ StartOf(a) \in Nat /\ SizeFor(a, b) \in Nat /\ StartOf(a) <= a
      /\ Min({a + b, FileSize}) <= StartOf(a) + SizeFor(a, b)
  BY MappingCovers
<1>4. /\ m \in MapObjects /\ m.num_using = 1 /\ m.is_mapped
      /\ m.map_start = StartOf(a) /\ m.map_size = SizeFor(a, b)
  BY <1>3 DEF MapObjects
<1>5. u \in Uses /\ u.obj = o /\ u.address = a /\ u.bytes = b
  BY DEF Use, Uses
<1> HIDE DEF m, u
<1>6. /\ l \in Seq(ObjIds) /\ Len(l) = n + 1 /\ DOMAIN l = 1 .. n + 1
      /\ (\A i \in 1 .. n : l[i] = list[i]) /\ l[n + 1] = o
  BY <1>1, AppendProperties, LenProperties
<1>7. /\ h \in Seq(Uses) /\ Len(h) = p + 1 /\ DOMAIN h = 1 .. p + 1
      /\ (\A i \in 1 .. p : h[i] = held[i]) /\ h[p + 1] = u
  BY <1>1, <1>5, AppendProperties, LenProperties
<1>8. /\ os \in [ObjIds -> MapObjects] /\ os[o] = m
      /\ \A x \in ObjIds \ {o} : os[x] = obj[x]
  BY <1>1, <1>4
<1> HIDE DEF l, os, n, p
<1>9. Once(l)
  <2> SUFFICES ASSUME NEW i \in 1 .. n + 1, NEW j \in 1 .. n + 1, l[i] = l[j]
               PROVE  i = j
    BY <1>6 DEF Once
  <2>0. \A k \in 1 .. n : list[k] # o
    BY <1>1 DEF ToSet
  <2>1. CASE i \in 1 .. n /\ j \in 1 .. n
    BY <1>2, <1>6, <2>1 DEF Once, n
  <2>2. CASE i = n + 1 /\ j \in 1 .. n
    BY <1>6, <2>0, <2>2
  <2>3. CASE i \in 1 .. n /\ j = n + 1
    BY <1>6, <2>0, <2>3
  <2>4. CASE i = n + 1 /\ j = n + 1
    BY <2>4
  <2> QED
    BY <1>1, <2>1, <2>2, <2>3, <2>4
<1>10. ToSet(list) \subseteq ToSet(l) /\ o \in ToSet(l)
  <2>1. n + 1 \in 1 .. n + 1 /\ 1 .. n \subseteq 1 .. n + 1
    BY <1>1
  <2>2. o \in ToSet(l)
    BY <1>6, <2>1 DEF ToSet
  <2>3. ASSUME NEW i \in 1 .. n PROVE list[i] \in ToSet(l)
    BY <1>6, <2>1 DEF ToSet
  <2> QED
    BY <1>1, <2>2, <2>3 DEF ToSet
<1>11. ASSUME NEW i \in 1 .. p PROVE held[i].obj \in ObjIds \ {o} /\ HoldsRight(list, obj, held[i])
  <2>1. HoldsRight(list, obj, held[i])
    BY <1>1, <1>2 DEF HeldIn
  <2>2. held[i].obj \in ToSet(list)
    BY <2>1 DEF HoldsRight
  <2>3. held[i].obj \in ObjIds
    BY <1>1, UseTyped
  <2> QED
    BY <2>1, <2>2, <2>3
<1>12. HeldIn(l, os, h)
  <2>1. ASSUME NEW i \in 1 .. p PROVE HoldsRight(l, os, held[i])
    <3>1. os[held[i].obj] = obj[held[i].obj] /\ held[i].obj \in ToSet(l)
      BY <1>8, <1>10, <1>11 DEF HoldsRight
    <3> QED
      BY <1>11, <3>1 DEF HoldsRight
  <2>2. HoldsRight(l, os, u)
    BY <1>3, <1>4, <1>5, <1>8, <1>10 DEF HoldsRight
  <2>3. \A i \in DOMAIN h : h[i] = u \/ (i \in 1 .. p /\ h[i] = held[i])
    BY <1>1, <1>7
  <2> HIDE DEF h
  <2> QED
    BY <2>1, <2>2, <2>3 DEF HeldIn
<1>13. ASSUME NEW x \in ObjIds PROVE os[x].num_using = Cardinality(UsesOf(h, x))
  <2>1. /\ Cardinality(UsesOf(h, x)) = Cardinality(UsesOf(held, x)) + (IF o = x THEN 1 ELSE 0)
        /\ Cardinality(UsesOf(held, x)) \in Nat
    BY <1>1, <1>5, OneUseMore, UsesOfFinite
  <2>2. CASE x = o
    <3>1. UsesOf(held, o) = {}
      BY <1>1, <1>11 DEF UsesOf
    <3>2. Cardinality({}) = 0
      BY FS_EmptySet
    <3> QED
      BY <1>4, <1>8, <2>1, <2>2, <3>1, <3>2
  <2>3. CASE x # o
    <3>1. os[x].num_using = Cardinality(UsesOf(held, x))
      BY <1>2, <1>8, <2>3 DEF CountedIn
    <3> QED
      BY <2>1, <2>3, <3>1
  <2> QED
    BY <2>2, <2>3
<1>14. InUse(os, o)
  BY <1>4, <1>8 DEF InUse
<1> HIDE DEF h
<1>15. CountedIn(os, h)
  BY <1>13 DEF CountedIn
<1>16. l[Len(l)] = o
  BY <1>6
<1> QED
  BY <1>6, <1>7, <1>8, <1>9, <1>12, <1>14, <1>15, <1>16 DEF l, os, h, n, p, m, u

LEMMA MissKeeps ==
    ASSUME CacheInv, NEW r \in Requests, NavigateMiss(r[1], r[2])
    PROVE  CacheInv'
<1> DEFINE a  == r[1]
           b  == r[2]
           o  == Min(ObjIds \ ToSet(list))
           os == [obj EXCEPT ![o] = [map_start |-> StartOf(a), map_size |-> SizeFor(a, b),
                                     num_using |-> 1, is_mapped |-> TRUE]]
           l  == Append(list, o)
           f  == IF length = 0 THEN Len(l) ELSE front
           h  == Append(held, Use(o, a, b))
<1>1. Len(held) < MaxHeld /\ back' = o /\ held' = h /\ Shrink(l, f, length + 1, os)
  BY DEF NavigateMiss
<1>2. a \in 0 .. FileSize - 1 /\ b \in Nat \ {0}
  BY RequestTyped
<1>3. o \in ObjIds \ ToSet(list)
  <2>1. ObjIds \ ToSet(list) \in SUBSET Nat
    BY CleanLengthNat, CacheAssumption DEF ObjIds
  <2> QED
    BY <2>1, RoomForOne, LeastOf
<1> HIDE DEF a, b, o
<1>4. /\ l \in Seq(ObjIds) /\ Len(l) = Len(list) + 1 /\ l[Len(l)] = o /\ Once(l)
      /\ os \in [ObjIds -> MapObjects] /\ InUse(os, o)
      /\ h \in Seq(Uses) /\ Len(h) = Len(held) + 1
      /\ HeldIn(l, os, h) /\ CountedIn(os, h)
  BY <1>2, <1>3, NewMappingHolds
<1> HIDE DEF l, os, h
<1>5. /\ Len(list) \in Nat /\ front \in 0 .. Len(list) /\ length \in Nat
      /\ Len(held) \in Nat /\ list \in Seq(ObjIds)
  BY DEF CacheInv, CacheTypeOK
<1>6. /\ length <= MaxMapObjs /\ length <= Len(list)
      /\ length < MaxMapObjs => length = Len(list)
      /\ list # <<>> => Len(list) - front + 1 <= length /\ front # NoNode
  BY DEF CacheInv, ListOK, LengthTells
<1>7. MaxMapObjs \in Nat \ {0} /\ MaxHeld \in Nat
  BY CacheAssumption
<1>8. length + 1 \in 1 .. Len(l) /\ length + 1 <= MaxMapObjs + 1
  BY <1>4, <1>5, <1>6, <1>7
<1>9. length + 1 <= MaxMapObjs => length + 1 = Len(l)
  BY <1>4, <1>5, <1>6, <1>7
<1>10. f \in 1 .. Len(l) /\ Len(l) - f + 1 <= length + 1 /\ (length + 1 > 1 => f < Len(l))
  <2>1. CASE length = 0
    <3>1. f = Len(l)
      BY <2>1
    <3> HIDE DEF f
    <3> QED
      BY <1>4, <1>5, <2>1, <3>1
  <2>2. CASE length # 0
    <3>1. f = front
      BY <2>2
    <3>2. list # <<>>
      BY <1>5, <1>6, <2>2
    <3>3. front \in 1 .. Len(list) /\ Len(list) - front + 1 <= length
      BY <1>5, <1>6, <3>2 DEF NoNode
    <3> HIDE DEF f
    <3> QED
      BY <1>4, <1>5, <3>1, <3>3
  <2> QED
    BY <2>1, <2>2
<1>11. Len(h) <= MaxHeld
  BY <1>1, <1>4, <1>5, <1>7
<1> HIDE DEF f
<1> QED
  BY <1>1, <1>4, <1>8, <1>9, <1>10, <1>11, ShrinkKeeps

-----------------------------------------------------------------------------
(* Every step of the cache preserves the invariant.                        *)
THEOREM CacheStepInv == CacheInv /\ [CacheNext]_cacheVars => CacheInv'
<1> SUFFICES ASSUME CacheInv, [CacheNext]_cacheVars PROVE CacheInv'
  OBVIOUS
<1>1. CASE \E r \in Requests : NavigateHit(r[1], r[2])
  BY <1>1, HitKeeps
<1>2. CASE \E r \in Requests : NavigateMiss(r[1], r[2])
  BY <1>2, MissKeeps
<1>3. CASE \E i \in 1 .. Len(held) : ReleaseMap(i)
  BY <1>3, ReleaseKeeps
<1>4. CASE FreeCache
  BY <1>4, FreeKeeps
<1>5. CASE UNCHANGED cacheVars
  <2>1. held \in Seq(Uses) /\ Len(held) <= MaxHeld /\ obj \in [ObjIds -> MapObjects]
    BY DEF CacheInv, CacheTypeOK
  <2>2. HeldIn(list, obj, held) /\ CountedIn(obj, held)
    BY InTheseTerms DEF CacheInv
  <2>3. UNCHANGED <<list, front, back, length>> /\ obj' = obj /\ held' = held
    BY <1>5 DEF cacheVars
  <2> QED
    BY <2>1, <2>2, <2>3, UsesChange
<1> QED
  BY <1>1, <1>2, <1>3, <1>4, <1>5 DEF CacheNext

THEOREM CacheInvariant == CacheSpec => []CacheInv
BY CacheInitInv, CacheStepInv, PTL DEF CacheSpec

(* A caller that holds a mapping can read all it asked for that the file   *)
(* has, whatever is looked up, let go or cleaned up meanwhile.             *)
THEOREM HeldMappingsStay == CacheSpec => []HeldStaysMapped
<1>1. CacheInv => HeldStaysMapped
  BY DEF CacheInv
<1> QED
  BY <1>1, CacheInvariant, PTL

(* num_using counts the uses given out, so no page is released twice and   *)
(* none that is used is unmapped or freed.                                 *)
THEOREM MappingUsesCounted == CacheSpec => []UsesCounted
<1>1. CacheInv => UsesCounted
  BY DEF CacheInv
<1> QED
  BY <1>1, CacheInvariant, PTL

(* The clean-up pass never removes the node back points at, and once a     *)
(* mapping was made the queue is never empty in front of it.               *)
THEOREM MapQueueAnchored == CacheSpec => []QueueAnchored
<1>1. ASSUME CacheInv PROVE QueueAnchored
  <2> SUFFICES ASSUME list # <<>>
               PROVE  back = Last(list) /\ front # NoNode /\ 0 < length /\ length <= Len(list)
    BY DEF QueueAnchored
  <2>1. list \in Seq(ObjIds) /\ length \in Nat /\ front \in 0 .. Len(list) /\ Len(list) \in Nat
    BY <1>1 DEF CacheInv, CacheTypeOK
  <2>2. front # NoNode /\ back = Last(list)
    BY <1>1 DEF CacheInv, ListOK, Last
  <2>3. length <= Len(list) /\ Len(list) - front + 1 <= length
    BY <1>1 DEF CacheInv, ListOK, LengthTells
  <2> QED
    BY <2>1, <2>2, <2>3
<1> QED
  BY <1>1, CacheInvariant, PTL

(* What the lookup does not reach is behind the front, and what is behind  *)
(* it stays within the clean-up's limit or the uses given out.             *)
THEOREM MapCacheBounded == CacheSpec => []CacheBounded
<1>1. ASSUME CacheInv PROVE CacheBounded
  <2>1. list \in Seq(ObjIds) /\ length \in Nat /\ front \in 0 .. Len(list) /\ Len(list) \in Nat
    BY <1>1 DEF CacheInv, CacheTypeOK
  <2>2. length <= MaxMapObjs /\ (list # <<>> => Len(list) - front + 1 <= length)
    BY <1>1 DEF CacheInv, ListOK, LengthTells
  <2>3. Live <= MaxMapObjs
    <3>1. CASE front = NoNode
      BY <3>1, CacheAssumption DEF Live
    <3>2. CASE front # NoNode
      <4>1. list # <<>>
        BY <2>1, <3>2 DEF NoNode
      <4> QED
        BY <2>1, <2>2, <3>2, <4>1, CacheAssumption DEF Live
    <3> QED
      BY <3>1, <3>2
  <2>4. Len(list) <= Max({CleanLength, MaxHeld})
    BY <1>1 DEF CacheInv, ListOK
  <2> QED
    BY <2>3, <2>4 DEF CacheBounded
<1> QED
  BY <1>1, CacheInvariant, PTL

=============================================================================
