---------------------------- MODULE EzQueue_proofs -----------------------------
(* The nodes of ezq.c, for any number of nodes, any data and every use     *)
(* QueueAssumption allows: EzInv is inductive, and each call does to the   *)
(* order of the nodes what QueueSpec says it does to the sequence.         *)
EXTENDS EzQueue, Induction, SequenceTheorems, FiniteSetTheorems, TLAPS

NodeMaps == [Nodes -> [prev : Pointers, next : Pointers, data : Data \cup {NULL}]]

EzTypeOK ==
    /\ use \in Uses
    /\ live \in SUBSET Nodes /\ node \in NodeMaps
    /\ abs_front \in Pointers /\ front \in Pointers /\ back \in Pointers
    /\ traverse_front \in Pointers
    /\ length \in Nat /\ abs_length \in Nat
    /\ traverse_length \in 0 .. SizeRange - 1
    /\ walking \in BOOLEAN
    /\ out \in Data \cup {NULL}

(* c numbers the nodes that are allocated *)
Lists(c) ==
    /\ c \in [1 .. abs_length -> live]
    /\ \A i, j \in 1 .. abs_length : c[i] = c[j] => i = j
    /\ \A n \in live : \E i \in 1 .. abs_length : c[i] = n

(* in the order they are linked, both ways; only cleanQueue leaves a first *)
(* node that points back, at one it has freed                              *)
LinkedAs(c) ==
    /\ abs_length > 0 =>
          /\ abs_front = c[1] /\ back = c[abs_length]
          /\ node[c[abs_length]].next = NULL
          /\ "cleanQueue" \notin use => node[c[1]].prev = NULL
    /\ \A i \in 2 .. abs_length : node[c[i - 1]].next = c[i] /\ node[c[i]].prev = c[i - 1]

(* front is where length counts from; after the last node is handed out it *)
(* is NULL, after resetQueue it is that node                               *)
FrontAt(c) ==
    /\ front = NULL \/ \E i \in 1 .. abs_length : front = c[i]
    /\ abs_length = 0 => abs_front = NULL
    /\ length <= abs_length
    /\ KeepsItems =>
          /\ length > 0 => front = c[abs_length - length + 1]
          /\ length = 0 /\ abs_length > 0 => front = NULL \/ front = c[abs_length]

(* a traversal stands on a node, with no more to come than it counts *)
WalkAt(c) ==
    walking =>
        /\ "traverse" \in use
        /\ traverse_front = NULL \/ \E i \in 1 .. abs_length : traverse_front = c[i]
        /\ KeepsItems /\ traverse_length > 0 =>
              \E i \in 1 .. abs_length : traverse_front = c[i] /\ i + traverse_length - 1 <= abs_length

Sound(c) == EzTypeOK /\ Lists(c) /\ LinkedAs(c) /\ FrontAt(c) /\ WalkAt(c)
EzInv == \E c : Sound(c)

-----------------------------------------------------------------------------
(* A walk of n nodes from f, along next, meets those in c.                 *)
WalkFrom(f, n, lv, ns) == CHOOSE at : at =
    [i \in 1 .. n |-> IF i = 1 THEN f ELSE IF at[i - 1] \in lv THEN ns[at[i - 1]].next ELSE NULL]

LEMMA WalkMeets ==
    ASSUME NEW n \in Nat, NEW lv, NEW c \in [1 .. n -> lv], NEW f, n > 0 => f = c[1],
           NEW ns, \A i \in 2 .. n : ns[c[i - 1]].next = c[i]
    PROVE  WalkFrom(f, n, lv, ns) = c
<1> DEFINE G(k) == [i \in 1 .. n |-> IF i = 1 THEN f
                                     ELSE IF k[i - 1] \in lv THEN ns[k[i - 1]].next ELSE NULL]
           K == CHOOSE k : k = G(k)
<1>1. WalkFrom(f, n, lv, ns) = K
  BY DEF WalkFrom
<1>2. c = G(c)
  <2> SUFFICES ASSUME NEW i \in 1 .. n PROVE c[i] = G(c)[i]
    OBVIOUS
  <2>1. CASE i = 1
    BY <2>1
  <2>2. CASE i \in 2 .. n
    BY <2>2
  <2> QED
    BY <2>1, <2>2
<1>3. K = G(K)
  <2> HIDE DEF G
  <2> QED
    BY <1>2
<1> HIDE DEF K
<1>4. ASSUME NEW i \in 1 .. n
      PROVE  K[i] = IF i = 1 THEN f ELSE IF K[i - 1] \in lv THEN ns[K[i - 1]].next ELSE NULL
  <2>1. G(K)[i] = IF i = 1 THEN f ELSE IF K[i - 1] \in lv THEN ns[K[i - 1]].next ELSE NULL
    OBVIOUS
  <2> HIDE DEF G
  <2> QED
    BY <1>3, <2>1
<1>5. DOMAIN K = 1 .. n /\ K = [i \in 1 .. n |-> K[i]]
  <2>1. DOMAIN G(K) = 1 .. n /\ G(K) = [i \in 1 .. n |-> G(K)[i]]
    OBVIOUS
  <2> HIDE DEF G
  <2> QED
    BY <1>3, <2>1
<1> HIDE DEF G
<1> DEFINE T == {i \in Nat : i + 1 <= n => K[i + 1] = c[i + 1]}
<1>6. 0 \in T
  BY <1>4
<1>7. ASSUME NEW i \in Nat, i \in T PROVE i + 1 \in T
  <2>1. ASSUME (i + 1) + 1 <= n PROVE K[(i + 1) + 1] = c[(i + 1) + 1]
    <3> DEFINE m == (i + 1) + 1
    <3>1. m \in 2 .. n /\ m \in 1 .. n /\ m # 1 /\ m - 1 = i + 1 /\ m - 1 \in 1 .. n
      BY <2>1
    <3>2. K[m - 1] = c[m - 1]
      BY <1>7, <3>1
    <3> HIDE DEF m
    <3>3. c[m - 1] \in lv /\ ns[c[m - 1]].next = c[m]
      BY <3>1
    <3>4. K[m] = IF K[m - 1] \in lv THEN ns[K[m - 1]].next ELSE NULL
      BY <1>4, <3>1
    <3> QED
      BY <3>2, <3>3, <3>4 DEF m
  <2> QED
    BY <2>1
<1> HIDE DEF T
<1>8. Nat \subseteq T
  BY <1>6, <1>7, InductionOnSet
<1>9. \A i \in 1 .. n : K[i] = c[i]
  <2>1. ASSUME NEW i \in 1 .. n PROVE i - 1 \in Nat /\ (i - 1) + 1 = i /\ i <= n
    OBVIOUS
  <2> QED
    BY <1>8, <2>1 DEF T
<1>10. K = c
  BY <1>5, <1>9
<1> QED
  BY <1>1, <1>10

LEMMA ChainIs ==
    ASSUME NEW c, abs_length \in Nat, Lists(c), LinkedAs(c)
    PROVE  Chain = c
<1>1. Chain = WalkFrom(abs_front, abs_length, live, node)
  BY DEF Chain, NextOf, WalkFrom
<1> QED
  BY <1>1, WalkMeets DEF Lists, LinkedAs

LEMMA ChainBecomes ==
    ASSUME NEW c, abs_length' \in Nat, Lists(c)', LinkedAs(c)'
    PROVE  Chain' = c
<1>1. Chain' = WalkFrom(abs_front', abs_length', live', node')
  BY DEF Chain, NextOf, WalkFrom
<1> QED
  BY <1>1, WalkMeets DEF Lists, LinkedAs

-----------------------------------------------------------------------------
(* As many nodes are allocated as c lists, so abs_length is bounded, and a *)
(* part of c lists as many as it is long.                                  *)
LEMMA CountedBy ==
    ASSUME NEW n \in Nat, NEW S, NEW c \in [1 .. n -> S],
           \A i, j \in 1 .. n : c[i] = c[j] => i = j, \A x \in S : \E i \in 1 .. n : c[i] = x
    PROVE  Cardinality(S) = n /\ IsFiniteSet(S)
<1>1. c \in Bijection(1 .. n, S)
  BY DEF Bijection, Injection, Surjection, IsInjective
<1>2. ExistsBijection(1 .. n, S)
  BY <1>1 DEF ExistsBijection
<1>3. IsFiniteSet(1 .. n) /\ Cardinality(1 .. n) = n
  BY FS_Interval
<1> QED
  BY <1>2, <1>3, FS_Bijection

LEMMA HowMany ==
    ASSUME EzTypeOK, NEW c, Lists(c)
    PROVE  /\ Cardinality(live) = abs_length
           /\ abs_length <= Cardinality(Nodes)
           /\ Cardinality(Nodes) \in Nat /\ Cardinality(Nodes) < SizeRange /\ SizeRange \in Nat
<1>1. Cardinality(live) = abs_length
  BY CountedBy DEF EzTypeOK, Lists
<1>2. IsFiniteSet(Nodes) /\ live \subseteq Nodes /\ SizeRange \in Nat /\ SizeRange > Cardinality(Nodes)
  BY QueueAssumption DEF EzTypeOK
<1>3. Cardinality(live) <= Cardinality(Nodes) /\ Cardinality(Nodes) \in Nat
  BY <1>2, FS_Subset, FS_CardinalityType
<1> QED
  BY <1>1, <1>2, <1>3

(* The place a node has on the chain.                                      *)
LEMMA PlaceOf ==
    ASSUME EzTypeOK, NEW c, Lists(c), LinkedAs(c), NEW i \in 1 .. abs_length
    PROVE  Position(c[i]) = i /\ OnChain(c[i]) /\ c[i] \in live /\ c[i] \in Nodes /\ c[i] # NULL
<1>1. Chain = c
  BY ChainIs DEF EzTypeOK
<1>2. \A j \in 1 .. abs_length : c[j] = c[i] => j = i
  BY DEF Lists
<1>3. Position(c[i]) = i
  BY <1>1, <1>2 DEF Position
<1> QED
  BY <1>1, <1>3, QueueAssumption DEF OnChain, Lists, EzTypeOK

(* The nodes next to it.                                                   *)
LEMMA NextTo ==
    ASSUME EzTypeOK, NEW c, Lists(c), LinkedAs(c), NEW i \in 1 .. abs_length
    PROVE  /\ node[c[i]].next = IF i < abs_length THEN c[i + 1] ELSE NULL
           /\ i > 1 => node[c[i]].prev = c[i - 1]
           /\ i = 1 /\ "cleanQueue" \notin use => node[c[i]].prev = NULL
<1>1. abs_length \in Nat
  BY DEF EzTypeOK
<1>2. CASE i < abs_length
  <2>1. i + 1 \in 2 .. abs_length /\ (i + 1) - 1 = i
    BY <1>1, <1>2
  <2>2. node[c[(i + 1) - 1]].next = c[i + 1]
    BY <2>1 DEF LinkedAs
  <2> QED
    BY <1>1, <1>2, <2>1, <2>2 DEF LinkedAs
<1>3. CASE i = abs_length
  BY <1>1, <1>3 DEF LinkedAs
<1> QED
  BY <1>1, <1>2, <1>3 DEF LinkedAs

(* What a write to a pointer of a node leaves.                             *)
LEMMA PrevSet ==
    ASSUME NEW ns \in NodeMaps, NEW n \in Pointers, NEW p \in Pointers
    PROVE  /\ SetPrev(ns, n, p) \in NodeMaps
           /\ \A x \in Nodes : /\ SetPrev(ns, n, p)[x].prev = IF x = n THEN p ELSE ns[x].prev
                               /\ SetPrev(ns, n, p)[x].next = ns[x].next
                               /\ SetPrev(ns, n, p)[x].data = ns[x].data
<1>1. NULL \notin Nodes
  BY QueueAssumption
<1>2. CASE n = NULL
  BY <1>1, <1>2 DEF SetPrev
<1>3. CASE n \in Nodes
  <2>1. SetPrev(ns, n, p) = [ns EXCEPT ![n].prev = p]
    BY <1>1, <1>3 DEF SetPrev
  <2> QED
    BY <1>3, <2>1 DEF NodeMaps
<1> QED
  BY <1>2, <1>3 DEF Pointers

LEMMA NextSet ==
    ASSUME NEW ns \in NodeMaps, NEW n \in Pointers, NEW p \in Pointers
    PROVE  /\ SetNext(ns, n, p) \in NodeMaps
           /\ \A x \in Nodes : /\ SetNext(ns, n, p)[x].next = IF x = n THEN p ELSE ns[x].next
                               /\ SetNext(ns, n, p)[x].prev = ns[x].prev
                               /\ SetNext(ns, n, p)[x].data = ns[x].data
<1>1. NULL \notin Nodes
  BY QueueAssumption
<1>2. CASE n = NULL
  BY <1>1, <1>2 DEF SetNext
<1>3. CASE n \in Nodes
  <2>1. SetNext(ns, n, p) = [ns EXCEPT ![n].next = p]
    BY <1>1, <1>3 DEF SetNext
  <2> QED
    BY <1>3, <2>1 DEF NodeMaps
<1> QED
  BY <1>2, <1>3 DEF Pointers

LEMMA NodeFilled ==
    ASSUME NEW ns \in NodeMaps, NEW n \in Nodes, NEW p \in Pointers, NEW m \in Pointers,
           NEW d \in Data
    PROVE  /\ Holding(ns, n, p, m, d) \in NodeMaps
           /\ Holding(ns, n, p, m, d)[n] = [prev |-> p, next |-> m, data |-> d]
           /\ \A x \in Nodes : x # n => Holding(ns, n, p, m, d)[x] = ns[x]
BY DEF Holding, NodeMaps

-----------------------------------------------------------------------------
(* A node is put in: c with n as its k-th.                                 *)
With(c, m, k, n) == [i \in 1 .. m + 1 |-> IF i < k THEN c[i] ELSE IF i = k THEN n ELSE c[i - 1]]

LEMMA WithIs ==
    ASSUME NEW m \in Nat, NEW c, NEW k \in 1 .. m + 1, NEW n,
           NEW e, e = With(c, m, k, n)
    PROVE  /\ e[k] = n /\ DOMAIN e = 1 .. m + 1
           /\ \A i \in 1 .. m : i < k => e[i] = c[i]
           /\ \A i \in 1 .. m : i >= k => e[i + 1] = c[i]
           /\ \A j \in 1 .. m + 1 : \/ j < k /\ j \in 1 .. m /\ e[j] = c[j]
                                    \/ j = k /\ e[j] = n
                                    \/ j > k /\ j - 1 \in 1 .. m /\ j - 1 >= k /\ e[j] = c[j - 1]
           /\ e = [j \in 1 .. m + 1 |-> e[j]]
<1>1. DOMAIN e = 1 .. m + 1 /\ e[k] = n
  BY DEF With
<1>2. ASSUME NEW i \in 1 .. m, i < k PROVE e[i] = c[i]
  BY <1>2 DEF With
<1>3. ASSUME NEW i \in 1 .. m, i >= k PROVE e[i + 1] = c[i]
  <2>1. i + 1 \in 1 .. m + 1 /\ ~ (i + 1 < k) /\ i + 1 # k /\ (i + 1) - 1 = i
    BY <1>3
  <2> DEFINE j == i + 1
  <2>2. e[j] = c[j - 1]
    BY <2>1 DEF With
  <2> QED
    BY <2>1, <2>2
<1>4. ASSUME NEW j \in 1 .. m + 1
      PROVE  \/ j < k /\ j \in 1 .. m /\ e[j] = c[j]
             \/ j = k /\ e[j] = n
             \/ j > k /\ j - 1 \in 1 .. m /\ j - 1 >= k /\ e[j] = c[j - 1]
  <2>1. e[j] = IF j < k THEN c[j] ELSE IF j = k THEN n ELSE c[j - 1]
    BY DEF With
  <2> QED
    BY <2>1
<1>5. e = [j \in 1 .. m + 1 |-> e[j]]
  BY DEF With
<1> QED
  BY <1>1, <1>2, <1>3, <1>4, <1>5

(* what linking n between its neighbours writes *)
LinksIn(c, k, n, d) ==
    /\ n \in Nodes /\ d \in Data /\ k \in 1 .. abs_length + 1
    /\ CountIn(n)
    /\ node' \in NodeMaps
    /\ node'[n].data = d
    /\ node'[n].next = IF k <= abs_length THEN c[k] ELSE NULL
    /\ k > 1 => node'[n].prev = c[k - 1]
    /\ k = 1 /\ "cleanQueue" \notin use => node'[n].prev = NULL
    /\ \A x \in live :
          /\ node'[x].data = node[x].data
          /\ node'[x].next = IF k > 1 /\ x = c[k - 1] THEN n ELSE node[x].next
          /\ node'[x].prev = IF k <= abs_length /\ x = c[k] THEN n ELSE node[x].prev
    /\ abs_front' = IF k = 1 THEN n ELSE abs_front
    /\ back' = IF k = abs_length + 1 THEN n ELSE back

LEMMA LinkedIn ==
    ASSUME NEW c, EzTypeOK, Lists(c), LinkedAs(c), NEW k, NEW n, NEW d, LinksIn(c, k, n, d),
           NEW e, e = With(c, abs_length, k, n)
    PROVE  /\ Lists(e)' /\ LinkedAs(e)'
           /\ e[k] = n
           /\ \A i \in 1 .. abs_length : i < k => e[i] = c[i]
           /\ \A i \in 1 .. abs_length : i >= k => e[i + 1] = c[i]
<1> DEFINE m == abs_length
<1>1. /\ m \in Nat /\ c \in [1 .. m -> live] /\ k \in 1 .. m + 1
      /\ \A i, j \in 1 .. m : c[i] = c[j] => i = j
      /\ \A x \in live : \E i \in 1 .. m : c[i] = x
      /\ live' = live \cup {n} /\ n \notin live /\ abs_length' = m + 1 /\ use' = use
  BY DEF EzTypeOK, Lists, LinksIn, CountIn
<1>2. /\ e[k] = n /\ DOMAIN e = 1 .. m + 1
      /\ \A i \in 1 .. m : i < k => e[i] = c[i]
      /\ \A i \in 1 .. m : i >= k => e[i + 1] = c[i]
      /\ \A j \in 1 .. m + 1 : \/ j < k /\ j \in 1 .. m /\ e[j] = c[j]
                               \/ j = k /\ e[j] = n
                               \/ j > k /\ j - 1 \in 1 .. m /\ j - 1 >= k /\ e[j] = c[j - 1]
      /\ e = [j \in 1 .. m + 1 |-> e[j]]
  <2>1. e = With(c, m, k, n)
    OBVIOUS
  <2> HIDE DEF m
  <2> QED
    BY <1>1, <2>1, WithIs
<1>3. ASSUME NEW i \in 1 .. m
      PROVE  /\ node[c[i]].next = IF i < m THEN c[i + 1] ELSE NULL
             /\ i > 1 => node[c[i]].prev = c[i - 1]
             /\ i = 1 /\ "cleanQueue" \notin use => node[c[i]].prev = NULL
  BY NextTo
<1>4. /\ node'[n].next = IF k <= m THEN c[k] ELSE NULL
      /\ k > 1 => node'[n].prev = c[k - 1]
      /\ k = 1 /\ "cleanQueue" \notin use => node'[n].prev = NULL
      /\ abs_front' = IF k = 1 THEN n ELSE abs_front
      /\ back' = IF k = m + 1 THEN n ELSE back
  BY DEF LinksIn
<1>5. ASSUME NEW i \in 1 .. m
      PROVE  /\ node'[c[i]].next = IF i = k - 1 THEN n ELSE IF i < m THEN c[i + 1] ELSE NULL
             /\ i = k => node'[c[i]].prev = n
             /\ i # k /\ i > 1 => node'[c[i]].prev = c[i - 1]
             /\ i = 1 /\ k # 1 /\ "cleanQueue" \notin use => node'[c[i]].prev = NULL
  <2>1. c[i] \in live
    BY <1>1
  <2>2. /\ node'[c[i]].next = IF k > 1 /\ c[i] = c[k - 1] THEN n ELSE node[c[i]].next
        /\ node'[c[i]].prev = IF k <= m /\ c[i] = c[k] THEN n ELSE node[c[i]].prev
    BY <2>1 DEF LinksIn
  <2>3. /\ k > 1 => k - 1 \in 1 .. m
        /\ k <= m => k \in 1 .. m
    BY <1>1
  <2>4. /\ (k > 1 /\ c[i] = c[k - 1]) <=> i = k - 1
        /\ (k <= m /\ c[i] = c[k]) <=> i = k
    BY <1>1, <2>3
  <2> QED
    BY <1>3, <2>2, <2>4
<1> HIDE DEF m
<1>6. Lists(e)'
  <2>1. ASSUME NEW i \in 1 .. m + 1, NEW j \in 1 .. m + 1, e[i] = e[j] PROVE i = j
    <3>1. \A x \in 1 .. m : c[x] # n
      BY <1>1
    <3>2. \/ i < k /\ i \in 1 .. m /\ e[i] = c[i]
          \/ i = k /\ e[i] = n
          \/ i > k /\ i - 1 \in 1 .. m /\ i - 1 >= k /\ e[i] = c[i - 1]
      BY <1>2
    <3>3. \/ j < k /\ j \in 1 .. m /\ e[j] = c[j]
          \/ j = k /\ e[j] = n
          \/ j > k /\ j - 1 \in 1 .. m /\ j - 1 >= k /\ e[j] = c[j - 1]
      BY <1>2
    <3>4. k \in Int /\ i \in Int /\ j \in Int
      BY <1>1
    <3>5. CASE i = k \/ j = k
      BY <2>1, <3>1, <3>2, <3>3, <3>5
    <3>6. CASE i < k /\ j < k
      BY <1>1, <2>1, <3>2, <3>3, <3>4, <3>6
    <3>7. CASE i > k /\ j > k
      <4>1. c[i - 1] = c[j - 1] /\ i - 1 \in 1 .. m /\ j - 1 \in 1 .. m
        BY <2>1, <3>2, <3>3, <3>4, <3>7
      <4>2. i - 1 = j - 1
        BY <1>1, <4>1
      <4> QED
        BY <3>4, <4>2
    <3>8. CASE i < k /\ j > k
      <4>1. c[i] = c[j - 1] /\ i \in 1 .. m /\ j - 1 \in 1 .. m /\ j - 1 >= k
        BY <2>1, <3>2, <3>3, <3>4, <3>8
      <4>2. i = j - 1
        BY <1>1, <4>1
      <4> QED
        BY <3>4, <3>8, <4>1, <4>2
    <3>9. CASE i > k /\ j < k
      <4>1. c[j] = c[i - 1] /\ j \in 1 .. m /\ i - 1 \in 1 .. m /\ i - 1 >= k
        BY <2>1, <3>2, <3>3, <3>4, <3>9
      <4>2. j = i - 1
        BY <1>1, <4>1
      <4> QED
        BY <3>4, <3>9, <4>1, <4>2
    <3> QED
      BY <3>4, <3>5, <3>6, <3>7, <3>8, <3>9
  <2>2. ASSUME NEW x \in live \cup {n} PROVE \E i \in 1 .. m + 1 : e[i] = x
    <3>1. CASE x = n
      BY <1>1, <1>2, <3>1
    <3>2. CASE x \in live
      <4>1. PICK i \in 1 .. m : c[i] = x
        BY <1>1, <3>2
      <4>2. i \in 1 .. m + 1 /\ i + 1 \in 1 .. m + 1 /\ (i < k \/ i >= k)
        BY <1>1
      <4> QED
        BY <1>2, <4>1, <4>2
    <3> QED
      BY <3>1, <3>2
  <2>3. e \in [1 .. m + 1 -> live \cup {n}]
    <3>1. \A j \in 1 .. m + 1 : e[j] \in live \cup {n}
      BY <1>1, <1>2
    <3> QED
      BY <1>2, <3>1
  <2> QED
    BY <1>1, <2>1, <2>2, <2>3 DEF Lists
<1>7. m + 1 > 0 /\ m + 1 \in Nat /\ 1 \in 1 .. m + 1 /\ m + 1 \in 1 .. m + 1
  BY <1>1
<1>8. /\ abs_front' = e[1] /\ back' = e[m + 1] /\ node'[e[m + 1]].next = NULL
      /\ "cleanQueue" \notin use => node'[e[1]].prev = NULL
  <2>1. abs_front' = e[1] /\ ("cleanQueue" \notin use => node'[e[1]].prev = NULL)
    <3>1. CASE k = 1
      BY <1>2, <1>4, <3>1
    <3>2. CASE k # 1
      <4>1. 1 \in 1 .. m /\ 1 < k /\ m > 0
        BY <1>1, <3>2
      <4>2. e[1] = c[1] /\ abs_front = c[1]
        BY <1>2, <4>1 DEF LinkedAs, m
      <4> QED
        BY <1>4, <1>5, <3>2, <4>1, <4>2
    <3> QED
      BY <3>1, <3>2
  <2>2. back' = e[m + 1] /\ node'[e[m + 1]].next = NULL
    <3>1. CASE k = m + 1
      <4>1. ~ (k <= m)
        BY <1>1, <3>1
      <4> QED
        BY <1>2, <1>4, <3>1, <4>1
    <3>2. CASE k # m + 1
      <4>1. m \in 1 .. m /\ m >= k /\ m > 0 /\ m # k - 1
        BY <1>1, <3>2
      <4>2. e[m + 1] = c[m] /\ back = c[m]
        BY <1>2, <4>1 DEF LinkedAs, m
      <4>3. node'[c[m]].next = NULL
        BY <1>1, <1>5, <4>1
      <4> QED
        BY <1>4, <3>2, <4>2, <4>3
    <3> QED
      BY <3>1, <3>2
  <2> QED
    BY <2>1, <2>2
<1>9. ASSUME NEW j \in 2 .. m + 1 PROVE node'[e[j - 1]].next = e[j] /\ node'[e[j]].prev = e[j - 1]
  <2>1. j \in 1 .. m + 1 /\ j - 1 \in 1 .. m + 1
    BY <1>1
  <2>2. CASE j < k
    <3>1. j \in 1 .. m /\ j - 1 \in 1 .. m /\ j - 1 < k /\ j - 1 # k - 1 /\ j - 1 < m /\ (j - 1) + 1 = j /\ j > 1
      BY <1>1, <2>2
    <3>2. e[j] = c[j] /\ e[j - 1] = c[j - 1]
      BY <1>2, <2>2, <3>1
    <3>3. node'[c[j - 1]].next = c[j] /\ node'[c[j]].prev = c[j - 1]
      BY <1>5, <2>2, <3>1
    <3> QED
      BY <3>2, <3>3
  <2>3. CASE j = k
    <3>1. j - 1 \in 1 .. m /\ j - 1 < k /\ k > 1
      BY <1>1, <2>3
    <3>2. e[j] = n /\ e[j - 1] = c[j - 1]
      BY <1>2, <2>3, <3>1
    <3>3. node'[c[j - 1]].next = n /\ node'[n].prev = c[j - 1]
      BY <1>4, <1>5, <2>3, <3>1
    <3> QED
      BY <3>2, <3>3
  <2>4. CASE j = k + 1
    <3>1. k \in 1 .. m /\ j - 1 = k /\ k <= m /\ k >= k
      BY <1>1, <2>4
    <3>2. e[j] = c[k] /\ e[j - 1] = n
      BY <1>2, <2>4, <3>1
    <3>3. node'[n].next = c[k] /\ node'[c[k]].prev = n
      BY <1>4, <1>5, <3>1
    <3> QED
      BY <3>2, <3>3
  <2>5. CASE j > k + 1
    <3>1. /\ j - 1 \in 1 .. m /\ j - 2 \in 1 .. m /\ j - 2 >= k /\ j - 1 >= k
          /\ (j - 2) + 1 = j - 1 /\ (j - 1) + 1 = j /\ (j - 1) - 1 = j - 2
          /\ j - 2 # k - 1 /\ j - 2 < m /\ j - 1 # k /\ j - 1 > 1
      BY <1>1, <2>5
    <3>2. e[j] = c[j - 1] /\ e[j - 1] = c[j - 2]
      <4>1. e[(j - 1) + 1] = c[j - 1] /\ e[(j - 2) + 1] = c[j - 2]
        BY <1>2, <3>1
      <4> QED
        BY <3>1, <4>1
    <3>3. node'[c[j - 2]].next = c[j - 1] /\ node'[c[j - 1]].prev = c[j - 2]
      <4>1. node'[c[j - 2]].next = c[(j - 2) + 1] /\ node'[c[j - 1]].prev = c[(j - 1) - 1]
        BY <1>5, <3>1
      <4> QED
        BY <3>1, <4>1
    <3> QED
      BY <3>2, <3>3
  <2> QED
    BY <1>1, <2>2, <2>3, <2>4, <2>5
<1> QED
  BY <1>1, <1>2, <1>6, <1>7, <1>8, <1>9 DEF LinkedAs, m

(* ... and where front goes: the last put in is the front of an exhausted  *)
(* queue, the impatient one of any.                                        *)
FrontMoves(k, n) ==
    \/ front' = n /\ length = 0 /\ k = abs_length + 1
    \/ front' = n /\ length > 0 /\ KeepsItems /\ k = abs_length - length + 1
    \/ front' = front /\ length > 0 /\ k = abs_length + 1

LEMMA PutSafe ==
    ASSUME NEW c, Sound(c), NEW k, NEW n, NEW d, LinksIn(c, k, n, d), FrontMoves(k, n),
           NEW e, e = With(c, abs_length, k, n)
    PROVE  Sound(e)'
<1> DEFINE m == abs_length
           l == length
<1>1. /\ EzTypeOK /\ Lists(c) /\ LinkedAs(c) /\ FrontAt(c) /\ WalkAt(c)
      /\ m \in Nat /\ l \in Nat /\ l <= m
  BY DEF Sound, EzTypeOK, FrontAt
<1>2. /\ n \in Nodes /\ k \in 1 .. m + 1 /\ live' = live \cup {n} /\ node' \in NodeMaps
      /\ length' = l + 1 /\ abs_length' = m + 1
      /\ UNCHANGED <<use, walkVars, out>>
      /\ abs_front' = (IF k = 1 THEN n ELSE abs_front) /\ back' = (IF k = m + 1 THEN n ELSE back)
  BY DEF LinksIn, CountIn
<1>3. Lists(e)' /\ LinkedAs(e)'
  BY <1>1, LinkedIn
<1>4. /\ e[k] = n
      /\ \A i \in 1 .. m : i < k => e[i] = c[i]
      /\ \A i \in 1 .. m : i >= k => e[i + 1] = c[i]
  BY <1>1, LinkedIn
<1>5. front' = n \/ front' = front
  BY DEF FrontMoves
<1> HIDE DEF m, l
<1>6. EzTypeOK'
  <2>1. n \in Pointers /\ front' \in Pointers
    BY <1>1, <1>2, <1>5 DEF EzTypeOK, Pointers
  <2>2. l + 1 \in Nat /\ m + 1 \in Nat
    BY <1>1
  <2> QED
    BY <1>1, <1>2, <2>1, <2>2 DEF EzTypeOK, walkVars
<1>7. ASSUME NEW i \in 1 .. m
      PROVE  \E j \in 1 .. m + 1 : e[j] = c[i] /\ (j = i \/ j = i + 1)
  <2>1. i \in 1 .. m + 1 /\ i + 1 \in 1 .. m + 1 /\ (i < k \/ i >= k)
    BY <1>1, <1>2
  <2> QED
    BY <1>4, <2>1
<1>8. FrontAt(e)'
  <2>1. m + 1 # 0 /\ l + 1 <= m + 1 /\ l + 1 > 0 /\ m + 1 - (l + 1) + 1 = m - l + 1
    BY <1>1
  <2>2. front' = NULL \/ \E i \in 1 .. m + 1 : front' = e[i]
    <3>1. CASE front' = n
      BY <1>2, <1>4, <3>1
    <3>2. CASE front' = front
      <4>1. CASE front = NULL
        BY <3>2, <4>1
      <4>2. CASE \E i \in 1 .. m : front = c[i]
        BY <1>7, <3>2, <4>2
      <4> QED
        BY <1>1, <4>1, <4>2 DEF FrontAt, m
    <3> QED
      BY <1>5, <3>1, <3>2
  <2>3. ASSUME KeepsItems PROVE front' = e[m - l + 1]
    <3>1. CASE front' = n /\ k = m - l + 1
      BY <1>4, <3>1
    <3>2. CASE front' = n /\ l = 0 /\ k = m + 1
      <4>1. m - l + 1 = k
        BY <1>1, <3>2
      <4> QED
        BY <1>4, <3>2, <4>1
    <3>3. CASE front' = front /\ l > 0 /\ k = m + 1
      <4>1. m - l + 1 \in 1 .. m /\ m - l + 1 < k
        BY <1>1, <3>3
      <4>2. front = c[m - l + 1]
        BY <1>1, <2>3, <3>3 DEF FrontAt, m, l
      <4> QED
        BY <1>4, <3>3, <4>1, <4>2
    <3> QED
      BY <3>1, <3>2, <3>3 DEF FrontMoves, m, l
  <2>4. KeepsItems' <=> KeepsItems
    BY <1>2 DEF KeepsItems
  <2>5. /\ length' # 0 /\ abs_length' # 0 /\ length' <= abs_length'
        /\ abs_length' - length' + 1 = m - l + 1
    BY <1>1, <1>2, <2>1
  <2>6. front' = NULL \/ \E i \in 1 .. abs_length' : front' = e[i]
    BY <1>2, <2>2
  <2> QED
    BY <2>3, <2>4, <2>5, <2>6 DEF FrontAt
<1>9. WalkAt(e)'
  <2> SUFFICES ASSUME walking PROVE WalkAt(e)'
    BY <1>2 DEF WalkAt, walkVars
  <2>1. /\ "traverse" \in use /\ (traverse_front = NULL \/ \E i \in 1 .. m : traverse_front = c[i])
        /\ KeepsItems /\ traverse_length > 0 =>
              \E i \in 1 .. m : traverse_front = c[i] /\ i + traverse_length - 1 <= m
    BY <1>1 DEF WalkAt, m
  <2>2. traverse_front = NULL \/ \E i \in 1 .. m + 1 : traverse_front = e[i]
    BY <1>7, <2>1
  <2>3. ASSUME KeepsItems, traverse_length > 0
        PROVE  \E i \in 1 .. m + 1 : traverse_front = e[i] /\ i + traverse_length - 1 <= m + 1
    <3>1. PICK i \in 1 .. m : traverse_front = c[i] /\ i + traverse_length - 1 <= m
      BY <2>1, <2>3
    <3>2. PICK j \in 1 .. m + 1 : e[j] = c[i] /\ (j = i \/ j = i + 1)
      BY <1>7
    <3>3. traverse_length \in Int
      BY <1>1, QueueAssumption DEF EzTypeOK
    <3>4. j + traverse_length - 1 <= m + 1
      BY <1>1, <3>1, <3>2, <3>3
    <3> QED
      BY <3>1, <3>2, <3>4
  <2>4. KeepsItems' <=> KeepsItems
    BY <1>2 DEF KeepsItems
  <2> QED
    BY <1>2, <2>1, <2>2, <2>3, <2>4 DEF WalkAt, walkVars
<1> QED
  BY <1>3, <1>6, <1>8, <1>9 DEF Sound

-----------------------------------------------------------------------------
(* enqueue and priorityEnqueue link the new node in at their place.        *)
LEMMA FirstLinked ==
    ASSUME NEW c, Sound(c), NEW n \in Nodes, NEW d \in Data, CountIn(n), LinkFirst(n, d)
    PROVE  LinksIn(c, abs_length + 1, n, d) /\ FrontMoves(abs_length + 1, n)
<1>1. abs_length = 0 /\ length = 0 /\ live = {} /\ node \in NodeMaps /\ NULL \in Pointers
  BY DEF Sound, FrontAt, Lists, EzTypeOK, LinkFirst, Pointers
<1>2. /\ node' = Holding(node, n, NULL, NULL, d)
      /\ abs_front' = n /\ front' = n /\ back' = n
  BY DEF LinkFirst
<1>3. node' \in NodeMaps /\ node'[n] = [prev |-> NULL, next |-> NULL, data |-> d]
  BY <1>1, <1>2, NodeFilled
<1> QED
  BY <1>1, <1>2, <1>3 DEF LinksIn, FrontMoves

LEMMA LastLinked ==
    ASSUME NEW c, Sound(c), NEW n \in Nodes, NEW d \in Data, CountIn(n), LinkLast(n, d)
    PROVE  LinksIn(c, abs_length + 1, n, d) /\ FrontMoves(abs_length + 1, n)
<1> DEFINE m == abs_length
<1>1. /\ EzTypeOK /\ Lists(c) /\ LinkedAs(c)
      /\ m \in Nat /\ m > 0 /\ length \in Nat /\ node \in NodeMaps /\ NULL \in Pointers
      /\ n \notin live /\ live \subseteq Nodes
  BY DEF Sound, EzTypeOK, LinkLast, CountIn, Pointers
<1>2. m \in 1 .. m /\ back = c[m] /\ node[back].next = NULL /\ back \in live
  BY <1>1 DEF LinkedAs, Lists
<1> DEFINE held == Holding(node, n, back, NULL, d)
<1>3. node' = SetNext(held, back, n) /\ back' = n /\ abs_front' = abs_front
      /\ front' = (IF length = 0 THEN n ELSE front)
  <2>1. SetPrev(held, NULL, n) = held
    BY DEF SetPrev
  <2> QED
    BY <1>2, <2>1 DEF LinkLast
<1>4. n # back /\ back \in Nodes /\ back \in Pointers /\ n \in Pointers
  BY <1>1, <1>2 DEF Pointers
<1>5. /\ held \in NodeMaps /\ held[n] = [prev |-> back, next |-> NULL, data |-> d]
      /\ \A x \in Nodes : x # n => held[x] = node[x]
  BY <1>1, <1>4, NodeFilled
<1> HIDE DEF held
<1>6. /\ node' \in NodeMaps
      /\ \A x \in Nodes : /\ node'[x].next = IF x = back THEN n ELSE held[x].next
                          /\ node'[x].prev = held[x].prev /\ node'[x].data = held[x].data
  BY <1>3, <1>4, <1>5, NextSet
<1> HIDE DEF m
<1>7. ASSUME NEW x \in live
      PROVE  /\ node'[x].data = node[x].data /\ node'[x].prev = node[x].prev
             /\ node'[x].next = IF x = c[m] THEN n ELSE node[x].next
  BY <1>1, <1>2, <1>5, <1>6
<1>8. node'[n].data = d /\ node'[n].next = NULL /\ node'[n].prev = c[m]
  BY <1>1, <1>2, <1>4, <1>5, <1>6
<1>9. m + 1 \in 1 .. m + 1 /\ ~ (m + 1 <= m) /\ m + 1 > 1 /\ m + 1 # 1 /\ (m + 1) - 1 = m
  BY <1>1
<1>10. LinksIn(c, m + 1, n, d)
  BY <1>1, <1>3, <1>6, <1>7, <1>8, <1>9 DEF LinksIn, m
<1>11. FrontMoves(m + 1, n)
  BY <1>1, <1>3 DEF FrontMoves, m
<1> QED
  BY <1>10, <1>11 DEF m

LEMMA FrontLinked ==
    ASSUME NEW c, Sound(c), NEW n \in Nodes, NEW d \in Data, CountIn(n), LinkFront(n, d),
           KeepsItems
    PROVE  /\ LinksIn(c, abs_length - length + 1, n, d)
           /\ FrontMoves(abs_length - length + 1, n)
<1> DEFINE m == abs_length
           k == abs_length - length + 1
<1>1. /\ EzTypeOK /\ Lists(c) /\ LinkedAs(c) /\ FrontAt(c)
      /\ m \in Nat /\ length \in Nat /\ length > 0 /\ length <= m
      /\ node \in NodeMaps /\ n \notin live /\ live \subseteq Nodes
  BY DEF Sound, EzTypeOK, LinkFront, CountIn, FrontAt
<1>2. k \in 1 .. m /\ m > 0 /\ front = c[k] /\ abs_front = c[1] /\ 1 \in 1 .. m
  BY <1>1 DEF FrontAt, LinkedAs
<1> DEFINE before == node[front].prev
           linked == Holding(node, n, before, front, d)
<1>3. /\ node' = SetPrev(IF front = abs_front THEN linked ELSE SetNext(linked, before, n), front, n)
      /\ abs_front' = (IF front = abs_front THEN n ELSE abs_front) /\ front' = n /\ back' = back
  BY DEF LinkFront
<1>4. front \in live /\ front \in Nodes /\ n # front /\ before \in Pointers /\ front \in Pointers
      /\ n \in Pointers
  BY <1>1, <1>2 DEF Lists, NodeMaps, Pointers
<1> HIDE DEF k
<1>5. /\ front = abs_front <=> k = 1
      /\ k > 1 => before = c[k - 1] /\ k - 1 \in 1 .. m
      /\ k = 1 /\ "cleanQueue" \notin use => before = NULL
  <2>1. front = abs_front <=> k = 1
    BY <1>1, <1>2 DEF Lists
  <2>2. /\ k > 1 => node[c[k]].prev = c[k - 1]
        /\ k = 1 /\ "cleanQueue" \notin use => node[c[k]].prev = NULL
    BY <1>1, <1>2, NextTo
  <2> QED
    BY <1>1, <1>2, <2>1, <2>2
<1> HIDE DEF before, m
<1>6. /\ linked \in NodeMaps /\ linked[n] = [prev |-> before, next |-> front, data |-> d]
      /\ \A x \in Nodes : x # n => linked[x] = node[x]
  BY <1>1, <1>4, NodeFilled
<1> HIDE DEF linked
<1> DEFINE ahead == IF front = abs_front THEN linked ELSE SetNext(linked, before, n)
<1>7. /\ ahead \in NodeMaps
      /\ \A x \in Nodes : /\ ahead[x].next = IF front # abs_front /\ x = before THEN n ELSE linked[x].next
                          /\ ahead[x].prev = linked[x].prev /\ ahead[x].data = linked[x].data
  <2>1. CASE front = abs_front
    BY <1>6, <2>1
  <2>2. CASE front # abs_front
    <3>1. ahead = SetNext(linked, before, n)
      BY <2>2
    <3>2. /\ SetNext(linked, before, n) \in NodeMaps
          /\ \A x \in Nodes :
                /\ SetNext(linked, before, n)[x].next = IF x = before THEN n ELSE linked[x].next
                /\ SetNext(linked, before, n)[x].prev = linked[x].prev
                /\ SetNext(linked, before, n)[x].data = linked[x].data
      BY <1>4, <1>6, NextSet
    <3> HIDE DEF ahead
    <3> QED
      BY <2>2, <3>1, <3>2
  <2> QED
    BY <2>1, <2>2
<1>8. node' = SetPrev(ahead, front, n)
  BY <1>3
<1> HIDE DEF ahead
<1>9. /\ node' \in NodeMaps
      /\ \A x \in Nodes : /\ node'[x].prev = IF x = front THEN n ELSE ahead[x].prev
                          /\ node'[x].next = ahead[x].next /\ node'[x].data = ahead[x].data
  <2>1. ahead \in NodeMaps
    BY <1>7
  <2>2. /\ SetPrev(ahead, front, n) \in NodeMaps
        /\ \A x \in Nodes : /\ SetPrev(ahead, front, n)[x].prev = IF x = front THEN n ELSE ahead[x].prev
                            /\ SetPrev(ahead, front, n)[x].next = ahead[x].next
                            /\ SetPrev(ahead, front, n)[x].data = ahead[x].data
    BY <1>4, <2>1, PrevSet
  <2> QED
    BY <1>8, <2>2
<1>10. ASSUME NEW x \in live
       PROVE  /\ node'[x].data = node[x].data
              /\ node'[x].next = IF k > 1 /\ x = c[k - 1] THEN n ELSE node[x].next
              /\ node'[x].prev = IF x = c[k] THEN n ELSE node[x].prev
  <2>1. x \in Nodes /\ x # n
    BY <1>1
  <2>2. /\ node'[x].data = node[x].data
        /\ node'[x].next = IF front # abs_front /\ x = before THEN n ELSE node[x].next
        /\ node'[x].prev = IF x = front THEN n ELSE node[x].prev
    BY <1>6, <1>7, <1>9, <2>1
  <2>3. (front # abs_front /\ x = before) <=> (k > 1 /\ x = c[k - 1])
    BY <1>1, <1>2, <1>5
  <2> QED
    BY <1>2, <2>2, <2>3
<1>11. /\ node'[n].data = d /\ node'[n].next = c[k]
       /\ k > 1 => node'[n].prev = c[k - 1]
       /\ k = 1 /\ "cleanQueue" \notin use => node'[n].prev = NULL
  <2>1. k > 1 => c[k - 1] \in live
    BY <1>1, <1>5 DEF Lists, m
  <2>2. ~ (front # abs_front /\ n = before)
    BY <1>1, <1>2, <1>5, <2>1
  <2>3. node'[n].data = d /\ node'[n].next = front /\ node'[n].prev = before
    BY <1>4, <1>6, <1>7, <1>9, <2>2
  <2> QED
    BY <1>2, <1>5, <2>3
<1>12. k \in 1 .. m + 1 /\ k <= m /\ k # m + 1
  BY <1>1, <1>2
<1>13. LinksIn(c, k, n, d)
  BY <1>3, <1>5, <1>9, <1>10, <1>11, <1>12 DEF LinksIn, m
<1>14. FrontMoves(k, n)
  BY <1>1, <1>3 DEF FrontMoves, k
<1> QED
  BY <1>13, <1>14 DEF k

LEMMA EnqueueSafe ==
    ASSUME NEW c, Sound(c), NEW n \in Nodes, NEW d \in Data, enqueue(n, d)
    PROVE  \E e : /\ e = With(c, abs_length, abs_length + 1, n)
                  /\ LinksIn(c, abs_length + 1, n, d) /\ Sound(e)'
<1>1. CountIn(n) /\ (LinkFirst(n, d) \/ LinkLast(n, d))
  BY DEF enqueue
<1>2. LinksIn(c, abs_length + 1, n, d) /\ FrontMoves(abs_length + 1, n)
  BY <1>1, FirstLinked, LastLinked
<1>3. PICK e : e = With(c, abs_length, abs_length + 1, n)
  OBVIOUS
<1>4. Sound(e)'
  BY <1>2, <1>3, PutSafe
<1> QED
  BY <1>2, <1>3, <1>4

LEMMA PriorityEnqueueSafe ==
    ASSUME NEW c, Sound(c), NEW n \in Nodes, NEW d \in Data, priorityEnqueue(n, d)
    PROVE  /\ KeepsItems
           /\ \E e : /\ e = With(c, abs_length, abs_length - length + 1, n)
                     /\ LinksIn(c, abs_length - length + 1, n, d) /\ Sound(e)'
<1>1. /\ CountIn(n) /\ "priorityEnqueue" \in use /\ use \in Uses
      /\ length \in Nat /\ abs_length \in Nat /\ length <= abs_length
  BY DEF priorityEnqueue, Sound, EzTypeOK, FrontAt
<1>2. KeepsItems
  BY <1>1, QueueAssumption DEF KeepsItems
<1> DEFINE k == abs_length - length + 1
<1>3. LinksIn(c, k, n, d) /\ FrontMoves(k, n)
  <2>1. CASE LinkFirst(n, d) \/ (length = 0 /\ LinkLast(n, d))
    <3>1. LinksIn(c, abs_length + 1, n, d) /\ FrontMoves(abs_length + 1, n)
      BY <1>1, <2>1, FirstLinked, LastLinked
    <3>2. length = 0
      BY <1>1, <2>1 DEF LinkFirst
    <3>3. k = abs_length + 1
      BY <1>1, <3>2
    <3> HIDE DEF k
    <3> QED
      BY <3>1, <3>3
  <2>2. CASE LinkFront(n, d)
    BY <1>1, <1>2, <2>2, FrontLinked
  <2> QED
    BY <2>1, <2>2 DEF priorityEnqueue
<1> HIDE DEF k
<1>4. PICK e : e = With(c, abs_length, k, n)
  OBVIOUS
<1>5. Sound(e)'
  BY <1>3, <1>4, PutSafe
<1> QED
  BY <1>2, <1>3, <1>4, <1>5 DEF k

-----------------------------------------------------------------------------
(* The calls that move front and leave the chain as it is.                 *)
LEMMA ChainKept ==
    ASSUME NEW c, Sound(c), UNCHANGED <<use, live, node, abs_front, back, abs_length>>
    PROVE  Lists(c)' /\ LinkedAs(c)'
BY DEF Sound, Lists, LinkedAs

LEMMA WalkKept ==
    ASSUME NEW c, Sound(c), UNCHANGED <<use, abs_length, walkVars>>
    PROVE  WalkAt(c)'
BY DEF Sound, WalkAt, walkVars, KeepsItems

LEMMA DequeueSafe ==
    ASSUME NEW c, Sound(c), dequeue
    PROVE  Sound(c)'
<1> DEFINE m == abs_length
<1>1. /\ EzTypeOK /\ Lists(c) /\ LinkedAs(c) /\ FrontAt(c) /\ node \in NodeMaps
      /\ m \in Nat /\ length \in Nat /\ length <= m
  BY DEF Sound, EzTypeOK, FrontAt
<1>2. UNCHANGED <<use, live, node, abs_front, back, abs_length, walkVars>>
  BY DEF dequeue
<1>3. Lists(c)' /\ LinkedAs(c)' /\ WalkAt(c)'
  BY <1>2, ChainKept, WalkKept DEF walkVars
<1>4. CASE SomethingLeft
  <2>1. /\ front # NULL /\ length > 0
        /\ out' = node[front].data /\ front' = node[front].next /\ length' = length - 1
    BY <1>4 DEF dequeue, SomethingLeft
  <2>2. PICK i \in 1 .. m : front = c[i] /\ (KeepsItems => i = m - length + 1)
    <3>1. CASE KeepsItems
      <4>1. m - length + 1 \in 1 .. m /\ front = c[m - length + 1]
        BY <1>1, <2>1, <3>1 DEF FrontAt
      <4> QED
        BY <4>1
    <3>2. CASE ~ KeepsItems
      BY <1>1, <2>1, <3>2 DEF FrontAt
    <3> QED
      BY <3>1, <3>2
  <2>3. front' = IF i < m THEN c[i + 1] ELSE NULL
    BY <1>1, <2>1, <2>2, NextTo
  <2>4. front \in Nodes /\ front' \in Pointers /\ out' \in Data \cup {NULL}
    BY <1>1, <2>1, <2>2, PlaceOf DEF NodeMaps
  <2>5. i + 1 \in 1 .. m \/ i = m
    BY <1>1
  <2>6. FrontAt(c)'
    <3>1. front' = NULL \/ \E j \in 1 .. m : front' = c[j]
      BY <2>3, <2>5
    <3>2. length - 1 <= m /\ m # 0
      BY <1>1
    <3>3. ASSUME KeepsItems, length - 1 > 0 PROVE front' = c[m - (length - 1) + 1]
      <4>1. i < m /\ i + 1 = m - (length - 1) + 1
        BY <1>1, <2>2, <3>3
      <4> QED
        BY <2>3, <4>1
    <3>4. ASSUME KeepsItems, length - 1 = 0 PROVE front' = NULL
      <4>1. ~ (i < m)
        BY <1>1, <2>2, <3>4
      <4> QED
        BY <2>3, <4>1
    <3>5. KeepsItems' <=> KeepsItems
      BY <1>2 DEF KeepsItems
    <3> QED
      BY <1>1, <1>2, <2>1, <3>1, <3>2, <3>3, <3>4, <3>5 DEF FrontAt
  <2>7. EzTypeOK'
    BY <1>1, <1>2, <2>1, <2>4 DEF EzTypeOK, walkVars
  <2> QED
    BY <1>3, <2>6, <2>7 DEF Sound
<1>5. CASE ~ SomethingLeft
  <2>1. out' = NULL /\ front' = front /\ length' = length
    BY <1>5 DEF dequeue
  <2>2. EzTypeOK' /\ FrontAt(c)'
    BY <1>1, <1>2, <2>1 DEF EzTypeOK, FrontAt, walkVars, KeepsItems
  <2> QED
    BY <1>3, <2>2 DEF Sound
<1> QED
  BY <1>4, <1>5

LEMMA PeekSafe ==
    ASSUME NEW c, Sound(c), peekQueue
    PROVE  Sound(c)'
<1>1. EzTypeOK /\ Lists(c) /\ LinkedAs(c) /\ FrontAt(c) /\ node \in NodeMaps
  BY DEF Sound, EzTypeOK
<1>2. UNCHANGED <<use, live, node, abs_front, front, back, length, abs_length, walkVars>>
  BY DEF peekQueue, chainVars
<1>3. Lists(c)' /\ LinkedAs(c)' /\ WalkAt(c)'
  BY <1>2, ChainKept, WalkKept
<1>4. FrontAt(c)'
  BY <1>1, <1>2 DEF FrontAt, KeepsItems
<1>5. out' \in Data \cup {NULL}
  <2>1. PICK end \in {front, back} : out' = IF SomethingLeft THEN node[end].data ELSE NULL
    BY DEF peekQueue
  <2>2. CASE SomethingLeft
    <3>1. PICK i \in 1 .. abs_length : front = c[i]
      BY <1>1, <2>2 DEF SomethingLeft, FrontAt
    <3>2. abs_length \in 1 .. abs_length /\ back = c[abs_length]
      BY <1>1 DEF EzTypeOK, LinkedAs
    <3>3. end \in Nodes
      BY <1>1, <3>1, <3>2, PlaceOf
    <3> QED
      BY <1>1, <2>1, <2>2, <3>3 DEF NodeMaps
  <2>3. CASE ~ SomethingLeft
    BY <2>1, <2>3
  <2> QED
    BY <2>2, <2>3
<1>6. EzTypeOK'
  BY <1>1, <1>2, <1>5 DEF EzTypeOK, walkVars
<1> QED
  BY <1>3, <1>4, <1>6 DEF Sound

LEMMA ResetSafe ==
    ASSUME NEW c, Sound(c), resetQueue
    PROVE  Sound(c)'
<1>1. EzTypeOK /\ Lists(c) /\ LinkedAs(c) /\ FrontAt(c) /\ abs_length \in Nat
  BY DEF Sound, EzTypeOK
<1>2. /\ UNCHANGED <<use, live, node, abs_front, back, abs_length, walkVars, out>>
      /\ front' = back /\ length' = 0 /\ (back = NULL \/ abs_length > 0)
  BY DEF resetQueue
<1>3. Lists(c)' /\ LinkedAs(c)' /\ WalkAt(c)'
  BY <1>2, ChainKept, WalkKept
<1>4. abs_length > 0 => abs_length \in 1 .. abs_length /\ back = c[abs_length]
  BY <1>1 DEF LinkedAs
<1>5. FrontAt(c)'
  BY <1>1, <1>2, <1>4 DEF FrontAt, KeepsItems
<1>6. EzTypeOK'
  BY <1>1, <1>2 DEF EzTypeOK, walkVars
<1> QED
  BY <1>3, <1>5, <1>6 DEF Sound

LEMMA RestartSafe ==
    ASSUME NEW c, Sound(c), restartQueue
    PROVE  Sound(c)'
<1> DEFINE m == abs_length
<1>1. EzTypeOK /\ Lists(c) /\ LinkedAs(c) /\ FrontAt(c) /\ m \in Nat
  BY DEF Sound, EzTypeOK
<1>2. /\ UNCHANGED <<use, live, node, abs_front, back, abs_length, walkVars, out>>
      /\ front' = abs_front /\ length' = m
  BY DEF restartQueue
<1>3. Lists(c)' /\ LinkedAs(c)' /\ WalkAt(c)'
  BY <1>2, ChainKept, WalkKept
<1>4. /\ m > 0 => 1 \in 1 .. m /\ abs_front = c[1]
      /\ m = 0 => abs_front = NULL
      /\ m - m + 1 = 1
  BY <1>1 DEF LinkedAs, FrontAt
<1>5. FrontAt(c)'
  BY <1>1, <1>2, <1>4 DEF FrontAt
<1>6. EzTypeOK'
  BY <1>1, <1>2 DEF EzTypeOK, walkVars
<1> QED
  BY <1>3, <1>5, <1>6 DEF Sound

-----------------------------------------------------------------------------
(* The calls that free nodes.                                              *)
LEMMA FreedNodes ==
    ASSUME EzTypeOK, NEW ns, Free(ns)
    PROVE  /\ live' = live \ ns /\ node' \in NodeMaps
           /\ \A x \in Nodes \ ns : node'[x] = node[x]
<1>1. Blank \in [prev : Pointers, next : Pointers, data : Data \cup {NULL}]
  BY DEF Blank, Pointers
<1>2. \A x \in Nodes : node[x] \in [prev : Pointers, next : Pointers, data : Data \cup {NULL}]
  BY DEF EzTypeOK, NodeMaps
<1>3. live' = live \ ns /\ node' = [n \in Nodes |-> IF n \in ns THEN Blank ELSE node[n]]
  BY DEF Free
<1> QED
  BY <1>1, <1>2, <1>3 DEF NodeMaps

LEMMA FlushSafe ==
    ASSUME NEW c, Sound(c), flushQueue
    PROVE  \E e : Sound(e)'
<1>1. EzTypeOK /\ Lists(c) /\ LinkedAs(c) /\ abs_length \in Nat
  BY DEF Sound, EzTypeOK
<1>2. /\ Free({Chain[i] : i \in 1 .. abs_length}) /\ ~ walking
      /\ abs_front' = NULL /\ front' = NULL /\ back' = NULL /\ traverse_front' = NULL
      /\ length' = 0 /\ abs_length' = 0
      /\ UNCHANGED <<use, traverse_length, walking, out>>
  BY DEF flushQueue
<1>3. live \subseteq {Chain[i] : i \in 1 .. abs_length}
  BY <1>1, ChainIs DEF Lists
<1>4. live' = {} /\ node' \in NodeMaps
  BY <1>1, <1>2, <1>3, FreedNodes
<1>5. PICK e : e = <<>>
  OBVIOUS
<1>6. Lists(e)' /\ LinkedAs(e)'
  <2>1. 1 .. 0 = {} /\ 2 .. 0 = {} /\ e \in [{} -> {}]
    BY <1>5
  <2> QED
    BY <1>2, <1>4, <2>1 DEF Lists, LinkedAs
<1>7. FrontAt(e)' /\ WalkAt(e)'
  BY <1>2 DEF FrontAt, WalkAt
<1>8. EzTypeOK'
  BY <1>1, <1>2, <1>4 DEF EzTypeOK, Pointers
<1> QED
  BY <1>6, <1>7, <1>8 DEF Sound

(* The nodes from the k-th on.                                             *)
From(c, m, k) == [j \in 1 .. m - k + 1 |-> c[j + k - 1]]

LEMMA CleanSafe ==
    ASSUME NEW c, Sound(c), cleanQueue
    PROVE  /\ KeepsItems
           /\ \/ front = NULL /\ length = 0 /\ abs_length' = 0 /\ Sound(<<>>)'
              \/ \E k \in 1 .. abs_length : \E e :
                    /\ e = From(c, abs_length, k) /\ abs_length' = abs_length - k + 1
                    /\ \A j \in 1 .. abs_length - k + 1 : node'[e[j]] = node[e[j]]
                    /\ length > 0 => k = abs_length - length + 1
                    /\ length = 0 => k = abs_length
                    /\ Sound(e)'
<1> DEFINE m == abs_length
<1>1. /\ EzTypeOK /\ Lists(c) /\ LinkedAs(c) /\ FrontAt(c) /\ WalkAt(c)
      /\ m \in Nat /\ length \in Nat /\ length <= m /\ use \in Uses /\ live \subseteq Nodes
  BY DEF Sound, EzTypeOK, FrontAt
<1>2. /\ "cleanQueue" \in use /\ Free(Passed) /\ abs_front' = front
      /\ abs_length' = m - Cardinality(Passed)
      /\ UNCHANGED <<use, front, back, length, walkVars, out>>
  BY DEF cleanQueue
<1>3. KeepsItems /\ ~ walking
  BY <1>1, <1>2, QueueAssumption DEF KeepsItems, WalkAt
<1>4. KeepsItems' /\ ~ walking' /\ "cleanQueue" \in use'
  BY <1>2, <1>3 DEF KeepsItems, walkVars
<1>5. live' = live \ Passed /\ node' \in NodeMaps /\ \A x \in Nodes \ Passed : node'[x] = node[x]
  BY <1>1, <1>2, FreedNodes
<1>6. ASSUME abs_length' \in Nat PROVE EzTypeOK'
  BY <1>1, <1>2, <1>5, <1>6 DEF EzTypeOK, walkVars
<1>7. \A e : WalkAt(e)'
  BY <1>4 DEF WalkAt
<1>8. Chain = c
  BY <1>1, ChainIs
<1>9. CASE front = NULL
  <2>1. Passed = {c[i] : i \in 1 .. m}
    BY <1>8, <1>9 DEF Passed
  <2>2. live \subseteq {c[i] : i \in 1 .. m} /\ {c[i] : i \in 1 .. m} \subseteq live
    BY <1>1 DEF Lists
  <2>3. Passed = live
    BY <2>1, <2>2
  <2>4. abs_length' = 0 /\ live' = {}
    BY <1>1, <1>2, <1>5, <2>3, HowMany
  <2>5. length = 0
    <3> SUFFICES ASSUME length > 0 PROVE FALSE
      BY <1>1
    <3>1. m - length + 1 \in 1 .. m /\ front = c[m - length + 1]
      BY <1>1, <1>3 DEF FrontAt
    <3> QED
      BY <1>1, <1>9, <3>1, PlaceOf
  <2>6. Lists(<<>>)' /\ LinkedAs(<<>>)'
    <3>1. 1 .. 0 = {} /\ 2 .. 0 = {} /\ <<>> \in [{} -> {}]
      OBVIOUS
    <3> QED
      BY <2>4, <3>1 DEF Lists, LinkedAs
  <2>7. FrontAt(<<>>)'
    BY <1>2, <1>9, <2>4, <2>5 DEF FrontAt
  <2>8. EzTypeOK'
    BY <1>6, <2>4
  <2> QED
    BY <1>3, <1>7, <1>9, <2>4, <2>5, <2>6, <2>7, <2>8 DEF Sound
<1>10. CASE front # NULL
  <2>1. PICK k \in 1 .. m : front = c[k]
    BY <1>1, <1>10 DEF FrontAt
  <2>2. /\ length > 0 => k = m - length + 1
        /\ length = 0 => k = m
    <3>1. \A j \in 1 .. m : c[j] = front => j = k
      BY <1>1, <2>1 DEF Lists
    <3>2. /\ length > 0 => m - length + 1 \in 1 .. m /\ front = c[m - length + 1]
          /\ length = 0 => m \in 1 .. m /\ front = c[m]
      BY <1>1, <1>3, <1>10, <2>1 DEF FrontAt
    <3> QED
      BY <3>1, <3>2
  <2>3. Passed = {c[i] : i \in 1 .. k - 1}
    BY <1>1, <1>8, <1>10, <2>1, PlaceOf DEF Passed
  <2>4. k - 1 \in Nat /\ (\A i \in 1 .. k - 1 : i \in 1 .. m)
    BY <1>1
  <2> DEFINE p == [i \in 1 .. k - 1 |-> c[i]]
  <2>5. Cardinality(Passed) = k - 1
    <3>1. p \in [1 .. k - 1 -> Passed]
      BY <2>3
    <3>2. \A i, j \in 1 .. k - 1 : p[i] = p[j] => i = j
      BY <1>1, <2>4 DEF Lists
    <3>3. \A x \in Passed : \E i \in 1 .. k - 1 : p[i] = x
      BY <2>3
    <3> HIDE DEF p
    <3> QED
      BY <2>4, <3>1, <3>2, <3>3, CountedBy
  <2>6. PICK e : e = From(c, m, k)
    OBVIOUS
  <2> DEFINE r == m - k + 1
  <2>7. abs_length' = r /\ r \in Nat /\ r > 0
    BY <1>1, <1>2, <2>5
  <2> HIDE DEF r
  <2>8. ASSUME NEW j \in 1 .. r
        PROVE  /\ j + k - 1 \in 1 .. m /\ j + k - 1 >= k /\ e[j] = c[j + k - 1]
               /\ e[j] \in live /\ e[j] \notin Passed /\ node'[e[j]] = node[e[j]]
    <3>1. j + k - 1 \in 1 .. m /\ j + k - 1 >= k
      BY <1>1 DEF r
    <3>2. e[j] = c[j + k - 1]
      BY <2>6 DEF From, r
    <3> DEFINE i == j + k - 1
    <3>3. i \in 1 .. m /\ i >= k /\ e[j] = c[i]
      BY <3>1, <3>2
    <3> HIDE DEF i
    <3>4. c[i] \in live /\ c[i] \notin Passed
      BY <1>1, <2>3, <2>4, <3>3 DEF Lists
    <3> QED
      BY <1>1, <1>5, <3>1, <3>2, <3>3, <3>4
  <2>9. Lists(e)'
    <3>1. e \in [1 .. r -> live']
      <4>1. e = [j \in 1 .. r |-> e[j]]
        BY <2>6 DEF From, r
      <4>2. \A j \in 1 .. r : e[j] \in live'
        BY <1>5, <2>8
      <4> QED
        BY <4>1, <4>2
    <3>2. ASSUME NEW i \in 1 .. r, NEW j \in 1 .. r, e[i] = e[j] PROVE i = j
      <4>1. i + k - 1 = j + k - 1
        BY <1>1, <2>8, <3>2 DEF Lists
      <4> QED
        BY <4>1
    <3>3. ASSUME NEW x \in live' PROVE \E j \in 1 .. r : e[j] = x
      <4>1. PICK i \in 1 .. m : c[i] = x
        BY <1>1, <1>5 DEF Lists
      <4>2. i \notin 1 .. k - 1
        BY <1>5, <2>3, <4>1
      <4>3. i - k + 1 \in 1 .. r /\ (i - k + 1) + k - 1 = i
        BY <1>1, <4>2 DEF r
      <4> QED
        BY <2>8, <4>1, <4>3
    <3> QED
      BY <2>7, <3>1, <3>2, <3>3 DEF Lists
  <2>10. 1 \in 1 .. r /\ r \in 1 .. r /\ 1 + k - 1 = k /\ r + k - 1 = m
    BY <1>1, <2>7 DEF r
  <2>11. e[1] = c[k] /\ e[r] = c[m]
    BY <2>8, <2>10
  <2>12. LinkedAs(e)'
    <3>1. front = e[1] /\ back = e[r] /\ node'[e[r]].next = NULL
      <4>1. m > 0 /\ back = c[m] /\ node[c[m]].next = NULL
        BY <1>1 DEF LinkedAs
      <4> QED
        BY <2>1, <2>8, <2>10, <2>11, <4>1
    <3>2. ASSUME NEW j \in 2 .. r PROVE node'[e[j - 1]].next = e[j] /\ node'[e[j]].prev = e[j - 1]
      <4>1. j \in 1 .. r /\ j - 1 \in 1 .. r /\ j + k - 1 \in 2 .. m /\ (j - 1) + k - 1 = (j + k - 1) - 1
        BY <1>1, <2>7 DEF r
      <4> DEFINE i == j + k - 1
      <4>2. e[j] = c[i] /\ e[j - 1] = c[i - 1] /\ i \in 2 .. m
        BY <2>8, <4>1
      <4> HIDE DEF i
      <4>3. node[c[i - 1]].next = c[i] /\ node[c[i]].prev = c[i - 1]
        BY <1>1, <4>2 DEF LinkedAs
      <4> QED
        BY <2>8, <4>1, <4>2, <4>3
    <3> QED
      BY <1>2, <1>4, <2>7, <3>1, <3>2 DEF LinkedAs
  <2>13. FrontAt(e)'
    <3>1. length <= r /\ (length > 0 => r - length + 1 = 1) /\ (length = 0 => r = 1) /\ r # 0
      BY <1>1, <2>2, <2>7 DEF r
    <3> QED
      BY <1>2, <2>1, <2>7, <2>10, <2>11, <3>1 DEF FrontAt
  <2>14. EzTypeOK'
    BY <1>6, <2>7
  <2>15. Sound(e)'
    BY <1>7, <2>9, <2>12, <2>13, <2>14 DEF Sound
  <2>16. e = From(c, m, k) /\ abs_length' = m - k + 1 /\ \A j \in 1 .. m - k + 1 : node'[e[j]] = node[e[j]]
    BY <2>6, <2>7, <2>8 DEF r
  <2> QED
    BY <1>3, <2>2, <2>15, <2>16
<1> QED
  BY <1>9, <1>10

-----------------------------------------------------------------------------
(* The steps of a traversal.                                               *)
LEMMA StartWalkSafe ==
    ASSUME NEW c, Sound(c), initTraversal \/ initAbsTraversal
    PROVE  Sound(c)'
<1> DEFINE m == abs_length
<1>1. /\ EzTypeOK /\ Lists(c) /\ LinkedAs(c) /\ FrontAt(c)
      /\ m \in Nat /\ length \in Nat /\ length <= m
  BY DEF Sound, EzTypeOK, FrontAt
<1>2. /\ "traverse" \in use /\ UNCHANGED <<use, chainVars, out>> /\ walking'
      /\ walking' \in BOOLEAN
      /\ \/ traverse_front' = front /\ traverse_length' = length
         \/ traverse_front' = abs_front /\ traverse_length' = m
  BY DEF initTraversal, initAbsTraversal
<1>3. Lists(c)' /\ LinkedAs(c)'
  BY <1>2, ChainKept DEF chainVars
<1>4. FrontAt(c)'
  BY <1>1, <1>2 DEF FrontAt, KeepsItems, chainVars
<1>5. m <= SizeRange - 1 /\ SizeRange \in Nat
  BY <1>1, HowMany
<1>6. EzTypeOK'
  BY <1>1, <1>2, <1>5 DEF EzTypeOK, chainVars
<1>7. m > 0 => 1 \in 1 .. m /\ abs_front = c[1]
  BY <1>1 DEF LinkedAs
<1>8. /\ traverse_front' = NULL \/ \E i \in 1 .. m : traverse_front' = c[i]
      /\ KeepsItems /\ traverse_length' > 0 =>
            \E i \in 1 .. m : traverse_front' = c[i] /\ i + traverse_length' - 1 <= m
  <2>1. CASE traverse_front' = front /\ traverse_length' = length
    <3>1. ASSUME KeepsItems, length > 0
          PROVE  \E i \in 1 .. m : front = c[i] /\ i + length - 1 <= m
      <4>1. m - length + 1 \in 1 .. m /\ (m - length + 1) + length - 1 <= m
        BY <1>1, <3>1
      <4> QED
        BY <1>1, <3>1, <4>1 DEF FrontAt
    <3> QED
      BY <1>1, <2>1, <3>1 DEF FrontAt
  <2>2. CASE traverse_front' = abs_front /\ traverse_length' = m
    <3>1. m > 0 => 1 + m - 1 <= m
      BY <1>1
    <3>2. m = 0 => abs_front = NULL
      BY <1>1 DEF FrontAt
    <3> QED
      BY <1>1, <1>7, <2>2, <3>1, <3>2
  <2> QED
    BY <1>2, <2>1, <2>2
<1>9. WalkAt(c)'
  BY <1>2, <1>8 DEF WalkAt, KeepsItems, chainVars
<1> QED
  BY <1>3, <1>4, <1>6, <1>9 DEF Sound

LEMMA WalkOnSafe ==
    ASSUME NEW c, Sound(c), traverseQueue
    PROVE  Sound(c)'
<1> DEFINE m == abs_length
           w == traverse_length
<1>1. /\ EzTypeOK /\ Lists(c) /\ LinkedAs(c) /\ FrontAt(c) /\ WalkAt(c)
      /\ m \in Nat /\ w \in 0 .. SizeRange - 1 /\ SizeRange \in Nat
  BY QueueAssumption DEF Sound, EzTypeOK
<1>2. walking /\ LoopGoesOn /\ UNCHANGED <<use, chainVars, walking, out>>
  BY DEF traverseQueue
<1>3. Lists(c)' /\ LinkedAs(c)' /\ FrontAt(c)'
  BY <1>1, <1>2, ChainKept DEF FrontAt, KeepsItems, chainVars
<1>4. CASE traverse_front = NULL
  <2>1. traverse_front' = traverse_front /\ traverse_length' = w
    BY <1>4 DEF traverseQueue
  <2>2. WalkAt(c)' /\ EzTypeOK'
    BY <1>1, <1>2, <2>1 DEF WalkAt, EzTypeOK, KeepsItems, chainVars
  <2> QED
    BY <1>3, <2>2 DEF Sound
<1>5. CASE traverse_front # NULL
  <2>1. traverse_front' = node[traverse_front].next /\ traverse_length' = SizeOf(w - 1)
    BY <1>5 DEF traverseQueue
  <2>2. PICK i \in 1 .. m : traverse_front = c[i]
    BY <1>1, <1>2, <1>5 DEF WalkAt
  <2>3. traverse_front' = (IF i < m THEN c[i + 1] ELSE NULL) /\ (i < m => i + 1 \in 1 .. m)
    BY <1>1, <2>1, <2>2, NextTo
  <2>4. traverse_front' \in Pointers
    BY <1>1, <2>3, PlaceOf DEF Pointers
  <2> HIDE DEF w
  <2>5. traverse_length' \in 0 .. SizeRange - 1 /\ (w > 0 => traverse_length' = w - 1)
    BY <1>1, <2>1 DEF SizeOf
  <2>6. EzTypeOK'
    BY <1>1, <1>2, <2>4, <2>5 DEF EzTypeOK, chainVars
  <2>7. ASSUME KeepsItems, traverse_length' > 0
        PROVE  \E j \in 1 .. m : traverse_front' = c[j] /\ j + traverse_length' - 1 <= m
    <3>1. w > 0 /\ traverse_length' = w - 1
      BY <1>1, <1>2, <2>5, <2>7 DEF LoopGoesOn, KeepsItems, w
    <3>2. PICK j \in 1 .. m : traverse_front = c[j] /\ j + w - 1 <= m
      BY <1>1, <1>2, <2>7, <3>1 DEF WalkAt, w
    <3>3. i = j
      BY <1>1, <2>2, <3>2 DEF Lists
    <3>4. i < m /\ (i + 1) + (w - 1) - 1 <= m
      BY <1>1, <2>7, <3>1, <3>2, <3>3
    <3> QED
      BY <2>3, <3>1, <3>4
  <2>8. traverse_front' = NULL \/ \E j \in 1 .. m : traverse_front' = c[j]
    BY <2>3
  <2>9. WalkAt(c)'
    BY <1>1, <1>2, <2>7, <2>8 DEF WalkAt, KeepsItems, chainVars
  <2> QED
    BY <1>3, <2>6, <2>9 DEF Sound
<1> QED
  BY <1>4, <1>5

LEMMA StopSafe ==
    ASSUME NEW c, Sound(c), StopTraversal
    PROVE  Sound(c)'
<1>1. UNCHANGED <<use, chainVars, traverse_front, traverse_length, out>> /\ walking' = FALSE
  BY DEF StopTraversal
<1>2. Lists(c)' /\ LinkedAs(c)'
  BY <1>1, ChainKept DEF chainVars
<1> QED
  BY <1>1, <1>2 DEF Sound, EzTypeOK, FrontAt, WalkAt, KeepsItems, chainVars

(* A node is taken out: c without its k-th.                                *)
Without(c, m, k) == [j \in 1 .. m - 1 |-> IF j < k THEN c[j] ELSE c[j + 1]]

LEMMA RemoveSafe ==
    ASSUME NEW c, Sound(c), removeAtTraverseNode
    PROVE  \E e : Sound(e)'
<1> DEFINE m == abs_length
           n == traverse_front
<1>1. /\ EzTypeOK /\ Lists(c) /\ LinkedAs(c) /\ FrontAt(c) /\ WalkAt(c)
      /\ m \in Nat /\ length \in Nat /\ length <= m /\ node \in NodeMaps /\ use \in Uses
      /\ live \subseteq Nodes
  BY DEF Sound, EzTypeOK, FrontAt
<1>2. /\ "remove" \in use /\ walking /\ n # NULL /\ n # back
      /\ traverse_front' = node[n].next
      /\ node' = [Unlinked(n) EXCEPT ![n] = Blank]
      /\ live' = live \ {n}
      /\ front' = FrontWithout(n)
      /\ abs_front' = (IF n = abs_front THEN node[n].next ELSE abs_front)
      /\ abs_length' = m - 1
      /\ length' = (IF m - 1 < length THEN length - 1 ELSE length)
      /\ UNCHANGED <<use, back, traverse_length, walking, out>>
  BY DEF removeAtTraverseNode
<1>3. "cleanQueue" \notin use /\ "traverse" \in use /\ ~ KeepsItems'
  BY <1>1, <1>2, QueueAssumption DEF WalkAt, KeepsItems
<1>4. PICK k \in 1 .. m : n = c[k]
  BY <1>1, <1>2 DEF WalkAt
<1>5. k < m /\ m > 1 /\ k + 1 \in 1 .. m /\ m \in 1 .. m
  <2>1. m > 0 /\ back = c[m]
    BY <1>1 DEF LinkedAs
  <2> QED
    BY <1>1, <1>2, <1>4, <2>1
<1> HIDE DEF m
<1>6. /\ node[n].next = c[k + 1]
      /\ k > 1 => node[n].prev = c[k - 1] /\ k - 1 \in 1 .. m
      /\ k = 1 => node[n].prev = NULL
      /\ n \in live /\ n \in Nodes /\ c[k + 1] \in Nodes /\ c[k + 1] # NULL
      /\ node[n].prev \in Pointers /\ c[k + 1] \in Pointers
  <2>1. /\ node[c[k]].next = IF k < m THEN c[k + 1] ELSE NULL
        /\ k > 1 => node[c[k]].prev = c[k - 1]
        /\ k = 1 /\ "cleanQueue" \notin use => node[c[k]].prev = NULL
    BY <1>1, NextTo DEF m
  <2>2. c[k] \in live /\ c[k] \in Nodes /\ c[k + 1] \in Nodes /\ c[k + 1] # NULL
    BY <1>1, <1>5, PlaceOf DEF m
  <2>3. node[n].prev \in Pointers
    BY <1>1, <1>4, <2>2 DEF NodeMaps
  <2>4. k > 1 => k - 1 \in 1 .. m
    BY <1>1
  <2> QED
    BY <1>3, <1>4, <1>5, <2>1, <2>2, <2>3, <2>4 DEF Pointers
<1> DEFINE p == node[n].prev
           q == c[k + 1]
           joined == SetNext(node, p, q)
<1>7. node' = [SetPrev(joined, q, p) EXCEPT ![n] = Blank]
  BY <1>2, <1>6 DEF Unlinked
<1> HIDE DEF n
<1>8. /\ joined \in NodeMaps
      /\ \A x \in Nodes : /\ joined[x].next = IF x = p THEN q ELSE node[x].next
                          /\ joined[x].prev = node[x].prev
                          /\ joined[x].data = node[x].data
  <2> HIDE DEF p, q
  <2> QED
    BY <1>1, <1>6, NextSet DEF p, q
<1> HIDE DEF joined
<1>9. /\ SetPrev(joined, q, p) \in NodeMaps
      /\ \A x \in Nodes : /\ SetPrev(joined, q, p)[x].prev = IF x = q THEN p ELSE joined[x].prev
                          /\ SetPrev(joined, q, p)[x].next = joined[x].next
                          /\ SetPrev(joined, q, p)[x].data = joined[x].data
  <2> HIDE DEF p, q
  <2>1. p \in Pointers /\ q \in Pointers /\ joined \in NodeMaps
    BY <1>6, <1>8 DEF p, q
  <2> QED
    BY <2>1, PrevSet
<1>10. node' \in NodeMaps
  <2>1. Blank \in [prev : Pointers, next : Pointers, data : Data \cup {NULL}]
    BY DEF Blank, Pointers
  <2> HIDE DEF p, q
  <2> QED
    BY <1>6, <1>7, <1>9, <2>1 DEF NodeMaps
<1>11. ASSUME NEW x \in live \ {n}
       PROVE  /\ node'[x].next = IF x = p THEN q ELSE node[x].next
              /\ node'[x].prev = IF x = q THEN p ELSE node[x].prev
  <2> HIDE DEF p, q
  <2>1. x \in Nodes /\ x # n
    BY <1>1
  <2>2. node'[x] = SetPrev(joined, q, p)[x]
    BY <1>7, <1>9, <2>1 DEF NodeMaps
  <2> QED
    BY <1>8, <1>9, <2>1, <2>2
<1>12. PICK e : e = Without(c, m, k)
  OBVIOUS
<1>13. ASSUME NEW j \in 1 .. m - 1
       PROVE  /\ j < k => j \in 1 .. m /\ e[j] = c[j]
              /\ j >= k => j + 1 \in 1 .. m /\ e[j] = c[j + 1]
  <2>1. e[j] = IF j < k THEN c[j] ELSE c[j + 1]
    BY <1>12 DEF Without
  <2> QED
    BY <1>1, <1>5, <2>1
<1>14. \A i, j \in 1 .. m : c[i] = c[j] => i = j
  BY <1>1 DEF Lists, m
<1>15. ASSUME NEW i \in 1 .. m, i # k
       PROVE  \E j \in 1 .. m - 1 : e[j] = c[i]
  <2>1. CASE i < k
    <3>1. i \in 1 .. m - 1
      BY <1>1, <1>5, <2>1
    <3> QED
      BY <1>13, <2>1, <3>1
  <2>2. CASE i > k
    <3>1. i - 1 \in 1 .. m - 1 /\ i - 1 >= k /\ (i - 1) + 1 = i
      BY <1>1, <1>5, <2>2
    <3>2. e[i - 1] = c[(i - 1) + 1]
      BY <1>13, <3>1
    <3> QED
      BY <3>1, <3>2
  <2> QED
    BY <1>15, <2>1, <2>2
<1>16. Lists(e)'
  <2>1. ASSUME NEW j \in 1 .. m - 1 PROVE e[j] \in live \ {n}
    <3>1. PICK i \in 1 .. m : e[j] = c[i] /\ i # k
      BY <1>1, <1>13
    <3> QED
      BY <1>1, <1>4, <1>14, <3>1 DEF Lists, m
  <2>2. e \in [1 .. m - 1 -> live \ {n}]
    <3>1. e = [j \in 1 .. m - 1 |-> e[j]]
      BY <1>12 DEF Without
    <3> QED
      BY <2>1, <3>1
  <2>3. ASSUME NEW i \in 1 .. m - 1, NEW j \in 1 .. m - 1, e[i] = e[j] PROVE i = j
    <3> DEFINE a == IF i < k THEN i ELSE i + 1
               b == IF j < k THEN j ELSE j + 1
    <3>1. a \in 1 .. m /\ b \in 1 .. m /\ e[i] = c[a] /\ e[j] = c[b]
      BY <1>1, <1>13
    <3>2. a = b
      <4> HIDE DEF a, b
      <4> QED
        BY <1>14, <2>3, <3>1
    <3> QED
      BY <1>1, <3>2
  <2>4. ASSUME NEW x \in live \ {n} PROVE \E j \in 1 .. m - 1 : e[j] = x
    <3>1. PICK i \in 1 .. m : c[i] = x
      BY <1>1 DEF Lists, m
    <3>2. i # k
      BY <1>4, <3>1
    <3> QED
      BY <1>15, <3>1, <3>2
  <2> QED
    BY <1>2, <2>2, <2>3, <2>4 DEF Lists
<1>17. e[k] = q /\ k \in 1 .. m - 1 /\ m - 1 \in 1 .. m - 1 /\ 1 \in 1 .. m - 1 /\ m - 1 > 0
  BY <1>1, <1>5, <1>13
<1>18. /\ \A i \in 1 .. m : c[i] = q => i = k + 1
       /\ \A i \in 1 .. m : c[i] = p => k > 1 /\ i = k - 1
  <2>1. k = 1 => \A i \in 1 .. m : c[i] # p
    BY <1>1, <1>6, PlaceOf DEF m
  <2> QED
    BY <1>1, <1>5, <1>6, <1>14, <2>1
<1>19. ASSUME NEW i \in 1 .. m, i # k
       PROVE  /\ node'[c[i]].next = IF k > 1 /\ i = k - 1 THEN q ELSE IF i < m THEN c[i + 1] ELSE NULL
              /\ i = k + 1 => node'[c[i]].prev = p
              /\ i # k + 1 /\ i > 1 => node'[c[i]].prev = c[i - 1]
              /\ i # k + 1 /\ i = 1 => node'[c[i]].prev = NULL
  <2>1. c[i] \in live \ {n}
    BY <1>1, <1>4, <1>14, <1>19 DEF Lists, m
  <2>2. /\ node'[c[i]].next = IF c[i] = p THEN q ELSE node[c[i]].next
        /\ node'[c[i]].prev = IF c[i] = q THEN p ELSE node[c[i]].prev
    BY <1>11, <2>1
  <2>3. /\ node[c[i]].next = IF i < m THEN c[i + 1] ELSE NULL
        /\ i > 1 => node[c[i]].prev = c[i - 1]
        /\ i = 1 /\ "cleanQueue" \notin use => node[c[i]].prev = NULL
    BY <1>1, NextTo DEF m
  <2>4. /\ c[i] = q <=> i = k + 1
        /\ c[i] = p <=> (k > 1 /\ i = k - 1)
    BY <1>6, <1>18
  <2> HIDE DEF p, q
  <2> QED
    BY <1>3, <2>2, <2>3, <2>4
<1> HIDE DEF q
<1>20. LinkedAs(e)'
  <2>1. m > 0 /\ abs_front = c[1] /\ back = c[m] /\ 1 \in 1 .. m
    BY <1>1, <1>5 DEF LinkedAs, m
  <2>2. abs_front' = e[1] /\ node'[e[1]].prev = NULL
    <3>1. CASE k = 1
      <4>1. n = abs_front /\ abs_front' = q /\ e[1] = q
        BY <1>2, <1>4, <1>6, <1>17, <2>1, <3>1 DEF q
      <4>2. node'[c[k + 1]].prev = p /\ p = NULL
        BY <1>5, <1>6, <1>19, <3>1
      <4> QED
        BY <4>1, <4>2 DEF q
    <3>2. CASE k # 1
      <4>1. 1 < k /\ n # abs_front /\ 1 # k + 1
        BY <1>1, <1>4, <1>14, <2>1, <3>2
      <4>2. e[1] = c[1] /\ abs_front' = c[1]
        BY <1>2, <1>13, <1>17, <2>1, <4>1
      <4>3. node'[c[1]].prev = NULL
        BY <1>19, <2>1, <3>2, <4>1
      <4> QED
        BY <4>2, <4>3
    <3> QED
      BY <3>1, <3>2
  <2>3. back = e[m - 1] /\ node'[e[m - 1]].next = NULL
    <3>1. m - 1 >= k /\ (m - 1) + 1 = m /\ m # k /\ m # k - 1 /\ ~ (m < m)
      BY <1>1, <1>5
    <3>2. e[m - 1] = c[(m - 1) + 1]
      BY <1>13, <1>17, <3>1
    <3>3. node'[c[m]].next = NULL
      BY <1>5, <1>19, <3>1
    <3> QED
      BY <2>1, <3>1, <3>2, <3>3
  <2>4. ASSUME NEW j \in 2 .. m - 1 PROVE node'[e[j - 1]].next = e[j] /\ node'[e[j]].prev = e[j - 1]
    <3>1. j \in 1 .. m - 1 /\ j - 1 \in 1 .. m - 1 /\ j > 1
      BY <1>1
    <3>2. CASE j < k
      <4>1. /\ j \in 1 .. m /\ j - 1 \in 1 .. m /\ j - 1 < k /\ j # k /\ j - 1 # k /\ j - 1 # k - 1
            /\ j - 1 < m /\ (j - 1) + 1 = j /\ j # k + 1
        BY <1>1, <3>1, <3>2
      <4>2. e[j] = c[j] /\ e[j - 1] = c[j - 1]
        BY <1>13, <3>1, <3>2, <4>1
      <4>3. node'[c[j - 1]].next = c[(j - 1) + 1] /\ node'[c[j]].prev = c[j - 1]
        BY <1>19, <3>1, <4>1
      <4> QED
        BY <4>1, <4>2, <4>3
    <3>3. CASE j = k
      <4>1. j - 1 \in 1 .. m /\ j - 1 < k /\ j - 1 = k - 1 /\ k > 1 /\ j - 1 # k /\ k + 1 # k
        BY <1>1, <3>1, <3>3
      <4>2. e[j] = q /\ e[j - 1] = c[j - 1]
        BY <1>13, <1>17, <3>1, <3>3, <4>1
      <4>3. node'[c[j - 1]].next = q
        BY <1>19, <4>1
      <4>4. node'[q].prev = p /\ p = c[k - 1]
        BY <1>5, <1>6, <1>19, <4>1 DEF q
      <4> QED
        BY <4>1, <4>2, <4>3, <4>4
    <3>4. CASE j > k
      <4>1. /\ j + 1 \in 1 .. m /\ j \in 1 .. m /\ j >= k /\ j - 1 >= k /\ (j - 1) + 1 = j
            /\ j # k /\ j + 1 # k /\ j # k - 1 /\ j < m /\ j + 1 # k + 1 /\ j + 1 > 1
            /\ (j + 1) - 1 = j
        BY <1>1, <3>1, <3>4
      <4>2. e[j] = c[j + 1] /\ e[j - 1] = c[(j - 1) + 1]
        BY <1>13, <3>1, <4>1
      <4>3. node'[c[j]].next = c[j + 1]
        BY <1>19, <4>1
      <4>4. node'[c[j + 1]].prev = c[(j + 1) - 1]
        BY <1>19, <4>1
      <4> QED
        BY <4>1, <4>2, <4>3, <4>4
    <3> QED
      BY <1>1, <3>1, <3>2, <3>3, <3>4
  <2> QED
    BY <1>2, <2>2, <2>3, <2>4 DEF LinkedAs
<1>21. FrontAt(e)'
  <2>1. front' = NULL \/ \E j \in 1 .. m - 1 : front' = e[j]
    <3>1. CASE n = front
      BY <1>2, <1>6, <1>17, <3>1 DEF FrontWithout, q
    <3>2. CASE n # front /\ front # NULL
      <4>1. PICK i \in 1 .. m : front = c[i]
        BY <1>1, <3>2 DEF FrontAt, m
      <4>2. i # k
        BY <1>4, <3>2, <4>1
      <4> QED
        BY <1>2, <1>15, <3>2, <4>1, <4>2 DEF FrontWithout
    <3>3. CASE n # front /\ front = NULL
      BY <1>2, <3>3 DEF FrontWithout
    <3> QED
      BY <3>1, <3>2, <3>3
  <2>2. length' <= m - 1 /\ m - 1 # 0
    BY <1>1, <1>2, <1>5
  <2> QED
    BY <1>2, <1>3, <2>1, <2>2 DEF FrontAt
<1>22. WalkAt(e)'
  <2>1. traverse_front' = e[k]
    BY <1>2, <1>6, <1>17 DEF q, n
  <2> QED
    BY <1>2, <1>3, <1>17, <2>1 DEF WalkAt
<1>23. EzTypeOK'
  <2>1. length' \in Nat /\ m - 1 \in Nat
    BY <1>1, <1>2, <1>5
  <2>2. front' \in Pointers /\ abs_front' \in Pointers /\ traverse_front' \in Pointers
    BY <1>1, <1>2, <1>6 DEF EzTypeOK, FrontWithout, n
  <2>3. live' \in SUBSET Nodes
    BY <1>1, <1>2
  <2> QED
    BY <1>1, <1>2, <1>10, <2>1, <2>2, <2>3 DEF EzTypeOK
<1> QED
  BY <1>16, <1>20, <1>21, <1>22, <1>23 DEF Sound

-----------------------------------------------------------------------------
LEMMA InitSound == QueueInit => Sound(<<>>)
<1> SUFFICES ASSUME QueueInit PROVE Sound(<<>>)
  OBVIOUS
<1>1. Blank \in [prev : Pointers, next : Pointers, data : Data \cup {NULL}]
  BY DEF Blank, Pointers
<1>2. 0 \in 0 .. SizeRange - 1
  BY QueueAssumption, FS_CardinalityType
<1>3. EzTypeOK
  BY <1>1, <1>2 DEF QueueInit, EzTypeOK, NodeMaps, Pointers
<1>4. Lists(<<>>) /\ LinkedAs(<<>>)
  <2>1. 1 .. 0 = {} /\ 2 .. 0 = {} /\ <<>> \in [{} -> {}]
    OBVIOUS
  <2> QED
    BY <2>1 DEF QueueInit, Lists, LinkedAs
<1>5. FrontAt(<<>>) /\ WalkAt(<<>>)
  BY DEF QueueInit, FrontAt, WalkAt
<1> QED
  BY <1>3, <1>4, <1>5 DEF Sound

LEMMA EzStepInv == EzInv /\ [QueueNext]_queueVars => EzInv'
<1> SUFFICES ASSUME EzInv, [QueueNext]_queueVars PROVE \E e : Sound(e)'
  BY DEF EzInv
<1>1. PICK c : Sound(c)
  BY DEF EzInv
<1>2. CASE \E n \in Nodes, d \in Data : enqueue(n, d) \/ priorityEnqueue(n, d)
  BY <1>1, <1>2, EnqueueSafe, PriorityEnqueueSafe
<1>3. CASE dequeue
  BY <1>1, <1>3, DequeueSafe
<1>4. CASE peekQueue
  BY <1>1, <1>4, PeekSafe
<1>5. CASE resetQueue
  BY <1>1, <1>5, ResetSafe
<1>6. CASE restartQueue
  BY <1>1, <1>6, RestartSafe
<1>7. CASE flushQueue
  BY <1>1, <1>7, FlushSafe
<1>8. CASE cleanQueue
  BY <1>1, <1>8, CleanSafe
<1>9. CASE initTraversal \/ initAbsTraversal
  BY <1>1, <1>9, StartWalkSafe
<1>10. CASE traverseQueue
  BY <1>1, <1>10, WalkOnSafe
<1>11. CASE StopTraversal
  BY <1>1, <1>11, StopSafe
<1>12. CASE removeAtTraverseNode
  BY <1>1, <1>12, RemoveSafe
<1>13. CASE UNCHANGED queueVars
  <2>1. Lists(c)' /\ LinkedAs(c)' /\ WalkAt(c)'
    BY <1>1, <1>13, ChainKept, WalkKept DEF queueVars, chainVars
  <2>2. EzTypeOK' /\ FrontAt(c)'
    BY <1>1, <1>13 DEF Sound, EzTypeOK, FrontAt, KeepsItems, queueVars, chainVars, walkVars
  <2> QED
    BY <2>1, <2>2 DEF Sound
<1> QED
  BY <1>2, <1>3, <1>4, <1>5, <1>6, <1>7, <1>8, <1>9, <1>10, <1>11, <1>12, <1>13 DEF QueueNext

(* The invariant holds in every state of the queue.                        *)
THEOREM EzInvariant == QueueSpecification => []EzInv
<1>1. QueueInit => EzInv
  BY InitSound DEF EzInv
<1>2. EzInv /\ [QueueNext]_queueVars => EzInv'
  BY EzStepInv
<1> QED
  BY <1>1, <1>2, PTL DEF QueueSpecification

-----------------------------------------------------------------------------
LEMMA InvQueueSound == EzInv => QueueSound
<1> SUFFICES ASSUME NEW c, Sound(c) PROVE QueueSound
  BY DEF EzInv
<1> DEFINE m == abs_length
<1>1. /\ EzTypeOK /\ Lists(c) /\ LinkedAs(c) /\ FrontAt(c)
      /\ m \in Nat /\ length \in Nat /\ length <= m
  BY DEF Sound, EzTypeOK, FrontAt
<1>2. Cardinality(live) = m /\ m <= Cardinality(Nodes) /\ Cardinality(Nodes) \in Nat
  BY <1>1, HowMany
<1>3. Chain = c
  BY <1>1, ChainIs
<1>4. QueueTypeOK
  <2>1. length \in 0 .. Cardinality(Nodes) /\ m \in 0 .. Cardinality(Nodes)
    BY <1>1, <1>2
  <2> QED
    BY <1>1, <2>1 DEF EzTypeOK, QueueTypeOK, NodeMaps
<1>5. ChainIntact
  <2>1. live = {c[i] : i \in 1 .. m}
    BY <1>1 DEF Lists
  <2>2. /\ \A i \in 2 .. m : node[c[i]].prev = c[i - 1]
        /\ m > 0 => back = c[m] /\ node[back].next = NULL
    BY <1>1 DEF LinkedAs
  <2> QED
    BY <1>2, <1>3, <2>1, <2>2 DEF ChainIntact
<1>6. FrontOnChain
  BY <1>1, <1>3 DEF FrontOnChain, OnChain, FrontAt
<1> QED
  BY <1>4, <1>5, <1>6 DEF QueueSound

(* After every call, in whatever order, the nodes allocated are those on   *)
(* the chain, linked both ways without a node twice, and front is on it.   *)
THEOREM QueueAlwaysSound == QueueSpecification => []QueueSound
BY EzInvariant, InvQueueSound, PTL

LEMMA InvWalkCounted == EzInv => WalkCounted
<1> SUFFICES ASSUME NEW c, Sound(c), walking, traverse_length > 0, "remove" \notin use
             PROVE  /\ OnChain(traverse_front)
                    /\ Position(traverse_front) + traverse_length - 1 <= abs_length
  BY DEF EzInv, WalkCounted
<1>1. EzTypeOK /\ Lists(c) /\ LinkedAs(c) /\ WalkAt(c) /\ KeepsItems
  BY DEF Sound, KeepsItems
<1>2. PICK i \in 1 .. abs_length : traverse_front = c[i] /\ i + traverse_length - 1 <= abs_length
  BY <1>1 DEF WalkAt
<1>3. Position(c[i]) = i /\ OnChain(c[i])
  BY <1>1, PlaceOf
<1> QED
  BY <1>2, <1>3

(* A traversal that counts its steps stays on the chain, whatever is put   *)
(* in or handed out meanwhile.                                             *)
THEOREM TraversalsCounted == QueueSpecification => []WalkCounted
BY EzInvariant, InvWalkCounted, PTL

LEMMA InvRemovalSafe == EzInv => RemovalSafe
<1> SUFFICES ASSUME NEW c, Sound(c), walking, traverse_front # NULL
             PROVE  /\ traverse_front \in live
                    /\ {node[traverse_front].prev, node[traverse_front].next} \subseteq live \cup {NULL}
  BY DEF EzInv, RemovalSafe
<1>1. /\ EzTypeOK /\ Lists(c) /\ LinkedAs(c) /\ WalkAt(c)
      /\ use \in Uses /\ abs_length \in Nat
  BY DEF Sound, EzTypeOK
<1>2. PICK i \in 1 .. abs_length : traverse_front = c[i]
  BY <1>1 DEF WalkAt
<1>3. "cleanQueue" \notin use
  BY <1>1, QueueAssumption DEF WalkAt
<1>4. /\ i < abs_length => i + 1 \in 1 .. abs_length
      /\ i > 1 => i - 1 \in 1 .. abs_length
      /\ i > 1 \/ i = 1
  BY <1>1
<1>5. /\ node[c[i]].next = IF i < abs_length THEN c[i + 1] ELSE NULL
      /\ i > 1 => node[c[i]].prev = c[i - 1]
      /\ i = 1 => node[c[i]].prev = NULL
  BY <1>1, <1>3, NextTo
<1>6. \A j \in 1 .. abs_length : c[j] \in live
  BY <1>1 DEF Lists
<1> QED
  BY <1>2, <1>4, <1>5, <1>6

(* removeAtTraverseNode reads and writes only nodes that are allocated.    *)
THEOREM RemovalsSafe == QueueSpecification => []RemovalSafe
BY EzInvariant, InvRemovalSafe, PTL

-----------------------------------------------------------------------------
(* The sequence the nodes stand for.                                       *)
Contents == Data \cup {NULL}
Read(ns, c, m) == [i \in 1 .. m |-> ns[c[i]].data]

LEMMA ReadIs ==
    ASSUME NEW ns \in NodeMaps, NEW m \in Nat, NEW c \in [1 .. m -> Nodes]
    PROVE  /\ Read(ns, c, m) \in Seq(Contents) /\ Len(Read(ns, c, m)) = m
           /\ \A i \in 1 .. m : Read(ns, c, m)[i] = ns[c[i]].data
<1>1. \A i \in 1 .. m : ns[c[i]].data \in Contents
  BY DEF NodeMaps, Contents
<1>2. Read(ns, c, m) \in [1 .. m -> Contents]
  BY <1>1 DEF Read
<1> QED
  BY <1>2 DEF Read

LEMMA ItemsAre ==
    ASSUME NEW c, Sound(c)
    PROVE  /\ Items \in Seq(Contents) /\ Len(Items) = abs_length
           /\ \A i \in 1 .. abs_length : Items[i] = node[c[i]].data
<1>1. /\ Lists(c) /\ LinkedAs(c) /\ abs_length \in Nat /\ node \in NodeMaps
      /\ c \in [1 .. abs_length -> Nodes]
  BY DEF Sound, EzTypeOK, Lists
<1>2. Items = Read(node, c, abs_length)
  BY <1>1, ChainIs DEF Items, Read
<1> QED
  BY <1>1, <1>2, ReadIs

LEMMA ItemsBecome ==
    ASSUME NEW e, Sound(e)'
    PROVE  /\ Items' \in Seq(Contents) /\ Len(Items') = abs_length'
           /\ \A i \in 1 .. abs_length' : Items'[i] = node'[e[i]].data
<1>1. /\ Lists(e)' /\ LinkedAs(e)' /\ abs_length' \in Nat /\ node' \in NodeMaps
      /\ e \in [1 .. abs_length' -> Nodes]
  BY DEF Sound, EzTypeOK, Lists
<1>2. Items' = Read(node', e, abs_length')
  BY <1>1, ChainBecomes DEF Items, Read
<1> QED
  BY <1>1, <1>2, ReadIs

(* InsertAt, element by element.                                           *)
LEMMA InsertedAt ==
    ASSUME NEW S, NEW s \in Seq(S), NEW k \in 1 .. Len(s) + 1, NEW d \in S,
           NEW t \in Seq(S), Len(t) = Len(s) + 1, t[k] = d,
           \A i \in 1 .. Len(s) : i < k => t[i] = s[i],
           \A i \in 1 .. Len(s) : i >= k => t[i + 1] = s[i]
    PROVE  t = InsertAt(s, k, d)
<1> DEFINE n == Len(s)
           a == SubSeq(s, 1, k - 1)
           b == SubSeq(s, k, n)
<1>1. n \in Nat /\ k \in 1 .. n + 1 /\ k - 1 \in Int /\ k \in Int /\ n \in Int /\ \A i \in 1 .. n : s[i] \in S
  OBVIOUS
<1>2. a \in Seq(S) /\ Len(a) = k - 1 /\ \A i \in 1 .. k - 1 : a[i] = s[i]
  <2>1. \A i \in 1 .. k - 1 : i \in 1 .. n /\ s[i] \in S /\ 1 + i - 1 = i
    BY <1>1
  <2>2. /\ a \in Seq(S) /\ Len(a) = (IF 1 <= k - 1 THEN (k - 1) - 1 + 1 ELSE 0)
        /\ \A i \in 1 .. (k - 1) - 1 + 1 : a[i] = s[1 + i - 1]
    <3> HIDE DEF n
    <3> QED
      BY <1>1, <2>1, SubSeqProperties
  <2>3. Len(a) = k - 1
    BY <1>1, <2>2
  <2> QED
    BY <1>1, <2>1, <2>2, <2>3
<1>3. b \in Seq(S) /\ Len(b) = n - k + 1 /\ \A i \in 1 .. n - k + 1 : b[i] = s[k + i - 1]
  <2>1. \A i \in k .. n : i \in 1 .. n /\ s[i] \in S
    BY <1>1
  <2>2. /\ b \in Seq(S) /\ Len(b) = (IF k <= n THEN n - k + 1 ELSE 0)
        /\ \A i \in 1 .. n - k + 1 : b[i] = s[k + i - 1]
    <3> HIDE DEF n
    <3> QED
      BY <1>1, <2>1, SubSeqProperties
  <2>3. Len(b) = n - k + 1
    BY <1>1, <2>2
  <2> QED
    BY <2>2, <2>3
<1> HIDE DEF a, b
<1> DEFINE ad == a \o <<d>>
<1>4. ad \in Seq(S) /\ Len(ad) = k /\ ad[k] = d /\ \A i \in 1 .. k - 1 : ad[i] = s[i]
  <2>1. <<d>> \in Seq(S) /\ Len(<<d>>) = 1 /\ <<d>>[1] = d
    OBVIOUS
  <2>2. /\ ad \in Seq(S) /\ Len(ad) = Len(a) + Len(<<d>>)
        /\ \A i \in 1 .. Len(a) + Len(<<d>>) : ad[i] = IF i <= Len(a) THEN a[i] ELSE <<d>>[i - Len(a)]
    BY <1>2, <2>1, ConcatProperties
  <2>3. Len(ad) = k /\ \A i \in 1 .. k : ad[i] = IF i <= k - 1 THEN a[i] ELSE <<d>>[i - (k - 1)]
    BY <1>1, <1>2, <2>1, <2>2
  <2>4. k \in 1 .. k /\ ~ (k <= k - 1) /\ k - (k - 1) = 1
    BY <1>1
  <2>5. \A i \in 1 .. k - 1 : i \in 1 .. k /\ i <= k - 1
    BY <1>1
  <2> HIDE DEF ad
  <2> QED
    BY <1>2, <2>1, <2>2, <2>3, <2>4, <2>5
<1> HIDE DEF ad
<1> DEFINE u == ad \o b
<1>5. /\ u \in Seq(S) /\ Len(u) = n + 1
      /\ \A i \in 1 .. n + 1 : u[i] = IF i <= k THEN ad[i] ELSE b[i - k]
  <2>1. /\ u \in Seq(S) /\ Len(u) = Len(ad) + Len(b)
        /\ \A i \in 1 .. Len(ad) + Len(b) : u[i] = IF i <= Len(ad) THEN ad[i] ELSE b[i - Len(ad)]
    BY <1>3, <1>4, ConcatProperties
  <2>2. Len(ad) = k /\ Len(ad) + Len(b) = n + 1
    BY <1>1, <1>3, <1>4
  <2> QED
    BY <2>1, <2>2
<1>6. u = InsertAt(s, k, d)
  BY DEF InsertAt, a, b, ad
<1> HIDE DEF u
<1>7. ASSUME NEW i \in 1 .. n + 1 PROVE t[i] = u[i]
  <2>1. u[i] = IF i <= k THEN ad[i] ELSE b[i - k]
    BY <1>5
  <2>2. CASE i < k
    <3>1. i \in 1 .. k - 1 /\ i \in 1 .. n
      BY <1>1, <2>2
    <3> QED
      BY <1>4, <2>1, <2>2, <3>1
  <2>3. CASE i = k
    BY <1>1, <1>4, <2>1, <2>3
  <2>4. CASE i > k
    <3>1. /\ i - k \in 1 .. n - k + 1 /\ k + (i - k) - 1 = i - 1 /\ i - 1 \in 1 .. n
          /\ i - 1 >= k /\ (i - 1) + 1 = i /\ ~ (i <= k)
      BY <1>1, <2>4
    <3>2. b[i - k] = s[k + (i - k) - 1]
      BY <1>3, <3>1
    <3>3. t[(i - 1) + 1] = s[i - 1]
      BY <3>1
    <3> QED
      BY <2>1, <3>1, <3>2, <3>3
  <2> QED
    BY <1>1, <2>2, <2>3, <2>4
<1>8. Len(t) = n + 1 /\ Len(u) = n + 1
  BY <1>5
<1> HIDE DEF n
<1> QED
  BY <1>5, <1>6, <1>7, <1>8, SeqEqual

(* A node linked in as the k-th is an item put in as the k-th.             *)
LEMMA ItemPutIn ==
    ASSUME NEW c, Sound(c), NEW k, NEW n, NEW d, LinksIn(c, k, n, d),
           NEW e, e = With(c, abs_length, k, n), Sound(e)'
    PROVE  /\ Items' = InsertAt(Items, k, d)
           /\ abs_length' - length' = abs_length - length /\ UNCHANGED <<use, out>>
           /\ Items \in Seq(Contents) /\ Len(Items) = abs_length /\ d \in Contents
           /\ abs_length \in Nat
<1> DEFINE m == abs_length
<1>1. /\ m \in Nat /\ length \in Nat /\ k \in 1 .. m + 1 /\ d \in Contents
      /\ length' = length + 1 /\ abs_length' = m + 1 /\ UNCHANGED <<use, out>>
      /\ EzTypeOK /\ Lists(c) /\ LinkedAs(c)
  BY DEF Sound, EzTypeOK, LinksIn, CountIn, Contents
<1>2. /\ Items \in Seq(Contents) /\ Len(Items) = m
      /\ \A i \in 1 .. m : Items[i] = node[c[i]].data
  BY ItemsAre
<1>3. /\ Items' \in Seq(Contents) /\ Len(Items') = m + 1
      /\ \A i \in 1 .. m + 1 : Items'[i] = node'[e[i]].data
  BY <1>1, ItemsBecome
<1>4. /\ e[k] = n
      /\ \A i \in 1 .. m : i < k => e[i] = c[i]
      /\ \A i \in 1 .. m : i >= k => e[i + 1] = c[i]
  BY <1>1, LinkedIn
<1>5. node'[n].data = d /\ \A i \in 1 .. m : node'[c[i]].data = node[c[i]].data
  BY <1>1 DEF LinksIn, Lists
<1> HIDE DEF m
<1>6. \A i \in 1 .. m : i \in 1 .. m + 1 /\ i + 1 \in 1 .. m + 1
  BY <1>1
<1>7. /\ Items'[k] = d
      /\ \A i \in 1 .. m : i < k => Items'[i] = Items[i]
      /\ \A i \in 1 .. m : i >= k => Items'[i + 1] = Items[i]
  <2>1. Items'[k] = d
    BY <1>1, <1>3, <1>4, <1>5
  <2>2. ASSUME NEW i \in 1 .. m, i < k PROVE Items'[i] = Items[i]
    BY <1>2, <1>3, <1>4, <1>5, <1>6, <2>2
  <2>3. ASSUME NEW i \in 1 .. m, i >= k PROVE Items'[i + 1] = Items[i]
    <3>1. e[i + 1] = c[i] /\ i + 1 \in 1 .. m + 1
      BY <1>4, <1>6, <2>3
    <3>2. Items'[i + 1] = node'[e[i + 1]].data
      BY <1>3, <3>1
    <3> QED
      BY <1>2, <1>5, <3>1, <3>2
  <2> QED
    BY <2>1, <2>2, <2>3
<1> DEFINE s == Items
           t == Items'
<1>8. /\ s \in Seq(Contents) /\ t \in Seq(Contents) /\ k \in 1 .. Len(s) + 1
      /\ Len(t) = Len(s) + 1 /\ t[k] = d
      /\ \A i \in 1 .. Len(s) : i < k => t[i] = s[i]
      /\ \A i \in 1 .. Len(s) : i >= k => t[i + 1] = s[i]
  BY <1>1, <1>2, <1>3, <1>7
<1> HIDE DEF s, t
<1>9. t = InsertAt(s, k, d)
  BY <1>1, <1>8, InsertedAt
<1>10. abs_length' - length' = m - length
  BY <1>1
<1> QED
  BY <1>1, <1>2, <1>9, <1>10 DEF s, t, m

-----------------------------------------------------------------------------
(* What each call does to the sequence.                                    *)
LEMMA AppendIsInsert ==
    ASSUME NEW S, NEW s \in Seq(S), NEW d \in S
    PROVE  Append(s, d) = InsertAt(s, Len(s) + 1, d)
<1> DEFINE t == Append(s, d)
           k == Len(s) + 1
<1>1. /\ t \in Seq(S) /\ Len(t) = Len(s) + 1 /\ \A i \in 1 .. Len(s) : t[i] = s[i]
      /\ t[Len(s) + 1] = d
  BY AppendProperties
<1>2. k \in 1 .. Len(s) + 1 /\ (\A i \in 1 .. Len(s) : ~ (i >= k)) /\ t[k] = d
  BY <1>1
<1> HIDE DEF t, k
<1>3. t = InsertAt(s, k, d)
  BY <1>1, <1>2, InsertedAt
<1> QED
  BY <1>3 DEF t, k

LEMMA ItemsKept ==
    ASSUME UNCHANGED <<live, node, abs_front, abs_length>>
    PROVE  Items' = Items
BY DEF Items, Chain, NextOf

LEMMA EnqueuePuts ==
    ASSUME NEW c, Sound(c), KeepsItems, NEW n \in Nodes, NEW d \in Data,
           enqueue(n, d) \/ priorityEnqueue(n, d)
    PROVE  Abstract!PutLast(d) \/ Abstract!PutNext(d)
<1>1. CASE enqueue(n, d)
  <2>1. PICK e : /\ e = With(c, abs_length, abs_length + 1, n)
                 /\ LinksIn(c, abs_length + 1, n, d) /\ Sound(e)'
    BY <1>1, EnqueueSafe
  <2>2. /\ Items' = InsertAt(Items, abs_length + 1, d)
        /\ abs_length' - length' = abs_length - length /\ UNCHANGED <<use, out>>
        /\ Items \in Seq(Contents) /\ Len(Items) = abs_length /\ d \in Contents
    BY <2>1, ItemPutIn
  <2>3. Items' = Append(Items, d)
    BY <2>2, AppendIsInsert
  <2>4. KeepsItems'
    BY <2>2 DEF KeepsItems
  <2> QED
    BY <2>2, <2>3, <2>4 DEF Abstract!PutLast
<1>2. CASE priorityEnqueue(n, d)
  <2> DEFINE k == abs_length - length + 1
  <2>1. PICK e : e = With(c, abs_length, k, n) /\ LinksIn(c, k, n, d) /\ Sound(e)'
    BY <1>2, PriorityEnqueueSafe
  <2>2. /\ Items' = InsertAt(Items, k, d)
        /\ abs_length' - length' = abs_length - length /\ UNCHANGED <<use, out>>
    <3> HIDE DEF k
    <3> QED
      BY <2>1, ItemPutIn
  <2>3. KeepsItems'
    BY <2>2 DEF KeepsItems
  <2> QED
    BY <2>2, <2>3 DEF Abstract!PutNext, Abstract!InsertAt, InsertAt
<1> QED
  BY <1>1, <1>2

(* front is the item to come next, and there is one while something is left *)
LEMMA WhatIsLeft ==
    ASSUME NEW c, Sound(c), KeepsItems
    PROVE  /\ abs_length \in Nat /\ length \in Nat /\ length <= abs_length
           /\ Len(Items) = abs_length
           /\ SomethingLeft <=> abs_length - length < abs_length
           /\ ~ SomethingLeft => length = 0
           /\ SomethingLeft => /\ node[front].data = Items[abs_length - length + 1]
                               /\ node[back].data = Items[abs_length]
<1> DEFINE m == abs_length
<1>1. /\ EzTypeOK /\ Lists(c) /\ LinkedAs(c) /\ FrontAt(c)
      /\ m \in Nat /\ length \in Nat /\ length <= m
  BY DEF Sound, EzTypeOK, FrontAt
<1>2. Len(Items) = m /\ \A i \in 1 .. m : Items[i] = node[c[i]].data
  BY ItemsAre
<1>3. ASSUME length > 0
      PROVE  /\ front # NULL /\ node[front].data = Items[m - length + 1]
             /\ node[back].data = Items[m]
  <2>1. m - length + 1 \in 1 .. m /\ m \in 1 .. m /\ m > 0
    BY <1>1, <1>3
  <2>2. front = c[m - length + 1] /\ back = c[m]
    BY <1>1, <1>3, <2>1 DEF FrontAt, LinkedAs
  <2>3. front # NULL
    BY <1>1, <2>1, <2>2, PlaceOf
  <2> QED
    BY <1>2, <2>1, <2>2, <2>3
<1>4. /\ SomethingLeft <=> length > 0
      /\ m - length < m <=> length > 0
      /\ ~ (length > 0) => length = 0
  BY <1>1, <1>3 DEF SomethingLeft
<1> QED
  BY <1>1, <1>2, <1>3, <1>4

LEMMA DequeueTakes ==
    ASSUME NEW c, Sound(c), KeepsItems, dequeue
    PROVE  Abstract!Take
<1>1. UNCHANGED <<use, live, node, abs_front, abs_length>>
  BY DEF dequeue
<1>2. Items' = Items /\ KeepsItems' /\ abs_length' = abs_length
  BY <1>1, ItemsKept DEF KeepsItems
<1>3. /\ abs_length \in Nat /\ length \in Nat /\ Len(Items) = abs_length
      /\ SomethingLeft <=> abs_length - length < abs_length
      /\ ~ SomethingLeft => length = 0
      /\ SomethingLeft => node[front].data = Items[abs_length - length + 1]
  BY WhatIsLeft
<1>4. CASE SomethingLeft
  <2>1. out' = Items[abs_length - length + 1] /\ length' = length - 1
    BY <1>3, <1>4 DEF dequeue
  <2>2. abs_length' - length' = abs_length - length + 1
    BY <1>2, <1>3, <2>1
  <2> QED
    BY <1>2, <1>3, <1>4, <2>1, <2>2 DEF Abstract!Take
<1>5. CASE ~ SomethingLeft
  <2>1. out' = NULL /\ length' = length /\ abs_length - length = Len(Items)
    BY <1>3, <1>5 DEF dequeue
  <2> QED
    BY <1>2, <2>1 DEF Abstract!Take
<1> QED
  BY <1>4, <1>5

LEMMA PeekLooks ==
    ASSUME NEW c, Sound(c), KeepsItems, peekQueue
    PROVE  Abstract!Peek(abs_length - length + 1) \/ Abstract!Peek(Len(Items))
<1>1. UNCHANGED <<use, live, node, abs_front, abs_length, length>>
  BY DEF peekQueue, chainVars
<1>2. Items' = Items /\ KeepsItems' /\ abs_length' = abs_length /\ length' = length
  BY <1>1, ItemsKept DEF KeepsItems
<1>3. /\ Len(Items) = abs_length
      /\ SomethingLeft <=> abs_length - length < abs_length
      /\ SomethingLeft => /\ node[front].data = Items[abs_length - length + 1]
                          /\ node[back].data = Items[abs_length]
  BY WhatIsLeft
<1>4. PICK end \in {front, back} : out' = IF SomethingLeft THEN node[end].data ELSE NULL
  BY DEF peekQueue
<1>5. CASE end = front
  BY <1>2, <1>3, <1>4, <1>5 DEF Abstract!Peek
<1>6. CASE end = back
  BY <1>2, <1>3, <1>4, <1>6 DEF Abstract!Peek
<1> QED
  BY <1>4, <1>5, <1>6

LEMMA ResetPasses ==
    ASSUME NEW c, Sound(c), KeepsItems, resetQueue \/ restartQueue
    PROVE  Abstract!PassAll \/ Abstract!TakeBack
<1>1. UNCHANGED <<use, live, node, abs_front, abs_length, out>>
  BY DEF resetQueue, restartQueue
<1>2. Items' = Items /\ KeepsItems' /\ abs_length' = abs_length /\ out' = out
  BY <1>1, ItemsKept DEF KeepsItems
<1>3. Len(Items) = abs_length /\ abs_length \in Nat
  BY ItemsAre DEF Sound, EzTypeOK
<1>4. CASE resetQueue
  <2>1. abs_length' - length' = Len(Items)
    BY <1>2, <1>3, <1>4 DEF resetQueue
  <2> QED
    BY <1>2, <2>1 DEF Abstract!PassAll
<1>5. CASE restartQueue
  <2>1. abs_length' - length' = 0
    BY <1>2, <1>3, <1>5 DEF restartQueue
  <2> QED
    BY <1>2, <2>1 DEF Abstract!TakeBack
<1> QED
  BY <1>4, <1>5

LEMMA FlushEmpties ==
    ASSUME KeepsItems, flushQueue
    PROVE  Abstract!Empty
<1>1. abs_length' = 0 /\ length' = 0 /\ UNCHANGED <<use, out>>
  BY DEF flushQueue
<1>2. Items' = <<>>
  <2>1. Items' = [i \in 1 .. 0 |-> (node[Chain[i]].data)']
    BY <1>1 DEF Items
  <2> QED
    BY <2>1
<1>3. KeepsItems' /\ abs_length' - length' = 0
  BY <1>1 DEF KeepsItems
<1> QED
  BY <1>1, <1>2, <1>3 DEF Abstract!Empty

LEMMA CleanForgets ==
    ASSUME NEW c, Sound(c), cleanQueue
    PROVE  \/ Abstract!Forget(0)
           \/ /\ abs_length - length = Len(Items) /\ abs_length - length > 0
              /\ Abstract!Forget(1)
<1> DEFINE m == abs_length
<1>1. /\ m \in Nat /\ length \in Nat /\ length <= m
      /\ Lists(c) /\ node \in NodeMaps
  BY DEF Sound, EzTypeOK, FrontAt
<1>2. Items \in Seq(Contents) /\ Len(Items) = m /\ \A i \in 1 .. m : Items[i] = node[c[i]].data
  BY ItemsAre
<1>3. UNCHANGED <<use, length, out>>
  BY DEF cleanQueue
<1>4. KeepsItems /\ KeepsItems'
  BY <1>3, CleanSafe DEF KeepsItems
<1>5. CASE length = 0 /\ abs_length' = 0 /\ Sound(<<>>)'
  <2>1. Items' = <<>>
    <3>1. Items' \in Seq(Contents) /\ Len(Items') = 0
      BY <1>5, ItemsBecome
    <3> QED
      BY <3>1
  <2>2. SubSeq(Items, m - length - 0 + 1, Len(Items)) = <<>>
    <3>1. m - length - 0 + 1 = m + 1 /\ m + 1 > m
      BY <1>1, <1>5
    <3>2. SubSeq(Items, m + 1, m) = <<>>
      BY <1>1
    <3> QED
      BY <1>2, <3>1, <3>2
  <2>3. abs_length' - length' = 0
    BY <1>3, <1>5
  <2> QED
    BY <1>3, <1>4, <2>1, <2>2, <2>3 DEF Abstract!Forget
<1>6. ASSUME NEW k \in 1 .. m, NEW e, e = From(c, m, k), abs_length' = m - k + 1,
             \A j \in 1 .. m - k + 1 : node'[e[j]] = node[e[j]],
             length > 0 => k = m - length + 1, length = 0 => k = m, Sound(e)'
      PROVE  \/ Abstract!Forget(0)
             \/ m - length = Len(Items) /\ m - length > 0 /\ Abstract!Forget(1)
  <2> DEFINE r == m - k + 1
             s == Items
             t == Items'
             v == SubSeq(Items, k, m)
  <2>1. r \in Nat /\ k \in Int /\ m \in Int
    BY <1>1
  <2>2. t \in Seq(Contents) /\ Len(t) = r /\ \A j \in 1 .. r : t[j] = node'[e[j]].data
    BY <1>6, ItemsBecome
  <2>3. v \in Seq(Contents) /\ Len(v) = r /\ \A j \in 1 .. r : v[j] = s[k + j - 1]
    <3>1. \A i \in k .. m : s[i] \in Contents
      BY <1>1, <1>2
    <3>2. /\ v \in Seq(Contents) /\ Len(v) = (IF k <= m THEN m - k + 1 ELSE 0)
          /\ \A j \in 1 .. m - k + 1 : v[j] = s[k + j - 1]
      <4> HIDE DEF s
      <4> QED
        BY <2>1, <3>1, SubSeqProperties DEF s
    <3> QED
      BY <1>1, <3>2
  <2>4. ASSUME NEW j \in 1 .. r PROVE t[j] = v[j]
    <3>1. e[j] = c[j + k - 1] /\ j + k - 1 = k + j - 1 /\ k + j - 1 \in 1 .. m
      BY <1>1, <1>6 DEF From
    <3>2. t[j] = node'[e[j]].data /\ node'[e[j]] = node[e[j]]
      BY <1>6, <2>2
    <3>3. v[j] = s[k + j - 1]
      BY <2>3
    <3>4. s[k + j - 1] = node[c[k + j - 1]].data
      BY <1>2, <3>1
    <3> HIDE DEF s, t, v
    <3> QED
      BY <3>1, <3>2, <3>3, <3>4
  <2> HIDE DEF t, v, r
  <2>5. t = v
    BY <2>1, <2>2, <2>3, <2>4, SeqEqual
  <2>6. CASE length > 0
    <3>1. m - length - 0 + 1 = k /\ abs_length' - length' = 0
      BY <1>1, <1>3, <1>6, <2>6
    <3>2. Items' = SubSeq(Items, m - length - 0 + 1, Len(Items))
      BY <1>2, <2>5, <3>1 DEF t, v
    <3> QED
      BY <1>3, <1>4, <3>1, <3>2 DEF Abstract!Forget
  <2>7. CASE length = 0
    <3>1. /\ m - length - 1 + 1 = k /\ abs_length' - length' = 1
          /\ m - length = m /\ m > 0
      BY <1>1, <1>3, <1>6, <2>7
    <3>2. Items' = SubSeq(Items, m - length - 1 + 1, Len(Items))
      BY <1>2, <2>5, <3>1 DEF t, v
    <3>3. Abstract!Forget(1)
      BY <1>3, <1>4, <3>1, <3>2 DEF Abstract!Forget
    <3> QED
      BY <1>2, <3>1, <3>3
  <2> QED
    BY <1>1, <2>6, <2>7
<1> QED
  BY <1>5, <1>6, CleanSafe

-----------------------------------------------------------------------------
LEMMA InitRefines == QueueInit => Abstract!SpecInit
<1> SUFFICES ASSUME QueueInit PROVE Abstract!SpecInit
  OBVIOUS
<1>1. Items = <<>>
  <2>1. Items = [i \in 1 .. 0 |-> node[Chain[i]].data]
    BY DEF Items, QueueInit
  <2> QED
    BY <2>1
<1> QED
  BY <1>1 DEF QueueInit, Abstract!SpecInit

LEMMA StepRefines == EzInv /\ [QueueNext]_queueVars => [Abstract!SpecNext]_(Abstract!specVars)
<1> SUFFICES ASSUME EzInv, [QueueNext]_queueVars
             PROVE  Abstract!SpecNext \/ UNCHANGED Abstract!specVars
  OBVIOUS
<1>1. PICK c : Sound(c)
  BY DEF EzInv
<1>2. use' = use
  BY DEF QueueNext, queueVars, enqueue, priorityEnqueue, CountIn, dequeue, peekQueue, resetQueue,
     restartQueue, flushQueue, cleanQueue, initTraversal, initAbsTraversal, traverseQueue,
     StopTraversal, removeAtTraverseNode
<1>3. KeepsItems' <=> KeepsItems
  BY <1>2 DEF KeepsItems
<1>4. CASE ~ KeepsItems
  BY <1>3, <1>4 DEF Abstract!specVars
<1>5. CASE KeepsItems
  <2>1. CASE \E n \in Nodes, d \in Data : enqueue(n, d) \/ priorityEnqueue(n, d)
    <3>1. PICK n \in Nodes, d \in Data : enqueue(n, d) \/ priorityEnqueue(n, d)
      BY <2>1
    <3>2. Abstract!PutLast(d) \/ Abstract!PutNext(d)
      BY <1>1, <1>5, <3>1, EnqueuePuts
    <3> QED
      BY <3>2 DEF Abstract!SpecNext
  <2>2. CASE dequeue
    BY <1>1, <1>5, <2>2, DequeueTakes DEF Abstract!SpecNext
  <2>3. CASE peekQueue
    <3>1. Abstract!Peek(abs_length - length + 1) \/ Abstract!Peek(Len(Items))
      BY <1>1, <1>5, <2>3, PeekLooks
    <3> QED
      BY <1>5, <3>1 DEF Abstract!SpecNext
  <2>4. CASE resetQueue \/ restartQueue
    BY <1>1, <1>5, <2>4, ResetPasses DEF Abstract!SpecNext
  <2>5. CASE flushQueue
    BY <1>5, <2>5, FlushEmpties DEF Abstract!SpecNext
  <2>6. CASE cleanQueue
    <3>1. \/ Abstract!Forget(0)
          \/ /\ abs_length - length = Len(Items) /\ abs_length - length > 0
             /\ Abstract!Forget(1)
      BY <1>1, <2>6, CleanForgets
    <3> QED
      BY <1>5, <3>1 DEF Abstract!SpecNext
  <2>7. CASE \/ initTraversal \/ initAbsTraversal \/ traverseQueue \/ StopTraversal
             \/ UNCHANGED queueVars
    <3>1. UNCHANGED <<live, node, abs_front, abs_length, length, out>>
      BY <2>7 DEF initTraversal, initAbsTraversal, traverseQueue, StopTraversal, queueVars, chainVars
    <3>2. Items' = Items
      BY <3>1, ItemsKept
    <3> QED
      BY <1>3, <3>1, <3>2 DEF Abstract!specVars
  <2>8. CASE removeAtTraverseNode
    BY <1>5, <2>8 DEF removeAtTraverseNode, KeepsItems
  <2> QED
    BY <2>1, <2>2, <2>3, <2>4, <2>5, <2>6, <2>7, <2>8 DEF QueueNext
<1> QED
  BY <1>4, <1>5

(* The linked nodes implement the sequence that keeps what it hands out,   *)
(* for every queue that has no nodes removed.                              *)
THEOREM QueueRefinesSequence == QueueSpecification => ImplementsSequence
<1>1. QueueInit => Abstract!SpecInit
  BY InitRefines
<1>2. EzInv /\ [QueueNext]_queueVars => [Abstract!SpecNext]_(Abstract!specVars)
  BY StepRefines
<1> QED
  BY <1>1, <1>2, EzInvariant, PTL DEF QueueSpecification, ImplementsSequence, Abstract!SpecSpec

===============================================================================
