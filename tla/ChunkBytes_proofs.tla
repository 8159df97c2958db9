---------------------------- MODULE ChunkBytes_proofs ----------------------------
(* What doInflate_ does with the bytes of a chunk: SumsFit of their        *)
(* checksum, and RunsInPlace and CopyExact of their copy to the array, the *)
(* latter for all arrays and chunks of any number of dimensions.           *)
EXTENDS Adler32, ChunkCopy, Induction, SequenceTheorems, TLAPS

-----------------------------------------------------------------------------
(* The checksum, for all buffers and all numbers that fit AdlerAssumption, *)
(* the real ones among them: 65521, 255, 5552 and 32 bits.                 *)
Bytes == 0 .. ByteMax

(* one checksum after the other, of any buffers *)
AdlerSpec == AdlerIdle /\ [][AdlerNext \/ (phase = "done" /\ \E bytes \in Seq(Bytes) : StartAdler(bytes))]_adlerVars

(* what the sums can be after summed bytes, from a reduced start *)
Bounded ==
    /\ s1 <= Divisor - 1 + ByteMax * summed
    /\ 2 * s2 <= 2 * (Divisor - 1) * (summed + 1) + ByteMax * summed * (summed + 1)

AdlerTypeOK ==
    /\ buffer \in Seq(Bytes) /\ p \in 0 .. Len(buffer) /\ unaligned \in 0 .. Alignment - 1
    /\ s1 \in Nat /\ s2 \in Nat /\ summed \in Nat /\ chunk_size \in Nat
    /\ phase \in {"head", "chunks", "chunk", "rest", "done"}

(* how far each phase gets: the bytes up to the aligned address and those  *)
(* behind the last chunk are fewer than an iteration's                     *)
PhaseOK ==
    /\ phase = "head"   => summed = p /\ p <= unaligned
    /\ phase = "chunks" => summed = 0
    /\ phase = "chunk"  =>
        /\ summed <= chunk_size /\ chunk_size - summed <= Left /\ chunk_size <= MaxBytesPerChunk
        /\ ByteMax * (chunk_size \div BytesPerIteration) <= CounterMax
    /\ phase = "rest"   => summed + Left < BytesPerIteration
    /\ phase = "done"   => summed = 0

AdlerInv == AdlerTypeOK /\ Bounded /\ PhaseOK

-----------------------------------------------------------------------------
(* Products of natural numbers, and the quotients they bound.              *)
LEMMA ProductGrows ==
    ASSUME NEW a \in Nat, NEW b \in Nat, NEW c \in Nat, a <= b
    PROVE  c * a \in Nat /\ c * b \in Nat /\ c * a <= c * b
<1>1. c * (b - a) \in Nat
  OBVIOUS
<1> QED
  BY <1>1

LEMMA Quotient ==
    ASSUME NEW a \in Nat, NEW b \in Nat \ {0}
    PROVE  a \div b \in Nat /\ b * (a \div b) \in Nat /\ b * (a \div b) <= a /\ a % b \in 0 .. b - 1 /\ a % b <= a
OBVIOUS

LEMMA QuotientBounded ==
    ASSUME NEW a \in Nat, NEW b \in Nat \ {0}, NEW k \in Nat, a <= b * k
    PROVE  a \div b <= k
<1> DEFINE q == a \div b
<1>1. q \in Nat /\ b * q \in Nat /\ b * q <= a
  BY Quotient
<1> HIDE DEF q
<1>2. b * (k + 1) = b * k + b /\ b * k \in Nat /\ k + 1 \in Nat
  OBVIOUS
<1>3. CASE k + 1 <= q
  <2>1. b * (k + 1) <= b * q
    BY <1>1, <1>2, <1>3, ProductGrows
  <2> QED
    BY <1>1, <1>2, <2>1
<1>4. q <= k
  BY <1>1, <1>3
<1> QED
  BY <1>4 DEF q

(* The least of three numbers is none the greater.                         *)
LEMMA LeastOfThree ==
    ASSUME NEW a \in Nat, NEW b \in Nat, NEW c \in Nat
    PROVE  LET m == Min({a, b, c}) IN m \in Nat /\ m <= a /\ m <= b /\ m <= c
<1>1. \E x \in {a, b, c} : \A y \in {a, b, c} : x <= y
  OBVIOUS
<1> QED
  BY <1>1 DEF Min

(* A chunk is of whole iterations that neither sums nor counters mind.     *)
LEMMA ChunkFits ==
    ASSUME NEW left \in Nat
    PROVE  LET size == ChunkSize(left)
           IN  /\ size \in Nat /\ size <= left /\ size <= MaxBytesPerChunk
               /\ ByteMax * (size \div BytesPerIteration) <= CounterMax
<1> DEFINE most  == CounterMax \div ByteMax
           least == Min({left, MaxBytesPerChunk, BytesPerIteration * most})
           size  == least - (least % BytesPerIteration)
<1>1. /\ BytesPerIteration \in Nat \ {0} /\ MaxBytesPerChunk \in Nat
      /\ ByteMax \in Nat \ {0} /\ CounterMax \in Nat
  BY AdlerAssumption
<1>2. most \in Nat /\ ByteMax * most <= CounterMax /\ BytesPerIteration * most \in Nat
  BY <1>1, Quotient
<1> HIDE DEF most
<1>3. least \in Nat /\ least <= left /\ least <= MaxBytesPerChunk /\ least <= BytesPerIteration * most
  BY <1>1, <1>2, LeastOfThree
<1> HIDE DEF least
<1>4. least % BytesPerIteration \in 0 .. BytesPerIteration - 1 /\ least % BytesPerIteration <= least
  BY <1>1, <1>3, Quotient
<1>5. size \in Nat /\ size <= least
  BY <1>1, <1>3, <1>4
<1>6. ChunkSize(left) = size
  BY DEF ChunkSize, least, most
<1> HIDE DEF size
<1>7. size \div BytesPerIteration \in Nat /\ size \div BytesPerIteration <= most
  BY <1>1, <1>2, <1>3, <1>5, Quotient, QuotientBounded
<1>8. ByteMax * (size \div BytesPerIteration) <= ByteMax * most
  BY <1>1, <1>2, <1>7, ProductGrows
<1>9. ByteMax * (size \div BytesPerIteration) \in Nat /\ ByteMax * most \in Nat
  BY <1>1, <1>2, <1>7
<1> QED
  BY <1>1, <1>2, <1>3, <1>5, <1>6, <1>8, <1>9

(* The sums of a whole chunk fit.                                          *)
LEMMA BoundedFits == ASSUME AdlerTypeOK, Bounded, summed <= MaxBytesPerChunk
                     PROVE  s1 \in 0 .. SumMax /\ s2 \in 0 .. SumMax
<1> DEFINE d == Divisor - 1
           m == MaxBytesPerChunk
<1>1. /\ d \in Nat /\ d >= 1 /\ m \in Nat \ {0} /\ ByteMax \in Nat /\ SumMax \in Nat
      /\ 2 * d * (m + 1) + ByteMax * m * (m + 1) <= 2 * SumMax
  BY AdlerAssumption
<1>2. /\ summed \in Nat /\ summed <= m /\ s1 \in Nat /\ s2 \in Nat
      /\ s1 <= d + ByteMax * summed
      /\ 2 * s2 <= 2 * d * (summed + 1) + ByteMax * summed * (summed + 1)
  BY DEF AdlerTypeOK, Bounded
<1> HIDE DEF d, m
<1>3. ByteMax * summed \in Nat /\ ByteMax * m \in Nat /\ ByteMax * summed <= ByteMax * m
  BY <1>1, <1>2, ProductGrows
<1>4. 2 * d * (summed + 1) <= 2 * d * (m + 1)
  BY <1>1, <1>2, ProductGrows
<1>5. ByteMax * summed * (summed + 1) <= ByteMax * m * (m + 1)
  <2>1. ByteMax * summed * (summed + 1) <= ByteMax * summed * (m + 1)
    BY <1>1, <1>2, <1>3, ProductGrows
  <2>2. (m + 1) * (ByteMax * summed) <= (m + 1) * (ByteMax * m)
    BY <1>1, <1>3, ProductGrows
  <2> QED
    BY <1>1, <1>2, <1>3, <2>1, <2>2
<1>6. 2 * d <= 2 * d * (m + 1) /\ 2 * (ByteMax * m) <= ByteMax * m * (m + 1)
  <2>1. 2 * d * 1 <= 2 * d * (m + 1)
    BY <1>1, ProductGrows
  <2>2. (ByteMax * m) * 2 <= (ByteMax * m) * (m + 1)
    BY <1>1, <1>3, ProductGrows
  <2> QED
    BY <1>1, <1>3, <2>1, <2>2
<1> QED
  BY <1>1, <1>2, <1>3, <1>4, <1>5, <1>6

(* No phase sums more than the sums can take.                              *)
LEMMA SummedBounded == AdlerTypeOK /\ PhaseOK => summed <= MaxBytesPerChunk
<1> SUFFICES ASSUME AdlerTypeOK, PhaseOK PROVE summed <= MaxBytesPerChunk
  OBVIOUS
<1>1. /\ Alignment <= BytesPerIteration /\ BytesPerIteration <= MaxBytesPerChunk
      /\ Alignment \in Nat /\ BytesPerIteration \in Nat /\ MaxBytesPerChunk \in Nat
  BY AdlerAssumption
<1>2. Len(buffer) \in Nat /\ Left \in Nat
  BY DEF AdlerTypeOK, Left
<1> QED
  BY <1>1, <1>2 DEF AdlerTypeOK, PhaseOK

LEMMA InvFits == AdlerInv => SumsFit
BY BoundedFits, SummedBounded DEF AdlerInv, PhaseOK, SumsFit

-----------------------------------------------------------------------------
(* Before the first byte the sums are reduced.                             *)
LEMMA FreshBounded == summed = 0 /\ s1 \in 0 .. Divisor - 1 /\ s2 \in 0 .. Divisor - 1 => Bounded
<1>1. Divisor \in Nat /\ ByteMax \in Nat
  BY AdlerAssumption
<1> QED
  BY <1>1 DEF Bounded

LEMMA IdleInv == AdlerIdle => AdlerInv
<1> SUFFICES ASSUME AdlerIdle PROVE AdlerInv
  OBVIOUS
<1>1. AdlerTypeOK
  <2>1. buffer \in Seq(Bytes) /\ Len(buffer) = 0
    BY EmptySeq DEF AdlerIdle
  <2> QED
    BY <2>1, AdlerAssumption DEF AdlerIdle, AdlerTypeOK
<1>2. Bounded
  BY AdlerAssumption, FreshBounded DEF AdlerIdle
<1> QED
  BY <1>1, <1>2 DEF AdlerInv, AdlerIdle, PhaseOK

LEMMA StartStep ==
    ASSUME NEW bytes \in Seq(Bytes), StartAdler(bytes)
    PROVE  AdlerInv'
<1>1. AdlerTypeOK'
  <2>1. Len(bytes) \in Nat
    OBVIOUS
  <2> QED
    BY <2>1 DEF StartAdler, AdlerTypeOK
<1>2. Bounded'
  <2>1. Divisor \in Nat /\ Divisor >= 2 /\ ByteMax \in Nat
    BY AdlerAssumption
  <2> QED
    BY <2>1 DEF StartAdler, Bounded
<1> QED
  BY <1>1, <1>2 DEF StartAdler, AdlerInv, PhaseOK, AdlerTypeOK

(* A byte more: the sums grow by at most ByteMax, and by the new s1.       *)
LEMMA AddByteStep == AdlerInv /\ AddByte => AdlerInv'
<1> SUFFICES ASSUME AdlerInv, AddByte PROVE AdlerInv'
  OBVIOUS
<1>1. /\ ByteMax \in Nat /\ Divisor \in Nat /\ Divisor >= 2
      /\ BytesPerIteration \in Nat /\ MaxBytesPerChunk \in Nat
  BY AdlerAssumption
<1>2. /\ buffer \in Seq(Bytes) /\ p \in 0 .. Len(buffer) /\ Len(buffer) \in Nat
      /\ s1 \in Nat /\ s2 \in Nat /\ summed \in Nat /\ chunk_size \in Nat
      /\ unaligned \in 0 .. Alignment - 1
  BY DEF AdlerInv, AdlerTypeOK
<1>3. p + 1 \in 1 .. Len(buffer)
  BY <1>2 DEF AddByte, AdlerInv, PhaseOK, HeadDone, ChunkDone, Left
<1>4. buffer[p + 1] \in Bytes
  BY <1>2, <1>3, ElementOfSeq
<1>5. /\ s1' = s1 + buffer[p + 1] /\ s2' = s2 + s1' /\ summed' = summed + 1 /\ p' = p + 1
      /\ UNCHANGED <<buffer, unaligned, phase, chunk_size>>
  BY DEF AddByte
<1>6. AdlerTypeOK'
  <2>1. buffer[p + 1] \in Nat
    BY <1>1, <1>4 DEF Bytes
  <2>2. s1' \in Nat /\ s2' \in Nat /\ summed' \in Nat /\ p' \in 0 .. Len(buffer)
    BY <1>2, <1>3, <1>5, <2>1
  <2>3. phase \in {"head", "chunks", "chunk", "rest", "done"}
    BY DEF AdlerInv, AdlerTypeOK
  <2> QED
    BY <1>2, <1>5, <2>2, <2>3 DEF AdlerTypeOK
<1>7. Bounded'
  <2> DEFINE b == buffer[p + 1]
             d == Divisor - 1
             t == ByteMax * summed
  <2>1. b \in Nat /\ b <= ByteMax /\ d \in Nat /\ t \in Nat
    BY <1>1, <1>2, <1>4 DEF Bytes
  <2>2. s1 <= d + t /\ 2 * s2 <= 2 * d * (summed + 1) + t * (summed + 1)
    BY DEF AdlerInv, Bounded
  <2>3. ByteMax * (summed + 1) = t + ByteMax
    BY <1>1, <1>2
  <2>4. s1' = s1 + b /\ s2' = s2 + s1' /\ summed' = summed + 1
    BY <1>5
  <2>5. t * (summed + 1) + 2 * (t + ByteMax) = (t + ByteMax) * (summed + 1 + 1)
    BY <1>1, <1>2
  <2> HIDE DEF b, d, t
  <2>6. s1' <= d + (t + ByteMax)
    BY <1>1, <1>2, <2>1, <2>2, <2>4
  <2>7. 2 * s2' <= 2 * d * (summed + 1 + 1) + (t + ByteMax) * (summed + 1 + 1)
    <3>1. 2 * s2' = 2 * s2 + 2 * s1'
      BY <1>2, <2>1, <2>4
    <3>2. 2 * d * (summed + 1 + 1) = 2 * d * (summed + 1) + 2 * d
      BY <1>2, <2>1
    <3> QED
      BY <1>1, <1>2, <2>1, <2>2, <2>4, <2>5, <2>6, <3>1, <3>2
  <2> QED
    BY <2>3, <2>4, <2>6, <2>7 DEF Bounded, d
<1>8. PhaseOK'
  BY <1>1, <1>2, <1>3, <1>5 DEF AdlerInv, PhaseOK, AddByte, HeadDone, ChunkDone, Left
<1> QED
  BY <1>6, <1>7, <1>8 DEF AdlerInv

LEMMA ReduceStep == AdlerInv /\ Reduce => AdlerInv'
<1> SUFFICES ASSUME AdlerInv, Reduce PROVE AdlerInv'
  OBVIOUS
<1>1. Divisor \in Nat \ {0}
  BY AdlerAssumption
<1>2. s1' \in 0 .. Divisor - 1 /\ s2' \in 0 .. Divisor - 1 /\ summed' = 0
  BY <1>1, Quotient DEF AdlerInv, AdlerTypeOK, Reduce
<1>3. AdlerTypeOK' /\ PhaseOK'
  BY <1>1, <1>2 DEF AdlerInv, AdlerTypeOK, PhaseOK, Reduce
<1>4. Bounded'
  <2>1. Divisor - 1 \in Nat /\ ByteMax \in Nat
    BY AdlerAssumption
  <2>2. ByteMax * 0 = 0 /\ ByteMax * 0 * (0 + 1) = 0 /\ 2 * (Divisor - 1) * (0 + 1) = 2 * (Divisor - 1)
    BY <2>1
  <2>3. /\ s1' <= Divisor - 1 + ByteMax * 0
        /\ 2 * s2' <= 2 * (Divisor - 1) * (0 + 1) + ByteMax * 0 * (0 + 1)
    BY <1>2, <2>1, <2>2
  <2> QED
    BY <1>2, <2>3 DEF Bounded
<1> QED
  BY <1>3, <1>4 DEF AdlerInv

LEMMA StartChunkStep == AdlerInv /\ StartChunk => AdlerInv'
<1> SUFFICES ASSUME AdlerInv, StartChunk PROVE AdlerInv'
  OBVIOUS
<1>1. BytesPerIteration \in Nat \ {0} /\ Left \in Nat /\ Left' = Left /\ summed = 0
  BY AdlerAssumption DEF AdlerInv, AdlerTypeOK, PhaseOK, StartChunk, Left
<1>2. Bounded'
  BY DEF AdlerInv, Bounded, StartChunk
<1>3. CASE phase' = "chunk"
  <2> DEFINE whole == Left - (Left % BytesPerIteration)
  <2>1. whole \in Nat /\ whole <= Left
    BY <1>1, Quotient
  <2>2. chunk_size' = ChunkSize(whole)
    BY <1>3 DEF StartChunk
  <2> HIDE DEF whole
  <2>3. /\ chunk_size' \in Nat /\ chunk_size' <= whole /\ chunk_size' <= MaxBytesPerChunk
        /\ ByteMax * (chunk_size' \div BytesPerIteration) <= CounterMax
    BY <2>1, <2>2, ChunkFits
  <2>4. AdlerTypeOK'
    BY <1>3, <2>3 DEF AdlerInv, AdlerTypeOK, StartChunk
  <2>5. PhaseOK'
    BY <1>1, <1>3, <2>1, <2>3 DEF PhaseOK, StartChunk
  <2> QED
    BY <1>2, <2>4, <2>5 DEF AdlerInv
<1>4. CASE phase' = "rest"
  BY <1>1, <1>2, <1>4 DEF AdlerInv, AdlerTypeOK, PhaseOK, StartChunk
<1> QED
  BY <1>3, <1>4 DEF StartChunk

(* With numbers that fit each other, and whatever the bytes, no sum of     *)
(* libdeflate_adler32 overflows before it is reduced.                      *)
THEOREM SumsFitInvariant == AdlerSpec => []SumsFit
<1>1. AdlerInv /\ [AdlerNext \/ (phase = "done" /\ \E bytes \in Seq(Bytes) : StartAdler(bytes))]_adlerVars
        => AdlerInv'
  <2>1. ASSUME AdlerInv, UNCHANGED adlerVars PROVE AdlerInv'
    BY <2>1 DEF adlerVars, AdlerInv, AdlerTypeOK, Bounded, PhaseOK, Left
  <2> QED
    BY <2>1, AddByteStep, ReduceStep, StartChunkStep, StartStep DEF AdlerNext
<1> QED
  BY IdleInv, <1>1, InvFits, PTL DEF AdlerSpec

-----------------------------------------------------------------------------
(* The copy.                                                               *)
Lengths == Nat \ {0}

-----------------------------------------------------------------------------
(* The sizes of the leading dimensions.                                    *)
LEMMA SizesAre ==
    ASSUME NEW d \in Seq(Lengths)
    PROVE  /\ Sizes(d) \in [0 .. Len(d) -> Lengths]
           /\ Sizes(d)[0] = 1
           /\ \A i \in 1 .. Len(d) : Sizes(d)[i] = Sizes(d)[i - 1] * d[i]
<1> DEFINE n == Len(d)
           step == [x \in (1 .. n) \X Lengths |-> x[2] * d[x[1]]]
           G(g) == [i \in 0 .. n |-> IF i = 0 THEN 1 ELSE g[i - 1] * d[i]]
<1>1. n \in Nat /\ 1 \in Lengths /\ \A i \in 1 .. n : d[i] \in Lengths
  BY DEF Lengths
<1>2. \A a, b \in Lengths : a * b \in Lengths
  BY DEF Lengths
<1>3. step \in [(1 .. n) \X Lengths -> Lengths]
  BY <1>1, <1>2
<1>4. PICK f : f \in Walks(n, Lengths, 1, step)
  <2> HIDE DEF step, n
  <2> QED
    BY <1>1, <1>3, WalkExists
<1>5. f = G(f)
  <2>1. f \in [0 .. n -> Lengths] /\ f[0] = 1 /\ \A i \in 1 .. n : f[i] = step[<<i, f[i - 1]>>]
    BY <1>4 DEF Walks
  <2>2. ASSUME NEW i \in 0 .. n, i # 0 PROVE f[i] = f[i - 1] * d[i]
    <3>1. i \in 1 .. n /\ f[i - 1] \in Lengths
      BY <1>1, <2>1, <2>2
    <3> QED
      BY <2>1, <3>1
  <2> HIDE DEF step, n
  <2> QED
    BY <2>1, <2>2
<1>6. Sizes(d) = CHOOSE size : size = G(size)
  BY DEF Sizes
<1> DEFINE s == Sizes(d)
<1>7. s = G(s)
  <2> HIDE DEF G
  <2> QED
    BY <1>5, <1>6
<1> HIDE DEF s
<1>8. s[0] = 1 /\ \A i \in 1 .. n : s[i] = s[i - 1] * d[i]
  BY <1>1, <1>7
<1>9. \A i \in 0 .. n : s[i] \in Lengths
  <2>1. \A i \in 1 .. n : s[i - 1] \in Lengths => s[i] \in Lengths
    BY <1>1, <1>2, <1>8
  <2> HIDE DEF n
  <2> QED
    BY <1>1, <1>8, <2>1, WalkStays
<1>10. s \in [0 .. n -> Lengths]
  BY <1>7, <1>9
<1> QED
  BY <1>8, <1>10 DEF s

-----------------------------------------------------------------------------
(* How far n coordinates lead, whatever a step along each of them means.   *)
Way(x, S, n) ==
    LET way[i \in 0 .. n] == IF i = 0 THEN 0 ELSE way[i - 1] + x[i] * S[i - 1]
    IN  way

LEMMA WayIs ==
    ASSUME NEW n \in Nat, NEW S, NEW x, \A i \in 1 .. n : S[i - 1] \in Int /\ x[i] \in Int
    PROVE  /\ Way(x, S, n) \in [0 .. n -> Int]
           /\ Way(x, S, n)[0] = 0
           /\ \A i \in 1 .. n : Way(x, S, n)[i] = Way(x, S, n)[i - 1] + x[i] * S[i - 1]
<1> DEFINE step == [y \in (1 .. n) \X Int |-> y[2] + x[y[1]] * S[y[1] - 1]]
           G(g) == [i \in 0 .. n |-> IF i = 0 THEN 0 ELSE g[i - 1] + x[i] * S[i - 1]]
<1>1. \A i \in 1 .. n : x[i] \in Int /\ S[i - 1] \in Int /\ x[i] * S[i - 1] \in Int
  <2> TAKE i \in 1 .. n
  <2>1. x[i] \in Int /\ S[i - 1] \in Int
    OBVIOUS
  <2>2. \A a, b \in Int : a * b \in Int
    OBVIOUS
  <2> QED
    BY <2>1, <2>2
<1>2. step \in [(1 .. n) \X Int -> Int]
  BY <1>1
<1>3. PICK f : f \in Walks(n, Int, 0, step)
  <2>1. 0 \in Int
    OBVIOUS
  <2> HIDE DEF step
  <2> QED
    BY <1>2, <2>1, WalkExists
<1>4. f = G(f)
  <2>1. f \in [0 .. n -> Int] /\ f[0] = 0 /\ \A i \in 1 .. n : f[i] = step[<<i, f[i - 1]>>]
    BY <1>3 DEF Walks
  <2>2. ASSUME NEW i \in 0 .. n, i # 0 PROVE f[i] = f[i - 1] + x[i] * S[i - 1]
    <3>1. i \in 1 .. n /\ f[i - 1] \in Int
      BY <2>1, <2>2
    <3> QED
      BY <2>1, <3>1
  <2> HIDE DEF step
  <2> QED
    BY <2>1, <2>2
<1>5. Way(x, S, n) = CHOOSE way : way = G(way)
  BY DEF Way
<1> DEFINE w == Way(x, S, n)
<1>6. w = G(w)
  <2> HIDE DEF G
  <2> QED
    BY <1>4, <1>5
<1> HIDE DEF w
<1>7. w[0] = 0 /\ \A i \in 1 .. n : w[i] = w[i - 1] + x[i] * S[i - 1]
  BY <1>6
<1>8. \A i \in 0 .. n : w[i] \in Int
  <2>1. \A i \in 1 .. n : w[i - 1] \in Int => w[i] \in Int
    <3> TAKE i \in 1 .. n
    <3> HAVE w[i - 1] \in Int
    <3> DEFINE z == x[i] * S[i - 1]
    <3>1. z \in Int /\ w[i] = w[i - 1] + z
      BY <1>1, <1>7
    <3> HIDE DEF z
    <3> QED
      BY <3>1
  <2>2. w[0] \in Int
    BY <1>7
  <2> QED
    BY <2>1, <2>2, WalkStays
<1>9. w \in [0 .. n -> Int]
  BY <1>6, <1>8
<1> QED
  BY <1>7, <1>9 DEF w

LEMMA ReachIsWay == \A x, d : Reach(x, d) = Way(x, Sizes(d), Len(d))
  BY DEF Reach, Way

(* A sum of coordinates leads as far as both.                              *)
LEMMA WayAdds ==
    ASSUME NEW n \in Nat, NEW S, NEW x, NEW y, NEW z,
           \A i \in 1 .. n : S[i - 1] \in Int /\ x[i] \in Int /\ y[i] \in Int /\ z[i] = x[i] + y[i]
    PROVE  \A i \in 0 .. n : Way(z, S, n)[i] = Way(x, S, n)[i] + Way(y, S, n)[i]
<1> DEFINE u == Way(x, S, n)
           v == Way(y, S, n)
           w == Way(z, S, n)
<1>1. u \in [0 .. n -> Int] /\ u[0] = 0 /\ \A i \in 1 .. n : u[i] = u[i - 1] + x[i] * S[i - 1]
  BY WayIs, ZenonT(60)
<1>2. v \in [0 .. n -> Int] /\ v[0] = 0 /\ \A i \in 1 .. n : v[i] = v[i - 1] + y[i] * S[i - 1]
  BY WayIs, ZenonT(60)
<1>3. w \in [0 .. n -> Int] /\ w[0] = 0 /\ \A i \in 1 .. n : w[i] = w[i - 1] + z[i] * S[i - 1]
  BY WayIs, SMTT(60)
<1> HIDE DEF u, v, w
<1> DEFINE T == {i \in 0 .. n : w[i] = u[i] + v[i]}
<1>4. ASSUME NEW i \in 1 .. n, i - 1 \in T PROVE i \in T
  <2> DEFINE a == x[i]
             b == y[i]
             c == S[i - 1]
             pos == u[i - 1]
             q == v[i - 1]
  <2>1. a \in Int /\ b \in Int /\ c \in Int /\ pos \in Int /\ q \in Int /\ z[i] = a + b
    BY <1>1, <1>2
  <2>2. u[i] = pos + a * c /\ v[i] = q + b * c /\ w[i] = (pos + q) + (a + b) * c
    BY <1>1, <1>2, <1>3, <1>4, <2>1
  <2> HIDE DEF a, b, c, pos, q
  <2>3. (a + b) * c = a * c + b * c /\ a * c \in Int /\ b * c \in Int
    BY <2>1
  <2>4. w[i] = u[i] + v[i]
    BY <2>1, <2>2, <2>3
  <2> QED
    BY <2>4
<1>5. 0 \in T
  BY <1>1, <1>2, <1>3
<1> HIDE DEF T
<1>6. \A i \in 0 .. n : i \in T
  BY <1>4, <1>5, InductionUpTo
<1> QED
  BY <1>6 DEF T, u, v, w

(* Coordinates that agree along some dimensions lead equally far there.    *)
Agrees(x, n, y, k, S, m, l) ==
    /\ n \in Nat /\ k \in Nat /\ n <= k /\ m \in 0 .. n /\ l \in m .. n
    /\ \A i \in 1 .. k : S[i - 1] \in Int /\ y[i] \in Int
    /\ \A i \in 1 .. n : x[i] \in Int
    /\ \A i \in m + 1 .. l : x[i] = y[i]

LEMMA WayAgrees ==
    ASSUME NEW n, NEW k, NEW S, NEW x, NEW y, NEW m, NEW l, Agrees(x, n, y, k, S, m, l)
    PROVE  Way(x, S, n)[l] - Way(x, S, n)[m] = Way(y, S, k)[l] - Way(y, S, k)[m]
<1> DEFINE u == Way(x, S, n)
           v == Way(y, S, k)
<1>0. /\ n \in Nat /\ k \in Nat /\ n <= k /\ m \in 0 .. n /\ l \in m .. n
      /\ \A i \in 1 .. k : S[i - 1] \in Int /\ y[i] \in Int
      /\ \A i \in 1 .. n : x[i] \in Int
      /\ \A i \in m + 1 .. l : x[i] = y[i]
  BY DEF Agrees
<1>1. u \in [0 .. n -> Int] /\ u[0] = 0 /\ \A i \in 1 .. n : u[i] = u[i - 1] + x[i] * S[i - 1]
  <2>1. \A i \in 1 .. n : S[i - 1] \in Int /\ x[i] \in Int
    BY <1>0
  <2> QED
    BY <1>0, <2>1, WayIs, ZenonT(60)
<1>2. v \in [0 .. k -> Int] /\ v[0] = 0 /\ \A i \in 1 .. k : v[i] = v[i - 1] + y[i] * S[i - 1]
  BY <1>0, WayIs, ZenonT(60)
<1> HIDE DEF u, v
<1> DEFINE T == {i \in 0 .. l : m <= i => u[i] - u[m] = v[i] - v[m]}
<1>3. 0 \in T
  BY <1>0, <1>1, <1>2
<1>4. ASSUME NEW i \in 1 .. l, i - 1 \in T PROVE i \in T
  <2>1. CASE i <= m
    BY <1>0, <1>1, <1>2, <2>1
  <2>2. CASE i \in m + 1 .. l
    <3> DEFINE a == x[i] * S[i - 1]
    <3>1. u[i - 1] - u[m] = v[i - 1] - v[m] /\ u[i - 1] \in Int /\ v[i - 1] \in Int /\ u[m] \in Int /\ v[m] \in Int
      <4>1. i - 1 \in 0 .. l /\ m <= i - 1 /\ i - 1 \in 0 .. n /\ i - 1 \in 0 .. k /\ m \in 0 .. k
        BY <1>0, <2>2
      <4>2. u[i - 1] - u[m] = v[i - 1] - v[m]
        BY <1>4, <4>1
      <4> QED
        BY <1>0, <1>1, <1>2, <4>1, <4>2
    <3>2. u[i] = u[i - 1] + a /\ v[i] = v[i - 1] + a /\ u[i] \in Int /\ v[i] \in Int
      BY <1>0, <1>1, <1>2, <2>2, SMTT(60)
    <3>3. a \in Int
      <4>1. S[i - 1] \in Int /\ x[i] \in Int
        BY <1>0, <2>2
      <4>2. \A pos, q \in Int : pos * q \in Int
        OBVIOUS
      <4> QED
        BY <4>1, <4>2
    <3> HIDE DEF a
    <3>4. u[i] - u[m] = v[i] - v[m]
      BY <3>1, <3>2, <3>3
    <3> QED
      BY <3>4
  <2> QED
    BY <1>0, <2>1, <2>2
<1> HIDE DEF T
<1>5. l \in Nat /\ l \in 0 .. l /\ m <= l
  BY <1>0
<1>6. \A i \in 0 .. l : i \in T
  BY <1>3, <1>4, <1>5, InductionUpTo
<1> QED
  BY <1>5, <1>6 DEF T, u, v

(* Coordinates within lengths lead to less than the size.                  *)
LEMMA WayWithin ==
    ASSUME NEW d \in Seq(Lengths), NEW x, NEW m \in 0 .. Len(d),
           \A i \in 1 .. Len(d) : x[i] \in Int, \A i \in 1 .. m : x[i] \in 0 .. d[i] - 1
    PROVE  Way(x, Sizes(d), Len(d))[m] \in 0 .. Sizes(d)[m] - 1
<1> DEFINE n == Len(d)
           S == Sizes(d)
           w == Way(x, S, n)
<1>1. n \in Nat /\ S \in [0 .. n -> Lengths] /\ S[0] = 1 /\ \A i \in 1 .. n : S[i] = S[i - 1] * d[i]
  BY SizesAre
<1>2. \A i \in 1 .. n : d[i] \in Lengths /\ S[i - 1] \in Int
  <2> HIDE DEF S
  <2> TAKE i \in 1 .. n
  <2>1. i - 1 \in 0 .. n /\ d[i] \in Lengths
    BY <1>1
  <2> HIDE DEF n
  <2>2. S[i - 1] \in Lengths
    BY <1>1, <2>1
  <2> QED
    BY <2>1, <2>2 DEF Lengths
<1> HIDE DEF n, S
<1>3. w \in [0 .. n -> Int] /\ w[0] = 0 /\ \A i \in 1 .. n : w[i] = w[i - 1] + x[i] * S[i - 1]
  BY <1>1, <1>2, WayIs, ZenonT(60) DEF n
<1> HIDE DEF w
<1> DEFINE T == {i \in 0 .. m : w[i] \in 0 .. S[i] - 1}
<1>4. 0 \in T
  BY <1>1, <1>3
<1>5. ASSUME NEW i \in 1 .. m, i - 1 \in T PROVE i \in T
  <2> DEFINE a == x[i]
             c == S[i - 1]
             e == d[i]
             pos == w[i - 1]
  <2>1. i \in 1 .. n
    BY <1>1 DEF n
  <2>2. c \in Lengths /\ e \in Lengths /\ a \in Int /\ 0 <= a /\ a <= e - 1 /\ pos \in Int /\ 0 <= pos /\ pos <= c - 1
    BY <1>1, <1>2, <1>5, <2>1 DEF Lengths
  <2>3. w[i] = pos + a * c /\ S[i] = c * e
    BY <1>1, <1>3, <2>1
  <2> HIDE DEF a, c, e, pos
  <2>4. 0 <= a * c /\ a * c <= (e - 1) * c /\ a * c \in Int
    BY <2>2 DEF Lengths
  <2>5. (e - 1) * c = c * e - c /\ c * e \in Int
    BY <2>2 DEF Lengths
  <2>6. c \in Int /\ S[i] \in Int
    BY <2>2, <2>3, <2>5 DEF Lengths
  <2> DEFINE A == a * c
             Q == (e - 1) * c
  <2>7. A \in Int /\ 0 <= A /\ A <= Q /\ Q = S[i] - c /\ w[i] = pos + A
    BY <2>3, <2>4, <2>5
  <2> HIDE DEF A, Q
  <2>8. w[i] \in Int /\ 0 <= w[i] /\ w[i] <= S[i] - 1
    BY <2>2, <2>6, <2>7
  <2> QED
    BY <2>6, <2>8
<1> HIDE DEF T
<1>6. m \in Nat
  BY <1>1 DEF n
<1>7. \A i \in 0 .. m : i \in T
  BY <1>4, <1>5, <1>6, InductionUpTo
<1> QED
  BY <1>6, <1>7 DEF T, n, S, w

(* No coordinate, no way.                                                  *)
LEMMA WayOfNothing ==
    ASSUME NEW n \in Nat, NEW S, NEW x, NEW m \in 0 .. n,
           \A i \in 1 .. n : S[i - 1] \in Int /\ x[i] \in Int, \A i \in 1 .. m : x[i] = 0
    PROVE  Way(x, S, n)[m] = 0
<1> DEFINE w == Way(x, S, n)
           T == {i \in 0 .. m : w[i] = 0}
<1>1. w \in [0 .. n -> Int] /\ w[0] = 0 /\ \A i \in 1 .. n : w[i] = w[i - 1] + x[i] * S[i - 1]
  BY WayIs, ZenonT(60)
<1> HIDE DEF w
<1>2. 0 \in T
  BY <1>1
<1>3. ASSUME NEW i \in 1 .. m, i - 1 \in T PROVE i \in T
  <2>1. i \in 1 .. n /\ x[i] = 0 /\ S[i - 1] \in Int /\ w[i - 1] = 0
    BY <1>3
  <2>2. x[i] * S[i - 1] = 0
    BY <2>1
  <2>3. w[i] = 0
    BY <1>1, <2>1, <2>2
  <2> QED
    BY <2>3
<1> HIDE DEF T
<1>4. m \in Nat
  OBVIOUS
<1>5. \A i \in 0 .. m : i \in T
  BY <1>2, <1>3, <1>4, InductionUpTo
<1> QED
  BY <1>4, <1>5 DEF T, w

(* The last element of the whole is the last of its size.                  *)
LEMMA WayOfLast ==
    ASSUME NEW d \in Seq(Lengths), NEW x, \A i \in 1 .. Len(d) : x[i] = d[i] - 1
    PROVE  \A i \in 0 .. Len(d) : Way(x, Sizes(d), Len(d))[i] = Sizes(d)[i] - 1
<1> DEFINE n == Len(d)
           S == Sizes(d)
           w == Way(x, S, n)
           T == {i \in 0 .. n : w[i] = S[i] - 1}
<1>1. n \in Nat /\ S \in [0 .. n -> Lengths] /\ S[0] = 1 /\ \A i \in 1 .. n : S[i] = S[i - 1] * d[i]
  BY SizesAre
<1>2. \A i \in 1 .. n : d[i] \in Lengths /\ x[i] \in Int
  BY <1>1 DEF Lengths
<1> HIDE DEF n, S
<1>3. \A i \in 1 .. n : S[i - 1] \in Lengths /\ S[i - 1] \in Int /\ x[i] \in Int
  BY <1>1, <1>2 DEF Lengths
<1>4. w \in [0 .. n -> Int] /\ w[0] = 0 /\ \A i \in 1 .. n : w[i] = w[i - 1] + x[i] * S[i - 1]
  <2>1. \A i \in 1 .. n : S[i - 1] \in Int /\ x[i] \in Int
    BY <1>3
  <2>2. n \in Nat
    BY <1>1
  <2> QED
    BY <2>1, <2>2, WayIs, SMTT(60)
<1> HIDE DEF w
<1>5. 0 \in T
  BY <1>1, <1>4
<1>6. ASSUME NEW i \in 1 .. n, i - 1 \in T PROVE i \in T
  <2> DEFINE c == S[i - 1]
             e == d[i]
             pos == w[i - 1]
  <2>1. c \in Lengths /\ e \in Lengths /\ pos = c - 1
    BY <1>2, <1>3, <1>6
  <2>2. w[i] = pos + (e - 1) * c /\ S[i] = c * e
    BY <1>1, <1>4 DEF n
  <2> HIDE DEF c, e, pos
  <2>3. (e - 1) * c = c * e - c /\ c * e \in Int
    BY <2>1 DEF Lengths
  <2>4. w[i] = S[i] - 1
    BY <2>1, <2>2, <2>3 DEF Lengths
  <2> QED
    BY <2>4
<1> HIDE DEF T
<1>7. \A i \in 0 .. n : i \in T
  BY <1>1, <1>5, <1>6, InductionUpTo
<1> QED
  BY <1>7 DEF T, n, S, w

-----------------------------------------------------------------------------
(* From one run to the next: the first u dimensions above the run's own    *)
(* are complete and begin again, the one above them goes on.  Dimension    *)
(* n + 1 counts whole chunks.                                              *)
Stepped(pos, q, t, u, n) ==
    /\ u \in 0 .. n - 1
    /\ pos \in [1 .. n + 1 -> Nat] /\ q \in [1 .. n + 1 -> Nat]
    /\ pos[1] = 0 /\ q[1] = 0
    /\ \A k \in 2 .. u + 1 : pos[k] = t[k] - 1 /\ q[k] = 0
    /\ q[u + 2] = pos[u + 2] + 1
    /\ \A k \in u + 3 .. n + 1 : q[k] = pos[k]

(* The jump that is chosen by the number of complete dimensions leads      *)
(* from the end of the one run to the beginning of the other.              *)
LEMMA JumpLeads ==
    ASSUME NEW d \in Seq(Lengths), NEW t, \A i \in 1 .. Len(d) : t[i] \in Lengths,
           NEW pos, NEW q, NEW u, Stepped(pos, q, t, u, Len(d))
    PROVE  /\ Way(q, Sizes(d), Len(d) + 1)[Len(d) + 1]
                 = Way(pos, Sizes(d), Len(d) + 1)[Len(d) + 1] + t[1] + MakeChunkedUpdates(t, d)[u + 1]
           /\ MakeChunkedUpdates(t, d)[u + 1] \in Int
<1> DEFINE n == Len(d)
           S == Sizes(d)
           x == [k \in 1 .. n |-> t[k] - 1]
           P == Way(pos, S, n + 1)
           Q == Way(q, S, n + 1)
           R == Way(x, S, n)
<1>1. n \in Nat /\ S \in [0 .. n -> Lengths] /\ S[0] = 1
  BY SizesAre
<1>2. MakeChunkedUpdates(t, d) = [i \in 1 .. n |-> S[i] - R[i] - 1]
  BY ReachIsWay DEF MakeChunkedUpdates
<1>3. \A i \in 1 .. n : t[i] \in Lengths
  OBVIOUS
<1>4. Stepped(pos, q, t, u, n)
  OBVIOUS
<1> HIDE DEF n, S
<1>5. \A i \in 1 .. n + 1 : S[i - 1] \in Int /\ pos[i] \in Int /\ q[i] \in Int
  <2> TAKE i \in 1 .. n + 1
  <2>1. i - 1 \in 0 .. n
    BY <1>1
  <2>2. S[i - 1] \in Lengths
    BY <1>1, <2>1
  <2> QED
    <3>1. pos \in [1 .. n + 1 -> Nat] /\ q \in [1 .. n + 1 -> Nat]
      BY <1>4 DEF Stepped
    <3> QED
      BY <2>2, <3>1 DEF Lengths
<1>6. \A i \in 1 .. n : S[i - 1] \in Int /\ x[i] \in Int /\ x[i] = t[i] - 1
  BY <1>1, <1>3 DEF Lengths
<1>7. n + 1 \in Nat /\ u \in Nat /\ u + 1 \in 1 .. n /\ u + 2 \in 1 .. n + 1 /\ (u + 2) - 1 = u + 1
  BY <1>1, <1>4 DEF Stepped
<1>8. P \in [0 .. n + 1 -> Int] /\ P[0] = 0 /\ \A i \in 1 .. n + 1 : P[i] = P[i - 1] + pos[i] * S[i - 1]
  BY <1>5, <1>7, WayIs, ZenonT(60)
<1>9. Q \in [0 .. n + 1 -> Int] /\ Q[0] = 0 /\ \A i \in 1 .. n + 1 : Q[i] = Q[i - 1] + q[i] * S[i - 1]
  BY <1>5, <1>7, WayIs, ZenonT(60)
<1> HIDE DEF x
<1>10. R \in [0 .. n -> Int] /\ R[0] = 0 /\ \A i \in 1 .. n : R[i] = R[i - 1] + x[i] * S[i - 1]
  <2>1. n \in Nat
    BY <1>1
  <2>2. \A i \in 1 .. n : S[i - 1] \in Int /\ x[i] \in Int
    BY <1>6
  <2> QED
    BY <2>1, <2>2, WayIs, ZenonT(60)
<1>11. R[u + 1] - R[1] = P[u + 1] - P[1]
  <2>1. \A i \in 1 + 1 .. u + 1 : x[i] = pos[i]
    <3> TAKE i \in 1 + 1 .. u + 1
    <3>1. i \in 1 .. n /\ i \in 2 .. u + 1
      BY <1>1, <1>7
    <3> QED
      BY <1>4, <1>6, <3>1 DEF Stepped
  <2>2. n \in Nat /\ n + 1 \in Nat /\ 1 \in 0 .. n /\ u + 1 \in 1 .. n /\ n <= n + 1
    BY <1>1, <1>7
  <2>3. \A i \in 1 .. n + 1 : S[i - 1] \in Int /\ pos[i] \in Int
    BY <1>5
  <2>4. \A i \in 1 .. n : x[i] \in Int
    BY <1>6
  <2> DEFINE k == n + 1
             l == u + 1
  <2> HIDE DEF k, l
  <2>5. Way(x, S, n)[l] - Way(x, S, n)[1] = Way(pos, S, k)[l] - Way(pos, S, k)[1]
    <3>1. n \in Nat /\ k \in Nat /\ 1 \in 0 .. n /\ l \in 1 .. n /\ n <= k
      BY <2>2 DEF k, l
    <3>2. \A i \in 1 .. k : S[i - 1] \in Int /\ pos[i] \in Int
      BY <2>3 DEF k
    <3>3. \A i \in 1 + 1 .. l : x[i] = pos[i]
      BY <2>1 DEF l
    <3>4. Agrees(x, n, pos, k, S, 1, l)
      BY <2>4, <3>1, <3>2, <3>3 DEF Agrees
    <3> QED
      BY <3>4, WayAgrees
  <2> QED
    BY <2>5 DEF k, l
<1>12. Q[u + 1] = 0
  <2>1. u + 1 \in 0 .. n + 1 /\ \A i \in 1 .. u + 1 : q[i] = 0
    BY <1>4, <1>7 DEF Stepped
  <2> QED
    BY <1>5, <1>7, <2>1, WayOfNothing
<1>13. Q[n + 1] - Q[u + 2] = P[n + 1] - P[u + 2]
  <2>1. \A i \in (u + 2) + 1 .. n + 1 : q[i] = pos[i]
    BY <1>4, <1>7 DEF Stepped
  <2>2. u + 2 \in 0 .. n + 1 /\ n + 1 \in u + 2 .. n + 1 /\ n + 1 <= n + 1
    BY <1>1, <1>7
  <2> DEFINE k == n + 1
             m == u + 2
  <2> HIDE DEF k, m
  <2>3. Way(q, S, k)[k] - Way(q, S, k)[m] = Way(pos, S, k)[k] - Way(pos, S, k)[m]
    <3>1. k \in Nat /\ m \in 0 .. k /\ k \in m .. k /\ k <= k
      BY <1>7, <2>2 DEF k, m
    <3>2. \A i \in 1 .. k : S[i - 1] \in Int /\ pos[i] \in Int
      BY <1>5 DEF k
    <3>3. \A i \in 1 .. k : q[i] \in Int
      BY <1>5 DEF k
    <3>4. \A i \in m + 1 .. k : q[i] = pos[i]
      BY <2>1 DEF m, k
    <3>5. Agrees(q, k, pos, k, S, m, k)
      BY <3>1, <3>2, <3>3, <3>4 DEF Agrees
    <3> QED
      BY <3>5, WayAgrees
  <2> QED
    BY <2>3 DEF k, m
<1> HIDE DEF P, Q, R
<1>14. P[1] = 0 /\ R[1] = t[1] - 1
  <2>1. 1 \in 1 .. n + 1 /\ 1 \in 1 .. n /\ 1 - 1 = 0
    BY <1>1, <1>7
  <2>2. P[1] = P[0] + pos[1] * S[0] /\ R[1] = R[0] + x[1] * S[0]
    BY <1>8, <1>10, <2>1
  <2>3. pos[1] = 0 /\ x[1] = t[1] - 1 /\ t[1] - 1 \in Int
    BY <1>3, <1>4, <1>6, <2>1 DEF Stepped, Lengths
  <2> QED
    BY <1>1, <1>8, <1>10, <2>2, <2>3
<1>15. Q[u + 2] = P[u + 2] - P[u + 1] + S[u + 1]
  <2> DEFINE a == pos[u + 2]
             c == S[u + 1]
             g == P[u + 1]
  <2>1. a \in Nat /\ c \in Int /\ g \in Int
    BY <1>1, <1>4, <1>7, <1>8 DEF Stepped, Lengths
  <2>2. q[u + 2] = a + 1
    BY <1>4 DEF Stepped
  <2>3. Q[u + 2] = 0 + (a + 1) * c
    BY <1>7, <1>9, <1>12, <2>2
  <2>4. P[u + 2] = g + a * c
    BY <1>7, <1>8
  <2> HIDE DEF a, c, g
  <2>5. (a + 1) * c = a * c + c /\ a * c \in Int
    BY <2>1
  <2>6. Q[u + 2] = P[u + 2] - g + c
    BY <2>1, <2>3, <2>4, <2>5
  <2> QED
    BY <2>6 DEF c, g
<1>16. MakeChunkedUpdates(t, d)[u + 1] = S[u + 1] - R[u + 1] - 1
  BY <1>2, <1>7
<1>17. /\ t[1] \in Int /\ S[u + 1] \in Int /\ R[u + 1] \in Int /\ P[u + 1] \in Int /\ P[u + 2] \in Int
       /\ P[n + 1] \in Int /\ Q[n + 1] \in Int /\ Q[u + 2] \in Int
  <2>1. u + 1 \in 0 .. n /\ u + 1 \in 0 .. n + 1 /\ u + 2 \in 0 .. n + 1 /\ n + 1 \in 0 .. n + 1 /\ 1 \in 1 .. n
    BY <1>1, <1>7
  <2>2. t[1] \in Lengths /\ S[u + 1] \in Lengths
    BY <1>1, <1>3, <2>1
  <2> QED
    BY <1>8, <1>9, <1>10, <2>1, <2>2 DEF Lengths
<1>18. Q[n + 1] = P[n + 1] + t[1] + (S[u + 1] - R[u + 1] - 1)
  <2> DEFINE a == P[n + 1]
             b == Q[n + 1]
             c == P[u + 2]
             e == Q[u + 2]
             f == P[u + 1]
             g == R[u + 1]
             h == S[u + 1]
             j == t[1]
  <2>1. a \in Int /\ b \in Int /\ c \in Int /\ e \in Int /\ f \in Int /\ g \in Int /\ h \in Int /\ j \in Int
    BY <1>17
  <2>2. g - (j - 1) = f - 0 /\ b - e = a - c /\ e = c - f + h
    BY <1>11, <1>13, <1>14, <1>15
  <2> HIDE DEF a, b, c, e, f, g, h, j
  <2>3. b = a + j + (h - g - 1)
    BY <2>1, <2>2
  <2> QED
    BY <2>3 DEF a, b, g, h, j
<1>19. S[u + 1] - R[u + 1] - 1 \in Int
  BY <1>17
<1> QED
  BY <1>16, <1>18, <1>19 DEF P, Q, n, S

-----------------------------------------------------------------------------
(* The chunk at chunk_start: where it is, and what the array leaves of it. *)
Taken ==
    /\ layout \in Layouts
    /\ chunk_start \in ChunkStarts(layout)

LEMMA LayoutIs ==
    ASSUME layout \in Layouts
    PROVE  /\ dims \in Seq(Lengths) /\ chunked_dims \in Seq(Lengths)
           /\ num_dims \in Nat /\ num_dims >= 1 /\ Dims = 1 .. num_dims
           /\ Len(dims) = num_dims /\ Len(chunked_dims) = num_dims
           /\ \A j \in Dims : dims[j] \in Lengths /\ chunked_dims[j] \in Lengths
<1>1. /\ layout.dims \in Seq(Lengths) /\ layout.dims # <<>>
      /\ layout.chunked_dims \in Seq(Lengths) /\ Len(layout.chunked_dims) = Len(layout.dims)
  BY CopyAssumption DEF Lengths
<1> DEFINE d == layout.dims
           c == layout.chunked_dims
<1>2. Len(d) \in Nat /\ Len(d) >= 1
  BY <1>1
<1>3. \A j \in 1 .. Len(d) : d[j] \in Lengths /\ c[j] \in Lengths
  BY <1>1
<1> QED
  BY <1>1, <1>2, <1>3 DEF dims, chunked_dims, num_dims, Dims

LEMMA LesserOf ==
    ASSUME NEW a \in Nat, NEW b \in Nat
    PROVE  Min({a, b}) = IF a <= b THEN a ELSE b
<1> DEFINE m == IF a <= b THEN a ELSE b
<1>1. m \in {a, b} /\ \A y \in {a, b} : m <= y
  OBVIOUS
<1>2. \A x \in {a, b} : (\A y \in {a, b} : x <= y) => x = m
  OBVIOUS
<1> QED
  BY <1>1, <1>2 DEF Min

(* coordinates, without the bound that makes them a finite set *)
LEMMA CoordinatesAre ==
    ASSUME NEW d \in Seq(Lengths)
    PROVE  Coordinates(d) = {x \in [1 .. Len(d) -> Nat] : \A j \in 1 .. Len(d) : x[j] < d[j]}
<1> DEFINE U == UNION {0 .. n - 1 : n \in ToSet(d)}
           n == Len(d)
<1>1. n \in Nat /\ \A j \in 1 .. n : d[j] \in Lengths /\ d[j] \in ToSet(d)
  BY DEF ToSet
<1>2. \A m \in ToSet(d) : m \in Lengths
  BY DEF ToSet
<1>3. U \subseteq Nat
  BY <1>2 DEF Lengths
<1>4. \A j \in 1 .. n, v \in Nat : v < d[j] => v \in U
  BY <1>1 DEF Lengths
<1> HIDE DEF U, n
<1>5. Coordinates(d) = {x \in [1 .. n -> U] : \A j \in 1 .. n : x[j] < d[j]}
  BY DEF Coordinates, U, n
<1>6. ASSUME NEW x \in [1 .. n -> Nat], \A j \in 1 .. n : x[j] < d[j] PROVE x \in [1 .. n -> U]
  BY <1>4, <1>6
<1>7. \A x \in [1 .. n -> U] : x \in [1 .. n -> Nat]
  BY <1>3
<1> QED
  BY <1>5, <1>6, <1>7 DEF n

LEMMA ChunkIs ==
    ASSUME Taken
    PROVE  /\ chunk_start \in [Dims -> Nat] /\ TheseChunkedDims \in [Dims -> Lengths]
           /\ \A j \in Dims :
                /\ chunk_start[j] < dims[j] /\ chunk_start[j] % chunked_dims[j] = 0
                /\ TheseChunkedDims[j] <= chunked_dims[j]
                /\ chunk_start[j] + TheseChunkedDims[j] <= dims[j]
                /\ \A o \in Nat : o < chunked_dims[j] /\ chunk_start[j] + o < dims[j] => o < TheseChunkedDims[j]
<1>1. /\ dims \in Seq(Lengths) /\ Len(dims) = num_dims /\ Dims = 1 .. num_dims
      /\ \A j \in Dims : dims[j] \in Lengths /\ chunked_dims[j] \in Lengths
  BY LayoutIs DEF Taken
<1>2. chunk_start \in Coordinates(dims) /\ \A j \in Dims : chunk_start[j] % chunked_dims[j] = 0
  BY <1>1 DEF Taken, ChunkStarts, dims, chunked_dims
<1>3. chunk_start \in [Dims -> Nat] /\ \A j \in Dims : chunk_start[j] < dims[j]
  BY <1>1, <1>2, CoordinatesAre
<1>4. ASSUME NEW j \in Dims
      PROVE  /\ TheseChunkedDims[j] \in Lengths /\ TheseChunkedDims[j] <= chunked_dims[j]
             /\ chunk_start[j] + TheseChunkedDims[j] <= dims[j]
             /\ \A o \in Nat : o < chunked_dims[j] /\ chunk_start[j] + o < dims[j] => o < TheseChunkedDims[j]
  <2> DEFINE a == chunked_dims[j]
             e == dims[j]
             s == chunk_start[j]
  <2>1. a \in Lengths /\ e \in Lengths /\ s \in Nat /\ s < e
    BY <1>1, <1>3
  <2>2. TheseChunkedDims[j] = Min({a, e - s})
    BY DEF TheseChunkedDims
  <2> HIDE DEF a, e, s
  <2>3. a \in Nat /\ e - s \in Nat
    BY <2>1 DEF Lengths
  <2>4. TheseChunkedDims[j] = IF a <= e - s THEN a ELSE e - s
    BY <2>2, <2>3, LesserOf
  <2> DEFINE t == TheseChunkedDims[j]
  <2> HIDE DEF t
  <2>5. t \in Lengths /\ t <= a /\ s + t <= e /\ \A o \in Nat : o < a /\ s + o < e => o < t
    BY <2>1, <2>4 DEF Lengths, t
  <2> QED
    BY <2>5 DEF t, a, e, s
<1>5. TheseChunkedDims = [j \in Dims |-> TheseChunkedDims[j]]
  BY DEF TheseChunkedDims
<1> QED
  BY <1>2, <1>3, <1>4, <1>5

-----------------------------------------------------------------------------
(* Where the run is in the chunk.  The loop has reached curr_max_dim.      *)
PosOK ==
    /\ chunk_pos \in [1 .. num_dims + 1 -> Nat] /\ chunk_pos[1] = 0
    /\ \A k \in 2 .. num_dims : chunk_pos[k] < TheseChunkedDims[k]
    /\ chunk_pos[num_dims + 1] = 0
    /\ curr_max_dim \in Nat /\ curr_max_dim >= 2
    /\ curr_max_dim <= num_dims \/ num_dims = 1

(* what the loop over the dimensions has made of it after dimension j *)
States == [pos : [1 .. num_dims + 1 -> Nat], max : Nat, use_update : Nat]
CarriedTo(s, j) ==
    /\ s \in States
    /\ Stepped(chunk_pos, s.pos, TheseChunkedDims, s.use_update, num_dims)
    /\ s.use_update <= j - 1
    /\ s.use_update < j - 1 /\ s.use_update + 2 <= num_dims =>
        s.pos[s.use_update + 2] < TheseChunkedDims[s.use_update + 2]
    /\ s.max = IF curr_max_dim < s.use_update + 2 THEN s.use_update + 2 ELSE curr_max_dim

LEMMA CarryStays ==
    ASSUME NEW s \in States, NEW j \in 2 .. num_dims + 1, num_dims \in Nat
    PROVE  Carry(s, j) \in States
<1>1. s.pos \in [1 .. num_dims + 1 -> Nat] /\ s.max \in Nat /\ s.use_update \in Nat
  BY DEF States
<1>2. [s.pos EXCEPT ![j] = 0, ![j + 1] = @ + 1] \in [1 .. num_dims + 1 -> Nat]
  <2> DEFINE N == 1 .. num_dims + 1
             v == [s.pos EXCEPT ![j] = 0]
  <2>1. v \in [N -> Nat]
    BY <1>1
  <2> HIDE DEF v
  <2>2. [v EXCEPT ![j + 1] = @ + 1] \in [N -> Nat]
    <3>1. ASSUME NEW k \in N PROVE (IF k = j + 1 THEN v[k] + 1 ELSE v[k]) \in Nat
      BY <2>1
    <3> HIDE DEF N
    <3>2. [v EXCEPT ![j + 1] = @ + 1] = [k \in N |-> IF k = j + 1 THEN v[k] + 1 ELSE v[k]]
      BY <2>1
    <3> QED
      BY <3>1, <3>2
  <2> QED
    BY <2>2, SMTT(60) DEF v
<1>3. (IF s.max <= j THEN s.max + 1 ELSE s.max) \in Nat /\ s.use_update + 1 \in Nat
  BY <1>1
<1>4. [pos |-> [s.pos EXCEPT ![j] = 0, ![j + 1] = @ + 1],
       max |-> IF s.max <= j THEN s.max + 1 ELSE s.max,
       use_update |-> s.use_update + 1] \in States
  BY <1>2, <1>3 DEF States
<1> QED
  BY <1>4 DEF Carry

(* the loop begins by counting the run that is done *)
LEMMA CarryBegins ==
    ASSUME PosOK, num_dims \in Nat, num_dims >= 1
    PROVE  CarriedTo([pos |-> [chunk_pos EXCEPT ![2] = @ + 1], max |-> curr_max_dim, use_update |-> 0], 1)
<1> DEFINE q == [chunk_pos EXCEPT ![2] = @ + 1]
           N == 1 .. num_dims + 1
<1>1. chunk_pos \in [N -> Nat] /\ chunk_pos[1] = 0 /\ curr_max_dim \in Nat /\ curr_max_dim >= 2
  BY DEF PosOK
<1>2. 2 \in N /\ 1 \in N
  OBVIOUS
<1>3. q \in [N -> Nat] /\ q[1] = 0 /\ q[2] = chunk_pos[2] + 1 /\ \A k \in 3 .. num_dims + 1 : q[k] = chunk_pos[k]
  BY <1>1, <1>2
<1> HIDE DEF q
<1>4. Stepped(chunk_pos, q, TheseChunkedDims, 0, num_dims)
  BY <1>1, <1>3 DEF Stepped
<1>5. [pos |-> q, max |-> curr_max_dim, use_update |-> 0] \in States
  BY <1>1, <1>3 DEF States
<1> QED
  BY <1>1, <1>4, <1>5 DEF CarriedTo, q

(* ... and goes on while the dimensions are complete.                      *)
LEMMA CarryGoesOn ==
    ASSUME PosOK, num_dims \in Nat, num_dims >= 1, Dims = 1 .. num_dims,
           \A k \in Dims : TheseChunkedDims[k] \in Lengths,
           NEW j \in 2 .. num_dims + 1, NEW s, CarriedTo(s, j - 1)
    PROVE  CarriedTo(Carry(s, j), j)
<1> DEFINE D == num_dims
           N == 1 .. D + 1
           pos == chunk_pos
           t == TheseChunkedDims
           m == curr_max_dim
           u == s.use_update
           q == s.pos
           v == IF j \in Dims THEN TheseChunkedDims[j] ELSE 0
           x == s.max
<1>1. D \in Nat /\ D >= 1 /\ j \in 2 .. D + 1 /\ j \in Nat /\ (j <= D => v = t[j]) /\ (j = D + 1 => v = 0)
  OBVIOUS
<1>2. /\ pos \in [N -> Nat] /\ pos[1] = 0 /\ pos[D + 1] = 0 /\ m \in Nat /\ m >= 2 /\ (m <= D \/ D = 1)
      /\ \A k \in 2 .. D : pos[k] < t[k]
  BY DEF PosOK
<1>3. s \in States /\ Stepped(pos, q, t, u, D) /\ u <= (j - 1) - 1
      /\ (u < (j - 1) - 1 /\ u + 2 <= D => q[u + 2] < t[u + 2])
      /\ x = (IF m < u + 2 THEN u + 2 ELSE m)
  BY DEF CarriedTo
<1>4. u \in 0 .. D - 1 /\ q \in [N -> Nat] /\ q[1] = 0
      /\ (\A k \in 2 .. u + 1 : pos[k] = t[k] - 1 /\ q[k] = 0)
      /\ q[u + 2] = pos[u + 2] + 1 /\ \A k \in u + 3 .. D + 1 : q[k] = pos[k]
  BY <1>3 DEF Stepped
<1>5. \A k \in 2 .. D : t[k] \in Lengths
  BY <1>1
<1> DEFINE r == [q EXCEPT ![j] = 0, ![j + 1] = @ + 1]
           y == IF x <= j THEN x + 1 ELSE x
<1>10. j <= x /\ q[j] = v => Carry(s, j) = [pos |-> r, max |-> y, use_update |-> u + 1]
  BY DEF Carry
<1>11. ~ (j <= x /\ q[j] = v) => Carry(s, j) = s
  BY DEF Carry
<1>12. u \in Nat /\ x \in Nat
  BY <1>3 DEF States
<1> HIDE DEF D, pos, t, m, u, q, v, x
<1>6. CASE u = j - 2 /\ j <= D /\ q[j] = v
  <2>1. j <= x
    BY <1>1, <1>2, <1>3, <1>12, <1>6
  <2>2. Carry(s, j) = [pos |-> r, max |-> y, use_update |-> u + 1]
    BY <1>6, <1>10, <2>1
  <2>3. j \in N /\ j + 1 \in N /\ j + 1 # j /\ u + 2 = j /\ u + 3 = j + 1 /\ u + 1 = j - 1
    BY <1>1, <1>6
  <2>4. r \in [N -> Nat] /\ r[j] = 0 /\ r[j + 1] = q[j + 1] + 1 /\ \A k \in N : k # j /\ k # j + 1 => r[k] = q[k]
    <3> DEFINE l == j + 1
               w == [q EXCEPT ![j] = 0]
    <3> HIDE DEF l, N
    <3>1. q \in [N -> Nat] /\ j \in N /\ l \in N /\ l # j
      BY <1>4, <2>3 DEF l, N
    <3>2. w \in [N -> Nat] /\ w[j] = 0 /\ w[l] = q[l] /\ \A k \in N : k # j => w[k] = q[k]
      BY <3>1
    <3> HIDE DEF w
    <3>3. /\ [w EXCEPT ![l] = @ + 1] \in [N -> Nat] /\ [w EXCEPT ![l] = @ + 1][l] = q[l] + 1
          /\ \A k \in N : k # l => [w EXCEPT ![l] = @ + 1][k] = w[k]
      BY <3>1, <3>2
    <3>4. [w EXCEPT ![l] = @ + 1] = r
      BY <3>1 DEF w, l, N
    <3> QED
      BY <3>1, <3>2, <3>3, <3>4 DEF l, N
  <2>5. pos[j] = t[j] - 1 /\ q[j + 1] = pos[j + 1]
    <3>1. q[j] = pos[j] + 1 /\ q[j] = t[j] /\ pos[j] \in Nat /\ j + 1 \in u + 3 .. D + 1
      BY <1>1, <1>2, <1>4, <1>6, <2>3
    <3>2. t[j] - 1 = pos[j]
      BY <3>1
    <3> QED
      BY <1>4, <3>1, <3>2
  <2> HIDE DEF r, y
  <2>6. Stepped(pos, r, t, u + 1, D)
    <3>1. u + 1 \in 0 .. D - 1 /\ (u + 1) + 2 = j + 1 /\ (u + 1) + 1 = j /\ (u + 1) + 3 = j + 2
      BY <1>1, <1>4, <1>6
    <3>2. \A k \in 2 .. j : pos[k] = t[k] - 1 /\ r[k] = 0
      <4> TAKE k \in 2 .. j
      <4>1. CASE k = j
        BY <2>4, <2>5, <4>1
      <4>2. CASE k # j
        <5>1. k \in 2 .. u + 1 /\ k \in N /\ k # j + 1
          BY <1>1, <2>3, <4>2
        <5> QED
          BY <1>4, <2>4, <4>2, <5>1
      <4> QED
        BY <4>1, <4>2
    <3>3. \A k \in j + 2 .. D + 1 : r[k] = pos[k]
      <4> TAKE k \in j + 2 .. D + 1
      <4>1. k \in N /\ k # j /\ k # j + 1 /\ k \in u + 3 .. D + 1
        BY <1>1, <2>3
      <4> QED
        BY <1>4, <2>4, <4>1
    <3>4. r[1] = 0 /\ r[j + 1] = pos[j + 1] + 1
      BY <1>1, <1>4, <2>3, <2>4, <2>5
    <3> QED
      BY <1>2, <2>4, <3>1, <3>2, <3>3, <3>4 DEF Stepped
  <2>7. y = (IF m < (u + 1) + 2 THEN (u + 1) + 2 ELSE m) /\ u + 1 <= j - 1 /\ ~ (u + 1 < j - 1) /\ y \in Nat
    BY <1>1, <1>2, <1>3, <1>4, <1>12, <1>6 DEF y
  <2> DEFINE new == [pos |-> r, max |-> y, use_update |-> u + 1]
  <2>8. u + 1 \in Nat /\ r \in [1 .. num_dims + 1 -> Nat]
    BY <1>12, <2>4 DEF D
  <2>9. new \in States /\ new.pos = r /\ new.max = y /\ new.use_update = u + 1
    BY <2>7, <2>8 DEF States
  <2> HIDE DEF new
  <2>10. CarriedTo(new, j)
    BY <2>6, <2>7, <2>9 DEF CarriedTo, D, pos, t, m
  <2> QED
    BY <2>2, <2>10 DEF new
<1>7. CASE ~ (u = j - 2 /\ j <= D /\ q[j] = v)
  <2>1. Carry(s, j) = s
    <3>1. SUFFICES ASSUME j <= x, q[j] = v PROVE FALSE
      BY <1>11
    <3>2. CASE j = D + 1
      <4>1. q[D + 1] = 0
        BY <1>1, <3>1, <3>2
      <4>2. u + 2 < D + 1
        <5>1. u + 2 # D + 1
          <6> SUFFICES ASSUME u + 2 = D + 1 PROVE FALSE
            OBVIOUS
          <6>1. q[D + 1] = pos[D + 1] + 1
            BY <1>4
          <6> QED
            BY <1>2, <4>1, <6>1
        <5> QED
          BY <1>1, <1>4, <5>1
      <4>3. x <= D
        BY <1>1, <1>2, <1>3, <1>4, <4>2
      <4> QED
        BY <1>1, <1>2, <1>12, <3>1, <3>2, <4>3
    <3>3. CASE j <= D
      <4>1. u < j - 2 /\ j \in u + 3 .. D + 1 /\ j \in 2 .. D
        BY <1>1, <1>3, <1>4, <1>12, <1>7, <3>1, <3>3
      <4>2. q[j] = pos[j] /\ pos[j] < t[j] /\ pos[j] \in Nat /\ t[j] \in Lengths
        BY <1>1, <1>2, <1>4, <1>5, <4>1
      <4> QED
        BY <1>1, <3>1, <3>3, <4>2 DEF Lengths
    <3> QED
      BY <1>1, <3>2, <3>3
  <2>2. u <= j - 1
    BY <1>1, <1>3, <1>4
  <2>3. u < j - 1 /\ u + 2 <= D => q[u + 2] < t[u + 2]
    <3>1. SUFFICES ASSUME u = j - 2, u + 2 <= D PROVE q[u + 2] < t[u + 2]
      BY <1>1, <1>3, <1>4
    <3>2. u + 2 = j /\ j <= D /\ j \in 2 .. D /\ q[j] # t[j]
      BY <1>1, <1>7, <3>1
    <3>3. q[j] = pos[j] + 1 /\ q[j] # t[j]
      BY <1>4, <3>2
    <3>4. pos[j] < t[j] /\ pos[j] \in Nat /\ t[j] \in Lengths
      BY <1>1, <1>2, <1>5, <3>2
    <3> QED
      BY <3>2, <3>3, <3>4 DEF Lengths
  <2> QED
    BY <1>3, <2>1, <2>2, <2>3 DEF CarriedTo, D, pos, t, m, u, q, x
<1> QED
  BY <1>6, <1>7

LEMMA CarriedIs ==
    ASSUME PosOK, Taken
    PROVE  CarriedTo(Carried, num_dims + 1)
<1> DEFINE D == num_dims
           start == [pos |-> [chunk_pos EXCEPT ![2] = @ + 1], max |-> curr_max_dim, use_update |-> 0]
           G(g) == [j \in 1 .. D + 1 |-> IF j = 1 THEN start ELSE Carry(g[j - 1], j)]
           step == [x \in (1 .. D) \X States |-> Carry(x[2], x[1] + 1)]
           c == CHOOSE g : g = G(g)
<1>1. D \in Nat /\ D >= 1 /\ Dims = 1 .. D /\ \A k \in Dims : TheseChunkedDims[k] \in Lengths
  BY LayoutIs, ChunkIs DEF Taken
<1>2. CarriedTo(start, 1) /\ start \in States
  <2>1. CarriedTo(start, 1)
    BY <1>1, CarryBegins
  <2> QED
    BY <2>1 DEF CarriedTo
<1>3. Carried = c[D + 1]
  BY DEF Carried
<1> HIDE DEF start
<1>4. \A i \in 1 .. D, s \in States : Carry(s, i + 1) \in States
  <2> TAKE i \in 1 .. D, s \in States
  <2>1. i + 1 \in 2 .. D + 1
    BY <1>1
  <2> QED
    BY <1>1, <2>1, CarryStays
<1>5. step \in [(1 .. D) \X States -> States]
  <2>1. ASSUME NEW x \in (1 .. D) \X States PROVE Carry(x[2], x[1] + 1) \in States
    BY <1>4
  <2> QED
    BY <2>1
<1>6. PICK f : f \in Walks(D, States, start, step)
  <2> HIDE DEF step, D
  <2> QED
    BY <1>1, <1>2, <1>5, WalkExists
<1>7. f \in [0 .. D -> States] /\ f[0] = start /\ \A i \in 1 .. D : f[i] = Carry(f[i - 1], i + 1)
  <2>1. f \in [0 .. D -> States] /\ f[0] = start /\ \A i \in 1 .. D : f[i] = step[<<i, f[i - 1]>>]
    BY <1>6 DEF Walks
  <2>2. ASSUME NEW i \in 1 .. D PROVE f[i] = Carry(f[i - 1], i + 1)
    <3>1. f[i - 1] \in States
      BY <1>1, <2>1
    <3>2. step[<<i, f[i - 1]>>] = Carry(f[i - 1], i + 1)
      BY <3>1
    <3> HIDE DEF step
    <3> QED
      BY <2>1, <3>2
  <2> QED
    BY <2>1, <2>2
<1> DEFINE g == [j \in 1 .. D + 1 |-> f[j - 1]]
<1>8. g = G(g)
  <2>1. ASSUME NEW j \in 1 .. D + 1 PROVE f[j - 1] = IF j = 1 THEN start ELSE Carry(g[j - 1], j)
    <3>1. CASE j = 1
      BY <1>7, <3>1
    <3>2. CASE j # 1
      <4>1. j - 1 \in 1 .. D /\ (j - 1) + 1 = j /\ j - 1 \in 1 .. D + 1
        BY <1>1, <3>2
      <4>2. g[j - 1] = f[(j - 1) - 1]
        BY <4>1
      <4>3. f[j - 1] = Carry(f[(j - 1) - 1], (j - 1) + 1)
        BY <1>7, <4>1
      <4> HIDE DEF g
      <4> QED
        BY <3>2, <4>1, <4>2, <4>3
    <3> QED
      BY <3>1, <3>2
  <2>2. G(g) = [j \in 1 .. D + 1 |-> f[j - 1]]
    <3> HIDE DEF g
    <3> QED
      BY <2>1
  <2> QED
    BY <2>2
<1> HIDE DEF g
<1>9. c = G(c)
  <2> HIDE DEF G
  <2> QED
    BY <1>8
<1> HIDE DEF c
<1>10. c[1] = start /\ \A j \in 2 .. D + 1 : c[j] = Carry(c[j - 1], j)
  BY <1>1, <1>9
<1> DEFINE T == {i \in 0 .. D : CarriedTo(c[i + 1], i + 1)}
<1>11. 0 \in T
  BY <1>1, <1>2, <1>10
<1>12. ASSUME NEW i \in 1 .. D, i - 1 \in T PROVE i \in T
  <2>1. i + 1 \in 2 .. D + 1 /\ (i - 1) + 1 = i /\ (i + 1) - 1 = i
    BY <1>1
  <2>2. CarriedTo(c[(i + 1) - 1], (i + 1) - 1) /\ c[i + 1] = Carry(c[(i + 1) - 1], i + 1)
    BY <1>10, <1>12, <2>1
  <2>3. CarriedTo(c[i + 1], i + 1)
    BY <1>1, <2>1, <2>2, CarryGoesOn
  <2> QED
    BY <2>3
<1> HIDE DEF T
<1>13. D \in T
  BY <1>1, <1>11, <1>12, InductionUpTo
<1> QED
  BY <1>3, <1>13 DEF T

(* The next run: complete dimensions begin again, and none is passed.      *)
LEMMA CarriedSteps ==
    ASSUME PosOK, Taken
    PROVE  /\ Stepped(chunk_pos, Carried.pos, TheseChunkedDims, Carried.use_update, num_dims)
           /\ Carried.pos \in [1 .. num_dims + 1 -> Nat] /\ Carried.pos[1] = 0
           /\ \A k \in 2 .. num_dims : Carried.pos[k] < TheseChunkedDims[k]
           /\ Carried.pos[num_dims + 1] \in {0, 1}
           /\ Carried.max \in Nat /\ Carried.max >= 2
           /\ Carried.pos[num_dims + 1] = 0 => Carried.max <= num_dims
<1> DEFINE D == num_dims
           t == TheseChunkedDims
           pos == chunk_pos
           q == Carried.pos
           u == Carried.use_update
           x == Carried.max
           m == curr_max_dim
<1>1. D \in Nat /\ D >= 1 /\ \A k \in 2 .. D : t[k] \in Lengths
  <2>1. D \in Nat /\ D >= 1 /\ Dims = 1 .. D
    BY LayoutIs DEF Taken
  <2>2. t \in [Dims -> Lengths]
    BY ChunkIs
  <2> QED
    BY <2>1, <2>2
<1>2. /\ Stepped(pos, q, t, u, D) /\ u <= (D + 1) - 1
      /\ (u < (D + 1) - 1 /\ u + 2 <= D => q[u + 2] < t[u + 2])
      /\ x = (IF m < u + 2 THEN u + 2 ELSE m)
  BY CarriedIs DEF CarriedTo
<1>3. /\ pos \in [1 .. D + 1 -> Nat] /\ pos[1] = 0 /\ pos[D + 1] = 0 /\ m \in Nat /\ m >= 2 /\ (m <= D \/ D = 1)
      /\ \A k \in 2 .. D : pos[k] < t[k]
  BY DEF PosOK
<1> HIDE DEF D, t, pos, q, u, x, m
<1>4. u \in 0 .. D - 1 /\ q \in [1 .. D + 1 -> Nat] /\ q[1] = 0
      /\ (\A k \in 2 .. u + 1 : pos[k] = t[k] - 1 /\ q[k] = 0)
      /\ q[u + 2] = pos[u + 2] + 1 /\ \A k \in u + 3 .. D + 1 : q[k] = pos[k]
  BY <1>2 DEF Stepped
<1>5. ASSUME NEW k \in 2 .. D PROVE q[k] < t[k]
  <2>1. t[k] \in Lengths /\ k \in Nat
    BY <1>1
  <2>2. CASE k <= u + 1
    <3>1. q[k] = 0
      BY <1>1, <1>4, <2>2
    <3> QED
      BY <2>1, <3>1 DEF Lengths
  <2>3. CASE k = u + 2
    BY <1>1, <1>2, <1>4, <2>3
  <2>4. CASE k > u + 2
    <3>1. k \in u + 3 .. D + 1
      BY <1>1, <1>4, <2>4
    <3>2. q[k] = pos[k]
      BY <1>4, <3>1
    <3> QED
      BY <1>3, <3>2
  <2> QED
    BY <1>4, <2>1, <2>2, <2>3, <2>4
<1>6. CASE u = D - 1
  <2>1. u + 2 = D + 1
    BY <1>1, <1>6
  <2>2. q[D + 1] = 1
    BY <1>3, <1>4, <2>1
  <2> QED
    BY <1>2, <1>3, <1>4, <1>5, <2>2 DEF D, t, pos, q, u, x
<1>7. CASE u # D - 1
  <2>1. D + 1 \in u + 3 .. D + 1 /\ u + 2 <= D /\ D # 1
    BY <1>1, <1>4, <1>7
  <2>2. q[D + 1] = 0
    BY <1>3, <1>4, <2>1
  <2>3. x <= D /\ x >= 2 /\ x \in Nat
    BY <1>1, <1>2, <1>3, <1>4, <2>1
  <2> QED
    BY <1>2, <1>4, <1>5, <2>2, <2>3 DEF D, t, pos, q, u, x
<1> QED
  BY <1>6, <1>7

-----------------------------------------------------------------------------
(* Multiples of a length and what is behind them.                          *)
LEMMA MultiplesApart ==
    ASSUME NEW n \in Lengths, NEW a \in Int, NEW b \in Int, NEW r \in 0 .. n - 1, NEW s \in 0 .. n - 1,
           n * a + r = n * b + s
    PROVE  a = b /\ r = s
<1>1. n \in Nat /\ n >= 1
  BY DEF Lengths
<1>2. ASSUME NEW k \in Int, k >= 1 PROVE n * k >= n
  BY <1>1, <1>2
<1>3. ASSUME a > b PROVE FALSE
  <2>1. n * (a - b) >= n
    BY <1>2, <1>3
  <2>2. n * (a - b) = n * a - n * b /\ n * a \in Int /\ n * b \in Int
    BY <1>1
  <2> DEFINE A == n * a
             B == n * b
  <2> HIDE DEF A, B
  <2>3. A - B >= n /\ A \in Int /\ B \in Int /\ A + r = B + s
    BY <2>1, <2>2 DEF A, B
  <2> QED
    BY <1>1, <2>3
<1>4. ASSUME b > a PROVE FALSE
  <2>1. n * (b - a) >= n
    BY <1>2, <1>4
  <2>2. n * (b - a) = n * b - n * a /\ n * a \in Int /\ n * b \in Int
    BY <1>1
  <2> DEFINE A == n * a
             B == n * b
  <2> HIDE DEF A, B
  <2>3. B - A >= n /\ A \in Int /\ B \in Int /\ A + r = B + s
    BY <2>1, <2>2 DEF A, B
  <2> QED
    BY <1>1, <2>3
<1>5. a = b
  BY <1>3, <1>4
<1>6. r = s
  <2> DEFINE A == n * a
  <2>1. A \in Int /\ A + r = A + s
    BY <1>1, <1>5
  <2> HIDE DEF A
  <2> QED
    BY <1>1, <2>1
<1> QED
  BY <1>5, <1>6

LEMMA DividesInto ==
    ASSUME NEW n \in Lengths, NEW a \in Nat
    PROVE  a % n \in 0 .. n - 1 /\ a \div n \in Nat /\ a = n * (a \div n) + (a % n)
  BY DEF Lengths

(* behind a multiple, and the multiple in front *)
LEMMA ModBehind ==
    ASSUME NEW n \in Lengths, NEW a \in Nat, a % n = 0, NEW c \in 0 .. n - 1
    PROVE  (a + c) % n = c
<1> DEFINE q == a \div n
           b == a + c
           k == b \div n
           r == b % n
<1>1. n \in Nat /\ n >= 1 /\ b \in Nat
  BY DEF Lengths
<1>2. q \in Nat /\ a = n * q + 0
  BY DividesInto
<1>3. k \in Nat /\ r \in 0 .. n - 1 /\ b = n * k + r
  <2> HIDE DEF b
  <2> QED
    BY <1>1, DividesInto
<1> HIDE DEF q, k, r
<1>4. n * q + c = n * k + r
  BY <1>1, <1>2, <1>3
<1>5. c = r
  BY <1>2, <1>3, <1>4, MultiplesApart
<1> QED
  BY <1>5 DEF r

LEMMA ModInFront ==
    ASSUME NEW n \in Lengths, NEW a \in Nat
    PROVE  a % n \in 0 .. n - 1 /\ a - (a % n) \in Nat /\ a - (a % n) <= a /\ (a - (a % n)) % n = 0
<1> DEFINE q == a \div n
           r == a % n
           b == n * q
<1>1. n \in Nat /\ n >= 1
  BY DEF Lengths
<1>2. q \in Nat /\ r \in 0 .. n - 1 /\ a = b + r
  BY DividesInto
<1>3. b \in Nat
  BY <1>1, <1>2
<1>4. b % n = 0
  <2> DEFINE k == b \div n
             s == b % n
  <2>1. k \in Nat /\ s \in 0 .. n - 1 /\ b = n * k + s
    <3> HIDE DEF b
    <3> QED
      BY <1>3, DividesInto
  <2> HIDE DEF k, s, q
  <2>2. n * q + 0 = n * k + s /\ 0 \in 0 .. n - 1
    BY <1>1, <1>2, <1>3, <2>1
  <2>3. s = 0
    BY <1>2, <2>1, <2>2, MultiplesApart
  <2> QED
    BY <2>3 DEF s
<1> HIDE DEF b, r
<1>5. b = a - r /\ r \in 0 .. n - 1 /\ b \in Nat /\ b <= a
  BY <1>1, <1>2, <1>3
<1> QED
  BY <1>4, <1>5 DEF r

-----------------------------------------------------------------------------
(* An element of the array is in the chunk it falls in.                    *)
LEMMA HomeIs ==
    ASSUME layout \in Layouts, NEW x \in Coordinates(dims)
    PROVE  /\ x \in [Dims -> Nat] /\ \A j \in Dims : x[j] < dims[j]
           /\ Home(x) \in ChunkStarts(layout) /\ Home(x) # NoChunk
           /\ Offset(x) \in [Dims -> Nat]
           /\ \A j \in Dims : Offset(x)[j] < chunked_dims[j] /\ Home(x)[j] + Offset(x)[j] = x[j]
<1>1. /\ dims \in Seq(Lengths) /\ Len(dims) = num_dims /\ Dims = 1 .. num_dims /\ num_dims \in Nat /\ num_dims >= 1
      /\ \A j \in Dims : dims[j] \in Lengths /\ chunked_dims[j] \in Lengths
  BY LayoutIs
<1>2. x \in [Dims -> Nat] /\ \A j \in Dims : x[j] < dims[j]
  BY <1>1, CoordinatesAre
<1>3. ASSUME NEW j \in Dims
      PROVE  /\ Home(x)[j] \in Nat /\ Home(x)[j] <= x[j] /\ Home(x)[j] % chunked_dims[j] = 0
             /\ Offset(x)[j] \in Nat /\ Offset(x)[j] < chunked_dims[j] /\ Home(x)[j] + Offset(x)[j] = x[j]
  <2> DEFINE a == x[j]
             n == chunked_dims[j]
  <2>1. a \in Nat /\ n \in Lengths /\ Home(x)[j] = a - (a % n) /\ Offset(x)[j] = a % n
    BY <1>1, <1>2 DEF Home, Offset
  <2> HIDE DEF a, n
  <2>2. a % n \in 0 .. n - 1 /\ a - (a % n) \in Nat /\ a - (a % n) <= a /\ (a - (a % n)) % n = 0
    BY <2>1, ModInFront
  <2> DEFINE r == a % n
  <2>3. r \in 0 .. n - 1 /\ n \in Nat
    BY <2>1, <2>2 DEF Lengths
  <2>4. Offset(x)[j] = r /\ Home(x)[j] = a - r
    BY <2>1
  <2> HIDE DEF r
  <2>5. r \in Nat /\ r < n /\ (a - r) + r = a
    BY <2>1, <2>3
  <2> QED
    BY <2>1, <2>2, <2>4, <2>5 DEF a, n
<1>4. Home(x) = [j \in Dims |-> Home(x)[j]] /\ Offset(x) = [j \in Dims |-> Offset(x)[j]]
  BY DEF Home, Offset
<1> DEFINE h == Home(x)
           o == Offset(x)
<1> HIDE DEF h, o
<1>5. h \in [Dims -> Nat] /\ o \in [Dims -> Nat] /\ \A j \in Dims : h[j] < dims[j]
  <2>1. \A j \in Dims : h[j] \in Nat /\ o[j] \in Nat /\ h[j] <= x[j] /\ x[j] < dims[j] /\ x[j] \in Nat /\ dims[j] \in Nat
    BY <1>1, <1>2, <1>3 DEF h, o, Lengths
  <2>2. h = [j \in Dims |-> h[j]] /\ o = [j \in Dims |-> o[j]]
    BY <1>4 DEF h, o
  <2> QED
    BY <2>1, <2>2
<1>6. h \in ChunkStarts(layout)
  <2>1. h \in Coordinates(dims)
    BY <1>1, <1>5, CoordinatesAre
  <2>2. \A j \in Dims : h[j] % chunked_dims[j] = 0
    BY <1>3 DEF h
  <2> QED
    BY <2>1, <2>2 DEF ChunkStarts, dims, chunked_dims, Dims, num_dims
<1>7. h # NoChunk
  <2>1. DOMAIN h = Dims /\ 1 \in Dims
    BY <1>1, <1>5
  <2>2. DOMAIN NoChunk = {}
    BY DEF NoChunk
  <2> QED
    BY <2>1, <2>2
<1> QED
  BY <1>2, <1>3, <1>5, <1>6, <1>7 DEF h, o

(* Along the run: from where the chunk's coordinates lead, element by      *)
(* element.                                                                *)
Along(pos, e, n) == [k \in 1 .. n |-> IF k = 1 THEN e ELSE pos[k]]

LEMMA AlongRun ==
    ASSUME NEW d \in Seq(Lengths), Len(d) >= 1, NEW pos \in [1 .. Len(d) + 1 -> Nat],
           pos[1] = 0, pos[Len(d) + 1] = 0, NEW e \in Nat
    PROVE  Way(Along(pos, e, Len(d)), Sizes(d), Len(d))[Len(d)]
               = Way(pos, Sizes(d), Len(d) + 1)[Len(d) + 1] + e
<1> DEFINE n == Len(d)
           k == n + 1
           S == Sizes(d)
           y == Along(pos, e, n)
           Y == Way(y, S, n)
           P == Way(pos, S, k)
<1>1. n \in Nat /\ n >= 1 /\ S \in [0 .. n -> Lengths] /\ S[0] = 1
  BY SizesAre
<1>2. pos \in [1 .. k -> Nat] /\ pos[1] = 0 /\ pos[k] = 0 /\ \A i \in 1 .. n : y[i] = IF i = 1 THEN e ELSE pos[i]
  BY DEF Along
<1> HIDE DEF n, S, y
<1>3. \A i \in 1 .. k : S[i - 1] \in Int /\ pos[i] \in Int
  <2> TAKE i \in 1 .. k
  <2>1. i - 1 \in 0 .. n /\ pos[i] \in Nat
    BY <1>1, <1>2
  <2>2. S[i - 1] \in Lengths
    BY <1>1, <2>1
  <2> QED
    BY <2>1, <2>2 DEF Lengths
<1>4. \A i \in 1 .. n : S[i - 1] \in Int /\ y[i] \in Int
  BY <1>1, <1>2, <1>3
<1>5. k \in Nat /\ k - 1 = n /\ k \in 1 .. k /\ 1 \in 1 .. k /\ 1 \in 1 .. n /\ n \in 1 .. n /\ 1 - 1 = 0
  BY <1>1
<1> HIDE DEF k
<1>6. Y \in [0 .. n -> Int] /\ Y[0] = 0 /\ \A i \in 1 .. n : Y[i] = Y[i - 1] + y[i] * S[i - 1]
  <2>1. n \in Nat
    BY <1>1
  <2> QED
    BY <1>4, <2>1, WayIs, ZenonT(60)
<1>7. P \in [0 .. k -> Int] /\ P[0] = 0 /\ \A i \in 1 .. k : P[i] = P[i - 1] + pos[i] * S[i - 1]
  <2>1. k \in Nat
    BY <1>5
  <2> QED
    BY <1>3, <2>1, WayIs, ZenonT(60)
<1>8. Y[n] - Y[1] = P[n] - P[1]
  <2>1. \A i \in 1 + 1 .. n : y[i] = pos[i]
    BY <1>1, <1>2
  <2>2. \A i \in 1 .. n : y[i] \in Int
    BY <1>4
  <2>3. n \in Nat /\ k \in Nat /\ n <= k /\ 1 \in 0 .. n /\ n \in 1 .. n
    BY <1>1, <1>5
  <2>4. Agrees(y, n, pos, k, S, 1, n)
    BY <1>3, <2>1, <2>2, <2>3 DEF Agrees
  <2> QED
    BY <2>4, WayAgrees
<1> HIDE DEF Y, P
<1>9. Y[1] = e /\ P[1] = 0
  BY <1>1, <1>2, <1>5, <1>6, <1>7
<1>10. P[k] = P[n]
  <2>1. P[k] = P[n] + 0 * S[n] /\ P[n] \in Int /\ S[n] \in Int
    <3>1. n \in 0 .. k /\ n \in 0 .. n
      BY <1>5, <1>1
    <3>2. S[n] \in Lengths /\ P[n] \in Int
      BY <1>1, <1>7, <3>1
    <3> QED
      BY <1>2, <1>5, <1>7, <3>2 DEF Lengths
  <2> QED
    BY <2>1
<1>11. Y[n] = P[k] + e
  <2>1. Y[n] \in Int /\ P[n] \in Int
    BY <1>5, <1>6, <1>7
  <2> QED
    BY <1>8, <1>9, <1>10, <2>1
<1> QED
  BY <1>11 DEF Y, P, n, k, S, y

-----------------------------------------------------------------------------
(* Where the loop is: chunk_pos, index and db_pos say the same of it.  The *)
(* last entry of chunk_pos is 1 when the chunk is done.                    *)
RunIs(pos, x, at, in) ==
    /\ pos \in [1 .. num_dims + 1 -> Nat] /\ pos[1] = 0
    /\ \A k \in 2 .. num_dims : pos[k] < TheseChunkedDims[k]
    /\ pos[num_dims + 1] \in {0, 1}
    /\ x \in Nat /\ x >= 2
    /\ pos[num_dims + 1] = 0 => x <= num_dims \/ num_dims = 1
    /\ at = FindArrayPosition(chunk_start, dims) + Way(pos, Sizes(dims), num_dims + 1)[num_dims + 1]
    /\ in = Way(pos, Sizes(chunked_dims), num_dims + 1)[num_dims + 1]

(* the runs in front of chunk_pos, in the order of the loop *)
Before(o, pos, n) ==
    \E m \in 2 .. n + 1 :
        /\ (IF m = n + 1 THEN 0 ELSE o[m]) < pos[m]
        /\ \A k \in m + 1 .. n + 1 : (IF k = n + 1 THEN 0 ELSE o[k]) = pos[k]

(* What was copied is in place, and of the chunks that were taken all is   *)
(* copied, of the one being copied all that the loop has passed.           *)
CopyInv ==
    /\ layout \in Layouts
    /\ todo \subseteq ChunkStarts(layout)
    /\ chunk_start # NoChunk =>
        /\ chunk_start \in ChunkStarts(layout) \ todo
        /\ RunIs(chunk_pos, curr_max_dim, index, db_pos)
    /\ Copies \subseteq Reference
    /\ \A x \in Coordinates(dims) :
        Home(x) \notin todo /\ (Home(x) # chunk_start \/ Before(Offset(x), chunk_pos, num_dims)) => Placed(x) \in Copies

-----------------------------------------------------------------------------
(* A run is where the reference puts its elements.                         *)
InRun(i) == [j \in Dims |-> chunk_start[j] + Along(chunk_pos, i, num_dims)[j]]

LEMMA RunLies ==
    ASSUME Taken, RunIs(chunk_pos, curr_max_dim, index, db_pos), chunk_pos[num_dims + 1] = 0,
           NEW i \in 0 .. Run - 1
    PROVE  /\ InRun(i) \in Coordinates(dims)
           /\ Home(InRun(i)) = chunk_start
           /\ Placed(InRun(i)) = <<index + i, chunk_start, db_pos + i>>
           /\ FindArrayPosition(InRun(i), dims) < NumElems(dims)
<1> DEFINE D == num_dims
           s == chunk_start
           pos == chunk_pos
           t == TheseChunkedDims
           y == Along(pos, i, D)
           x == InRun(i)
<1>1. /\ dims \in Seq(Lengths) /\ Len(dims) = D /\ Dims = 1 .. D /\ D \in Nat /\ D >= 1
      /\ chunked_dims \in Seq(Lengths) /\ Len(chunked_dims) = D
      /\ \A j \in Dims : dims[j] \in Lengths /\ chunked_dims[j] \in Lengths
  BY LayoutIs DEF Taken
<1>2. /\ s \in [Dims -> Nat] /\ t \in [Dims -> Lengths]
      /\ \A j \in Dims :
            /\ s[j] % chunked_dims[j] = 0 /\ t[j] <= chunked_dims[j] /\ s[j] + t[j] <= dims[j]
  BY ChunkIs
<1>3. /\ pos \in [1 .. D + 1 -> Nat] /\ pos[1] = 0 /\ pos[D + 1] = 0
      /\ \A k \in 2 .. D : pos[k] < t[k]
      /\ index = FindArrayPosition(s, dims) + Way(pos, Sizes(dims), D + 1)[D + 1]
      /\ db_pos = Way(pos, Sizes(chunked_dims), D + 1)[D + 1]
  BY DEF RunIs
<1>4. i \in Nat /\ i < t[1]
  <2>1. t[1] \in Lengths
    BY <1>1, <1>2
  <2> QED
    BY <2>1 DEF Run, Lengths
<1>5. y \in [Dims -> Nat] /\ \A j \in Dims : y[j] < t[j] /\ y[j] \in Nat /\ x[j] = s[j] + y[j]
  <2>1. ASSUME NEW j \in Dims PROVE y[j] < t[j] /\ y[j] \in Nat /\ x[j] = s[j] + y[j]
    <3>1. x[j] = s[j] + y[j]
      BY DEF InRun
    <3>2. y[j] = IF j = 1 THEN i ELSE pos[j]
      BY <1>1, <2>1 DEF Along
    <3>3. pos[j] \in Nat /\ (j # 1 => pos[j] < t[j])
      BY <1>1, <1>3
    <3> QED
      BY <1>4, <3>1, <3>2, <3>3
  <2>2. y = [j \in Dims |-> y[j]]
    BY <1>1 DEF Along
  <2> HIDE DEF y
  <2> QED
    BY <2>1, <2>2
<1>6. x = [j \in Dims |-> x[j]]
  BY DEF InRun
<1> HIDE DEF D, s, pos, t, y, x
<1>7. ASSUME NEW j \in Dims PROVE x[j] \in Nat /\ x[j] < dims[j] /\ x[j] % chunked_dims[j] = y[j] /\ x[j] - y[j] = s[j]
  <2> DEFINE a == s[j]
             o == y[j]
             n == chunked_dims[j]
             e == dims[j]
             r == t[j]
  <2>1. a \in Nat /\ a % n = 0 /\ n \in Lengths /\ e \in Lengths /\ r \in Lengths /\ r <= n /\ a + r <= e
    BY <1>1, <1>2
  <2>2. o \in Nat /\ o < r /\ x[j] = a + o
    BY <1>5
  <2> HIDE DEF a, o, n, e, r
  <2>3. o \in 0 .. n - 1 /\ a + o \in Nat /\ a + o < e /\ (a + o) - o = a
    BY <2>1, <2>2 DEF Lengths
  <2>4. (a + o) % n = o
    BY <2>1, <2>3, ModBehind
  <2> QED
    BY <2>2, <2>3, <2>4 DEF a, o, n, e
<1>8. x \in Coordinates(dims)
  <2>1. x \in [Dims -> Nat] /\ \A j \in Dims : x[j] < dims[j]
    BY <1>6, <1>7
  <2> QED
    BY <1>1, <2>1, CoordinatesAre
<1>9. Home(x) = s /\ Offset(x) = y
  <2>1. Home(x) = [j \in Dims |-> x[j] - (x[j] % chunked_dims[j])] /\ Offset(x) = [j \in Dims |-> x[j] % chunked_dims[j]]
    BY DEF Home, Offset
  <2>2. s = [j \in Dims |-> s[j]] /\ y = [j \in Dims |-> y[j]]
    BY <1>2, <1>5
  <2>3. \A j \in Dims : x[j] - (x[j] % chunked_dims[j]) = s[j] /\ x[j] % chunked_dims[j] = y[j]
    BY <1>7
  <2> QED
    BY <2>1, <2>2, <2>3
<1>10. FindArrayPosition(x, dims) = index + i
  <2> DEFINE S == Sizes(dims)
  <2>1. S \in [0 .. D -> Lengths]
    BY <1>1, SizesAre
  <2> HIDE DEF S
  <2>2. \A k \in 1 .. D : S[k - 1] \in Int /\ s[k] \in Int /\ y[k] \in Int /\ x[k] = s[k] + y[k]
    <3> TAKE k \in 1 .. D
    <3>1. k - 1 \in 0 .. D /\ k \in Dims
      BY <1>1
    <3>2. S[k - 1] \in Lengths
      BY <2>1, <3>1
    <3> QED
      BY <1>2, <1>5, <3>1, <3>2 DEF Lengths
  <2>3. D \in 0 .. D
    BY <1>1
  <2>4. Way(x, S, D)[D] = Way(s, S, D)[D] + Way(y, S, D)[D]
    <3>1. D \in Nat
      BY <1>1
    <3>2. \A k \in 0 .. D : Way(x, S, D)[k] = Way(s, S, D)[k] + Way(y, S, D)[k]
      BY <2>2, <3>1, WayAdds
    <3> QED
      BY <2>3, <3>2
  <2>5. Way(y, S, D)[D] = Way(pos, S, D + 1)[D + 1] + i
    BY <1>1, <1>3, <1>4, AlongRun DEF S, y
  <2>6. Way(s, S, D)[D] \in Int /\ Way(pos, S, D + 1)[D + 1] \in Int
    <3>1. Way(s, S, D)[D] \in Int
      <4>1. \A j \in 1 .. D : S[j - 1] \in Int /\ s[j] \in Int
        BY <2>2
      <4>2. Way(s, S, D) \in [0 .. D -> Int]
        BY <1>1, <4>1, WayIs, ZenonT(60)
      <4> QED
        BY <2>3, <4>2
    <3>2. Way(pos, S, D + 1)[D + 1] \in Int
      <4>1. D + 1 \in Nat /\ D + 1 \in 0 .. D + 1
        BY <1>1
      <4>2. \A j \in 1 .. D + 1 : S[j - 1] \in Int /\ pos[j] \in Int
        <5> TAKE j \in 1 .. D + 1
        <5>1. j - 1 \in 0 .. D
          BY <1>1
        <5>2. S[j - 1] \in Lengths /\ pos[j] \in Nat
          BY <1>3, <2>1, <5>1
        <5> QED
          BY <5>2 DEF Lengths
      <4>3. Way(pos, S, D + 1) \in [0 .. D + 1 -> Int]
        BY <4>1, <4>2, WayIs, ZenonT(60)
      <4> QED
        BY <4>1, <4>3
    <3> QED
      BY <3>1, <3>2
  <2>7. FindArrayPosition(x, dims) = Way(x, S, D)[D] /\ FindArrayPosition(s, dims) = Way(s, S, D)[D]
    BY <1>1, ReachIsWay DEF FindArrayPosition, S
  <2> QED
    BY <1>3, <1>4, <2>4, <2>5, <2>6, <2>7 DEF S
<1>11. FindArrayPosition(y, chunked_dims) = db_pos + i
  <2>1. FindArrayPosition(y, chunked_dims) = Way(y, Sizes(chunked_dims), D)[D]
    BY <1>1, ReachIsWay DEF FindArrayPosition
  <2>2. Way(y, Sizes(chunked_dims), D)[D] = Way(pos, Sizes(chunked_dims), D + 1)[D + 1] + i
    BY <1>1, <1>3, <1>4, AlongRun DEF y
  <2> QED
    BY <1>3, <2>1, <2>2
<1>12. FindArrayPosition(x, dims) < NumElems(dims)
  <2>1. FindArrayPosition(x, dims) = Way(x, Sizes(dims), D)[D] /\ NumElems(dims) = Sizes(dims)[D]
    BY <1>1, ReachIsWay DEF FindArrayPosition, NumElems
  <2>2. \A k \in 1 .. D : x[k] \in Int /\ x[k] \in 0 .. dims[k] - 1
    BY <1>1, <1>7 DEF Lengths
  <2>3. D \in 0 .. D /\ Sizes(dims)[D] \in Lengths
    BY <1>1, SizesAre
  <2>4. Way(x, Sizes(dims), D)[D] \in 0 .. Sizes(dims)[D] - 1
    BY <1>1, <2>2, <2>3, WayWithin
  <2> QED
    BY <2>1, <2>3, <2>4 DEF Lengths
<1>13. Placed(x) = <<index + i, s, db_pos + i>>
  BY <1>9, <1>10, <1>11 DEF Placed
<1> QED
  BY <1>8, <1>9, <1>12, <1>13 DEF s, x

(* The loop ends by index, and not before the chunk is done.               *)
LEMMA WayPositive ==
    ASSUME NEW n \in Nat, NEW S, NEW x, \A i \in 1 .. n : S[i - 1] \in Nat /\ x[i] \in Nat
    PROVE  \A i \in 0 .. n : Way(x, S, n)[i] \in Nat
<1> DEFINE w == Way(x, S, n)
<1>1. \A i \in 1 .. n : S[i - 1] \in Int /\ x[i] \in Int
  OBVIOUS
<1>2. w[0] = 0 /\ \A i \in 1 .. n : w[i] = w[i - 1] + x[i] * S[i - 1]
  BY <1>1, WayIs, ZenonT(60)
<1> HIDE DEF w
<1>3. \A i \in 1 .. n : w[i - 1] \in Nat => w[i] \in Nat
  <2> TAKE i \in 1 .. n
  <2> HAVE w[i - 1] \in Nat
  <2> DEFINE z == x[i] * S[i - 1]
  <2>1. z \in Nat
    <3>1. S[i - 1] \in Nat /\ x[i] \in Nat
      OBVIOUS
    <3>2. \A a, b \in Nat : a * b \in Nat
      OBVIOUS
    <3> QED
      BY <3>1, <3>2
  <2>2. w[i] = w[i - 1] + z
    BY <1>2
  <2> HIDE DEF z
  <2> QED
    BY <2>1, <2>2
<1>4. w[0] \in Nat
  BY <1>2
<1> QED
  BY <1>3, <1>4, WalkStays DEF w

LEMMA IndexEnds ==
    ASSUME Taken, RunIs(chunk_pos, curr_max_dim, index, db_pos)
    PROVE  /\ index \in Nat /\ NumElems(dims) \in Nat
           /\ FindArrayPosition(chunk_start, dims) \in Nat
           /\ Way(chunk_pos, Sizes(dims), num_dims + 1)[num_dims + 1] \in Nat
           /\ (index < NumElems(dims)) = (chunk_pos[num_dims + 1] = 0)
<1> DEFINE D == num_dims
           s == chunk_start
           pos == chunk_pos
           S == Sizes(dims)
           k == D + 1
           P == Way(pos, S, k)
           at == FindArrayPosition(s, dims)
<1>1. dims \in Seq(Lengths) /\ Len(dims) = D /\ Dims = 1 .. D /\ D \in Nat /\ D >= 1
  BY LayoutIs DEF Taken
<1>2. S \in [0 .. D -> Lengths] /\ NumElems(dims) = S[D]
  BY <1>1, SizesAre DEF NumElems
<1>3. pos \in [1 .. k -> Nat] /\ pos[k] \in {0, 1} /\ index = at + P[k]
  BY DEF RunIs
<1>4. s \in [Dims -> Nat]
  BY ChunkIs
<1>5. at = Way(s, S, D)[D]
  BY <1>1, ReachIsWay DEF FindArrayPosition
<1>6. S[D] \in Lengths
  BY <1>1, <1>2
<1> HIDE DEF D, s, pos, S
<1>7. \A i \in 1 .. k : S[i - 1] \in Nat /\ pos[i] \in Nat
  <2> TAKE i \in 1 .. k
  <2>1. i - 1 \in 0 .. D
    BY <1>1
  <2>2. S[i - 1] \in Lengths /\ pos[i] \in Nat
    BY <1>2, <1>3, <2>1
  <2> QED
    BY <2>2 DEF Lengths
<1>8. at \in Nat
  <2>1. \A i \in 1 .. D : S[i - 1] \in Nat /\ s[i] \in Nat
    <3> TAKE i \in 1 .. D
    <3>1. i \in 1 .. k /\ i \in Dims
      BY <1>1
    <3> QED
      BY <1>4, <1>7, <3>1
  <2>2. D \in Nat /\ D \in 0 .. D
    BY <1>1
  <2>3. \A i \in 0 .. D : Way(s, S, D)[i] \in Nat
    BY <2>1, <2>2, WayPositive
  <2> QED
    BY <1>5, <2>2, <2>3
<1> HIDE DEF at
<1>9. k \in Nat /\ k \in 1 .. k /\ k - 1 = D /\ D \in 0 .. k /\ k \in 0 .. k
  BY <1>1
<1> HIDE DEF k
<1>10. \A i \in 0 .. k : P[i] \in Nat
  <2>1. k \in Nat
    BY <1>9
  <2> QED
    BY <1>7, <2>1, WayPositive
<1>11. P[k] = P[D] + pos[k] * S[D]
  <2>1. \A i \in 1 .. k : S[i - 1] \in Int /\ pos[i] \in Int
    BY <1>7
  <2>2. k \in Nat
    BY <1>9
  <2>3. \A i \in 1 .. k : P[i] = P[i - 1] + pos[i] * S[i - 1]
    BY <2>1, <2>2, WayIs, ZenonT(60)
  <2> QED
    BY <1>9, <2>3
<1> HIDE DEF P
<1>12. FindArrayPosition(s, dims) \in Nat /\ Way(pos, S, k)[k] \in Nat
  BY <1>8, <1>9, <1>10 DEF at, P
<1>13. FindArrayPosition(chunk_start, dims) \in Nat /\ Way(chunk_pos, Sizes(dims), num_dims + 1)[num_dims + 1] \in Nat
  BY <1>12 DEF s, pos, S, k, D
<1>14. CASE pos[k] = 0
  <2>1. Run \in Nat \ {0}
    BY <1>1, ChunkIs DEF Run, Lengths
  <2>2. 0 \in 0 .. Run - 1
    BY <2>1
  <2>3. Placed(InRun(0)) = <<index + 0, chunk_start, db_pos + 0>> /\ FindArrayPosition(InRun(0), dims) < NumElems(dims)
    BY <1>14, <2>2, RunLies DEF pos, k, D
  <2>4. FindArrayPosition(InRun(0), dims) = index + 0
    BY <2>3 DEF Placed
  <2>5. index \in Nat
    BY <1>3, <1>8, <1>9, <1>10
  <2> QED
    BY <1>2, <1>6, <1>13, <1>14, <2>3, <2>4, <2>5 DEF Lengths, pos, k, D
<1>15. CASE pos[k] = 1
  <2>1. S[D] \in Nat /\ P[D] \in Nat /\ P[k] \in Nat
    BY <1>6, <1>9, <1>10 DEF Lengths
  <2>2. P[k] = P[D] + S[D]
    BY <1>11, <1>15, <2>1
  <2>3. index >= S[D] /\ index \in Nat
    BY <1>3, <1>8, <2>1, <2>2
  <2>4. ~ (index < NumElems(dims)) /\ NumElems(dims) \in Nat
    BY <1>2, <2>1, <2>3
  <2>5. ~ (chunk_pos[num_dims + 1] = 0)
    BY <1>15 DEF pos, k, D
  <2> QED
    BY <1>13, <2>3, <2>4, <2>5
<1> QED
  BY <1>3, <1>14, <1>15, <1>13

(* The turn of the loop leads to the next run.                             *)
LEMMA UpdatesAre ==
    ASSUME Taken, NEW u \in 0 .. num_dims - 1
    PROVE  /\ TheseIndexUpdates[u + 1] = MakeChunkedUpdates(TheseChunkedDims, dims)[u + 1]
           /\ TheseChunkedUpdates[u + 1] = MakeChunkedUpdates(TheseChunkedDims, chunked_dims)[u + 1]
<1>1. /\ num_dims \in Nat /\ Dims = 1 .. num_dims /\ chunked_dims \in Seq(Lengths) /\ Len(chunked_dims) = num_dims
      /\ u + 1 \in Dims
  BY LayoutIs DEF Taken
<1>2. CASE Cut
  BY <1>2 DEF TheseIndexUpdates, TheseChunkedUpdates
<1>3. CASE ~ Cut
  <2> DEFINE c == chunked_dims
             D == num_dims
             x == [k \in 1 .. Len(c) |-> c[k] - 1]
             i == u + 1
  <2>1. TheseChunkedDims = c
    BY <1>3 DEF Cut
  <2>2. TheseChunkedUpdates[i] = 0
    BY <1>1, <1>3 DEF TheseChunkedUpdates
  <2>3. MakeChunkedUpdates(c, c)[i] = Sizes(c)[i] - Way(x, Sizes(c), Len(c))[i] - 1
    BY <1>1, ReachIsWay DEF MakeChunkedUpdates
  <2>4. i \in 0 .. Len(c)
    BY <1>1
  <2> HIDE DEF i
  <2>5. Way(x, Sizes(c), Len(c))[i] = Sizes(c)[i] - 1
    <3>1. \A k \in 1 .. Len(c) : x[k] = c[k] - 1
      OBVIOUS
    <3>2. c \in Seq(Lengths)
      BY <1>1
    <3> HIDE DEF x, c
    <3>3. \A k \in 0 .. Len(c) : Way(x, Sizes(c), Len(c))[k] = Sizes(c)[k] - 1
      BY <3>1, <3>2, WayOfLast
    <3> QED
      BY <2>4, <3>3
  <2>6. Sizes(c)[i] \in Lengths
    BY <1>1, <2>4, SizesAre
  <2>7. MakeChunkedUpdates(c, c)[i] = 0
    <3> DEFINE a == Sizes(c)[i]
    <3>1. a \in Nat
      BY <2>6 DEF Lengths
    <3>2. MakeChunkedUpdates(c, c)[i] = a - (a - 1) - 1
      BY <2>3, <2>5
    <3> HIDE DEF a
    <3> QED
      BY <3>1, <3>2
  <2>8. TheseIndexUpdates = MakeChunkedUpdates(TheseChunkedDims, dims)
    BY <1>3, <2>1 DEF TheseIndexUpdates
  <2> QED
    BY <2>1, <2>2, <2>7, <2>8 DEF i
<1> QED
  BY <1>2, <1>3

LEMMA TurnLeads ==
    ASSUME Taken, RunIs(chunk_pos, curr_max_dim, index, db_pos), chunk_pos[num_dims + 1] = 0,
           NEW q, NEW x, NEW u, q = Carried.pos, x = Carried.max, u = Carried.use_update
    PROVE  RunIs(q, x, index + Run + TheseIndexUpdates[u + 1], db_pos + Run + TheseChunkedUpdates[u + 1])
<1> DEFINE D == num_dims
           pos == chunk_pos
           t == TheseChunkedDims
           at == FindArrayPosition(chunk_start, dims)
           P == Way(pos, Sizes(dims), D + 1)[D + 1]
           C == Way(pos, Sizes(chunked_dims), D + 1)[D + 1]
<1>1. /\ dims \in Seq(Lengths) /\ Len(dims) = D /\ chunked_dims \in Seq(Lengths) /\ Len(chunked_dims) = D
      /\ Dims = 1 .. D /\ D \in Nat /\ D >= 1
  BY LayoutIs DEF Taken
<1>2. PosOK
  BY DEF RunIs, PosOK
<1>3. /\ Stepped(pos, q, t, u, D) /\ q \in [1 .. D + 1 -> Nat] /\ q[1] = 0
      /\ \A k \in 2 .. D : q[k] < t[k]
      /\ q[D + 1] \in {0, 1} /\ x \in Nat /\ x >= 2 /\ (q[D + 1] = 0 => x <= D)
  BY <1>2, CarriedSteps
<1>4. \A i \in 1 .. D : t[i] \in Lengths
  BY <1>1, ChunkIs
<1>5. index = at + P /\ db_pos = C
  BY DEF RunIs
<1>6. at \in Nat /\ P \in Nat /\ Run \in Nat
  <2>1. at \in Nat /\ P \in Nat
    BY IndexEnds
  <2>2. t[1] \in Lengths
    BY <1>1, <1>4
  <2> QED
    BY <2>1, <2>2 DEF Run, Lengths
<1>7. Way(q, Sizes(dims), D + 1)[D + 1] = P + Run + TheseIndexUpdates[u + 1]
  <2>1. Way(q, Sizes(dims), D + 1)[D + 1] = P + t[1] + MakeChunkedUpdates(t, dims)[u + 1]
    BY <1>1, <1>3, <1>4, JumpLeads
  <2>2. u \in 0 .. num_dims - 1
    BY <1>3 DEF Stepped
  <2> QED
    BY <2>1, <2>2, UpdatesAre DEF Run
<1>8. Way(q, Sizes(chunked_dims), D + 1)[D + 1] = C + Run + TheseChunkedUpdates[u + 1]
  <2>1. Way(q, Sizes(chunked_dims), D + 1)[D + 1] = C + t[1] + MakeChunkedUpdates(t, chunked_dims)[u + 1]
    BY <1>1, <1>3, <1>4, JumpLeads
  <2>2. u \in 0 .. num_dims - 1
    BY <1>3 DEF Stepped
  <2> QED
    BY <2>1, <2>2, UpdatesAre DEF Run
<1>9. index + Run + TheseIndexUpdates[u + 1] = at + Way(q, Sizes(dims), D + 1)[D + 1]
  <2>1. u \in 0 .. num_dims - 1 /\ MakeChunkedUpdates(t, dims)[u + 1] \in Int
    <3>1. MakeChunkedUpdates(t, dims)[u + 1] \in Int
      BY <1>1, <1>3, <1>4, JumpLeads
    <3> QED
      BY <1>3, <3>1 DEF Stepped
  <2>2. TheseIndexUpdates[u + 1] \in Int
    BY <2>1, UpdatesAre
  <2> DEFINE w == Way(q, Sizes(dims), D + 1)[D + 1]
             v == TheseIndexUpdates[u + 1]
             r == Run
  <2>3. w = P + r + v /\ v \in Int /\ r \in Nat /\ index = at + P
    BY <1>5, <1>6, <1>7, <2>2
  <2> HIDE DEF w, v, r, at, P
  <2>4. index + r + v = at + w
    BY <1>6, <2>3
  <2> QED
    BY <2>4 DEF w, v, r
<1> QED
  BY <1>3, <1>5, <1>8, <1>9 DEF RunIs

-----------------------------------------------------------------------------
(* The runs in front of the next one are those in front of this one, and   *)
(* this one.                                                               *)
LEMMA HighestOf ==
    ASSUME NEW n \in Nat, NEW E \in SUBSET (0 .. n), E # {}
    PROVE  \E m \in E : \A k \in E : k <= m
<1> DEFINE T == {i \in 0 .. n : \A F \in SUBSET (0 .. i) : F # {} => \E m \in F : \A k \in F : k <= m}
<1>1. 0 \in T
  <2>1. ASSUME NEW F \in SUBSET (0 .. 0), F # {} PROVE \E m \in F : \A k \in F : k <= m
    <3>1. \A k \in F : k = 0
      OBVIOUS
    <3>2. 0 \in F
      BY <2>1, <3>1
    <3> QED
      BY <3>1, <3>2
  <2> QED
    BY <2>1
<1>2. ASSUME NEW i \in 1 .. n, i - 1 \in T PROVE i \in T
  <2>1. ASSUME NEW F \in SUBSET (0 .. i), F # {} PROVE \E m \in F : \A k \in F : k <= m
    <3>1. CASE i \in F
      BY <3>1
    <3>2. CASE i \notin F
      <4>1. F \in SUBSET (0 .. i - 1)
        BY <3>2
      <4> QED
        BY <1>2, <2>1, <4>1
    <3> QED
      BY <3>1, <3>2
  <2> QED
    BY <2>1
<1> HIDE DEF T
<1>3. n \in T
  BY <1>1, <1>2, InductionUpTo
<1> QED
  BY <1>3 DEF T

LEMMA BeforeNext ==
    ASSUME NEW D \in Nat, D >= 1, NEW t, NEW pos, NEW q, NEW u, Stepped(pos, q, t, u, D),
           NEW o \in [1 .. D -> Nat], \A k \in 2 .. D : o[k] < t[k], \A k \in 2 .. D : t[k] \in Nat,
           Before(o, q, D)
    PROVE  Before(o, pos, D) \/ \A k \in 2 .. D : o[k] = pos[k]
<1> DEFINE O == [k \in 1 .. D + 1 |-> IF k = D + 1 THEN 0 ELSE o[k]]
<1>1. O \in [1 .. D + 1 -> Nat] /\ \A k \in 2 .. D + 1 : O[k] = IF k = D + 1 THEN 0 ELSE o[k]
  OBVIOUS
<1> HIDE DEF O
<1>2. ASSUME NEW m \in 2 .. D + 1, NEW r
      PROVE  (\A k \in m + 1 .. D + 1 : (IF k = D + 1 THEN 0 ELSE o[k]) = r[k])
                 <=> (\A k \in m + 1 .. D + 1 : O[k] = r[k])
  BY <1>1
<1>3. ASSUME NEW m \in 2 .. D + 1, O[m] < pos[m], \A k \in m + 1 .. D + 1 : O[k] = pos[k]
      PROVE  Before(o, pos, D)
  <2>1. (IF m = D + 1 THEN 0 ELSE o[m]) < pos[m]
    BY <1>1, <1>3
  <2>2. \A k \in m + 1 .. D + 1 : (IF k = D + 1 THEN 0 ELSE o[k]) = pos[k]
    BY <1>2, <1>3
  <2> QED
    BY <2>1, <2>2 DEF Before
<1>4. PICK m \in 2 .. D + 1 : O[m] < q[m] /\ \A k \in m + 1 .. D + 1 : O[k] = q[k]
  BY <1>1, <1>2 DEF Before
<1>5. u \in 0 .. D - 1 /\ pos \in [1 .. D + 1 -> Nat] /\ q \in [1 .. D + 1 -> Nat]
      /\ (\A k \in 2 .. u + 1 : pos[k] = t[k] - 1 /\ q[k] = 0)
      /\ q[u + 2] = pos[u + 2] + 1 /\ \A k \in u + 3 .. D + 1 : q[k] = pos[k]
  BY DEF Stepped
<1>6. m >= u + 2
  <2>1. SUFFICES ASSUME m < u + 2 PROVE FALSE
    BY <1>5
  <2>2. m \in 2 .. u + 1
    BY <1>5, <2>1
  <2>3. q[m] = 0
    BY <1>5, <2>2
  <2>4. O[m] \in Nat
    BY <1>1
  <2> QED
    BY <1>4, <2>3, <2>4
<1>7. CASE m > u + 2
  <2>1. m \in u + 3 .. D + 1 /\ \A k \in m + 1 .. D + 1 : k \in u + 3 .. D + 1
    BY <1>5, <1>7
  <2>2. O[m] < pos[m] /\ \A k \in m + 1 .. D + 1 : O[k] = pos[k]
    BY <1>4, <1>5, <2>1
  <2> QED
    BY <1>3, <2>2
<1>8. CASE m = u + 2
  <2>1. \A k \in u + 3 .. D + 1 : O[k] = pos[k]
    BY <1>4, <1>5, <1>8
  <2>2. O[m] \in Nat /\ pos[m] \in Nat /\ O[m] < pos[m] + 1
    BY <1>1, <1>4, <1>5, <1>8
  <2>3. CASE O[m] < pos[m]
    <3>1. \A k \in m + 1 .. D + 1 : O[k] = pos[k]
      BY <1>5, <1>8, <2>1
    <3> QED
      BY <1>3, <2>3, <3>1
  <2>4. CASE O[m] = pos[m]
    <3> DEFINE E == {k \in 2 .. u + 1 : O[k] # pos[k]}
    <3>1. \A k \in u + 2 .. D + 1 : O[k] = pos[k]
      <4> TAKE k \in u + 2 .. D + 1
      <4>1. k = m \/ k \in u + 3 .. D + 1
        BY <1>5, <1>8
      <4> QED
        BY <2>1, <2>4, <4>1
    <3>2. CASE E = {}
      <4>1. ASSUME NEW k \in 2 .. D PROVE o[k] = pos[k]
        <5>1. O[k] = o[k] /\ (k \in 2 .. u + 1 \/ k \in u + 2 .. D + 1)
          BY <1>1, <1>5, SMTT(60)
        <5> QED
          BY <3>1, <3>2, <5>1
      <4> QED
        BY <4>1
    <3>3. CASE E # {}
      <4>1. D \in Nat /\ E \in SUBSET (0 .. D)
        <5>1. \A k \in 2 .. u + 1 : k \in 0 .. D
          BY <1>5
        <5> QED
          BY <5>1
      <4> HIDE DEF E
      <4>2. PICK h \in E : \A k \in E : k <= h
        BY <3>3, <4>1, HighestOf
      <4>3. h \in 2 .. u + 1 /\ O[h] # pos[h] /\ h \in 2 .. D + 1 /\ h \in 2 .. D /\ h # D + 1
        BY <1>5, <4>2 DEF E
      <4>4. O[h] < pos[h]
        <5>1. O[h] = o[h] /\ o[h] < t[h] /\ o[h] \in Nat /\ t[h] \in Nat /\ pos[h] = t[h] - 1
          BY <1>1, <1>5, <4>3
        <5> DEFINE a == O[h]
                   b == pos[h]
                   c == t[h]
        <5>2. a # b /\ a < c /\ a \in Nat /\ c \in Nat /\ b = c - 1
          BY <4>3, <5>1
        <5> HIDE DEF a, b, c
        <5>3. a < b
          BY <5>2
        <5> QED
          BY <5>3 DEF a, b
      <4>5. \A k \in h + 1 .. D + 1 : O[k] = pos[k]
        <5> TAKE k \in h + 1 .. D + 1
        <5>1. k \in 2 .. u + 1 \/ k \in u + 2 .. D + 1
          BY <1>5, <4>3
        <5>2. k \in 2 .. u + 1 => k \notin E
          BY <4>2, <4>3
        <5> QED
          BY <3>1, <5>1, <5>2 DEF E
      <4> QED
        BY <1>3, <4>3, <4>4, <4>5
    <3> QED
      BY <3>2, <3>3
  <2> QED
    BY <2>2, <2>3, <2>4
<1> QED
  BY <1>5, <1>6, <1>7, <1>8

(* An element of the chunk whose run this is is copied with it.            *)
LEMMA InThisRun ==
    ASSUME Taken, chunk_pos \in [1 .. num_dims + 1 -> Nat], NEW x \in Coordinates(dims), Home(x) = chunk_start,
           \A k \in 2 .. num_dims : Offset(x)[k] = chunk_pos[k]
    PROVE  \E i \in 0 .. Run - 1 : x = InRun(i)
<1> DEFINE o == Offset(x)
           i == o[1]
           D == num_dims
           s == chunk_start
<1>1. Dims = 1 .. D /\ D \in Nat /\ D >= 1 /\ \A j \in Dims : chunked_dims[j] \in Lengths /\ dims[j] \in Lengths
  BY LayoutIs DEF Taken
<1>2. x \in [Dims -> Nat] /\ o \in [Dims -> Nat]
      /\ \A j \in Dims : x[j] < dims[j] /\ o[j] < chunked_dims[j] /\ s[j] + o[j] = x[j]
  BY HomeIs DEF Taken
<1>3. i < TheseChunkedDims[1] /\ TheseChunkedDims[1] \in Lengths /\ i \in Nat
  <2>1. 1 \in Dims
    BY <1>1
  <2>2. o[1] \in Nat /\ o[1] < chunked_dims[1] /\ s[1] + o[1] < dims[1]
    BY <1>2, <2>1
  <2> QED
    BY <2>1, <2>2, ChunkIs
<1>4. i \in 0 .. Run - 1
  BY <1>3 DEF Run, Lengths
<1> HIDE DEF i
<1>5. InRun(i) = [j \in Dims |-> s[j] + Along(chunk_pos, i, D)[j]]
  BY DEF InRun
<1>6. \A j \in Dims : Along(chunk_pos, i, D)[j] = o[j]
  BY <1>1 DEF Along, i
<1>7. x = [j \in Dims |-> s[j] + Along(chunk_pos, i, D)[j]]
  BY <1>2, <1>6
<1> QED
  BY <1>4, <1>5, <1>7

-----------------------------------------------------------------------------
LEMMA PositionIs ==
    ASSUME NEW d \in Seq(Lengths), NEW x \in [1 .. Len(d) -> Nat]
    PROVE  FindArrayPosition(x, d) \in Nat
<1> DEFINE n == Len(d)
           S == Sizes(d)
<1>1. n \in Nat /\ S \in [0 .. n -> Lengths] /\ x \in [1 .. n -> Nat]
  BY SizesAre
<1>2. FindArrayPosition(x, d) = Way(x, S, n)[n]
  BY ReachIsWay DEF FindArrayPosition
<1> HIDE DEF n, S
<1>3. \A i \in 1 .. n : S[i - 1] \in Nat /\ x[i] \in Nat
  <2> TAKE i \in 1 .. n
  <2>1. i - 1 \in 0 .. n
    BY <1>1
  <2>2. S[i - 1] \in Lengths /\ x[i] \in Nat
    BY <1>1, <2>1
  <2> QED
    BY <2>2 DEF Lengths
<1>4. \A i \in 0 .. n : Way(x, S, n)[i] \in Nat
  <2>1. n \in Nat
    BY <1>1
  <2> QED
    BY <1>3, <2>1, WayPositive
<1> QED
  BY <1>1, <1>2, <1>4

LEMMA CopyInvInit == CopyInit => CopyInv
<1> SUFFICES ASSUME CopyInit PROVE CopyInv
  OBVIOUS
<1>1. layout \in Layouts /\ todo = ChunkStarts(layout) /\ chunk_start = NoChunk /\ written = {}
  BY DEF CopyInit
<1>2. Copies \subseteq Reference
  BY <1>1 DEF Copies
<1>3. \A x \in Coordinates(dims) : Home(x) \in todo
  BY <1>1, HomeIs
<1> QED
  BY <1>1, <1>2, <1>3 DEF CopyInv

LEMMA TakeKeeps ==
    ASSUME CopyInv, NEW s \in todo, TakeChunk(s)
    PROVE  CopyInv'
<1> DEFINE D == num_dims
           zero == [j \in 1 .. D + 1 |-> 0]
<1>1. /\ layout' = layout /\ todo' = todo \ {s} /\ chunk_start' = s /\ index' = FindArrayPosition(s, dims)
      /\ db_pos' = 0 /\ chunk_pos' = zero /\ curr_max_dim' = 2 /\ written' = written /\ chunk_start = NoChunk
  BY DEF TakeChunk
<1>2. layout \in Layouts /\ todo \subseteq ChunkStarts(layout)
  BY DEF CopyInv
<1>3. /\ dims' = dims /\ chunked_dims' = chunked_dims /\ num_dims' = D /\ Copies' = Copies /\ Reference' = Reference
      /\ \A x : Home(x)' = Home(x) /\ Offset(x)' = Offset(x) /\ Placed(x)' = Placed(x)
  BY <1>1 DEF dims, chunked_dims, num_dims, Dims, Copies, Reference, Home, Offset, Placed
<1>4. /\ dims \in Seq(Lengths) /\ Len(dims) = D /\ chunked_dims \in Seq(Lengths) /\ Len(chunked_dims) = D
      /\ D \in Nat /\ D >= 1
  BY <1>2, LayoutIs
<1>5. Taken'
  BY <1>1, <1>2 DEF Taken
<1>6. Dims' = 1 .. D /\ \A k \in 1 .. D : TheseChunkedDims'[k] \in Lengths
  <2>1. Dims' = 1 .. D
    BY <1>3 DEF Dims
  <2>2. (TheseChunkedDims \in [Dims -> Lengths])'
    BY <1>5, ChunkIs, PTL
  <2> QED
    BY <2>1, <2>2
<1>7. \A e \in {dims, chunked_dims} : Way(zero, Sizes(e), D + 1)[D + 1] = 0
  <2> TAKE e \in {dims, chunked_dims}
  <2> DEFINE S == Sizes(e)
             k == D + 1
  <2>1. S \in [0 .. D -> Lengths]
    BY <1>4, SizesAre
  <2> HIDE DEF S
  <2>2. \A i \in 1 .. k : S[i - 1] \in Int /\ zero[i] \in Int
    <3> TAKE i \in 1 .. k
    <3>1. i - 1 \in 0 .. D
      BY <1>4
    <3>2. S[i - 1] \in Lengths
      BY <2>1, <3>1
    <3> QED
      BY <3>2 DEF Lengths
  <2>3. k \in Nat /\ k \in 0 .. k /\ \A i \in 1 .. k : zero[i] = 0
    BY <1>4
  <2> HIDE DEF zero, k
  <2>4. Way(zero, S, k)[k] = 0
    BY <2>2, <2>3, WayOfNothing
  <2> QED
    BY <2>4 DEF S, k
<1>8. FindArrayPosition(s, dims) \in Nat
  <2>1. (chunk_start \in [Dims -> Nat])'
    BY <1>5, ChunkIs, PTL
  <2>2. s \in [1 .. D -> Nat]
    BY <1>1, <1>6, <2>1
  <2> QED
    BY <1>4, <2>2, PositionIs
<1>9. (RunIs(chunk_pos, curr_max_dim, index, db_pos))'
  <2>1. zero \in [1 .. D + 1 -> Nat] /\ zero[1] = 0 /\ zero[D + 1] = 0 /\ \A k \in 2 .. D : zero[k] = 0
    BY <1>4
  <2> HIDE DEF zero
  <2>2. \A k \in 2 .. D : zero[k] < TheseChunkedDims'[k]
    BY <1>4, <1>6, <2>1 DEF Lengths
  <2>3. Way(zero, Sizes(dims), D + 1)[D + 1] = 0 /\ Way(zero, Sizes(chunked_dims), D + 1)[D + 1] = 0
    BY <1>7
  <2>4. FindArrayPosition(s, dims) = FindArrayPosition(s, dims) + 0
    BY <1>8
  <2>5. D = 1 \/ 2 <= D
    BY <1>4
  <2> QED
    BY <1>1, <1>3, <2>1, <2>2, <2>3, <2>4, <2>5 DEF RunIs
<1>10. (chunk_start \in ChunkStarts(layout) \ todo)'
  BY <1>1, <1>2
<1>11. \A o \in [1 .. D -> Nat] : ~ Before(o, zero, D)
  <2> TAKE o \in [1 .. D -> Nat]
  <2>1. SUFFICES ASSUME Before(o, zero, D) PROVE FALSE
    OBVIOUS
  <2>2. PICK m \in 2 .. D + 1 : (IF m = D + 1 THEN 0 ELSE o[m]) < zero[m]
    BY <2>1 DEF Before
  <2>3. zero[m] = 0 /\ (m # D + 1 => o[m] \in Nat)
    BY <1>4
  <2> HIDE DEF zero
  <2> QED
    BY <2>2, <2>3
<1> HIDE DEF zero
<1>12. ASSUME NEW x \in Coordinates(dims), Home(x) \notin todo', Home(x) # s \/ Before(Offset(x), zero, D)
       PROVE  Placed(x) \in Copies
  <2>1. Home(x) # NoChunk /\ Offset(x) \in [1 .. D -> Nat]
    BY <1>2, HomeIs, LayoutIs
  <2>2. ~ Before(Offset(x), zero, D)
    BY <1>11, <2>1
  <2>3. Home(x) \notin todo /\ Home(x) # chunk_start
    BY <1>1, <1>12, <2>1, <2>2
  <2> QED
    BY <2>3 DEF CopyInv
<1>13. (\A x \in Coordinates(dims) :
           Home(x) \notin todo /\ (Home(x) # chunk_start \/ Before(Offset(x), chunk_pos, num_dims))
           => Placed(x) \in Copies)'
  <2>1. SUFFICES ASSUME NEW x \in Coordinates(dims),
                        Home(x) \notin todo', Home(x) # s \/ Before(Offset(x), zero, D)
                 PROVE  Placed(x) \in Copies
    BY <1>1, <1>3
  <2> QED
    BY <1>12, <2>1
<1>14. (layout \in Layouts /\ todo \subseteq ChunkStarts(layout) /\ Copies \subseteq Reference)'
  BY <1>1, <1>2, <1>3 DEF CopyInv
<1> QED
  BY <1>9, <1>10, <1>13, <1>14 DEF CopyInv

LEMMA RunKeeps ==
    ASSUME CopyInv, CopyRun
    PROVE  CopyInv'
<1> DEFINE c == Carried
           q == c.pos
           u == c.use_update
           D == num_dims
           Run1 == {<<index + i, chunk_start, db_pos + i>> : i \in 0 .. Run - 1}
<1>1. /\ layout' = layout /\ todo' = todo /\ chunk_start' = chunk_start
      /\ chunk_start # NoChunk /\ index < NumElems(dims) /\ PlaceData(index, db_pos, Run)
      /\ chunk_pos' = q /\ curr_max_dim' = c.max
      /\ index' = index + Run + TheseIndexUpdates[u + 1]
      /\ db_pos' = db_pos + Run + TheseChunkedUpdates[u + 1]
  BY DEF CopyRun
<1>2. Taken /\ RunIs(chunk_pos, curr_max_dim, index, db_pos) /\ chunk_start \in ChunkStarts(layout) \ todo
  BY <1>1 DEF CopyInv, Taken
<1>3. chunk_pos[num_dims + 1] = 0
  BY <1>1, <1>2, IndexEnds
<1>4. /\ dims' = dims /\ chunked_dims' = chunked_dims /\ num_dims' = D /\ Reference' = Reference
      /\ TheseChunkedDims' = TheseChunkedDims
      /\ \A x : Home(x)' = Home(x) /\ Offset(x)' = Offset(x) /\ Placed(x)' = Placed(x)
  BY <1>1 DEF dims, chunked_dims, num_dims, Dims, Reference, Home, Offset, Placed, TheseChunkedDims
<1>5. Copies' = Copies \cup Run1
  <2>1. written' = written \cup
            {[dst |-> index + i, chunk |-> chunk_start, src |-> db_pos + i] : i \in 0 .. Run - 1}
    BY <1>1 DEF PlaceData
  <2> HIDE DEF Run1
  <2>2. ASSUME NEW w \in written' PROVE <<w.dst, w.chunk, w.src>> \in Copies \cup Run1
    <3>1. CASE w \in written
      BY <3>1 DEF Copies
    <3>2. ASSUME NEW i \in 0 .. Run - 1, w = [dst |-> index + i, chunk |-> chunk_start, src |-> db_pos + i]
          PROVE  <<w.dst, w.chunk, w.src>> \in Copies \cup Run1
      <4>1. w.dst = index + i /\ w.chunk = chunk_start /\ w.src = db_pos + i
        BY <3>2
      <4> QED
        BY <4>1 DEF Run1
    <3> QED
      BY <2>1, <2>2, <3>1, <3>2
  <2>3. ASSUME NEW c1 \in Copies PROVE c1 \in Copies'
    <3>1. PICK w \in written : c1 = <<w.dst, w.chunk, w.src>>
      BY <2>3 DEF Copies
    <3> QED
      BY <2>1, <3>1 DEF Copies
  <2>4. ASSUME NEW c1 \in Run1 PROVE c1 \in Copies'
    <3>1. PICK i \in 0 .. Run - 1 : c1 = <<index + i, chunk_start, db_pos + i>>
      BY <2>4 DEF Run1
    <3> DEFINE w == [dst |-> index + i, chunk |-> chunk_start, src |-> db_pos + i]
    <3>2. w \in written' /\ w.dst = index + i /\ w.chunk = chunk_start /\ w.src = db_pos + i
      BY <2>1
    <3> HIDE DEF w
    <3> QED
      BY <3>1, <3>2 DEF Copies
  <2> QED
    BY <2>2, <2>3, <2>4 DEF Copies
<1>6. (RunIs(chunk_pos, curr_max_dim, index, db_pos))'
  <2>1. RunIs(q, c.max, index + Run + TheseIndexUpdates[u + 1], db_pos + Run + TheseChunkedUpdates[u + 1])
    BY <1>2, <1>3, TurnLeads
  <2> QED
    BY <1>1, <1>4, <2>1 DEF RunIs
<1>7. Run1 \subseteq Reference
  <2> SUFFICES ASSUME NEW i \in 0 .. Run - 1 PROVE <<index + i, chunk_start, db_pos + i>> \in Reference
    OBVIOUS
  <2> QED
    BY <1>2, <1>3, RunLies DEF Reference
<1>8. ASSUME NEW x \in Coordinates(dims), Home(x) = chunk_start, Before(Offset(x), q, D)
      PROVE  Placed(x) \in Copies \cup Run1
  <2> DEFINE o == Offset(x)
             t == TheseChunkedDims
  <2>1. Dims = 1 .. D /\ D \in Nat /\ D >= 1
    BY <1>2, LayoutIs DEF Taken
  <2>2. /\ x \in [Dims -> Nat] /\ o \in [1 .. D -> Nat]
        /\ \A j \in 1 .. D : x[j] < dims[j] /\ o[j] < chunked_dims[j] /\ chunk_start[j] + o[j] = x[j]
    BY <1>2, <1>8, <2>1, HomeIs DEF Taken
  <2>3. \A j \in 1 .. D : t[j] \in Lengths /\ o[j] < t[j]
    <3> TAKE j \in 1 .. D
    <3>1. o[j] \in Nat /\ o[j] < chunked_dims[j] /\ chunk_start[j] + o[j] < dims[j] /\ j \in Dims
      BY <2>1, <2>2
    <3> QED
      BY <1>2, <3>1, ChunkIs
  <2>4. PosOK
    BY <1>2, <1>3 DEF RunIs, PosOK
  <2>5. Stepped(chunk_pos, q, t, u, D)
    BY <1>2, <2>4, CarriedSteps
  <2>6. Before(o, chunk_pos, D) \/ \A k \in 2 .. D : o[k] = chunk_pos[k]
    <3>1. \A k \in 2 .. D : o[k] < t[k]
      BY <2>3
    <3>2. \A k \in 2 .. D : t[k] \in Nat
      BY <2>3 DEF Lengths
    <3> HIDE DEF o, t, D, q, u
    <3> QED
      BY <1>8, <2>1, <2>2, <2>5, <3>1, <3>2, BeforeNext, SMTT(60) DEF o
  <2>7. CASE Before(o, chunk_pos, D)
    BY <1>2, <1>8, <2>7 DEF CopyInv
  <2>8. CASE \A k \in 2 .. D : o[k] = chunk_pos[k]
    <3>1. chunk_pos \in [1 .. num_dims + 1 -> Nat]
      BY <1>2 DEF RunIs
    <3>2. PICK i \in 0 .. Run - 1 : x = InRun(i)
      BY <1>2, <1>8, <2>8, <3>1, InThisRun
    <3>3. Placed(x) = <<index + i, chunk_start, db_pos + i>>
      BY <1>2, <1>3, <3>2, RunLies
    <3> QED
      BY <3>3
  <2> QED
    BY <2>6, <2>7, <2>8
<1> HIDE DEF Run1, q, u, c, D
<1>9. ASSUME NEW x \in Coordinates(dims), Home(x) \notin todo, Home(x) # chunk_start \/ Before(Offset(x), q, D)
      PROVE  Placed(x) \in Copies \cup Run1
  <2>1. CASE Home(x) # chunk_start
    BY <1>9, <2>1 DEF CopyInv
  <2>2. CASE Home(x) = chunk_start
    BY <1>8, <1>9, <2>2
  <2> QED
    BY <2>1, <2>2
<1>10. (\A x \in Coordinates(dims) :
           Home(x) \notin todo /\ (Home(x) # chunk_start \/ Before(Offset(x), chunk_pos, num_dims))
           => Placed(x) \in Copies)'
  <2>1. SUFFICES ASSUME NEW x \in Coordinates(dims),
                        Home(x) \notin todo, Home(x) # chunk_start \/ Before(Offset(x), q, D)
                 PROVE  Placed(x) \in Copies \cup Run1
    BY <1>1, <1>4, <1>5
  <2> QED
    BY <1>9, <2>1
<1>11. (layout \in Layouts /\ todo \subseteq ChunkStarts(layout) /\ Copies \subseteq Reference)'
  BY <1>1, <1>4, <1>5, <1>7 DEF CopyInv
<1>12. (chunk_start \in ChunkStarts(layout) \ todo)'
  BY <1>1, <1>2
<1> QED
  BY <1>6, <1>10, <1>11, <1>12 DEF CopyInv

LEMMA CopiedKeeps ==
    ASSUME CopyInv, ChunkCopied
    PROVE  CopyInv'
<1> DEFINE D == num_dims
<1>1. /\ layout' = layout /\ todo' = todo /\ chunk_start' = NoChunk /\ written' = written /\ chunk_pos' = chunk_pos
      /\ chunk_start # NoChunk /\ index >= NumElems(dims)
  BY DEF ChunkCopied
<1>2. Taken /\ RunIs(chunk_pos, curr_max_dim, index, db_pos) /\ layout \in Layouts
  BY <1>1 DEF CopyInv, Taken
<1>3. chunk_pos[D + 1] = 1 /\ D \in Nat /\ D >= 1
  <2>1. D \in Nat /\ D >= 1
    BY <1>2, LayoutIs
  <2>2. index \in Nat /\ NumElems(dims) \in Nat /\ (index < NumElems(dims)) = (chunk_pos[num_dims + 1] = 0)
    BY <1>2, IndexEnds
  <2>3. ~ (index < NumElems(dims))
    BY <1>1, <2>2
  <2>4. chunk_pos[num_dims + 1] \in {0, 1}
    BY <1>2 DEF RunIs
  <2> QED
    BY <2>1, <2>2, <2>3, <2>4
<1>4. /\ dims' = dims /\ chunked_dims' = chunked_dims /\ num_dims' = D /\ Copies' = Copies /\ Reference' = Reference
      /\ \A x : Home(x)' = Home(x) /\ Offset(x)' = Offset(x) /\ Placed(x)' = Placed(x)
  BY <1>1 DEF dims, chunked_dims, num_dims, Dims, Copies, Reference, Home, Offset, Placed
<1>5. \A o : Before(o, chunk_pos, D)
  <2> TAKE o
  <2>1. D + 1 \in 2 .. D + 1 /\ 0 < chunk_pos[D + 1] /\ (D + 1) + 1 .. D + 1 = {}
    BY <1>3
  <2> HIDE DEF D
  <2> QED
    BY <2>1 DEF Before
<1>6. ASSUME NEW x \in Coordinates(dims), Home(x) \notin todo
      PROVE  Placed(x) \in Copies
  BY <1>5, <1>6 DEF CopyInv
<1>7. (\A x \in Coordinates(dims) :
           Home(x) \notin todo /\ (Home(x) # chunk_start \/ Before(Offset(x), chunk_pos, num_dims))
           => Placed(x) \in Copies)'
  BY <1>1, <1>4, <1>6
<1>8. (layout \in Layouts /\ todo \subseteq ChunkStarts(layout) /\ Copies \subseteq Reference)'
  BY <1>1, <1>4 DEF CopyInv
<1> QED
  BY <1>1, <1>7, <1>8 DEF CopyInv

(* What CopyInv says holds whenever a worker is between two turns of the   *)
(* loop, whatever the chunks and however many dimensions they have.        *)
THEOREM CopyInvariance == CopySpec => []CopyInv
<1>1. ASSUME CopyInv, [CopyNext]_copyVars PROVE CopyInv'
  <2>1. CASE \E s \in todo : TakeChunk(s)
    BY <1>1, <2>1, TakeKeeps
  <2>2. CASE CopyRun
    BY <1>1, <2>2, RunKeeps
  <2>3. CASE ChunkCopied
    BY <1>1, <2>3, CopiedKeeps
  <2>4. CASE UNCHANGED copyVars
    <3>1. /\ layout' = layout /\ todo' = todo /\ chunk_start' = chunk_start /\ index' = index /\ db_pos' = db_pos
          /\ chunk_pos' = chunk_pos /\ curr_max_dim' = curr_max_dim /\ written' = written
      BY <2>4 DEF copyVars
    <3>2. /\ dims' = dims /\ chunked_dims' = chunked_dims /\ num_dims' = num_dims
          /\ TheseChunkedDims' = TheseChunkedDims /\ Copies' = Copies /\ Reference' = Reference
          /\ \A x : Home(x)' = Home(x) /\ Offset(x)' = Offset(x) /\ Placed(x)' = Placed(x)
      BY <3>1 DEF dims, chunked_dims, num_dims, Dims, TheseChunkedDims, Copies, Reference, Home, Offset, Placed
    <3>3. chunk_start # NoChunk =>
             /\ (RunIs(chunk_pos, curr_max_dim, index, db_pos))'
             /\ (chunk_start \in ChunkStarts(layout) \ todo)'
      BY <1>1, <3>1, <3>2 DEF CopyInv, RunIs
    <3>4. (\A x \in Coordinates(dims) :
              Home(x) \notin todo /\ (Home(x) # chunk_start \/ Before(Offset(x), chunk_pos, num_dims))
              => Placed(x) \in Copies)'
      BY <1>1, <3>1, <3>2 DEF CopyInv
    <3>5. (layout \in Layouts /\ todo \subseteq ChunkStarts(layout) /\ Copies \subseteq Reference)'
      BY <1>1, <3>1, <3>2 DEF CopyInv
    <3> QED
      BY <3>1, <3>3, <3>4, <3>5 DEF CopyInv
  <2> QED
    BY <1>1, <2>1, <2>2, <2>3, <2>4 DEF CopyNext
<1> QED
  BY <1>1, CopyInvInit, PTL DEF CopySpec

(* No run of any chunk passes the end of the array or of the buffer, or    *)
(* writes over the elements of another chunk, whichever edges of the array *)
(* cut it: every element copied is one the reference names.                *)
THEOREM RunsInPlaceInvariant == CopySpec => []RunsInPlace
<1>1. CopyInv => RunsInPlace
  BY DEF CopyInv, RunsInPlace
<1> QED
  BY <1>1, CopyInvariance, PTL

(* When the loop has left the last chunk, all elements of the array have   *)
(* been copied, although only the jump of index past the array ends it.    *)
THEOREM CopyExactInvariant == CopySpec => []CopyExact
<1>1. ASSUME CopyInv PROVE CopyExact
  <2>1. SUFFICES ASSUME todo = {}, chunk_start = NoChunk PROVE Copies = Reference
    BY DEF CopyExact
  <2>2. ASSUME NEW x \in Coordinates(dims) PROVE Placed(x) \in Copies
    <3>1. Home(x) # NoChunk
      BY <1>1, HomeIs DEF CopyInv
    <3> QED
      BY <1>1, <2>1, <3>1 DEF CopyInv
  <2> QED
    BY <1>1, <2>2 DEF CopyInv, Reference
<1> QED
  BY <1>1, CopyInvariance, PTL

=============================================================================
