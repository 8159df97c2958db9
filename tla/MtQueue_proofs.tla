---------------------------- MODULE MtQueue_proofs -----------------------------
(* The queue under its lock, for every number of threads and whatever the  *)
(* page buckets hold: MtInv is inductive.                                  *)
EXTENDS MtQueue, Induction, SequenceTheorems, FiniteSetTheorems, TLAPS

-----------------------------------------------------------------------------
(* The pairs in the buckets before the b-th.                               *)
Flat == Partial(Buckets)
Before(b) == IF b = 1 THEN <<>> ELSE Flat[b - 1]

(* The concatenation of the buckets is reached a bucket at a time.         *)
LEMMA FlatIsWalk ==
    \E k \in [0 .. Len(Buckets) -> Seq(DataPairs)] :
        /\ k[0] = <<>>
        /\ \A i \in 1 .. Len(Buckets) : k[i] = k[i - 1] \o Buckets[i]
        /\ \A i \in 1 .. Len(Buckets) : Flat[i] = k[i]
BY MtAssumption, PartialIsWalk DEF Flat

LEMMA BeforeGrows ==
    /\ Before(1) = <<>>
    /\ \A b \in 1 .. Len(Buckets) : Before(b + 1) = Before(b) \o Buckets[b]
    /\ \A b \in 1 .. Len(Buckets) + 1 : Before(b) \in Seq(DataPairs)
    /\ Before(Len(Buckets) + 1) = AllPairs
<1>1. PICK k \in [0 .. Len(Buckets) -> Seq(DataPairs)] :
        /\ k[0] = <<>>
        /\ \A i \in 1 .. Len(Buckets) : k[i] = k[i - 1] \o Buckets[i]
        /\ \A i \in 1 .. Len(Buckets) : Flat[i] = k[i]
  BY FlatIsWalk
<1>2. Len(Buckets) \in Nat /\ Buckets \in Seq(Seq(DataPairs))
  BY MtAssumption
<1>3. ASSUME NEW b \in 1 .. Len(Buckets) + 1 PROVE Before(b) = k[b - 1]
  <2>1. b = 1 \/ b - 1 \in 1 .. Len(Buckets)
    BY <1>2
  <2> QED
    BY <1>1, <2>1 DEF Before
<1>4. ASSUME NEW b \in 1 .. Len(Buckets) PROVE Before(b + 1) = Before(b) \o Buckets[b]
  <2>1. (b + 1) - 1 = b /\ b + 1 \in 1 .. Len(Buckets) + 1 /\ b \in 1 .. Len(Buckets) + 1
    BY <1>2
  <2> QED
    BY <1>1, <1>3, <2>1
<1>5. AllPairs = k[Len(Buckets)]
  <2>1. CASE Len(Buckets) = 0
    <3>1. Buckets = <<>>
      BY <1>2, <2>1
    <3> QED
      BY <1>1, <2>1, <3>1 DEF AllPairs, FlattenSeq
  <2>2. CASE Len(Buckets) # 0
    <3>1. AllPairs = Flat[Len(Buckets)]
      BY <2>2 DEF AllPairs, FlattenSeq, Flat, Partial
    <3> QED
      BY <1>1, <1>2, <2>2, <3>1
  <2> QED
    BY <2>1, <2>2
<1>6. /\ (Len(Buckets) + 1) - 1 = Len(Buckets)
      /\ Len(Buckets) + 1 \in 1 .. Len(Buckets) + 1
      /\ 1 \in 1 .. Len(Buckets) + 1 /\ 1 - 1 = 0
  BY <1>2
<1>7. \A b \in 1 .. Len(Buckets) + 1 : Before(b) \in Seq(DataPairs)
  <2>1. \A b \in 1 .. Len(Buckets) + 1 : b - 1 \in 0 .. Len(Buckets)
    BY <1>2
  <2> QED
    BY <1>1, <1>3, <2>1
<1> QED
  BY <1>1, <1>3, <1>4, <1>5, <1>6, <1>7

(* Where the x-th pair of a bucket is in the whole.                        *)
Heads(b, s) == Len(Before(b)) <= Len(s) /\ \A j \in 1 .. Len(Before(b)) : s[j] = Before(b)[j]

LEMMA BeforeIsHead ==
    ASSUME NEW b \in 1 .. Len(Buckets) + 1
    PROVE  Heads(b, AllPairs)
<1> DEFINE T == {d \in Nat : b + d <= Len(Buckets) + 1 => Heads(b, Before(b + d))}
<1>1. Len(Buckets) \in Nat /\ Buckets \in Seq(Seq(DataPairs))
  BY MtAssumption
<1>2. Before(b) \in Seq(DataPairs)
  BY BeforeGrows
<1>3. 0 \in T
  <2>1. b + 0 = b
    OBVIOUS
  <2> QED
    BY <1>2, <2>1 DEF Heads
<1>4. ASSUME NEW d \in Nat, d \in T PROVE d + 1 \in T
  <2>1. ASSUME b + (d + 1) <= Len(Buckets) + 1 PROVE Heads(b, Before(b + (d + 1)))
    <3> DEFINE e == b + d
               s == Before(e)
    <3>1. e \in 1 .. Len(Buckets) /\ e + 1 = b + (d + 1) /\ e \in 1 .. Len(Buckets) + 1
      BY <1>1, <2>1
    <3>2. Heads(b, s)
      BY <1>4, <2>1, <1>1
    <3> HIDE DEF e
    <3>3. Before(e + 1) = s \o Buckets[e] /\ s \in Seq(DataPairs)
      BY <3>1, BeforeGrows
    <3>4. Buckets[e] \in Seq(DataPairs)
      BY <1>1, <3>1
    <3> HIDE DEF s
    <3>5. Heads(b, s \o Buckets[e])
      <4>1. Len(s \o Buckets[e]) = Len(s) + Len(Buckets[e])
        BY <3>3, <3>4
      <4>2. \A j \in 1 .. Len(s) : (s \o Buckets[e])[j] = s[j]
        BY <3>3, <3>4
      <4> QED
        BY <1>2, <3>2, <3>3, <3>4, <4>1, <4>2 DEF Heads
    <3> QED
      BY <3>1, <3>3, <3>5
  <2> QED
    BY <2>1
<1> HIDE DEF T
<1>5. Nat \subseteq T
  BY <1>3, <1>4, InductionOnSet
<1>6. PICK d \in Nat : b + d = Len(Buckets) + 1
  <2>1. Len(Buckets) + 1 - b \in Nat /\ b + (Len(Buckets) + 1 - b) = Len(Buckets) + 1
    BY <1>1
  <2> QED
    BY <2>1
<1>7. Heads(b, Before(b + d))
  <2>1. d \in T /\ b + d <= Len(Buckets) + 1
    BY <1>1, <1>5, <1>6
  <2> QED
    BY <2>1 DEF T
<1> QED
  BY <1>6, <1>7, BeforeGrows

LEMMA PairOfBucket ==
    ASSUME NEW b \in 1 .. Len(Buckets), NEW x \in Nat, x < Len(Buckets[b])
    PROVE  /\ Buckets[b][x + 1] \in DataPairs
           /\ Len(Before(b)) + x < Len(AllPairs)
           /\ AllPairs[Len(Before(b)) + x + 1] = Buckets[b][x + 1]
<1>1. Len(Buckets) \in Nat /\ Buckets[b] \in Seq(DataPairs) /\ b + 1 \in 1 .. Len(Buckets) + 1
  BY MtAssumption
<1> DEFINE s == Before(b)
           t == Buckets[b]
           u == Before(b + 1)
<1>2. s \in Seq(DataPairs) /\ u = s \o t /\ u \in Seq(DataPairs)
  BY <1>1, BeforeGrows
<1>3. Heads(b + 1, AllPairs)
  BY <1>1, BeforeIsHead
<1>4. t \in Seq(DataPairs) /\ x < Len(t)
  BY <1>1
<1> HIDE DEF s, t, u
<1>5. Len(u) = Len(s) + Len(t) /\ u[Len(s) + x + 1] = t[x + 1] /\ t[x + 1] \in DataPairs
  BY <1>2, <1>4
<1>6. Len(u) <= Len(AllPairs) /\ \A j \in 1 .. Len(u) : AllPairs[j] = u[j]
  BY <1>3 DEF Heads, u
<1>7. AllPairs \in Seq(DataPairs)
  BY <1>1, BeforeGrows
<1>8. Len(s) + x + 1 \in 1 .. Len(u) /\ Len(s) + x < Len(AllPairs)
  BY <1>2, <1>4, <1>5, <1>6, <1>7
<1> QED
  BY <1>5, <1>6, <1>8 DEF s, t

LEMMA PairsInOrder ==
    /\ AllPairs \in Seq(DataPairs)
    /\ \A b \in 1 .. Len(Buckets) + 1 : Len(Before(b)) \in Nat /\ Len(Before(b)) <= Len(AllPairs)
    /\ Len(Before(1)) = 0 /\ Len(Before(Len(Buckets) + 1)) = Len(AllPairs)
    /\ \A b \in 1 .. Len(Buckets) : Len(Before(b + 1)) = Len(Before(b)) + Len(Buckets[b])
<1>1. Len(Buckets) \in Nat /\ \A b \in 1 .. Len(Buckets) : Buckets[b] \in Seq(DataPairs)
  BY MtAssumption
<1>2. AllPairs \in Seq(DataPairs) /\ Len(Before(1)) = 0 /\ Before(Len(Buckets) + 1) = AllPairs
  BY <1>1, BeforeGrows
<1>3. ASSUME NEW b \in 1 .. Len(Buckets) + 1
      PROVE  Len(Before(b)) \in Nat /\ Len(Before(b)) <= Len(AllPairs)
  BY BeforeGrows, BeforeIsHead DEF Heads
<1>4. ASSUME NEW b \in 1 .. Len(Buckets)
      PROVE  Len(Before(b + 1)) = Len(Before(b)) + Len(Buckets[b])
  <2> DEFINE s == Before(b)
             t == Buckets[b]
  <2>1. s \in Seq(DataPairs) /\ t \in Seq(DataPairs) /\ Before(b + 1) = s \o t
    BY <1>1, BeforeGrows
  <2> HIDE DEF s, t
  <2>2. Len(s \o t) = Len(s) + Len(t)
    BY <2>1
  <2> QED
    BY <2>1, <2>2 DEF s, t
<1> QED
  BY <1>2, <1>3, <1>4

-----------------------------------------------------------------------------
NodeOrNull == Nodes \cup {NULL}
Putting  == {"put", "link", "back", "count", "countAll"}
Taking   == {"test", "take", "read", "front", "uncount"}
Linking  == {"back", "count", "countAll"}
Critical == {"link", "back", "count", "countAll", "read", "front", "uncount"}
States   == Putting \cup Taking \cup {"merge", "join", "freed", "held", "ended"}

MtTypeOK ==
    /\ use \in {"pages", "buffers"}
    /\ live \in SUBSET Nodes
    /\ next \in [Nodes -> NodeOrNull] /\ prev \in [Nodes -> NodeOrNull]
    /\ data \in [Nodes -> DataPairs \cup Workers \cup {NULL}]
    /\ abs_front \in NodeOrNull /\ front \in NodeOrNull /\ back \in NodeOrNull
    /\ length \in Nat /\ abs_length \in Nat
    /\ lock \in Threads \cup {NULL}
    /\ pc \in [Threads -> States]
    /\ new_node \in [Threads -> NodeOrNull] /\ to_return \in [Threads -> NodeOrNull]
    /\ bucket \in 1 .. Len(Buckets) + 1
    /\ left \in [1 .. Len(Buckets) -> Nat]
    /\ handed \in Seq(DataPairs)

(* the lock is held exactly where mt_enqueue and mt_dequeue hold it *)
LockHeld == \A t \in Threads : pc[t] \in Critical <=> lock = t

(* who does what, and when *)
Phases ==
    /\ pc[Main] \in Putting \cup {"merge", "join", "freed"}
    /\ \A t \in Workers : pc[t] \in {"held", "ended"} \cup (IF use = "pages" THEN Taking ELSE Putting)
    /\ use = "buffers" => pc[Main] \in {"join", "freed"} /\ handed = <<>>
    /\ pc[Main] \notin {"join", "freed"} => handed = <<>> /\ \A t \in Workers : pc[t] = "held"
    /\ use = "pages" /\ (\E t \in Workers : pc[t] = "ended") => length = 0

(* what has been handed out so far *)
TakenSoFar ==
    /\ Len(handed) <= Len(AllPairs)
    /\ \A i \in 1 .. Len(handed) : handed[i] = AllPairs[i]

(* where the holder of the lock is, and the nodes that are linked *)
Stage  == IF lock = NULL THEN "free" ELSE pc[lock]
Linked == IF Stage \in Linking THEN abs_length + 1 ELSE abs_length
Total  == IF Stage = "countAll" THEN abs_length + 1 ELSE abs_length

(* a node that mt_enqueue has filled and not linked yet *)
Apart(t) == pc[t] \in {"put", "link"}

(* how far mt_mergeQueue has come *)
MergeBooks ==
    /\ \A i \in 1 .. Len(Buckets) : i # bucket => left[i] = 0
    /\ bucket <= Len(Buckets) => left[bucket] <= Len(Buckets[bucket])
    /\ use = "buffers" => \A i \in 1 .. Len(Buckets) : left[i] = 0
    /\ use = "pages" =>
          /\ pc[Main] \in {"join", "freed"} => bucket = Len(Buckets) + 1
          /\ pc[Main] # "freed" =>
                 Linked + (IF Apart(Main) THEN 1 ELSE 0) =
                    Len(Before(bucket)) + (IF bucket <= Len(Buckets) THEN left[bucket] ELSE 0)
          /\ Apart(Main) => data[new_node[Main]] = AllPairs[Linked + 1]

(* a buffer's node belongs to the thread that allocated it *)
Owned ==
    use = "buffers" /\ pc[Main] # "freed" =>
        /\ \A t \in Workers : pc[t] # "held" => new_node[t] \in live /\ data[new_node[t]] = t
        /\ \A n \in live : data[n] \in Workers /\ pc[data[n]] # "held" /\ new_node[data[n]] = n

(* the nodes c are linked both ways from abs_front *)
LinkedAs(c) ==
    /\ c \in [1 .. Linked -> live]
    /\ \A i, j \in 1 .. Linked : c[i] = c[j] => i = j
    /\ Linked > 0 => abs_front = c[1] /\ next[c[Linked]] = NULL
    /\ \A i \in 2 .. Linked : next[c[i - 1]] = c[i] /\ prev[c[i]] = c[i - 1]

(* the ends of the queue and the locals of the thread that has the lock *)
EndsAt(c) ==
    /\ Linked > 0 /\ Stage # "back" => back = c[Linked]
    /\ Stage = "back" => Linked > 1 /\ back = c[Linked - 1]
    /\ Stage \in Linking => new_node[lock] = c[Linked]
    /\ Stage # "uncount" /\ Len(handed) < Linked => front = c[Len(handed) + 1]
    /\ Stage \in {"front", "uncount"} =>
          Len(handed) < Linked /\ to_return[lock] = c[Len(handed) + 1]
    /\ Stage = "uncount" => front = IF Len(handed) + 1 < Linked THEN c[Len(handed) + 2] ELSE NULL

(* no other node is allocated than those linked and those about to be *)
AllocatedIn(c) ==
    /\ \A t \in Threads : Apart(t) => new_node[t] \in live /\ \A i \in 1 .. Linked : c[i] # new_node[t]
    /\ \A s, t \in Threads : Apart(s) /\ Apart(t) /\ new_node[s] = new_node[t] => s = t
    /\ \A n \in live : (\E i \in 1 .. Linked : c[i] = n) \/ (\E t \in Threads : Apart(t) /\ new_node[t] = n)

(* the pages' queue holds the pairs in their order *)
FilledAs(c) == use = "pages" => \A i \in 1 .. Linked : data[c[i]] = AllPairs[i]

Counts == Len(handed) <= abs_length /\ length = Total - Len(handed)

QueueIs(c) == LinkedAs(c) /\ EndsAt(c) /\ AllocatedIn(c) /\ FilledAs(c)

Freed ==
    /\ pc[Main] = "freed" => /\ live = {} /\ abs_length = 0 /\ length = 0 /\ lock = NULL
                              /\ \A t \in Workers : pc[t] = "ended"
    /\ pc[Main] # "freed" => Counts /\ \E c : QueueIs(c)

MtInv == MtTypeOK /\ LockHeld /\ Phases /\ TakenSoFar /\ MergeBooks /\ Owned /\ Freed

-----------------------------------------------------------------------------
(* While the queue is in use; c is the order of its nodes.                 *)
Running(c) ==
    /\ MtTypeOK /\ LockHeld /\ Phases /\ TakenSoFar /\ MergeBooks /\ Owned
    /\ pc[Main] # "freed" /\ Counts /\ QueueIs(c)

LEMMA Constants ==
    /\ Main \in Threads /\ Workers \subseteq Threads /\ NULL \notin Threads /\ NULL \notin Nodes
    /\ Main \notin Workers
    /\ Threads = Workers \cup {Main}
    /\ Len(AllPairs) \in Nat /\ Cardinality(Workers) \in Nat
    /\ Len(Buckets) \in Nat
    /\ Nodes = 1 .. Len(AllPairs) + Cardinality(Workers)
<1>1. AllPairs \in Seq(DataPairs)
  BY PairsInOrder
<1>2. Cardinality(Workers) \in Nat
  BY MtAssumption, FS_CardinalityType
<1> QED
  BY <1>1, <1>2, MtAssumption DEF Threads, Nodes

(* One thread at a time is where the lock is held.                         *)
LEMMA Holder ==
    ASSUME MtTypeOK, LockHeld, NEW t \in Threads, pc[t] \in Critical
    PROVE  lock = t /\ lock # NULL /\ Stage = pc[t]
BY Constants DEF LockHeld, Stage

LEMMA NoHolder ==
    ASSUME lock = NULL
    PROVE  Stage = "free" /\ Linked = abs_length /\ Total = abs_length
BY DEF Stage, Linked, Total, Linking

LEMMA NobodyInside ==
    ASSUME MtTypeOK, LockHeld, \A t \in Threads : pc[t] \notin Critical
    PROVE  lock = NULL
BY DEF LockHeld, MtTypeOK

(* where each step begins and ends *)
Moves(s, t) == Stage = s /\ Stage' = t

LEMMA PutTurns ==
    ASSUME MtTypeOK, LockHeld, NEW t \in Threads
    PROVE  /\ LockToPut(t) => /\ Moves("free", "link") /\ lock' = t
                              /\ Linked' = Linked /\ Total' = Total
           /\ LinkFirst(t) => /\ Moves("link", "count") /\ lock = t /\ lock' = t
                              /\ Linked = 0 /\ Linked' = 1 /\ Total = 0 /\ Total' = 0
           /\ LinkLast(t)  => /\ Moves("link", "back") /\ lock = t /\ lock' = t
                              /\ Linked > 0 /\ Linked = abs_length /\ Linked' = Linked + 1
                              /\ Total' = Total
           /\ MoveBack(t)  => /\ Moves("back", "count") /\ lock = t /\ lock' = t
                              /\ Linked' = Linked /\ Total' = Total
           /\ CountOne(t)  => /\ Moves("count", "countAll") /\ lock = t /\ lock' = t
                              /\ Linked' = Linked /\ Total' = Total + 1
           /\ CountAll(t)  => /\ Moves("countAll", "free") /\ lock = t /\ lock' = NULL
                              /\ Linked' = Linked /\ Total' = Total
<1>1. pc \in [Threads -> States] /\ abs_length \in Nat /\ t # NULL
  BY Constants DEF MtTypeOK
<1>2. ASSUME LockToPut(t)
      PROVE  Moves("free", "link") /\ lock' = t /\ Linked' = Linked /\ Total' = Total
  <2>1. lock = NULL /\ lock' = t /\ pc'[t] = "link" /\ abs_length' = abs_length
    BY <1>1, <1>2 DEF LockToPut, Acquire, Goto, countVars
  <2> QED
    BY <1>1, <2>1 DEF Moves, Stage, Linked, Total, Linking
<1>3. ASSUME LinkFirst(t)
      PROVE  /\ Moves("link", "count") /\ lock = t /\ lock' = t
             /\ Linked = 0 /\ Linked' = 1 /\ Total = 0 /\ Total' = 0
  <2>1. pc[t] = "link" /\ lock' = lock /\ pc'[t] = "count" /\ abs_length = 0 /\ abs_length' = 0
    BY <1>1, <1>3 DEF LinkFirst, At, Goto, countVars
  <2>2. lock = t
    BY <2>1, Holder DEF Critical
  <2> QED
    BY <1>1, <2>1, <2>2 DEF Moves, Stage, Linked, Total, Linking
<1>4. ASSUME LinkLast(t)
      PROVE  /\ Moves("link", "back") /\ lock = t /\ lock' = t
             /\ Linked > 0 /\ Linked = abs_length /\ Linked' = Linked + 1 /\ Total' = Total
  <2>1. /\ pc[t] = "link" /\ lock' = lock /\ pc'[t] = "back"
        /\ abs_length > 0 /\ abs_length' = abs_length
    BY <1>1, <1>4 DEF LinkLast, At, Goto, countVars
  <2>2. lock = t
    BY <2>1, Holder DEF Critical
  <2> QED
    BY <1>1, <2>1, <2>2 DEF Moves, Stage, Linked, Total, Linking
<1>5. ASSUME MoveBack(t)
      PROVE  /\ Moves("back", "count") /\ lock = t /\ lock' = t
             /\ Linked' = Linked /\ Total' = Total
  <2>1. pc[t] = "back" /\ lock' = lock /\ pc'[t] = "count" /\ abs_length' = abs_length
    BY <1>1, <1>5 DEF MoveBack, At, Goto, countVars
  <2>2. lock = t
    BY <2>1, Holder DEF Critical
  <2> QED
    BY <1>1, <2>1, <2>2 DEF Moves, Stage, Linked, Total, Linking
<1>6. ASSUME CountOne(t)
      PROVE  /\ Moves("count", "countAll") /\ lock = t /\ lock' = t
             /\ Linked' = Linked /\ Total' = Total + 1
  <2>1. pc[t] = "count" /\ lock' = lock /\ pc'[t] = "countAll" /\ abs_length' = abs_length
    BY <1>1, <1>6 DEF CountOne, At, Goto
  <2>2. lock = t
    BY <2>1, Holder DEF Critical
  <2> QED
    BY <1>1, <2>1, <2>2 DEF Moves, Stage, Linked, Total, Linking
<1>7. ASSUME CountAll(t)
      PROVE  /\ Moves("countAll", "free") /\ lock = t /\ lock' = NULL
             /\ Linked' = Linked /\ Total' = Total
  <2>1. pc[t] = "countAll" /\ lock' = NULL /\ abs_length' = abs_length + 1
    BY <1>1, <1>7 DEF CountAll, At, Release
  <2>2. lock = t
    BY <2>1, Holder DEF Critical
  <2> QED
    BY <1>1, <2>1, <2>2 DEF Moves, Stage, Linked, Total, Linking
<1> QED
  BY <1>2, <1>3, <1>4, <1>5, <1>6, <1>7

LEMMA TakeTurns ==
    ASSUME MtTypeOK, LockHeld, NEW t \in Threads
    PROVE  /\ LockToTake(t)  => Moves("free", "read") /\ lock' = t
           /\ ReadFront(t)   => Moves("read", "front") /\ lock = t /\ lock' = t
           /\ NothingLeft(t) => Moves("read", "free") /\ lock = t /\ lock' = NULL
           /\ MoveFront(t)   => Moves("front", "uncount") /\ lock = t /\ lock' = t
           /\ Uncount(t)     => Moves("uncount", "free") /\ lock = t /\ lock' = NULL
<1>1. pc \in [Threads -> States] /\ t # NULL
  BY Constants DEF MtTypeOK
<1>2. ASSUME LockToTake(t) PROVE Moves("free", "read") /\ lock' = t
  BY <1>1, <1>2 DEF LockToTake, Acquire, Goto, Moves, Stage
<1>3. ASSUME ReadFront(t) PROVE Moves("read", "front") /\ lock = t /\ lock' = t
  <2>1. pc[t] = "read" /\ lock' = lock /\ pc'[t] = "front"
    BY <1>1, <1>3 DEF ReadFront, At, Goto
  <2> QED
    BY <1>1, <2>1, Holder DEF Critical, Moves, Stage
<1>4. ASSUME NothingLeft(t) PROVE Moves("read", "free") /\ lock = t /\ lock' = NULL
  <2>1. pc[t] = "read" /\ lock' = NULL
    BY <1>1, <1>4 DEF NothingLeft, At, Release
  <2> QED
    BY <1>1, <2>1, Holder DEF Critical, Moves, Stage
<1>5. ASSUME MoveFront(t) PROVE Moves("front", "uncount") /\ lock = t /\ lock' = t
  <2>1. pc[t] = "front" /\ lock' = lock /\ pc'[t] = "uncount"
    BY <1>1, <1>5 DEF MoveFront, At, Goto
  <2> QED
    BY <1>1, <2>1, Holder DEF Critical, Moves, Stage
<1>6. ASSUME Uncount(t) PROVE Moves("uncount", "free") /\ lock = t /\ lock' = NULL
  <2>1. pc[t] = "uncount" /\ lock' = NULL
    BY <1>1, <1>6 DEF Uncount, At, Release
  <2> QED
    BY <1>1, <2>1, Holder DEF Critical, Moves, Stage
<1> QED
  BY <1>2, <1>3, <1>4, <1>5, <1>6

(* A step outside the lock leaves the holder where it is; no step of       *)
(* mt_dequeue changes the number of nodes.                                 *)
LEMMA OutsideTurns ==
    ASSUME MtTypeOK, LockHeld, NEW t \in Threads, NEW l \in States,
           pc[t] \notin Critical, l \notin Critical, Goto(t, l), lock' = lock,
           abs_length' = abs_length
    PROVE  /\ LockHeld' /\ Stage' = Stage /\ Linked' = Linked /\ Total' = Total
<1>1. pc \in [Threads -> States] /\ lock \in Threads \cup {NULL}
  BY DEF MtTypeOK
<1>2. \A s \in Threads : pc'[s] = IF s = t THEN l ELSE pc[s]
  BY <1>1 DEF Goto
<1>3. LockHeld'
  BY <1>2 DEF LockHeld
<1>4. Stage' = Stage
  <2>1. lock = NULL \/ pc'[lock] = pc[lock]
    BY <1>1, <1>2 DEF LockHeld
  <2> QED
    BY <2>1 DEF Stage
<1> QED
  BY <1>3, <1>4 DEF Linked, Total

LEMMA InsideTurns ==
    ASSUME NEW s, NEW t, Moves(s, t), s \notin Linking, t \notin Linking,
           abs_length' = abs_length
    PROVE  Linked = abs_length /\ Total = abs_length /\ Linked' = Linked /\ Total' = Total
BY DEF Moves, Linked, Total, Linking

(* Taking the lock, keeping it and releasing it leave it held by the one   *)
(* who is inside.                                                          *)
LEMMA LockPassed ==
    ASSUME MtTypeOK, LockHeld, NEW t \in Threads, NEW l \in States, Goto(t, l),
           \/ lock = NULL /\ lock' = t /\ l \in Critical
           \/ lock = t /\ lock' = t /\ l \in Critical
           \/ lock = t /\ lock' = NULL /\ l \notin Critical
    PROVE  LockHeld'
<1>1. pc \in [Threads -> States]
  BY DEF MtTypeOK
<1>2. \A s \in Threads : pc'[s] = IF s = t THEN l ELSE pc[s]
  BY <1>1 DEF Goto
<1> QED
  BY <1>2, Constants DEF LockHeld

-----------------------------------------------------------------------------
(* When nobody is inside, mt_freeQueue's walk meets the nodes in c.        *)
LEMMA ChainIs ==
    ASSUME NEW c, LinkedAs(c), Linked = abs_length, abs_length \in Nat
    PROVE  \A i \in 1 .. abs_length : Chain[i] = c[i]
<1> DEFINE n == abs_length
           G(k) == [i \in 1 .. n |->
                       IF i = 1 THEN abs_front ELSE IF k[i - 1] \in live THEN next[k[i - 1]] ELSE NULL]
           K == CHOOSE k : k = G(k)
<1>1. /\ c \in [1 .. n -> live] /\ (n > 0 => abs_front = c[1])
      /\ \A i \in 2 .. n : next[c[i - 1]] = c[i]
  BY DEF LinkedAs
<1>2. Chain = K
  BY DEF Chain
<1>3. c = G(c)
  <2> SUFFICES ASSUME NEW i \in 1 .. n PROVE c[i] = G(c)[i]
    BY <1>1
  <2>1. CASE i = 1
    BY <1>1, <2>1
  <2>2. CASE i \in 2 .. n
    BY <1>1, <2>2
  <2> QED
    BY <2>1, <2>2
<1>4. K = G(K)
  <2> HIDE DEF G
  <2> QED
    BY <1>3
<1> HIDE DEF K
<1>5. ASSUME NEW i \in 1 .. n
      PROVE  K[i] = IF i = 1 THEN abs_front ELSE IF K[i - 1] \in live THEN next[K[i - 1]] ELSE NULL
  <2>1. G(K)[i] = IF i = 1 THEN abs_front ELSE IF K[i - 1] \in live THEN next[K[i - 1]] ELSE NULL
    OBVIOUS
  <2> HIDE DEF G
  <2> QED
    BY <1>4, <2>1
<1> HIDE DEF G
<1> DEFINE T == {i \in Nat : i + 1 <= n => K[i + 1] = c[i + 1]}
<1>6. 0 \in T
  BY <1>1, <1>5
<1>7. ASSUME NEW i \in Nat, i \in T PROVE i + 1 \in T
  <2>1. ASSUME (i + 1) + 1 <= n PROVE K[(i + 1) + 1] = c[(i + 1) + 1]
    <3> DEFINE m == (i + 1) + 1
    <3>1. m \in 2 .. n /\ m \in 1 .. n /\ m # 1 /\ m - 1 = i + 1 /\ m - 1 \in 1 .. n
      BY <2>1
    <3>2. K[m - 1] = c[m - 1]
      BY <1>7, <3>1
    <3> HIDE DEF m
    <3>3. c[m - 1] \in live /\ next[c[m - 1]] = c[m]
      BY <1>1, <3>1
    <3>4. K[m] = IF K[m - 1] \in live THEN next[K[m - 1]] ELSE NULL
      BY <1>5, <3>1
    <3> QED
      BY <3>2, <3>3, <3>4 DEF m
  <2> QED
    BY <2>1
<1> HIDE DEF T
<1>8. Nat \subseteq T
  BY <1>6, <1>7, InductionOnSet
<1>9. ASSUME NEW i \in 1 .. n PROVE i - 1 \in Nat /\ (i - 1) + 1 = i /\ i <= n
  OBVIOUS
<1> QED
  BY <1>2, <1>8, <1>9 DEF T

-----------------------------------------------------------------------------
(* mt_enqueue finds memory: Nodes is large enough for every pair and every *)
(* thread's buffer.                                                        *)
LEMMA NodeFound ==
    ASSUME MtTypeOK, NEW T, IsFiniteSet(T), Cardinality(T) < Cardinality(Nodes),
           NEW f \in [live -> T], \A x, y \in live : f[x] = f[y] => x = y
    PROVE  Min(Nodes \ live) \in Nodes \ live
<1>1. live \in SUBSET Nodes /\ IsFiniteSet(Nodes) /\ Nodes \subseteq Nat
  <2> DEFINE n == Len(AllPairs) + Cardinality(Workers)
  <2>1. n \in Nat /\ Nodes = 1 .. n
    BY Constants
  <2> HIDE DEF n
  <2>2. IsFiniteSet(1 .. n)
    BY <2>1, FS_Interval
  <2> QED
    BY <2>1, <2>2 DEF MtTypeOK
<1>2. live # Nodes
  <2> SUFFICES ASSUME live = Nodes PROVE FALSE
    OBVIOUS
  <2>1. IsFiniteSet(live) /\ Cardinality(T) < Cardinality(live)
    BY <1>1
  <2>2. \E x, y \in live : x # y /\ f[x] = f[y]
    BY <2>1, FS_PigeonHole
  <2> QED
    BY <2>2
<1>3. Nodes \ live # {} /\ Nodes \ live \in SUBSET Nat
  BY <1>1, <1>2
<1> QED
  BY <1>3, LeastOf

LEMMA HowManyNodes == Cardinality(Nodes) = Len(AllPairs) + Cardinality(Workers)
<1> DEFINE n == Len(AllPairs) + Cardinality(Workers)
<1>1. n \in Nat /\ Nodes = 1 .. n
  BY Constants
<1> HIDE DEF n
<1>2. Cardinality(1 .. n) = n
  BY <1>1, FS_Interval
<1> QED
  BY <1>1, <1>2 DEF n

(* Until the threads are let loose only the main thread is on the move.    *)
LEMMA MainAlone ==
    ASSUME MtTypeOK, Phases, pc[Main] \notin {"join", "freed"}
    PROVE  /\ use = "pages" /\ handed = <<>>
           /\ \A t \in Threads : t # Main => pc[t] = "held"
BY Constants DEF MtTypeOK, Phases

LEMMA RoomToMerge ==
    ASSUME NEW c, Running(c), pc[Main] = "merge",
           bucket <= Len(Buckets), left[bucket] < Len(Buckets[bucket])
    PROVE  /\ Min(Nodes \ live) \in Nodes \ live
           /\ lock = NULL /\ Linked < Len(AllPairs)
           /\ bucket \in 1 .. Len(Buckets) /\ left[bucket] \in Nat
           /\ Linked = Len(Before(bucket)) + left[bucket]
<1>1. MtTypeOK /\ LockHeld /\ Phases
  BY DEF Running
<1>2. use = "pages" /\ \A t \in Threads : t # Main => pc[t] = "held"
  BY <1>1, MainAlone
<1>3. lock = NULL
  BY <1>1, <1>2, NobodyInside DEF Critical
<1>4. bucket \in 1 .. Len(Buckets) /\ left[bucket] \in Nat
  <2>1. bucket \in 1 .. Len(Buckets) + 1 /\ left \in [1 .. Len(Buckets) -> Nat]
    BY <1>1 DEF MtTypeOK
  <2>2. bucket \in 1 .. Len(Buckets)
    BY <2>1, Constants
  <2> QED
    BY <2>1, <2>2
<1>5. Linked = Len(Before(bucket)) + left[bucket]
  <2>1. ~ Apart(Main)
    BY DEF Apart
  <2>2. /\ Linked + (IF Apart(Main) THEN 1 ELSE 0) =
              Len(Before(bucket)) + (IF bucket <= Len(Buckets) THEN left[bucket] ELSE 0)
        /\ abs_length \in Nat
    BY <1>1, <1>2 DEF Running, MergeBooks, MtTypeOK
  <2>3. Linked = abs_length
    BY <1>3, NoHolder
  <2> QED
    BY <2>1, <2>2, <2>3
<1>6. Linked < Len(AllPairs)
  BY <1>4, <1>5, PairOfBucket
<1>7. Linked \in Nat
  BY <1>1, <1>3, NoHolder DEF MtTypeOK
<1> DEFINE f == [n \in live |-> CHOOSE i \in 1 .. Linked : c[i] = n]
<1>8. \A n \in live : f[n] \in 1 .. Linked /\ c[f[n]] = n
  <2>1. \A n \in live : \E i \in 1 .. Linked : c[i] = n
    <3>1. \A t \in Threads : ~ Apart(t)
      BY <1>2 DEF Apart
    <3> QED
      BY <3>1 DEF Running, QueueIs, AllocatedIn
  <2> QED
    BY <2>1
<1>9. f \in [live -> 1 .. Linked] /\ \A x, y \in live : f[x] = f[y] => x = y
  <2>1. DOMAIN f = live /\ f = [n \in live |-> f[n]]
    OBVIOUS
  <2> HIDE DEF f
  <2> QED
    BY <1>8, <2>1
<1> HIDE DEF f
<1>10. IsFiniteSet(1 .. Linked) /\ Cardinality(1 .. Linked) < Cardinality(Nodes)
  <2>1. IsFiniteSet(1 .. Linked) /\ Cardinality(1 .. Linked) = Linked
    BY <1>7, FS_Interval
  <2> QED
    BY <1>6, <1>7, <2>1, HowManyNodes, Constants
<1>11. Min(Nodes \ live) \in Nodes \ live
  BY <1>1, <1>9, <1>10, NodeFound
<1> QED
  BY <1>3, <1>4, <1>5, <1>6, <1>11

LEMMA RoomToPut ==
    ASSUME MtTypeOK, Owned, pc[Main] # "freed", use = "buffers",
           NEW t \in Workers, pc[t] = "held"
    PROVE  Min(Nodes \ live) \in Nodes \ live
<1> DEFINE T == Workers \ {t}
           f == [n \in live |-> data[n]]
<1>1. \A n \in live : data[n] \in T /\ new_node[data[n]] = n
  BY DEF Owned
<1>2. f \in [live -> T] /\ \A x, y \in live : f[x] = f[y] => x = y
  BY <1>1
<1>3. IsFiniteSet(T) /\ Cardinality(T) = Cardinality(Workers) - 1
  BY MtAssumption, FS_RemoveElement
<1> HIDE DEF T, f
<1>4. Cardinality(T) < Cardinality(Nodes)
  BY <1>3, HowManyNodes, Constants
<1> QED
  BY <1>2, <1>3, <1>4, NodeFound

-----------------------------------------------------------------------------
(* A step that leaves the nodes, the ends and the locals alone.            *)
LEMMA QueueKept ==
    ASSUME NEW c, QueueIs(c), UNCHANGED <<use, nodeVars, endVars, localVars, handed>>,
           Linked' = Linked,
           \A t \in Threads : Apart(t)' <=> Apart(t),
           Stage' = "back" <=> Stage = "back", Stage' = "uncount" <=> Stage = "uncount",
           Stage' \in Linking => Stage \in Linking /\ lock' = lock,
           Stage' \in {"front", "uncount"} => Stage' = Stage /\ lock' = lock
    PROVE  QueueIs(c)'
<1>1. LinkedAs(c)'
  BY DEF QueueIs, LinkedAs, nodeVars, endVars
<1>2. EndsAt(c)'
  BY DEF QueueIs, EndsAt, nodeVars, endVars, localVars
<1>3. AllocatedIn(c)'
  BY DEF QueueIs, AllocatedIn, nodeVars, localVars
<1>4. FilledAs(c)'
  BY DEF QueueIs, FilledAs, nodeVars
<1> QED
  BY <1>1, <1>2, <1>3, <1>4 DEF QueueIs

(* A step of no interest to mt_mergeQueue.                                 *)
LEMMA MergeKept ==
    ASSUME MergeBooks, UNCHANGED <<use, data, new_node, mergeVars>>, Linked' = Linked,
           Apart(Main)' <=> Apart(Main), pc[Main] # "freed", pc'[Main] # "freed",
           pc'[Main] = "join" => pc[Main] = "join"
    PROVE  MergeBooks'
BY DEF MergeBooks, mergeVars

LEMMA OwnedKept ==
    ASSUME Owned, UNCHANGED <<use, live, data, new_node>>, pc[Main] # "freed",
           use = "buffers" => \A t \in Workers : pc'[t] = "held" <=> pc[t] = "held"
    PROVE  Owned'
BY DEF Owned

LEMMA TakenKept ==
    ASSUME TakenSoFar, UNCHANGED handed
    PROVE  TakenSoFar'
BY DEF TakenSoFar

(* The type of a step that only moves a thread and the lock.               *)
LEMMA TypeKept ==
    ASSUME MtTypeOK, NEW t \in Threads, NEW l \in States, Goto(t, l),
           lock' \in Threads \cup {NULL},
           UNCHANGED <<use, nodeVars, endVars, localVars, handed>>,
           length' \in Nat, abs_length' \in Nat,
           bucket' \in 1 .. Len(Buckets) + 1, left' \in [1 .. Len(Buckets) -> Nat]
    PROVE  MtTypeOK'
BY DEF MtTypeOK, Goto, nodeVars, endVars, localVars

-----------------------------------------------------------------------------
(* The steps of mt_enqueue.                                                *)
LEMMA PutPhases ==
    ASSUME MtTypeOK, Phases, NEW t \in Threads, NEW l, Goto(t, l), UNCHANGED <<use, handed>>,
           pc[t] \in Putting, pc[Main] # "freed",
           l \in Putting \/ l = (IF t = Main THEN "merge" ELSE "ended")
    PROVE  /\ Phases' /\ pc'[Main] # "freed"
           /\ pc'[Main] = "join" <=> pc[Main] = "join"
           /\ \A s \in Workers : pc'[s] = "held" <=> pc[s] = "held"
<1>1. /\ \A s \in Threads : pc'[s] = IF s = t THEN l ELSE pc[s]
      /\ Main \in Threads /\ \A s \in Workers : s \in Threads /\ s # Main
  BY Constants DEF MtTypeOK, Goto
<1>2. t = Main \/ t \in Workers
  BY Constants
<1>3. CASE t = Main
  <2>1. pc[Main] \in Putting /\ pc[Main] \notin {"join", "freed"}
    BY <1>3 DEF Putting
  <2>2. use = "pages" /\ handed = <<>> /\ \A s \in Workers : pc[s] = "held"
    BY <1>1, <2>1, MainAlone
  <2>3. pc'[Main] \in Putting \cup {"merge"} /\ \A s \in Workers : pc'[s] = pc[s]
    BY <1>1, <1>3
  <2> QED
    BY <2>1, <2>2, <2>3 DEF Phases, Putting
<1>4. CASE t \in Workers
  <2>1. /\ t # Main /\ pc'[Main] = pc[Main] /\ pc'[t] \in Putting \cup {"ended"}
        /\ \A s \in Workers : s # t => pc'[s] = pc[s]
    BY <1>1, <1>4
  <2>2. pc[t] # "held" /\ pc[t] # "ended" /\ pc[t] \notin Taking /\ pc'[t] # "held"
    BY <2>1 DEF Putting, Taking
  <2>3. use = "buffers" /\ pc[Main] \in {"join", "freed"} /\ handed = <<>>
    BY <1>4, <2>2 DEF Phases, MtTypeOK
  <2> QED
    BY <1>4, <2>1, <2>2, <2>3 DEF Phases, Putting
<1> QED
  BY <1>2, <1>3, <1>4

LEMMA LockToPutSafe ==
    ASSUME NEW c, Running(c), NEW t \in Threads, LockToPut(t)
    PROVE  Running(c)'
<1>1. /\ MtTypeOK /\ LockHeld /\ Phases /\ TakenSoFar /\ MergeBooks /\ Owned
      /\ pc[Main] # "freed" /\ Counts /\ QueueIs(c)
  BY DEF Running
<1>2. /\ pc[t] = "put" /\ lock = NULL /\ lock' = t /\ Goto(t, "link")
      /\ UNCHANGED <<use, nodeVars, endVars, countVars, localVars, mergeVars, handed>>
  BY DEF LockToPut, At, Acquire
<1>3. Moves("free", "link") /\ Linked' = Linked /\ Total' = Total
  BY <1>1, PutTurns
<1>4. "put" \in Putting /\ "link" \in Putting /\ "link" \in Critical /\ "link" \in States
  BY DEF Putting, Critical, States
<1>5. MtTypeOK'
  BY <1>1, <1>2, <1>4, TypeKept DEF MtTypeOK, countVars, mergeVars
<1>6. LockHeld'
  BY <1>1, <1>2, <1>4, LockPassed
<1>7. /\ Phases' /\ pc'[Main] # "freed"
      /\ pc'[Main] = "join" <=> pc[Main] = "join"
      /\ \A s \in Workers : pc'[s] = "held" <=> pc[s] = "held"
  BY <1>1, <1>2, <1>4, PutPhases
<1>8. \A s \in Threads : Apart(s)' <=> Apart(s)
  BY <1>1, <1>2 DEF Apart, Goto, MtTypeOK
<1>9. TakenSoFar' /\ MergeBooks' /\ Owned'
  BY <1>1, <1>2, <1>3, <1>7, <1>8, TakenKept, MergeKept, OwnedKept, Constants
     DEF nodeVars, localVars
<1>10. Counts'
  BY <1>1, <1>2, <1>3 DEF Counts, countVars
<1>11. QueueIs(c)'
  BY <1>1, <1>2, <1>3, <1>8, QueueKept DEF Moves, Linking
<1> QED
  BY <1>5, <1>6, <1>7, <1>9, <1>10, <1>11 DEF Running

LEMMA CountOneSafe ==
    ASSUME NEW c, Running(c), NEW t \in Threads, CountOne(t)
    PROVE  Running(c)'
<1>1. /\ MtTypeOK /\ LockHeld /\ Phases /\ TakenSoFar /\ MergeBooks /\ Owned
      /\ pc[Main] # "freed" /\ Counts /\ QueueIs(c)
  BY DEF Running
<1>2. /\ pc[t] = "count" /\ Goto(t, "countAll") /\ length' = length + 1
      /\ UNCHANGED <<use, nodeVars, endVars, abs_length, lock, localVars, mergeVars, handed>>
  BY DEF CountOne, At
<1>3. /\ Moves("count", "countAll") /\ lock = t /\ lock' = t
      /\ Linked' = Linked /\ Total' = Total + 1
  BY <1>1, PutTurns
<1>4. /\ "count" \in Putting /\ "countAll" \in Putting /\ "countAll" \in Critical
      /\ "countAll" \in States
  BY DEF Putting, Critical, States
<1>5. MtTypeOK'
  <2>1. length' \in Nat /\ abs_length' \in Nat
    BY <1>1, <1>2 DEF MtTypeOK
  <2> QED
    BY <1>1, <1>2, <1>3, <1>4, <2>1, TypeKept DEF MtTypeOK, mergeVars
<1>6. LockHeld'
  BY <1>1, <1>2, <1>3, <1>4, LockPassed
<1>7. /\ Phases' /\ pc'[Main] # "freed"
      /\ pc'[Main] = "join" <=> pc[Main] = "join"
      /\ \A s \in Workers : pc'[s] = "held" <=> pc[s] = "held"
  BY <1>1, <1>2, <1>4, PutPhases
<1>8. \A s \in Threads : Apart(s)' <=> Apart(s)
  BY <1>1, <1>2 DEF Apart, Goto, MtTypeOK
<1>9. TakenSoFar' /\ MergeBooks' /\ Owned'
  BY <1>1, <1>2, <1>3, <1>7, <1>8, TakenKept, MergeKept, OwnedKept, Constants
     DEF nodeVars, localVars
<1>10. Counts'
  <2>1. Total \in Int /\ Len(handed) \in Nat
    BY <1>1 DEF MtTypeOK, Total
  <2> QED
    BY <1>1, <1>2, <1>3, <2>1 DEF Counts
<1>11. QueueIs(c)'
  BY <1>1, <1>2, <1>3, <1>8, QueueKept DEF Moves, Linking
<1> QED
  BY <1>5, <1>6, <1>7, <1>9, <1>10, <1>11 DEF Running

LEMMA CountAllSafe ==
    ASSUME NEW c, Running(c), NEW t \in Threads, CountAll(t)
    PROVE  Running(c)'
<1>1. /\ MtTypeOK /\ LockHeld /\ Phases /\ TakenSoFar /\ MergeBooks /\ Owned
      /\ pc[Main] # "freed" /\ Counts /\ QueueIs(c)
  BY DEF Running
<1> DEFINE l == IF t = Main THEN "merge" ELSE "ended"
<1>2. /\ pc[t] = "countAll" /\ Goto(t, l) /\ abs_length' = abs_length + 1 /\ lock' = NULL
      /\ UNCHANGED <<use, nodeVars, endVars, length, localVars, mergeVars, handed>>
  BY DEF CountAll, At, Release
<1>3. /\ Moves("countAll", "free") /\ lock = t /\ lock' = NULL
      /\ Linked' = Linked /\ Total' = Total
  BY <1>1, PutTurns
<1>4. "countAll" \in Putting /\ l \notin Critical /\ l \in States /\ l \notin {"put", "link"}
  BY DEF Putting, Critical, States
<1>5. MtTypeOK'
  <2>1. length' \in Nat /\ abs_length' \in Nat
    BY <1>1, <1>2 DEF MtTypeOK
  <2> QED
    BY <1>1, <1>2, <1>3, <1>4, <2>1, TypeKept DEF MtTypeOK, mergeVars
<1>6. LockHeld'
  BY <1>1, <1>2, <1>3, <1>4, LockPassed
<1>7. /\ Phases' /\ pc'[Main] # "freed"
      /\ pc'[Main] = "join" <=> pc[Main] = "join"
      /\ \A s \in Workers : pc'[s] = "held" <=> pc[s] = "held"
  BY <1>1, <1>2, <1>4, PutPhases
<1> HIDE DEF l
<1>8. \A s \in Threads : Apart(s)' <=> Apart(s)
  BY <1>1, <1>2, <1>4 DEF Apart, Goto, MtTypeOK
<1>9. TakenSoFar' /\ MergeBooks' /\ Owned'
  BY <1>1, <1>2, <1>3, <1>7, <1>8, TakenKept, MergeKept, OwnedKept, Constants
     DEF nodeVars, localVars
<1>10. Counts'
  <2>1. abs_length \in Nat /\ Len(handed) \in Nat
    BY <1>1 DEF MtTypeOK
  <2> QED
    BY <1>1, <1>2, <1>3, <2>1 DEF Counts
<1>11. QueueIs(c)'
  BY <1>1, <1>2, <1>3, <1>8, QueueKept DEF Moves, Linking
<1> QED
  BY <1>5, <1>6, <1>7, <1>9, <1>10, <1>11 DEF Running

(* mt_mergeQueue's queue is never taken from while it is put to, and the   *)
(* front of a buffers' queue never moves.                                  *)
LEMMA PutMeansNoneTaken ==
    ASSUME MtTypeOK, Phases, NEW t \in Threads, pc[t] \in Putting
    PROVE  handed = <<>> /\ (use = "pages" => t = Main)
<1>1. t = Main \/ t \in Workers
  BY Constants
<1> QED
  BY <1>1 DEF MtTypeOK, Phases, Putting, Taking

LEMMA MoveBackSafe ==
    ASSUME NEW c, Running(c), NEW t \in Threads, MoveBack(t)
    PROVE  Running(c)'
<1>1. /\ MtTypeOK /\ LockHeld /\ Phases /\ TakenSoFar /\ MergeBooks /\ Owned
      /\ pc[Main] # "freed" /\ Counts /\ QueueIs(c)
  BY DEF Running
<1>2. /\ pc[t] = "back" /\ Goto(t, "count") /\ back' = new_node[t]
      /\ front' = IF length = 0 THEN new_node[t] ELSE front
      /\ UNCHANGED <<use, nodeVars, abs_front, countVars, lock, localVars, mergeVars, handed>>
  BY DEF MoveBack, At
<1>3. /\ Moves("back", "count") /\ lock = t /\ lock' = t
      /\ Linked' = Linked /\ Total' = Total
  BY <1>1, PutTurns
<1>4. "back" \in Putting /\ "count" \in Putting /\ "count" \in Critical /\ "count" \in States
  BY DEF Putting, Critical, States
<1>5. MtTypeOK'
  BY <1>1, <1>2, <1>3, <1>4 DEF MtTypeOK, Goto, nodeVars, countVars, localVars, mergeVars
<1>6. LockHeld'
  BY <1>1, <1>2, <1>3, <1>4, LockPassed
<1>7. /\ Phases' /\ pc'[Main] # "freed"
      /\ pc'[Main] = "join" <=> pc[Main] = "join"
      /\ \A s \in Workers : pc'[s] = "held" <=> pc[s] = "held"
  BY <1>1, <1>2, <1>4, PutPhases
<1>8. \A s \in Threads : Apart(s)' <=> Apart(s)
  BY <1>1, <1>2 DEF Apart, Goto, MtTypeOK
<1>9. TakenSoFar' /\ MergeBooks' /\ Owned'
  BY <1>1, <1>2, <1>3, <1>7, <1>8, TakenKept, MergeKept, OwnedKept, Constants
     DEF nodeVars, localVars
<1>10. Counts'
  BY <1>1, <1>2, <1>3 DEF Counts, countVars
<1>11. QueueIs(c)'
  <2>1. LinkedAs(c)'
    BY <1>1, <1>2, <1>3 DEF QueueIs, LinkedAs, nodeVars
  <2>2. EndsAt(c)'
    <3>1. handed = <<>> /\ Len(handed) = 0
      BY <1>1, <1>2, <1>4, PutMeansNoneTaken
    <3>2. Linked > 1 /\ new_node[t] = c[Linked] /\ Linked = abs_length + 1 /\ Total = abs_length
      BY <1>1, <1>3 DEF QueueIs, EndsAt, Moves, Linked, Total, Linking
    <3>3. front = c[1] /\ length # 0
      BY <1>1, <1>3, <3>1, <3>2 DEF QueueIs, EndsAt, Moves, Counts, MtTypeOK
    <3> QED
      BY <1>2, <1>3, <3>1, <3>2, <3>3 DEF EndsAt, Moves, Linking, localVars
  <2>3. AllocatedIn(c)'
    BY <1>1, <1>2, <1>3, <1>8 DEF QueueIs, AllocatedIn, nodeVars, localVars
  <2>4. FilledAs(c)'
    BY <1>1, <1>2, <1>3 DEF QueueIs, FilledAs, nodeVars
  <2> QED
    BY <2>1, <2>2, <2>3, <2>4 DEF QueueIs
<1> QED
  BY <1>5, <1>6, <1>7, <1>9, <1>10, <1>11 DEF Running

(* The new node goes after the last one.                                   *)
Extended(c, n) == [i \in 1 .. Linked + 1 |-> IF i = Linked + 1 THEN n ELSE c[i]]

LEMMA ExtendedBy ==
    ASSUME NEW c, NEW n, Linked \in Nat, c \in [1 .. Linked -> live], n \in live,
           \A i, j \in 1 .. Linked : c[i] = c[j] => i = j,
           \A i \in 1 .. Linked : c[i] # n,
           NEW d, d = Extended(c, n)
    PROVE  /\ d \in [1 .. Linked + 1 -> live]
           /\ d[Linked + 1] = n /\ \A i \in 1 .. Linked : d[i] = c[i]
           /\ \A i, j \in 1 .. Linked + 1 : d[i] = d[j] => i = j
           /\ \A i \in 1 .. Linked + 1 : i = Linked + 1 \/ i \in 1 .. Linked
<1> DEFINE m == Linked
<1>1. /\ \A i \in 1 .. m + 1 : i = m + 1 \/ i \in 1 .. m
      /\ m + 1 \in 1 .. m + 1 /\ m + 1 \notin 1 .. m
      /\ \A i \in 1 .. m : i \in 1 .. m + 1
  OBVIOUS
<1>2. d = [i \in 1 .. m + 1 |-> IF i = m + 1 THEN n ELSE c[i]]
  BY DEF Extended
<1> HIDE DEF m
<1>3. DOMAIN d = 1 .. m + 1 /\ d[m + 1] = n /\ \A i \in 1 .. m : d[i] = c[i]
  BY <1>1, <1>2
<1>4. d \in [1 .. m + 1 -> live]
  <2>1. \A i \in 1 .. m + 1 : d[i] \in live
    BY <1>1, <1>3 DEF m
  <2> QED
    BY <1>2, <2>1
<1>5. \A i, j \in 1 .. m + 1 : d[i] = d[j] => i = j
  BY <1>1, <1>3 DEF m
<1> QED
  BY <1>1, <1>3, <1>4, <1>5 DEF m

(* what linking a node leaves to be shown, for the first as for the others *)
LEMMA LinkedIn ==
    ASSUME NEW c, Running(c), NEW t \in Threads, pc[t] = "link", lock = t,
           NEW l \in {"count", "back"}, Goto(t, l), Linked' = Linked + 1,
           NEW d, d = Extended(c, new_node[t]),
           UNCHANGED <<use, live, data, lock, new_node, mergeVars, handed>>
    PROVE  /\ LockHeld' /\ Phases' /\ TakenSoFar' /\ MergeBooks' /\ Owned'
           /\ pc'[Main] # "freed" /\ AllocatedIn(d)' /\ FilledAs(d)'
<1>1. /\ MtTypeOK /\ LockHeld /\ Phases /\ TakenSoFar /\ MergeBooks /\ Owned
      /\ pc[Main] # "freed" /\ AllocatedIn(c) /\ LinkedAs(c) /\ FilledAs(c)
  BY DEF Running, QueueIs
<1>2. "link" \in Putting /\ l \in Putting /\ l \in Critical /\ l \in States /\ l \notin {"put", "link"}
  BY DEF Putting, Critical, States
<1>3. LockHeld'
  BY <1>1, <1>2, LockPassed
<1>4. /\ Phases' /\ pc'[Main] # "freed"
      /\ pc'[Main] = "join" <=> pc[Main] = "join"
      /\ \A s \in Workers : pc'[s] = "held" <=> pc[s] = "held"
  BY <1>1, <1>2, PutPhases
<1>5. handed = <<>> /\ (use = "pages" => t = Main)
  BY <1>1, <1>2, PutMeansNoneTaken
<1>6. Apart(t) /\ ~ Apart(t)' /\ \A s \in Threads : s # t => (Apart(s)' <=> Apart(s))
  BY <1>1, <1>2 DEF Apart, Goto, MtTypeOK
<1>7. Linked \in Nat
  BY <1>1 DEF Linked, MtTypeOK
<1>8. new_node[t] \in live /\ \A i \in 1 .. Linked : c[i] # new_node[t]
  BY <1>1, <1>6 DEF AllocatedIn
<1>9. /\ d[Linked + 1] = new_node[t] /\ \A i \in 1 .. Linked : d[i] = c[i]
      /\ \A i \in 1 .. Linked + 1 : i = Linked + 1 \/ i \in 1 .. Linked
      /\ \A i \in 1 .. Linked : i \in 1 .. Linked + 1
      /\ Linked + 1 \in 1 .. Linked + 1
  BY <1>1, <1>7, <1>8, ExtendedBy DEF LinkedAs
<1>10. MergeBooks'
  <2>1. CASE use = "buffers"
    BY <1>1, <1>4, <2>1 DEF MergeBooks, mergeVars
  <2>2. CASE use = "pages"
    <3>1. t = Main /\ ~ Apart(Main)' /\ Apart(Main)
      BY <1>5, <1>6, <2>2
    <3>2. Linked + 1 = Len(Before(bucket)) + (IF bucket <= Len(Buckets) THEN left[bucket] ELSE 0)
      BY <1>1, <2>2, <3>1 DEF MergeBooks
    <3>3. pc'[Main] \notin {"join", "freed"}
      BY <1>1, <1>2, <3>1 DEF Goto, MtTypeOK, Putting
    <3>4. Linked' + 0 = Linked + 1
      BY <1>7
    <3>5. /\ \A i \in 1 .. Len(Buckets) : i # bucket => left[i] = 0
          /\ bucket <= Len(Buckets) => left[bucket] <= Len(Buckets[bucket])
      BY <1>1 DEF MergeBooks
    <3>6. bucket' = bucket /\ left' = left /\ use' = "pages"
      BY <2>2 DEF mergeVars
    <3> QED
      BY <3>1, <3>2, <3>3, <3>4, <3>5, <3>6 DEF MergeBooks
  <2> QED
    BY <1>1, <2>1, <2>2 DEF MtTypeOK
<1>11. TakenSoFar' /\ Owned'
  BY <1>1, <1>4, TakenKept, OwnedKept
<1>12. AllocatedIn(d)'
  <2> DEFINE m == Linked
  <2>0. Linked' = m + 1
    OBVIOUS
  <2> HIDE DEF m
  <2>1. ASSUME NEW s \in Threads, Apart(s)'
        PROVE  new_node[s] \in live /\ \A i \in 1 .. m + 1 : d[i] # new_node[s]
    <3>1. s # t /\ Apart(s)
      BY <1>6, <2>1
    <3>2. new_node[s] # new_node[t] /\ new_node[s] \in live /\ \A i \in 1 .. m : c[i] # new_node[s]
      BY <1>1, <1>6, <3>1 DEF AllocatedIn, m
    <3> QED
      BY <1>9, <3>2 DEF m
  <2>2. ASSUME NEW r \in Threads, NEW s \in Threads, Apart(r)', Apart(s)', new_node[r] = new_node[s]
        PROVE  r = s
    BY <1>1, <1>6, <2>2 DEF AllocatedIn
  <2>3. ASSUME NEW n \in live
        PROVE  (\E i \in 1 .. m + 1 : d[i] = n) \/ (\E s \in Threads : Apart(s)' /\ new_node[s] = n)
    <3>1. CASE \E i \in 1 .. m : c[i] = n
      BY <1>9, <3>1 DEF m
    <3>2. CASE \E s \in Threads : Apart(s) /\ new_node[s] = n
      BY <1>6, <1>9, <3>2 DEF m
    <3> QED
      BY <1>1, <3>1, <3>2 DEF AllocatedIn, m
  <2> QED
    BY <2>0, <2>1, <2>2, <2>3 DEF AllocatedIn
<1>13. FilledAs(d)'
  <2>1. ASSUME use = "pages", NEW i \in 1 .. Linked + 1 PROVE data[d[i]] = AllPairs[i]
    <3>1. CASE i \in 1 .. Linked
      BY <1>1, <1>9, <2>1, <3>1 DEF FilledAs
    <3>2. CASE i = Linked + 1
      BY <1>1, <1>5, <1>6, <1>9, <2>1, <3>2 DEF MergeBooks
    <3> QED
      BY <1>9, <3>1, <3>2
  <2> QED
    BY <2>1 DEF FilledAs
<1> QED
  BY <1>3, <1>4, <1>10, <1>11, <1>12, <1>13

LEMMA LinkFirstSafe ==
    ASSUME NEW c, Running(c), NEW t \in Threads, LinkFirst(t)
    PROVE  \E d : Running(d)'
<1> DEFINE n == new_node[t]
<1>1. /\ MtTypeOK /\ LockHeld /\ Phases /\ Counts /\ LinkedAs(c) /\ AllocatedIn(c)
  BY DEF Running, QueueIs
<1>2. /\ pc[t] = "link" /\ Goto(t, "count")
      /\ next' = [next EXCEPT ![n] = NULL] /\ prev' = [prev EXCEPT ![n] = NULL]
      /\ abs_front' = n /\ front' = n /\ back' = n
      /\ UNCHANGED <<use, live, data, countVars, lock, localVars, mergeVars, handed>>
  BY DEF LinkFirst, At
<1>3. /\ Moves("link", "count") /\ lock = t /\ lock' = t
      /\ Linked = 0 /\ Linked' = 1 /\ Total = 0 /\ Total' = 0
  BY <1>1, PutTurns
<1>4. n \in live /\ n \in Nodes
  BY <1>1, <1>2 DEF AllocatedIn, Apart, MtTypeOK
<1>5. PICK d : d = Extended(c, n)
  OBVIOUS
<1>6. /\ LockHeld' /\ Phases' /\ TakenSoFar' /\ MergeBooks' /\ Owned'
      /\ pc'[Main] # "freed" /\ AllocatedIn(d)' /\ FilledAs(d)'
  BY <1>2, <1>3, <1>5, LinkedIn DEF localVars
<1>7. d \in [1 .. 1 -> live] /\ d[1] = n
  BY <1>3, <1>4, <1>5 DEF Extended
<1>8. "count" \in States
  BY DEF States, Putting
<1> HIDE DEF n
<1>9. MtTypeOK'
  BY <1>1, <1>2, <1>3, <1>4, <1>8 DEF MtTypeOK, Goto, NodeOrNull, countVars, localVars, mergeVars
<1>10. LinkedAs(d)'
  <2>1. next'[n] = NULL
    BY <1>1, <1>2, <1>4 DEF MtTypeOK
  <2>2. d \in [1 .. 1 -> live'] /\ abs_front' = d[1] /\ next'[d[1]] = NULL
    BY <1>2, <1>7, <2>1
  <2> QED
    BY <1>3, <2>2 DEF LinkedAs
<1>11. EndsAt(d)'
  <2>1. handed' = <<>> /\ Len(<<>>) + 1 = 1
    BY <1>1, <1>2, PutMeansNoneTaken DEF Putting
  <2>2. front' = d[1] /\ back' = d[1] /\ new_node'[t] = d[1]
    BY <1>2, <1>7 DEF localVars, n
  <2>3. Stage' = "count" /\ Linked' = 1 /\ lock' = t
    BY <1>3 DEF Moves
  <2> QED
    BY <2>1, <2>2, <2>3 DEF EndsAt
<1>12. Counts'
  BY <1>1, <1>2, <1>3 DEF Counts, countVars
<1> QED
  BY <1>6, <1>9, <1>10, <1>11, <1>12 DEF Running, QueueIs

LEMMA LinkLastSafe ==
    ASSUME NEW c, Running(c), NEW t \in Threads, LinkLast(t)
    PROVE  \E d : Running(d)'
<1> DEFINE n == new_node[t]
           m == Linked
<1>1. /\ MtTypeOK /\ LockHeld /\ Phases /\ Counts /\ LinkedAs(c) /\ AllocatedIn(c) /\ EndsAt(c)
  BY DEF Running, QueueIs
<1>2. /\ pc[t] = "link" /\ Goto(t, "back")
      /\ prev' = (IF next[back] = NULL THEN [prev EXCEPT ![n] = back]
                  ELSE [prev EXCEPT ![n] = back, ![next[back]] = n])
      /\ next' = [next EXCEPT ![n] = next[back], ![back] = n]
      /\ UNCHANGED <<use, live, data, endVars, countVars, lock, localVars, mergeVars, handed>>
  BY DEF LinkLast, At
<1>3. /\ Moves("link", "back") /\ lock = t /\ lock' = t
      /\ m > 0 /\ m = abs_length /\ Linked' = m + 1 /\ Total' = Total
  BY <1>1, PutTurns
<1>4. n \in live /\ n \in Nodes /\ \A i \in 1 .. m : c[i] # n
  BY <1>1, <1>2 DEF AllocatedIn, Apart, MtTypeOK
<1>5. PICK d : d = Extended(c, n)
  OBVIOUS
<1>6. /\ LockHeld' /\ Phases' /\ TakenSoFar' /\ MergeBooks' /\ Owned'
      /\ pc'[Main] # "freed" /\ AllocatedIn(d)' /\ FilledAs(d)'
  BY <1>2, <1>3, <1>5, LinkedIn DEF localVars
<1>7. m \in Nat \ {0} /\ c \in [1 .. m -> live] /\ \A i, j \in 1 .. m : c[i] = c[j] => i = j
  BY <1>1, <1>3 DEF LinkedAs, MtTypeOK
<1>8. /\ d \in [1 .. m + 1 -> live]
      /\ d[m + 1] = n /\ \A i \in 1 .. m : d[i] = c[i]
      /\ \A i, j \in 1 .. m + 1 : d[i] = d[j] => i = j
      /\ \A i \in 1 .. m + 1 : i = m + 1 \/ i \in 1 .. m
  BY <1>4, <1>5, <1>7, ExtendedBy
<1>9. back = c[m] /\ next[back] = NULL /\ back \in Nodes /\ back # n /\ abs_front = c[1]
  <2>1. back = c[m] /\ next[c[m]] = NULL /\ abs_front = c[1]
    BY <1>1, <1>3 DEF EndsAt, LinkedAs, Moves
  <2>2. m \in 1 .. m
    BY <1>7
  <2> QED
    BY <1>1, <1>4, <1>7, <2>1, <2>2 DEF MtTypeOK
<1>10. "back" \in States
  BY DEF States, Putting
<1>11. m > 0 /\ 1 \in 1 .. m /\ m \in 1 .. m /\ m + 1 > 1 /\ (m + 1) - 1 = m
  BY <1>7
<1> HIDE DEF n, m
<1>12. next' = [next EXCEPT ![n] = NULL, ![back] = n] /\ prev' = [prev EXCEPT ![n] = back]
  BY <1>2, <1>9
<1>13. MtTypeOK'
  BY <1>1, <1>2, <1>3, <1>4, <1>9, <1>10, <1>12
     DEF MtTypeOK, Goto, NodeOrNull, endVars, countVars, localVars, mergeVars
<1>14. LinkedAs(d)'
  <2>1. next'[n] = NULL /\ next'[back] = n /\ prev'[n] = back
    BY <1>1, <1>4, <1>9, <1>12 DEF MtTypeOK
  <2>2. \A x \in live : x # n => prev'[x] = prev[x] /\ (x # back => next'[x] = next[x])
    BY <1>1, <1>12 DEF MtTypeOK
  <2>3. ASSUME NEW i \in 2 .. m + 1 PROVE next'[d[i - 1]] = d[i] /\ prev'[d[i]] = d[i - 1]
    <3>1. CASE i = m + 1
      BY <1>8, <1>9, <1>11, <2>1, <3>1
    <3>2. CASE i \in 2 .. m
      <4>1. i \in 1 .. m /\ i - 1 \in 1 .. m /\ i - 1 # m
        BY <1>7, <3>2
      <4>2. d[i] = c[i] /\ d[i - 1] = c[i - 1] /\ c[i - 1] # back
        BY <1>7, <1>8, <1>9, <1>11, <4>1
      <4>3. c[i] \in live /\ c[i - 1] \in live /\ c[i] # n /\ c[i - 1] # n
        BY <1>4, <1>7, <4>1
      <4>4. next[c[i - 1]] = c[i] /\ prev[c[i]] = c[i - 1]
        BY <1>1, <3>2 DEF LinkedAs, m
      <4> QED
        BY <2>2, <4>2, <4>3, <4>4
    <3> QED
      BY <1>7, <3>1, <3>2
  <2>4. abs_front' = d[1] /\ next'[d[m + 1]] = NULL
    BY <1>2, <1>8, <1>9, <1>11, <2>1 DEF endVars
  <2>5. live' = live
    BY <1>2
  <2> QED
    BY <1>3, <1>8, <2>3, <2>4, <2>5 DEF LinkedAs
<1>15. EndsAt(d)'
  <2>1. handed = <<>> /\ Len(<<>>) + 1 = 1 /\ Len(<<>>) = 0
    BY <1>1, <1>2, PutMeansNoneTaken DEF Putting
  <2>2. front = c[1]
    BY <1>1, <1>3, <2>1 DEF EndsAt, Moves, m
  <2>3. handed' = <<>> /\ front' = d[1] /\ back' = d[m] /\ new_node'[t] = d[m + 1]
    BY <1>2, <1>8, <1>9, <1>11, <2>1, <2>2 DEF endVars, localVars, n
  <2>4. Stage' = "back" /\ Linked' = m + 1 /\ lock' = t
    BY <1>3 DEF Moves
  <2> QED
    BY <1>11, <2>1, <2>3, <2>4 DEF EndsAt
<1>16. Counts'
  BY <1>1, <1>2, <1>3 DEF Counts, countVars
<1> QED
  BY <1>6, <1>13, <1>14, <1>15, <1>16 DEF Running, QueueIs

-----------------------------------------------------------------------------
(* The steps of a thread that takes.                                       *)
LEMMA TakePhases ==
    ASSUME MtTypeOK, Phases, pc[Main] # "freed",
           NEW t \in Workers, NEW l \in Taking \cup {"ended"}, Goto(t, l), UNCHANGED use,
           pc[t] \in Taking,
           l = "ended" => length = 0,
           length' = length \/ (length > 0 /\ length' = length - 1)
    PROVE  /\ Phases' /\ use = "pages" /\ pc[Main] = "join" /\ pc'[Main] = "join"
           /\ \A s \in Threads : Apart(s)' <=> Apart(s)
<1>1. /\ \A s \in Threads : pc'[s] = IF s = t THEN l ELSE pc[s]
      /\ Main \in Threads /\ \A s \in Workers : s \in Threads /\ s # Main
  BY Constants DEF MtTypeOK, Goto
<1>2. pc[t] \notin Putting \cup {"held", "ended"} /\ l \notin Putting
  BY DEF Taking, Putting
<1>3. use = "pages" /\ pc[Main] = "join"
  BY <1>2 DEF Phases, MtTypeOK
<1>4. pc'[Main] = pc[Main] /\ \A s \in Workers : s # t => pc'[s] = pc[s]
  BY <1>1
<1>5. pc'[t] = l
  BY <1>1
<1>6. (\E s \in Workers : pc'[s] = "ended") => length' = 0
  <2> SUFFICES ASSUME NEW s \in Workers, pc'[s] = "ended" PROVE length' = 0
    OBVIOUS
  <2>1. length = 0
    BY <1>3, <1>4, <1>5 DEF Phases
  <2> QED
    BY <2>1
<1>7. Phases'
  BY <1>3, <1>4, <1>5, <1>6 DEF Phases
<1>8. \A s \in Threads : Apart(s)' <=> Apart(s)
  BY <1>1, <1>2 DEF Apart, Putting
<1> QED
  BY <1>3, <1>4, <1>7, <1>8

(* what a step of the taker leaves as it is *)
LEMMA TakeKept ==
    ASSUME NEW c, Running(c), Linked' = Linked, use = "pages",
           pc[Main] = "join", pc'[Main] = "join", \A s \in Threads : Apart(s)' <=> Apart(s),
           UNCHANGED <<use, nodeVars, abs_front, new_node, mergeVars>>
    PROVE  /\ MergeBooks' /\ Owned' /\ LinkedAs(c)' /\ AllocatedIn(c)' /\ FilledAs(c)'
<1>1. MergeBooks /\ Owned /\ LinkedAs(c) /\ AllocatedIn(c) /\ FilledAs(c)
  BY DEF Running, QueueIs
<1>2. MergeBooks' /\ Owned'
  BY <1>1, MergeKept, OwnedKept, Constants DEF nodeVars
<1>3. LinkedAs(c)'
  BY <1>1 DEF LinkedAs, nodeVars
<1>4. AllocatedIn(c)'
  BY <1>1 DEF AllocatedIn, nodeVars
<1>5. FilledAs(c)'
  BY <1>1 DEF FilledAs, nodeVars
<1> QED
  BY <1>2, <1>3, <1>4, <1>5

(* When the main thread waits for the others the queue has all the pairs.  *)
LEMMA AllMerged ==
    ASSUME MergeBooks, use = "pages", pc[Main] = "join", Linked \in Int
    PROVE  Linked = Len(AllPairs)
<1>1. bucket = Len(Buckets) + 1 /\ ~ Apart(Main)
  BY DEF MergeBooks, Apart
<1>2. Linked + 0 = Len(Before(Len(Buckets) + 1)) + 0
  BY <1>1, Constants DEF MergeBooks
<1> QED
  BY <1>2, PairsInOrder, Constants

LEMMA TestLengthSafe ==
    ASSUME NEW c, Running(c), NEW t \in Workers, TestLength(t)
    PROVE  Running(c)'
<1> DEFINE l == IF length > 0 THEN "take" ELSE "ended"
<1>1. /\ MtTypeOK /\ LockHeld /\ Phases /\ TakenSoFar /\ MergeBooks /\ Owned
      /\ pc[Main] # "freed" /\ Counts /\ QueueIs(c) /\ t \in Threads
  BY Constants DEF Running
<1>2. /\ pc[t] = "test" /\ Goto(t, l)
      /\ UNCHANGED <<use, nodeVars, endVars, countVars, lock, localVars, mergeVars, handed>>
  BY DEF TestLength, At
<1>3. /\ l \in Taking \cup {"ended"} /\ l \in States /\ l \notin Critical /\ pc[t] \in Taking
      /\ pc[t] \notin Critical
      /\ l = "ended" => length = 0
  BY <1>1, <1>2 DEF Taking, States, Critical, MtTypeOK
<1> HIDE DEF l
<1>4. LockHeld' /\ Stage' = Stage /\ Linked' = Linked /\ Total' = Total
  BY <1>1, <1>2, <1>3, OutsideTurns DEF countVars
<1>5. MtTypeOK'
  BY <1>1, <1>2, <1>3, TypeKept DEF MtTypeOK, countVars, mergeVars
<1>6. /\ Phases' /\ use = "pages" /\ pc[Main] = "join" /\ pc'[Main] = "join"
      /\ \A s \in Threads : Apart(s)' <=> Apart(s)
  BY <1>1, <1>2, <1>3, TakePhases DEF countVars
<1>7. MergeBooks' /\ Owned' /\ TakenSoFar' /\ Counts'
  BY <1>1, <1>2, <1>4, <1>6, TakeKept, TakenKept DEF Counts, endVars, localVars, countVars
<1>8. QueueIs(c)'
  BY <1>1, <1>2, <1>4, <1>6, QueueKept
<1> QED
  BY <1>4, <1>5, <1>6, <1>7, <1>8 DEF Running

LEMMA LockToTakeSafe ==
    ASSUME NEW c, Running(c), NEW t \in Workers, LockToTake(t)
    PROVE  Running(c)'
<1>1. /\ MtTypeOK /\ LockHeld /\ Phases /\ TakenSoFar /\ MergeBooks /\ Owned
      /\ pc[Main] # "freed" /\ Counts /\ QueueIs(c) /\ t \in Threads
  BY Constants DEF Running
<1>2. /\ pc[t] = "take" /\ lock = NULL /\ lock' = t /\ Goto(t, "read")
      /\ UNCHANGED <<use, nodeVars, endVars, countVars, localVars, mergeVars, handed>>
  BY DEF LockToTake, At, Acquire
<1>3. "read" \in Taking /\ "take" \in Taking /\ "read" \in States /\ "read" \in Critical
  BY DEF Taking, States, Critical
<1>4. Moves("free", "read") /\ Linked' = Linked /\ Total' = Total
  BY <1>1, <1>2, TakeTurns, InsideTurns DEF Linking, countVars
<1>5. MtTypeOK' /\ LockHeld'
  BY <1>1, <1>2, <1>3, TypeKept, LockPassed DEF MtTypeOK, countVars, mergeVars
<1>6. /\ Phases' /\ use = "pages" /\ pc[Main] = "join" /\ pc'[Main] = "join"
      /\ \A s \in Threads : Apart(s)' <=> Apart(s)
  BY <1>1, <1>2, <1>3, TakePhases DEF countVars
<1>7. MergeBooks' /\ Owned' /\ TakenSoFar' /\ Counts'
  BY <1>1, <1>2, <1>4, <1>6, TakeKept, TakenKept DEF Counts, endVars, localVars, countVars
<1>8. QueueIs(c)'
  BY <1>1, <1>2, <1>4, <1>6, QueueKept DEF Moves, Linking
<1> QED
  BY <1>5, <1>6, <1>7, <1>8 DEF Running

(* What is counted is what is linked and not handed out.                   *)
LEMMA WhatIsLeft ==
    ASSUME NEW c, Running(c), Stage \notin Linking
    PROVE  /\ Linked = abs_length /\ Linked \in Nat /\ Len(handed) \in Nat
           /\ length = Linked - Len(handed) /\ Len(handed) <= Linked
<1>1. Linked = abs_length /\ Total = abs_length
  BY DEF Linked, Total, Linking
<1> QED
  BY <1>1 DEF Running, Counts, MtTypeOK

LEMMA ReadFrontSafe ==
    ASSUME NEW c, Running(c), NEW t \in Workers, ReadFront(t)
    PROVE  Running(c)'
<1>1. /\ MtTypeOK /\ LockHeld /\ Phases /\ TakenSoFar /\ EndsAt(c)
      /\ pc[Main] # "freed" /\ Counts /\ t \in Threads
  BY Constants DEF Running, QueueIs
<1>2. /\ pc[t] = "read" /\ length > 0 /\ to_return' = [to_return EXCEPT ![t] = front]
      /\ Goto(t, "front")
      /\ UNCHANGED <<use, nodeVars, endVars, countVars, lock, new_node, mergeVars, handed>>
  BY DEF ReadFront, At
<1>3. "front" \in Taking /\ "read" \in Taking /\ "front" \in States /\ "front" \in Critical
  BY DEF Taking, States, Critical
<1>4. Moves("read", "front") /\ lock = t /\ lock' = t /\ Linked' = Linked /\ Total' = Total
  BY <1>1, <1>2, TakeTurns, InsideTurns DEF Linking, countVars
<1>5. MtTypeOK'
  BY <1>1, <1>2, <1>3, <1>4 DEF MtTypeOK, Goto, nodeVars, endVars, countVars, mergeVars
<1>6. LockHeld'
  BY <1>1, <1>2, <1>3, <1>4, LockPassed
<1>7. /\ Phases' /\ use = "pages" /\ pc[Main] = "join" /\ pc'[Main] = "join"
      /\ \A s \in Threads : Apart(s)' <=> Apart(s)
  BY <1>1, <1>2, <1>3, TakePhases DEF countVars
<1>8. MergeBooks' /\ Owned' /\ LinkedAs(c)' /\ AllocatedIn(c)' /\ FilledAs(c)'
  BY <1>2, <1>4, <1>7, TakeKept DEF endVars
<1>9. TakenSoFar' /\ Counts'
  BY <1>1, <1>2, <1>4, TakenKept DEF Counts, countVars
<1>10. EndsAt(c)'
  <2>1. Stage = "read" /\ Stage' = "front"
    BY <1>4 DEF Moves
  <2>2. Len(handed) < Linked
    BY <1>2, <2>1, WhatIsLeft DEF Linking
  <2>3. front = c[Len(handed) + 1] /\ back = c[Linked]
    BY <1>1, <2>1, <2>2, WhatIsLeft DEF EndsAt, Linking
  <2>4. to_return'[t] = front
    BY <1>1, <1>2 DEF MtTypeOK
  <2>5. front' = front /\ back' = back /\ handed' = handed
    BY <1>2 DEF endVars
  <2> QED
    BY <1>4, <2>1, <2>2, <2>3, <2>4, <2>5 DEF EndsAt, Linking
<1> QED
  BY <1>5, <1>6, <1>7, <1>8, <1>9, <1>10 DEF Running, QueueIs

(* front runs out exactly when the count does *)
LEMMA NothingLeftSafe ==
    ASSUME NEW c, Running(c), NEW t \in Workers, NothingLeft(t)
    PROVE  Running(c)'
<1>1. /\ MtTypeOK /\ LockHeld /\ Phases /\ TakenSoFar /\ MergeBooks /\ Owned
      /\ pc[Main] # "freed" /\ Counts /\ QueueIs(c) /\ t \in Threads
  BY Constants DEF Running
<1>2. /\ pc[t] = "read" /\ (front = NULL \/ length = 0) /\ lock' = NULL /\ Goto(t, "ended")
      /\ UNCHANGED <<use, nodeVars, endVars, countVars, localVars, mergeVars, handed>>
  BY DEF NothingLeft, At, Release
<1>3. "read" \in Taking /\ "ended" \in States /\ "ended" \notin Critical
  BY DEF Taking, States, Critical
<1>4. Moves("read", "free") /\ lock = t /\ lock' = NULL /\ Linked' = Linked /\ Total' = Total
  BY <1>1, <1>2, TakeTurns, InsideTurns DEF Linking, countVars
<1>5. length = 0
  <2>1. Stage = "read"
    BY <1>4 DEF Moves
  <2>2. /\ Linked \in Nat /\ Len(handed) \in Nat
        /\ length = Linked - Len(handed) /\ Len(handed) <= Linked
    BY <2>1, WhatIsLeft DEF Linking
  <2>3. ASSUME Len(handed) < Linked PROVE front # NULL
    <3>1. front = c[Len(handed) + 1]
      BY <1>1, <2>1, <2>3 DEF QueueIs, EndsAt
    <3>2. Len(handed) + 1 \in 1 .. Linked
      BY <2>2, <2>3
    <3>3. c[Len(handed) + 1] \in live
      BY <1>1, <3>2 DEF QueueIs, LinkedAs
    <3> QED
      BY <1>1, <3>1, <3>3, Constants DEF MtTypeOK
  <2> QED
    BY <1>2, <2>2, <2>3
<1>6. MtTypeOK' /\ LockHeld'
  BY <1>1, <1>2, <1>3, <1>4, TypeKept, LockPassed DEF MtTypeOK, countVars, mergeVars
<1>7. /\ Phases' /\ use = "pages" /\ pc[Main] = "join" /\ pc'[Main] = "join"
      /\ \A s \in Threads : Apart(s)' <=> Apart(s)
  BY <1>1, <1>2, <1>3, <1>5, TakePhases DEF countVars
<1>8. MergeBooks' /\ Owned' /\ TakenSoFar' /\ Counts'
  BY <1>1, <1>2, <1>4, <1>7, TakeKept, TakenKept DEF Counts, endVars, localVars, countVars
<1>9. QueueIs(c)'
  BY <1>1, <1>2, <1>4, <1>7, QueueKept DEF Moves, Linking
<1> QED
  BY <1>6, <1>7, <1>8, <1>9 DEF Running

LEMMA MoveFrontSafe ==
    ASSUME NEW c, Running(c), NEW t \in Workers, MoveFront(t)
    PROVE  Running(c)'
<1>1. /\ MtTypeOK /\ LockHeld /\ Phases /\ TakenSoFar /\ EndsAt(c) /\ LinkedAs(c)
      /\ pc[Main] # "freed" /\ Counts /\ t \in Threads
  BY Constants DEF Running, QueueIs
<1>2. /\ pc[t] = "front" /\ front' = next[to_return[t]] /\ Goto(t, "uncount")
      /\ UNCHANGED <<use, nodeVars, abs_front, back, countVars, lock, localVars, mergeVars, handed>>
  BY DEF MoveFront, At
<1>3. /\ "front" \in Taking /\ "uncount" \in Taking
      /\ "uncount" \in States /\ "uncount" \in Critical
  BY DEF Taking, States, Critical
<1>4. Moves("front", "uncount") /\ lock = t /\ lock' = t /\ Linked' = Linked /\ Total' = Total
  BY <1>1, <1>2, TakeTurns, InsideTurns DEF Linking, countVars
<1>5. /\ Linked \in Nat /\ Len(handed) \in Nat /\ Len(handed) < Linked
      /\ to_return[t] = c[Len(handed) + 1] /\ back = c[Linked]
  BY <1>1, <1>4, WhatIsLeft DEF Moves, EndsAt, Linking
<1>6. front' = IF Len(handed) + 1 < Linked THEN c[Len(handed) + 2] ELSE NULL
  <2> DEFINE k == Len(handed)
             m == Linked
  <2>0. k \in Nat /\ m \in Nat /\ k < m /\ front' = next[c[k + 1]]
    BY <1>2, <1>5
  <2>1. next[c[m]] = NULL /\ \A i \in 2 .. m : next[c[i - 1]] = c[i]
    BY <1>1, <1>5 DEF LinkedAs
  <2> HIDE DEF k, m
  <2>2. CASE k + 1 < m
    <3>1. k + 2 \in 2 .. m /\ (k + 2) - 1 = k + 1
      BY <2>0, <2>2
    <3>2. next[c[k + 1]] = c[k + 2]
      BY <2>1, <3>1
    <3> QED
      BY <2>0, <2>2, <3>2 DEF k, m
  <2>3. CASE ~ (k + 1 < m)
    <3>1. k + 1 = m
      BY <2>0, <2>3
    <3> QED
      BY <2>0, <2>1, <2>3, <3>1 DEF k, m
  <2> QED
    BY <2>2, <2>3
<1>7. MtTypeOK'
  <2>1. to_return[t] \in Nodes
    <3>1. Len(handed) + 1 \in 1 .. Linked
      BY <1>5
    <3> QED
      BY <1>1, <1>5, <3>1 DEF LinkedAs, MtTypeOK
  <2>2. front' \in NodeOrNull
    BY <1>1, <1>2, <2>1 DEF MtTypeOK
  <2> QED
    BY <1>1, <1>2, <1>3, <1>4, <2>2
       DEF MtTypeOK, Goto, nodeVars, countVars, localVars, mergeVars
<1>8. LockHeld'
  BY <1>1, <1>2, <1>3, <1>4, LockPassed
<1>9. /\ Phases' /\ use = "pages" /\ pc[Main] = "join" /\ pc'[Main] = "join"
      /\ \A s \in Threads : Apart(s)' <=> Apart(s)
  BY <1>1, <1>2, <1>3, TakePhases DEF countVars
<1>10. MergeBooks' /\ Owned' /\ LinkedAs(c)' /\ AllocatedIn(c)' /\ FilledAs(c)'
  BY <1>2, <1>4, <1>9, TakeKept DEF localVars
<1>11. TakenSoFar' /\ Counts'
  BY <1>1, <1>2, <1>4, TakenKept DEF Counts, countVars
<1>12. EndsAt(c)'
  <2>1. handed' = handed /\ back' = back /\ to_return' = to_return
    BY <1>2 DEF localVars
  <2> QED
    BY <1>4, <1>5, <1>6, <2>1 DEF EndsAt, Moves, Linking
<1> QED
  BY <1>7, <1>8, <1>9, <1>10, <1>11, <1>12 DEF Running, QueueIs

LEMMA UncountSafe ==
    ASSUME NEW c, Running(c), NEW t \in Workers, Uncount(t)
    PROVE  Running(c)'
<1> DEFINE k == Len(handed)
           x == data[to_return[t]]
<1>1. /\ MtTypeOK /\ LockHeld /\ Phases /\ TakenSoFar /\ EndsAt(c) /\ FilledAs(c) /\ MergeBooks
      /\ pc[Main] # "freed" /\ Counts /\ t \in Threads
  BY Constants DEF Running, QueueIs
<1>2. /\ pc[t] = "uncount" /\ length' = length - 1 /\ lock' = NULL
      /\ handed' = Append(handed, x) /\ Goto(t, "test")
      /\ UNCHANGED <<use, nodeVars, endVars, abs_length, localVars, mergeVars>>
  BY DEF Uncount, At, Release
<1>3. "uncount" \in Taking /\ "test" \in Taking /\ "test" \in States /\ "test" \notin Critical
  BY DEF Taking, States, Critical
<1>4. Moves("uncount", "free") /\ lock = t /\ lock' = NULL /\ Linked' = Linked /\ Total' = Total
  BY <1>1, <1>2, TakeTurns, InsideTurns DEF Linking
<1>5. /\ Linked = abs_length /\ Linked \in Nat /\ k \in Nat /\ k < Linked
      /\ length = Linked - k /\ length \in Nat /\ length > 0
      /\ to_return[t] = c[k + 1] /\ back = c[Linked]
      /\ front = IF k + 1 < Linked THEN c[k + 2] ELSE NULL
  BY <1>1, <1>4, WhatIsLeft DEF Moves, EndsAt, Linking
<1>6. /\ Phases' /\ use = "pages" /\ pc[Main] = "join" /\ pc'[Main] = "join"
      /\ \A s \in Threads : Apart(s)' <=> Apart(s)
  BY <1>1, <1>2, <1>3, <1>5, TakePhases
<1>7. MergeBooks' /\ Owned' /\ LinkedAs(c)' /\ AllocatedIn(c)' /\ FilledAs(c)'
  BY <1>2, <1>4, <1>6, TakeKept DEF endVars, localVars
<1>8. Linked = Len(AllPairs)
  BY <1>1, <1>5, <1>6, AllMerged
<1>9. x = AllPairs[k + 1] /\ x \in DataPairs
  <2>1. k + 1 \in 1 .. Linked
    BY <1>5
  <2>2. x = AllPairs[k + 1]
    BY <1>1, <1>5, <1>6, <2>1 DEF FilledAs
  <2> QED
    BY <1>8, <2>1, <2>2, PairsInOrder
<1>10. /\ handed' \in Seq(DataPairs) /\ Len(handed') = k + 1
       /\ handed'[k + 1] = x /\ \A i \in 1 .. k : handed'[i] = handed[i]
  BY <1>1, <1>2, <1>9 DEF MtTypeOK
<1> HIDE DEF x
<1>11. MtTypeOK'
  <2>1. length' \in Nat
    BY <1>2, <1>5
  <2> QED
    BY <1>1, <1>2, <1>3, <1>4, <1>10, <2>1, Constants
       DEF MtTypeOK, Goto, nodeVars, endVars, localVars, mergeVars
<1>12. LockHeld'
  BY <1>1, <1>2, <1>3, <1>4, LockPassed
<1>13. TakenSoFar'
  <2>1. \A i \in 1 .. k + 1 : i \in 1 .. k \/ i = k + 1
    BY <1>5
  <2>2. \A i \in 1 .. k : handed[i] = AllPairs[i]
    BY <1>1 DEF TakenSoFar
  <2> QED
    BY <1>5, <1>8, <1>9, <1>10, <2>1, <2>2 DEF TakenSoFar
<1>14. Counts'
  <2>1. Total = abs_length
    BY <1>4, InsideTurns, <1>2 DEF Linking
  <2> QED
    BY <1>2, <1>4, <1>5, <1>10, <2>1 DEF Counts
<1>15. EndsAt(c)'
  <2>1. front' = front /\ back' = back /\ Stage' = "free" /\ (k + 1) + 1 = k + 2
    BY <1>2, <1>4, <1>5 DEF endVars, Moves
  <2> QED
    BY <1>4, <1>5, <1>10, <2>1 DEF EndsAt, Linking
<1> QED
  BY <1>6, <1>7, <1>11, <1>12, <1>13, <1>14, <1>15 DEF Running, QueueIs

-----------------------------------------------------------------------------
(* The threads are let loose.                                              *)
LEMMA StartPhases ==
    ASSUME MtTypeOK, Phases, NEW t \in Workers, pc[t] = "held", pc[Main] = "join",
           NEW l, l \in (IF use = "pages" THEN Taking ELSE Putting), Goto(t, l),
           UNCHANGED <<use, handed, length>>
    PROVE  Phases' /\ pc'[Main] = "join"
<1>1. /\ \A s \in Threads : pc'[s] = IF s = t THEN l ELSE pc[s]
      /\ Main \in Threads /\ \A s \in Workers : s \in Threads /\ s # Main
  BY Constants DEF MtTypeOK, Goto
<1>2. pc'[Main] = "join" /\ \A s \in Workers : s # t => pc'[s] = pc[s]
  BY <1>1
<1>3. pc'[t] = l /\ l # "ended"
  BY <1>1 DEF Taking, Putting
<1> QED
  BY <1>2, <1>3 DEF Phases

LEMMA StartTakingSafe ==
    ASSUME NEW c, Running(c), NEW t \in Workers, StartTaking(t)
    PROVE  Running(c)'
<1>1. /\ MtTypeOK /\ LockHeld /\ Phases /\ TakenSoFar /\ MergeBooks /\ Owned
      /\ pc[Main] # "freed" /\ Counts /\ QueueIs(c) /\ t \in Threads
  BY Constants DEF Running
<1>2. /\ pc[t] = "held" /\ pc[Main] = "join" /\ use = "pages" /\ Goto(t, "test")
      /\ UNCHANGED <<use, nodeVars, endVars, countVars, lock, localVars, mergeVars, handed>>
  BY DEF StartTaking, At
<1>3. /\ "test" \in Taking /\ "test" \in States /\ "test" \notin Critical
      /\ "held" \notin Critical
  BY DEF Taking, States, Critical
<1>4. LockHeld' /\ Stage' = Stage /\ Linked' = Linked /\ Total' = Total
  BY <1>1, <1>2, <1>3, OutsideTurns DEF countVars
<1>5. MtTypeOK'
  BY <1>1, <1>2, <1>3, TypeKept DEF MtTypeOK, countVars, mergeVars
<1>6. Phases' /\ pc'[Main] = "join"
  BY <1>1, <1>2, <1>3, StartPhases DEF countVars
<1>7. \A s \in Threads : Apart(s)' <=> Apart(s)
  BY <1>1, <1>2 DEF Apart, Goto, MtTypeOK
<1>8. MergeBooks' /\ Owned' /\ TakenSoFar' /\ Counts'
  BY <1>1, <1>2, <1>4, <1>6, <1>7, TakeKept, TakenKept
     DEF Counts, endVars, localVars, countVars
<1>9. QueueIs(c)'
  BY <1>1, <1>2, <1>4, <1>7, QueueKept
<1> QED
  BY <1>4, <1>5, <1>6, <1>8, <1>9 DEF Running

(* a filled node that nobody else knows of joins those set apart *)
LEMMA NodeSetApart ==
    ASSUME NEW c, Running(c), NEW t \in Threads, ~ Apart(t), pc[t] \notin Critical,
           NEW n \in Nodes \ live, NEW d \in DataPairs \cup Workers \cup {NULL},
           live' = live \cup {n}, data' = [data EXCEPT ![n] = d],
           new_node' = [new_node EXCEPT ![t] = n], Goto(t, "put"),
           UNCHANGED <<use, next, prev, endVars, countVars, lock, to_return, handed>>
    PROVE  /\ LockHeld' /\ Stage' = Stage /\ Linked' = Linked
           /\ TakenSoFar' /\ Counts' /\ QueueIs(c)'
           /\ Apart(t)' /\ \A s \in Threads : s # t => (Apart(s)' <=> Apart(s))
<1>1. /\ MtTypeOK /\ LockHeld /\ TakenSoFar /\ Counts
      /\ LinkedAs(c) /\ EndsAt(c) /\ AllocatedIn(c) /\ FilledAs(c)
  BY DEF Running, QueueIs
<1>2. "put" \in States /\ "put" \notin Critical
  BY DEF States, Putting, Critical
<1>3. LockHeld' /\ Stage' = Stage /\ Linked' = Linked /\ Total' = Total
  BY <1>1, <1>2, OutsideTurns DEF countVars
<1>4. TakenSoFar' /\ Counts'
  BY <1>1, <1>3, TakenKept DEF Counts, countVars
<1>5. Apart(t)' /\ \A s \in Threads : s # t => (Apart(s)' <=> Apart(s))
  BY <1>1 DEF Apart, Goto, MtTypeOK
<1>6. new_node'[t] = n /\ \A s \in Threads : s # t => new_node'[s] = new_node[s]
  BY <1>1 DEF MtTypeOK
<1>7. c \in [1 .. Linked -> live] /\ \A i \in 1 .. Linked : c[i] # n
  BY <1>1 DEF LinkedAs
<1>8. LinkedAs(c)'
  <2>1. c \in [1 .. Linked -> live']
    BY <1>7
  <2> QED
    BY <1>1, <1>3, <2>1 DEF LinkedAs, endVars
<1>9. EndsAt(c)'
  <2>1. Stage \in Linking => lock \in Threads /\ lock # t
    BY <1>1 DEF Stage, Linking, LockHeld, MtTypeOK
  <2>2. Stage \in Linking => new_node'[lock] = new_node[lock]
    BY <1>6, <2>1
  <2> QED
    BY <1>1, <1>3, <2>2 DEF EndsAt, endVars
<1>10. AllocatedIn(c)'
  <2>1. ASSUME NEW s \in Threads, Apart(s)'
        PROVE  new_node'[s] \in live' /\ \A i \in 1 .. Linked : c[i] # new_node'[s]
    <3>1. CASE s = t
      BY <1>6, <1>7, <3>1
    <3>2. CASE s # t
      BY <1>1, <1>5, <1>6, <2>1, <3>2 DEF AllocatedIn
    <3> QED
      BY <3>1, <3>2
  <2>2. ASSUME NEW r \in Threads, NEW s \in Threads, Apart(r)', Apart(s)', new_node'[r] = new_node'[s]
        PROVE  r = s
    <3>1. \A u \in Threads : u # t /\ Apart(u)' => new_node'[u] \in live /\ new_node'[u] # n
      BY <1>1, <1>5, <1>6 DEF AllocatedIn
    <3>2. CASE r # t /\ s # t
      BY <1>1, <1>5, <1>6, <2>2, <3>2 DEF AllocatedIn
    <3> QED
      BY <1>6, <2>2, <3>1, <3>2
  <2>3. ASSUME NEW x \in live'
        PROVE  (\E i \in 1 .. Linked : c[i] = x) \/ (\E s \in Threads : Apart(s)' /\ new_node'[s] = x)
    <3>1. CASE x = n
      BY <1>5, <1>6, <3>1
    <3>2. CASE x \in live /\ \E i \in 1 .. Linked : c[i] = x
      BY <3>2
    <3>3. CASE x \in live /\ \E s \in Threads : Apart(s) /\ new_node[s] = x
      BY <1>5, <1>6, <3>3
    <3> QED
      BY <1>1, <3>1, <3>2, <3>3 DEF AllocatedIn
  <2> QED
    BY <1>3, <2>1, <2>2, <2>3 DEF AllocatedIn
<1>11. FilledAs(c)'
  <2>1. \A x \in live : data'[x] = data[x]
    BY <1>1 DEF MtTypeOK
  <2> QED
    BY <1>1, <1>3, <1>7, <2>1 DEF FilledAs
<1> QED
  BY <1>3, <1>4, <1>5, <1>8, <1>9, <1>10, <1>11 DEF QueueIs

LEMMA StartPuttingSafe ==
    ASSUME NEW c, Running(c), NEW t \in Workers, StartPutting(t)
    PROVE  Running(c)'
<1> DEFINE n == Min(Nodes \ live)
<1>1. /\ MtTypeOK /\ LockHeld /\ Phases /\ MergeBooks /\ Owned
      /\ pc[Main] # "freed" /\ t \in Threads
  BY Constants DEF Running
<1>2. /\ pc[t] = "held" /\ pc[Main] = "join" /\ use = "buffers" /\ Goto(t, "put")
      /\ live' = live \cup {n} /\ data' = [data EXCEPT ![n] = t]
      /\ new_node' = [new_node EXCEPT ![t] = n]
      /\ UNCHANGED <<use, next, prev, endVars, countVars, lock, to_return, mergeVars, handed>>
  BY DEF StartPutting, NewNode, At
<1>3. n \in Nodes \ live
  BY <1>1, <1>2, RoomToPut
<1> HIDE DEF n
<1>4. /\ LockHeld' /\ Stage' = Stage /\ Linked' = Linked
      /\ TakenSoFar' /\ Counts' /\ QueueIs(c)'
      /\ Apart(t)' /\ \A s \in Threads : s # t => (Apart(s)' <=> Apart(s))
  BY <1>1, <1>2, <1>3, NodeSetApart DEF Apart, Critical
<1>5. "put" \in Putting /\ "put" \in States
  BY DEF Putting, States
<1>6. MtTypeOK'
  BY <1>1, <1>2, <1>3, <1>5 DEF MtTypeOK, Goto, NodeOrNull, endVars, countVars, mergeVars
<1>7. Phases' /\ pc'[Main] = "join"
  BY <1>1, <1>2, <1>5, StartPhases DEF countVars
<1>8. MergeBooks'
  BY <1>1, <1>2 DEF MergeBooks, mergeVars
<1>9. Owned'
  <2>1. /\ new_node'[t] = n /\ data'[n] = t /\ pc'[t] = "put"
        /\ \A s \in Workers : s # t => new_node'[s] = new_node[s] /\ pc'[s] = pc[s]
        /\ \A x \in live : data'[x] = data[x] /\ x # n
    BY <1>1, <1>2, <1>3, Constants DEF MtTypeOK, Goto
  <2>2. ASSUME NEW s \in Workers, pc'[s] # "held"
        PROVE  new_node'[s] \in live' /\ data'[new_node'[s]] = s
    <3>1. CASE s = t
      BY <1>2, <2>1, <3>1
    <3>2. CASE s # t
      <4>1. new_node[s] \in live /\ data[new_node[s]] = s
        BY <1>1, <1>2, <2>1, <2>2, <3>2 DEF Owned
      <4> QED
        BY <1>2, <2>1, <3>2, <4>1
    <3> QED
      BY <3>1, <3>2
  <2>3. ASSUME NEW x \in live'
        PROVE  data'[x] \in Workers /\ pc'[data'[x]] # "held" /\ new_node'[data'[x]] = x
    <3>1. CASE x = n
      BY <2>1, <3>1
    <3>2. CASE x \in live
      <4>1. data[x] \in Workers /\ pc[data[x]] # "held" /\ new_node[data[x]] = x
        BY <1>1, <1>2, <3>2 DEF Owned
      <4>2. data[x] # t
        BY <1>2, <4>1
      <4> QED
        BY <2>1, <3>2, <4>1, <4>2
    <3> QED
      BY <1>2, <3>1, <3>2
  <2> QED
    BY <2>2, <2>3 DEF Owned
<1> QED
  BY <1>4, <1>6, <1>7, <1>8, <1>9 DEF Running

-----------------------------------------------------------------------------
(* The steps of mt_mergeQueue.                                             *)
LEMMA MergeNextSafe ==
    ASSUME NEW c, Running(c), MergeNext
    PROVE  Running(c)'
<1> DEFINE n == Min(Nodes \ live)
           x == left[bucket]
           d == Buckets[bucket][x + 1]
<1>1. /\ MtTypeOK /\ LockHeld /\ Phases /\ MergeBooks /\ Owned /\ Main \in Threads
  BY Constants DEF Running
<1>2. /\ pc[Main] = "merge" /\ Goto(Main, "put")
      /\ bucket <= Len(Buckets) /\ x < Len(Buckets[bucket])
      /\ live' = live \cup {n} /\ data' = [data EXCEPT ![n] = d]
      /\ new_node' = [new_node EXCEPT ![Main] = n]
      /\ left' = [left EXCEPT ![bucket] = x + 1]
      /\ UNCHANGED <<use, next, prev, endVars, countVars, lock, to_return, bucket, handed>>
  BY DEF MergeNext, NewNode, At
<1>3. /\ n \in Nodes \ live /\ bucket \in 1 .. Len(Buckets) /\ x \in Nat
      /\ Linked = Len(Before(bucket)) + x
  BY <1>2, RoomToMerge
<1>4. d \in DataPairs /\ d = AllPairs[Len(Before(bucket)) + x + 1]
  BY <1>2, <1>3, PairOfBucket
<1> HIDE DEF n, d
<1>5. /\ LockHeld' /\ Stage' = Stage /\ Linked' = Linked
      /\ TakenSoFar' /\ Counts' /\ QueueIs(c)'
      /\ Apart(Main)'
  BY <1>1, <1>2, <1>3, <1>4, NodeSetApart DEF Apart, Critical
<1>6. "put" \in Putting /\ "put" \in States
  BY DEF Putting, States
<1>7. use = "pages" /\ handed = <<>> /\ \A s \in Workers : pc[s] = "held"
  BY <1>1, <1>2, MainAlone, Constants
<1>8. pc'[Main] = "put" /\ \A s \in Workers : pc'[s] = "held"
  BY <1>1, <1>2, <1>7, Constants DEF Goto, MtTypeOK
<1>9. left' \in [1 .. Len(Buckets) -> Nat] /\ left'[bucket] = x + 1
      /\ \A i \in 1 .. Len(Buckets) : i # bucket => left'[i] = left[i]
  BY <1>1, <1>2, <1>3 DEF MtTypeOK
<1>10. MtTypeOK'
  BY <1>1, <1>2, <1>3, <1>4, <1>6, <1>9 DEF MtTypeOK, Goto, NodeOrNull, endVars, countVars
<1>11. Phases'
  BY <1>2, <1>6, <1>7, <1>8 DEF Phases
<1>12. MergeBooks'
  <2>1. new_node'[Main] = n /\ data'[n] = d
    BY <1>1, <1>2, <1>3 DEF MtTypeOK
  <2>2. Linked' + 1 = Len(Before(bucket)) + (x + 1)
        /\ Linked' + 1 = Len(Before(bucket)) + x + 1
    BY <1>3, <1>5, PairsInOrder
  <2>3. /\ \A i \in 1 .. Len(Buckets) : i # bucket => left'[i] = 0
        /\ left'[bucket] <= Len(Buckets[bucket])
    <3>1. Len(Buckets[bucket]) \in Nat
      BY <1>3, MtAssumption
    <3> QED
      BY <1>1, <1>2, <1>3, <1>9, <3>1 DEF MergeBooks
  <2>4. data'[new_node'[Main]] = AllPairs[Linked' + 1]
    BY <1>4, <2>1, <2>2
  <2>5. use' = "pages" /\ bucket' = bucket
    BY <1>2, <1>7
  <2> QED
    BY <1>2, <1>5, <1>8, <1>9, <2>2, <2>3, <2>4, <2>5 DEF MergeBooks
<1>13. Owned'
  BY <1>2, <1>7 DEF Owned
<1> QED
  BY <1>5, <1>8, <1>10, <1>11, <1>12, <1>13 DEF Running

LEMMA MergeBucketDoneSafe ==
    ASSUME NEW c, Running(c), MergeBucketDone
    PROVE  Running(c)'
<1>1. /\ MtTypeOK /\ LockHeld /\ Phases /\ TakenSoFar /\ MergeBooks /\ Owned
      /\ pc[Main] # "freed" /\ Counts /\ QueueIs(c)
  BY DEF Running
<1>2. /\ pc[Main] = "merge" /\ bucket <= Len(Buckets) /\ left[bucket] = Len(Buckets[bucket])
      /\ bucket' = bucket + 1 /\ left' = [left EXCEPT ![bucket] = 0]
      /\ UNCHANGED <<use, nodeVars, endVars, countVars, lock, pc, localVars, handed>>
  BY DEF MergeBucketDone, At
<1>3. Stage' = Stage /\ Linked' = Linked /\ Total' = Total
  BY <1>2 DEF Stage, Linked, Total, countVars
<1>4. \A s \in Threads : Apart(s)' <=> Apart(s)
  BY <1>2 DEF Apart
<1>5. bucket \in 1 .. Len(Buckets) /\ bucket + 1 \in 1 .. Len(Buckets) + 1
  <2>1. bucket \in 1 .. Len(Buckets) + 1
    BY <1>1 DEF MtTypeOK
  <2> QED
    BY <1>2, <2>1, Constants
<1>6. /\ left' \in [1 .. Len(Buckets) -> Nat] /\ \A i \in 1 .. Len(Buckets) : left'[i] = 0
  BY <1>1, <1>2, <1>5 DEF MtTypeOK, MergeBooks
<1>7. MtTypeOK'
  BY <1>1, <1>2, <1>5, <1>6 DEF MtTypeOK, nodeVars, endVars, countVars, localVars
<1>8. LockHeld' /\ Phases' /\ TakenSoFar' /\ Counts' /\ Owned'
  BY <1>1, <1>2, <1>3, TakenKept
     DEF LockHeld, Phases, Counts, Owned, nodeVars, countVars, localVars
<1>9. MergeBooks'
  <2>1. use = "pages" /\ ~ Apart(Main)
    BY <1>1, <1>2, MainAlone DEF Apart
  <2>2. Linked + 0 = Len(Before(bucket)) + Len(Buckets[bucket])
    BY <1>1, <1>2, <2>1 DEF MergeBooks
  <2>3. Linked + 0 = Len(Before(bucket + 1)) + 0
    BY <1>5, <2>2, PairsInOrder
  <2>4. bucket + 1 <= Len(Buckets) => left'[bucket + 1] = 0 /\ 0 <= Len(Buckets[bucket + 1])
    <3>1. ASSUME bucket + 1 <= Len(Buckets) PROVE bucket + 1 \in 1 .. Len(Buckets)
      BY <1>5, <3>1
    <3> QED
      BY <1>6, <3>1, MtAssumption
  <2>5. ~ Apart(Main)' /\ pc'[Main] = "merge" /\ use' = use
    BY <1>2, <1>4, <2>1 DEF Apart
  <2>6. Linked' + 0 = Len(Before(bucket + 1))
            + (IF bucket + 1 <= Len(Buckets) THEN left'[bucket + 1] ELSE 0)
    BY <1>3, <2>3, <2>4
  <2> QED
    BY <1>2, <1>6, <2>1, <2>4, <2>5, <2>6 DEF MergeBooks
<1>10. QueueIs(c)'
  BY <1>1, <1>2, <1>3, <1>4, QueueKept
<1> QED
  BY <1>1, <1>2, <1>7, <1>8, <1>9, <1>10 DEF Running

LEMMA MergeDoneSafe ==
    ASSUME NEW c, Running(c), MergeDone
    PROVE  Running(c)'
<1>1. /\ MtTypeOK /\ LockHeld /\ Phases /\ TakenSoFar /\ MergeBooks /\ Owned
      /\ pc[Main] # "freed" /\ Counts /\ QueueIs(c) /\ Main \in Threads
  BY Constants DEF Running
<1>2. /\ pc[Main] = "merge" /\ bucket > Len(Buckets) /\ Goto(Main, "join")
      /\ UNCHANGED <<use, nodeVars, endVars, countVars, lock, localVars, mergeVars, handed>>
  BY DEF MergeDone, At
<1>3. "join" \in States /\ "join" \notin Critical /\ "merge" \notin Critical
  BY DEF States, Critical
<1>4. LockHeld' /\ Stage' = Stage /\ Linked' = Linked /\ Total' = Total
  BY <1>1, <1>2, <1>3, OutsideTurns DEF countVars
<1>5. MtTypeOK'
  BY <1>1, <1>2, <1>3, TypeKept DEF MtTypeOK, countVars, mergeVars
<1>6. use = "pages" /\ handed = <<>> /\ \A s \in Workers : pc[s] = "held"
  BY <1>1, <1>2, MainAlone, Constants
<1>7. pc'[Main] = "join" /\ \A s \in Workers : pc'[s] = pc[s]
  BY <1>1, <1>2, Constants DEF MtTypeOK, Goto
<1>8. Phases'
  BY <1>2, <1>6, <1>7 DEF Phases
<1>9. \A s \in Threads : Apart(s)' <=> Apart(s)
  BY <1>1, <1>2 DEF Apart, Goto, MtTypeOK
<1>10. MergeBooks'
  <2>1. bucket = Len(Buckets) + 1
    BY <1>1, <1>2, Constants DEF MtTypeOK
  <2>2. ~ Apart(Main) /\ ~ Apart(Main)'
    BY <1>2, <1>7 DEF Apart
  <2> QED
    BY <1>1, <1>2, <1>4, <1>6, <1>7, <2>1, <2>2 DEF MergeBooks, mergeVars
<1>11. Owned' /\ TakenSoFar' /\ Counts'
  BY <1>1, <1>2, <1>4, <1>7, OwnedKept, TakenKept DEF Counts, nodeVars, localVars, countVars
<1>12. QueueIs(c)'
  BY <1>1, <1>2, <1>4, <1>9, QueueKept
<1> QED
  BY <1>4, <1>5, <1>7, <1>8, <1>10, <1>11, <1>12 DEF Running

-----------------------------------------------------------------------------
(* mt_freeQueue frees every node there is.                                 *)
LEMMA FreeQueueSafe ==
    ASSUME NEW c, Running(c), FreeQueue
    PROVE  MtInv'
<1>1. /\ MtTypeOK /\ LockHeld /\ Phases /\ TakenSoFar /\ MergeBooks
      /\ pc[Main] # "freed" /\ LinkedAs(c) /\ AllocatedIn(c) /\ Main \in Threads
  BY Constants DEF Running, QueueIs
<1>2. /\ pc[Main] = "join" /\ (\A t \in Workers : pc[t] = "ended") /\ lock = NULL
      /\ live' = live \ {Chain[i] : i \in 1 .. abs_length}
      /\ abs_front' = NULL /\ front' = NULL /\ back' = NULL
      /\ length' = 0 /\ abs_length' = 0 /\ Goto(Main, "freed")
      /\ UNCHANGED <<use, next, prev, data, lock, localVars, mergeVars, handed>>
  BY DEF FreeQueue, At
<1>3. pc'[Main] = "freed" /\ \A t \in Workers : pc'[t] = "ended"
  BY <1>1, <1>2, Constants DEF MtTypeOK, Goto
<1>4. \A t \in Threads : ~ Apart(t)
  BY <1>2, Constants DEF Apart
<1>5. live' = {}
  <2>1. Linked = abs_length /\ abs_length \in Nat
    BY <1>1, <1>2, NoHolder DEF MtTypeOK
  <2>2. \A i \in 1 .. abs_length : Chain[i] = c[i]
    BY <1>1, <2>1, ChainIs
  <2>3. \A n \in live : \E i \in 1 .. abs_length : Chain[i] = n
    BY <1>1, <1>4, <2>1, <2>2 DEF AllocatedIn
  <2> QED
    BY <1>2, <2>3
<1>6. MtTypeOK'
  <2>1. "freed" \in States
    BY DEF States
  <2> QED
    BY <1>1, <1>2, <1>5, <2>1 DEF MtTypeOK, Goto, NodeOrNull, localVars, mergeVars
<1>7. LockHeld'
  <2>1. \A t \in Threads : pc'[t] \notin Critical
    BY <1>3, Constants DEF Critical
  <2> QED
    BY <1>2, <2>1, Constants DEF LockHeld
<1>8. Phases'
  BY <1>1, <1>2, <1>3 DEF Phases
<1>9. TakenSoFar'
  BY <1>1, <1>2, TakenKept
<1>10. MergeBooks'
  <2>1. ~ Apart(Main)'
    BY <1>3 DEF Apart
  <2> QED
    BY <1>1, <1>2, <1>3, <2>1 DEF MergeBooks, mergeVars
<1>11. Owned'
  BY <1>3 DEF Owned
<1>12. Freed'
  BY <1>2, <1>3, <1>5 DEF Freed
<1> QED
  BY <1>6, <1>7, <1>8, <1>9, <1>10, <1>11, <1>12 DEF MtInv

-----------------------------------------------------------------------------
LEMMA MtInitInv == MtInit => MtInv
<1> SUFFICES ASSUME MtInit PROVE MtInv
  OBVIOUS
<1>1. /\ use \in {"pages", "buffers"} /\ live = {}
      /\ next = [n \in Nodes |-> NULL] /\ prev = next /\ data = next
      /\ abs_front = NULL /\ front = NULL /\ back = NULL
      /\ length = 0 /\ abs_length = 0 /\ lock = NULL /\ handed = <<>>
      /\ pc = [t \in Threads |-> IF t = Main THEN (IF use = "pages" THEN "merge" ELSE "join")
                                 ELSE "held"]
      /\ new_node = [t \in Threads |-> NULL] /\ to_return = [t \in Threads |-> NULL]
      /\ bucket = 1 /\ left = [i \in 1 .. Len(Buckets) |-> 0]
  BY DEF MtInit
<1>2. Stage = "free" /\ Linked = 0 /\ Total = 0
  BY <1>1, NoHolder
<1>3. /\ pc[Main] = (IF use = "pages" THEN "merge" ELSE "join")
      /\ \A t \in Workers : pc[t] = "held"
  BY <1>1, Constants
<1>4. \A t \in Threads : ~ Apart(t) /\ pc[t] \notin Critical
  BY <1>1 DEF Apart, Critical
<1>5. MtTypeOK
  <2>1. bucket \in 1 .. Len(Buckets) + 1
    BY <1>1, Constants
  <2>2. pc \in [Threads -> States]
    BY <1>1 DEF States
  <2> QED
    BY <1>1, <2>1, <2>2 DEF MtTypeOK, NodeOrNull
<1>6. LockHeld
  BY <1>1, <1>4, Constants DEF LockHeld
<1>7. Phases
  BY <1>1, <1>3 DEF Phases
<1>8. TakenSoFar
  BY <1>1, Constants DEF TakenSoFar
<1>9. MergeBooks
  <2>1. Len(Before(1)) = 0 /\ ~ Apart(Main)
    BY <1>4, PairsInOrder, Constants
  <2>2. \A i \in 1 .. Len(Buckets) : left[i] = 0
    BY <1>1
  <2>3. bucket <= Len(Buckets) => left[bucket] = 0 /\ 0 <= Len(Buckets[bucket])
    BY <1>1, MtAssumption
  <2>4. Linked + (IF Apart(Main) THEN 1 ELSE 0) =
            Len(Before(bucket)) + (IF bucket <= Len(Buckets) THEN left[bucket] ELSE 0)
    BY <1>1, <1>2, <2>1, <2>3
  <2>5. use = "pages" => pc[Main] = "merge"
    BY <1>3
  <2> QED
    BY <2>1, <2>2, <2>3, <2>4, <2>5 DEF MergeBooks
<1>10. Owned
  BY <1>1, <1>3 DEF Owned
<1>11. \E c : QueueIs(c)
  <2>1. PICK c : c = [i \in {} |-> NULL]
    OBVIOUS
  <2>2. 1 .. 0 = {} /\ 2 .. 0 = {} /\ ~ (0 < 0) /\ ~ (0 > 0) /\ Len(<<>>) = 0
    OBVIOUS
  <2>3. LinkedAs(c)
    BY <1>1, <1>2, <2>1, <2>2 DEF LinkedAs
  <2>4. EndsAt(c)
    BY <1>1, <1>2, <2>2 DEF EndsAt, Linking
  <2>5. AllocatedIn(c) /\ FilledAs(c)
    BY <1>1, <1>2, <1>4, <2>2 DEF AllocatedIn, FilledAs
  <2> QED
    BY <2>3, <2>4, <2>5 DEF QueueIs
<1>12. Freed
  <2>1. Counts
    <3>1. Len(handed) = 0
      BY <1>1
    <3>2. abs_length = 0 /\ length = 0 /\ Total = 0
      BY <1>1, <1>2
    <3> QED
      BY <3>1, <3>2 DEF Counts
  <2>2. pc[Main] # "freed"
    BY <1>3
  <2> QED
    BY <1>11, <2>1, <2>2 DEF Freed
<1> QED
  BY <1>5, <1>6, <1>7, <1>8, <1>9, <1>10, <1>12 DEF MtInv

LEMMA RunningIsInv ==
    /\ \A c : Running(c) => MtInv
    /\ MtInv /\ pc[Main] # "freed" => \E c : Running(c)
BY DEF Running, MtInv, Freed

(* a thread that has ended, like a main thread that has freed, stays so *)
LEMMA NothingAfterFreed ==
    ASSUME MtInv, pc[Main] = "freed", MtNext
    PROVE  UNCHANGED mtVars
<1>1. \A t \in Threads : pc[t] \in {"freed", "ended"}
  BY Constants DEF MtInv, Freed
<1>2. ~ MainStep
  BY <1>1, Constants
     DEF MainStep, MergeNext, MergeBucketDone, MergeDone, FreeQueue, Put, LockToPut, LinkFirst,
         LinkLast, MoveBack, CountOne, CountAll, At
<1>3. ASSUME NEW t \in Workers PROVE ~ WorkerStep(t)
  BY <1>1, Constants
     DEF WorkerStep, StartPutting, StartTaking, TakeStep, TestLength, LockToTake, ReadFront,
         NothingLeft, MoveFront, Uncount, Put, LockToPut, LinkFirst, LinkLast, MoveBack,
         CountOne, CountAll, At
<1> QED
  BY <1>2, <1>3 DEF MtNext, Ended

LEMMA MtStepInv == MtInv /\ [MtNext]_mtVars => MtInv'
<1> SUFFICES ASSUME MtInv, [MtNext]_mtVars PROVE MtInv'
  OBVIOUS
<1>1. CASE UNCHANGED mtVars
  <2>1. /\ Stage' = Stage /\ Linked' = Linked /\ Total' = Total
        /\ \A t \in Threads : Apart(t)' <=> Apart(t)
    BY <1>1 DEF Stage, Linked, Total, Apart, mtVars, countVars
  <2>2. MtTypeOK' /\ LockHeld' /\ Phases' /\ TakenSoFar'
    BY <1>1 DEF MtInv, MtTypeOK, LockHeld, Phases, TakenSoFar,
                mtVars, nodeVars, endVars, countVars, localVars, mergeVars
  <2>3. MergeBooks' /\ Owned'
    BY <1>1, <2>1, Constants DEF MtInv, MergeBooks, Owned, mtVars, nodeVars, localVars, mergeVars
  <2>4. ASSUME NEW c, QueueIs(c) PROVE QueueIs(c)'
    BY <1>1, <2>1, <2>4, QueueKept DEF mtVars
  <2>5. Freed'
    <3>1. CASE pc[Main] = "freed"
      BY <1>1, <3>1 DEF MtInv, Freed, mtVars, nodeVars, countVars
    <3>2. CASE pc[Main] # "freed"
      <4>1. PICK c : QueueIs(c)
        BY <3>2 DEF MtInv, Freed
      <4>2. Counts'
        BY <1>1, <2>1, <3>2 DEF MtInv, Freed, Counts, mtVars, countVars
      <4>3. pc'[Main] # "freed"
        BY <1>1, <3>2 DEF mtVars
      <4> QED
        BY <2>4, <4>1, <4>2, <4>3 DEF Freed
    <3> QED
      BY <3>1, <3>2
  <2> QED
    BY <2>2, <2>3, <2>5 DEF MtInv
<1>2. ASSUME NEW d, Running(d)' PROVE MtInv'
  BY <1>2 DEF Running, MtInv, Freed
<1>3. CASE MtNext /\ pc[Main] = "freed"
  BY <1>1, <1>3, NothingAfterFreed
<1>4. CASE MtNext /\ pc[Main] # "freed"
  <2>1. PICK c : Running(c)
    BY <1>4, RunningIsInv
  <2>2. ASSUME NEW t \in Threads, Put(t) PROVE MtInv'
    <3>1. CASE LockToPut(t)
      BY <1>2, <2>1, <3>1, LockToPutSafe
    <3>2. CASE LinkFirst(t)
      BY <1>2, <2>1, <3>2, LinkFirstSafe
    <3>3. CASE LinkLast(t)
      BY <1>2, <2>1, <3>3, LinkLastSafe
    <3>4. CASE MoveBack(t)
      BY <1>2, <2>1, <3>4, MoveBackSafe
    <3>5. CASE CountOne(t)
      BY <1>2, <2>1, <3>5, CountOneSafe
    <3>6. CASE CountAll(t)
      BY <1>2, <2>1, <3>6, CountAllSafe
    <3> QED
      BY <2>2, <3>1, <3>2, <3>3, <3>4, <3>5, <3>6 DEF Put
  <2>3. ASSUME NEW t \in Workers, TakeStep(t) PROVE MtInv'
    <3>1. CASE TestLength(t)
      BY <1>2, <2>1, <3>1, TestLengthSafe
    <3>2. CASE LockToTake(t)
      BY <1>2, <2>1, <3>2, LockToTakeSafe
    <3>3. CASE ReadFront(t)
      BY <1>2, <2>1, <3>3, ReadFrontSafe
    <3>4. CASE NothingLeft(t)
      BY <1>2, <2>1, <3>4, NothingLeftSafe
    <3>5. CASE MoveFront(t)
      BY <1>2, <2>1, <3>5, MoveFrontSafe
    <3>6. CASE Uncount(t)
      BY <1>2, <2>1, <3>6, UncountSafe
    <3> QED
      BY <2>3, <3>1, <3>2, <3>3, <3>4, <3>5, <3>6 DEF TakeStep
  <2>4. ASSUME NEW t \in Workers, StartPutting(t) \/ StartTaking(t) PROVE MtInv'
    BY <1>2, <2>1, <2>4, StartPuttingSafe, StartTakingSafe
  <2>5. CASE MergeNext
    BY <1>2, <2>1, <2>5, MergeNextSafe
  <2>6. CASE MergeBucketDone
    BY <1>2, <2>1, <2>6, MergeBucketDoneSafe
  <2>7. CASE MergeDone
    BY <1>2, <2>1, <2>7, MergeDoneSafe
  <2>8. CASE FreeQueue
    BY <2>1, <2>8, FreeQueueSafe
  <2>9. CASE Ended
    BY <1>1, <2>9 DEF Ended
  <2>10. CASE MainStep
    BY <2>2, <2>5, <2>6, <2>7, <2>8, <2>10, Constants DEF MainStep
  <2>11. ASSUME NEW t \in Workers, WorkerStep(t) PROVE MtInv'
    BY <2>2, <2>3, <2>4, <2>11, Constants DEF WorkerStep
  <2> QED
    BY <1>4, <2>9, <2>10, <2>11 DEF MtNext
<1> QED
  BY <1>1, <1>3, <1>4

(* The queue is what it should be in every state two threads, or many, can *)
(* bring it to.                                                            *)
THEOREM MtInvariant == MtSpec => []MtInv
<1>1. MtInit => MtInv
  BY MtInitInv
<1>2. MtInv /\ [MtNext]_mtVars => MtInv'
  BY MtStepInv
<1> QED
  BY <1>1, <1>2, PTL DEF MtSpec

-----------------------------------------------------------------------------
(* a walk over c that meets no node twice *)
LEMMA ChainCounted ==
    ASSUME NEW c, LinkedAs(c), Linked = abs_length, abs_length \in Nat
    PROVE  /\ {Chain[i] : i \in 1 .. abs_length} = {c[i] : i \in 1 .. abs_length}
           /\ {Chain[i] : i \in 1 .. abs_length} \subseteq live
           /\ Cardinality({Chain[i] : i \in 1 .. abs_length}) = abs_length
<1> DEFINE n == abs_length
           S == {c[i] : i \in 1 .. n}
<1>1. \A i \in 1 .. n : Chain[i] = c[i]
  BY ChainIs
<1>2. {Chain[i] : i \in 1 .. n} = S
  BY <1>1
<1>3. c \in [1 .. n -> live] /\ \A i, j \in 1 .. n : c[i] = c[j] => i = j
  BY DEF LinkedAs
<1>4. S \subseteq live
  BY <1>3
<1>5. c \in Bijection(1 .. n, S)
  <2>1. c \in [1 .. n -> S] /\ DOMAIN c = 1 .. n /\ \A x \in S : \E i \in 1 .. n : c[i] = x
    BY <1>3
  <2> HIDE DEF n, S
  <2> QED
    BY <1>3, <2>1 DEF Bijection, Injection, Surjection, IsInjective
<1>6. ExistsBijection(1 .. n, S)
  BY <1>5 DEF ExistsBijection
<1>7. IsFiniteSet(1 .. n) /\ Cardinality(1 .. n) = n
  <2> HIDE DEF n
  <2>1. n \in Nat
    BY DEF n
  <2> QED
    BY <2>1, FS_Interval
<1>8. Cardinality(S) = n
  <2> HIDE DEF S, n
  <2> QED
    BY <1>6, <1>7, FS_Bijection
<1> QED
  BY <1>2, <1>4, <1>8

(* Whenever the lock is free the queue is linked both ways from abs_front  *)
(* to back without a node twice, and front is where length counts from.    *)
LEMMA InvWholeWhenFree == MtInv => WholeWhenFree
<1> SUFFICES ASSUME MtInv, lock = NULL PROVE WholeWhenFree
  BY DEF WholeWhenFree
<1> DEFINE n == abs_length
<1>1. MtTypeOK /\ n \in Nat /\ Linked = n /\ Stage = "free" /\ Total = n
  BY NoHolder DEF MtInv, MtTypeOK
<1>2. CASE pc[Main] = "freed"
  <2>1. n = 0 /\ length = 0 /\ 1 .. 0 = {} /\ 2 .. 0 = {}
    BY <1>2 DEF MtInv, Freed
  <2>2. {Chain[i] : i \in {}} = {} /\ Cardinality({}) = 0
    BY FS_EmptySet
  <2> QED
    BY <2>1, <2>2 DEF WholeWhenFree
<1>3. CASE pc[Main] # "freed"
  <2>1. PICK c : Counts /\ LinkedAs(c) /\ EndsAt(c)
    BY <1>3 DEF MtInv, Freed, QueueIs
  <2>2. /\ {Chain[i] : i \in 1 .. n} \subseteq live
        /\ Cardinality({Chain[i] : i \in 1 .. n}) = n
    BY <1>1, <2>1, ChainCounted
  <2>3. \A i \in 1 .. n : Chain[i] = c[i]
    BY <1>1, <2>1, ChainIs
  <2>4. ASSUME NEW i \in 2 .. n PROVE prev[Chain[i]] = Chain[i - 1]
    <3>1. i \in 1 .. n /\ i - 1 \in 1 .. n
      BY <1>1
    <3>2. prev[c[i]] = c[i - 1]
      BY <1>1, <2>1 DEF LinkedAs
    <3> QED
      BY <2>3, <3>1, <3>2
  <2>5. ASSUME n > 0 PROVE back = Chain[n] /\ next[back] = NULL
    <3>1. n \in 1 .. n
      BY <1>1, <2>5
    <3>2. back = c[n] /\ next[c[n]] = NULL
      BY <1>1, <2>1, <2>5 DEF LinkedAs, EndsAt
    <3> QED
      BY <2>3, <3>1, <3>2
  <2>6. ASSUME length > 0 PROVE front = Chain[n - length + 1]
    <3> DEFINE k == Len(handed)
    <3>1. k \in Nat /\ length = n - k /\ k <= n
      BY <1>1, <2>1 DEF Counts, MtTypeOK
    <3>2. front = c[k + 1]
      BY <1>1, <2>1, <2>6, <3>1 DEF EndsAt
    <3> HIDE DEF k
    <3>3. n - length + 1 = k + 1 /\ k + 1 \in 1 .. n
      BY <1>1, <2>6, <3>1
    <3> QED
      BY <2>3, <3>2, <3>3
  <2> QED
    BY <2>2, <2>4, <2>5, <2>6 DEF WholeWhenFree
<1> QED
  BY <1>2, <1>3

(* Whenever no thread is inside mt_mergeQueue, mt_dequeue or mt_freeQueue, *)
(* the chain, its length and the pairs that nobody has taken agree.        *)
THEOREM QueueWhole == MtSpec => []WholeWhenFree
  BY MtInvariant, InvWholeWhenFree, PTL

(* What the threads take, in the order they take it, is what the buckets   *)
(* held, bucket by bucket.                                                 *)
LEMMA InvTakenInOrder == MtInv => TakenInOrder
<1> SUFFICES ASSUME MtInv PROVE TakenInOrder
  OBVIOUS
<1>1. /\ handed \in Seq(DataPairs) /\ AllPairs \in Seq(DataPairs)
      /\ Len(handed) <= Len(AllPairs)
      /\ \A i \in 1 .. Len(handed) : handed[i] = AllPairs[i]
  BY PairsInOrder DEF MtInv, MtTypeOK, TakenSoFar
<1> DEFINE s == SubSeq(AllPairs, 1, Len(handed))
           h == SubSeq(handed, 1, Len(handed))
<1>2. Len(handed) \in Nat /\ Len(AllPairs) \in Nat
  BY <1>1
<1>3. Len(s) = Len(handed) /\ \A i \in 1 .. Len(handed) : s[i] = AllPairs[i]
  BY <1>1, <1>2
<1>4. Len(h) = Len(handed) /\ \A i \in 1 .. Len(handed) : h[i] = handed[i]
  BY <1>1, <1>2
<1>5. s \in Seq(DataPairs) /\ h \in Seq(DataPairs)
  BY <1>1, <1>2
<1> HIDE DEF s, h
<1>6. h = s
  BY <1>1, <1>3, <1>4, <1>5
<1> QED
  BY <1>1, <1>6 DEF TakenInOrder, IsPrefix, s, h

(* The workers together take the pairs in the order mt_mergeQueue gave     *)
(* them: the pairs handed out are a prefix of the merged buckets.          *)
THEOREM PairsTakenInOrder == MtSpec => []TakenInOrder
  BY MtInvariant, InvTakenInOrder, PTL

(* The unlocked test of length sends no thread away while there is work,   *)
(* and what the threads put is all there when they have ended.             *)
LEMMA InvNoneLeftBehind == MtInv => NoneLeftBehind
<1> SUFFICES ASSUME MtInv, pc[Main] = "join", \A t \in Workers : pc[t] = "ended"
             PROVE  IF use = "pages" THEN handed = AllPairs
                    ELSE Workers = {data[Chain[i]] : i \in 1 .. abs_length}
  BY DEF NoneLeftBehind, At
<1> DEFINE n == abs_length
<1>1. PICK c : Running(c)
  BY RunningIsInv
<1>2. \A t \in Threads : pc[t] \notin Critical /\ ~ Apart(t)
  BY Constants DEF Critical, Apart
<1>3. lock = NULL
  BY <1>1, <1>2, NobodyInside DEF Running
<1>4. n \in Nat /\ Linked = n /\ Stage = "free" /\ Total = n
  BY <1>1, <1>3, NoHolder DEF Running, MtTypeOK
<1>5. CASE use = "pages"
  <2>1. \E t \in Workers : pc[t] = "ended"
    BY MtAssumption
  <2>2. length = 0
    BY <1>1, <1>5, <2>1 DEF Running, Phases
  <2>3. Len(handed) = n
    BY <1>1, <1>4, <2>2 DEF Running, Counts, MtTypeOK
  <2>4. n = Len(AllPairs)
    BY <1>1, <1>4, <1>5, AllMerged DEF Running
  <2>5. /\ handed \in Seq(DataPairs) /\ AllPairs \in Seq(DataPairs)
        /\ \A i \in 1 .. Len(handed) : handed[i] = AllPairs[i]
    BY PairsInOrder DEF MtInv, MtTypeOK, TakenSoFar
  <2>6. Len(handed) = Len(AllPairs)
    BY <2>3, <2>4
  <2>7. handed = AllPairs
    BY <2>5, <2>6
  <2> QED
    BY <1>5, <2>7
<1>6. CASE use = "buffers"
  <2>1. \A i \in 1 .. n : Chain[i] = c[i]
    BY <1>1, <1>4, ChainIs DEF Running, QueueIs
  <2>2. \A i \in 1 .. n : c[i] \in live
    BY <1>1, <1>4 DEF Running, QueueIs, LinkedAs
  <2>3. /\ \A t \in Workers : new_node[t] \in live /\ data[new_node[t]] = t
        /\ \A x \in live : data[x] \in Workers
    BY <1>6 DEF MtInv, Owned
  <2>4. \A x \in live : \E i \in 1 .. n : c[i] = x
    BY <1>1, <1>2, <1>4 DEF Running, QueueIs, AllocatedIn
  <2>5. ASSUME NEW t \in Workers PROVE \E i \in 1 .. n : t = data[Chain[i]]
    <3>1. PICK i \in 1 .. n : c[i] = new_node[t]
      BY <2>3, <2>4
    <3> QED
      BY <2>1, <2>3, <3>1
  <2>6. ASSUME NEW i \in 1 .. n PROVE data[Chain[i]] \in Workers
    BY <2>1, <2>2, <2>3
  <2>7. Workers = {data[Chain[i]] : i \in 1 .. n}
    BY <2>5, <2>6
  <2>8. use # "pages"
    BY <1>6
  <2> QED
    BY <2>7, <2>8
<1> QED
  BY <1>1, <1>5, <1>6 DEF Running, MtTypeOK

(* The unlocked test of length in doInflate_ never sends the last worker   *)
(* home early: when all of them are done every pair has been taken.        *)
THEOREM NothingLeftToTake == MtSpec => []NoneLeftBehind
  BY MtInvariant, InvNoneLeftBehind, PTL

(* The merge gives every bucket back whole, and mt_freeQueue leaves no     *)
(* node allocated.                                                         *)
LEMMA InvBooksClosed == MtInv => BooksClosed
<1> SUFFICES ASSUME MtInv PROVE BooksClosed
  OBVIOUS
<1>1. ASSUME pc[Main] = "join", NEW i \in 1 .. Len(Buckets) PROVE left[i] = 0
  <2>1. CASE use = "buffers"
    BY <2>1 DEF MtInv, MergeBooks
  <2>2. CASE use = "pages"
    <3>1. bucket = Len(Buckets) + 1
      BY <1>1, <2>2 DEF MtInv, MergeBooks
    <3>2. i # bucket
      BY <3>1, Constants
    <3> QED
      BY <3>2 DEF MtInv, MergeBooks
  <2> QED
    BY <2>1, <2>2 DEF MtInv, MtTypeOK
<1>2. pc[Main] = "freed" => live = {}
  BY DEF MtInv, Freed
<1> QED
  BY <1>1, <1>2 DEF BooksClosed, At

(* After mt_mergeQueue no bucket keeps a node of its own, and mt_freeQueue *)
(* leaves no node allocated.                                               *)
THEOREM QueueBooksClosed == MtSpec => []BooksClosed
  BY MtInvariant, InvBooksClosed, PTL

===============================================================================
