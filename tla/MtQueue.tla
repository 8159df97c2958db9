-------------------------------- MODULE MtQueue --------------------------------
(***************************************************************************)
(* MTQueue (src/mtezq.c): the queue of EzQueue under one lock, used by     *)
(* threads.  getChunkedData has three of them and uses them in two ways:   *)
(*   "pages"    mt_data_queue: filled from the page buckets before         *)
(*              main_thread_ready is set, then the threads take from it;   *)
(*   "buffers"  data_buffers, libdeflate_decomps: every thread puts what   *)
(*              it allocated.                                              *)
(* Both are freed when the threads have been joined.  Writes to different  *)
(* fields are different steps, for the loop of doInflate_ tests length     *)
(* without the lock; such a read gives the value before or after a write.  *)
(***************************************************************************)
EXTENDS Integers, FiniteSets, SequencesExt

CONSTANTS
    Workers,        \* threads running doInflate_
    Main,           \* the thread that runs getChunkedData
    Buckets,        \* data_page_buckets: a sequence of sequences of DataPairs
    NULL

Threads == Workers \cup {Main}
DataPairs == UNION {Range(Buckets[i]) : i \in DOMAIN Buckets}
AllPairs == FlattenSeq(Buckets)
Nodes == 1 .. Len(AllPairs) + Cardinality(Workers)

ASSUME MtAssumption ==
    /\ IsFiniteSet(Workers) /\ Workers # {} /\ Main \notin Workers
    /\ Buckets \in Seq(Seq(DataPairs))
    /\ NULL \notin Threads \cup Range(AllPairs) \cup Nodes

VARIABLES
    use,            \* "pages" or "buffers"
    live, next, prev, data,         \* the nodes
    abs_front, front, back, length, abs_length,
    lock,           \* the thread that has the queue's lock
    pc,
    new_node,       \* mt_enqueue's local
    to_return,      \* mt_dequeue's locals: the node taken from
    bucket,         \* mt_mergeQueue's loop: the bucket it is in
    left,           \* and how many it has taken from each
    handed          \* what has been handed out, in order (history)

nodeVars  == <<live, next, prev, data>>
endVars   == <<abs_front, front, back>>
countVars == <<length, abs_length>>
mergeVars == <<bucket, left>>
localVars == <<new_node, to_return>>
mtVars == <<use, nodeVars, endVars, countVars, lock, pc, localVars, mergeVars, handed>>

MtInit ==
    /\ use \in {"pages", "buffers"}
    /\ live = {}
    /\ next = [n \in Nodes |-> NULL] /\ prev = next /\ data = next
    /\ abs_front = NULL /\ front = NULL /\ back = NULL
    /\ length = 0 /\ abs_length = 0
    /\ lock = NULL
    /\ pc = [t \in Threads |-> IF t = Main THEN (IF use = "pages" THEN "merge" ELSE "join")
                               ELSE "held"]
    /\ new_node = [t \in Threads |-> NULL]
    /\ to_return = [t \in Threads |-> NULL]
    /\ bucket = 1 /\ left = [i \in 1 .. Len(Buckets) |-> 0]
    /\ handed = <<>>

Goto(t, label) == pc' = [pc EXCEPT ![t] = label]
At(t, label)   == pc[t] = label

Acquire(t) == lock = NULL /\ lock' = t
Release(t) == lock' = NULL

-----------------------------------------------------------------------------
(* mt_enqueue: the node is allocated and filled before the lock is taken *)
NewNode(t, d) ==
    LET n == Min(Nodes \ live)
    IN  /\ live' = live \cup {n}
        /\ data' = [data EXCEPT ![n] = d]
        /\ new_node' = [new_node EXCEPT ![t] = n]
        /\ Goto(t, "put")

(* mutant: mt_enqueue does not wait for the lock *)
LockToPutDropped(t) ==
    /\ At(t, "put")
    /\ lock' = t
    /\ Goto(t, "link")
    /\ UNCHANGED <<use, nodeVars, endVars, countVars, localVars, mergeVars, handed>>

LockToPut(t) ==
    /\ At(t, "put")
    /\ Acquire(t)
    /\ Goto(t, "link")
    /\ UNCHANGED <<use, nodeVars, endVars, countVars, localVars, mergeVars, handed>>

LinkFirst(t) ==
    /\ At(t, "link")
    /\ abs_length = 0
    /\ LET n == new_node[t]
       IN  /\ next' = [next EXCEPT ![n] = NULL]
           /\ prev' = [prev EXCEPT ![n] = NULL]
           /\ abs_front' = n /\ front' = n /\ back' = n
    /\ Goto(t, "count")
    /\ UNCHANGED <<use, live, data, countVars, lock, localVars, mergeVars, handed>>

LinkLast(t) ==
    /\ At(t, "link")
    /\ abs_length > 0
    /\ LET n     == new_node[t]
           after == next[back]
       IN  /\ prev' = IF after = NULL THEN [prev EXCEPT ![n] = back]
                      ELSE [prev EXCEPT ![n] = back, ![after] = n]
           /\ next' = [next EXCEPT ![n] = after, ![back] = n]
    /\ Goto(t, "back")
    /\ UNCHANGED <<use, live, data, endVars, countVars, lock, localVars, mergeVars, handed>>

MoveBack(t) ==
    /\ At(t, "back")
    /\ back' = new_node[t]
    /\ front' = IF length = 0 THEN new_node[t] ELSE front
    /\ Goto(t, "count")
    /\ UNCHANGED <<use, nodeVars, abs_front, countVars, lock, localVars, mergeVars, handed>>

CountOne(t) ==
    /\ At(t, "count")
    /\ length' = length + 1
    /\ Goto(t, "countAll")
    /\ UNCHANGED <<use, nodeVars, endVars, abs_length, lock, localVars, mergeVars, handed>>

(* the last of mt_enqueue; main goes on merging *)
CountAll(t) ==
    /\ At(t, "countAll")
    /\ abs_length' = abs_length + 1
    /\ Release(t)
    /\ Goto(t, IF t = Main THEN "merge" ELSE "ended")
    /\ UNCHANGED <<use, nodeVars, endVars, length, localVars, mergeVars, handed>>

-----------------------------------------------------------------------------
(* mt_mergeQueue: what is in the buckets is put in turn, and each bucket   *)
(* is then whole again                                                     *)
MergeNext ==
    /\ At(Main, "merge")
    /\ bucket <= Len(Buckets) /\ left[bucket] < Len(Buckets[bucket])
    /\ NewNode(Main, Buckets[bucket][left[bucket] + 1])
    /\ left' = [left EXCEPT ![bucket] = @ + 1]
    /\ UNCHANGED <<use, next, prev, endVars, countVars, lock, to_return, bucket, handed>>

MergeBucketDone ==
    /\ At(Main, "merge")
    /\ bucket <= Len(Buckets) /\ left[bucket] = Len(Buckets[bucket])
    /\ bucket' = bucket + 1
    /\ left' = [left EXCEPT ![bucket] = 0]
    /\ UNCHANGED <<use, nodeVars, endVars, countVars, lock, pc, localVars, handed>>

MergeDone ==
    /\ At(Main, "merge")
    /\ bucket > Len(Buckets)
    /\ Goto(Main, "join")
    /\ UNCHANGED <<use, nodeVars, endVars, countVars, lock, localVars, mergeVars, handed>>

-----------------------------------------------------------------------------
(* what the threads do with the queue when nothing holds them back any more *)
StartPutting(t) ==
    /\ At(t, "held") /\ At(Main, "join")
    /\ use = "buffers"
    /\ NewNode(t, t)
    /\ UNCHANGED <<use, next, prev, endVars, countVars, lock, to_return, mergeVars, handed>>

StartTaking(t) ==
    /\ At(t, "held") /\ At(Main, "join")
    /\ use = "pages"
    /\ Goto(t, "test")
    /\ UNCHANGED <<use, nodeVars, endVars, countVars, lock, localVars, mergeVars, handed>>

(* while(mt_data_queue->length > 0), without the lock *)
TestLength(t) ==
    /\ At(t, "test")
    /\ Goto(t, IF length > 0 THEN "take" ELSE "ended")
    /\ UNCHANGED <<use, nodeVars, endVars, countVars, lock, localVars, mergeVars, handed>>

(* mutant: mt_dequeue does not wait for the lock *)
LockToTakeDropped(t) ==
    /\ At(t, "take")
    /\ lock' = t
    /\ Goto(t, "read")
    /\ UNCHANGED <<use, nodeVars, endVars, countVars, localVars, mergeVars, handed>>

LockToTake(t) ==
    /\ At(t, "take")
    /\ Acquire(t)
    /\ Goto(t, "read")
    /\ UNCHANGED <<use, nodeVars, endVars, countVars, localVars, mergeVars, handed>>

ReadFront(t) ==
    /\ At(t, "read")
    /\ front # NULL /\ length > 0
    /\ to_return' = [to_return EXCEPT ![t] = front]
    /\ Goto(t, "front")
    /\ UNCHANGED <<use, nodeVars, endVars, countVars, lock, new_node, mergeVars, handed>>

(* mutant: an empty queue is left locked *)
NothingLeftLocked(t) ==
    /\ At(t, "read")
    /\ front = NULL \/ length = 0
    /\ Goto(t, "ended")
    /\ UNCHANGED <<use, nodeVars, endVars, countVars, lock, localVars, mergeVars, handed>>

(* mt_dequeue returns NULL, and the thread leaves its loop *)
NothingLeft(t) ==
    /\ At(t, "read")
    /\ front = NULL \/ length = 0
    /\ Release(t)
    /\ Goto(t, "ended")
    /\ UNCHANGED <<use, nodeVars, endVars, countVars, localVars, mergeVars, handed>>

MoveFront(t) ==
    /\ At(t, "front")
    /\ front' = next[to_return[t]]
    /\ Goto(t, "uncount")
    /\ UNCHANGED <<use, nodeVars, abs_front, back, countVars, lock, localVars, mergeVars, handed>>

(* mutant: length is lowered twice, once for each count *)
UncountTwice(t) ==
    /\ At(t, "uncount")
    /\ length' = IF length > 1 THEN length - 2 ELSE 0
    /\ Release(t)
    /\ handed' = Append(handed, data[to_return[t]])
    /\ Goto(t, "test")
    /\ UNCHANGED <<use, nodeVars, endVars, abs_length, localVars, mergeVars>>

(* the last of mt_dequeue; the thread inflates the chunk and comes back *)
Uncount(t) ==
    /\ At(t, "uncount")
    /\ length' = length - 1
    /\ Release(t)
    /\ handed' = Append(handed, data[to_return[t]])
    /\ Goto(t, "test")
    /\ UNCHANGED <<use, nodeVars, endVars, abs_length, localVars, mergeVars>>

(* mt_freeQueue, once every thread has been joined: the lock is free *)
Chain ==
    LET at[i \in 1 .. abs_length] ==
            IF i = 1 THEN abs_front ELSE IF at[i - 1] \in live THEN next[at[i - 1]] ELSE NULL
    IN  at

(* mutant: only what has not been handed out is freed *)
FreeQueueRest ==
    /\ At(Main, "join") /\ \A t \in Workers : At(t, "ended")
    /\ Acquire(Main)
    /\ live' = live \ {Chain[i] : i \in abs_length - length + 1 .. abs_length}
    /\ abs_front' = NULL /\ front' = NULL /\ back' = NULL
    /\ length' = 0 /\ abs_length' = 0
    /\ Goto(Main, "freed")
    /\ UNCHANGED <<use, next, prev, data, localVars, mergeVars, handed>>

FreeQueue ==
    /\ At(Main, "join") /\ \A t \in Workers : At(t, "ended")
    /\ lock = NULL
    /\ live' = live \ {Chain[i] : i \in 1 .. abs_length}
    /\ abs_front' = NULL /\ front' = NULL /\ back' = NULL
    /\ length' = 0 /\ abs_length' = 0
    /\ Goto(Main, "freed")
    /\ UNCHANGED <<use, next, prev, data, lock, localVars, mergeVars, handed>>

Ended == At(Main, "freed") /\ UNCHANGED mtVars

-----------------------------------------------------------------------------
Put(t) == LockToPut(t) \/ LinkFirst(t) \/ LinkLast(t) \/ MoveBack(t) \/ CountOne(t) \/ CountAll(t)
TakeStep(t) ==
    \/ TestLength(t) \/ LockToTake(t) \/ ReadFront(t) \/ NothingLeft(t) \/ MoveFront(t)
    \/ Uncount(t)

MainStep == MergeNext \/ MergeBucketDone \/ MergeDone \/ Put(Main) \/ FreeQueue
WorkerStep(t) == StartPutting(t) \/ StartTaking(t) \/ Put(t) \/ TakeStep(t)

MtNext == MainStep \/ (\E t \in Workers : WorkerStep(t)) \/ Ended

MtSpec == MtInit /\ [][MtNext]_mtVars
(* The operating system runs every thread that can run.                    *)
MtFairSpec == MtSpec /\ WF_mtVars(MainStep) /\ \A t \in Workers : WF_mtVars(WorkerStep(t))

-----------------------------------------------------------------------------
(* Whenever the lock is free the queue is whole: its chain is linked both  *)
(* ways from abs_front to back, without a node twice, and front is the     *)
(* node length counts from.                                                *)
WholeWhenFree ==
    lock = NULL =>
        /\ {Chain[i] : i \in 1 .. abs_length} \subseteq live
        /\ Cardinality({Chain[i] : i \in 1 .. abs_length}) = abs_length
        /\ \A i \in 2 .. abs_length : prev[Chain[i]] = Chain[i - 1]
        /\ abs_length > 0 => back = Chain[abs_length] /\ next[back] = NULL
        /\ length > 0 => front = Chain[abs_length - length + 1]

(* What the threads take from the queue, together and in the order they    *)
(* take it, is what the buckets held, bucket by bucket: no chunk twice,    *)
(* none passed over.                                                       *)
TakenInOrder == IsPrefix(handed, AllPairs)

(* The unlocked test of length never sends the last thread away from work: *)
(* when all have ended nothing is left to take, and what they put is all   *)
(* there.                                                                  *)
NoneLeftBehind ==
    At(Main, "join") /\ (\A t \in Workers : At(t, "ended")) =>
        IF use = "pages" THEN handed = AllPairs
        ELSE Workers = {data[Chain[i]] : i \in 1 .. abs_length}

(* The merge leaves every bucket as it was, so freeQueue of a bucket and   *)
(* of the merged queue each find their own nodes; at the end no node of    *)
(* the queue is left allocated, handed out or not.                         *)
BooksClosed ==
    /\ At(Main, "join") => \A i \in 1 .. Len(Buckets) : left[i] = 0
    /\ At(Main, "freed") => live = {}

(* Every thread ends and the queue is freed.                               *)
QueueFreed == <>At(Main, "freed")
===============================================================================
