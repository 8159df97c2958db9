------------------------------ MODULE ChunkLoad ------------------------------
(***************************************************************************)
(* getChunkedData: one chunked dataset after another is read into memory.  *)
(* The main thread walks the chunk tree (fillNode), registering each chunk *)
(* in the page table and putting it into the bucket of its page; it merges *)
(* the buckets into mt_data_queue and wakes the worker threads, which wait *)
(* since before the walk.  Each worker runs doInflate_: take a chunk, map  *)
(* its page, inflate, release the page, copy the elements out.  Without    *)
(* multithreading the main thread runs doInflate_ itself: worker 1 below.  *)
(*                                                                         *)
(* The unix build: one InflateThreadObj, and with it one err field, is     *)
(* shared by all workers of a load (src/placeChunkedData.c).               *)
(***************************************************************************)
EXTENDS PageTable, SequencesExt

CONSTANTS
    Nodes,          \* address -> what is there, a node or the bytes of a chunk
    Forests,        \* files: the roots of their datasets' chunk trees
    PageOf,         \* chunk -> the page its bytes start in
    ExtentOf,       \* chunk -> where they end, from the start of that page
    Corruptible,    \* the chunks whose bytes may be bad
    FaultKinds      \* what may go wrong besides corrupt chunks

Chunks     == {a \in DOMAIN Nodes : Nodes[a].sig = "data"}
NoChunk    == 0
NumThreads == Cardinality(Threads)
NumPages   == Cardinality(Pages)

ASSUME ChunksAssumption ==
    /\ NoChunk \notin Chunks
    /\ PageOf   \in [Chunks -> Pages]
    /\ ExtentOf \in [Chunks -> Extents]
    /\ \A a \in DOMAIN Nodes :
        \/ Nodes[a].sig = "TREE" /\ Nodes[a].type \in {"group", "chunk"} /\ Nodes[a].kids \in Seq(DOMAIN Nodes)
        \/ Nodes[a].sig \in {"SNOD", "data", "end"}
    /\ Forests \subseteq Seq(DOMAIN Nodes)
    /\ Threads = 1 .. NumThreads /\ NumThreads > 0
    /\ Pages = 0 .. NumPages - 1
    /\ Corruptible \subseteq Chunks
    /\ FaultKinds \subseteq {"memory", "mmap"}
    /\ IsFiniteSet(DOMAIN Nodes) /\ IsFiniteSet(Pages)

VARIABLES
    is_super_mapped,    \* the whole file is mapped: it is below 1 MB
    trees,              \* dataset -> the root of its chunk tree
    corrupt,            \* the chunks libdeflate rejects
    faults,             \* the kinds of failure this session may meet
    dataset,            \* index of the current or latest dataset, 0 before
    multithread,        \* will_multithread and above MIN_MT_ELEMS_THRESH
    main_pc,            \* where the main thread stands
    recorded,           \* chunks of the tree that fillNode has recorded
    data_page_buckets,  \* page -> its chunks, in tree order
    merged,             \* buckets merged so far
    mt_data_queue,      \* the chunks nobody has taken
    main_thread_ready,
    thread_mtx,         \* holder of the mutex of the condition variable
    worker_pc,          \* thread -> where it stands in doInflate_
    chunk,              \* thread -> the DataPair it works on
    err,                \* thread_object.err, shared by the workers
    joined,             \* workers whose exit code has been looked at
    ret,                \* what getChunkedData returns
    placed              \* chunks copied into the array of this dataset

fileVars   == <<is_super_mapped, trees, corrupt, faults>>
mainVars   == <<dataset, multithread, recorded, data_page_buckets, merged,
                main_thread_ready, joined, ret>>
workerVars == <<mt_data_queue, thread_mtx, worker_pc, chunk, err, placed>>
loadVars   == <<fileVars, mainVars, main_pc, workerVars>>
vars       == <<pageVars, loadVars>>

MainStates ==
    { "idle", "fill", "merge", "ready", "broadcast", "join", "inflate", "free",
      "failed", "closed", "aborted" }

WorkerStates ==
    { "none",       \* not created, or joined
      "alloc",      \* at the start of doInflate_
      "sync",       \* about to lock thread_mtx
      "sleep",      \* holds it, has found main_thread_ready not set
      "waiting",    \* in pthread_cond_wait
      "loop",       \* at the length test of the while loop
      "dequeue",    \* the queue was not empty a moment ago
      "inflate",    \* in mt_navigateTo, then in libdeflate
      "release",    \* about to call mt_releasePages
      "switch",     \* about to look at thread_obj->err
      "fail",       \* saw an error there
      "place",      \* saw none: copies the chunk out
      "finish",     \* found the queue empty
      "done" }      \* returned, not joined

(* fillNode: what it meets below a node, in order.  A child that is no     *)
(* TREE is a chunk, unless it is a SNOD or the end of the siblings; a TREE *)
(* of another type ends the walk.  Trees have no circles.  The mappings of *)
(* the nodes are in MapCache.                                              *)
WrongNode == 0
FillNode ==
    LET below[d \in 0 .. Cardinality(DOMAIN Nodes)] ==
            LET kid(k) == IF Nodes[k].sig = "data" THEN <<k>> ELSE below[d - 1][k]
            IN  [a \in DOMAIN Nodes |->
                    IF d = 0 \/ Nodes[a].sig # "TREE" THEN <<>>
                    ELSE IF Nodes[a].type # "chunk" THEN <<WrongNode>>
                    ELSE FlattenSeq([i \in DOMAIN Nodes[a].kids |-> kid(Nodes[a].kids[i])])]
    IN  below[Cardinality(DOMAIN Nodes)]

(* A file has no two ways to one chunk in the tree of a dataset.           *)
ASSUME TreesAssumption ==
    \A roots \in Forests : \A d \in DOMAIN roots :
        /\ FillNode[roots[d]] \in Seq(Chunks \cup {WrongNode})
        /\ \A i, j \in DOMAIN FillNode[roots[d]] :
             FillNode[roots[d]][i] = FillNode[roots[d]][j] =>
                 i = j \/ FillNode[roots[d]][i] = WrongNode

Met   == IF dataset = 0 THEN <<>> ELSE FillNode[trees[dataset]]
Alive == main_pc \notin {"closed", "aborted"}

-----------------------------------------------------------------------------
LoadInit ==
    /\ PageInit
    /\ is_super_mapped \in BOOLEAN
    /\ trees \in Forests
    /\ corrupt \in SUBSET Corruptible
    /\ faults \in SUBSET FaultKinds
    /\ dataset = 0
    /\ multithread = FALSE
    /\ main_pc = "idle"
    /\ recorded = 0
    /\ data_page_buckets = [p \in Pages |-> <<>>]
    /\ merged = 0
    /\ mt_data_queue = <<>>
    /\ main_thread_ready = FALSE
    /\ thread_mtx = NoThread
    /\ worker_pc = [t \in Threads |-> "none"]
    /\ chunk = [t \in Threads |-> NoChunk]
    /\ err = 0
    /\ joined = 0
    /\ ret = 0
    /\ placed = {}

MainGoto(there)      == main_pc' = there
WorkerGoto(t, there) == worker_pc' = [worker_pc EXCEPT ![t] = there]

(* getChunkedData up to fillNode: a fresh InflateThreadObj, and the worker *)
(* threads when the dataset is worth them.  A file below 1 MB never is.    *)
StartLoad ==
    /\ main_pc = "idle"
    /\ dataset < Len(trees)
    /\ dataset' = dataset + 1
    /\ multithread' \in IF is_super_mapped THEN {FALSE} ELSE BOOLEAN
    /\ worker_pc' = [t \in Threads |-> IF multithread' THEN "alloc" ELSE "none"]
    /\ main_thread_ready' = FALSE
    /\ err' = 0
    /\ ret' = 0
    /\ recorded' = 0
    /\ merged' = 0
    /\ joined' = 0
    /\ placed' = {}
    /\ MainGoto("fill")
    /\ UNCHANGED <<pageVars, fileVars, data_page_buckets, mt_data_queue, thread_mtx, chunk>>

(* mutant: one bucket for all pages *)
RecordChunkUnsorted ==
    /\ main_pc = "fill"
    /\ recorded < Len(Met) /\ Met[recorded + 1] # WrongNode
    /\ LET c == Met[recorded + 1]
       IN  /\ Register(PageOf[c], ExtentOf[c])
           /\ data_page_buckets' = [data_page_buckets EXCEPT ![0] = Append(@, c)]
    /\ recorded' = recorded + 1
    /\ UNCHANGED <<fileVars, main_pc, workerVars, dataset, multithread, merged,
                   main_thread_ready, joined, ret>>

(* fillNode meets a RAWDATA entry *)
RecordChunk ==
    /\ main_pc = "fill"
    /\ recorded < Len(Met) /\ Met[recorded + 1] # WrongNode
    /\ LET c == Met[recorded + 1]
       IN  /\ Register(PageOf[c], ExtentOf[c])
           /\ data_page_buckets' = [data_page_buckets EXCEPT ![PageOf[c]] = Append(@, c)]
    /\ recorded' = recorded + 1
    /\ UNCHANGED <<fileVars, main_pc, workerVars, dataset, multithread, merged,
                   main_thread_ready, joined, ret>>

(* fillNode meets a node that is not of a chunk tree.  getChunkedData      *)
(* returns at once: workers it created stay where they are.                *)
FillFails ==
    /\ main_pc = "fill"
    /\ recorded < Len(Met) /\ Met[recorded + 1] = WrongNode
    /\ ret' = 1
    /\ MainGoto("failed")
    /\ UNCHANGED <<pageVars, fileVars, workerVars, dataset, multithread, recorded,
                   data_page_buckets, merged, main_thread_ready, joined>>

FillDone ==
    /\ main_pc = "fill"
    /\ recorded = Len(Met)
    /\ MainGoto("merge")
    /\ UNCHANGED <<pageVars, fileVars, mainVars, workerVars>>

(* one turn of the outer loop of mt_mergeQueue, then freeQueue *)
MergeBucket ==
    /\ main_pc = "merge"
    /\ merged < NumPages
    /\ mt_data_queue' = mt_data_queue \o data_page_buckets[merged]
    /\ data_page_buckets' = [data_page_buckets EXCEPT ![merged] = <<>>]
    /\ merged' = merged + 1
    /\ UNCHANGED <<pageVars, fileVars, main_pc, dataset, multithread, recorded,
                   main_thread_ready, joined, ret,
                   thread_mtx, worker_pc, chunk, err, placed>>

MergeDone ==
    /\ main_pc = "merge"
    /\ merged = NumPages
    /\ IF multithread
       THEN MainGoto("ready") /\ UNCHANGED worker_pc
       ELSE MainGoto("inflate") /\ WorkerGoto(1, "alloc")
    /\ UNCHANGED <<pageVars, fileVars, mainVars,
                   mt_data_queue, thread_mtx, chunk, err, placed>>

(* main_thread_ready = TRUE, written without thread_mtx *)
SetReady ==
    /\ main_pc = "ready"
    /\ main_thread_ready' = TRUE
    /\ MainGoto("broadcast")
    /\ UNCHANGED <<pageVars, fileVars, workerVars, dataset, multithread, recorded,
                   data_page_buckets, merged, joined, ret>>

(* mutant: without thread_mtx *)
BroadcastUnlocked ==
    /\ main_pc = "broadcast"
    /\ worker_pc' = [t \in Threads |-> IF worker_pc[t] = "waiting" THEN "sync"
                                                                   ELSE worker_pc[t]]
    /\ MainGoto("join")
    /\ UNCHANGED <<pageVars, fileVars, mainVars,
                   mt_data_queue, thread_mtx, chunk, err, placed>>

(* lock, pthread_cond_broadcast, unlock *)
Broadcast ==
    /\ main_pc = "broadcast"
    /\ thread_mtx = NoThread
    /\ worker_pc' = [t \in Threads |-> IF worker_pc[t] = "waiting" THEN "sync"
                                                                   ELSE worker_pc[t]]
    /\ MainGoto("join")
    /\ UNCHANGED <<pageVars, fileVars, mainVars,
                   mt_data_queue, thread_mtx, chunk, err, placed>>

(* mutant: the last worker is forgotten *)
JoinAllButLast ==
    LET t == joined + 1 IN
    /\ main_pc = "join"
    /\ worker_pc[t] = "done"
    /\ ret' = IF err # 0 THEN 1 ELSE ret
    /\ WorkerGoto(t, "none")
    /\ joined' = t
    /\ MainGoto(IF t >= NumThreads - 1 THEN "free" ELSE "join")
    /\ UNCHANGED <<pageVars, fileVars, dataset, multithread, recorded, data_page_buckets,
                   merged, main_thread_ready, mt_data_queue, thread_mtx, chunk, err, placed>>

(* pthread_join on the next worker, in order of creation, and the look at  *)
(* what its exit code points to: the field every worker writes.            *)
Join ==
    LET t == joined + 1 IN
    /\ main_pc = "join"
    /\ worker_pc[t] = "done"
    /\ ret' = IF err # 0 THEN 1 ELSE ret
    /\ WorkerGoto(t, "none")
    /\ joined' = t
    /\ MainGoto(IF t = NumThreads THEN "free" ELSE "join")
    /\ UNCHANGED <<pageVars, fileVars, dataset, multithread, recorded, data_page_buckets,
                   merged, main_thread_ready, mt_data_queue, thread_mtx, chunk, err, placed>>

(* doInflate_ returns to getChunkedData itself *)
InflateReturns ==
    /\ main_pc = "inflate"
    /\ worker_pc[1] = "done"
    /\ ret' = IF err # 0 THEN 1 ELSE ret
    /\ WorkerGoto(1, "none")
    /\ MainGoto("free")
    /\ UNCHANGED <<pageVars, fileVars, dataset, multithread, recorded, data_page_buckets,
                   merged, main_thread_ready, joined,
                   mt_data_queue, thread_mtx, chunk, err, placed>>

(* mt_freeQueue drops what is left; an error ends the session, for every   *)
(* caller of fillObject hands it on to readMXError.                        *)
FreeLoad ==
    /\ main_pc = "free"
    /\ mt_data_queue' = <<>>
    /\ MainGoto(IF ret = 0 THEN "idle" ELSE "failed")
    /\ UNCHANGED <<pageVars, fileVars, mainVars,
                   thread_mtx, worker_pc, chunk, err, placed>>

(* endHooks: the queues are freed, and destroyPageObjects runs.  After a   *)
(* failed walk of the tree the waiting workers are still there.            *)
Close ==
    /\ main_pc \in {"idle", "failed"}
    /\ ResetPages
    /\ mt_data_queue' = <<>>
    /\ data_page_buckets' = [p \in Pages |-> <<>>]
    /\ MainGoto("closed")
    /\ UNCHANGED <<fileVars, dataset, multithread, recorded, merged, main_thread_ready,
                   joined, ret, thread_mtx, worker_pc, chunk, err, placed>>

MainStep ==
    \/ StartLoad \/ RecordChunk \/ FillFails \/ FillDone \/ MergeBucket \/ MergeDone
    \/ SetReady \/ Broadcast \/ Join \/ InflateReturns \/ FreeLoad \/ Close

-----------------------------------------------------------------------------
AllocBuffer(t) ==
    /\ worker_pc[t] = "alloc"
    /\ WorkerGoto(t, IF multithread THEN "sync" ELSE "loop")
    /\ UNCHANGED <<pageVars, fileVars, mainVars, main_pc,
                   mt_data_queue, thread_mtx, chunk, err, placed>>

(* malloc of the decompression buffer fails: the worker returns at once *)
AllocFails(t) ==
    /\ worker_pc[t] = "alloc"
    /\ "memory" \in faults
    /\ err' = 1
    /\ WorkerGoto(t, "done")
    /\ UNCHANGED <<pageVars, fileVars, mainVars, main_pc,
                   mt_data_queue, thread_mtx, chunk, placed>>

(* lock thread_mtx, test main_thread_ready; on success unlock again.       *)
(* pthread_cond_wait returns into this loop with the mutex taken anew.     *)
TestReady(t) ==
    /\ worker_pc[t] = "sync"
    /\ thread_mtx = NoThread
    /\ IF main_thread_ready
       THEN WorkerGoto(t, "loop") /\ UNCHANGED thread_mtx
       ELSE WorkerGoto(t, "sleep") /\ thread_mtx' = t
    /\ UNCHANGED <<pageVars, fileVars, mainVars, main_pc,
                   mt_data_queue, chunk, err, placed>>

(* pthread_cond_wait: sleep and unlock in one step *)
CondWait(t) ==
    /\ worker_pc[t] = "sleep"
    /\ WorkerGoto(t, "waiting")
    /\ thread_mtx' = NoThread
    /\ UNCHANGED <<pageVars, fileVars, mainVars, main_pc,
                   mt_data_queue, chunk, err, placed>>

(* which may also return for no reason *)
SpuriousWake(t) ==
    /\ worker_pc[t] = "waiting"
    /\ WorkerGoto(t, "sync")
    /\ UNCHANGED <<pageVars, fileVars, mainVars, main_pc,
                   mt_data_queue, thread_mtx, chunk, err, placed>>

(* while(mt_data_queue->length > 0), without the queue's lock *)
TestLength(t) ==
    /\ worker_pc[t] = "loop"
    /\ WorkerGoto(t, IF mt_data_queue # <<>> THEN "dequeue" ELSE "finish")
    /\ UNCHANGED <<pageVars, fileVars, mainVars, main_pc,
                   mt_data_queue, thread_mtx, chunk, err, placed>>

(* mutant: the chunk stays in the queue *)
DequeuePeek(t) ==
    /\ worker_pc[t] = "dequeue"
    /\ mt_data_queue # <<>>
    /\ chunk' = [chunk EXCEPT ![t] = Head(mt_data_queue)]
    /\ mt_data_queue' = mt_data_queue
    /\ WorkerGoto(t, "inflate")
    /\ IF is_super_mapped THEN UNCHANGED pageVars
                          ELSE EnterPage(t, PageOf[Head(mt_data_queue)])
    /\ UNCHANGED <<fileVars, mainVars, main_pc, thread_mtx, err, placed>>

(* mt_dequeue, under the queue's lock, and the entry into mt_navigateTo,   *)
(* which has nothing to do when the file is mapped as a whole.             *)
Dequeue(t) ==
    /\ worker_pc[t] = "dequeue"
    /\ mt_data_queue # <<>>
    /\ chunk' = [chunk EXCEPT ![t] = Head(mt_data_queue)]
    /\ mt_data_queue' = Tail(mt_data_queue)
    /\ WorkerGoto(t, "inflate")
    /\ IF is_super_mapped THEN UNCHANGED pageVars
                          ELSE EnterPage(t, PageOf[Head(mt_data_queue)])
    /\ UNCHANGED <<fileVars, mainVars, main_pc, thread_mtx, err, placed>>

(* "in case it gets dequeued after the loop check but before the lock" *)
DequeueNull(t) ==
    /\ worker_pc[t] = "dequeue"
    /\ mt_data_queue = <<>>
    /\ WorkerGoto(t, "finish")
    /\ UNCHANGED <<pageVars, fileVars, mainVars, main_pc,
                   mt_data_queue, thread_mtx, chunk, err, placed>>

(* the steps of mt_navigateTo *)
NavigateChunk(t) ==
    /\ NavigateStep(t)
    /\ UNCHANGED loadVars

(* mmap fails: readMXError runs endHooks on this thread and exits *)
MmapFails(t) ==
    /\ nav_pc[t] = "map"
    /\ "mmap" \in faults
    /\ MainGoto("aborted")
    /\ UNCHANGED <<pageVars, fileVars, mainVars, workerVars>>

HasPointer(t) == is_super_mapped \/ nav_pc[t] = "using"

(* mutant: a failed chunk does not release its page *)
InflateKeepsPage(t) ==
    /\ worker_pc[t] = "inflate"
    /\ HasPointer(t)
    /\ err' = IF chunk[t] \in corrupt THEN 1 ELSE 0
    /\ WorkerGoto(t, IF chunk[t] \in corrupt THEN "switch" ELSE "release")
    /\ UNCHANGED <<pageVars, fileVars, mainVars, main_pc,
                   mt_data_queue, thread_mtx, chunk, placed>>

(* thread_obj->err = libdeflate_zlib_decompress(...) *)
Inflate(t) ==
    /\ worker_pc[t] = "inflate"
    /\ HasPointer(t)
    /\ err' = IF chunk[t] \in corrupt THEN 1 ELSE 0
    /\ WorkerGoto(t, "release")
    /\ UNCHANGED <<pageVars, fileVars, mainVars, main_pc,
                   mt_data_queue, thread_mtx, chunk, placed>>

Release(t) ==
    /\ worker_pc[t] = "release"
    /\ IF is_super_mapped THEN UNCHANGED pageVars ELSE ReleasePages(t)
    /\ WorkerGoto(t, "switch")
    /\ UNCHANGED <<fileVars, mainVars, main_pc,
                   mt_data_queue, thread_mtx, chunk, err, placed>>

(* mutant: every code falls through to the copy *)
SwitchErrDefault(t) ==
    /\ worker_pc[t] = "switch"
    /\ WorkerGoto(t, "place")
    /\ UNCHANGED <<pageVars, fileVars, mainVars, main_pc,
                   mt_data_queue, thread_mtx, chunk, err, placed>>

(* switch(thread_obj->err): the field is read again *)
SwitchErr(t) ==
    /\ worker_pc[t] = "switch"
    /\ WorkerGoto(t, IF err # 0 THEN "fail" ELSE "place")
    /\ UNCHANGED <<pageVars, fileVars, mainVars, main_pc,
                   mt_data_queue, thread_mtx, chunk, err, placed>>

(* thread_obj->err = 1; return *)
Fail(t) ==
    /\ worker_pc[t] = "fail"
    /\ err' = 1
    /\ chunk' = [chunk EXCEPT ![t] = NoChunk]
    /\ WorkerGoto(t, "done")
    /\ UNCHANGED <<pageVars, fileVars, mainVars, main_pc,
                   mt_data_queue, thread_mtx, placed>>

(* the copy loop *)
Place(t) ==
    /\ worker_pc[t] = "place"
    /\ placed' = placed \cup {chunk[t]}
    /\ chunk' = [chunk EXCEPT ![t] = NoChunk]
    /\ WorkerGoto(t, "loop")
    /\ UNCHANGED <<pageVars, fileVars, mainVars, main_pc,
                   mt_data_queue, thread_mtx, err>>

(* thread_obj->err = 0; return *)
Finish(t) ==
    /\ worker_pc[t] = "finish"
    /\ err' = 0
    /\ WorkerGoto(t, "done")
    /\ UNCHANGED <<pageVars, fileVars, mainVars, main_pc,
                   mt_data_queue, thread_mtx, chunk, placed>>

WorkerStep(t) ==
    \/ AllocBuffer(t) \/ AllocFails(t)
    \/ TestReady(t) \/ CondWait(t)
    \/ TestLength(t) \/ Dequeue(t) \/ DequeueNull(t)
    \/ NavigateChunk(t) \/ MmapFails(t)
    \/ Inflate(t) \/ Release(t) \/ SwitchErr(t) \/ Fail(t) \/ Place(t) \/ Finish(t)

(* the process is gone *)
Ended == ~Alive /\ UNCHANGED vars

LoadNext ==
    \/ MainStep
    \/ Alive /\ \E t \in Threads : WorkerStep(t) \/ SpuriousWake(t)
    \/ Ended

LoadSpec == LoadInit /\ [][LoadNext]_vars

(* Every thread runs when it can.  No wakeup is owed but the broadcast's.  *)
FairLoadSpec ==
    /\ LoadSpec
    /\ WF_vars(MainStep)
    /\ \A t \in Threads : WF_vars(Alive /\ WorkerStep(t))

-----------------------------------------------------------------------------
Returned  == main_pc = "idle" /\ dataset > 0     \* getChunkedData returned 0
Recorded  == {Met[i] : i \in 1 .. recorded}
Bucketed  == UNION {ToSet(data_page_buckets[p]) : p \in Pages}
Queued    == ToSet(mt_data_queue)
Unreleased(p) ==
    {c \in Bucketed \cup Queued : PageOf[c] = p} \cup ({chunk[t] : t \in Visitors(p)} \ {NoChunk})

(* A chunk is in one place only: two workers never take the same one, and  *)
(* nobody takes one that was already copied out, whatever the unlocked     *)
(* length tests saw.  A chunk leaves the buckets and the queue for good.   *)
TakenOnce ==
    /\ \A t \in Threads : chunk[t] # NoChunk =>
         /\ chunk[t] \notin Bucketed \cup Queued \cup placed
         /\ \A u \in Threads \ {t} : chunk[u] # chunk[t]
    /\ placed \cap (Bucketed \cup Queued) = {}
    /\ Bucketed \cap Queued = {}
    /\ IsInjective(mt_data_queue)

(* total_num_mappings, which decides when a page is unmapped, counts the   *)
(* chunks of the page that are in a bucket, in the queue, or with a worker *)
(* that has not released them: neither a failing worker nor an earlier     *)
(* dataset leaves the count off.                                           *)
MappingsAccounted ==
    ~is_super_mapped /\ main_pc \notin {"failed", "closed"} =>
        \A p \in Pages : total_num_mappings[p] = Cardinality(Unreleased(p))

(* A getChunkedData that returned 0 has no thread left, no page mapped or  *)
(* counted, no lock held and nothing queued: the next dataset starts from  *)
(* a clean page table although the table outlives the load.                *)
CleanReturn ==
    Returned =>
        /\ \A t \in Threads : worker_pc[t] = "none" /\ chunk[t] = NoChunk
        /\ Bucketed = {} /\ Queued = {}
        /\ thread_mtx = NoThread
        /\ ~is_super_mapped => \A p \in Pages :
             ~is_mapped[p] /\ num_using[p] = 0 /\ total_num_mappings[p] = 0

(* The chunks of a dataset: the data that its root leads to.  A root that  *)
(* is no node has none.                                                    *)
Beyond(nodes) == nodes \cup UNION {ToSet(Nodes[a].kids) : a \in {n \in nodes : Nodes[n].sig = "TREE"}}
Under(root) ==
    LET reach[k \in 0 .. Cardinality(DOMAIN Nodes)] ==
            IF k = 0 THEN {root} ELSE Beyond(reach[k - 1])
    IN  reach[Cardinality(DOMAIN Nodes)]
ChunksOf(d)   == (Under(trees[d]) \cap Chunks) \ {trees[d]}
SoundTrees    == \A d \in DOMAIN trees : \A a \in Under(trees[d]) : Nodes[a].sig = "TREE" => Nodes[a].type = "chunk"

(* A load that returns 0 without threads has copied every chunk of the     *)
(* dataset, and each was sound: an error is never lost.  With threads it   *)
(* has if nothing is wrong and nothing fails; and then it does return 0.   *)
ResultExact ==
    /\ Returned /\ ~multithread => placed = ChunksOf(dataset) /\ placed \cap corrupt = {}
    /\ corrupt = {} /\ faults = {} /\ SoundTrees =>
         /\ main_pc \notin {"failed", "aborted"}
         /\ Returned => placed = ChunksOf(dataset)

(* The first of these promises for every load.  The error the worker that  *)
(* met a bad chunk stored ("Failed to decompress data which was either invalid,      *)
(* corrupt or otherwise unsupported") is to fail getChunkedData.           *)
ErrorsReported ==
    Returned => placed = ChunksOf(dataset) /\ placed \cap corrupt = {}

(* Sorting the chunks by page before they are handed out keeps at most one *)
(* page mapped per thread ("ensure we don't map twice as much memory as we *)
(* really need").                                                          *)
MappedPagesBounded ==
    main_pc # "failed" => Cardinality({p \in Pages : is_mapped[p]}) <= NumThreads

(* Every load ends: no wakeup is lost, nobody spins on a page for ever, no *)
(* join waits for ever.                                                    *)
LoadTerminates ==
    main_pc = "fill" ~> main_pc \in {"idle", "failed", "aborted"}
=============================================================================
