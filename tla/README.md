# getmatvar in TLA+

A verification project for getmatvar, the C library (MEX function and stand-alone
build) that reads variables out of MATLAB 7.3 files.  The modules model the code in
`src/src/`; `PROJECT.json` lists, for every definition that models code, the lines it
stands for, and for every run and theorem what it is about.

## 1. Inventory

getmatvar maps an HDF5 file piecewise, walks its group trees into a tree of `Data`
objects, looks up the variables asked for, reads their headers, fetches their data and
hands them to MATLAB.  All of it runs on one thread except one thing: the chunks of a
large chunked dataset are inflated by a pool of worker threads.

| Component | State it keeps | Operations | What is hard about it |
|---|---|---|---|
| **Page table** (`navigate.c` 108-365, `cleanup.c` 162-226, `init.c` 107-136) | `page_objects`: per page of `alloc_gran` bytes a lock, the mapping, `num_using`, `total_num_mappings`, `max_map_size` | `mt_navigateTo`, `mt_releasePages`, `freePageObject`, `initializePageObjects`, `destroyPageObjects` | sizes and use counts are tested without the lock and again with it; mappings are replaced and dropped while other threads read |
| **Chunked load** (`placeChunkedData.c`, `mtezq.c`) | `mt_data_queue`, `data_page_buckets`, `main_thread_ready` with its condition variable, one `InflateThreadObj` shared by the workers | `getChunkedData`, `fillNode`, `doInflate_`, `mt_mergeQueue`, `mt_dequeue` | threads created before the work exists, a wait for the main thread, a queue emptied by all, errors, several datasets in a row |
| **Copy of a chunk** (`placeChunkedData.c` 385-476, 609-623, `placeData.c` 97-152) | two positions, the coordinates in the chunk | the copy loop, `findArrayPosition`, `makeChunkedUpdates`, `placeData` | chunks cut by the array's edge, two strides, a loop that ends by index only |
| **Map cache** (`navigate.c` 4-105, `ezq.c`) | `map_objects`, a queue that keeps the nodes it has passed | `st_navigateTo`, `st_releasePages` | nested uses of one mapping, eviction of what is in use, a clean-up that removes nodes in mid-list |
| **Queues** (`ezq.c`, `mtezq.c`) | a doubly linked list with `abs_front`, `front`, `back` and a traversal cursor; `MTQueue` adds a lock | enqueue at either end, dequeue, peek, reset, restart, traverse, remove, flush, clean, merge | two lengths and three ends that must agree; no repair of `back`; a length read without the lock |
| **Object headers** (`readMessage.c`, `fillDataObjects.c` 242-607, `placeData.c` 8-95) | the fields of one `Data` | `interpretMessages`, the message readers, `collectMetaData`, `allocateSpace` | continuation blocks: message count and `repeat_tracker` across the recursion; a result that must not depend on the order of the messages |
| **Group trees** (`createDataObjects.c`) | the object tree, `object_queue` | `makeObjectTreeSkeleton`, `readTreeNode`, `readSnod`, `connectSubObject` | errors dropped on the way up; mappings released and taken again around the recursion |
| **Selection** (`fillDataObjects.c` 1-240, `utils.c`) | `varname_queue`, `top_level_objects`, `is_filled`, an object's place (`super_object`, `s_c_array_index`) | `fillVariable`, `fillObject` on references, `fillDataTree`, `checkTree`, `cloneData` | overlapping selections, objects that two cells or two results share |
| **Session and output** (`getmatvar_.c`, `getDataObjects.c`, `mexSet.c`, `init.c`, `cleanup.c`) | the globals | `mexFunction`, `readInput`, `getDataObjects`, `makeReturnStructure`, `endHooks`, `readMXError` | clean-up from the middle of anything; data that MATLAB frees or the session, never both |
| **Decompression** (`extlib/libdeflate/unix/lib`) | the bit buffer, three decode tables in shared memory, the output | `libdeflate_zlib_decompress`, `deflate_decompress`, `build_decode_table`, `libdeflate_adler32` | bits read ahead of use, subtables, copies longer than the match, sums reduced as late as possible |
| Numbers and system (`numberHelper.c`, `getSystemInfo.c`), the rest of `extlib/`, m-files, tests | none of their own | | not modelled, see section 7 |

How they interact: the session reads the arguments, opens the file, and runs the group
trees, the selection and the headers on the main thread, all of them reading the file
through the **map cache**.  For a chunked dataset the main thread enters the **chunked
load**: `fillNode` reads the chunk tree (through the map cache), announces every chunk in
the **page table** and puts it into its page's bucket; the buckets are merged into
`mt_data_queue`; the workers take chunks from it, read them through the page table,
**decompress** them, and **copy** them into the array.  The page table outlives a load
and is the next one's starting point.  The session then turns the selected objects into a
MATLAB structure, gives their data away and frees the rest; an error anywhere goes to
`readMXError`, which frees what the global pointers lead to.

What makes each of them correct:

- page table: what a thread was given stays mapped until it gives it back; counts are
  exact; the last release unmaps;
- chunked load: every chunk is copied once or the load fails; it ends; when it succeeds it
  leaves the page table clean and no thread behind; few pages are mapped at once;
- copy: each element to its place, none elsewhere;
- map cache: a use keeps its mapping; the cache is bounded and its queue consistent;
- queues: the nodes implement a sequence that keeps what it hands out; nothing is lost,
  handed out twice or read after it is freed, also when threads share a queue;
- headers: each message read once and none skipped, and the object is what they say;
- group trees: every symbol one object, under its group; mappings given back;
- selection and output: the structure returned is what the names mean in the file; two
  results never share memory MATLAB will free twice; a call fails only for a reason;
- session: whatever the point of failure, nothing is freed twice, and nothing is left but
  what a failed `fillNode` leaves (section 8);
- decompression: the output, and whether it is accepted, is what the format says.

## 2. Plan

The modules in the order in which they were written.

| | Modules | State |
|---|---|---|
| 1 | `PageTable`, proofs of its safety in `ChunkLoad_proofs` | done |
| 2 | `ChunkLoad`, on top of `PageTable`, which is the abstract specification of what it does to the page table (`PageSpec` as a property); `ChunkLoad_proofs` proves that refinement, the bound on mapped pages and what a load that returns 0 has done | done |
| 3 | `MapCache`, `MapCache_proofs` | done |
| 4 | `ChunkCopy`, proofs in `ChunkBytes_proofs` | done |
| 5 | `EzQueue`, the linked nodes of `ezq.c`, implementing `QueueSpec`, a sequence that keeps what it hands out (`EzQueue_proofs`); `MtQueue`, the locked queue of `mtezq.c`, with `MtQueue_proofs` | done |
| 6 | `ObjectData` and `HeaderMessages`: the readers of messages, and `fillObject` over continuation blocks; `HeaderMessages_proofs` | done |
| 7 | `GroupTree`: `readTreeNode`/`readSnod` with their mappings and errors; `GroupTree_proofs` | done |
| 8 | `Selection` on `GroupTree`; `MatFile`, what a file says without the program, as its reference | done |
| 9 | `Session` on `Selection`: whole calls, from the arguments to the structure, and `readMXError` from any point | done |
| 10 | `Inflate` on `DecodeTable` and `Adler32`; `DeflateFormat`, RFC 1951 without the program, as its reference; proofs about `Adler32` in `ChunkBytes_proofs` | done |
| 11 | `Induction`: induction and recursive functions for the proofs | done |
| 12 | Proofs about the order in which headers are read, in `HeaderMessages_proofs` | done |
| 13 | Proofs about the copy loop, in `ChunkBytes_proofs` | done |
| 14 | Proofs about what `fillObject` makes of the messages (`ObjectRight`), in `HeaderMessages_proofs` | done |
| 15 | Proofs about the types of `Inflate` (`InflateTypeOK`) | open |

The modules that are proved about have their parameters as constants with named
assumptions, one action per operation and no RECURSIVE operator.  `Selection`, `Session`
and `MatFile`, whose code recurses over trees of objects, declare RECURSIVE operators and
are for TLC alone.

## 3. The modules and the code

### PageTable

Variables are the fields of `pageObject` (functions of the page), the holder of each
page's lock, and for each thread its place in `mt_navigateTo` (`nav_pc`) with its locals
`start_page` (`nav_page`) and `map_bytes_needed` (`nav_need`).

A step is one shared access outside the lock, or a critical section.  The loop of the
unix build is `CheckSize` (the size test outside the lock), `ConfirmHit`/`ConfirmMiss`
(the same test inside), `CheckIdle` (the `num_using` test outside), and
`ClaimPage`/`ClaimLost` (the same inside).  A thread that claims a page keeps its lock
and goes through `DropStale` (`freePageObject`), `MapPage` and `UnlockPage`: these are
steps of their own because the other threads' unlocked tests can see what is between
them.  `ReleasePages` is `mt_releasePages`.  `num_using` is a `uint8_t` and is counted
modulo `NumUsingMod`.

`Register` is `fillNode`'s announcement of a chunk.  In the program it happens before any
thread navigates; here it may happen at any time, as the comment in `mt_navigateTo`
("already mapped, in use, wait for lock and threads using to finish to remap") means its
protocol to work then too.  `Navigate` and `DestroyPageObjects` carry what the callers
owe, as guards: a thread navigates only for a chunk registered and not yet released, and
the table is destroyed with no thread inside.  That the callers do so is what
`ChunkLoad` is checked, and proved, for.

### ChunkLoad

Extends `PageTable` with the main thread of `getChunkedData` (`main_pc`), the workers
(`worker_pc`), the buckets, the queue, the ready flag with mutex and condition variable,
and the shared `err`.  `FillNode` is the walk of `fillNode` over the nodes of the chunk
tree, up to a node of another type; `Met` is what it meets for the current dataset.
`StartLoad` (queues, `InflateThreadObj`, threads), `RecordChunk` (a chunk in `fillNode`),
`FillFails`, `MergeBucket`, `SetReady`, `Broadcast`, `Join`, `InflateReturns` (without
threads the main thread runs `doInflate_`: worker 1), `FreeLoad`, and `Close`
(`endHooks`) are the main thread's.  A worker goes through `AllocBuffer`,
`TestReady`/`CondWait` (with spurious wake-ups), `TestLength` (without the lock),
`Dequeue`/`DequeueNull`, the steps of `PageTable`, `Inflate` (writes `err`), `Release`,
`SwitchErr` (reads `err` again), `Fail` or `Place`, and `Finish` (writes `err`).

What may go wrong is in the initial state: nodes of another tree in the chunk tree, the
chunks libdeflate rejects (`corrupt`) and the kinds of failure (`faults`: no memory for a
worker's buffer, mmap).  A file below 1 MB is mapped as a whole (`is_super_mapped`), has
no threads, and does not use the page table.

The load is sequentially consistent here.  `map_size`, `num_using`, `length` and `err`
are plain C variables read outside the locks; formally that is a data race, and the model
gives each such access the value of some moment, which is what the build's aligned loads
and stores do.

### MapCache

`list` is the linked list from `abs_front`; `front` is an index into it, `back` the last
node enqueued, `length` the queue's own count.  `NavigateHit` and `NavigateMiss` are
`st_navigateTo`; the miss includes the enqueue, the eviction (`LetGo`) and the clean-up
pass (`Kept`, `KeptFront`, `KeptLength`: what `removeAtTraverseNode` leaves of list,
front and length).  Callers' uses are in `held` and are given back in any order.
`FreeCache` is the session's end.

### ChunkCopy

One worker and its chunks, in any order.  `TakeChunk` is the set-up for a chunk,
`CopyRun` one turn of the copy loop (`PlaceData`, then the carry over the dimensions and
the two jumps), `ChunkCopied` the loop's exit.  `written` collects what was copied where
and from which element of which chunk.  The reference (`Reference`) says where an element
is from its coordinates alone.  `index_t` is a `uint64_t`; its width is not modelled.

### EzQueue and QueueSpec

`EzQueue` has the fields of `Queue` and, for every node, `prev`, `next` and `data`;
`live` is the set of nodes allocated, and a node is allocated anywhere, so that a pointer
kept too long may meet a node of another life.  Every call of `ezq.h` is one action, for
one thread works on a queue; `LinkFirst`, `LinkLast` and `LinkFront` are the three ways
`enqueue` and `priorityEnqueue` link a node.  `walking` is the caller's loop around a
traversal.  `use` is fixed in the initial state and says which calls are made of the
queue.  The runs take the largest sets of calls that go together: all but `cleanQueue` and
removal, in which the calls of `utils.c`, `fillDataObjects.c`, `mexSet.c` and
`getmatvar_.c` lie; all but `cleanQueue` and `priorityEnqueue`, in which those of
`st_navigateTo` on `map_objects` lie; all but traversals and removal, for the rest of
`ezq.h`.  The sets left out (`QueueAssumption`) are not what the code supports: after
`cleanQueue` the cursor of a traversal may be a freed node and so may the `prev` of a first
node, which removal follows; a `length` that removal made drift is no longer the place at
which `priorityEnqueue` puts a node in.  Nothing in src/ calls `cleanQueue` or
`priorityEnqueue`.

What callers owe is in guards.  The node removed is never the last (`MapCache` shows that
of `st_navigateTo`, `QueueAnchored`).  A queue is not flushed inside a loop over it.  A
queue that `cleanQueue` has emptied is not reset: its `back` is a freed node.  No caller
resets or cleans at all.

`QueueSpec` is what is promised: `items`, of which the first `taken` are handed out.  The
mapping walks the chain for `items`; `taken` is `abs_length - length`.  It is not claimed
for queues nodes are removed from, whose `length` drifts (section 8).

### MtQueue

The same linked nodes (without a cursor, which `MTQueue` lacks), shared by the threads of
`getChunkedData` in its two uses: `mt_data_queue`, filled by `mt_mergeQueue` and emptied
by the workers, and the two queues every worker puts its buffer or decompressor in.
`mt_enqueue` and `mt_dequeue` are split at every write another thread could see:
allocation before the lock, links, `back`, the two counts; read, `front`, `length`.
`TestLength` is the loop test of `doInflate_`, without the lock.  `ChunkLoad` takes a
call of `mt_dequeue` as one step; `WholeWhenFree` and `TakenInOrder` are why it may.

### ObjectData and HeaderMessages

`ObjectData` has the readers of `readMessage.c` as functions from an object and a message
to an object or an error (`ReadDataSpace`, `ReadDataType`, ... `ReadAttribute`), and
`CollectMetaData` and `AllocateSpace` for what is done when all are read.  A message
holds what is stored: dimensions, types with their members, a layout class, a class name.
Bytes and the widths of fields are left out.

`HeaderMessages` is `fillObject` on one object.  `stack` holds the calls of
`interpretMessages`, a frame each with its `bytes_read`, `message_num` and
`repeat_tracker`; `switched` says whether the frame is before or behind its `switch`.
`OnceMessage`, `AttributeMessage`, `OtherMessage`, `BadContinuation` and `Continuation`
are the cases, `NextMessage` the end of a turn, `BlockRead` and `GiveUp` the two returns,
and `ReturnTo` what a caller does on the way back, which maps its block again.  `held`
are the mappings in use.  `FillRest` is what `fillObject` does with what was read.

### GroupTree

The calls of `readTreeNode` and `readSnod` are the frames of `frames`; `ret` is what the
call that just returned returned, and the steps `BackIn...` are what its caller does with
it.  `held` are the two mappings `readSnod` keeps over its symbols and gives back around
the recursion; `objs` is `object_queue`, each object with its `super_object` and
`sub_objects`.  Errors are a node without keys and a symbolic link.  `ignored` records
that `readSnod` dropped the result of `readTreeNode` (`createDataObjects.c:75`).

### Selection and MatFile

`Selection` continues with the same `objs`.  `FillObject`, `FillDataTree`, `CloneData`
and `CheckTree` are functions of the heap of objects; `TakeElement` is a turn of the loop
over the references of a cell or of a struct array's field, which moves the object
referred to, or a clone of it, below the cell.  `LookUpName` and `LookUpElement` look up
one token of a name each, `Result` is the end of `fillVariable`.  The content of an
address is abstracted to its class, references, dimensions, whether it is empty and
whether its data can be read; how a header yields that is `HeaderMessages`.

`MatFile` is the reference: the value of a variable as a set of slots, the address a name
means, what a name reaches, all read from the file by definition and not by the walk,
the renaming and the cloning of the program.

### Session

A whole call.  `ReadFilename`, `ReadOption`, `ReadThreads`, `ReadName`, `BadInput` are
`readInput` argument by argument; `NoFile`, `WrongFile`, `Open` lead to the superblock;
`ReadTrees` takes the steps of `GroupTree`; `FillEveryVariable`, `MakeVarnameQueue`,
`LookUpToken`, `FillVariable` those of `Selection`; `CloseFile` and `NameResults` are the
rest of `getDataObjects`; `MakeReturnStructure` fills the slots of the MATLAB structure
(`mx`) with `MakeSubstructure` and frees `object_queue`; `ReadMXError` and `Clear` are
the two calls of `endHooks` after an error.

`allocated` is what there is, `pointers` the globals that are not NULL: the code frees by
the one, what must be freed is the other.  `given` counts how often an object's data went
into an mxArray, `freed` are the objects whose data the session freed.

`AfterFill` is what a load leaves.  One that ends leaves at most the page table, also when
a chunk was rejected.  If an object is unreadable, two more ends are possible.  In
`MappingFails` mmap fails in `doInflate_` without threads, and the three queues of the
load are there with their pointers.  In `FillNodeFails` `getChunkedData` returns before
the merge and the join: besides those queues the array `data_page_buckets` has a pointer,
but not what is in it (`buckets`: the queues, their nodes, the DataPairs and their
`chunk_start`) nor the local `chunk_threads` with the workers that are not joined, which
are there only if threads may be used.  `EndHooks` frees by the pointers alone, of
`data_page_buckets` the array.  Which of these ends a load takes is chosen freely.

### Inflate, DecodeTable, Adler32 and DeflateFormat

`Inflate` is `libdeflate_zlib_decompress`: `ZlibHeader`, the four kinds of blocks,
`ExpandLens` (one symbol of the precode), `BuildTables`, `Literal`, `Match`,
`EndOfBlock`, `Checksum`.  The bit buffer is the sequence of its bits, with
`FillBitsWordwise` or-ing in a whole word, the uncounted bits of which will be read
again, `FillBitsBytewise` near the end with `overrun_count`, and `AlignInput` in front of
a stored block.  What lies in one union is overwritten where the code overwrites it
(`Scribbled`).  `CopyMatch` writes by words where the code does.

`DecodeTable` is `build_decode_table`: the counting sort, the entries of the main table,
the subtables with the size guessed for them.  `Adler32` sums byte by byte, reduces after
a chunk, and has the head, chunks and rest of the vector versions; with an alignment and
an iteration of 1 it is the generic version.

All sizes of the format are parameters (`Deflate`, `TableBits`, `WordSizes`, the numbers
of Adler-32).  `DeflateFormat` says what a stream means, a bit at a time from RFC 1951,
and is not code of the program.

## 4. Runs

| Run | What it shows | Bounds, and why they are enough |
|---|---|---|
| `page_table` (352 866 states) | `InUseMapped`, `UsersCounted`, `MapperAlone`, `MappedIsPending` under every interleaving | 3 threads: one remaps, one has passed an unlocked test, one comes or goes. 2 extents: a mapping that must be replaced. 2 pages: effects across pages. At most 3 registered chunks of a page, one per thread. Threads are symmetric. All of it is proved for any number (section 6). |
| `chunk_load` (296 266) | the load's books (`TakenOnce`, `MappingsAccounted`), what it leaves (`CleanReturn`), its result (`ResultExact`), its memory (`MappedPagesBounded`), its end (`LoadTerminates`), and that its steps are steps of the page table (`PageSpec`) | 2 workers; 5 chunks on 3 pages in a tree order the buckets change, so that more pages than threads could be mapped; trees of two levels, one with a node of a group's tree in the middle; a second dataset that meets the table the first one left; any subset of 3 chunks corrupt; every kind of failure. |
| `lost_error` | a load with one corrupt chunk returns 0 (**violation**) | 2 workers, 3 chunks on 2 pages, only corruption |
| `map_cache` (765 958) | `HeldStaysMapped`, `UsesCounted`, `QueueAnchored`, `CacheBounded` | a cache of 2 with a clean-up beyond 4 nodes (the code: 10 and 40), 3 uses at once, a file of 5 bytes in pages of 2; requests within a page, across pages and past the end of the file. |
| `chunk_copy` (11 407) | `RunsInPlace`, `CopyExact` | all arrays and chunks of two dimensions up to 3 x 3, and arrays of 1, 3 and 4 dimensions with chunks cut in the first, a middle, the last or several dimensions, of extent 1, spanning the array, larger than it. |
| `queue` (68 465) | `QueueSound`, `WalkCounted`, `RemovalSafe`, and `EzQueue` implements `QueueSpec` (`ImplementsSequence`) | 4 nodes and 2 data: a node before and behind front, one in the middle, one to put in; every order of the calls of each of the three uses (section 3), without a bound on their number. Nodes are symmetric. |
| `mt_queue` (3 907) | `WholeWhenFree`, `TakenInOrder`, `NoneLeftBehind`, `BooksClosed`, and `QueueFreed` under fairness | 3 threads: one inside, one waiting, one testing the length; 4 chunks in 3 buckets, one of them empty, so that threads come back for more and run out at different moments. |
| `header_messages` (414 426) | `OneMapping`, `EveryMessageRead`, `ReadOnceInBlock`, `ObjectRight` | all headers of three blocks with up to 2, 2 and 1 messages of six sorts, counts one too small or too large, continuations to any block, their own included; and headers of up to 9 messages in three orders over three blocks, for every combination of 3 spaces, 4 types, 3 layouts, 6 sets of attributes and 3 parents; and repeated messages, groups, and types and members of compounds of another version. |
| `header_errors` | an object with an unreadable header is filled without error (**violation**) | the same headers |
| `session` (74 851) | `MappingsBalanced`, `TreeComplete`, `ResultsRight`, `ErrorsJustified`, `EachDataOnce`, `LeftByFillNodeOnly` | six files of up to 14 nodes, with every kind of object the code distinguishes: cells that share elements, repeat them or leave them empty, structs, a struct array whose fields hold a struct, a number and an empty object, sparse arrays in three places, an object, damaged trees, data that cannot be read, a superblock further back; four files that are not opened. On each all lists of up to 2 or 3 of the names it is interesting for, and on one all lists of up to 3 of twelve options, good and bad. Two names are enough for one result in another, three for a clone of a clone. |
| `shared_selection` | a part asked for before its variable is given away twice (**violation**) | the same files and arguments |
| `inflate` (24 356) | `InflateTypeOK`, `TablesRight`, `InflateExact`, `SumsFit` | a DEFLATE with 3 literals, 3 lengths, 4 distances and codewords of up to 4 bits over tables of 2: the smallest with subtables of two sizes, repeat symbols that are cut at the end, lengths and distances with extra bits. Streams of up to three blocks of every kind, every code of 4 symbols with lengths up to 4, words of 2 and 8 bytes, every stream cut by 1, 2 and 4 bytes and with an output buffer that is exact, too small and too large. |

`chunk_copy` does not check deadlock: when the queue is empty, the worker stops.
In `chunk_load` the end of the process is a step (`Ended`), so that a deadlock would
show; the one state that waits for ever on purpose, the workers left by a failed
`fillNode`, is followed by `Close`.  In the other runs what has ended stays as it is, by a
step of its own (`Ended`, `Filled`, `Returned`).

Five properties of `session` have conditions.  `ResultsRight` and `EachDataOnce` do not
speak of calls that ask for a part before its variable (`PartsLast`): what then happens is
`shared_selection`.  `ResultsRight` and `ErrorsJustified` leave out names that look into a
cell whose elements another cell shares, or which has one of them twice (`LooksUpShared`),
where the code's bookkeeping is stale (section 8).  `ResultsRight` leaves out, and
`ErrorsJustified` allows for, a tree with a subtree that could not be read (`ignored`).
`TreeComplete` says what is in the tree then.  `LeftByFillNodeOnly` names the two things
that a failed `fillNode` leaves (`Unreachable`) and says that they are there only after a
call that failed over an unreadable object; of everything else it says that pointers and
allocations agree at every step and that none is left at the end.

Every property of a passing run has a mutant in `PROJECT.json`: a definition next to the
original, commented `mutant:`, with a plausible mistake that breaks the property.

## 5. Fairness

`FairLoadSpec` is weak fairness of the main thread and of every worker: a thread that can
take a step is eventually run, which is what an operating system's scheduler gives.
Nothing is assumed about spurious wake-ups (they may happen or not: only the broadcast is
owed) nor about which failure happens.  Weak fairness is enough for the locks because
each is held for a bounded number of steps and those who wait are finite in number: after
`main_thread_ready` is set nobody sleeps again, and a page's lock is asked for again only
after the page has changed.

`MtFairSpec` is the same for the threads on a queue.

The other modules are of one thread, whose loops end when their input does; that they end
is a matter of their data and not stated.

## 6. Proofs

Each of the modules named below proves its theorems for every value of the constants that
its assumptions allow; TLC checks the assumptions on the instances of the runs.

`Induction` holds what the other proof modules share: induction over the naturals for a
property given as a set (the library's theorem takes an operator, which the provers cannot
instantiate), that a function defined by recursion along a walk exists, and what
`FlattenSeq` computes: where in the whole each part lies (`FlattenPlaces`).  With it the
recursive functions of `MapCache`, `MtQueue`, `EzQueue`, `ChunkLoad`, `ChunkCopy` and
`HeaderMessages` can be reasoned about for all inputs.

### The page table (`ChunkLoad_proofs`)

For any finite set of threads with fewer than `NumUsingMod` members, any set of pages and
any extents (`ThreadsAssumption`, `SizesAssumption`): `PageTypeInvariance`,
`InUseStaysMapped`, `UsersAreCounted`, `MapperIsAlone`, `MappedStaysPending`.

All of them follow from one inductive invariant, `PageInv` (`PageInvariance`).  None of
the properties is inductive alone.  That a mapping survives (`InUseMapped`) needs the
count to be exact, for 0 to mean that nobody reads (`ClaimPage`), and needs the last
release to be the last thread's: `VisitorsPending`, every thread inside a page stands for
a registered chunk still to be released, so that `total_num_mappings` reaching 0 leaves
nobody inside (`ReleasePagesKeeps`).  The count is exact because joins and leaves happen
under the lock, and because threads are fewer than 256 (`JoinCount`, `LeaveCount`: the
`%` is where this is used).  `MapperAlone` makes the four-step remapping invisible:
whoever holds the lock across steps is the only user.  `SizesAgree` is what the code
relies on when it tests `map_size` only: no mapping, size 0, and nobody asks for 0 bytes.
`BuiltMapped` carries the new mapping over the unlock.

### The load (`ChunkLoad_proofs`)

For any number of threads, pages and datasets and any trees in which no two ways lead to
one chunk (`ChunksAssumption`, `TreesAssumption`):

- `LoadImplementsPageTable`: `LoadSpec => PageSpec`.  `PageTable`'s variables are the
  load's own, so the mapping is the identity; what has to be shown is that the load meets
  the guards that `PageTable` puts on its callers;
- `WorkersReadMapped`: through that refinement, `InUseMapped` of the load;
- `ChunksTakenOnce`, `MappingsAreAccounted`, `ReturnsClean`: `TakenOnce`,
  `MappingsAccounted`, `CleanReturn`;
- `FewPagesMapped`: `MappedPagesBounded`;
- `ResultIsExact`: `ResultExact`.

The inductive invariant is `LoadInv` (`LoadInvariance`): `PageInv`, types, and

- `Hands`: what a worker's place says of its chunk and of its place in the page table;
- `Phases`: what the main thread's place says of the workers, the buckets and the queue.
  `ReturnsClean` rests on its conjunct about `Over`: workers stop with chunks left only
  after one has set `err`, so that a load which returns 0 has emptied the queue, even when
  an error was lost;
- `Books`: `TakenOnce`, `MappingsAccounted`, and where chunks are before they are taken.

Two steps of the refinement are not obvious.  A worker that enters a page must stand for
a chunk still counted (`DequeueNavigates`): the threads inside map one-to-one to chunks
not yet released, of which the one just taken from the queue is another, so they are
fewer than `total_num_mappings`.  And when `endHooks` destroys the table nobody is inside
(`CloseDestroys`): the workers of a finished load are joined, and those of a load whose
walk failed have not begun.

The bound on mapped pages needs an invariant of its own, `InOrder`: the pages of the
queue climb; no mapped or held page lies behind a queued chunk's; and a mapped page with
queued chunks is held by a worker, or some worker holds none.  A mapped page then is that
of a worker's chunk or, for one page at most, that of the first chunk in the queue, with
a worker to spare (`OrderBounds`).

The result of a load (`ResultIsExact`) has two halves.  The first is about `FillNode`
alone: the depth-first walk finds exactly the chunks that can be reached from the root
(`ChunksOf`, defined by rounds of "and the children of these"), or meets a node of another
kind of tree, and meets none if there is none (`WalkFinds`).  Both are recursive
functions; `LevelsAgree` compares them round by round.  The second is `Complete`, an
invariant on top of `LoadInv`:

- `NoneLost`: every recorded chunk waits, is worked on or is placed, unless a failure is
  certain to be returned (one thread) or possible (several);
- `Walked`: a walk that is over has recorded all it met;
- `Honest`: without threads, `err` is the result of the worker's own chunk from `Inflate`
  to `SwitchErr`, the interval in which threads lose errors;
- `Untroubled`: with a sound file and no failing call, `err` and `ret` stay 0.

### The map cache (`MapCache_proofs`)

For any file, page size, set of requests, cache size and number of uses held at once:
`HeldMappingsStay`, `MappingUsesCounted`, `MapQueueAnchored`, `MapCacheBounded`
(`HeldStaysMapped`, `UsesCounted`, `QueueAnchored`, `CacheBounded`).

The invariant `CacheInv` adds to the first two that the list holds a mapObject once
(`ListedOnce`), and how the list's length, front and `length` belong together
(`LengthTells`): until the cache is full nothing was dequeued or cleaned up, and
afterwards `length` is at its limit or covers the list.  That the clean-up pass keeps the
last node (`KeptFront`) rests on that node's being in use when it runs.  The pass itself is a
recursive function; `KeptWell` says what it has kept after each node.

### The queue on its nodes (`EzQueue_proofs`)

For any number of nodes, any data and all uses that `QueueAssumption` allows:
`QueueAlwaysSound`, `TraversalsCounted`, `RemovalsSafe` (`QueueSound`, `WalkCounted`,
`RemovalSafe`), and `QueueRefinesSequence`: `QueueSpecification => ImplementsSequence`, the
linked nodes implement `QueueSpec`.

The invariant `EzInv` (`EzInvariant`) says that there is an order `c` of the allocated nodes for which

- `Lists`: `c` has every allocated node once, and `abs_length` of them;
- `LinkedAs`: they are linked in this order both ways, between `abs_front` and `back`;
- `FrontAt`: `front` is the node at which the last `length` ones begin; with nothing left
  it is NULL or, after `resetQueue`, the last node;
- `WalkAt`: a traversal stands on a node behind which there are as many as it counts.

`QueueSound` is not inductive: it lets `front` be any node of the chain, and a `dequeue`
that moves `front` along while `length` falls says nothing of the two meeting at the end.
`FrontAt` is what makes them meet, and what the mapping's `taken = abs_length - length`
means.  It is claimed only of queues without removal, whose `length` drifts; there
`front` stays on the chain because the last node is never removed.

`Chain`, which walks `next` recursively, is `c` (`ChainIs`).  The three ways of linking a
node are one, putting it at a place of `c` (`LinkedIn`, `PutSafe`, and `InsertedAt` for
the sequence); `FrontMoves` says where `front` may go then.

### The queue under its lock (`MtQueue_proofs`)

For any number of threads above 0 (`placeChunkedData.c:61` sees to it) and any buckets:
`QueueWhole`, `PairsTakenInOrder`, `NothingLeftToTake`, `QueueBooksClosed`
(`WholeWhenFree`, `TakenInOrder`, `NoneLeftBehind`, `BooksClosed`).

The invariant `MtInv` follows the lock holder from write to write: `QueueIs` says of the
links, `front`, `back` and the counts what they are at each place inside `mt_enqueue`,
`mt_dequeue` and `mt_mergeQueue`, so that it becomes `WholeWhenFree` at the unlock.
`Owned` keeps nodes apart that threads have allocated and not yet linked.
`TakenSoFar` and `Counts` tie what was handed out to `length`, which is why a thread that
reads 0 without the lock can go: `length` is 0 only when everything was handed out.

### The walk over a header (`HeaderMessages_proofs`)

For all headers, any blocks, messages, continuations and counts (`HeaderAssumption`):

- `OneMappingInvariant` (`OneMapping`): `interpretMessages` holds one mapping at a time
  and gives back what it takes.  The invariant `WalkInv` adds the types of the stack, and
  that there is a frame exactly as long as messages are read;
- `ReadOnceInBlockInvariant` (`ReadOnceInBlock`) and `EveryMessageReadInvariant`
  (`EveryMessageRead`), from `WalkInv /\ PlaceInv`;
- `ObjectRightInvariant` (`ObjectRight`), from these and `ObjInv`.

`ReadOnceInBlock` and `EveryMessageRead` say nothing of the calls that are open, and so
neither is inductive.
`PlaceInv` compares each call with `Order`, the messages as the header has them, if
no block is gone to twice:

- `Order` is unfolded level by level (`OrderIs`, `WalkIs`); `Upto` and `Counts` say
  where the messages of one block, and behind each continuation those of the next, lie in
  it (`FlattenPlaces`);
- `Spans`: every open call has a stretch of `Order`, that of the call above it inside that
  of its continuation.  `Reached` is how far the innermost has come;
- open calls are of different blocks (`BlocksApart`), and so there are at most as many as
  blocks (`FewCalls`): `Order` is cut at that depth, and the walk never gets there;
- `Tracked`: what a call's `repeat_tracker` contains, for `ReadOnceInBlock`: everything of
  its own block that was read, although what is read in a continuation is forgotten on the
  way back;
- `Counted`: in a well-formed header `message_num` of the innermost call is what `Order`
  has left, as long as nothing is rejected, so that the loop's two conditions end no call
  early and the last one with the last message.  It is at most `num_msgs`, which is below
  `NumMsgsMod`, so the 16 bits never wrap.

The steps are lemmas about a turn of the loop (`DealGoes`), a continuation (`CallGoes`,
`CallMade`) and a return (`ReturnGoes`, `ReturnMade`).

`ObjectRight` is about the end only, when the order in which messages were read does not
show any more.  `ObjInv` says what the object is on the way: `Made`, from the messages
seen so far of each kind (`Seen`), field by field.

- Each reader keeps `Made` (`SpaceReads`, `TypeReads`, `LayoutReads`, `PipelineReads`,
  `AttributeReads`) if its message is `Fresh`: the first of a kind read once, a dataspace
  before any layout, one message that names the class.  `PartsKept` is what it does not
  touch.  `TypesMade` follows the types of a compound, read into one object: the size is
  the first's, the type the last's.
- The next message of the walk is `Fresh` (`FreshNext`), because `PlaceInv` says that what
  was read lies in front of it in `Order`, and `WellFormed` and `Ordered` speak of `Order`.
- When the walk has ended everything was seen (`AllSeen`, from the invariant of
  `EveryMessageRead`): a field no message set is as `initializeObject` left it because
  the header has no such message.
- `CollectMakes` and `SpaceMakes` are what `collectMetaData` and `allocateSpace` make of
  it, with the class of the object above.

The conditions of `Ordered` are how HDF5 and MATLAB write headers: a chunked layout comes
behind its dataspace, `MATLAB_class` and a hint do not come together, a sparse array is
a group and so has neither dataspace nor type, and a type has a size.  Without them the
code makes something else (the jumps of dims it has not read; the size of a compound's
member).

### The copy of a chunk (`ChunkBytes_proofs`)

For all arrays and chunks with at least one dimension and no dimension 0
(`CopyAssumption`), of any number of dimensions, the chunks as large or as small as they
like: `RunsInPlaceInvariant` (`RunsInPlace`) and `CopyExactInvariant` (`CopyExact`), from
`CopyInv`.  Neither says where an unfinished loop is; `CopyInv` does, in two parts:

- `RunIs`: `chunk_pos` is a place in the (cut) chunk, and `index` and `db_pos` are what
  it leads to in the array and in the buffer, although the code never computes them from
  it but adds up jumps;
- what is copied is in place, and everything in front of `chunk_pos`, in the order in
  which the loop goes (`Before`), is copied, as is every chunk that was taken earlier.

The steps of the argument:

- `Way` is what `findArrayPosition` and `makeChunkedUpdates` sum up; `WayWithin` is the
  property of column-major order that the rest depends on: coordinates within the
  lengths lead to less than the size;
- `CarriedSteps`: the carry over the dimensions is an increment of `chunk_pos`, and
  `use_update` the number of dimensions that are complete (`Stepped`).  `curr_max_dim`,
  at least 2 and, while the chunk is not done, at most `num_dims` (or `num_dims` is 1),
  keeps the loop from reading a dimension there is not;
- `JumpLeads`: the jump at `use_update` leads from the end of the run to the beginning of
  the next in any array that holds the chunk.  A chunk that is not cut fills its buffer
  and jumps by 0 there, which is the same (`WayOfLast`);
- `IndexEnds`: while there is a run left, `index` is an element of the array, and after
  the last one the jump has led it past the array, for every chunk: the loop, whose count
  of elements is never counted up, ends, and not early;
- `BeforeNext`, `InThisRun`: what is in front of the next run is what was in front of
  this one and this run itself.

### One thread

- `GroupTree_proofs`, `MappingsBalancedInvariant` (`MappingsBalanced`): for all trees, as
  long as no call fails, only what the innermost `readSnod` reads is mapped, and in the
  end nothing; a failing call leaves its mappings in use.  The
  invariant `TreeInv` adds that of all frames only the innermost may be amid its symbols,
  and that no call returns to one that is: the mappings held are the innermost frame's.
- `ChunkBytes_proofs`, `SumsFitInvariant` (`SumsFit`): the 32-bit sums do not wrap before
  they are reduced, the counters of the vector versions included.  `AdlerAssumption` is
  what `MAX_BYTES_PER_CHUNK` must satisfy, and the code's numbers do:
  2 · 65520 · 5553 + 255 · 5552 · 5553 <= 2 · (2^32 - 1).  The invariant `Bounded` bounds
  both sums by the bytes added since the last reduction.

### What is only model-checked

- All liveness: the prover does neither fairness nor ENABLED.
- `ErrorsReported`, which the code violates (section 8).
- `TablesRight` and `InflateExact` speak of the code tables, which a sort and several
  nested loops fill; `InflateTypeOK` needs that every index a code can have is in a table
  that was filled (Kraft's equality for the subtables) and is not proved.
- `Selection`, `Session`, `MatFile`: their operators are RECURSIVE.  `TreeComplete` is
  theirs.

## 7. What is not modelled

- *Page table and load.*  The Windows variants: the page protocol is the same with
  critical sections, the workers' results are not (each has an exit code of its own).
  What other workers do while one of them runs `endHooks` after a failed mmap (the model
  ends at that step).  pthread_create's result, which the code ignores
  (`placeChunkedData.c:89`), and failures of munmap.  What becomes of the workers a failed
  `fillNode` leaves waiting (section 8).  The mappings `fillNode` takes of the
  nodes, which are `MapCache`'s, are not repeated in `ChunkLoad`.
- *Copy.*  The byte reversal of `placeData` (section 8); the width of `index_t`; chunks
  that lie outside the array.
- *Queues.*  `mergeQueue`, and of `mtezq.c` what nothing calls: `mt_priorityEnqueue`,
  `mt_resetQueue`, `mt_restartQueue`, `mt_peekQueue`, `mt_cleanQueue`, `mt_mergeMTQueue`,
  `mt_convertQueue`.
- *Headers and trees.*  Bytes and widths of fields; long names; trees with circles, which
  MATLAB does not write and on which the walk does not end.
- *Selection.*  The text `makeVarnameQueue` parses, numbers in it that overflow; names
  that begin with an index (`fillDataObjects.c:63` then reads the virtual object's own
  header); coordinates beyond the dimensions, which alias other elements;
  `placeDataWithIndexMap`; the flag `is_reference`.
- *Session and output.*  MATLAB's own memory for strings of `readInput`, the check of
  nlhs, `mxSetField` beyond the elements of a cloned struct array, `rearrangeImaginaryData`,
  the empty cells and structs that are returned as [], `mxRealloc`'s result, which
  `mexSet.c:245` drops.
- *Decompression.*  The sizes of the real format's tables (`ENOUGH`), which are larger
  than TLC can enumerate; libdeflate's compressor, gzip, crc32 and programs, which
  getmatvar does not call; that `Inflate` ends.
- `numberHelper.c`, `getSystemInfo.c` (conversions and queries without state),
  mman-win32, m-files and tests.

## 8. Where code and text disagree

With a run that shows it:

- **Lost errors** (`lost_error`, `placeChunkedData.c:317`).  The workers share
  `thread_obj->err`: between libdeflate's return and the `switch`, or after a failing
  worker set it, another worker overwrites it.  A load with a corrupt chunk can return 0,
  having copied garbage or left out the chunk.  `ResultExact` shows that one thread never
  loses an error, and that without bad chunks the sharing is harmless.
- **Unreadable headers** (`header_errors`, `fillDataObjects.c:254`).  `fillObject` drops
  the result of `collectMetaData`.  If a class was read before the message that was
  rejected, the object counts as one without data and is returned as allocated.
- **Shared selection** (`shared_selection`, `fillDataObjects.c:197`).  A part of a
  variable asked for before the variable is not cloned: both results get the same data.
  Of a sparse array, `ir` or `jc` asked for first is given away and then marked as not
  (`mexSet.c:128`, `:139`), so that the session frees what MATLAB has.

Met while modelling, without a run:

- Two cells that share an element share its `s_c_array_index` too; an index looked up in
  the cell filled first may be the other's.  A struct that a cell has twice is cloned,
  and a name that looks into the clone before the original is filled finds nothing.  A
  clone keeps the `super_object` of the original until it is moved.
- `readSnod` drops what `readTreeNode` returns (`createDataObjects.c:75`): a subtree that
  cannot be read is missing from the result, without an error.
- After a clean-up past a mapping still in use the length of `map_objects` is too large
  (`ezq.c:371` lowers it only when a shorter list forces it to), and the cache holds fewer
  mappings than configured from then on.  Memory safety is not affected.
- The loop that reverses bytes (`placeData.c:103`) mixes bytes and elements and always
  starts at the beginning of the buffer.  MATLAB writes the byte order of x86.
- When `fillNode` fails, `getChunkedData` returns at `placeChunkedData.c:121-126`, before
  the merge, the join and the clean-up.  `endHooks` (`cleanup.c:273-277`) then frees the
  array `data_page_buckets`, but not the queues in it (made at :108-117), their nodes, nor
  the DataPairs and `chunk_start` that `fillNode` put there (:554, :565): these are
  malloc'ed and are lost for as long as MATLAB runs.  The local `chunk_threads` (:78) has
  no other pointer either; in the MEX build MATLAB takes back what came from mxMalloc, in
  the standalone build the process exits.  The workers are not joined: they wait on
  `thread_sync` with a pointer to the `InflateThreadObj` of a function that has returned
  and to a queue that `endHooks` frees, and `main_thread_ready` and the condition
  variable are globals that the next load initialises again.  The uses `fillNode` took of
  the map cache do no harm, since `endHooks` frees that whole.  The states are in
  `session` (`FillNodeFails`), and `LeftByFillNodeOnly` says that nothing else is left;
  no text of the repository promises that nothing is, so there is no run that fails.
- A reference of unknown class in a struct is taken for the field of a struct array.
- In libdeflate: `ALIGN_INPUT` does not reset `overrun_count`, harmlessly; a truncated
  stream is accepted if the zeros read in place of its end give the same output and
  checksum; of a code with a single codeword of one bit, the other bit decodes to the same
  symbol.

The limit of 256 threads is an assumption, not a finding: `-t` takes any number, and
nothing in the code or its documentation says how many there may be.
