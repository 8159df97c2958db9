------------------------------ MODULE ChunkCopy ------------------------------
(***************************************************************************)
(* How a worker puts an inflated chunk where it belongs in the array: the  *)
(* copy loop of doInflate_ (src/placeChunkedData.c) and placeData          *)
(* (src/placeData.c).  Arrays are column major; a chunk's first dimension  *)
(* is contiguous in both, so that a turn of the loop copies one run.       *)
(*                                                                         *)
(* Dimension j of the code is j + 1 here.  A chunk at the array's edge is  *)
(* cut; its buffer is not, so that both indices skip.  Every worker writes *)
(* its own chunks with buffers of its own: one worker shows them all.      *)
(***************************************************************************)
EXTENDS Integers, SequencesExt

CONSTANTS
    Layouts         \* pairs [dims |-> ..., chunked_dims |-> ...]

ASSUME CopyAssumption ==
    \A l \in Layouts : /\ DOMAIN l = {"dims", "chunked_dims"}
                          /\ l.dims \in Seq(Nat \ {0}) /\ l.dims # <<>>
                          /\ l.chunked_dims \in Seq(Nat \ {0})
                          /\ Len(l.chunked_dims) = Len(l.dims)

NoChunk == <<>>

VARIABLES
    layout,         \* object->dims and chunked_info.chunked_dims
    todo,           \* the chunk_starts still in the queue
    chunk_start,    \* the chunk being copied, or NoChunk
    index, db_pos,  \* where the next run goes, and where it is in the buffer
    chunk_pos,      \* the run's coordinates in the chunk
    curr_max_dim,
    written         \* the elements copied: where to, of which chunk, from where

copyVars == <<layout, todo, chunk_start, index, db_pos, chunk_pos, curr_max_dim,
              written>>

-----------------------------------------------------------------------------
dims         == layout.dims
chunked_dims == layout.chunked_dims
num_dims     == Len(dims)
Dims         == 1 .. num_dims

(* [i]: the elements of the first i dimensions *)
Sizes(d) ==
    LET size[i \in 0 .. Len(d)] == IF i = 0 THEN 1 ELSE size[i - 1] * d[i]
    IN  size
NumElems(d) == Sizes(d)[Len(d)]

(* [i]: how far the first i coordinates lead *)
Reach(x, d) ==
    LET reach[i \in 0 .. Len(d)] == IF i = 0 THEN 0 ELSE reach[i - 1] + x[i] * Sizes(d)[i - 1]
    IN  reach

FindArrayPosition(coordinates, d) == Reach(coordinates, d)[Len(d)]

(* [i]: how far to jump from the end of the run that completes i dimensions *)
MakeChunkedUpdates(c, d) ==
    [i \in 1 .. Len(d) |-> Sizes(d)[i] - Reach([k \in 1 .. Len(d) |-> c[k] - 1], d)[i] - 1]

(* where fillNode finds chunks: the multiples of the chunk's dimensions *)
Coordinates(d) == {x \in [1 .. Len(d) -> UNION {0 .. n - 1 : n \in ToSet(d)}] :
                      \A j \in 1 .. Len(d) : x[j] < d[j]}
ChunkStarts(l) == {x \in Coordinates(l.dims) :
                      \A j \in 1 .. Len(l.dims) : x[j] % l.chunked_dims[j] = 0}

TheseChunkedDims ==
    [j \in Dims |-> Min({chunked_dims[j], dims[j] - chunk_start[j]})]
Cut == TheseChunkedDims # chunked_dims

(* mutant: the jumps of a whole chunk, for a cut one too *)
TheseIndexUpdatesUncut == MakeChunkedUpdates(chunked_dims, dims)

TheseIndexUpdates ==
    MakeChunkedUpdates(IF Cut THEN TheseChunkedDims ELSE chunked_dims, dims)
TheseChunkedUpdates ==
    IF Cut THEN MakeChunkedUpdates(TheseChunkedDims, chunked_dims) ELSE [j \in Dims |-> 0]

Run == TheseChunkedDims[1]

-----------------------------------------------------------------------------
CopyInit ==
    /\ layout \in Layouts
    /\ todo = ChunkStarts(layout)
    /\ chunk_start = NoChunk
    /\ index = 0 /\ db_pos = 0
    /\ chunk_pos = [j \in 1 .. num_dims + 1 |-> 0]
    /\ curr_max_dim = 2
    /\ written = {}

(* a chunk is dequeued and inflated into the worker's buffer *)
TakeChunk(s) ==
    /\ chunk_start = NoChunk
    /\ todo' = todo \ {s}
    /\ chunk_start' = s
    /\ index' = FindArrayPosition(s, dims)
    /\ db_pos' = 0
    /\ chunk_pos' = [j \in 1 .. num_dims + 1 |-> 0]
    /\ curr_max_dim' = 2
    /\ UNCHANGED <<layout, written>>

(* placeData of a run; its byte order loop is left out *)
PlaceData(dst, src, run) ==
    written' = written \cup
        {[dst |-> dst + i, chunk |-> chunk_start, src |-> src + i] : i \in 0 .. run - 1}

(* one turn of the loop over the dimensions above the first *)
Carry(s, j) ==
    IF j <= s.max /\ s.pos[j] = (IF j \in Dims THEN TheseChunkedDims[j] ELSE 0)
    THEN [pos |-> [s.pos EXCEPT ![j] = 0, ![j + 1] = @ + 1],
          max |-> IF s.max <= j THEN s.max + 1 ELSE s.max,
          use_update |-> s.use_update + 1]
    ELSE s

Carried ==
    LET carry[j \in 1 .. num_dims + 1] ==
            IF j = 1
            THEN [pos |-> [chunk_pos EXCEPT ![2] = @ + 1], max |-> curr_max_dim, use_update |-> 0]
            ELSE Carry(carry[j - 1], j)
    IN  carry[num_dims + 1]

(* One turn of the copy loop.  num_used is never counted up, so only index *)
(* ends it.                                                                *)
CopyRun ==
    /\ chunk_start # NoChunk
    /\ index < NumElems(dims)
    /\ PlaceData(index, db_pos, Run)
    /\ LET c == Carried
       IN  /\ chunk_pos' = c.pos
           /\ curr_max_dim' = c.max
           /\ index' = index + Run + TheseIndexUpdates[c.use_update + 1]
           /\ db_pos' = db_pos + Run + TheseChunkedUpdates[c.use_update + 1]
    /\ UNCHANGED <<layout, todo, chunk_start>>

(* mutant: stops when the array's last run would end it *)
ChunkCopiedBeforeLastRun ==
    /\ chunk_start # NoChunk
    /\ index + Run >= NumElems(dims)
    /\ chunk_start' = NoChunk
    /\ UNCHANGED <<layout, todo, index, db_pos, chunk_pos, curr_max_dim, written>>

ChunkCopied ==
    /\ chunk_start # NoChunk
    /\ index >= NumElems(dims)
    /\ chunk_start' = NoChunk
    /\ UNCHANGED <<layout, todo, index, db_pos, chunk_pos, curr_max_dim, written>>

CopyNext ==
    \/ \E s \in todo : TakeChunk(s)
    \/ CopyRun
    \/ ChunkCopied

CopySpec == CopyInit /\ [][CopyNext]_copyVars

-----------------------------------------------------------------------------
(* The reference: the element at coordinates x is in the chunk x falls in, *)
(* at x's offset in it.                                                    *)
Home(x)   == [j \in Dims |-> x[j] - (x[j] % chunked_dims[j])]
Offset(x) == [j \in Dims |-> x[j] % chunked_dims[j]]
Placed(x) == <<FindArrayPosition(x, dims), Home(x), FindArrayPosition(Offset(x), chunked_dims)>>
Reference == {Placed(x) : x \in Coordinates(dims)}
Copies    == {<<w.dst, w.chunk, w.src>> : w \in written}

(* Every run lands where the reference puts it: none passes the end of the *)
(* array or of the buffer, or writes over a neighbouring chunk's columns,  *)
(* whichever edges of the array cut the chunk.                             *)
RunsInPlace == Copies \subseteq Reference

(* When the loop has left the last chunk, every element has been copied:   *)
(* leaving it by the jump of index past the array, never by the count of   *)
(* elements, loses no run.                                                 *)
CopyExact == todo = {} /\ chunk_start = NoChunk => Copies = Reference

=============================================================================
