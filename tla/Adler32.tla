-------------------------------- MODULE Adler32 --------------------------------
(***************************************************************************)
(* libdeflate_adler32 (lib/adler32.c, lib/adler32_impl.h): the checksum of *)
(* a buffer, s1 the sum of its bytes, s2 the sum of all s1.  The sums are  *)
(* taken modulo DIVISOR only after a chunk, before they can overflow.      *)
(*                                                                         *)
(* The vector versions go byte by byte to the first aligned address, then  *)
(* in chunks of whole iterations, then byte by byte through the rest; with *)
(* Alignment and BytesPerIteration 1 this is the generic version.  In an   *)
(* iteration they add the bytes at once, to many counters; here one after  *)
(* the other to one.  Each counter of 16 bits takes one byte an iteration. *)
(***************************************************************************)
EXTENDS Integers, SequencesExt, FiniteSetsExt

CONSTANTS
    Divisor, ByteMax, MaxBytesPerChunk,
    SumMax,             \* 0xFFFFFFFF
    CounterMax,         \* 0x7FFF, a signed counter of SSE2
    Alignment, BytesPerIteration

(* 65521, 255, 5552 and 32 bits: 65520*5553 + 255*5552*5553/2 < 2^32 *)
ASSUME AdlerAssumption ==
    /\ Divisor \in Nat /\ Divisor >= 2
    /\ ByteMax \in Nat \ {0} /\ SumMax \in Nat /\ CounterMax \in Nat /\ ByteMax <= CounterMax
    /\ Alignment \in Nat \ {0} /\ BytesPerIteration \in Nat /\ Alignment <= BytesPerIteration
    /\ MaxBytesPerChunk \in Nat /\ BytesPerIteration <= MaxBytesPerChunk
    /\ 2 * (Divisor - 1) * (MaxBytesPerChunk + 1)
        + ByteMax * MaxBytesPerChunk * (MaxBytesPerChunk + 1) <= 2 * SumMax

VARIABLES
    buffer, p,
    unaligned,          \* how far the first aligned address is into the buffer
    s1, s2,
    phase,
    summed,             \* bytes added since the sums were reduced
    chunk_size

adlerVars == <<buffer, p, unaligned, s1, s2, phase, summed, chunk_size>>

(* the checksum of nothing is 1 *)
AdlerIdle ==
    /\ buffer = <<>> /\ p = 0 /\ unaligned = 0 /\ s1 = 1 /\ s2 = 0
    /\ phase = "done" /\ summed = 0 /\ chunk_size = 0

StartAdler(bytes) ==
    /\ buffer' = bytes /\ p' = 0
    /\ unaligned' \in 0 .. Alignment - 1
    /\ s1' = 1 /\ s2' = 0
    /\ phase' = "head" /\ summed' = 0 /\ chunk_size' = 0

Left == Len(buffer) - p

HeadDone  == Left = 0 \/ p = unaligned
ChunkDone == summed = chunk_size

-----------------------------------------------------------------------------
AddByte ==
    /\ \/ phase = "head"  /\ ~HeadDone
       \/ phase = "chunk" /\ ~ChunkDone
       \/ phase = "rest"  /\ Left # 0
    /\ s1' = s1 + buffer[p + 1]
    /\ s2' = s2 + s1'
    /\ p' = p + 1
    /\ summed' = summed + 1
    /\ UNCHANGED <<buffer, unaligned, phase, chunk_size>>

(* at the end of head and rest only if a byte was added: it is the same *)
Reduce ==
    /\ \/ phase = "head"  /\ HeadDone  /\ phase' = "chunks"
       \/ phase = "chunk" /\ ChunkDone /\ phase' = "chunks"
       \/ phase = "rest"  /\ Left = 0  /\ phase' = "done"
    /\ s1' = s1 % Divisor
    /\ s2' = s2 % Divisor
    /\ summed' = 0
    /\ UNCHANGED <<buffer, p, unaligned, chunk_size>>

(* mutant: an iteration is begun below the limit, not ended *)
ChunkSizeOver(left) ==
    LET size == Min({left, MaxBytesPerChunk + BytesPerIteration})
    IN  size - (size % BytesPerIteration)

ChunkSize(left) ==
    LET size == Min({left, MaxBytesPerChunk, BytesPerIteration * (CounterMax \div ByteMax)})
    IN  size - (size % BytesPerIteration)

(* the rest is less than an iteration *)
StartChunk ==
    /\ phase = "chunks"
    /\ \/ /\ Left >= BytesPerIteration
          /\ phase' = "chunk"
          /\ chunk_size' = ChunkSize(Left - (Left % BytesPerIteration))
       \/ Left < BytesPerIteration /\ phase' = "rest" /\ UNCHANGED chunk_size
    /\ UNCHANGED <<buffer, p, unaligned, s1, s2, summed>>

AdlerNext == AddByte \/ Reduce \/ StartChunk

-----------------------------------------------------------------------------
(* No sum overflows before it is reduced, and no counter of a vector.      *)
SumsFit ==
    /\ s1 \in 0 .. SumMax /\ s2 \in 0 .. SumMax
    /\ phase = "chunk" => ByteMax * (chunk_size \div BytesPerIteration) <= CounterMax

(* the definition: every sum modulo Divisor *)
AdlerOf(bytes) ==
    FoldLeft(LAMBDA sums, byte : LET s == (sums[1] + byte) % Divisor IN <<s, (sums[2] + s) % Divisor>>,
             <<1, 0>>, bytes)

=============================================================================
