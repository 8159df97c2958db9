---------------------------- MODULE MC_ChunkCopy -----------------------------
(* ChunkCopy for TLC: arrays of one to four dimensions.  The chunks divide *)
(* the array, are cut in the first, a middle or the last dimension or in   *)
(* several, span it, are single elements, or are larger than it.           *)
EXTENDS ChunkCopy

L(d, c) == [dims |-> d, chunked_dims |-> c]

(* every array and every chunk of two dimensions up to 3 x 3 *)
Plane == {<<a, b>> : a \in 1 .. 3, b \in 1 .. 3}
MCLayouts ==
    {L(d, c) : d \in Plane, c \in Plane}
    \cup {L(<<5>>, <<2>>), L(<<4>>, <<4>>), L(<<3>>, <<5>>),
          L(<<3, 2, 3>>, <<2, 2, 2>>), L(<<2, 3, 3>>, <<2, 2, 3>>),
          L(<<3, 3, 2>>, <<3, 2, 1>>), L(<<2, 1, 3>>, <<1, 1, 2>>),
          L(<<2, 3, 2>>, <<3, 3, 2>>),
          L(<<2, 2, 2, 3>>, <<2, 1, 2, 2>>), L(<<3, 2, 1, 2>>, <<2, 2, 1, 2>>)}
=============================================================================
