---------------------------- MODULE MC_ChunkLoad -----------------------------
(* ChunkLoad for TLC: two threads, three pages, two datasets.  The tree of *)
(* the first dataset meets pages 0, 1, 2, 0, 1 in this order, so that the  *)
(* buckets reorder it and no more pages than threads may be mapped; the    *)
(* chunks of page 0 need different extents.  The second dataset finds the  *)
(* page table as the first one left it.                                    *)
EXTENDS ChunkLoad

MCThreads  == 1 .. 2
MCPages    == 0 .. 2
MCPageOf   == <<0, 1, 2, 0, 1, 0>>
MCExtentOf == <<1, 1, 2, 2, 1, 1>>

Data      == [sig |-> "data"]
Snod      == [sig |-> "SNOD"]
Node(kids) == [sig |-> "TREE", type |-> "chunk", kids |-> kids]
Wrong(kids) == [sig |-> "TREE", type |-> "group", kids |-> kids]
(* chunks 1 to 6; trees of two levels, one with a group's node             *)
MCNodes   == <<Data, Data, Data, Data, Data, Data, Snod,
               Node(<<9, 7, 10>>), Node(<<1, 2, 3>>), Node(<<4, 5>>), Node(<<6>>),
               Node(<<10, 13, 9>>), Wrong(<<6>>)>>
MCForests == {<<8, 11>>, <<11, 12>>}

(* The small instance of the error run: two pages.                         *)
SmallPages    == 0 .. 1
SmallNodes    == <<Data, Data, Data, Node(<<1, 2, 3>>)>>
SmallPageOf   == <<0, 1, 0>>
SmallExtentOf == <<1, 1, 2>>
SmallForests  == {<<4>>}
=============================================================================
