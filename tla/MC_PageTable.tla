---------------------------- MODULE MC_PageTable -----------------------------
(* PageTable for TLC: three threads over two pages, with two extents so    *)
(* that a mapping made for the small one must be replaced for the large.   *)
(* Threads are interchangeable; pages are not, nav_page starting at one.   *)
EXTENDS PageTable, TLC

ThreadSymmetry == Permutations(Threads)
=============================================================================
