----------------------------- MODULE MC_MapCache -----------------------------
(* MapCache for TLC: pages of two bytes in a file of five, a cache of two  *)
(* mappings.  The requests: inside a page, over a page's end, covered by   *)
(* neither, and past the end of the file.                                  *)
EXTENDS MapCache

MCRequests == {<<0, 1>>, <<1, 2>>, <<2, 2>>, <<4, 2>>}
=============================================================================
