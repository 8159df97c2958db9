------------------------------ MODULE MC_MtQueue -------------------------------
(* Three pages' buckets, the middle one empty; three threads, one more than  *)
(* the first bucket can occupy.                                              *)
EXTENDS MtQueue, TLC

CONSTANTS d1, d2, d3, d4

MCBuckets == << <<d1, d2>>, <<>>, <<d3, d4>> >>
===============================================================================
