------------------------------ MODULE MC_EzQueue -------------------------------
(* Queues of at most four nodes and two different data.                     *)
EXTENDS EzQueue, TLC

(* The largest uses QueueAssumption allows: utils.c, fillDataObjects.c,      *)
(* mexSet.c and getmatvar_.c make calls of the first only, st_navigateTo     *)
(* calls of the second.                                                      *)
MCUses ==
    {Calls \ {"cleanQueue", "remove"},
     Calls \ {"cleanQueue", "priorityEnqueue"},
     Calls \ {"traverse", "remove"}}

NodeSymmetry == Permutations(Nodes)
===============================================================================
