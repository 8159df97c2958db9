------------------------------- MODULE QueueSpec -------------------------------
(***************************************************************************)
(* What a Queue of src/ezq.h promises its callers: a sequence that keeps   *)
(* what it has handed out.  items is all it owns, in order; the first      *)
(* taken of them have been handed out and come back with restartQueue.     *)
(* EzQueue implements this with linked nodes.                              *)
(***************************************************************************)
EXTENDS Integers, SequencesExt

CONSTANTS Data, None

VARIABLES
    items,          \* everything in the queue, handed out or not
    taken,          \* how many of them are handed out
    out             \* what the last call that hands something out returned

specVars == <<items, taken, out>>

SpecInit == items = <<>> /\ taken = 0 /\ out = None

(* at the end, and for the impatient right behind what is handed out *)
PutLast(d) ==
    /\ items' = Append(items, d)
    /\ UNCHANGED <<taken, out>>
PutNext(d) ==
    /\ items' = InsertAt(items, taken + 1, d)
    /\ UNCHANGED <<taken, out>>

Take ==
    \/ /\ taken < Len(items)
       /\ taken' = taken + 1
       /\ out' = items[taken + 1]
       /\ UNCHANGED items
    \/ /\ taken = Len(items)
       /\ out' = None
       /\ UNCHANGED <<items, taken>>

(* a look at the one to come next, or at the last *)
Peek(i) ==
    /\ out' = IF taken < Len(items) THEN items[i] ELSE None
    /\ UNCHANGED <<items, taken>>

PassAll == taken' = Len(items) /\ UNCHANGED <<items, out>>
TakeBack == taken' = 0 /\ UNCHANGED <<items, out>>
Empty == items' = <<>> /\ taken' = 0 /\ UNCHANGED out

(* what is handed out is freed, the rest stays; after PassAll the last one *)
(* handed out may stay too                                                 *)
Forget(kept) ==
    /\ items' = SubSeq(items, taken - kept + 1, Len(items))
    /\ taken' = kept
    /\ UNCHANGED out

SpecNext ==
    \/ \E d \in Data : PutLast(d) \/ PutNext(d)
    \/ Take
    \/ Peek(taken + 1) \/ Peek(Len(items))
    \/ PassAll \/ TakeBack \/ Empty
    \/ Forget(0) \/ (taken = Len(items) /\ taken > 0 /\ Forget(1))

SpecSpec == SpecInit /\ [][SpecNext]_specVars
===============================================================================
