------------------------------ MODULE MapCache -------------------------------
(***************************************************************************)
(* map_objects: the mappings the main thread makes while it parses the     *)
(* file.  st_navigateTo looks for one that covers the request, else makes  *)
(* one and lets the oldest go; st_releasePages gives a use back            *)
(* (src/navigate.c).  The queue (src/ezq.c) keeps the nodes it has passed: *)
(* abs_front .. back is the whole list, front .. back what is still in it. *)
(*                                                                         *)
(* Callers nest and interleave their uses (readSnod releases the symbol    *)
(* node before the heap, fillNode keeps one per tree level), so a use may  *)
(* be given back in any order.  Only the main thread calls these.          *)
(***************************************************************************)
EXTENDS Integers, SequencesExt

CONSTANTS
    AllocGran,      \* alloc_gran: mappings start at its multiples
    FileSize,       \* file_size
    Requests,       \* <<address, bytes_needed>> the parser asks for
    MaxMapObjs,     \* max_num_map_objs: 10
    CleanFactor,    \* 4, in "abs_length > 4*max_num_map_objs"
    MaxHeld         \* bound on the uses held at once

ASSUME CacheAssumption ==
    /\ AllocGran \in Nat \ {0} /\ FileSize \in Nat \ {0}
    /\ Requests \subseteq (0 .. FileSize - 1) \X (Nat \ {0})
    /\ MaxMapObjs \in Nat \ {0} /\ CleanFactor \in Nat \ {0} /\ MaxHeld \in Nat

NoObj   == 0
NoNode  == 0
CleanLength == CleanFactor * MaxMapObjs
ObjIds  == 1 .. CleanLength + MaxHeld + 1       \* room for every mapObject allocated

VARIABLES
    list,           \* the mapObjects from abs_front to the end; abs_length is its length
    front,          \* index in it of the queue's front, NoNode for NULL
    back,           \* the mapObject of the queue's back
    length,         \* the queue's own count of front .. back
    obj,            \* the mapObjects
    held            \* the uses given out: which mapObject for which request

cacheVars == <<list, front, back, length, obj, held>>

Unmapped == [map_start |-> 0, map_size |-> 0, num_using |-> 0, is_mapped |-> FALSE]

CacheInit ==
    /\ list = <<>>
    /\ front = NoNode
    /\ back = NoObj
    /\ length = 0
    /\ obj = [o \in ObjIds |-> Unmapped]
    /\ held = <<>>

-----------------------------------------------------------------------------
StartOf(address)  == address - (address % AllocGran)
SizeFor(address, bytes) ==
    Min({(address % AllocGran) + bytes, FileSize - StartOf(address)})

(* the test of the lookup, whose right side is not cut at the file's end *)
Covers(o, address, bytes) ==
    /\ obj[o].map_start <= address
    /\ address + bytes <= obj[o].map_start + obj[o].map_size
    /\ obj[o].is_mapped

(* the nodes the lookup visits: at most MaxMapObjs of them, from the front *)
Scanned == IF front = NoNode THEN {}
           ELSE front .. Min({Len(list), front + MaxMapObjs - 1})
HitsFor(address, bytes) == {i \in Scanned : Covers(list[i], address, bytes)}

Use(o, address, bytes) == [obj |-> o, address |-> address, bytes |-> bytes]

(* mutant: the use is not counted *)
NavigateHitUncounted(address, bytes) ==
    /\ Len(held) < MaxHeld
    /\ HitsFor(address, bytes) # {}
    /\ LET o == list[Min(HitsFor(address, bytes))]
       IN  held' = Append(held, Use(o, address, bytes))
    /\ UNCHANGED <<list, front, back, length, obj>>

NavigateHit(address, bytes) ==
    /\ Len(held) < MaxHeld
    /\ HitsFor(address, bytes) # {}
    /\ LET o == list[Min(HitsFor(address, bytes))]
       IN  /\ obj' = [obj EXCEPT ![o].num_using = @ + 1]
           /\ held' = Append(held, Use(o, address, bytes))
    /\ UNCHANGED <<list, front, back, length>>

(* dequeue: the nodes stay, the front moves on *)
NextNode(l, f) == IF f < Len(l) THEN f + 1 ELSE NoNode

(* mutant: the oldest mapping is let go whether it is used or not *)
LetGoInUse(os, o) == IF os[o].is_mapped THEN [os EXCEPT ![o] = Unmapped] ELSE os

(* st_navigateTo lets the oldest mapping go unless it is still used; then  *)
(* it stays mapped behind the front, where no lookup finds it.             *)
LetGo(os, o) ==
    IF os[o].num_using = 0 /\ os[o].is_mapped THEN [os EXCEPT ![o] = Unmapped] ELSE os

(* mutant: a mapping in use once is cleaned up *)
InUseTwice(os, o) == os[o].num_using > 1

(* The clean-up pass calls removeAtTraverseNode on every unused node,      *)
(* wherever it is.  length follows only once abs_length has come down to   *)
(* it; back is not touched.                                                *)
InUse(os, o)   == os[o].num_using > 0
Kept(l, os)    ==
    LET kept[i \in 0 .. Len(l)] ==
            IF i = 0 THEN <<>>
            ELSE IF InUse(os, l[i]) THEN Append(kept[i - 1], l[i]) ELSE kept[i - 1]
    IN  kept[Len(l)]
KeptFront(l, f, os) ==
    LET behind == {i \in 1 .. f - 1 : InUse(os, l[i])}
        ahead  == {i \in f .. Len(l) : InUse(os, l[i])}
    IN  IF f = NoNode \/ ahead = {} THEN NoNode ELSE Cardinality(behind) + 1
KeptLength(l, n, os) == Min({n, Len(Kept(l, os))})

(* mutant: one mapping more than the limit before one is let go *)
ShrinkOneLate(l, f, n, os) ==
    LET os1   == LetGo(os, l[f])
        f1    == NextNode(l, f)
        clean == Len(l) > CleanLength
    IN  IF n <= MaxMapObjs + 1
        THEN list' = l /\ front' = f /\ length' = n /\ obj' = os
        ELSE IF ~clean
        THEN list' = l /\ front' = f1 /\ length' = n - 1 /\ obj' = os1
        ELSE /\ list' = Kept(l, os1)
             /\ front' = KeptFront(l, f1, os1)
             /\ length' = KeptLength(l, n - 1, os1)
             /\ obj' = [o \in ObjIds |-> IF InUse(os1, o) THEN os1[o] ELSE Unmapped]

(* The rest of st_navigateTo, with the new mapping in the list l: os, f    *)
(* and n are the mapObjects, the front and the length after the enqueue.   *)
Shrink(l, f, n, os) ==
    LET os1   == LetGo(os, l[f])
        f1    == NextNode(l, f)
        clean == Len(l) > CleanLength
    IN  IF n <= MaxMapObjs
        THEN list' = l /\ front' = f /\ length' = n /\ obj' = os
        ELSE IF ~clean
        THEN list' = l /\ front' = f1 /\ length' = n - 1 /\ obj' = os1
        ELSE /\ list' = Kept(l, os1)
             /\ front' = KeptFront(l, f1, os1)
             /\ length' = KeptLength(l, n - 1, os1)
             /\ obj' = [o \in ObjIds |-> IF InUse(os1, o) THEN os1[o] ELSE Unmapped]

NavigateMiss(address, bytes) ==
    LET o  == Min(ObjIds \ ToSet(list))
        os == [obj EXCEPT ![o] = [map_start |-> StartOf(address),
                                  map_size  |-> SizeFor(address, bytes),
                                  num_using |-> 1, is_mapped |-> TRUE]]
        l  == Append(list, o)
        f  == IF length = 0 THEN Len(l) ELSE front
    IN  /\ Len(held) < MaxHeld
        /\ HitsFor(address, bytes) = {}
        /\ back' = o
        /\ Shrink(l, f, length + 1, os)
        /\ held' = Append(held, Use(o, address, bytes))

(* st_releasePages.  Its error, "A page was released more than once", is   *)
(* what num_using = 0 would be.                                            *)
ReleaseMap(i) ==
    /\ obj[held[i].obj].num_using > 0
    /\ obj' = [obj EXCEPT ![held[i].obj].num_using = @ - 1]
    /\ held' = RemoveAt(held, i)
    /\ UNCHANGED <<list, front, back, length>>

(* freeQueue(map_objects) at the end of the session *)
FreeCache ==
    /\ list' = <<>> /\ front' = NoNode /\ back' = NoObj /\ length' = 0
    /\ obj' = [o \in ObjIds |-> Unmapped]
    /\ held' = <<>>

CacheNext ==
    \/ \E r \in Requests : NavigateHit(r[1], r[2]) \/ NavigateMiss(r[1], r[2])
    \/ \E i \in 1 .. Len(held) : ReleaseMap(i)
    \/ FreeCache

CacheSpec == CacheInit /\ [][CacheNext]_cacheVars

-----------------------------------------------------------------------------
Live == IF front = NoNode THEN 0 ELSE Len(list) - front + 1   \* nodes front .. back

(* A caller that holds a mapping can read what it asked for, as far as the *)
(* file goes: letting go, cleaning up and looking up never take it away.   *)
HeldStaysMapped ==
    \A i \in DOMAIN held :
        LET u == held[i] IN
        /\ u.obj \in ToSet(list)
        /\ obj[u.obj].is_mapped
        /\ obj[u.obj].map_start <= u.address
        /\ Min({u.address + u.bytes, FileSize}) <=
              obj[u.obj].map_start + obj[u.obj].map_size

(* num_using, which decides what is unmapped and what is freed, counts the *)
(* uses given out: the error "A page was released more than once" and the  *)
(* release of a freed mapObject cannot happen.                             *)
UsesCounted ==
    \A o \in ObjIds : obj[o].num_using = Cardinality({i \in DOMAIN held : held[i].obj = o})

(* removeAtTraverseNode does not repair back, and dequeue's NULL is used   *)
(* unchecked: the pass never removes the last node, and the queue is never *)
(* empty in front of it after a mapping was made.                          *)
QueueAnchored ==
    list # <<>> => /\ back = Last(list)
                   /\ front # NoNode
                   /\ 0 < length /\ length <= Len(list)

(* "this queue can get very long in recursive cases so set a hard limit":  *)
(* at most max_num_map_objs nodes are in front, so that the lookup, which  *)
(* stops after as many, has seen them all; and the nodes behind do not     *)
(* outgrow the clean-up threshold unless that many are held at once.       *)
CacheBounded ==
    /\ Live <= MaxMapObjs
    /\ Len(list) <= Max({CleanLength, MaxHeld})

=============================================================================
