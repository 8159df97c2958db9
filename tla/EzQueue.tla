-------------------------------- MODULE EzQueue --------------------------------
(***************************************************************************)
(* The queue of src/ezq.c, at the level of its nodes and pointers.  One    *)
(* thread works on a queue.                                                *)
(*                                                                         *)
(* A queue keeps the nodes it has handed out: abs_front .. back is the     *)
(* whole chain, front .. back what is still to come.  freeQueue and        *)
(* cleanQueue free nodes, so a pointer kept too long would be read after   *)
(* its node is gone: live is the set of nodes that are allocated.          *)
(***************************************************************************)
EXTENDS Integers, FiniteSets, SequencesExt

CONSTANTS
    Nodes,          \* the nodes malloc can return: bounds abs_length
    Data,           \* what callers put in; never NULL
    NULL,
    Uses,           \* how callers use one queue: sets of the calls they make
    SizeRange       \* size_t counts modulo this

Calls == {"enqueue", "priorityEnqueue", "dequeue", "peekQueue", "resetQueue", "restartQueue",
          "flushQueue", "cleanQueue", "traverse", "remove"}

(* cleanQueue is not called of a queue that is traversed or has nodes      *)
(* removed, nor priorityEnqueue of the latter: nothing in src/ does.       *)
ASSUME QueueAssumption ==
    /\ IsFiniteSet(Nodes) /\ NULL \notin Nodes \cup Data
    /\ Uses \subseteq SUBSET Calls
    /\ \A u \in Uses : "cleanQueue" \in u => u \cap {"traverse", "remove"} = {}
    /\ \A u \in Uses : "remove" \in u => "priorityEnqueue" \notin u
    /\ SizeRange \in Nat /\ SizeRange > Cardinality(Nodes)

VARIABLES
    use,            \* the calls made of this queue
    live, node,     \* the nodes allocated, and what they hold
    abs_front, front, back, length, abs_length,
    traverse_front, traverse_length,
    walking,        \* the caller is inside a traversal loop
    out             \* what the last dequeue or peekQueue returned

chainVars == <<live, node, abs_front, front, back, length, abs_length>>
walkVars  == <<traverse_front, traverse_length, walking>>
queueVars == <<use, chainVars, walkVars, out>>

Blank == [prev |-> NULL, next |-> NULL, data |-> NULL]

(* initQueue; traverse_length is not initialised and not read before a     *)
(* traversal sets it                                                       *)
QueueInit ==
    /\ use \in Uses
    /\ live = {} /\ node = [n \in Nodes |-> Blank]
    /\ abs_front = NULL /\ front = NULL /\ back = NULL
    /\ length = 0 /\ abs_length = 0
    /\ traverse_front = NULL /\ traverse_length = 0 /\ walking = FALSE
    /\ out = NULL

SizeOf(n) == n % SizeRange

(* the nodes met from abs_front on, abs_length of them *)
NextOf(n) == IF n \in live THEN node[n].next ELSE NULL
Chain ==
    LET at[i \in 1 .. abs_length] == IF i = 1 THEN abs_front ELSE NextOf(at[i - 1])
    IN  at
Position(n) == CHOOSE i \in 1 .. abs_length : Chain[i] = n
OnChain(n)  == \E i \in 1 .. abs_length : Chain[i] = n

-----------------------------------------------------------------------------
SetPrev(ns, n, p) == IF n = NULL THEN ns ELSE [ns EXCEPT ![n].prev = p]
SetNext(ns, n, m) == IF n = NULL THEN ns ELSE [ns EXCEPT ![n].next = m]
Holding(ns, n, p, m, d) == [ns EXCEPT ![n] = [prev |-> p, next |-> m, data |-> d]]

(* a first node *)
LinkFirst(n, d) ==
    /\ abs_length = 0
    /\ node' = Holding(node, n, NULL, NULL, d)
    /\ abs_front' = n /\ front' = n /\ back' = n

(* mutant: back stays where it is *)
LinkLastBackUnmoved(n, d) ==
    /\ abs_length > 0
    /\ LET after == node[back].next
       IN  node' = SetNext(SetPrev(Holding(node, n, back, after, d), after, n), back, n)
    /\ front' = IF length = 0 THEN n ELSE front
    /\ UNCHANGED <<abs_front, back>>

(* behind back; it becomes the front of an exhausted queue *)
LinkLast(n, d) ==
    /\ abs_length > 0
    /\ LET after == node[back].next
       IN  node' = SetNext(SetPrev(Holding(node, n, back, after, d), after, n), back, n)
    /\ back' = n
    /\ front' = IF length = 0 THEN n ELSE front
    /\ UNCHANGED abs_front

(* mutant: what is put in front of front is passed over *)
LinkFrontUnmoved(n, d) ==
    /\ length > 0
    /\ LET before == node[front].prev
           linked == Holding(node, n, before, front, d)
       IN  node' = SetPrev(IF front = abs_front THEN linked ELSE SetNext(linked, before, n), front, n)
    /\ abs_front' = IF front = abs_front THEN n ELSE abs_front
    /\ UNCHANGED <<front, back>>

(* in front of front, behind what is handed out *)
LinkFront(n, d) ==
    /\ length > 0
    /\ LET before == node[front].prev
           linked == Holding(node, n, before, front, d)
       IN  node' = SetPrev(IF front = abs_front THEN linked ELSE SetNext(linked, before, n), front, n)
    /\ abs_front' = IF front = abs_front THEN n ELSE abs_front
    /\ front' = n
    /\ UNCHANGED back

CountIn(n) ==
    /\ n \notin live
    /\ live' = live \cup {n}
    /\ length' = length + 1
    /\ abs_length' = abs_length + 1
    /\ UNCHANGED <<use, walkVars, out>>

enqueue(n, d) ==
    /\ "enqueue" \in use
    /\ CountIn(n)
    /\ LinkFirst(n, d) \/ LinkLast(n, d)

priorityEnqueue(n, d) ==
    /\ "priorityEnqueue" \in use
    /\ CountIn(n)
    /\ LinkFirst(n, d) \/ (length = 0 /\ LinkLast(n, d)) \/ LinkFront(n, d)

-----------------------------------------------------------------------------
SomethingLeft == front # NULL /\ length > 0

dequeue ==
    /\ "dequeue" \in use
    /\ \/ /\ SomethingLeft
          /\ out' = node[front].data
          /\ front' = node[front].next
          /\ length' = length - 1
       \/ /\ ~SomethingLeft
          /\ out' = NULL
          /\ UNCHANGED <<front, length>>
    /\ UNCHANGED <<use, live, node, abs_front, back, abs_length, walkVars>>

(* QUEUE_FRONT and QUEUE_BACK *)
peekQueue ==
    /\ "peekQueue" \in use
    /\ \E end \in {front, back} : out' = IF SomethingLeft THEN node[end].data ELSE NULL
    /\ UNCHANGED <<use, chainVars, walkVars>>

(* A queue that cleanQueue has emptied still holds the back it freed, and  *)
(* is not reset.                                                           *)
resetQueue ==
    /\ "resetQueue" \in use
    /\ back = NULL \/ abs_length > 0
    /\ front' = back
    /\ length' = 0
    /\ UNCHANGED <<use, live, node, abs_front, back, abs_length, walkVars, out>>

restartQueue ==
    /\ "restartQueue" \in use
    /\ front' = abs_front
    /\ length' = abs_length
    /\ UNCHANGED <<use, live, node, abs_front, back, abs_length, walkVars, out>>

Free(ns) ==
    /\ live' = live \ ns
    /\ node' = [n \in Nodes |-> IF n \in ns THEN Blank ELSE node[n]]

(* all nodes, and the data with them; also freeQueue *)
flushQueue ==
    /\ "flushQueue" \in use
    /\ ~walking
    /\ Free({Chain[i] : i \in 1 .. abs_length})
    /\ abs_front' = NULL /\ front' = NULL /\ back' = NULL /\ traverse_front' = NULL
    /\ length' = 0 /\ abs_length' = 0
    /\ UNCHANGED <<use, traverse_length, walking, out>>

(* the nodes before front; all of them when front has run off the end *)
Passed == {Chain[i] : i \in 1 .. (IF front = NULL THEN abs_length ELSE Position(front) - 1)}

cleanQueue ==
    /\ "cleanQueue" \in use
    /\ Free(Passed)
    /\ abs_front' = front
    /\ abs_length' = abs_length - Cardinality(Passed)
    /\ UNCHANGED <<use, front, back, length, walkVars, out>>

-----------------------------------------------------------------------------
(* mutant: the traversal of what is left counts the whole chain *)
initTraversalAbsLength ==
    /\ "traverse" \in use
    /\ traverse_front' = front /\ traverse_length' = abs_length
    /\ walking' = TRUE
    /\ UNCHANGED <<use, chainVars, out>>

initTraversal ==
    /\ "traverse" \in use
    /\ traverse_front' = front /\ traverse_length' = length
    /\ walking' = TRUE
    /\ UNCHANGED <<use, chainVars, out>>

initAbsTraversal ==
    /\ "traverse" \in use
    /\ traverse_front' = abs_front /\ traverse_length' = abs_length
    /\ walking' = TRUE
    /\ UNCHANGED <<use, chainVars, out>>

(* The loops of utils.c run while traverse_length > 0; those of            *)
(* st_navigateTo, whose queue has nodes removed, while there is a node.    *)
LoopGoesOn == IF "remove" \in use THEN traverse_front # NULL ELSE traverse_length > 0

traverseQueue ==
    /\ walking
    /\ LoopGoesOn
    /\ \/ /\ traverse_front # NULL
          /\ traverse_front' = node[traverse_front].next
          /\ traverse_length' = SizeOf(traverse_length - 1)
       \/ /\ traverse_front = NULL
          /\ UNCHANGED <<traverse_front, traverse_length>>
    /\ UNCHANGED <<use, chainVars, walking, out>>

(* a loop may be left early, and is when it has run out *)
StopTraversal ==
    /\ walking
    /\ walking' = FALSE
    /\ UNCHANGED <<use, chainVars, traverse_front, traverse_length, out>>

(* mutant: the node behind keeps pointing back at the node removed *)
UnlinkForward(n) == SetNext(node, node[n].prev, node[n].next)
Unlinked(n) ==
    SetPrev(SetNext(node, node[n].prev, node[n].next), node[n].next, node[n].prev)

FrontWithout(n) == IF n = front THEN node[n].next ELSE front

(* removeAtTraverseNode.  back is not mended, so the last node is not      *)
(* removed: st_navigateTo's is the one it has just put in, and in use.     *)
removeAtTraverseNode ==
    /\ "remove" \in use
    /\ walking
    /\ LET n == traverse_front
       IN  /\ n # NULL /\ n # back
           /\ traverse_front' = node[n].next
           /\ node' = [Unlinked(n) EXCEPT ![n] = Blank]
           /\ live' = live \ {n}
           /\ front' = FrontWithout(n)
           /\ abs_front' = IF n = abs_front THEN node[n].next ELSE abs_front
           /\ abs_length' = abs_length - 1
           /\ length' = IF abs_length - 1 < length THEN length - 1 ELSE length
    /\ UNCHANGED <<use, back, traverse_length, walking, out>>

-----------------------------------------------------------------------------
QueueNext ==
    \/ \E n \in Nodes, d \in Data : enqueue(n, d) \/ priorityEnqueue(n, d)
    \/ dequeue \/ peekQueue
    \/ resetQueue \/ restartQueue \/ flushQueue \/ cleanQueue
    \/ initTraversal \/ initAbsTraversal \/ traverseQueue \/ StopTraversal
    \/ removeAtTraverseNode

QueueSpecification == QueueInit /\ [][QueueNext]_queueVars

-----------------------------------------------------------------------------
Pointers == Nodes \cup {NULL}

(* length never goes below zero: a size_t would wrap, and every caller     *)
(* that loops on it would run off the chain.                               *)
QueueTypeOK ==
    /\ use \in Uses
    /\ live \subseteq Nodes
    /\ node \in [Nodes -> [prev : Pointers, next : Pointers, data : Data \cup {NULL}]]
    /\ {abs_front, front, back, traverse_front} \subseteq Pointers
    /\ length \in 0 .. Cardinality(Nodes)
    /\ abs_length \in 0 .. Cardinality(Nodes)
    /\ traverse_length \in 0 .. SizeRange - 1
    /\ walking \in BOOLEAN
    /\ out \in Data \cup {NULL}

(* The nodes allocated are exactly those on the chain, each once, linked   *)
(* both ways, and back is the last: flushQueue frees every node once and   *)
(* enqueue never writes to a node that is gone.                            *)
ChainIntact ==
    /\ live = {Chain[i] : i \in 1 .. abs_length}
    /\ Cardinality(live) = abs_length
    /\ \A i \in 2 .. abs_length : node[Chain[i]].prev = Chain[i - 1]
    /\ abs_length > 0 => back = Chain[abs_length] /\ node[back].next = NULL

(* Inside a loop, traverse_length is never more than the nodes that are    *)
(* left: the loops of utils.c use what traverseQueue returns unseen.       *)
(* (st_navigateTo's loops test for NULL: length drifts when nodes are      *)
(* removed, and traverse_length with it.)                                  *)
WalkCounted ==
    walking /\ traverse_length > 0 /\ "remove" \notin use =>
        /\ OnChain(traverse_front)
        /\ Position(traverse_front) + traverse_length - 1 <= abs_length

(* front is always a node of the chain or has run off its end, also when   *)
(* nodes are removed and when everything before it is freed.               *)
FrontOnChain == front = NULL \/ OnChain(front)

(* The queue is whole after every call, in each of the three ways it is    *)
(* used: counts in range, chain and nodes the same, front on it.           *)
QueueSound == QueueTypeOK /\ ChainIntact /\ FrontOnChain

(* Every node removeAtTraverseNode would write to is allocated.            *)
RemovalSafe ==
    walking /\ traverse_front # NULL =>
        /\ traverse_front \in live
        /\ {node[traverse_front].prev, node[traverse_front].next} \subseteq live \cup {NULL}

(* The nodes implement a sequence that keeps what it hands out, unless     *)
(* nodes are removed from it: then length no longer says how many are left *)
(* (the abstract queue is then one that is never used).                    *)
KeepsItems == "remove" \notin use
Items == [i \in 1 .. abs_length |-> node[Chain[i]].data]
Abstract == INSTANCE QueueSpec WITH
    items <- IF KeepsItems THEN Items ELSE <<>>,
    taken <- IF KeepsItems THEN abs_length - length ELSE 0,
    out   <- IF KeepsItems THEN out ELSE NULL,
    None  <- NULL
ImplementsSequence == Abstract!SpecSpec
===============================================================================
