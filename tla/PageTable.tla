------------------------------ MODULE PageTable ------------------------------
(***************************************************************************)
(* The page_objects array: the file is cut into pages of alloc_gran bytes, *)
(* each with a lock, the mapping that starts at it, and two counters.      *)
(* Threads ask for a page with mt_navigateTo, read through the pointer     *)
(* they get and give the page back with mt_releasePages (src/navigate.c).  *)
(*                                                                         *)
(* Both functions test map_size and num_using without the page lock and    *)
(* again with it, so the steps below are the single shared accesses made   *)
(* outside the lock and the critical sections made inside it.  A critical  *)
(* section is one step unless another thread's unlocked test can see the   *)
(* middle of it: the remapping branch is therefore four steps.             *)
(*                                                                         *)
(* Only the calls with bytes_needed = 0 exist in the program: the caller   *)
(* asks for max_map_size, which fillNode worked out beforehand.            *)
(***************************************************************************)
EXTENDS Integers, FiniteSets

CONSTANTS
    Threads,        \* the threads that inflate chunks
    Pages,          \* indexes of page_objects
    Extents,        \* what one chunk may need of its page, from the page start
    NumUsingMod,    \* num_using is a uint8_t: 256
    MaxMappings     \* bound on total_num_mappings (a uint32_t in the code)

NoThread == 0       \* the owner of a free lock

ASSUME ThreadsAssumption ==
    /\ IsFiniteSet(Threads)
    /\ NoThread \notin Threads
    /\ NumUsingMod \in Nat
    /\ Cardinality(Threads) < NumUsingMod

ASSUME SizesAssumption ==
    /\ Pages # {}
    /\ Extents \subseteq Nat \ {0}
    /\ MaxMappings \in Nat

VARIABLES
    is_mapped,          \* page -> a mapping starts at it
    map_size,           \* page -> size of that mapping, 0 without one
    max_map_size,       \* page -> largest extent registered so far
    num_using,          \* page -> threads using the mapping, modulo NumUsingMod
    total_num_mappings, \* page -> chunks registered and not yet released
    lock,               \* page -> holder of the page's mutex
    nav_pc,             \* thread -> where it stands in mt_navigateTo
    nav_page,           \* thread -> start_page, its local variable
    nav_need            \* thread -> map_bytes_needed, its local variable

pageFields == <<is_mapped, map_size, max_map_size, num_using, total_num_mappings>>
pageVars   == <<pageFields, lock, nav_pc, nav_page, nav_need>>

NavStates ==
    { "out",        \* not between mt_navigateTo and mt_releasePages
      "check",      \* at the unlocked size test that opens the loop
      "confirm",    \* large enough a moment ago: lock and look again
      "claim",      \* too small: about to read num_using without the lock
      "lock",       \* nobody was using it: lock and look again
      "remap",      \* holds the lock and is counted: drop the old mapping
      "map",        \* about to mmap
      "unlock",     \* mapping published, lock still held
      "using" }     \* has the pointer

Mapping(t)  == nav_pc[t] \in {"remap", "map", "unlock"}
Counted(t)  == Mapping(t) \/ nav_pc[t] = "using"
Users(p)    == {t \in Threads : Counted(t) /\ nav_page[t] = p}
Visitors(p) == {t \in Threads : nav_pc[t] # "out" /\ nav_page[t] = p}

-----------------------------------------------------------------------------
(* initializePageObjects *)
PageInit ==
    /\ is_mapped          = [p \in Pages |-> FALSE]
    /\ map_size           = [p \in Pages |-> 0]
    /\ max_map_size       = [p \in Pages |-> 0]
    /\ num_using          = [p \in Pages |-> 0]
    /\ total_num_mappings = [p \in Pages |-> 0]
    /\ lock               = [p \in Pages |-> NoThread]
    /\ nav_pc             = [t \in Threads |-> "out"]
    /\ nav_page           = [t \in Threads |-> CHOOSE p \in Pages : TRUE]
    /\ nav_need           = [t \in Threads |-> 0]

MaxOf(a, b) == IF a > b THEN a ELSE b

(* fillNode announces one chunk that starts in page p and ends e bytes     *)
(* after the start of p.  The program does so before any thread navigates; *)
(* the cases mt_navigateTo's own comment lists (mapped, in use, too small: *)
(* wait and remap) are promised whenever it happens, so it may here.       *)
Register(p, e) ==
    /\ total_num_mappings[p] < MaxMappings
    /\ total_num_mappings' = [total_num_mappings EXCEPT ![p] = @ + 1]
    /\ max_map_size' = [max_map_size EXCEPT ![p] = MaxOf(@, e)]
    /\ UNCHANGED <<is_mapped, map_size, num_using, lock, nav_pc, nav_page, nav_need>>

(* freePageObject on page p, with fewer bytes mapped afterwards.           *)
FreePageObject(p) ==
    /\ is_mapped' = [is_mapped EXCEPT ![p] = FALSE]
    /\ map_size'  = [map_size EXCEPT ![p] = IF is_mapped[p] THEN 0 ELSE @]

Goto(t, there) == nav_pc' = [nav_pc EXCEPT ![t] = there]

IncUsing(p) == num_using' = [num_using EXCEPT ![p] = (@ + 1) % NumUsingMod]
DecUsing(p) == num_using' = [num_using EXCEPT ![p] = (@ - 1) % NumUsingMod]

-----------------------------------------------------------------------------
(* mt_navigateTo(address, 0) up to its loop.                               *)
EnterPage(t, p) ==
    /\ nav_pc[t] = "out"
    /\ Goto(t, "check")
    /\ nav_page' = [nav_page EXCEPT ![t] = p]
    /\ nav_need' = [nav_need EXCEPT ![t] = max_map_size[p]]
    /\ UNCHANGED <<pageFields, lock>>

(* What the callers owe: a thread navigates for a chunk that was registered*)
(* and whose release is still to come.                                     *)
Navigate(t, p) ==
    /\ Cardinality(Visitors(p)) < total_num_mappings[p]
    /\ EnterPage(t, p)

(* if(map_bytes_needed <= map_size), outside the lock *)
CheckSize(t) ==
    /\ nav_pc[t] = "check"
    /\ Goto(t, IF nav_need[t] <= map_size[nav_page[t]] THEN "confirm" ELSE "claim")
    /\ UNCHANGED <<pageFields, lock, nav_page, nav_need>>

(* mutant: the user is not counted *)
ConfirmHitUncounted(t) ==
    LET p == nav_page[t] IN
    /\ nav_pc[t] = "confirm"
    /\ lock[p] = NoThread
    /\ nav_need[t] <= map_size[p]
    /\ Goto(t, "using")
    /\ UNCHANGED <<pageFields, lock, nav_page, nav_need>>

(* mutant: the unlocked test is trusted *)
ConfirmHitUnlocked(t) ==
    LET p == nav_page[t] IN
    /\ nav_pc[t] = "confirm"
    /\ nav_need[t] <= map_size[p]
    /\ IncUsing(p)
    /\ Goto(t, "using")
    /\ UNCHANGED <<is_mapped, map_size, max_map_size, total_num_mappings, lock,
                   nav_page, nav_need>>

(* the same test inside the lock: still large enough, count this user *)
ConfirmHit(t) ==
    LET p == nav_page[t] IN
    /\ nav_pc[t] = "confirm"
    /\ lock[p] = NoThread
    /\ nav_need[t] <= map_size[p]
    /\ IncUsing(p)
    /\ Goto(t, "using")
    /\ UNCHANGED <<is_mapped, map_size, max_map_size, total_num_mappings, lock,
                   nav_page, nav_need>>

(* or the mapping went away while the thread was waiting for the lock *)
ConfirmMiss(t) ==
    /\ nav_pc[t] = "confirm"
    /\ lock[nav_page[t]] = NoThread
    /\ nav_need[t] > map_size[nav_page[t]]
    /\ Goto(t, "check")
    /\ UNCHANGED <<pageFields, lock, nav_page, nav_need>>

(* if(num_using == 0), outside the lock; a page in use sends the thread    *)
(* round the loop again                                                    *)
CheckIdle(t) ==
    /\ nav_pc[t] = "claim"
    /\ Goto(t, IF num_using[nav_page[t]] = 0 THEN "lock" ELSE "check")
    /\ UNCHANGED <<pageFields, lock, nav_page, nav_need>>

(* mutant: num_using is not looked at again inside the lock *)
ClaimPageUnchecked(t) ==
    LET p == nav_page[t] IN
    /\ nav_pc[t] = "lock"
    /\ lock[p] = NoThread
    /\ IncUsing(p)
    /\ lock' = [lock EXCEPT ![p] = t]
    /\ Goto(t, "remap")
    /\ UNCHANGED <<is_mapped, map_size, max_map_size, total_num_mappings,
                   nav_page, nav_need>>

(* the same test inside the lock: the page is this thread's to remap *)
ClaimPage(t) ==
    LET p == nav_page[t] IN
    /\ nav_pc[t] = "lock"
    /\ lock[p] = NoThread
    /\ num_using[p] = 0
    /\ IncUsing(p)
    /\ lock' = [lock EXCEPT ![p] = t]
    /\ Goto(t, "remap")
    /\ UNCHANGED <<is_mapped, map_size, max_map_size, total_num_mappings,
                   nav_page, nav_need>>

(* or another thread took it while this one was waiting for the lock *)
ClaimLost(t) ==
    /\ nav_pc[t] = "lock"
    /\ lock[nav_page[t]] = NoThread
    /\ num_using[nav_page[t]] # 0
    /\ Goto(t, "check")
    /\ UNCHANGED <<pageFields, lock, nav_page, nav_need>>

(* "if this page has already been mapped unmap since we can't fit" *)
DropStale(t) ==
    /\ nav_pc[t] = "remap"
    /\ FreePageObject(nav_page[t])
    /\ Goto(t, "map")
    /\ UNCHANGED <<max_map_size, num_using, total_num_mappings, lock, nav_page, nav_need>>

MapPage(t) ==
    LET p == nav_page[t] IN
    /\ nav_pc[t] = "map"
    /\ is_mapped' = [is_mapped EXCEPT ![p] = TRUE]
    /\ map_size'  = [map_size EXCEPT ![p] = nav_need[t]]
    /\ Goto(t, "unlock")
    /\ UNCHANGED <<max_map_size, num_using, total_num_mappings, lock, nav_page, nav_need>>

UnlockPage(t) ==
    /\ nav_pc[t] = "unlock"
    /\ lock' = [lock EXCEPT ![nav_page[t]] = NoThread]
    /\ Goto(t, "using")
    /\ UNCHANGED <<pageFields, nav_page, nav_need>>

NavigateStep(t) ==
    \/ CheckSize(t) \/ ConfirmHit(t) \/ ConfirmMiss(t)
    \/ CheckIdle(t) \/ ClaimPage(t) \/ ClaimLost(t)
    \/ DropStale(t) \/ MapPage(t) \/ UnlockPage(t)

(* mutant: the last release is looked for before the counter goes down *)
ReleasePagesLate(t) ==
    LET p == nav_page[t] IN
    /\ nav_pc[t] = "using"
    /\ lock[p] = NoThread
    /\ DecUsing(p)
    /\ total_num_mappings' = [total_num_mappings EXCEPT ![p] = @ - 1]
    /\ IF total_num_mappings[p] = 0
       THEN FreePageObject(p)
       ELSE UNCHANGED <<is_mapped, map_size>>
    /\ Goto(t, "out")
    /\ UNCHANGED <<max_map_size, lock, nav_page, nav_need>>

(* mt_releasePages(address, 0): one critical section.  Whoever releases    *)
(* the last chunk of the page unmaps it.                                   *)
ReleasePages(t) ==
    LET p == nav_page[t] IN
    /\ nav_pc[t] = "using"
    /\ lock[p] = NoThread
    /\ DecUsing(p)
    /\ total_num_mappings' = [total_num_mappings EXCEPT ![p] = @ - 1]
    /\ IF total_num_mappings[p] = 1
       THEN FreePageObject(p)
       ELSE UNCHANGED <<is_mapped, map_size>>
    /\ Goto(t, "out")
    /\ UNCHANGED <<max_map_size, lock, nav_page, nav_need>>

(* destroyPageObjects at the end of a session, the table then being what   *)
(* the next initializePageObjects makes of it.                             *)
ResetPages ==
    /\ is_mapped'          = [p \in Pages |-> FALSE]
    /\ map_size'           = [p \in Pages |-> 0]
    /\ max_map_size'       = [p \in Pages |-> 0]
    /\ num_using'          = [p \in Pages |-> 0]
    /\ total_num_mappings' = [p \in Pages |-> 0]
    /\ UNCHANGED <<lock, nav_pc, nav_page, nav_need>>

(* What the callers owe: no thread is inside.                              *)
DestroyPageObjects ==
    /\ \A t \in Threads : nav_pc[t] = "out"
    /\ ResetPages

PageNext ==
    \/ \E p \in Pages, e \in Extents : Register(p, e)
    \/ \E t \in Threads, p \in Pages : Navigate(t, p)
    \/ \E t \in Threads : NavigateStep(t)
    \/ \E t \in Threads : ReleasePages(t)
    \/ DestroyPageObjects

PageSpec == PageInit /\ [][PageNext]_pageVars

-----------------------------------------------------------------------------
PageTypeOK ==
    /\ is_mapped          \in [Pages -> BOOLEAN]
    /\ map_size           \in [Pages -> Nat]
    /\ max_map_size       \in [Pages -> Nat]
    /\ num_using          \in [Pages -> 0 .. NumUsingMod - 1]
    /\ total_num_mappings \in [Pages -> Nat]
    /\ lock               \in [Pages -> Threads \cup {NoThread}]
    /\ nav_pc             \in [Threads -> NavStates]
    /\ nav_page           \in [Threads -> Pages]
    /\ nav_need           \in [Threads -> Nat]

(* A thread between mt_navigateTo and mt_releasePages reads memory that is *)
(* mapped, and mapped far enough: nobody unmaps or shrinks the mapping     *)
(* under it, whatever was registered, remapped or released meanwhile.      *)
InUseMapped ==
    \A t \in Threads : nav_pc[t] = "using" =>
        /\ is_mapped[nav_page[t]]
        /\ nav_need[t] <= map_size[nav_page[t]]

(* num_using, the only thing that keeps a page from being remapped, is the *)
(* number of threads that hold or are building its mapping: the uint8_t    *)
(* neither wraps nor drifts.                                               *)
UsersCounted == \A p \in Pages : num_using[p] = Cardinality(Users(p))

(* The thread that holds a page's lock across steps is remapping it and is *)
(* its one and only user: the unlocked tests of the others never let a     *)
(* second thread in while the mapping is being replaced.                   *)
MapperAlone ==
    /\ \A p \in Pages : lock[p] # NoThread => Users(p) = {lock[p]} /\ Mapping(lock[p])
    /\ \A t \in Threads : Mapping(t) => lock[nav_page[t]] = t

(* A mapping exists only while a chunk of the page is still to be          *)
(* released: the last mt_releasePages leaves nothing mapped behind.        *)
MappedIsPending == \A p \in Pages : is_mapped[p] => total_num_mappings[p] > 0

-----------------------------------------------------------------------------
(* What the invariants above need besides each other to survive every step.*)

(* Every thread inside stands for a chunk that is still to be released.    *)
VisitorsPending ==
    \A p \in Pages : Cardinality(Visitors(p)) <= total_num_mappings[p]

(* A size of 0 and the absence of a mapping go together, and nobody asks   *)
(* for 0 bytes: the size test alone finds the mapping.                     *)
SizesAgree ==
    /\ \A p \in Pages : ~is_mapped[p] => map_size[p] = 0
    /\ \A p \in Pages : total_num_mappings[p] > 0 => max_map_size[p] > 0
    /\ \A t \in Threads : nav_pc[t] # "out" => nav_need[t] > 0

(* The mapping is already good when its maker is about to unlock it.       *)
BuiltMapped ==
    \A t \in Threads : nav_pc[t] = "unlock" =>
        /\ is_mapped[nav_page[t]]
        /\ nav_need[t] <= map_size[nav_page[t]]

PageInv ==
    /\ PageTypeOK
    /\ InUseMapped
    /\ UsersCounted
    /\ MapperAlone
    /\ MappedIsPending
    /\ VisitorsPending
    /\ SizesAgree
    /\ BuiltMapped
=============================================================================
