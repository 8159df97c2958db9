--------------------------- MODULE ChunkLoad_proofs --------------------------
(* The page table and the load that uses it, for every number of threads,  *)
(* pages and chunks.  First the page table by itself: PageInv is           *)
(* inductive.  Then the load keeps its rules: every step of getChunkedData *)
(* and its workers is a step of PageTable.  On the way: no chunk is taken  *)
(* twice, the mapping counts are exact, and a load that returned 0 leaves  *)
(* nothing behind.                                                         *)
EXTENDS ChunkLoad, Induction, FiniteSetTheorems, TLAPS

(* Counting a thread in or out of num_using neither wraps nor drifts.      *)
LEMMA JoinCount ==
    ASSUME NEW S \in SUBSET Threads, NEW t \in Threads \ S
    PROVE  (Cardinality(S) + 1) % NumUsingMod = Cardinality(S \cup {t})
<1>1. IsFiniteSet(S)
  BY ThreadsAssumption, FS_Subset
<1>2. Cardinality(S) \in Nat /\ Cardinality(S \cup {t}) = Cardinality(S) + 1
  BY <1>1, FS_AddElement, FS_CardinalityType
<1>3. S \cup {t} \in SUBSET Threads
  OBVIOUS
<1>4. Cardinality(S \cup {t}) <= Cardinality(Threads)
  BY <1>3, ThreadsAssumption, FS_Subset
<1>5. Cardinality(Threads) \in Nat
  BY ThreadsAssumption, FS_CardinalityType
<1> QED
  BY <1>2, <1>4, <1>5, ThreadsAssumption

(* Counting a thread out again, as mt_releasePages does, likewise.         *)
LEMMA LeaveCount ==
    ASSUME NEW S \in SUBSET Threads, NEW t \in S
    PROVE  (Cardinality(S) - 1) % NumUsingMod = Cardinality(S \ {t})
<1>1. IsFiniteSet(S) /\ Cardinality(S) <= Cardinality(Threads)
  BY ThreadsAssumption, FS_Subset
<1>2. Cardinality(S) \in Nat /\ Cardinality(Threads) \in Nat
  BY <1>1, ThreadsAssumption, FS_CardinalityType
<1>3. IsFiniteSet(S \ {t}) /\ Cardinality(S \ {t}) = Cardinality(S) - 1
  BY <1>1, FS_RemoveElement
<1>4. Cardinality(S \ {t}) \in Nat
  BY <1>3, FS_CardinalityType
<1> QED
  BY <1>1, <1>2, <1>3, <1>4, ThreadsAssumption

(* The sets that are counted are finite, and counting them gives a number. *)
LEMMA CountNat ==
    ASSUME NEW S \in SUBSET Threads
    PROVE  IsFiniteSet(S) /\ Cardinality(S) \in Nat
BY ThreadsAssumption, FS_Subset, FS_CardinalityType

(* With at most one member, a set is the singleton of any member.          *)
LEMMA OnlyMember ==
    ASSUME NEW S \in SUBSET Threads, NEW t \in S, Cardinality(S) <= 1
    PROVE  S = {t}
<1>1. IsFiniteSet(S) /\ Cardinality(S) \in Nat
  BY CountNat
<1>2. IsFiniteSet(S \ {t}) /\ Cardinality(S \ {t}) = Cardinality(S) - 1
  BY <1>1, FS_RemoveElement
<1>3. Cardinality(S \ {t}) \in Nat
  BY <1>2, FS_CardinalityType
<1>4. Cardinality(S \ {t}) = 0
  BY <1>1, <1>2, <1>3
<1>5. S \ {t} = {}
  BY <1>2, <1>4, FS_EmptySet
<1> QED
  BY <1>5

(* Whoever num_using counts in a page is inside mt_navigateTo or between   *)
(* it and mt_releasePages for that page.                                   *)
LEMMA UsersVisit ==
    \A p \in Pages : /\ Users(p) \in SUBSET Visitors(p)
                     /\ Visitors(p) \in SUBSET Threads
BY DEF Users, Visitors, Counted, Mapping

-----------------------------------------------------------------------------
(* How a thread's move changes who is counted and who is inside.           *)

(* A step inside mt_navigateTo that leaves num_using alone changes neither *)
(* who is counted nor who is inside.                                       *)
LEMMA QuietMove ==
    ASSUME PageTypeOK, NEW t \in Threads, NEW s \in NavStates \ {"out"},
           Goto(t, s), UNCHANGED nav_page,
           nav_pc[t] # "out",
           Counted(t) <=> s \in {"remap", "map", "unlock", "using"}
    PROVE  \A p \in Pages : Users(p)' = Users(p) /\ Visitors(p)' = Visitors(p)
<1> USE DEF PageTypeOK, Goto, Counted, Mapping
<1> TAKE p \in Pages
<1>1. \A u \in Threads : u # t => nav_pc'[u] = nav_pc[u]
  OBVIOUS
<1>2. nav_pc'[t] = s
  OBVIOUS
<1>3. Users(p)' = Users(p)
  BY <1>1, <1>2 DEF Users
<1>4. Visitors(p)' = Visitors(p)
  BY <1>1, <1>2 DEF Visitors
<1> QED
  BY <1>3, <1>4

(* num_using++ under the lock: the thread joins the users of its page and  *)
(* of no other, and was inside already.                                    *)
LEMMA JoinMove ==
    ASSUME PageTypeOK, NEW t \in Threads, NEW s \in {"remap", "using"},
           Goto(t, s), UNCHANGED nav_page,
           nav_pc[t] # "out", ~Counted(t)
    PROVE  /\ t \notin Users(nav_page[t])
           /\ \A p \in Pages :
                /\ Users(p)' = IF p = nav_page[t] THEN Users(p) \cup {t} ELSE Users(p)
                /\ Visitors(p)' = Visitors(p)
<1> USE DEF PageTypeOK, Goto, Counted, Mapping
<1>1. \A u \in Threads : u # t => nav_pc'[u] = nav_pc[u]
  OBVIOUS
<1>2. nav_pc'[t] = s
  OBVIOUS
<1>3. t \notin Users(nav_page[t])
  BY DEF Users
<1>4. ASSUME NEW p \in Pages
      PROVE  /\ Users(p)' = IF p = nav_page[t] THEN Users(p) \cup {t} ELSE Users(p)
             /\ Visitors(p)' = Visitors(p)
  <2>1. CASE p = nav_page[t]
    BY <1>1, <1>2, <2>1 DEF Users, Visitors
  <2>2. CASE p # nav_page[t]
    BY <1>1, <1>2, <2>2 DEF Users, Visitors
  <2> QED
    BY <2>1, <2>2
<1> QED
  BY <1>3, <1>4

(* num_using-- in mt_releasePages: the thread leaves the users and the     *)
(* visitors of its page and of no other.                                   *)
LEMMA LeaveMove ==
    ASSUME PageTypeOK, NEW t \in Threads,
           Goto(t, "out"), UNCHANGED nav_page, nav_pc[t] = "using"
    PROVE  /\ t \in Users(nav_page[t]) /\ t \in Visitors(nav_page[t])
           /\ \A p \in Pages :
                /\ Users(p)' = IF p = nav_page[t] THEN Users(p) \ {t} ELSE Users(p)
                /\ Visitors(p)' = IF p = nav_page[t] THEN Visitors(p) \ {t}
                                                      ELSE Visitors(p)
<1> USE DEF PageTypeOK, Goto, Counted, Mapping
<1>1. \A u \in Threads : u # t => nav_pc'[u] = nav_pc[u]
  OBVIOUS
<1>2. nav_pc'[t] = "out"
  BY DEF NavStates
<1>3. t \in Users(nav_page[t]) /\ t \in Visitors(nav_page[t])
  BY DEF Users, Visitors
<1>4. ASSUME NEW p \in Pages
      PROVE  /\ Users(p)' = IF p = nav_page[t] THEN Users(p) \ {t} ELSE Users(p)
             /\ Visitors(p)' = IF p = nav_page[t] THEN Visitors(p) \ {t}
                                                   ELSE Visitors(p)
  <2>1. CASE p = nav_page[t]
    BY <1>1, <1>2, <2>1 DEF Users, Visitors
  <2>2. CASE p # nav_page[t]
    BY <1>1, <1>2, <2>2 DEF Users, Visitors
  <2> QED
    BY <2>1, <2>2
<1> QED
  BY <1>3, <1>4

-----------------------------------------------------------------------------
(* What initializePageObjects sets up satisfies the invariant.             *)
THEOREM PageInitInv == PageInit => PageInv
<1> SUFFICES ASSUME PageInit PROVE PageInv
  OBVIOUS
<1> USE DEF PageInit
<1>1. PageTypeOK
  BY SizesAssumption, ThreadsAssumption, CountNat DEF PageTypeOK, NavStates
<1>2. \A p \in Pages : Users(p) = {} /\ Visitors(p) = {}
  BY DEF Users, Visitors, Counted, Mapping
<1>3. UsersCounted /\ VisitorsPending
  <2>1. Cardinality({}) = 0
    BY FS_EmptySet
  <2>2. \A p \in Pages : num_using[p] = 0 /\ total_num_mappings[p] = 0
    OBVIOUS
  <2> HIDE DEF PageInit
  <2>3. \A p \in Pages : Cardinality(Users(p)) = 0 /\ Cardinality(Visitors(p)) = 0
    BY <1>2, <2>1
  <2>4. UsersCounted
    BY <2>2, <2>3 DEF UsersCounted
  <2>5. VisitorsPending
    BY <2>2, <2>3 DEF VisitorsPending
  <2> QED
    BY <2>4, <2>5
<1>4. InUseMapped /\ MapperAlone /\ MappedIsPending /\ BuiltMapped
  BY DEF InUseMapped, MapperAlone, MappedIsPending, BuiltMapped, Mapping
<1>5. SizesAgree
  BY DEF SizesAgree
<1> QED
  BY <1>1, <1>3, <1>4, <1>5 DEF PageInv

(* The unlocked tests, and the locked ones that fail, only move the thread *)
(* between the places where it holds nothing.                              *)
LEMMA LookAgainKeeps ==
    ASSUME PageInv, NEW t \in Threads,
           nav_pc[t] \in {"check", "confirm", "claim", "lock"},
           NEW s \in {"check", "confirm", "claim", "lock"}, Goto(t, s),
           UNCHANGED <<pageFields, lock, nav_page, nav_need>>
    PROVE  PageInv'
<1> USE DEF PageInv, pageFields
<1>1. PageTypeOK'
  BY DEF PageTypeOK, Goto, NavStates
<1>2. \A p \in Pages : Users(p)' = Users(p) /\ Visitors(p)' = Visitors(p)
  BY QuietMove DEF NavStates, Counted, Mapping
<1>3. \A u \in Threads : u # t => nav_pc'[u] = nav_pc[u]
  BY DEF Goto, PageTypeOK
<1>4. nav_pc'[t] = s
  BY DEF Goto, PageTypeOK
<1>5. UsersCounted' /\ VisitorsPending' /\ MappedIsPending'
  BY <1>2 DEF UsersCounted, VisitorsPending, MappedIsPending
<1>6. InUseMapped' /\ BuiltMapped' /\ SizesAgree'
  BY <1>3, <1>4 DEF InUseMapped, BuiltMapped, SizesAgree
<1>7. MapperAlone'
  <2>1. \A u \in Threads : Mapping(u)' <=> Mapping(u)
    BY <1>3, <1>4 DEF Mapping
  <2>2. \A p \in Pages : lock[p] # NoThread => lock[p] \in Threads
    BY DEF PageTypeOK
  <2> QED
    BY <1>2, <2>1, <2>2 DEF MapperAlone
<1> QED
  BY <1>1, <1>5, <1>6, <1>7

(* The second size test, in the lock, is what makes the hit safe: with the *)
(* lock free nobody is remapping, so the mapping is there to stay.         *)
LEMMA ConfirmHitKeeps ==
    ASSUME PageInv, NEW t \in Threads, ConfirmHit(t)
    PROVE  PageInv'
<1> DEFINE p == nav_page[t]
<1> USE DEF PageInv
<1>a. p \in Pages
  BY DEF PageTypeOK
<1>2. /\ t \notin Users(p)
      /\ \A q \in Pages : /\ Users(q)' = IF q = p THEN Users(q) \cup {t} ELSE Users(q)
                          /\ Visitors(q)' = Visitors(q)
  BY JoinMove DEF ConfirmHit, Counted, Mapping
<1>3. \A u \in Threads : u # t => nav_pc'[u] = nav_pc[u]
  BY DEF ConfirmHit, Goto, PageTypeOK
<1>4. nav_pc'[t] = "using" /\ nav_pc[t] = "confirm"
  BY DEF ConfirmHit, Goto, PageTypeOK
<1>5. UsersCounted'
  <2>1. num_using'[p] = (num_using[p] + 1) % NumUsingMod
    BY <1>a DEF ConfirmHit, IncUsing, PageTypeOK
  <2>2. \A q \in Pages : q # p => num_using'[q] = num_using[q]
    BY <1>a DEF ConfirmHit, IncUsing, PageTypeOK
  <2>3. num_using'[p] = Cardinality(Users(p) \cup {t})
    BY <1>2, <1>a, <2>1, UsersVisit, JoinCount DEF UsersCounted
  <2> QED
    BY <1>2, <2>2, <2>3 DEF UsersCounted
<1>1. PageTypeOK'
  <2>1. num_using' \in [Pages -> 0 .. NumUsingMod - 1]
    BY ThreadsAssumption, CountNat DEF ConfirmHit, IncUsing, PageTypeOK
  <2> QED
    BY <2>1 DEF ConfirmHit, PageTypeOK, Goto, NavStates
<1>6. VisitorsPending' /\ MappedIsPending'
  BY <1>2 DEF VisitorsPending, MappedIsPending, ConfirmHit
<1>7. is_mapped[p] /\ nav_need[t] <= map_size[p]
  <2>1. nav_need[t] > 0 /\ nav_need[t] \in Nat /\ map_size[p] \in Nat
    BY <1>a, <1>4 DEF SizesAgree, PageTypeOK
  <2> QED
    BY <1>a, <2>1 DEF SizesAgree, ConfirmHit
<1>8. InUseMapped' /\ BuiltMapped' /\ SizesAgree'
  BY <1>3, <1>4, <1>7 DEF InUseMapped, BuiltMapped, SizesAgree, ConfirmHit
<1>9. MapperAlone'
  <2>1. \A u \in Threads : Mapping(u)' <=> Mapping(u)
    BY <1>3, <1>4 DEF Mapping
  <2>2. \A q \in Pages : lock[q] # NoThread => lock[q] \in Threads /\ q # p
    BY DEF PageTypeOK, ConfirmHit
  <2> QED
    BY <1>2, <2>1, <2>2 DEF MapperAlone, ConfirmHit
<1> QED
  BY <1>1, <1>5, <1>6, <1>8, <1>9

(* The second num_using test, in the lock: the count being exact, 0 means  *)
(* that nobody uses the mapping about to be replaced.                      *)
LEMMA ClaimPageKeeps ==
    ASSUME PageInv, NEW t \in Threads, ClaimPage(t)
    PROVE  PageInv'
<1> DEFINE p == nav_page[t]
<1> USE DEF PageInv
<1>a. p \in Pages
  BY DEF PageTypeOK
<1>2. /\ t \notin Users(p)
      /\ \A q \in Pages : /\ Users(q)' = IF q = p THEN Users(q) \cup {t} ELSE Users(q)
                          /\ Visitors(q)' = Visitors(q)
  BY JoinMove DEF ClaimPage, Counted, Mapping
<1>3. \A u \in Threads : u # t => nav_pc'[u] = nav_pc[u]
  BY DEF ClaimPage, Goto, PageTypeOK
<1>4. nav_pc'[t] = "remap" /\ nav_pc[t] = "lock"
  BY DEF ClaimPage, Goto, PageTypeOK
<1>5. UsersCounted'
  <2>1. num_using'[p] = (num_using[p] + 1) % NumUsingMod
    BY <1>a DEF ClaimPage, IncUsing, PageTypeOK
  <2>2. \A q \in Pages : q # p => num_using'[q] = num_using[q]
    BY <1>a DEF ClaimPage, IncUsing, PageTypeOK
  <2>3. num_using'[p] = Cardinality(Users(p) \cup {t})
    BY <1>2, <1>a, <2>1, UsersVisit, JoinCount DEF UsersCounted
  <2> QED
    BY <1>2, <2>2, <2>3 DEF UsersCounted
<1>1. PageTypeOK'
  <2>1. num_using' \in [Pages -> 0 .. NumUsingMod - 1]
    BY ThreadsAssumption, CountNat DEF ClaimPage, IncUsing, PageTypeOK
  <2> QED
    BY <2>1 DEF ClaimPage, PageTypeOK, Goto, NavStates
<1>6. VisitorsPending' /\ MappedIsPending'
  BY <1>2 DEF VisitorsPending, MappedIsPending, ClaimPage
<1>7. Users(p) = {}
  BY <1>a, CountNat, UsersVisit, FS_EmptySet DEF UsersCounted, ClaimPage
<1>8. InUseMapped' /\ BuiltMapped' /\ SizesAgree'
  BY <1>3, <1>4 DEF InUseMapped, BuiltMapped, SizesAgree, ClaimPage
<1>9. MapperAlone'
  <2>1. \A u \in Threads : u # t => (Mapping(u)' <=> Mapping(u))
    BY <1>3 DEF Mapping
  <2>2. Mapping(t)'
    BY <1>4 DEF Mapping
  <2>3. lock'[p] = t /\ \A q \in Pages : q # p => lock'[q] = lock[q]
    BY <1>a DEF ClaimPage, PageTypeOK
  <2>4. ASSUME NEW q \in Pages, lock'[q] # NoThread
        PROVE  Users(q)' = {lock'[q]} /\ Mapping(lock[q])'
    <3>1. CASE q = p
      BY <3>1, <1>2, <1>7, <2>2, <2>3 DEF Mapping, ClaimPage
    <3>2. CASE q # p
      <4>1. lock[q] \in Threads /\ Users(q) = {lock[q]} /\ Mapping(lock[q])
        BY <2>3, <2>4, <3>2 DEF MapperAlone, PageTypeOK
      <4>2. lock[q] # t
        BY <4>1, <1>4 DEF Mapping
      <4> QED
        BY <3>2, <4>1, <4>2, <1>2, <2>1, <2>3 DEF Mapping
    <3> QED
      BY <3>1, <3>2
  <2>5. ASSUME NEW u \in Threads, Mapping(u)'
        PROVE  lock'[nav_page'[u]] = u
    <3>1. CASE u = t
      BY <3>1, <2>3 DEF ClaimPage
    <3>2. CASE u # t
      <4>1. lock[nav_page[u]] = u /\ nav_page[u] \in Pages
        BY <2>1, <2>5, <3>2 DEF MapperAlone, PageTypeOK
      <4>2. nav_page[u] # p
        BY <4>1, ThreadsAssumption DEF ClaimPage
      <4> QED
        BY <4>1, <4>2, <2>3 DEF ClaimPage
    <3> QED
      BY <3>1, <3>2
  <2> QED
    BY <2>4, <2>5 DEF MapperAlone
<1> QED
  BY <1>1, <1>5, <1>6, <1>8, <1>9

(* Dropping the old mapping under the lock: nobody else is counted.        *)
LEMMA DropStaleKeeps ==
    ASSUME PageInv, NEW t \in Threads, DropStale(t)
    PROVE  PageInv'
<1> DEFINE p == nav_page[t]
<1> USE DEF PageInv
<1>a. p \in Pages
  BY DEF PageTypeOK
<1>1. PageTypeOK'
  BY DEF DropStale, FreePageObject, Goto, PageTypeOK, NavStates
<1>2. \A q \in Pages : Users(q)' = Users(q) /\ Visitors(q)' = Visitors(q)
  BY QuietMove DEF DropStale, NavStates, Counted, Mapping
<1>3. \A u \in Threads : u # t => nav_pc'[u] = nav_pc[u]
  BY DEF DropStale, Goto, PageTypeOK
<1>4. nav_pc'[t] = "map" /\ nav_pc[t] = "remap"
  BY DEF DropStale, Goto, PageTypeOK
<1>5. Users(p) = {t}
  BY <1>a, <1>4, ThreadsAssumption DEF MapperAlone, Mapping
<1>6. \A u \in Threads : nav_pc[u] \in {"using", "unlock"} => nav_page[u] # p
  BY <1>4, <1>5 DEF Users, Counted, Mapping
<1>7. /\ is_mapped' = [is_mapped EXCEPT ![p] = FALSE]
      /\ map_size' = [map_size EXCEPT ![p] = 0]
  BY <1>a DEF DropStale, FreePageObject, SizesAgree, PageTypeOK
<1>8. UsersCounted' /\ VisitorsPending'
  BY <1>2 DEF UsersCounted, VisitorsPending, DropStale
<1>9. MappedIsPending' /\ SizesAgree'
  BY <1>3, <1>4, <1>7 DEF MappedIsPending, SizesAgree, DropStale, PageTypeOK
<1>10. InUseMapped' /\ BuiltMapped'
  BY <1>3, <1>4, <1>6, <1>7 DEF InUseMapped, BuiltMapped, DropStale, PageTypeOK
<1>11. MapperAlone'
  <2>1. \A u \in Threads : Mapping(u)' <=> Mapping(u)
    BY <1>3, <1>4 DEF Mapping
  <2> QED
    BY <1>2, <2>1 DEF MapperAlone, DropStale, PageTypeOK
<1> QED
  BY <1>1, <1>8, <1>9, <1>10, <1>11

(* mmap: the page's maker stands for a chunk still to be released.         *)
LEMMA MapPageKeeps ==
    ASSUME PageInv, NEW t \in Threads, MapPage(t)
    PROVE  PageInv'
<1> DEFINE p == nav_page[t]
<1> USE DEF PageInv
<1>a. p \in Pages
  BY DEF PageTypeOK
<1>1. PageTypeOK'
  BY DEF MapPage, Goto, PageTypeOK, NavStates
<1>2. \A q \in Pages : Users(q)' = Users(q) /\ Visitors(q)' = Visitors(q)
  BY QuietMove DEF MapPage, NavStates, Counted, Mapping
<1>3. \A u \in Threads : u # t => nav_pc'[u] = nav_pc[u]
  BY DEF MapPage, Goto, PageTypeOK
<1>4. nav_pc'[t] = "unlock" /\ nav_pc[t] = "map"
  BY DEF MapPage, Goto, PageTypeOK
<1>5. Users(p) = {t}
  BY <1>a, <1>4, ThreadsAssumption DEF MapperAlone, Mapping
<1>6. \A u \in Threads : nav_pc[u] \in {"using", "unlock"} => nav_page[u] # p
  BY <1>4, <1>5 DEF Users, Counted, Mapping
<1>7. total_num_mappings[p] > 0
  <2>1. t \in Visitors(p) /\ Visitors(p) \in SUBSET Threads
    BY <1>4 DEF Visitors
  <2>2. Cardinality(Visitors(p)) \in Nat /\ Cardinality(Visitors(p)) # 0
    BY <2>1, CountNat, FS_EmptySet
  <2> QED
    BY <1>a, <2>2 DEF VisitorsPending, PageTypeOK
<1>8. UsersCounted' /\ VisitorsPending'
  BY <1>2 DEF UsersCounted, VisitorsPending, MapPage
<1>9. MappedIsPending' /\ SizesAgree'
  BY <1>3, <1>4, <1>7 DEF MappedIsPending, SizesAgree, MapPage, PageTypeOK
<1>10. InUseMapped' /\ BuiltMapped'
  BY <1>3, <1>4, <1>6 DEF InUseMapped, BuiltMapped, MapPage, PageTypeOK
<1>11. MapperAlone'
  <2>1. \A u \in Threads : Mapping(u)' <=> Mapping(u)
    BY <1>3, <1>4 DEF Mapping
  <2> QED
    BY <1>2, <2>1 DEF MapperAlone, MapPage, PageTypeOK
<1> QED
  BY <1>1, <1>8, <1>9, <1>10, <1>11

(* Unlocking publishes a mapping that is already large enough.             *)
LEMMA UnlockPageKeeps ==
    ASSUME PageInv, NEW t \in Threads, UnlockPage(t)
    PROVE  PageInv'
<1> DEFINE p == nav_page[t]
<1> USE DEF PageInv, pageFields
<1>a. p \in Pages
  BY DEF PageTypeOK
<1>1. PageTypeOK'
  BY DEF UnlockPage, Goto, PageTypeOK, NavStates
<1>2. \A q \in Pages : Users(q)' = Users(q) /\ Visitors(q)' = Visitors(q)
  BY QuietMove DEF UnlockPage, NavStates, Counted, Mapping
<1>3. \A u \in Threads : u # t => nav_pc'[u] = nav_pc[u]
  BY DEF UnlockPage, Goto, PageTypeOK
<1>4. nav_pc'[t] = "using" /\ nav_pc[t] = "unlock"
  BY DEF UnlockPage, Goto, PageTypeOK
<1>8. UsersCounted' /\ VisitorsPending'
  BY <1>2 DEF UsersCounted, VisitorsPending, UnlockPage
<1>9. MappedIsPending' /\ SizesAgree'
  BY <1>3, <1>4 DEF MappedIsPending, SizesAgree, UnlockPage
<1>10. InUseMapped' /\ BuiltMapped'
  BY <1>3, <1>4 DEF InUseMapped, BuiltMapped, UnlockPage
<1>11. MapperAlone'
  <2>1. \A u \in Threads \ {t} : Mapping(u)' <=> Mapping(u)
    BY <1>3 DEF Mapping
  <2>2. ~Mapping(t)' /\ Mapping(t)
    BY <1>4 DEF Mapping
  <2>3. lock[p] = t /\ lock' = [lock EXCEPT ![p] = NoThread]
    BY <2>2 DEF MapperAlone, UnlockPage
  <2>4. ASSUME NEW q \in Pages, lock'[q] # NoThread
        PROVE  Users(q)' = {lock'[q]} /\ Mapping(lock[q])'
    <3>1. q # p /\ lock'[q] = lock[q]
      BY <2>3, <2>4 DEF PageTypeOK
    <3>2. lock[q] \in Threads /\ Users(q) = {lock[q]} /\ Mapping(lock[q])
      BY <2>4, <3>1 DEF MapperAlone, PageTypeOK
    <3>3. lock[q] # t
      BY <3>1, <3>2 DEF Users
    <3> QED
      BY <1>2, <2>1, <3>1, <3>2, <3>3 DEF Mapping
  <2>5. ASSUME NEW u \in Threads, Mapping(u)'
        PROVE  lock'[nav_page'[u]] = u
    <3>1. u # t /\ Mapping(u)
      BY <2>1, <2>2, <2>5
    <3>2. lock[nav_page[u]] = u /\ nav_page[u] \in Pages
      BY <3>1 DEF MapperAlone, PageTypeOK
    <3> QED
      BY <2>3, <3>1, <3>2 DEF UnlockPage, PageTypeOK
  <2> QED
    BY <2>4, <2>5 DEF MapperAlone
<1> QED
  BY <1>1, <1>8, <1>9, <1>10, <1>11

(* fillNode's registration only raises max_map_size and the count of       *)
(* releases to come; a thread inside keeps the size it read before.        *)
LEMMA RegisterKeeps ==
    ASSUME PageInv, NEW p \in Pages, NEW e \in Extents, Register(p, e)
    PROVE  PageInv'
<1> USE DEF PageInv
<1>1. PageTypeOK' /\ max_map_size'[p] > 0
  BY SizesAssumption DEF Register, MaxOf, PageTypeOK
<1>2. \A q \in Pages : Users(q)' = Users(q) /\ Visitors(q)' = Visitors(q)
  BY DEF Register, Users, Visitors, Counted, Mapping
<1>3. \A q \in Pages : Cardinality(Visitors(q)) \in Nat
  BY CountNat DEF Visitors
<1>4. UsersCounted' /\ VisitorsPending' /\ MappedIsPending'
  BY <1>2, <1>3 DEF UsersCounted, VisitorsPending, MappedIsPending, Register, PageTypeOK
<1>5. SizesAgree'
  BY <1>1 DEF SizesAgree, Register, PageTypeOK
<1>6. InUseMapped' /\ BuiltMapped'
  BY DEF InUseMapped, BuiltMapped, Register
<1>7. MapperAlone'
  BY <1>2 DEF MapperAlone, Mapping, Register
<1> QED
  BY <1>1, <1>4, <1>5, <1>6, <1>7

(* Entering mt_navigateTo for a registered chunk: the size asked for is    *)
(* not 0, and a release is still to come for everyone inside.              *)
LEMMA NavigateKeeps ==
    ASSUME PageInv, NEW t \in Threads, NEW p \in Pages, Navigate(t, p)
    PROVE  PageInv'
<1> USE DEF PageInv, pageFields
<1>1. PageTypeOK'
  BY DEF Navigate, EnterPage, Goto, PageTypeOK, NavStates
<1>2. \A u \in Threads : u # t => nav_pc'[u] = nav_pc[u] /\ nav_page'[u] = nav_page[u]
                                  /\ nav_need'[u] = nav_need[u]
  BY DEF Navigate, EnterPage, Goto, PageTypeOK
<1>3. /\ nav_pc'[t] = "check" /\ nav_pc[t] = "out"
      /\ nav_page'[t] = p /\ nav_need'[t] = max_map_size[p]
  BY DEF Navigate, EnterPage, Goto, PageTypeOK
<1>4. \A u \in Threads : (Mapping(u)' <=> Mapping(u)) /\ (Counted(u)' <=> Counted(u))
  BY <1>2, <1>3 DEF Mapping, Counted
<1>5. \A q \in Pages : Users(q)' = Users(q)
  BY <1>2, <1>3, <1>4 DEF Users, Counted, Mapping
<1>6. \A q \in Pages : Visitors(q)' = IF q = p THEN Visitors(q) \cup {t} ELSE Visitors(q)
  BY <1>2, <1>3 DEF Visitors
<1>7. t \notin Visitors(p) /\ Visitors(p) \in SUBSET Threads
  BY <1>3 DEF Visitors
<1>8. Cardinality(Visitors(p)) \in Nat
      /\ Cardinality(Visitors(p) \cup {t}) = Cardinality(Visitors(p)) + 1
  BY <1>7, CountNat, FS_AddElement
<1>9. VisitorsPending'
  <2>1. Cardinality(Visitors(p) \cup {t}) <= total_num_mappings[p]
    BY <1>8 DEF Navigate, EnterPage, PageTypeOK
  <2> QED
    BY <1>6, <2>1 DEF VisitorsPending, Navigate, EnterPage
<1>10. total_num_mappings[p] > 0
  BY <1>8 DEF Navigate, EnterPage, PageTypeOK
<1>11. UsersCounted' /\ MappedIsPending'
  BY <1>5 DEF UsersCounted, MappedIsPending, Navigate, EnterPage
<1>12. InUseMapped' /\ BuiltMapped' /\ SizesAgree'
  BY <1>2, <1>3, <1>10 DEF InUseMapped, BuiltMapped, SizesAgree, Navigate, EnterPage
<1>13. MapperAlone'
  <2>1. \A q \in Pages : lock[q] # NoThread => lock[q] \in Threads
    BY DEF PageTypeOK
  <2>2. \A u \in Threads : Mapping(u) => u # t
    BY <1>3 DEF Mapping
  <2> QED
    BY <1>2, <1>4, <1>5, <2>1, <2>2 DEF MapperAlone, Navigate, EnterPage
<1> QED
  BY <1>1, <1>9, <1>11, <1>12, <1>13

(* The release that unmaps is the last one, and then nobody else is inside *)
(* the page: VisitorsPending is what makes total_num_mappings a safe test. *)
LEMMA ReleasePagesKeeps ==
    ASSUME PageInv, NEW t \in Threads, ReleasePages(t)
    PROVE  PageInv'
<1> DEFINE p == nav_page[t]
<1> USE DEF PageInv
<1>a. p \in Pages
  BY DEF PageTypeOK
<1>1. nav_pc'[t] = "out" /\ nav_pc[t] = "using"
  BY DEF ReleasePages, Goto, PageTypeOK
<1>2. \A u \in Threads : u # t => nav_pc'[u] = nav_pc[u]
  BY DEF ReleasePages, Goto, PageTypeOK
<1>3. /\ t \in Users(p) /\ t \in Visitors(p)
      /\ \A q \in Pages :
            /\ Users(q)' = IF q = p THEN Users(q) \ {t} ELSE Users(q)
            /\ Visitors(q)' = IF q = p THEN Visitors(q) \ {t} ELSE Visitors(q)
  BY LeaveMove DEF ReleasePages
<1>4. /\ Visitors(p) \in SUBSET Threads
      /\ IsFiniteSet(Visitors(p)) /\ Cardinality(Visitors(p)) \in Nat
  BY CountNat DEF Visitors
<1>5. /\ Cardinality(Visitors(p) \ {t}) = Cardinality(Visitors(p)) - 1
      /\ Cardinality(Visitors(p) \ {t}) \in Nat
  BY <1>3, <1>4, FS_RemoveElement, FS_CardinalityType
<1>6. total_num_mappings[p] \in Nat \ {0}
  BY <1>a, <1>4, <1>5 DEF VisitorsPending, PageTypeOK
<1>7. total_num_mappings' = [total_num_mappings EXCEPT ![p] = total_num_mappings[p] - 1]
  BY DEF ReleasePages
<1>8. UsersCounted'
  <2>1. num_using'[p] = (num_using[p] - 1) % NumUsingMod
    BY <1>a DEF ReleasePages, DecUsing, PageTypeOK
  <2>2. \A q \in Pages : q # p => num_using'[q] = num_using[q]
    BY <1>a DEF ReleasePages, DecUsing, PageTypeOK
  <2>3. num_using'[p] = Cardinality(Users(p) \ {t})
    BY <1>3, <1>a, <2>1, UsersVisit, LeaveCount DEF UsersCounted
  <2> QED
    BY <1>3, <2>2, <2>3 DEF UsersCounted
<1>9. /\ \A q \in Pages : q # p => is_mapped'[q] = is_mapped[q] /\ map_size'[q] = map_size[q]
      /\ total_num_mappings[p] = 1 => ~is_mapped'[p] /\ map_size'[p] = 0
      /\ total_num_mappings[p] # 1 => is_mapped'[p] = is_mapped[p] /\ map_size'[p] = map_size[p]
  BY <1>a DEF ReleasePages, FreePageObject, SizesAgree, PageTypeOK
<1>10. PageTypeOK'
  <2>1. num_using' \in [Pages -> 0 .. NumUsingMod - 1]
    BY ThreadsAssumption, CountNat DEF ReleasePages, DecUsing, PageTypeOK
  <2>2. total_num_mappings' \in [Pages -> Nat]
    BY <1>6, <1>7 DEF PageTypeOK
  <2>3. is_mapped' \in [Pages -> BOOLEAN] /\ map_size' \in [Pages -> Nat]
    <3>1. CASE total_num_mappings[p] = 1
      <4>1. FreePageObject(p)
        BY <3>1 DEF ReleasePages
      <4> QED
        BY <1>a, <4>1 DEF FreePageObject, PageTypeOK
    <3>2. CASE total_num_mappings[p] # 1
      BY <3>2 DEF ReleasePages, PageTypeOK
    <3> QED
      BY <3>1, <3>2
  <2> QED
    BY <2>1, <2>2, <2>3 DEF ReleasePages, PageTypeOK, Goto, NavStates
<1>11. total_num_mappings[p] = 1 =>
          \A u \in Threads : u # t /\ nav_pc[u] # "out" => nav_page[u] # p
  <2> SUFFICES ASSUME total_num_mappings[p] = 1 PROVE Visitors(p) = {t}
    BY DEF Visitors
  <2>1. Cardinality(Visitors(p)) <= 1
    BY <1>a DEF VisitorsPending
  <2> QED
    BY <1>3, <1>4, <2>1, OnlyMember
<1>12. VisitorsPending'
  <2>1. Cardinality(Visitors(p)) <= total_num_mappings[p]
    BY <1>a DEF VisitorsPending
  <2>2. total_num_mappings'[p] = total_num_mappings[p] - 1
    BY <1>a, <1>7 DEF PageTypeOK
  <2>3. Cardinality(Visitors(p) \ {t}) <= total_num_mappings'[p]
    BY <1>4, <1>5, <1>6, <2>1, <2>2
  <2>4. \A q \in Pages : q # p => total_num_mappings'[q] = total_num_mappings[q]
    BY <1>7 DEF PageTypeOK
  <2>5. ASSUME NEW q \in Pages PROVE Cardinality(Visitors(q)') <= total_num_mappings'[q]
    BY <1>3, <2>3, <2>4 DEF VisitorsPending
  <2> QED
    BY <2>5 DEF VisitorsPending
<1>13. MappedIsPending'
  BY <1>a, <1>6, <1>7, <1>9 DEF MappedIsPending, PageTypeOK
<1>14. SizesAgree'
  <2>1. \A q \in Pages : ~is_mapped'[q] => map_size'[q] = 0
    BY <1>9 DEF SizesAgree
  <2>2. \A q \in Pages : total_num_mappings'[q] > 0 => max_map_size'[q] > 0
    BY <1>a, <1>6, <1>7 DEF SizesAgree, PageTypeOK, ReleasePages
  <2>3. \A u \in Threads : nav_pc'[u] # "out" => nav_need'[u] > 0
    BY <1>1, <1>2 DEF SizesAgree, ReleasePages
  <2> QED
    BY <2>1, <2>2, <2>3 DEF SizesAgree
<1>15. InUseMapped' /\ BuiltMapped'
  BY <1>1, <1>2, <1>9, <1>11 DEF InUseMapped, BuiltMapped, ReleasePages, PageTypeOK
<1>16. MapperAlone'
  <2>1. \A u \in Threads : Mapping(u)' <=> Mapping(u)
    BY <1>1, <1>2 DEF Mapping
  <2>2. \A q \in Pages : lock[q] # NoThread => lock[q] \in Threads /\ q # p
    BY DEF PageTypeOK, ReleasePages
  <2> QED
    BY <1>3, <2>1, <2>2 DEF MapperAlone, ReleasePages
<1> QED
  BY <1>8, <1>10, <1>12, <1>13, <1>14, <1>15, <1>16

(* destroyPageObjects with nobody inside.                                  *)
LEMMA DestroyKeeps ==
    ASSUME PageInv, DestroyPageObjects
    PROVE  PageInv'
<1> USE DEF PageInv, DestroyPageObjects, ResetPages
<1>1. \A p \in Pages : Users(p) = {} /\ Users(p)' = {} /\ Visitors(p)' = {}
  BY DEF Users, Visitors, Counted, Mapping
<1>2. \A p \in Pages : lock[p] = NoThread
  BY <1>1 DEF MapperAlone
<1>3. PageTypeOK'
  BY ThreadsAssumption, CountNat DEF PageTypeOK
<1>4. UsersCounted' /\ VisitorsPending'
  BY <1>1, FS_EmptySet DEF UsersCounted, VisitorsPending
<1>5. InUseMapped' /\ MappedIsPending' /\ BuiltMapped' /\ SizesAgree'
  BY DEF InUseMapped, MappedIsPending, BuiltMapped, SizesAgree
<1>6. MapperAlone'
  BY <1>2 DEF MapperAlone, Mapping
<1> QED
  BY <1>3, <1>4, <1>5, <1>6

-----------------------------------------------------------------------------
(* Every step of mt_navigateTo, mt_releasePages, fillNode's registration   *)
(* and destroyPageObjects keeps the invariant.                             *)
THEOREM PageNextInv == PageInv /\ [PageNext]_pageVars => PageInv'
<1> SUFFICES ASSUME PageInv, [PageNext]_pageVars PROVE PageInv'
  OBVIOUS
<1>1. ASSUME NEW p \in Pages, NEW e \in Extents, Register(p, e) PROVE PageInv'
  BY <1>1, RegisterKeeps
<1>2. ASSUME NEW t \in Threads, NEW p \in Pages, Navigate(t, p) PROVE PageInv'
  BY <1>2, NavigateKeeps
<1>3. ASSUME NEW t \in Threads, NavigateStep(t) PROVE PageInv'
  <2>1. CASE CheckSize(t)
    BY <2>1, LookAgainKeeps DEF CheckSize
  <2>2. CASE ConfirmHit(t)
    BY <2>2, ConfirmHitKeeps
  <2>3. CASE ConfirmMiss(t)
    BY <2>3, LookAgainKeeps DEF ConfirmMiss
  <2>4. CASE CheckIdle(t)
    BY <2>4, LookAgainKeeps DEF CheckIdle
  <2>5. CASE ClaimPage(t)
    BY <2>5, ClaimPageKeeps
  <2>6. CASE ClaimLost(t)
    BY <2>6, LookAgainKeeps DEF ClaimLost
  <2>7. CASE DropStale(t)
    BY <2>7, DropStaleKeeps
  <2>8. CASE MapPage(t)
    BY <2>8, MapPageKeeps
  <2>9. CASE UnlockPage(t)
    BY <2>9, UnlockPageKeeps
  <2> QED
    BY <1>3, <2>1, <2>2, <2>3, <2>4, <2>5, <2>6, <2>7, <2>8, <2>9 DEF NavigateStep
<1>4. ASSUME NEW t \in Threads, ReleasePages(t) PROVE PageInv'
  BY <1>4, ReleasePagesKeeps
<1>5. CASE DestroyPageObjects
  BY <1>5, DestroyKeeps
<1>6. CASE UNCHANGED pageVars
  BY <1>6 DEF pageVars, pageFields, PageInv, PageTypeOK, InUseMapped, UsersCounted,
              MapperAlone, MappedIsPending, VisitorsPending, SizesAgree, BuiltMapped,
              Users, Visitors, Counted, Mapping
<1> QED
  BY <1>1, <1>2, <1>3, <1>4, <1>5, <1>6 DEF PageNext

(* The inductive invariant holds in every reachable state of the page      *)
(* table, for any number of threads below NumUsingMod and any pages.       *)
THEOREM PageInvariance == PageSpec => []PageInv
<1>1. PageInit => PageInv
  BY PageInitInv
<1>2. PageInv /\ [PageNext]_pageVars => PageInv'
  BY PageNextInv
<1> QED
  BY <1>1, <1>2, PTL DEF PageSpec

(* Every variable keeps its type: num_using stays a uint8_t and            *)
(* total_num_mappings never goes below 0, whatever the threads do.         *)
THEOREM PageTypeInvariance == PageSpec => []PageTypeOK
<1>1. PageInv => PageTypeOK
  BY DEF PageInv
<1> QED
  BY <1>1, PageInvariance, PTL

(* No thread ever reads through a pointer mt_navigateTo gave it after the  *)
(* memory was unmapped or replaced by a smaller mapping.                   *)
THEOREM InUseStaysMapped == PageSpec => []InUseMapped
<1>1. PageInv => InUseMapped
  BY DEF PageInv
<1> QED
  BY <1>1, PageInvariance, PTL

(* num_using is exact at every moment, with fewer threads than a uint8_t   *)
(* can count.                                                              *)
THEOREM UsersAreCounted == PageSpec => []UsersCounted
<1>1. PageInv => UsersCounted
  BY DEF PageInv
<1> QED
  BY <1>1, PageInvariance, PTL

(* A page is remapped by one thread alone.                                 *)
THEOREM MapperIsAlone == PageSpec => []MapperAlone
<1>1. PageInv => MapperAlone
  BY DEF PageInv
<1> QED
  BY <1>1, PageInvariance, PTL

(* The last release of a page leaves it unmapped.                          *)
THEOREM MappedStaysPending == PageSpec => []MappedIsPending
<1>1. PageInv => MappedIsPending
  BY DEF PageInv
<1> QED
  BY <1>1, PageInvariance, PTL

-----------------------------------------------------------------------------
LoadTypeOK ==
    /\ is_super_mapped \in BOOLEAN /\ multithread \in BOOLEAN /\ main_thread_ready \in BOOLEAN
    /\ trees \in Forests /\ dataset \in 0 .. Len(trees)
    /\ main_pc \in MainStates
    /\ recorded \in 0 .. Len(Met)
    /\ merged \in 0 .. NumPages /\ joined \in 0 .. NumThreads
    /\ data_page_buckets \in [Pages -> Seq(Chunks)]
    /\ mt_data_queue \in Seq(Chunks)
    /\ thread_mtx \in Threads \cup {NoThread}
    /\ worker_pc \in [Threads -> WorkerStates]
    /\ chunk \in [Threads -> Chunks \cup {NoChunk}]
    /\ err \in {0, 1} /\ ret \in {0, 1}
    /\ placed \in SUBSET Chunks

(* What a worker's place in doInflate_ says of the rest of its state.      *)
Hands ==
    /\ \A t \in Threads :
         /\ chunk[t] # NoChunk <=> worker_pc[t] \in {"inflate", "release", "switch", "fail", "place"}
         /\ nav_pc[t] # "out" <=> ~is_super_mapped /\ worker_pc[t] \in {"inflate", "release"}
         /\ nav_pc[t] # "out" => nav_page[t] = PageOf[chunk[t]]
         /\ worker_pc[t] = "finish" => mt_data_queue = <<>>
    /\ thread_mtx # NoThread => worker_pc[thread_mtx] = "sleep"

Idle(t)  == worker_pc[t] = "none"
Early(t) == worker_pc[t] \in {"alloc", "sync", "sleep", "waiting", "done"}
Over(t)  == worker_pc[t] \in {"done", "none"}
NotYet   == multithread /\ ~main_thread_ready /\ \A t \in Threads : Early(t)

(* What the main thread's place says of the workers, the buckets and err.  *)
(* The conjunct with Over is why a load that returns 0 has emptied the     *)
(* queue: workers only stop with chunks left after setting err.            *)
Phases ==
    /\ main_pc \in {"fill", "merge", "ready"} =>
         /\ joined = 0
         /\ NotYet \/ (~multithread /\ \A t \in Threads : Idle(t))
         /\ \A t \in Threads : worker_pc[t] = "done" => err = 1
    /\ main_pc = "fill" => merged = 0
    /\ main_pc = "ready" => multithread
    /\ main_pc \in {"broadcast", "join"} => multithread /\ joined < NumThreads
    /\ main_pc \in {"broadcast", "join"} => \A t \in 1 .. joined : Idle(t)
    /\ main_pc = "inflate" => ~multithread /\ \A t \in Threads \ {1} : Idle(t)
    /\ main_pc \in {"free", "idle"} => \A t \in Threads : Idle(t)
    /\ main_pc = "failed" => NotYet \/ \A t \in Threads : Idle(t)
    /\ main_pc = "merge" => \A p \in Pages : p < merged => data_page_buckets[p] = <<>>
    /\ main_pc \in {"ready", "broadcast", "join", "inflate", "free", "idle"} =>
         \A p \in Pages : data_page_buckets[p] = <<>>
    /\ main_pc \in {"broadcast", "join", "inflate"} /\ (\A t \in Threads : Over(t)) =>
         mt_data_queue = <<>> \/ err = 1
    /\ main_pc = "free" => mt_data_queue = <<>> \/ ret = 1
    /\ main_pc = "idle" => mt_data_queue = <<>>

(* Where the chunks are: in the bucket of their page, once, and only those *)
(* that fillNode has met.                                                  *)
Sorted ==
    /\ \A p \in Pages : IsInjective(data_page_buckets[p])
    /\ \A p \in Pages : \A c \in ToSet(data_page_buckets[p]) : PageOf[c] = p
    /\ Bucketed \cup Queued \cup placed \subseteq Recorded
    /\ \A t \in Threads : chunk[t] # NoChunk => chunk[t] \in Recorded

Books == TakenOnce /\ Sorted /\ MappingsAccounted

LoadInv == PageInv /\ LoadTypeOK /\ Hands /\ Phases /\ Books

-----------------------------------------------------------------------------
(* Sequences of different chunks.                                          *)

(* Enqueueing adds the chunk to the set of those waiting.                  *)
LEMMA AppendSet ==
    ASSUME NEW S, NEW s \in Seq(S), NEW c \in S
    PROVE  /\ Append(s, c) \in Seq(S)
           /\ ToSet(Append(s, c)) = ToSet(s) \cup {c}
           /\ IsInjective(s) /\ c \notin ToSet(s) => IsInjective(Append(s, c))
<1> DEFINE n == Len(s)
           r == Append(s, c)
<1>1. /\ n \in Nat /\ DOMAIN s = 1 .. n
      /\ r \in Seq(S) /\ DOMAIN r = 1 .. n + 1
  BY LenProperties, AppendProperties
<1>2. (\A i \in 1 .. n : r[i] = s[i]) /\ r[n + 1] = c
  BY AppendProperties
<1> HIDE DEF n, r
<1>3. ToSet(r) = ToSet(s) \cup {c}
  <2>1. ASSUME NEW i \in 1 .. n + 1 PROVE r[i] \in ToSet(s) \cup {c}
    BY <1>1, <1>2 DEF ToSet
  <2>2. ASSUME NEW i \in 1 .. n PROVE s[i] \in ToSet(r)
    <3>1. s[i] = r[i] /\ i \in DOMAIN r
      BY <1>1, <1>2
    <3> QED
      BY <3>1 DEF ToSet
  <2>3. c \in ToSet(r)
    <3>1. c = r[n + 1] /\ n + 1 \in DOMAIN r
      BY <1>1, <1>2
    <3> QED
      BY <3>1 DEF ToSet
  <2> QED
    BY <2>1, <2>2, <2>3, <1>1 DEF ToSet
<1>4. ASSUME IsInjective(s), c \notin ToSet(s) PROVE IsInjective(r)
  BY <1>1, <1>2, <1>4 DEF IsInjective, ToSet
<1> QED
  BY <1>1, <1>3, <1>4 DEF r

(* Appending a whole bucket adds its chunks.                               *)
LEMMA ConcatSet ==
    ASSUME NEW S, NEW s \in Seq(S), NEW u \in Seq(S)
    PROVE  /\ s \o u \in Seq(S)
           /\ ToSet(s \o u) = ToSet(s) \cup ToSet(u)
           /\ IsInjective(s) /\ IsInjective(u) /\ ToSet(s) \cap ToSet(u) = {} =>
                  IsInjective(s \o u)
<1> DEFINE n == Len(s)
           k == Len(u)
           r == s \o u
<1>1. /\ n \in Nat /\ DOMAIN s = 1 .. n
      /\ k \in Nat /\ DOMAIN u = 1 .. k
      /\ r \in Seq(S) /\ Len(r) = n + k
  BY LenProperties, ConcatProperties
<1>2. DOMAIN r = 1 .. n + k
  BY <1>1, LenProperties
<1>3. \A i \in 1 .. n + k : r[i] = IF i <= n THEN s[i] ELSE u[i - n]
  BY ConcatProperties
<1> HIDE DEF n, k, r
<1>4. ToSet(r) = ToSet(s) \cup ToSet(u)
  <2>1. ASSUME NEW i \in 1 .. n + k PROVE r[i] \in ToSet(s) \cup ToSet(u)
    <3>1. CASE i <= n
      <4>1. i \in 1 .. n /\ r[i] = s[i]
        BY <3>1, <1>1, <1>3
      <4> QED
        BY <4>1, <1>1 DEF ToSet
    <3>2. CASE ~(i <= n)
      <4>1. i - n \in 1 .. k /\ r[i] = u[i - n]
        BY <3>2, <1>1, <1>3
      <4> QED
        BY <4>1, <1>1 DEF ToSet
    <3> QED
      BY <3>1, <3>2
  <2>2. ASSUME NEW i \in 1 .. n PROVE s[i] \in ToSet(r)
    <3>0. i \in 1 .. n + k /\ i <= n
      BY <1>1
    <3>1. s[i] = r[i] /\ i \in DOMAIN r
      BY <3>0, <1>2, <1>3
    <3> QED
      BY <3>1 DEF ToSet
  <2>3. ASSUME NEW i \in 1 .. k PROVE u[i] \in ToSet(r)
    <3>1. n + i \in 1 .. n + k /\ ~(n + i <= n) /\ (n + i) - n = i
      BY <1>1
    <3>2. r[n + i] = u[(n + i) - n] /\ n + i \in DOMAIN r
      BY <3>1, <1>2, <1>3
    <3> QED
      BY <3>1, <3>2 DEF ToSet
  <2> QED
    BY <2>1, <2>2, <2>3, <1>1, <1>2 DEF ToSet
<1>5. ASSUME IsInjective(s), IsInjective(u), ToSet(s) \cap ToSet(u) = {}
      PROVE  IsInjective(r)
  <2>1. ASSUME NEW i \in 1 .. n + k, NEW j \in 1 .. n + k, r[i] = r[j] PROVE i = j
    <3>1. CASE i <= n /\ j <= n
      <4>1. i \in 1 .. n /\ j \in 1 .. n /\ s[i] = s[j]
        BY <2>1, <3>1, <1>1, <1>3
      <4> QED
        BY <4>1, <1>1, <1>5 DEF IsInjective
    <3>2. CASE i <= n /\ ~(j <= n)
      <4>1. i \in DOMAIN s /\ r[i] = s[i] /\ j - n \in DOMAIN u /\ r[j] = u[j - n]
        BY <3>2, <1>1, <1>3
      <4> QED
        BY <4>1, <2>1, <1>5 DEF ToSet
    <3>3. CASE ~(i <= n) /\ j <= n
      <4>1. j \in DOMAIN s /\ r[j] = s[j] /\ i - n \in DOMAIN u /\ r[i] = u[i - n]
        BY <3>3, <1>1, <1>3
      <4> QED
        BY <4>1, <2>1, <1>5 DEF ToSet
    <3>4. CASE ~(i <= n) /\ ~(j <= n)
      <4>1. i - n \in 1 .. k /\ j - n \in 1 .. k /\ u[i - n] = u[j - n]
        BY <2>1, <3>4, <1>1, <1>3
      <4>2. i - n = j - n
        BY <4>1, <1>1, <1>5 DEF IsInjective
      <4> QED
        BY <4>2, <1>1
    <3> QED
      BY <3>1, <3>2, <3>3, <3>4
  <2> QED
    BY <2>1, <1>2 DEF IsInjective
<1> QED
  BY <1>1, <1>4, <1>5 DEF r

(* mt_dequeue takes the first chunk out of the set of those waiting.       *)
LEMMA TailSet ==
    ASSUME NEW S, NEW s \in Seq(S), s # <<>>, IsInjective(s)
    PROVE  /\ Tail(s) \in Seq(S) /\ Head(s) \in S
           /\ Head(s) \in ToSet(s)
           /\ ToSet(Tail(s)) = ToSet(s) \ {Head(s)}
           /\ IsInjective(Tail(s))
<1> DEFINE n == Len(s)
           r == Tail(s)
<1>1. n \in Nat /\ n > 0 /\ DOMAIN s = 1 .. n
  BY LenProperties, EmptySeq
<1>2. r \in Seq(S) /\ Len(r) = n - 1 /\ Head(s) \in S
  BY HeadTailProperties
<1>3. DOMAIN r = 1 .. n - 1
  BY <1>2, LenProperties
<1>4. (\A i \in 1 .. n - 1 : r[i] = s[i + 1]) /\ Head(s) = s[1]
  BY HeadTailProperties, <1>2
<1> HIDE DEF n, r
<1>5. Head(s) \in ToSet(s)
  BY <1>1, <1>4 DEF ToSet
<1>6. IsInjective(r)
  <2>1. ASSUME NEW i \in 1 .. n - 1, NEW j \in 1 .. n - 1, r[i] = r[j] PROVE i = j
    <3>1. i + 1 \in DOMAIN s /\ j + 1 \in DOMAIN s /\ s[i + 1] = s[j + 1]
      BY <2>1, <1>1, <1>4
    <3>2. i + 1 = j + 1
      BY <3>1 DEF IsInjective
    <3> QED
      BY <3>2, <1>1
  <2> QED
    BY <2>1, <1>3 DEF IsInjective
<1>7. ToSet(r) = ToSet(s) \ {Head(s)}
  <2>1. ASSUME NEW i \in 1 .. n - 1 PROVE r[i] \in ToSet(s) \ {Head(s)}
    <3>1. i + 1 \in DOMAIN s /\ 1 \in DOMAIN s /\ i + 1 # 1 /\ r[i] = s[i + 1]
      BY <1>1, <1>4
    <3>2. s[i + 1] # s[1]
      BY <3>1 DEF IsInjective
    <3> QED
      BY <3>1, <3>2, <1>4 DEF ToSet
  <2>2. ASSUME NEW i \in 1 .. n, s[i] # Head(s) PROVE s[i] \in ToSet(r)
    <3>1. i # 1
      BY <2>2, <1>4
    <3>2. i - 1 \in 1 .. n - 1 /\ i - 1 + 1 = i
      BY <3>1, <1>1
    <3>3. s[i] = r[i - 1] /\ i - 1 \in DOMAIN r
      BY <3>2, <1>3, <1>4
    <3> QED
      BY <3>3 DEF ToSet
  <2> QED
    BY <2>1, <2>2, <1>1, <1>3 DEF ToSet
<1> QED
  BY <1>2, <1>5, <1>6, <1>7 DEF r

-----------------------------------------------------------------------------
(* Finite sets of chunks, and what fillNode meets.                         *)

(* Pages and threads are numbered.                                         *)
LEMMA CountsNat ==
    /\ NumPages \in Nat /\ NumThreads \in Nat \ {0}
    /\ Pages = 0 .. NumPages - 1 /\ Threads = 1 .. NumThreads
    /\ 1 \in Threads /\ WrongNode = NoChunk /\ NoThread \notin Threads
BY ChunksAssumption, ThreadsAssumption, FS_CardinalityType DEF NumPages, NumThreads, WrongNode, NoChunk

(* The chunks of a page that are still to be released can be counted.      *)
LEMMA UnreleasedFinite ==
    ASSUME LoadTypeOK, NEW p \in Pages
    PROVE  /\ Unreleased(p) \in SUBSET Chunks
           /\ IsFiniteSet(Unreleased(p)) /\ Cardinality(Unreleased(p)) \in Nat
<1>1. IsFiniteSet(Chunks)
  <2>1. Chunks \in SUBSET DOMAIN Nodes
    BY DEF Chunks
  <2> QED
    BY <2>1, ChunksAssumption, FS_Subset
<1>2. Queued \in SUBSET Chunks
  <2>1. mt_data_queue \in Seq(Chunks)
    BY DEF LoadTypeOK
  <2>2. DOMAIN mt_data_queue = 1 .. Len(mt_data_queue)
    BY <2>1, LenProperties
  <2> QED
    BY <2>1, <2>2, ElementOfSeq DEF Queued, ToSet
<1>3. Bucketed \in SUBSET Chunks
  <2>1. ASSUME NEW q \in Pages PROVE ToSet(data_page_buckets[q]) \in SUBSET Chunks
    <3>1. data_page_buckets[q] \in Seq(Chunks)
      BY DEF LoadTypeOK
    <3>2. DOMAIN data_page_buckets[q] = 1 .. Len(data_page_buckets[q])
      BY <3>1, LenProperties
    <3> QED
      BY <3>1, <3>2, ElementOfSeq DEF ToSet
  <2> QED
    BY <2>1 DEF Bucketed
<1>4. {chunk[t] : t \in Visitors(p)} \ {NoChunk} \in SUBSET Chunks
  BY DEF LoadTypeOK, Visitors
<1>5. Unreleased(p) \in SUBSET Chunks
  BY <1>2, <1>3, <1>4 DEF Unreleased
<1> QED
  BY <1>1, <1>5, FS_Subset, FS_CardinalityType

(* The chunk fillNode records next is a chunk, and none it has recorded.   *)
LEMMA NextIsNew ==
    ASSUME LoadTypeOK, recorded < Len(Met), Met[recorded + 1] # WrongNode
    PROVE  Met[recorded + 1] \in Chunks \ Recorded
<1>1. dataset # 0
  BY EmptySeq DEF LoadTypeOK, Met
<1>2. Met = FillNode[trees[dataset]] /\ dataset \in DOMAIN trees
  <2>1. trees \in Seq(DOMAIN Nodes)
    BY ChunksAssumption DEF LoadTypeOK
  <2>2. DOMAIN trees = 1 .. Len(trees) /\ Len(trees) \in Nat
    BY <2>1, LenProperties
  <2> QED
    BY <1>1, <2>2 DEF LoadTypeOK, Met
<1>3. /\ Met \in Seq(Chunks \cup {WrongNode})
      /\ \A i, j \in DOMAIN Met : Met[i] = Met[j] => i = j \/ Met[i] = WrongNode
  BY <1>2, TreesAssumption DEF LoadTypeOK
<1>4. Len(Met) \in Nat /\ DOMAIN Met = 1 .. Len(Met)
  BY <1>3, LenProperties
<1>5. recorded + 1 \in DOMAIN Met /\ \A i \in 1 .. recorded : i \in DOMAIN Met /\ i # recorded + 1
  BY <1>4 DEF LoadTypeOK
<1>6. Met[recorded + 1] \in Chunks
  BY <1>3, <1>4, <1>5, ElementOfSeq
<1>7. \A i \in 1 .. recorded : Met[i] # Met[recorded + 1]
  BY <1>3, <1>5
<1> QED
  BY <1>6, <1>7 DEF Recorded

-----------------------------------------------------------------------------
(* Books: where the chunks are.                                            *)

(* A step that moves no chunk and no thread in the page table.             *)
LEMMA QuietBooks ==
    ASSUME Books,
           UNCHANGED <<pageVars, is_super_mapped, trees, dataset, recorded,
                       data_page_buckets, mt_data_queue, chunk, placed>>,
           main_pc' \notin {"failed", "closed"} => main_pc \notin {"failed", "closed"}
    PROVE  Books'
<1>1. /\ Bucketed' = Bucketed /\ Queued' = Queued /\ Recorded' = Recorded
      /\ \A p \in Pages : Unreleased(p)' = Unreleased(p)
  BY DEF Bucketed, Queued, Recorded, Met, Unreleased, Visitors, pageVars
<1>2. TakenOnce'
  BY <1>1 DEF Books, TakenOnce
<1>3. Sorted'
  BY <1>1 DEF Books, Sorted
<1>4. MappingsAccounted'
  BY <1>1 DEF Books, MappingsAccounted, pageVars, pageFields
<1> QED
  BY <1>2, <1>3, <1>4 DEF Books

(* fillNode puts a new chunk into the bucket of its page.                  *)
LEMMA RecordBooks ==
    ASSUME LoadInv, RecordChunk
    PROVE  Books'
<1> DEFINE c == Met[recorded + 1]
           p == PageOf[c]
<1>1. /\ recorded < Len(Met) /\ Met[recorded + 1] # WrongNode
      /\ Register(p, ExtentOf[c])
      /\ data_page_buckets' = [data_page_buckets EXCEPT ![p] = Append(@, c)]
      /\ recorded' = recorded + 1
      /\ main_pc' = main_pc
      /\ UNCHANGED <<is_super_mapped, trees, dataset, mt_data_queue, chunk, placed>>
  BY DEF RecordChunk, fileVars, workerVars
<1>2. c \in Chunks \ Recorded /\ p \in Pages
  BY <1>1, NextIsNew, ChunksAssumption DEF LoadInv
<1>3. recorded \in Nat /\ Met' = Met
  <2>1. recorded \in 0 .. Len(Met)
    BY DEF LoadInv, LoadTypeOK
  <2>2. recorded \in Nat
    BY <2>1
  <2>3. trees' = trees /\ dataset' = dataset
    BY <1>1
  <2>4. Met' = Met
    BY <2>3 DEF Met
  <2> QED
    BY <2>2, <2>4
<1>4. Recorded' = Recorded \cup {c}
  <2>1. 1 .. recorded + 1 = (1 .. recorded) \cup {recorded + 1}
    BY <1>3
  <2> QED
    BY <2>1, <1>1, <1>3 DEF Recorded
<1> HIDE DEF c, p
<1>5. data_page_buckets \in [Pages -> Seq(Chunks)]
  BY DEF LoadInv, LoadTypeOK
<1>6. /\ ToSet(data_page_buckets'[p]) = ToSet(data_page_buckets[p]) \cup {c}
      /\ IsInjective(data_page_buckets[p]) /\ c \notin ToSet(data_page_buckets[p]) =>
             IsInjective(data_page_buckets'[p])
      /\ \A q \in Pages \ {p} : data_page_buckets'[q] = data_page_buckets[q]
  <2>1. data_page_buckets'[p] = Append(data_page_buckets[p], c) /\ data_page_buckets[p] \in Seq(Chunks)
    BY <1>1, <1>2, <1>5
  <2> QED
    BY <2>1, <1>1, <1>2, <1>5, AppendSet
<1>7. Bucketed' = Bucketed \cup {c} /\ Queued' = Queued
  BY <1>1, <1>2, <1>6 DEF Bucketed, Queued
<1>8. /\ c \notin Bucketed \cup Queued \cup placed
      /\ \A t \in Threads : chunk[t] # NoChunk => chunk[t] # c
  BY <1>2 DEF LoadInv, Books, Sorted
<1>9. c \notin ToSet(data_page_buckets[p])
  BY <1>2, <1>8 DEF Bucketed
<1>10. TakenOnce'
  BY <1>1, <1>7, <1>8 DEF LoadInv, Books, TakenOnce
<1>11. Sorted'
  <2>1. \A q \in Pages : IsInjective(data_page_buckets'[q])
    BY <1>6, <1>9 DEF LoadInv, Books, Sorted
  <2>2. \A q \in Pages : \A d \in ToSet(data_page_buckets'[q]) : PageOf[d] = q
    BY <1>6 DEF LoadInv, Books, Sorted, p
  <2> QED
    BY <2>1, <2>2, <1>1, <1>4, <1>7 DEF LoadInv, Books, Sorted
<1>12. MappingsAccounted'
  <2> SUFFICES ASSUME ~is_super_mapped, main_pc \notin {"failed", "closed"}, NEW q \in Pages
               PROVE  total_num_mappings'[q] = Cardinality(Unreleased(q)')
    BY <1>1 DEF MappingsAccounted
  <2>1. total_num_mappings[q] = Cardinality(Unreleased(q))
    BY DEF LoadInv, Books, MappingsAccounted
  <2>2. Visitors(q)' = Visitors(q)
    BY <1>1 DEF Register, Visitors
  <2>3. CASE q = p
    <3>1. Unreleased(q)' = Unreleased(q) \cup {c}
      BY <2>2, <2>3, <1>1, <1>7 DEF Unreleased, p
    <3>2. c \notin Unreleased(q)
      BY <1>8 DEF Unreleased, Visitors
    <3>3. Cardinality(Unreleased(q)') = Cardinality(Unreleased(q)) + 1
      BY <3>1, <3>2, UnreleasedFinite, FS_AddElement DEF LoadInv
    <3>4. total_num_mappings'[q] = total_num_mappings[q] + 1
      BY <2>3, <1>1, <1>2 DEF Register, LoadInv, PageInv, PageTypeOK
    <3> QED
      BY <2>1, <3>3, <3>4
  <2>4. CASE q # p
    <3>1. Unreleased(q)' = Unreleased(q)
      BY <2>2, <2>4, <1>1, <1>7 DEF Unreleased, p
    <3>2. total_num_mappings'[q] = total_num_mappings[q]
      BY <2>4, <1>1, <1>2 DEF Register, LoadInv, PageInv, PageTypeOK
    <3> QED
      BY <2>1, <3>1, <3>2
  <2> QED
    BY <2>3, <2>4
<1> QED
  BY <1>10, <1>11, <1>12 DEF Books

(* mt_mergeQueue moves a bucket into the queue.                            *)
LEMMA MergeBooks ==
    ASSUME LoadInv, MergeBucket
    PROVE  Books'
<1> DEFINE p == merged
           b == data_page_buckets[p]
<1>1. /\ mt_data_queue' = mt_data_queue \o b
      /\ data_page_buckets' = [data_page_buckets EXCEPT ![p] = <<>>]
      /\ p < NumPages /\ main_pc' = main_pc
      /\ UNCHANGED <<pageVars, is_super_mapped, trees, dataset, recorded, chunk, placed>>
  BY DEF MergeBucket, fileVars
<1>2. p \in Pages
  <2>1. p \in 0 .. NumPages /\ NumPages \in Nat
    BY CountsNat DEF LoadInv, LoadTypeOK
  <2> QED
    BY <1>1, <2>1, ChunksAssumption
<1> HIDE DEF p
<1>3. /\ data_page_buckets \in [Pages -> Seq(Chunks)] /\ b \in Seq(Chunks)
      /\ mt_data_queue \in Seq(Chunks)
  BY <1>2 DEF LoadInv, LoadTypeOK
<1>4. /\ data_page_buckets'[p] = <<>>
      /\ \A q \in Pages \ {p} : data_page_buckets'[q] = data_page_buckets[q]
  BY <1>1, <1>2, <1>3
<1>5. ToSet(<<>>) = {} /\ IsInjective(<<>>)
  BY DEF ToSet, IsInjective
<1>6. ToSet(b) \subseteq Bucketed /\ ToSet(b) \cap Queued = {} /\ IsInjective(b)
  BY <1>2 DEF LoadInv, Books, Sorted, TakenOnce, Bucketed
<1>7. \A q \in Pages \ {p} : ToSet(data_page_buckets[q]) \cap ToSet(b) = {}
  BY <1>2 DEF LoadInv, Books, Sorted
<1>8. Bucketed' = Bucketed \ ToSet(b)
  BY <1>2, <1>4, <1>5, <1>7 DEF Bucketed
<1>9. Queued' = Queued \cup ToSet(b) /\ IsInjective(mt_data_queue')
  BY <1>1, <1>3, <1>6, ConcatSet DEF Queued, LoadInv, Books, TakenOnce
<1>10. Bucketed' \cup Queued' = Bucketed \cup Queued /\ Bucketed' \cap Queued' = {}
  BY <1>6, <1>8, <1>9 DEF LoadInv, Books, TakenOnce
<1> HIDE DEF b
<1>11. Recorded' = Recorded /\ \A q \in Pages : Unreleased(q)' = Unreleased(q)
  BY <1>1, <1>10 DEF Recorded, Met, Unreleased, Visitors, pageVars
<1>12. TakenOnce'
  BY <1>1, <1>9, <1>10 DEF LoadInv, Books, TakenOnce
<1>13. Sorted'
  <2>1. \A q \in Pages : /\ IsInjective(data_page_buckets'[q])
                         /\ \A c \in ToSet(data_page_buckets'[q]) : PageOf[c] = q
    BY <1>4, <1>5 DEF LoadInv, Books, Sorted
  <2> QED
    BY <2>1, <1>1, <1>10, <1>11 DEF LoadInv, Books, Sorted
<1>14. MappingsAccounted'
  BY <1>1, <1>11 DEF LoadInv, Books, MappingsAccounted, pageVars, pageFields
<1> QED
  BY <1>12, <1>13, <1>14 DEF Books

(* With all workers gone and nothing in the buckets, whatever fillNode has *)
(* recorded is only in placed.                                             *)
LEMMA NothingLeft ==
    ASSUME LoadInv, \A t \in Threads : Idle(t), \A p \in Pages : data_page_buckets[p] = <<>>
    PROVE  /\ Bucketed = {}
           /\ \A t \in Threads : chunk[t] = NoChunk /\ nav_pc[t] = "out"
           /\ \A p \in Pages : Visitors(p) = {} /\ (mt_data_queue = <<>> => Unreleased(p) = {})
<1>1. Bucketed = {}
  BY DEF Bucketed, ToSet
<1>2. \A t \in Threads : chunk[t] = NoChunk /\ nav_pc[t] = "out"
  BY DEF LoadInv, Hands, Idle
<1>3. \A p \in Pages : Visitors(p) = {}
  BY <1>2 DEF Visitors
<1>4. mt_data_queue = <<>> => Queued = {}
  BY DEF Queued, ToSet
<1> QED
  BY <1>1, <1>2, <1>3, <1>4 DEF Unreleased

(* The next dataset begins with nothing anywhere.                          *)
LEMMA StartBooks ==
    ASSUME LoadInv, StartLoad
    PROVE  Books'
<1>1. /\ main_pc = "idle" /\ main_pc' = "fill" /\ placed' = {}
      /\ UNCHANGED <<pageVars, is_super_mapped, trees, data_page_buckets, mt_data_queue, chunk>>
  BY DEF StartLoad, fileVars, MainGoto
<1>2. /\ \A t \in Threads : Idle(t)
      /\ \A p \in Pages : data_page_buckets[p] = <<>>
      /\ mt_data_queue = <<>>
  BY <1>1 DEF LoadInv, Phases
<1>3. /\ Bucketed = {} /\ Queued = {}
      /\ \A t \in Threads : chunk[t] = NoChunk
  BY <1>2, NothingLeft DEF Queued, ToSet
<1>4. Bucketed' = {} /\ Queued' = {} /\ \A p \in Pages : Unreleased(p)' = Unreleased(p)
  BY <1>1, <1>3 DEF Bucketed, Queued, Unreleased, Visitors, pageVars
<1>5. TakenOnce'
  BY <1>1, <1>3, <1>4 DEF LoadInv, Books, TakenOnce
<1>6. Sorted'
  BY <1>1, <1>3, <1>4 DEF LoadInv, Books, Sorted
<1>7. MappingsAccounted'
  BY <1>1, <1>4 DEF LoadInv, Books, MappingsAccounted, pageVars, pageFields
<1> QED
  BY <1>5, <1>6, <1>7 DEF Books

(* What mt_freeQueue drops was dropped after an error, and then the        *)
(* session is over.                                                        *)
LEMMA FreeBooks ==
    ASSUME LoadInv, FreeLoad
    PROVE  Books'
<1>1. /\ main_pc = "free" /\ main_pc' = IF ret = 0 THEN "idle" ELSE "failed"
      /\ mt_data_queue' = <<>>
      /\ UNCHANGED <<pageVars, is_super_mapped, trees, dataset, recorded, data_page_buckets, chunk, placed>>
  BY DEF FreeLoad, fileVars, mainVars, MainGoto
<1>2. Bucketed' = Bucketed /\ Queued' = {} /\ Recorded' = Recorded /\ IsInjective(mt_data_queue')
  BY <1>1 DEF Bucketed, Queued, Recorded, Met, ToSet, IsInjective
<1>3. TakenOnce'
  BY <1>1, <1>2 DEF LoadInv, Books, TakenOnce
<1>4. Sorted'
  BY <1>1, <1>2 DEF LoadInv, Books, Sorted
<1>5. MappingsAccounted'
  <2>1. CASE ret = 0
    <3>1. mt_data_queue = <<>>
      BY <2>1, <1>1 DEF LoadInv, Phases
    <3>2. \A p \in Pages : Unreleased(p)' = Unreleased(p)
      BY <3>1, <1>1, <1>2 DEF Unreleased, Queued, ToSet, Visitors, pageVars
    <3> QED
      BY <3>2, <1>1 DEF LoadInv, Books, MappingsAccounted, pageVars, pageFields
  <2>2. CASE ret # 0
    BY <2>2, <1>1 DEF MappingsAccounted
  <2> QED
    BY <2>1, <2>2
<1> QED
  BY <1>3, <1>4, <1>5 DEF Books

(* endHooks frees the queues.                                              *)
LEMMA CloseBooks ==
    ASSUME LoadInv, Close
    PROVE  Books'
<1>1. /\ main_pc' = "closed" /\ mt_data_queue' = <<>>
      /\ data_page_buckets' = [p \in Pages |-> <<>>]
      /\ UNCHANGED <<trees, dataset, recorded, chunk, placed>>
  BY DEF Close, fileVars, MainGoto
<1>2. ToSet(<<>>) = {} /\ IsInjective(<<>>)
  BY DEF ToSet, IsInjective
<1>3. Bucketed' = {} /\ Queued' = {} /\ Recorded' = Recorded
  BY <1>1, <1>2 DEF Bucketed, Queued, Recorded, Met
<1>4. TakenOnce'
  BY <1>1, <1>2, <1>3 DEF LoadInv, Books, TakenOnce
<1>5. Sorted'
  BY <1>1, <1>2, <1>3 DEF LoadInv, Books, Sorted
<1>6. MappingsAccounted'
  BY <1>1 DEF MappingsAccounted
<1> QED
  BY <1>4, <1>5, <1>6 DEF Books

(* A worker takes the first chunk of the queue: it is nowhere else, and    *)
(* the page still counts it.                                               *)
LEMMA DequeueBooks ==
    ASSUME LoadInv, NEW t \in Threads, Dequeue(t)
    PROVE  Books'
<1> DEFINE c == Head(mt_data_queue)
           p == PageOf[c]
<1>1. /\ worker_pc[t] = "dequeue" /\ mt_data_queue # <<>>
      /\ chunk' = [chunk EXCEPT ![t] = c]
      /\ mt_data_queue' = Tail(mt_data_queue)
      /\ IF is_super_mapped THEN UNCHANGED pageVars ELSE EnterPage(t, p)
      /\ main_pc' = main_pc
      /\ UNCHANGED <<is_super_mapped, trees, dataset, recorded, data_page_buckets, placed>>
  BY DEF Dequeue, fileVars, mainVars
<1>2. chunk[t] = NoChunk
  BY <1>1 DEF LoadInv, Hands
<1>3. /\ c \in Chunks /\ c \in Queued
      /\ Queued' = Queued \ {c}
      /\ IsInjective(mt_data_queue')
  BY <1>1, TailSet DEF LoadInv, LoadTypeOK, Books, TakenOnce, Queued
<1> HIDE DEF c
<1>4. Bucketed' = Bucketed /\ Recorded' = Recorded
  BY <1>1 DEF Bucketed, Recorded, Met
<1>5. c # NoChunk /\ p \in Pages
  BY <1>3, ChunksAssumption
<1>6. chunk'[t] = c /\ \A u \in Threads \ {t} : chunk'[u] = chunk[u]
  BY <1>1 DEF LoadInv, LoadTypeOK
<1>7. /\ c \notin Bucketed \cup placed
      /\ \A u \in Threads : chunk[u] # c
  BY <1>3, <1>5 DEF LoadInv, Books, TakenOnce
<1> HIDE DEF p
<1>8. TakenOnce'
  <2>1. ASSUME NEW u \in Threads, chunk'[u] # NoChunk
        PROVE  /\ chunk'[u] \notin Bucketed' \cup Queued' \cup placed'
               /\ \A v \in Threads \ {u} : chunk'[v] # chunk'[u]
    <3>1. CASE u = t
      BY <3>1, <1>1, <1>3, <1>4, <1>6, <1>7
    <3>2. CASE u # t
      BY <3>2, <2>1, <1>1, <1>3, <1>4, <1>6, <1>7 DEF LoadInv, Books, TakenOnce
    <3> QED
      BY <3>1, <3>2
  <2>2. placed' \cap (Bucketed' \cup Queued') = {} /\ Bucketed' \cap Queued' = {}
    BY <1>1, <1>3, <1>4 DEF LoadInv, Books, TakenOnce
  <2> QED
    BY <2>1, <2>2, <1>3 DEF TakenOnce
<1>9. Sorted'
  <2>1. c \in Recorded
    BY <1>3 DEF LoadInv, Books, Sorted
  <2>2. \A u \in Threads : chunk'[u] # NoChunk => chunk'[u] \in Recorded'
    BY <2>1, <1>4, <1>6 DEF LoadInv, Books, Sorted
  <2> QED
    BY <2>2, <1>1, <1>3, <1>4 DEF LoadInv, Books, Sorted
<1>10. MappingsAccounted'
  <2> SUFFICES ASSUME ~is_super_mapped, main_pc \notin {"failed", "closed"}, NEW q \in Pages
               PROVE  total_num_mappings'[q] = Cardinality(Unreleased(q)')
    BY <1>1 DEF MappingsAccounted
  <2>1. total_num_mappings'[q] = Cardinality(Unreleased(q))
    BY <1>1 DEF LoadInv, Books, MappingsAccounted, EnterPage, pageFields
  <2>2. /\ nav_pc[t] = "out" /\ nav_pc'[t] # "out" /\ nav_page'[t] = p
        /\ \A u \in Threads \ {t} : nav_pc'[u] = nav_pc[u] /\ nav_page'[u] = nav_page[u]
    BY <1>1 DEF EnterPage, Goto, LoadInv, PageInv, PageTypeOK
  <2>3. CASE q = p
    <3>1. Visitors(q)' = Visitors(q) \cup {t} /\ t \notin Visitors(q)
      BY <2>2, <2>3 DEF Visitors
    <3>2. {chunk'[u] : u \in Visitors(q)'} = {chunk[u] : u \in Visitors(q)} \cup {c}
      BY <3>1, <1>6 DEF Visitors
    <3>3. {d \in Bucketed' \cup Queued' : PageOf[d] = q} =
              {d \in Bucketed \cup Queued : PageOf[d] = q} \ {c}
      BY <1>3, <1>4, <1>7
    <3>4. c \in {d \in Bucketed \cup Queued : PageOf[d] = q}
      BY <2>3, <1>3 DEF p
    <3>5. Unreleased(q)' = Unreleased(q)
      BY <3>2, <3>3, <3>4, <1>5 DEF Unreleased
    <3> QED
      BY <2>1, <3>5
  <2>4. CASE q # p
    <3>1. Visitors(q)' = Visitors(q) /\ t \notin Visitors(q)
      BY <2>2, <2>4 DEF Visitors
    <3>2. {chunk'[u] : u \in Visitors(q)'} = {chunk[u] : u \in Visitors(q)}
      BY <3>1, <1>6 DEF Visitors
    <3>3. {d \in Bucketed' \cup Queued' : PageOf[d] = q} =
              {d \in Bucketed \cup Queued : PageOf[d] = q}
      BY <2>4, <1>3, <1>4 DEF p
    <3>5. Unreleased(q)' = Unreleased(q)
      BY <3>2, <3>3 DEF Unreleased
    <3> QED
      BY <2>1, <3>5
  <2> QED
    BY <2>3, <2>4
<1> QED
  BY <1>8, <1>9, <1>10 DEF Books

(* Inside mt_navigateTo a thread stays a visitor of the page it entered.   *)
LEMMA NavigateMove ==
    ASSUME PageTypeOK, NEW t \in Threads, NavigateStep(t)
    PROVE  /\ nav_pc[t] # "out" /\ nav_pc'[t] # "out"
           /\ \A u \in Threads \ {t} : nav_pc'[u] = nav_pc[u]
           /\ nav_page' = nav_page /\ total_num_mappings' = total_num_mappings
<1> USE DEF PageTypeOK, Goto, pageFields
<1>1. CASE CheckSize(t)
  BY <1>1 DEF CheckSize
<1>2. CASE ConfirmHit(t)
  BY <1>2 DEF ConfirmHit
<1>3. CASE ConfirmMiss(t)
  BY <1>3 DEF ConfirmMiss
<1>4. CASE CheckIdle(t)
  BY <1>4 DEF CheckIdle
<1>5. CASE ClaimPage(t)
  BY <1>5 DEF ClaimPage
<1>6. CASE ClaimLost(t)
  BY <1>6 DEF ClaimLost
<1>7. CASE DropStale(t)
  BY <1>7 DEF DropStale
<1>8. CASE MapPage(t)
  BY <1>8 DEF MapPage
<1>9. CASE UnlockPage(t)
  BY <1>9 DEF UnlockPage
<1> QED
  BY <1>1, <1>2, <1>3, <1>4, <1>5, <1>6, <1>7, <1>8, <1>9 DEF NavigateStep

(* The page table changes hands, not the chunks.                           *)
LEMMA NavigateBooks ==
    ASSUME LoadInv, NEW t \in Threads, NavigateChunk(t)
    PROVE  Books'
<1>1. /\ UNCHANGED <<is_super_mapped, trees, dataset, recorded, data_page_buckets,
                     mt_data_queue, chunk, placed, main_pc>>
      /\ NavigateStep(t)
  BY DEF NavigateChunk, loadVars, fileVars, mainVars, workerVars
<1>2. /\ nav_pc[t] # "out" /\ nav_pc'[t] # "out"
      /\ \A u \in Threads \ {t} : nav_pc'[u] = nav_pc[u]
      /\ nav_page' = nav_page /\ total_num_mappings' = total_num_mappings
  BY <1>1, NavigateMove DEF LoadInv, PageInv
<1>3. \A p \in Pages : Visitors(p)' = Visitors(p)
  BY <1>2 DEF Visitors
<1>4. /\ Bucketed' = Bucketed /\ Queued' = Queued /\ Recorded' = Recorded
      /\ \A p \in Pages : Unreleased(p)' = Unreleased(p)
  BY <1>1, <1>3 DEF Bucketed, Queued, Recorded, Met, Unreleased
<1>5. TakenOnce'
  BY <1>1, <1>4 DEF LoadInv, Books, TakenOnce
<1>6. Sorted'
  BY <1>1, <1>4 DEF LoadInv, Books, Sorted
<1>7. MappingsAccounted'
  BY <1>1, <1>2, <1>4 DEF LoadInv, Books, MappingsAccounted
<1> QED
  BY <1>5, <1>6, <1>7 DEF Books

(* A worker releases its own chunk, which nobody else stands for.          *)
LEMMA ReleaseBooks ==
    ASSUME LoadInv, NEW t \in Threads, Release(t)
    PROVE  Books'
<1>1. /\ worker_pc[t] = "release"
      /\ IF is_super_mapped THEN UNCHANGED pageVars ELSE ReleasePages(t)
      /\ UNCHANGED <<is_super_mapped, trees, dataset, recorded, data_page_buckets,
                     mt_data_queue, chunk, placed, main_pc>>
  BY DEF Release, fileVars, mainVars
<1>2. CASE is_super_mapped
  BY <1>1, <1>2, QuietBooks DEF LoadInv
<1>3. CASE ~is_super_mapped
  <2> DEFINE c == chunk[t]
             p == nav_page[t]
  <2>1. Bucketed' = Bucketed /\ Queued' = Queued /\ Recorded' = Recorded
    BY <1>1 DEF Bucketed, Queued, Recorded, Met
  <2>2. TakenOnce'
    BY <1>1, <2>1 DEF LoadInv, Books, TakenOnce
  <2>3. Sorted'
    BY <1>1, <2>1 DEF LoadInv, Books, Sorted
  <2>4. MappingsAccounted'
    <3> SUFFICES ASSUME main_pc \notin {"failed", "closed"}, NEW q \in Pages
                 PROVE  total_num_mappings'[q] = Cardinality(Unreleased(q)')
      BY <1>1 DEF MappingsAccounted
    <3>1. total_num_mappings[q] = Cardinality(Unreleased(q))
      BY <1>3 DEF LoadInv, Books, MappingsAccounted
    <3>2. c # NoChunk /\ p = PageOf[c] /\ p \in Pages
      BY <1>1, <1>3 DEF LoadInv, Hands, PageInv, PageTypeOK
    <3>3. ReleasePages(t) /\ PageTypeOK
      BY <1>1, <1>3 DEF LoadInv, PageInv
    <3>4. /\ nav_pc[t] = "using" /\ Goto(t, "out") /\ nav_page' = nav_page
          /\ total_num_mappings' = [total_num_mappings EXCEPT ![p] = @ - 1]
      BY <3>3 DEF ReleasePages
    <3>5. t \in Visitors(p) /\ Visitors(q)' = IF q = p THEN Visitors(q) \ {t} ELSE Visitors(q)
      BY <3>3, <3>4, LeaveMove
    <3>6. c \notin Bucketed \cup Queued /\ \A u \in Threads \ {t} : chunk[u] # c
      BY <3>2 DEF LoadInv, Books, TakenOnce
    <3> HIDE DEF c, p
    <3>7. CASE q = p
      <4>1. {chunk'[u] : u \in Visitors(q)'} = {chunk[u] : u \in Visitors(q)} \ {c}
        <5>1. chunk' = chunk /\ chunk[t] = c
          BY <1>1 DEF c
        <5>2. \A u \in Visitors(q) : chunk[u] = c <=> u = t
          BY <3>6, <5>1 DEF Visitors
        <5> QED
          BY <3>5, <3>7, <5>1, <5>2
      <4>2. {d \in Bucketed' \cup Queued' : PageOf[d] = q} =
                {d \in Bucketed \cup Queued : PageOf[d] = q} \ {c}
        BY <2>1, <3>6
      <4>3. Unreleased(q)' = Unreleased(q) \ {c}
        BY <4>1, <4>2 DEF Unreleased
      <4>4. c \in Unreleased(q)
        BY <3>2, <3>5, <3>7 DEF Unreleased, c
      <4>5. Cardinality(Unreleased(q)') = Cardinality(Unreleased(q)) - 1
        BY <4>3, <4>4, UnreleasedFinite, FS_RemoveElement DEF LoadInv
      <4>6. total_num_mappings'[q] = total_num_mappings[q] - 1
        BY <3>2, <3>3, <3>4, <3>7 DEF PageTypeOK
      <4> QED
        BY <3>1, <4>5, <4>6
    <3>8. CASE q # p
      <4>1. Unreleased(q)' = Unreleased(q)
        BY <1>1, <2>1, <3>5, <3>8 DEF Unreleased
      <4>2. total_num_mappings'[q] = total_num_mappings[q]
        BY <3>2, <3>3, <3>4, <3>8 DEF PageTypeOK
      <4> QED
        BY <3>1, <4>1, <4>2
    <3> QED
      BY <3>7, <3>8
  <2> QED
    BY <2>2, <2>3, <2>4 DEF Books
<1> QED
  BY <1>2, <1>3

(* A chunk is laid down only after its page was released.                  *)
LEMMA LayDown ==
    ASSUME LoadInv, NEW t \in Threads, worker_pc[t] \in {"fail", "place"},
           chunk' = [chunk EXCEPT ![t] = NoChunk],
           placed' = placed \/ placed' = placed \cup {chunk[t]},
           UNCHANGED <<pageVars, is_super_mapped, trees, dataset, recorded,
                       data_page_buckets, mt_data_queue, main_pc>>
    PROVE  Books'
<1>1. chunk'[t] = NoChunk /\ \A u \in Threads \ {t} : chunk'[u] = chunk[u]
  BY DEF LoadInv, LoadTypeOK
<1>2. Bucketed' = Bucketed /\ Queued' = Queued /\ Recorded' = Recorded
  BY DEF Bucketed, Queued, Recorded, Met
<1>3. chunk[t] # NoChunk /\ nav_pc[t] = "out"
  BY DEF LoadInv, Hands
<1>4. \A p \in Pages : Visitors(p)' = Visitors(p) /\ t \notin Visitors(p)
  BY <1>3 DEF Visitors, pageVars
<1>5. \A p \in Pages : Unreleased(p)' = Unreleased(p)
  <2>1. \A p \in Pages : {chunk'[u] : u \in Visitors(p)'} = {chunk[u] : u \in Visitors(p)}
    BY <1>1, <1>4 DEF Visitors
  <2> QED
    BY <2>1, <1>2 DEF Unreleased
<1>6. chunk[t] \notin Bucketed \cup Queued
  BY <1>3 DEF LoadInv, Books, TakenOnce
<1>7. TakenOnce'
  <2>1. ASSUME NEW u \in Threads, chunk'[u] # NoChunk
        PROVE  /\ chunk'[u] \notin Bucketed' \cup Queued' \cup placed'
               /\ \A v \in Threads \ {u} : chunk'[v] # chunk'[u]
    <3>1. u # t /\ chunk'[u] = chunk[u] /\ chunk[u] # chunk[t]
      BY <2>1, <1>1, <1>3 DEF LoadInv, Books, TakenOnce
    <3> QED
      BY <3>1, <2>1, <1>1, <1>2 DEF LoadInv, Books, TakenOnce
  <2>2. placed' \cap (Bucketed' \cup Queued') = {}
    BY <1>2, <1>6 DEF LoadInv, Books, TakenOnce
  <2> QED
    BY <2>1, <2>2, <1>2 DEF LoadInv, Books, TakenOnce
<1>8. Sorted'
  <2>1. chunk[t] \in Recorded
    BY <1>3 DEF LoadInv, Books, Sorted
  <2>2. \A u \in Threads : chunk'[u] # NoChunk => chunk'[u] \in Recorded'
    BY <1>1, <1>2 DEF LoadInv, Books, Sorted
  <2> QED
    BY <2>1, <2>2, <1>2 DEF LoadInv, Books, Sorted
<1>9. MappingsAccounted'
  BY <1>5 DEF LoadInv, Books, MappingsAccounted, pageVars, pageFields
<1> QED
  BY <1>7, <1>8, <1>9 DEF Books

-----------------------------------------------------------------------------
(* Every step of the load is a step of the page table.                     *)

(* A worker that has taken a chunk stands for one the page still counts:   *)
(* the guard of Navigate.                                                  *)
LEMMA DequeueNavigates ==
    ASSUME LoadInv, Alive, NEW t \in Threads, Dequeue(t)
    PROVE  [PageNext]_pageVars
<1> DEFINE c == Head(mt_data_queue)
           p == PageOf[c]
           rest == Unreleased(p) \ {c}
<1>1. /\ worker_pc[t] = "dequeue" /\ mt_data_queue # <<>>
      /\ IF is_super_mapped THEN UNCHANGED pageVars ELSE EnterPage(t, p)
  BY DEF Dequeue
<1>2. CASE is_super_mapped
  BY <1>1, <1>2
<1>3. CASE ~is_super_mapped
  <2>1. main_pc \notin {"failed", "closed"}
    BY <1>1 DEF LoadInv, Phases, NotYet, Early, Idle, Alive
  <2>2. c \in Queued /\ c \in Chunks /\ p \in Pages
    BY <1>1, TailSet, ChunksAssumption DEF LoadInv, LoadTypeOK, Books, TakenOnce, Queued
  <2>3. total_num_mappings[p] = Cardinality(Unreleased(p))
    BY <1>3, <2>1, <2>2 DEF LoadInv, Books, MappingsAccounted
  <2>4. c \in Unreleased(p)
    BY <2>2 DEF Unreleased
  <2>5. IsFiniteSet(rest) /\ Cardinality(rest) = Cardinality(Unreleased(p)) - 1
    BY <2>2, <2>4, UnreleasedFinite, FS_RemoveElement DEF LoadInv
  <2>6. Cardinality(Visitors(p)) <= Cardinality(rest)
    <3> DEFINE f == [u \in Visitors(p) |-> chunk[u]]
    <3>1. ASSUME NEW u \in Visitors(p) PROVE chunk[u] \in rest /\ chunk[u] # NoChunk
      <4>1. chunk[u] # NoChunk
        BY DEF LoadInv, Hands, Visitors
      <4>2. chunk[u] # c
        BY <2>2, <4>1 DEF LoadInv, Books, TakenOnce, Visitors
      <4> QED
        BY <4>1, <4>2 DEF Unreleased
    <3>2. \A u, v \in Visitors(p) : chunk[u] = chunk[v] => u = v
      BY <3>1 DEF LoadInv, Books, TakenOnce, Visitors
    <3>3. f \in Injection(Visitors(p), rest)
      BY <3>1, <3>2 DEF Injection, IsInjective
    <3> QED
      BY <2>5, <3>3, FS_Injection
  <2>7. Cardinality(Visitors(p)) \in Nat /\ Cardinality(Unreleased(p)) \in Nat
    BY <2>2, CountNat, UnreleasedFinite DEF Visitors, LoadInv
  <2>8. Cardinality(Visitors(p)) < total_num_mappings[p]
    <3> HIDE DEF c, p, rest
    <3> QED
      BY <2>3, <2>5, <2>6, <2>7
  <2>9. Navigate(t, p)
    BY <1>1, <1>3, <2>8 DEF Navigate
  <2> QED
    BY <2>2, <2>9 DEF PageNext
<1> QED
  BY <1>2, <1>3

(* endHooks finds no thread between mt_navigateTo and mt_releasePages: the *)
(* workers of a finished load have been joined, and those of a walk that   *)
(* failed never began.                                                     *)
LEMMA CloseDestroys ==
    ASSUME LoadInv, Close
    PROVE  PageNext
<1>1. main_pc \in {"idle", "failed"} /\ ResetPages
  BY DEF Close
<1>2. \A t \in Threads : nav_pc[t] = "out"
  BY <1>1 DEF LoadInv, Phases, Hands, NotYet, Early, Idle
<1> QED
  BY <1>1, <1>2 DEF DestroyPageObjects, PageNext

(* The refinement: no operation of the load does to the page table what    *)
(* PageTable's callers may not do.                                         *)
LEMMA StepRefines ==
    ASSUME LoadInv, [LoadNext]_vars
    PROVE  [PageNext]_pageVars
<1> USE DEF vars
<1>1. CASE StartLoad \/ FillFails \/ FillDone \/ MergeBucket \/ MergeDone
  BY <1>1 DEF StartLoad, FillFails, FillDone, MergeBucket, MergeDone
<1>2. CASE SetReady \/ Broadcast \/ Join \/ InflateReturns \/ FreeLoad
  BY <1>2 DEF SetReady, Broadcast, Join, InflateReturns, FreeLoad
<1>3. CASE RecordChunk
  <2>1. Met[recorded + 1] \in Chunks /\ Register(PageOf[Met[recorded + 1]], ExtentOf[Met[recorded + 1]])
    BY <1>3, NextIsNew DEF RecordChunk, LoadInv
  <2>2. PageOf[Met[recorded + 1]] \in Pages /\ ExtentOf[Met[recorded + 1]] \in Extents
    BY <2>1, ChunksAssumption
  <2> QED
    BY <2>1, <2>2 DEF PageNext
<1>4. CASE Close
  BY <1>4, CloseDestroys
<1>5. ASSUME NEW t \in Threads, Alive, WorkerStep(t)
      PROVE  [PageNext]_pageVars
  <2>1. CASE AllocBuffer(t) \/ AllocFails(t) \/ TestReady(t) \/ CondWait(t) \/ TestLength(t)
    BY <2>1 DEF AllocBuffer, AllocFails, TestReady, CondWait, TestLength
  <2>2. CASE DequeueNull(t) \/ MmapFails(t) \/ Inflate(t) \/ SwitchErr(t)
    BY <2>2 DEF DequeueNull, MmapFails, Inflate, SwitchErr
  <2>3. CASE Fail(t) \/ Place(t) \/ Finish(t)
    BY <2>3 DEF Fail, Place, Finish
  <2>4. CASE Dequeue(t)
    BY <1>5, <2>4, DequeueNavigates
  <2>5. CASE NavigateChunk(t)
    BY <2>5 DEF NavigateChunk, PageNext
  <2>6. CASE Release(t)
    BY <2>6 DEF Release, PageNext
  <2> QED
    BY <1>5, <2>1, <2>2, <2>3, <2>4, <2>5, <2>6 DEF WorkerStep
<1>6. ASSUME NEW t \in Threads, SpuriousWake(t)
      PROVE  [PageNext]_pageVars
  BY <1>6 DEF SpuriousWake
<1>7. CASE Ended \/ UNCHANGED vars
  BY <1>7 DEF Ended
<1> QED
  BY <1>1, <1>2, <1>3, <1>4, <1>5, <1>6, <1>7 DEF LoadNext, MainStep

-----------------------------------------------------------------------------
(* Types, hands and phases: the steps of a worker.                         *)

(* What a worker's step has to keep for the main thread.                   *)
LEMMA PhasesMove ==
    ASSUME LoadInv, NEW t \in Threads, NEW s \in WorkerStates \ {"none"}, ~Idle(t),
           WorkerGoto(t, s), UNCHANGED <<mainVars, main_pc>>,
           Early(t) /\ NotYet =>
               /\ s \in {"alloc", "sync", "sleep", "waiting", "done"}
               /\ err' = 1 \/ (err' = err /\ s # "done"),
           mt_data_queue = <<>> => mt_data_queue' = <<>>,
           s = "done" => mt_data_queue' = <<>> \/ err' = 1
    PROVE  Phases'
<1> USE DEF LoadInv, Phases, mainVars, Idle, Early
<1>1. worker_pc'[t] = s /\ \A u \in Threads \ {t} : worker_pc'[u] = worker_pc[u]
  BY DEF LoadTypeOK, WorkerGoto
<1>2. main_pc \notin {"free", "idle"}
  OBVIOUS
<1>3. ASSUME main_pc \in {"fill", "merge", "ready"}
      PROVE  NotYet' /\ \A u \in Threads : worker_pc'[u] = "done" => err' = 1
  <2>1. NotYet
    BY <1>3
  <2> QED
    BY <1>1, <1>3, <2>1 DEF NotYet
<1>4. main_pc = "failed" => NotYet'
  BY <1>1 DEF NotYet
<1>5. main_pc \in {"broadcast", "join"} => \A u \in 1 .. joined : Idle(u)'
  <2> SUFFICES ASSUME main_pc \in {"broadcast", "join"}, NEW u \in 1 .. joined PROVE Idle(u)'
    OBVIOUS
  <2>1. u \in Threads /\ u # t
    BY CountsNat DEF LoadTypeOK
  <2> QED
    BY <1>1, <2>1
<1>6. main_pc = "inflate" => \A u \in Threads \ {1} : Idle(u)'
  BY <1>1
<1>7. (\A u \in Threads : Over(u)') => mt_data_queue' = <<>> \/ err' = 1
  BY <1>1 DEF Over
<1> QED
  BY <1>2, <1>3, <1>4, <1>5, <1>6, <1>7

(* A step that touches only the worker's place and the mutex.              *)
LEMMA StartsKeep ==
    ASSUME LoadInv, NEW t \in Threads,
           AllocBuffer(t) \/ AllocFails(t) \/ TestReady(t) \/ CondWait(t) \/ SpuriousWake(t)
    PROVE  LoadTypeOK' /\ Hands' /\ Phases' /\ Books'
<1> USE DEF LoadInv
<1>1. /\ worker_pc[t] \in {"alloc", "sync", "sleep", "waiting"}
      /\ UNCHANGED <<pageVars, fileVars, mainVars, main_pc, mt_data_queue, chunk, placed>>
      /\ err' \in {err, 1}
      /\ \E s \in WorkerStates : WorkerGoto(t, s) /\ worker_pc' = [worker_pc EXCEPT ![t] = s]
      /\ worker_pc'[t] \in {"sync", "loop", "done", "sleep", "waiting"}
  BY DEF AllocBuffer, AllocFails, TestReady, CondWait, SpuriousWake, WorkerGoto, LoadTypeOK, WorkerStates
<1>2. \A u \in Threads \ {t} : worker_pc'[u] = worker_pc[u]
  BY <1>1 DEF LoadTypeOK
<1>3. /\ thread_mtx' \in Threads \cup {NoThread}
      /\ thread_mtx' # NoThread => worker_pc'[thread_mtx'] = "sleep"
  BY <1>2 DEF AllocBuffer, AllocFails, TestReady, CondWait, SpuriousWake, WorkerGoto, LoadTypeOK, Hands, WorkerStates
<1>4. LoadTypeOK'
  BY <1>1, <1>3 DEF LoadTypeOK, fileVars, mainVars, Met
<1>5. Hands'
  BY <1>1, <1>2, <1>3 DEF Hands, fileVars, pageVars
<1>6. Phases'
  <2>1. ~Idle(t)
    BY <1>1 DEF Idle
  <2>2. CASE AllocBuffer(t)
    BY <1>1, <2>1, <2>2, PhasesMove DEF AllocBuffer, NotYet, WorkerStates
  <2>3. CASE AllocFails(t)
    BY <1>1, <2>1, <2>3, PhasesMove DEF AllocFails, WorkerStates
  <2>4. CASE TestReady(t)
    BY <1>1, <2>1, <2>4, PhasesMove DEF TestReady, NotYet, WorkerStates
  <2>5. CASE CondWait(t)
    BY <1>1, <2>1, <2>5, PhasesMove DEF CondWait, WorkerStates
  <2>6. CASE SpuriousWake(t)
    BY <1>1, <2>1, <2>6, PhasesMove DEF SpuriousWake, WorkerStates
  <2> QED
    BY <2>2, <2>3, <2>4, <2>5, <2>6
<1>7. Books'
  BY <1>1, QuietBooks DEF fileVars, mainVars
<1> QED
  BY <1>4, <1>5, <1>6, <1>7

(* The tests of the loop and its end: no chunk changes hands.              *)
LEMMA TestsKeep ==
    ASSUME LoadInv, NEW t \in Threads,
           TestLength(t) \/ DequeueNull(t) \/ Inflate(t) \/ SwitchErr(t) \/ Finish(t)
    PROVE  LoadTypeOK' /\ Hands' /\ Phases' /\ Books'
<1> USE DEF LoadInv
<1>1. /\ worker_pc[t] \in {"loop", "dequeue", "inflate", "switch", "finish"}
      /\ UNCHANGED <<pageVars, fileVars, mainVars, main_pc, mt_data_queue, chunk, placed, thread_mtx>>
      /\ err' \in {err, 0, 1}
      /\ \E s \in WorkerStates : WorkerGoto(t, s) /\ worker_pc' = [worker_pc EXCEPT ![t] = s]
  BY DEF TestLength, DequeueNull, Inflate, SwitchErr, Finish, WorkerGoto, LoadTypeOK, WorkerStates
<1>2. \A u \in Threads \ {t} : worker_pc'[u] = worker_pc[u]
  BY <1>1 DEF LoadTypeOK
<1>3. /\ worker_pc[t] = "loop" => worker_pc'[t] = "dequeue" \/ (worker_pc'[t] = "finish" /\ mt_data_queue = <<>>)
      /\ worker_pc[t] = "dequeue" => worker_pc'[t] = "finish" /\ mt_data_queue = <<>>
      /\ worker_pc[t] = "inflate" => worker_pc'[t] = "release"
      /\ worker_pc[t] = "switch" => worker_pc'[t] \in {"fail", "place"}
      /\ worker_pc[t] = "finish" => worker_pc'[t] = "done"
  BY DEF TestLength, DequeueNull, Inflate, SwitchErr, Finish, WorkerGoto, LoadTypeOK, WorkerStates
<1>4. LoadTypeOK'
  BY <1>1 DEF LoadTypeOK, fileVars, mainVars, Met
<1>5. Hands'
  <2>1. thread_mtx # NoThread => thread_mtx # t /\ thread_mtx \in Threads
    BY <1>1 DEF Hands, LoadTypeOK
  <2> QED
    BY <2>1, <1>1, <1>2, <1>3 DEF Hands, fileVars, pageVars
<1>6. Phases'
  <2>1. ~Idle(t) /\ ~Early(t)
    BY <1>1 DEF Idle, Early
  <2>2. PICK s \in WorkerStates : WorkerGoto(t, s)
    BY <1>1
  <2>3. s = worker_pc'[t] /\ s # "none"
    BY <1>1, <1>3, <2>2 DEF WorkerGoto, LoadTypeOK
  <2>4. s = "done" => mt_data_queue' = <<>>
    BY <1>1, <1>3, <2>3 DEF Hands
  <2> QED
    BY <1>1, <2>1, <2>2, <2>3, <2>4, PhasesMove
<1>7. Books'
  BY <1>1, QuietBooks DEF fileVars, mainVars
<1> QED
  BY <1>4, <1>5, <1>6, <1>7

(* mt_dequeue and the entry into mt_navigateTo.                            *)
LEMMA DequeueKeeps ==
    ASSUME LoadInv, NEW t \in Threads, Dequeue(t)
    PROVE  LoadTypeOK' /\ Hands' /\ Phases' /\ Books'
<1> USE DEF LoadInv
<1> DEFINE c == Head(mt_data_queue)
<1>1. /\ worker_pc[t] = "dequeue" /\ mt_data_queue # <<>>
      /\ chunk' = [chunk EXCEPT ![t] = c]
      /\ mt_data_queue' = Tail(mt_data_queue)
      /\ WorkerGoto(t, "inflate")
      /\ IF is_super_mapped THEN UNCHANGED pageVars ELSE EnterPage(t, PageOf[c])
      /\ UNCHANGED <<fileVars, mainVars, main_pc, thread_mtx, err, placed>>
  BY DEF Dequeue
<1>2. c \in Chunks /\ c # NoChunk /\ mt_data_queue' \in Seq(Chunks)
  BY <1>1, TailSet, ChunksAssumption DEF LoadTypeOK, Books, TakenOnce
<1> HIDE DEF c
<1>3. /\ worker_pc'[t] = "inflate" /\ chunk'[t] = c
      /\ \A u \in Threads \ {t} : worker_pc'[u] = worker_pc[u] /\ chunk'[u] = chunk[u]
  BY <1>1 DEF LoadTypeOK, WorkerGoto
<1>4. LoadTypeOK'
  BY <1>1, <1>2 DEF LoadTypeOK, fileVars, mainVars, Met, WorkerGoto, WorkerStates
<1>5. Hands'
  <2>1. thread_mtx # NoThread => thread_mtx # t /\ thread_mtx \in Threads
    BY <1>1 DEF Hands, LoadTypeOK
  <2>2. \A u \in Threads : worker_pc[u] # "finish"
    BY <1>1 DEF Hands
  <2>3. CASE is_super_mapped
    BY <2>1, <2>2, <2>3, <1>1, <1>2, <1>3 DEF Hands, fileVars, pageVars
  <2>4. CASE ~is_super_mapped
    <3>1. /\ nav_pc'[t] = "check" /\ nav_page'[t] = PageOf[c]
          /\ \A u \in Threads \ {t} : nav_pc'[u] = nav_pc[u] /\ nav_page'[u] = nav_page[u]
      BY <2>4, <1>1 DEF EnterPage, Goto, PageInv, PageTypeOK
    <3> QED
      BY <3>1, <2>1, <2>2, <2>4, <1>1, <1>2, <1>3 DEF Hands, fileVars
  <2> QED
    BY <2>3, <2>4
<1>6. Phases'
  <2>1. ~Idle(t) /\ ~Early(t)
    BY <1>1 DEF Idle, Early
  <2> QED
    BY <2>1, <1>1, PhasesMove DEF WorkerStates
<1>7. Books'
  BY DequeueBooks
<1> QED
  BY <1>4, <1>5, <1>6, <1>7

(* A step of mt_navigateTo.                                                *)
LEMMA NavigateKeepsLoad ==
    ASSUME LoadInv, NEW t \in Threads, NavigateChunk(t)
    PROVE  LoadTypeOK' /\ Hands' /\ Phases' /\ Books'
<1> USE DEF LoadInv
<1>1. /\ UNCHANGED <<fileVars, mainVars, workerVars, main_pc>>
      /\ NavigateStep(t)
  BY DEF NavigateChunk, loadVars
<1>2. /\ nav_pc[t] # "out" /\ nav_pc'[t] # "out"
      /\ \A u \in Threads \ {t} : nav_pc'[u] = nav_pc[u]
      /\ nav_page' = nav_page
  BY <1>1, NavigateMove DEF PageInv
<1>3. LoadTypeOK'
  BY <1>1 DEF LoadTypeOK, fileVars, mainVars, workerVars, Met
<1>4. Hands'
  BY <1>1, <1>2 DEF Hands, fileVars, workerVars
<1>5. Phases'
  BY <1>1 DEF Phases, NotYet, Early, Idle, Over, mainVars, workerVars
<1>6. Books'
  BY NavigateBooks
<1> QED
  BY <1>3, <1>4, <1>5, <1>6

(* mmap fails and the process ends.                                        *)
LEMMA MmapKeeps ==
    ASSUME LoadInv, Alive, NEW t \in Threads, MmapFails(t)
    PROVE  LoadTypeOK' /\ Hands' /\ Phases' /\ Books'
<1> USE DEF LoadInv
<1>1. /\ UNCHANGED <<pageVars, fileVars, mainVars, workerVars>>
      /\ main_pc' = "aborted" /\ nav_pc[t] = "map"
  BY DEF MmapFails, MainGoto
<1>2. LoadTypeOK'
  BY <1>1 DEF LoadTypeOK, fileVars, mainVars, workerVars, Met, MainStates
<1>3. Hands'
  BY <1>1 DEF Hands, fileVars, workerVars, pageVars
<1>4. Phases'
  BY <1>1 DEF Phases
<1>5. main_pc \notin {"failed", "closed"}
  BY <1>1 DEF Hands, Phases, NotYet, Early, Idle, Alive
<1>6. Books'
  BY <1>1, <1>5, QuietBooks DEF fileVars, mainVars, workerVars
<1> QED
  BY <1>2, <1>3, <1>4, <1>6

(* mt_releasePages.                                                        *)
LEMMA ReleaseKeeps ==
    ASSUME LoadInv, NEW t \in Threads, Release(t)
    PROVE  LoadTypeOK' /\ Hands' /\ Phases' /\ Books'
<1> USE DEF LoadInv
<1>1. /\ worker_pc[t] = "release" /\ WorkerGoto(t, "switch")
      /\ IF is_super_mapped THEN UNCHANGED pageVars ELSE ReleasePages(t)
      /\ UNCHANGED <<fileVars, mainVars, main_pc, mt_data_queue, thread_mtx, chunk, err, placed>>
  BY DEF Release
<1>2. /\ worker_pc'[t] = "switch"
      /\ \A u \in Threads \ {t} : worker_pc'[u] = worker_pc[u]
  BY <1>1 DEF LoadTypeOK, WorkerGoto
<1>3. LoadTypeOK'
  BY <1>1 DEF LoadTypeOK, fileVars, mainVars, Met, WorkerGoto, WorkerStates
<1>4. Hands'
  <2>1. thread_mtx # NoThread => thread_mtx # t /\ thread_mtx \in Threads
    BY <1>1 DEF Hands, LoadTypeOK
  <2>2. CASE is_super_mapped
    BY <2>1, <2>2, <1>1, <1>2 DEF Hands, fileVars, pageVars
  <2>3. CASE ~is_super_mapped
    <3>1. /\ nav_pc'[t] = "out" /\ nav_page' = nav_page
          /\ \A u \in Threads \ {t} : nav_pc'[u] = nav_pc[u]
      BY <2>3, <1>1 DEF ReleasePages, Goto, PageInv, PageTypeOK
    <3> QED
      BY <3>1, <2>1, <2>3, <1>1, <1>2 DEF Hands, fileVars
  <2> QED
    BY <2>2, <2>3
<1>5. Phases'
  <2>1. ~Idle(t) /\ ~Early(t)
    BY <1>1 DEF Idle, Early
  <2> QED
    BY <2>1, <1>1, PhasesMove DEF WorkerStates
<1>6. Books'
  BY ReleaseBooks
<1> QED
  BY <1>3, <1>4, <1>5, <1>6

(* A chunk that was copied out, or given up.                               *)
LEMMA LayDownKeeps ==
    ASSUME LoadInv, NEW t \in Threads, Fail(t) \/ Place(t)
    PROVE  LoadTypeOK' /\ Hands' /\ Phases' /\ Books'
<1> USE DEF LoadInv
<1>1. /\ worker_pc[t] \in {"fail", "place"}
      /\ chunk' = [chunk EXCEPT ![t] = NoChunk]
      /\ placed' = placed \/ placed' = placed \cup {chunk[t]}
      /\ (WorkerGoto(t, "done") /\ err' = 1) \/ (WorkerGoto(t, "loop") /\ err' = err)
      /\ UNCHANGED <<pageVars, fileVars, mainVars, main_pc, mt_data_queue, thread_mtx>>
  BY DEF Fail, Place
<1>2. /\ worker_pc'[t] \in {"done", "loop"} /\ chunk'[t] = NoChunk
      /\ \A u \in Threads \ {t} : worker_pc'[u] = worker_pc[u] /\ chunk'[u] = chunk[u]
  BY <1>1 DEF LoadTypeOK, WorkerGoto
<1>3. chunk[t] \in Chunks
  BY <1>1 DEF Hands, LoadTypeOK
<1>4. LoadTypeOK'
  <2>1. worker_pc' \in [Threads -> WorkerStates] /\ err' \in {0, 1}
    BY <1>1 DEF LoadTypeOK, WorkerGoto, WorkerStates
  <2>2. chunk' \in [Threads -> Chunks \cup {NoChunk}] /\ placed' \in SUBSET Chunks
    BY <1>1, <1>3 DEF LoadTypeOK
  <2> QED
    BY <1>1, <2>1, <2>2 DEF LoadTypeOK, fileVars, mainVars, Met
<1>5. Hands'
  <2>1. thread_mtx # NoThread => thread_mtx # t /\ thread_mtx \in Threads
    BY <1>1 DEF Hands, LoadTypeOK
  <2>2. nav_pc[t] = "out"
    BY <1>1 DEF Hands
  <2> QED
    BY <2>1, <2>2, <1>1, <1>2 DEF Hands, fileVars, pageVars
<1>6. Phases'
  <2>1. ~Idle(t) /\ ~Early(t)
    BY <1>1 DEF Idle, Early
  <2>2. CASE WorkerGoto(t, "done") /\ err' = 1
    BY <2>1, <2>2, <1>1, PhasesMove DEF WorkerStates
  <2>3. CASE WorkerGoto(t, "loop")
    BY <2>1, <2>3, <1>1, PhasesMove DEF WorkerStates
  <2> QED
    BY <1>1, <2>2, <2>3
<1>7. Books'
  BY <1>1, LayDown DEF fileVars, mainVars
<1> QED
  BY <1>4, <1>5, <1>6, <1>7

-----------------------------------------------------------------------------
(* Types, hands and phases: the steps of the main thread.                  *)

(* What fillNode meets in a tree is a finite sequence.                     *)
LEMMA MetSeq ==
    ASSUME trees \in Forests, dataset \in 0 .. Len(trees)
    PROVE  Met \in Seq(Chunks \cup {WrongNode}) /\ Len(Met) \in Nat
<1>1. CASE dataset = 0
  BY <1>1, EmptySeq DEF Met
<1>2. CASE dataset # 0
  <2>1. trees \in Seq(DOMAIN Nodes)
    BY ChunksAssumption
  <2>2. DOMAIN trees = 1 .. Len(trees) /\ Len(trees) \in Nat
    BY <2>1, LenProperties
  <2>3. dataset \in DOMAIN trees
    BY <1>2, <2>2
  <2>4. FillNode[trees[dataset]] \in Seq(Chunks \cup {WrongNode})
    BY <2>3, TreesAssumption
  <2> QED
    BY <1>2, <2>4, LenProperties DEF Met
<1> QED
  BY <1>1, <1>2

(* getChunkedData begins: nobody is left from the dataset before.          *)
LEMMA StartKeeps ==
    ASSUME LoadInv, StartLoad
    PROVE  LoadTypeOK' /\ Hands' /\ Phases' /\ Books'
<1> USE DEF LoadInv
<1>1. /\ main_pc = "idle" /\ main_pc' = "fill"
      /\ dataset < Len(trees) /\ dataset' = dataset + 1
      /\ multithread' \in BOOLEAN
      /\ worker_pc' = [t \in Threads |-> IF multithread' THEN "alloc" ELSE "none"]
      /\ main_thread_ready' = FALSE /\ err' = 0 /\ ret' = 0 /\ recorded' = 0
      /\ merged' = 0 /\ joined' = 0 /\ placed' = {}
      /\ UNCHANGED <<pageVars, fileVars, data_page_buckets, mt_data_queue, thread_mtx, chunk>>
  BY DEF StartLoad, MainGoto
<1>2. \A t \in Threads : Idle(t) /\ chunk[t] = NoChunk /\ nav_pc[t] = "out"
  BY <1>1 DEF Phases, Hands, Idle
<1>3. thread_mtx = NoThread
  BY <1>2 DEF Hands, LoadTypeOK, Idle
<1>4. LoadTypeOK'
  <2>1. trees' \in Forests /\ dataset' \in 0 .. Len(trees')
    <3>1. Len(trees) \in Nat
      BY ChunksAssumption, LenProperties DEF LoadTypeOK
    <3> QED
      BY <3>1, <1>1 DEF LoadTypeOK, fileVars
  <2>2. Len(Met') \in Nat
    <3>1. (trees \in Forests /\ dataset \in 0 .. Len(trees))'
      BY <2>1
    <3> QED
      BY <3>1, MetSeq
  <2>3. worker_pc' \in [Threads -> WorkerStates]
    BY <1>1 DEF WorkerStates
  <2>4. recorded' \in 0 .. Len(Met') /\ merged' \in 0 .. NumPages /\ joined' \in 0 .. NumThreads
    BY <2>2, <1>1, CountsNat
  <2>5. main_pc' \in MainStates
    BY <1>1 DEF MainStates
  <2> QED
    BY <2>1, <2>3, <2>4, <2>5, <1>1 DEF LoadTypeOK, fileVars
<1>5. Hands'
  BY <1>1, <1>2, <1>3 DEF Hands, fileVars, pageVars
<1>6. Phases'
  BY <1>1 DEF Phases, NotYet, Early, Idle
<1>7. Books'
  BY StartBooks
<1> QED
  BY <1>4, <1>5, <1>6, <1>7

(* fillNode's turn.                                                        *)
LEMMA RecordKeeps ==
    ASSUME LoadInv, RecordChunk
    PROVE  LoadTypeOK' /\ Hands' /\ Phases' /\ Books'
<1> USE DEF LoadInv
<1> DEFINE c == Met[recorded + 1]
<1>1. /\ main_pc = "fill" /\ recorded < Len(Met) /\ Met[recorded + 1] # WrongNode
      /\ Register(PageOf[c], ExtentOf[c])
      /\ data_page_buckets' = [data_page_buckets EXCEPT ![PageOf[c]] = Append(@, c)]
      /\ recorded' = recorded + 1
      /\ UNCHANGED <<fileVars, main_pc, workerVars, dataset, multithread, merged,
                     main_thread_ready, joined, ret>>
  BY DEF RecordChunk
<1>2. c \in Chunks /\ PageOf[c] \in Pages
  BY <1>1, NextIsNew, ChunksAssumption
<1> HIDE DEF c
<1>3. LoadTypeOK'
  <2>1. recorded' \in 0 .. Len(Met')
    <3>1. Met' = Met /\ Len(Met) \in Nat
      BY <1>1, MetSeq DEF Met, LoadTypeOK, fileVars
    <3> QED
      BY <3>1, <1>1 DEF LoadTypeOK
  <2>2. data_page_buckets' \in [Pages -> Seq(Chunks)]
    <3>1. data_page_buckets \in [Pages -> Seq(Chunks)]
      BY DEF LoadTypeOK
    <3>2. Append(data_page_buckets[PageOf[c]], c) \in Seq(Chunks)
      BY <3>1, <1>2, AppendProperties
    <3> QED
      BY <3>1, <3>2, <1>1, <1>2
  <2> QED
    BY <2>1, <2>2, <1>1 DEF LoadTypeOK, fileVars, workerVars
<1>4. Hands'
  BY <1>1 DEF Hands, Register, fileVars, workerVars
<1>5. Phases'
  BY <1>1 DEF Phases, NotYet, Early, Idle, workerVars
<1>6. Books'
  BY RecordBooks
<1> QED
  BY <1>3, <1>4, <1>5, <1>6

(* The walk ends, one way or the other; the merge ends; the flag is set.   *)
LEMMA TurnsKeep ==
    ASSUME LoadInv, FillFails \/ FillDone \/ SetReady
    PROVE  LoadTypeOK' /\ Hands' /\ Phases' /\ Books'
<1> USE DEF LoadInv
<1>1. /\ UNCHANGED <<pageVars, fileVars, workerVars, dataset, multithread, recorded,
                     data_page_buckets, merged, joined>>
      /\ main_pc \in {"fill", "ready"} /\ main_pc' \in {"failed", "merge", "broadcast"}
      /\ ret' \in {ret, 1} /\ main_thread_ready' \in BOOLEAN
  BY DEF FillFails, FillDone, SetReady, MainGoto, mainVars, LoadTypeOK
<1>2. LoadTypeOK'
  BY <1>1 DEF LoadTypeOK, fileVars, workerVars, Met, MainStates
<1>3. Hands'
  BY <1>1 DEF Hands, fileVars, workerVars, pageVars
<1>4. Phases'
  <2>1. CASE FillFails
    BY <2>1, <1>1 DEF FillFails, MainGoto, Phases, NotYet, Early, Idle, workerVars
  <2>2. CASE FillDone
    <3>1. \A p \in Pages : ~(p < 0)
      BY CountsNat
    <3> QED
      BY <2>2, <1>1, <3>1 DEF FillDone, MainGoto, mainVars, Phases, NotYet, Early, Idle, workerVars
  <2>3. CASE SetReady
    <3>1. main_pc = "ready" /\ main_pc' = "broadcast"
      BY <2>3 DEF SetReady, MainGoto
    <3>2. NotYet /\ joined = 0
      BY <3>1 DEF Phases
    <3>3. worker_pc[1] = "done" => err = 1
      BY <3>1, CountsNat DEF Phases
    <3>4. Over(1) => err = 1
      BY <3>2, <3>3, CountsNat DEF NotYet, Early, Over
    <3>5. \A t \in 1 .. joined : FALSE
      BY <3>2
    <3> QED
      BY <3>1, <3>2, <3>4, <3>5, <1>1, CountsNat DEF Phases, NotYet, Over, workerVars
  <2> QED
    BY <2>1, <2>2, <2>3
<1>5. Books'
  <2>1. main_pc \notin {"failed", "closed"}
    BY <1>1
  <2> QED
    BY <2>1, <1>1, QuietBooks DEF fileVars, workerVars
<1> QED
  BY <1>2, <1>3, <1>4, <1>5

(* One bucket is merged.                                                   *)
LEMMA MergeKeeps ==
    ASSUME LoadInv, MergeBucket
    PROVE  LoadTypeOK' /\ Hands' /\ Phases' /\ Books'
<1> USE DEF LoadInv
<1>1. /\ main_pc = "merge" /\ merged < NumPages
      /\ mt_data_queue' = mt_data_queue \o data_page_buckets[merged]
      /\ data_page_buckets' = [data_page_buckets EXCEPT ![merged] = <<>>]
      /\ merged' = merged + 1
      /\ UNCHANGED <<pageVars, fileVars, main_pc, dataset, multithread, recorded,
                     main_thread_ready, joined, ret, thread_mtx, worker_pc, chunk, err, placed>>
  BY DEF MergeBucket
<1>2. merged \in Pages /\ merged \in Nat /\ merged + 1 \in 0 .. NumPages
  <2>1. merged \in 0 .. NumPages
    BY DEF LoadTypeOK
  <2> QED
    BY <2>1, <1>1, CountsNat
<1>3. data_page_buckets \in [Pages -> Seq(Chunks)] /\ mt_data_queue \in Seq(Chunks)
  BY DEF LoadTypeOK
<1>4. LoadTypeOK'
  <2>1. mt_data_queue' \in Seq(Chunks)
    BY <1>1, <1>2, <1>3, ConcatProperties
  <2>2. data_page_buckets' \in [Pages -> Seq(Chunks)]
    BY <1>1, <1>3, EmptySeq
  <2> QED
    BY <2>1, <2>2, <1>1, <1>2 DEF LoadTypeOK, fileVars, Met
<1>5. Hands'
  <2>1. \A t \in Threads : worker_pc[t] # "finish"
    BY <1>1 DEF Phases, NotYet, Early, Idle
  <2> QED
    BY <2>1, <1>1 DEF Hands, fileVars, pageVars
<1>6. Phases'
  <2>1. ASSUME NEW p \in Pages, p < merged' PROVE data_page_buckets'[p] = <<>>
    <3>1. p = merged \/ p < merged
      BY <2>1, <1>1, <1>2, CountsNat
    <3> QED
      BY <3>1, <1>1, <1>3 DEF Phases
  <2> QED
    BY <2>1, <1>1 DEF Phases, NotYet, Early, Idle
<1>7. Books'
  BY MergeBooks
<1> QED
  BY <1>4, <1>5, <1>6, <1>7

(* After the merge all buckets are empty; without threads worker 1 begins. *)
LEMMA MergeDoneKeeps ==
    ASSUME LoadInv, MergeDone
    PROVE  LoadTypeOK' /\ Hands' /\ Phases' /\ Books'
<1> USE DEF LoadInv
<1>1. /\ main_pc = "merge" /\ merged = NumPages
      /\ \/ multithread /\ main_pc' = "ready" /\ worker_pc' = worker_pc
         \/ ~multithread /\ main_pc' = "inflate" /\ worker_pc' = [worker_pc EXCEPT ![1] = "alloc"]
      /\ UNCHANGED <<pageVars, fileVars, mainVars, mt_data_queue, thread_mtx, chunk, err, placed>>
  BY DEF MergeDone, MainGoto, WorkerGoto, LoadTypeOK
<1>2. \A p \in Pages : data_page_buckets[p] = <<>>
  <2>1. \A p \in Pages : p < merged
    BY <1>1, CountsNat
  <2> QED
    BY <2>1, <1>1 DEF Phases
<1>3. ~multithread => \A t \in Threads : Idle(t)
  BY <1>1 DEF Phases, NotYet
<1>4. \A t \in Threads \ {1} : worker_pc'[t] = worker_pc[t]
  BY <1>1 DEF LoadTypeOK
<1>5. ~multithread => worker_pc'[1] = "alloc" /\ worker_pc[1] = "none"
  BY <1>1, <1>3, CountsNat DEF LoadTypeOK, Idle
<1>6. LoadTypeOK'
  <2>1. main_pc' \in MainStates /\ worker_pc' \in [Threads -> WorkerStates]
    BY <1>1 DEF LoadTypeOK, MainStates, WorkerStates
  <2> QED
    BY <2>1, <1>1 DEF LoadTypeOK, fileVars, mainVars, Met
<1>7. Hands'
  <2>1. CASE multithread
    BY <2>1, <1>1 DEF Hands, fileVars, pageVars
  <2>2. CASE ~multithread
    <3>1. thread_mtx = NoThread
      BY <2>2, <1>3 DEF Hands, LoadTypeOK, Idle
    <3> QED
      BY <3>1, <2>2, <1>1, <1>3, <1>4, <1>5 DEF Hands, fileVars, pageVars, Idle
  <2> QED
    BY <2>1, <2>2
<1>8. Phases'
  <2>1. CASE multithread
    BY <2>1, <1>1, <1>2 DEF Phases, mainVars, NotYet, Early, Idle
  <2>2. CASE ~multithread
    <3>1. ~Over(1)'
      BY <2>2, <1>5 DEF Over
    <3>2. \A t \in Threads \ {1} : Idle(t)'
      BY <2>2, <1>3, <1>4 DEF Idle
    <3> QED
      BY <3>1, <3>2, <2>2, <1>1, <1>2, CountsNat DEF Phases, mainVars
  <2> QED
    BY <2>1, <2>2
<1>9. Books'
  BY <1>1, QuietBooks DEF fileVars, mainVars
<1> QED
  BY <1>6, <1>7, <1>8, <1>9

(* The broadcast wakes who waits.                                          *)
LEMMA BroadcastKeeps ==
    ASSUME LoadInv, Broadcast
    PROVE  LoadTypeOK' /\ Hands' /\ Phases' /\ Books'
<1> USE DEF LoadInv
<1>1. /\ main_pc = "broadcast" /\ main_pc' = "join" /\ thread_mtx = NoThread
      /\ worker_pc' = [t \in Threads |-> IF worker_pc[t] = "waiting" THEN "sync" ELSE worker_pc[t]]
      /\ UNCHANGED <<pageVars, fileVars, mainVars, mt_data_queue, thread_mtx, chunk, err, placed>>
  BY DEF Broadcast, MainGoto
<1>2. \A t \in Threads : worker_pc'[t] = worker_pc[t] \/ (worker_pc[t] = "waiting" /\ worker_pc'[t] = "sync")
  BY <1>1
<1>3. LoadTypeOK'
  <2>1. main_pc' \in MainStates /\ worker_pc' \in [Threads -> WorkerStates]
    BY <1>1 DEF LoadTypeOK, MainStates, WorkerStates
  <2> QED
    BY <2>1, <1>1 DEF LoadTypeOK, fileVars, mainVars, Met
<1>4. Hands'
  BY <1>1, <1>2 DEF Hands, fileVars, pageVars
<1>5. Phases'
  <2>1. \A t \in Threads : Idle(t)' <=> Idle(t)
    BY <1>2 DEF Idle
  <2>2. \A t \in Threads : Over(t)' <=> Over(t)
    BY <1>2 DEF Over
  <2>3. \A t \in 1 .. joined : t \in Threads
    BY CountsNat DEF LoadTypeOK
  <2> QED
    BY <2>1, <2>2, <2>3, <1>1 DEF Phases, mainVars
<1>6. Books'
  BY <1>1, QuietBooks DEF fileVars, mainVars
<1> QED
  BY <1>3, <1>4, <1>5, <1>6

(* A worker that has returned is joined; after the last one, chunks are    *)
(* left only if one of them said so.                                       *)
LEMMA JoinKeeps ==
    ASSUME LoadInv, Join
    PROVE  LoadTypeOK' /\ Hands' /\ Phases' /\ Books'
<1> USE DEF LoadInv
<1> DEFINE t == joined + 1
<1>1. /\ main_pc = "join" /\ worker_pc[t] = "done"
      /\ ret' = IF err # 0 THEN 1 ELSE ret
      /\ worker_pc' = [worker_pc EXCEPT ![t] = "none"] /\ joined' = t
      /\ main_pc' = IF t = NumThreads THEN "free" ELSE "join"
      /\ UNCHANGED <<pageVars, fileVars, dataset, multithread, recorded, data_page_buckets, merged,
                     main_thread_ready, mt_data_queue, thread_mtx, chunk, err, placed>>
  BY DEF Join, MainGoto, WorkerGoto
<1>2. /\ joined \in Nat /\ joined < NumThreads /\ t \in 1 .. NumThreads /\ t \in Threads
      /\ \A u \in 1 .. joined : Idle(u)
  BY <1>1, CountsNat DEF LoadTypeOK, Phases
<1>3. /\ 1 .. t = (1 .. joined) \cup {t}
      /\ t # NumThreads => t < NumThreads
  BY <1>2, CountsNat
<1> HIDE DEF t
<1>4. worker_pc'[t] = "none" /\ \A u \in Threads \ {t} : worker_pc'[u] = worker_pc[u]
  BY <1>1, <1>2 DEF LoadTypeOK
<1>5. LoadTypeOK'
  <2>1. main_pc' \in MainStates /\ worker_pc' \in [Threads -> WorkerStates] /\ ret' \in {0, 1}
    BY <1>1 DEF LoadTypeOK, MainStates, WorkerStates
  <2>2. joined' \in 0 .. NumThreads
    BY <1>1, <1>2
  <2> QED
    BY <2>1, <2>2, <1>1 DEF LoadTypeOK, fileVars, Met
<1>6. Hands'
  <2>1. thread_mtx # NoThread => thread_mtx # t /\ thread_mtx \in Threads
    BY <1>1 DEF Hands, LoadTypeOK
  <2> QED
    BY <2>1, <1>1, <1>4 DEF Hands, fileVars, pageVars
<1>7. Phases'
  <2>1. \A u \in 1 .. t : Idle(u)'
    <3>1. \A u \in 1 .. joined : u \in Threads /\ u # t
      BY <1>2, CountsNat DEF t
    <3> QED
      BY <3>1, <1>2, <1>3, <1>4 DEF Idle
  <2>2. \A u \in Threads : Over(u)' <=> Over(u)
    BY <1>1, <1>4 DEF Over
  <2>3. CASE t = NumThreads
    <3>1. \A u \in Threads : Idle(u)'
      BY <2>1, <2>3, CountsNat
    <3>2. mt_data_queue = <<>> \/ err = 1
      <4>1. \A u \in Threads : Over(u)
        BY <2>2, <3>1 DEF Idle, Over
      <4> QED
        BY <4>1, <1>1 DEF Phases
    <3> QED
      BY <3>1, <3>2, <2>3, <1>1 DEF Phases
  <2>4. CASE t # NumThreads
    BY <2>1, <2>2, <2>4, <1>1, <1>3 DEF Phases
  <2> QED
    BY <2>3, <2>4
<1>8. Books'
  <2>1. main_pc \notin {"failed", "closed"}
    BY <1>1
  <2> QED
    BY <2>1, <1>1, QuietBooks DEF fileVars
<1> QED
  BY <1>5, <1>6, <1>7, <1>8

(* Without threads doInflate_ returns.                                     *)
LEMMA ReturnsKeep ==
    ASSUME LoadInv, InflateReturns
    PROVE  LoadTypeOK' /\ Hands' /\ Phases' /\ Books'
<1> USE DEF LoadInv
<1>1. /\ main_pc = "inflate" /\ main_pc' = "free" /\ worker_pc[1] = "done"
      /\ ret' = IF err # 0 THEN 1 ELSE ret
      /\ worker_pc' = [worker_pc EXCEPT ![1] = "none"]
      /\ UNCHANGED <<pageVars, fileVars, dataset, multithread, recorded, data_page_buckets, merged,
                     main_thread_ready, joined, mt_data_queue, thread_mtx, chunk, err, placed>>
  BY DEF InflateReturns, MainGoto, WorkerGoto
<1>2. worker_pc'[1] = "none" /\ \A u \in Threads \ {1} : worker_pc'[u] = worker_pc[u]
  BY <1>1, CountsNat DEF LoadTypeOK
<1>3. \A u \in Threads : Over(u) /\ Idle(u)'
  BY <1>1, <1>2 DEF Phases, Idle, Over
<1>4. LoadTypeOK'
  <2>1. main_pc' \in MainStates /\ worker_pc' \in [Threads -> WorkerStates] /\ ret' \in {0, 1}
    BY <1>1 DEF LoadTypeOK, MainStates, WorkerStates
  <2> QED
    BY <2>1, <1>1 DEF LoadTypeOK, fileVars, Met
<1>5. Hands'
  <2>1. thread_mtx = NoThread
    BY <1>3 DEF Hands, LoadTypeOK, Over
  <2> QED
    BY <2>1, <1>1, <1>2 DEF Hands, fileVars, pageVars
<1>6. Phases'
  BY <1>1, <1>3 DEF Phases
<1>7. Books'
  <2>1. main_pc \notin {"failed", "closed"}
    BY <1>1
  <2> QED
    BY <2>1, <1>1, QuietBooks DEF fileVars
<1> QED
  BY <1>4, <1>5, <1>6, <1>7

(* The queues of the load, and those of the session, are freed.            *)
LEMMA EndsKeep ==
    ASSUME LoadInv, FreeLoad \/ Close
    PROVE  LoadTypeOK' /\ Hands' /\ Phases' /\ Books'
<1> USE DEF LoadInv
<1>1. /\ main_pc \in {"free", "idle", "failed"} /\ main_pc' \in {"idle", "failed", "closed"}
      /\ main_pc # "free" => main_pc' = "closed"
      /\ main_pc = "free" => data_page_buckets' = data_page_buckets
      /\ mt_data_queue' = <<>>
      /\ data_page_buckets' \in {data_page_buckets, [p \in Pages |-> <<>>]}
      /\ UNCHANGED <<nav_pc, nav_page, fileVars, dataset, multithread, recorded, merged, main_thread_ready,
                     joined, ret, thread_mtx, worker_pc, chunk, err, placed>>
  BY DEF FreeLoad, Close, ResetPages, MainGoto, mainVars, pageVars
<1>2. LoadTypeOK'
  <2>1. main_pc' \in MainStates /\ mt_data_queue' \in Seq(Chunks)
    BY <1>1, EmptySeq DEF MainStates
  <2>2. data_page_buckets' \in [Pages -> Seq(Chunks)]
    BY <1>1, EmptySeq DEF LoadTypeOK
  <2> QED
    BY <2>1, <2>2, <1>1 DEF LoadTypeOK, fileVars, Met
<1>3. Hands'
  BY <1>1 DEF Hands, fileVars
<1>4. Phases'
  BY <1>1 DEF Phases, Idle
<1>5. Books'
  BY FreeBooks, CloseBooks
<1> QED
  BY <1>2, <1>3, <1>4, <1>5

-----------------------------------------------------------------------------
(* The initial states of a session satisfy the invariant.                  *)
LEMMA LoadInitInv == LoadInit => LoadInv
<1> SUFFICES ASSUME LoadInit PROVE LoadInv
  OBVIOUS
<1> USE DEF LoadInit
<1>1. PageInv
  BY PageInitInv
<1>2. LoadTypeOK
  <2>1. Len(trees) \in Nat
    BY ChunksAssumption, LenProperties
  <2>2. Len(Met) \in Nat
    BY <2>1, MetSeq
  <2>3. recorded \in 0 .. Len(Met) /\ merged \in 0 .. NumPages /\ joined \in 0 .. NumThreads
    BY <2>2, CountsNat
  <2>4. mt_data_queue \in Seq(Chunks) /\ data_page_buckets \in [Pages -> Seq(Chunks)]
    BY EmptySeq
  <2>5. main_pc \in MainStates /\ worker_pc \in [Threads -> WorkerStates]
    BY DEF MainStates, WorkerStates
  <2>6. dataset \in 0 .. Len(trees) /\ err \in {0, 1} /\ ret \in {0, 1}
    BY <2>1
  <2>7. chunk \in [Threads -> Chunks \cup {NoChunk}] /\ placed \in SUBSET Chunks
    OBVIOUS
  <2> QED
    BY <2>3, <2>4, <2>5, <2>6, <2>7 DEF LoadTypeOK
<1>3. Hands
  BY DEF Hands, PageInit
<1>4. Phases
  BY DEF Phases, Idle
<1>5. /\ ToSet(<<>>) = {} /\ IsInjective(<<>>)
      /\ Bucketed = {} /\ Queued = {}
  BY DEF ToSet, IsInjective, Bucketed, Queued
<1>6. TakenOnce
  BY <1>5 DEF TakenOnce
<1>7. Sorted
  BY <1>5 DEF Sorted
<1>8. MappingsAccounted
  <2> SUFFICES ASSUME NEW p \in Pages PROVE total_num_mappings[p] = Cardinality(Unreleased(p))
    BY DEF MappingsAccounted
  <2>1. Unreleased(p) = {}
    BY <1>5 DEF Unreleased, Visitors, PageInit
  <2> QED
    BY <2>1, FS_EmptySet DEF PageInit
<1> QED
  BY <1>1, <1>2, <1>3, <1>4, <1>6, <1>7, <1>8 DEF LoadInv, Books

(* Every step of the load preserves it; the page table's own invariant is  *)
(* preserved because the step is one of its steps.                         *)
LEMMA LoadNextInv == LoadInv /\ [LoadNext]_vars => LoadInv'
<1> SUFFICES ASSUME LoadInv, [LoadNext]_vars PROVE LoadInv'
  OBVIOUS
<1>1. PageInv'
  BY StepRefines, PageNextInv DEF LoadInv
<1>2. LoadTypeOK' /\ Hands' /\ Phases' /\ Books'
  <2>1. CASE MainStep
    BY <2>1, StartKeeps, RecordKeeps, TurnsKeep, MergeKeeps, MergeDoneKeeps, BroadcastKeeps,
       JoinKeeps, ReturnsKeep, EndsKeep DEF MainStep
  <2>2. ASSUME NEW t \in Threads, Alive, WorkerStep(t) \/ SpuriousWake(t)
        PROVE  LoadTypeOK' /\ Hands' /\ Phases' /\ Books'
    BY <2>2, StartsKeep, TestsKeep, DequeueKeeps, NavigateKeepsLoad, MmapKeeps, ReleaseKeeps,
       LayDownKeeps DEF WorkerStep
  <2>3. CASE UNCHANGED vars
    <3>1. UNCHANGED <<pageVars, fileVars, mainVars, main_pc, workerVars>>
      BY <2>3 DEF vars, loadVars
    <3>2. LoadTypeOK'
      BY <3>1 DEF LoadInv, LoadTypeOK, fileVars, mainVars, workerVars, Met
    <3>3. Hands'
      BY <3>1 DEF LoadInv, Hands, fileVars, workerVars, pageVars
    <3>4. Phases'
      BY <3>1 DEF LoadInv, Phases, NotYet, Early, Idle, Over, mainVars, workerVars
    <3>5. Books'
      BY <3>1, QuietBooks DEF LoadInv, fileVars, mainVars, workerVars
    <3> QED
      BY <3>2, <3>3, <3>4, <3>5
  <2> QED
    BY <2>1, <2>2, <2>3 DEF LoadNext, Ended
<1> QED
  BY <1>1, <1>2 DEF LoadInv

(* The invariant of the whole load.                                        *)
THEOREM LoadInvariance == LoadSpec => []LoadInv
<1> QED
  BY LoadInitInv, LoadNextInv, PTL DEF LoadSpec

(* The load implements the page table's specification: whatever the main   *)
(* thread, the workers and the failures do, mt_navigateTo is called only   *)
(* for chunks registered and not yet released, and endHooks destroys the   *)
(* table with no thread inside.                                            *)
THEOREM LoadImplementsPageTable == LoadSpec => PageSpec
<1>1. LoadInit => PageInit
  BY DEF LoadInit
<1>2. LoadInv /\ [LoadNext]_vars => [PageNext]_pageVars
  BY StepRefines
<1> QED
  BY <1>1, <1>2, LoadInvariance, PTL DEF LoadSpec, PageSpec

(* So during a load, what a worker was given stays mapped until it gives   *)
(* it back, whatever getChunkedData and the other workers do.              *)
THEOREM WorkersReadMapped == LoadSpec => []InUseMapped
<1> QED
  BY LoadImplementsPageTable, InUseStaysMapped, PTL

(* No chunk is taken by two workers, or again after it was copied out.     *)
THEOREM ChunksTakenOnce == LoadSpec => []TakenOnce
<1>1. LoadInv => TakenOnce
  BY DEF LoadInv, Books
<1> QED
  BY <1>1, LoadInvariance, PTL

(* total_num_mappings counts the chunks still to be released.              *)
THEOREM MappingsAreAccounted == LoadSpec => []MappingsAccounted
<1>1. LoadInv => MappingsAccounted
  BY DEF LoadInv, Books
<1> QED
  BY <1>1, LoadInvariance, PTL

(* A getChunkedData that returned 0 leaves no thread, no chunk, no lock    *)
(* and no page behind, even when an error of a worker was lost.            *)
THEOREM ReturnsClean == LoadSpec => []CleanReturn
<1>1. LoadInv => CleanReturn
  <2> SUFFICES ASSUME LoadInv, Returned PROVE CleanReturn!2
    BY DEF CleanReturn
  <2>1. main_pc = "idle"
    BY DEF Returned
  <2>2. /\ \A t \in Threads : Idle(t)
        /\ \A p \in Pages : data_page_buckets[p] = <<>>
        /\ mt_data_queue = <<>>
    BY <2>1 DEF LoadInv, Phases
  <2>3. /\ Bucketed = {} /\ Queued = {}
        /\ \A t \in Threads : chunk[t] = NoChunk /\ nav_pc[t] = "out"
        /\ \A p \in Pages : Visitors(p) = {} /\ Unreleased(p) = {}
    BY <2>2, NothingLeft DEF Queued, ToSet
  <2>4. thread_mtx = NoThread
    BY <2>2 DEF LoadInv, Hands, LoadTypeOK, Idle
  <2>5. ASSUME ~is_super_mapped, NEW p \in Pages
        PROVE  ~is_mapped[p] /\ num_using[p] = 0 /\ total_num_mappings[p] = 0
    <3>1. total_num_mappings[p] = 0
      BY <2>1, <2>3, <2>5, FS_EmptySet DEF LoadInv, Books, MappingsAccounted
    <3>2. ~is_mapped[p]
      BY <3>1 DEF LoadInv, PageInv, MappedIsPending, PageTypeOK
    <3>3. Users(p) = {}
      BY <2>3 DEF Users, Counted, Mapping
    <3> QED
      BY <3>1, <3>2, <3>3, FS_EmptySet DEF LoadInv, PageInv, UsersCounted
  <2> QED
    BY <2>2, <2>3, <2>4, <2>5 DEF Idle
<1> QED
  BY <1>1, LoadInvariance, PTL

-----------------------------------------------------------------------------
(* What sorting the chunks by page is for: at no time are more pages       *)
(* mapped than there are threads, for every number of threads, pages and   *)
(* chunks.  The queue's pages climb, so that a mapped page with chunks     *)
(* still queued can only be that of the first chunk; and one that nobody   *)
(* reads leaves a thread without a page.                                   *)

(* the worker is between mt_dequeue and mt_releasePages *)
Holds(t) == worker_pc[t] \in {"inflate", "release"}

(* no worker takes chunks *)
Quiet == main_pc \in {"idle", "fill", "merge", "ready", "closed"}

PagesClimb ==
    \A i, j \in 1 .. Len(mt_data_queue) :
        i <= j => PageOf[mt_data_queue[i]] <= PageOf[mt_data_queue[j]]

(* No queued chunk lies before a page that is mapped or held.              *)
Ahead ==
    \A c \in Queued :
        /\ \A p \in Pages : is_mapped[p] => p <= PageOf[c]
        /\ \A t \in Threads : Holds(t) => PageOf[chunk[t]] <= PageOf[c]

(* A mapped page that has queued chunks is held, or a thread holds none.   *)
Spare ==
    \A c \in Queued : is_mapped[PageOf[c]] =>
        \E t \in Threads : ~Holds(t) \/ PageOf[chunk[t]] = PageOf[c]

(* What the main thread's place says of the queue and the page table.      *)
Stages ==
    /\ main_pc \in {"idle", "fill"} => mt_data_queue = <<>>
    /\ main_pc = "merge" => \A c \in Queued : PageOf[c] < merged
    /\ main_pc = "aborted" => \A p \in Pages : data_page_buckets[p] = <<>>
    /\ Quiet \/ is_super_mapped => \A p \in Pages : ~is_mapped[p]

InOrder == PagesClimb /\ Ahead /\ Spare /\ Stages

-----------------------------------------------------------------------------
(* Pages are numbers, and the chunks of the queue and of the workers have  *)
(* one.                                                                    *)
LEMMA PageNumbers ==
    ASSUME LoadInv
    PROVE  /\ Pages \subseteq Int
           /\ \A c \in Chunks : PageOf[c] \in Pages
           /\ Queued \subseteq Chunks
           /\ \A t \in Threads : Holds(t) => chunk[t] \in Chunks
<1>1. Pages \subseteq Int
  BY ChunksAssumption
<1>2. \A c \in Chunks : PageOf[c] \in Pages
  BY ChunksAssumption
<1>3. Queued \subseteq Chunks
  <2>1. mt_data_queue \in Seq(Chunks)
    BY DEF LoadInv, LoadTypeOK
  <2>2. \A i \in DOMAIN mt_data_queue : mt_data_queue[i] \in Chunks
    BY <2>1, ElementOfSeq, LenProperties
  <2> QED
    BY <2>2 DEF Queued, ToSet
<1>4. \A t \in Threads : Holds(t) => chunk[t] \in Chunks
  BY DEF LoadInv, LoadTypeOK, Hands, Holds
<1> QED
  BY <1>1, <1>2, <1>3, <1>4

(* The chunks of the queue are those at its places.                        *)
LEMMA QueuedAt ==
    ASSUME LoadInv
    PROVE  \A c : c \in Queued <=> \E i \in 1 .. Len(mt_data_queue) : c = mt_data_queue[i]
<1>1. mt_data_queue \in Seq(Chunks)
  BY DEF LoadInv, LoadTypeOK
<1>2. DOMAIN mt_data_queue = 1 .. Len(mt_data_queue)
  BY <1>1, LenProperties
<1> QED
  BY <1>2 DEF Queued, ToSet

(* A step that takes or maps nothing: workers only let pages go, and the   *)
(* queue stays or is dropped.                                              *)
LEMMA QuietOrder ==
    ASSUME LoadInv, InOrder,
           mt_data_queue' = mt_data_queue \/ mt_data_queue' = <<>>,
           is_super_mapped' = is_super_mapped,
           \A p \in Pages : is_mapped'[p] => is_mapped[p],
           \A t \in Threads : Holds(t)' => Holds(t) /\ chunk'[t] = chunk[t],
           main_pc' \in {"idle", "fill"} => main_pc \in {"idle", "fill"} \/ mt_data_queue' = <<>>,
           main_pc' = "merge" => main_pc = "fill" \/ (main_pc = "merge" /\ merged' = merged),
           main_pc' = "aborted" => \A p \in Pages : data_page_buckets'[p] = <<>>,
           Quiet' => Quiet \/ \A p \in Pages : ~is_mapped'[p]
    PROVE  InOrder'
<1>1. \A c \in Queued' : c \in Queued /\ mt_data_queue' = mt_data_queue
  BY DEF Queued, ToSet
<1>2. PagesClimb'
  <2>1. Len(<<>>) = 0
    OBVIOUS
  <2> QED
    BY <2>1 DEF InOrder, PagesClimb
<1>3. Ahead'
  BY <1>1 DEF InOrder, Ahead
<1>4. Spare'
  BY <1>1, PageNumbers DEF InOrder, Spare
<1>5. Stages'
  <2>1. main_pc' \in {"idle", "fill"} => mt_data_queue' = <<>>
    BY DEF InOrder, Stages
  <2>2. main_pc' = "merge" => \A c \in Queued' : PageOf[c] < merged'
    <3>1. CASE main_pc = "fill"
      <4>1. Queued = {}
        BY <3>1 DEF InOrder, Stages, Queued, ToSet
      <4> QED
        BY <4>1, <1>1
    <3>2. CASE main_pc = "merge" /\ merged' = merged
      BY <3>2, <1>1 DEF InOrder, Stages
    <3> QED
      BY <3>1, <3>2
  <2>3. (Quiet \/ is_super_mapped)' => \A p \in Pages : ~is_mapped'[p]
    BY DEF InOrder, Stages
  <2> QED
    BY <2>1, <2>2, <2>3 DEF Stages
<1> QED
  BY <1>2, <1>3, <1>4, <1>5 DEF InOrder

(* mt_mergeQueue appends the buckets page by page.                         *)
LEMMA MergeOrder ==
    ASSUME LoadInv, InOrder, MergeBucket
    PROVE  InOrder'
<1> DEFINE q == mt_data_queue
           b == data_page_buckets[merged]
           n == Len(q)
<1>1. /\ main_pc = "merge" /\ main_pc' = "merge" /\ merged \in Pages /\ merged' = merged + 1
      /\ q' = q \o b
      /\ UNCHANGED <<is_mapped, is_super_mapped>>
  <2>1. merged \in Nat /\ merged < NumPages
    BY CountsNat DEF LoadInv, LoadTypeOK, MergeBucket
  <2> QED
    BY <2>1, ChunksAssumption, CountsNat DEF MergeBucket, pageVars, pageFields, fileVars
<1>2. q \in Seq(Chunks) /\ b \in Seq(Chunks) /\ n \in Nat /\ Len(b) \in Nat
  BY <1>1, LenProperties DEF LoadInv, LoadTypeOK
<1>3. /\ Len(q') = n + Len(b)
      /\ \A i \in 1 .. n + Len(b) : q'[i] = IF i <= n THEN q[i] ELSE b[i - n]
  BY <1>1, <1>2, ConcatProperties
<1>4. \A i \in 1 .. n : PageOf[q[i]] < merged
  BY <1>1, QueuedAt DEF InOrder, Stages
<1>5. \A i \in 1 .. Len(b) : PageOf[b[i]] = merged
  <2>1. DOMAIN b = 1 .. Len(b)
    BY <1>2, LenProperties
  <2>2. \A i \in 1 .. Len(b) : b[i] \in ToSet(b)
    BY <2>1 DEF ToSet
  <2> QED
    BY <2>2, <1>1 DEF LoadInv, Books, Sorted
<1>6. \A i \in 1 .. n : PageOf[q[i]] \in Int
  BY <1>2, ElementOfSeq, ChunksAssumption
<1>7. merged \in Int
  BY <1>1, ChunksAssumption
<1>8. \A p \in Pages : ~is_mapped'[p]
  BY <1>1 DEF InOrder, Stages, Quiet
<1> HIDE DEF q, b, n
<1>9. \A i, j \in 1 .. Len(q') : i <= j => PageOf[q'[i]] <= PageOf[q'[j]]
  <2> SUFFICES ASSUME NEW i \in 1 .. n + Len(b), NEW j \in 1 .. n + Len(b), i <= j
               PROVE  PageOf[q'[i]] <= PageOf[q'[j]]
    BY <1>3
  <2>1. CASE j <= n
    <3>1. i \in 1 .. n /\ j \in 1 .. n /\ q'[i] = q[i] /\ q'[j] = q[j]
      BY <2>1, <1>2, <1>3
    <3> QED
      BY <3>1 DEF InOrder, PagesClimb, q, n
  <2>2. CASE ~(j <= n)
    <3>1. j - n \in 1 .. Len(b) /\ q'[j] = b[j - n]
      BY <2>2, <1>2, <1>3
    <3>2. PageOf[q'[j]] = merged
      BY <3>1, <1>5
    <3>3. CASE i <= n
      <4>1. i \in 1 .. n /\ q'[i] = q[i]
        BY <3>3, <1>2, <1>3
      <4> QED
        BY <4>1, <3>2, <1>4, <1>6, <1>7
    <3>4. CASE ~(i <= n)
      <4>1. i - n \in 1 .. Len(b) /\ q'[i] = b[i - n]
        BY <3>4, <1>2, <1>3
      <4> QED
        BY <4>1, <3>2, <1>5, <1>7
    <3> QED
      BY <3>3, <3>4
  <2> QED
    BY <2>1, <2>2
<1>10. PagesClimb'
  BY <1>9 DEF PagesClimb, q
<1>11. \A c \in Queued' : c \in Queued \/ \E i \in 1 .. Len(b) : c = b[i]
  <2>1. ToSet(q') = ToSet(q) \cup ToSet(b)
    BY <1>1, <1>2, ConcatSet
  <2>2. DOMAIN b = 1 .. Len(b)
    BY <1>2, LenProperties
  <2> QED
    BY <2>1, <2>2 DEF Queued, ToSet, q
<1>12. \A c \in Queued' : PageOf[c] < merged'
  <2> SUFFICES ASSUME NEW c \in Queued' PROVE PageOf[c] < merged + 1
    BY <1>1
  <2>1. CASE c \in Queued
    <3>1. PageOf[c] < merged /\ PageOf[c] \in Int
      BY <2>1, <1>1, PageNumbers DEF InOrder, Stages
    <3> QED
      BY <3>1, <1>7
  <2>2. ASSUME NEW i \in 1 .. Len(b), c = b[i] PROVE PageOf[c] < merged + 1
    BY <2>2, <1>5, <1>7
  <2> QED
    BY <2>1, <2>2, <1>11
<1>13. \A t \in Threads : ~Holds(t)'
  <2>1. \A t \in Threads : Early(t) \/ Idle(t)
    BY <1>1 DEF LoadInv, Phases, NotYet
  <2> QED
    BY <2>1 DEF MergeBucket, Early, Idle, Holds
<1>14. Ahead'
  BY <1>8, <1>13 DEF Ahead
<1>15. Spare'
  <2>1. \A c \in Queued' : PageOf[c] \in Pages
    BY <1>1, <1>2, <1>5, <1>11, PageNumbers
  <2> QED
    BY <2>1, <1>8 DEF Spare
<1>16. Stages'
  BY <1>1, <1>8, <1>12 DEF Stages
<1> QED
  BY <1>10, <1>14, <1>15, <1>16 DEF InOrder

(* A worker takes the first chunk: the others lie in its page or behind.   *)
LEMMA DequeueOrder ==
    ASSUME LoadInv, InOrder, NEW t \in Threads, Dequeue(t)
    PROVE  InOrder'
<1> DEFINE q == mt_data_queue
           n == Len(q)
           c == Head(q)
<1>1. /\ q # <<>> /\ q \in Seq(Chunks) /\ IsInjective(q)
      /\ chunk' = [chunk EXCEPT ![t] = c] /\ q' = Tail(q)
      /\ worker_pc' = [worker_pc EXCEPT ![t] = "inflate"]
      /\ is_mapped' = is_mapped
      /\ UNCHANGED <<is_super_mapped, main_pc, merged, data_page_buckets>>
  BY DEF Dequeue, LoadInv, LoadTypeOK, Books, TakenOnce, EnterPage, pageVars, pageFields, fileVars,
         mainVars, WorkerGoto
<1>2. c \in Queued /\ Queued' = Queued \ {c}
  BY <1>1, TailSet DEF Queued
<1>3. /\ n \in Nat /\ n > 0 /\ c = q[1]
      /\ Len(q') = n - 1 /\ \A i \in 1 .. n - 1 : q'[i] = q[i + 1]
  BY <1>1, LenProperties, EmptySeq, HeadTailProperties
<1>4. \A d \in Queued : PageOf[c] <= PageOf[d]
  <2> SUFFICES ASSUME NEW i \in 1 .. n PROVE PageOf[q[1]] <= PageOf[q[i]]
    BY <1>3, QueuedAt
  <2>1. 1 \in 1 .. n /\ 1 <= i
    BY <1>3
  <2> QED
    BY <2>1 DEF InOrder, PagesClimb
<1> HIDE DEF q, n
<1>5. PagesClimb'
  <2> SUFFICES ASSUME NEW i \in 1 .. n - 1, NEW j \in 1 .. n - 1, i <= j
               PROVE  PageOf[q'[i]] <= PageOf[q'[j]]
    BY <1>3 DEF PagesClimb, q
  <2>1. i + 1 \in 1 .. n /\ j + 1 \in 1 .. n /\ i + 1 <= j + 1
    BY <1>3
  <2>2. PageOf[q[i + 1]] <= PageOf[q[j + 1]]
    BY <2>1 DEF InOrder, PagesClimb, q, n
  <2> QED
    BY <2>2, <1>3
<1> HIDE DEF c
<1>6. /\ chunk'[t] = c /\ Holds(t)'
      /\ \A u \in Threads \ {t} : chunk'[u] = chunk[u] /\ Holds(u)' = Holds(u)
  BY <1>1 DEF LoadInv, LoadTypeOK, Holds
<1>7. Ahead'
  <2>1. \A d \in Queued' : \A p \in Pages : is_mapped'[p] => p <= PageOf[d]
    BY <1>1, <1>2 DEF InOrder, Ahead
  <2>2. \A d \in Queued' : \A u \in Threads : Holds(u)' => PageOf[chunk'[u]] <= PageOf[d]
    BY <1>2, <1>4, <1>6 DEF InOrder, Ahead
  <2> QED
    BY <2>1, <2>2 DEF Ahead
<1>8. Spare'
  <2> SUFFICES ASSUME NEW d \in Queued', is_mapped[PageOf[d]]
               PROVE  PageOf[chunk'[t]] = PageOf[d]
    BY <1>1 DEF Spare
  <2>1. d \in Queued
    BY <1>2
  <2>2. PageOf[d] \in Pages /\ PageOf[d] \in Int /\ PageOf[c] \in Int
    BY <2>1, <1>2, PageNumbers
  <2>3. PageOf[d] <= PageOf[c]
    BY <2>2, <1>2 DEF InOrder, Ahead
  <2>4. PageOf[c] <= PageOf[d]
    BY <2>1, <1>4
  <2> QED
    BY <2>2, <2>3, <2>4, <1>6
<1>9. Stages'
  <2>1. main_pc \notin {"idle", "fill"}
    BY <1>1 DEF InOrder, Stages, q
  <2> QED
    BY <2>1, <1>1, <1>2 DEF InOrder, Stages, Quiet
<1> QED
  BY <1>5, <1>7, <1>8, <1>9 DEF InOrder

(* A worker past the wait for the main thread has nothing left in buckets. *)
LEMMA AtWork ==
    ASSUME LoadInv, Alive, NEW t \in Threads, ~Idle(t), ~Early(t)
    PROVE  /\ main_pc \in {"broadcast", "join", "inflate"}
           /\ \A p \in Pages : data_page_buckets[p] = <<>>
<1>1. main_pc \in MainStates \ {"closed", "aborted"}
  BY DEF LoadInv, LoadTypeOK, Alive
<1>2. main_pc \notin {"fill", "merge", "ready", "free", "idle", "failed"}
  BY DEF LoadInv, Phases, NotYet
<1>3. main_pc \in {"broadcast", "join", "inflate"}
  BY <1>1, <1>2 DEF MainStates
<1> QED
  BY <1>3 DEF LoadInv, Phases

(* mt_navigateTo maps the page of the chunk that the worker holds.         *)
LEMMA NavigateOrder ==
    ASSUME LoadInv, InOrder, Alive, NEW t \in Threads, NavigateChunk(t)
    PROVE  InOrder'
<1>1. /\ UNCHANGED <<mt_data_queue, is_super_mapped, chunk, worker_pc, main_pc, merged, data_page_buckets>>
      /\ NavigateStep(t)
  BY DEF NavigateChunk, loadVars, fileVars, mainVars, workerVars
<1>2. Queued' = Queued /\ \A u \in Threads : Holds(u)' = Holds(u)
  BY <1>1 DEF Holds, Queued
<1>3. CASE MapPage(t)
  <2>1. /\ nav_pc[t] = "map"
        /\ is_mapped' = [is_mapped EXCEPT ![nav_page[t]] = TRUE]
    BY <1>3 DEF MapPage
  <2>2. ~is_super_mapped /\ Holds(t) /\ nav_page[t] = PageOf[chunk[t]]
    BY <2>1 DEF LoadInv, Hands, Holds
  <2>3. main_pc \in {"broadcast", "join", "inflate"}
    BY <2>2, AtWork DEF Holds, Idle, Early
  <2>4. \A p \in Pages : is_mapped'[p] => is_mapped[p] \/ p = PageOf[chunk[t]]
    BY <2>1, <2>2 DEF LoadInv, PageInv, PageTypeOK
  <2>5. PagesClimb'
    BY <1>1 DEF InOrder, PagesClimb
  <2>6. Ahead'
    BY <1>1, <1>2, <2>2, <2>4 DEF InOrder, Ahead
  <2>7. Spare'
    <3> SUFFICES ASSUME NEW c \in Queued, is_mapped'[PageOf[c]]
                 PROVE  \E u \in Threads : ~Holds(u) \/ PageOf[chunk[u]] = PageOf[c]
      BY <1>1, <1>2 DEF Spare
    <3>1. CASE is_mapped[PageOf[c]]
      BY <3>1 DEF InOrder, Spare
    <3>2. CASE PageOf[c] = PageOf[chunk[t]]
      BY <3>2
    <3> QED
      BY <3>1, <3>2, <2>4, PageNumbers
  <2>8. Stages'
    BY <1>1, <2>2, <2>3 DEF Stages, Quiet
  <2> QED
    BY <2>5, <2>6, <2>7, <2>8 DEF InOrder
<1>4. CASE ~MapPage(t)
  <2>1. \A p \in Pages : is_mapped'[p] => is_mapped[p]
    BY <1>1, <1>4 DEF LoadInv, PageInv, PageTypeOK, NavigateStep, CheckSize, ConfirmHit, ConfirmMiss,
       CheckIdle, ClaimPage, ClaimLost, DropStale, FreePageObject, UnlockPage, pageFields
  <2>2. main_pc' # "aborted"
    BY <1>1 DEF Alive
  <2> QED
    BY <1>1, <1>2, <2>1, <2>2, QuietOrder DEF Quiet
<1> QED
  BY <1>3, <1>4

(* The other steps of a worker: at most, it lets its page go.              *)
LEMMA WorkerOrder ==
    ASSUME LoadInv, InOrder, Alive, NEW t \in Threads, WorkerStep(t) \/ SpuriousWake(t)
    PROVE  InOrder'
<1>1. LoadTypeOK /\ PageTypeOK
  BY DEF LoadInv, PageInv
<1>2. main_pc # "aborted"
  BY DEF Alive
<1>3. CASE AllocBuffer(t) \/ AllocFails(t) \/ TestReady(t) \/ CondWait(t) \/ SpuriousWake(t)
  <2>1. /\ UNCHANGED <<is_mapped, is_super_mapped, mt_data_queue, chunk, main_pc, merged>>
        /\ \A u \in Threads : Holds(u)' => Holds(u)
    BY <1>1, <1>3 DEF AllocBuffer, AllocFails, TestReady, CondWait, SpuriousWake, LoadTypeOK,
       WorkerGoto, Holds, pageVars, pageFields, fileVars, mainVars
  <2> QED
    BY <2>1, <1>2, QuietOrder DEF Quiet
<1>4. CASE TestLength(t) \/ DequeueNull(t) \/ Inflate(t) \/ SwitchErr(t) \/ Finish(t)
  <2>1. /\ UNCHANGED <<is_mapped, is_super_mapped, mt_data_queue, chunk, main_pc, merged>>
        /\ \A u \in Threads : Holds(u)' => Holds(u)
    BY <1>1, <1>4 DEF TestLength, DequeueNull, Inflate, SwitchErr, Finish, LoadTypeOK,
       WorkerGoto, Holds, pageVars, pageFields, fileVars, mainVars
  <2> QED
    BY <2>1, <1>2, QuietOrder DEF Quiet
<1>5. CASE Fail(t) \/ Place(t)
  <2>1. /\ UNCHANGED <<is_mapped, is_super_mapped, mt_data_queue, main_pc, merged>>
        /\ \A u \in Threads : Holds(u)' => Holds(u) /\ chunk'[u] = chunk[u]
    BY <1>1, <1>5 DEF Fail, Place, LoadTypeOK,
       WorkerGoto, Holds, pageVars, pageFields, fileVars, mainVars
  <2> QED
    BY <2>1, <1>2, QuietOrder DEF Quiet
<1>6. CASE Release(t)
  <2>1. /\ UNCHANGED <<is_super_mapped, mt_data_queue, chunk, main_pc, merged>>
        /\ \A u \in Threads : Holds(u)' => Holds(u)
    BY <1>1, <1>6 DEF Release, LoadTypeOK, WorkerGoto, Holds, fileVars, mainVars
  <2>2. \A p \in Pages : is_mapped'[p] => is_mapped[p]
    BY <1>1, <1>6 DEF Release, ReleasePages, FreePageObject, PageTypeOK, pageVars, pageFields
  <2> QED
    BY <2>1, <2>2, <1>2, QuietOrder DEF Quiet
<1>7. CASE MmapFails(t)
  <2>1. /\ UNCHANGED <<is_mapped, is_super_mapped, mt_data_queue, chunk, worker_pc, data_page_buckets>>
        /\ main_pc' = "aborted"
    BY <1>7 DEF MmapFails, MainGoto, pageVars, pageFields, fileVars, mainVars, workerVars
  <2>2. \A u \in Threads : Holds(u)' = Holds(u)
    BY <2>1 DEF Holds
  <2>3. Holds(t)
    BY <1>7 DEF MmapFails, LoadInv, Hands, Holds
  <2>4. \A p \in Pages : data_page_buckets[p] = <<>>
    BY <2>3, AtWork DEF Holds, Idle, Early
  <2> QED
    BY <2>1, <2>2, <2>4, QuietOrder DEF Quiet
<1>8. CASE Dequeue(t)
  BY <1>8, DequeueOrder
<1>9. CASE NavigateChunk(t)
  BY <1>9, NavigateOrder
<1> QED
  BY <1>3, <1>4, <1>5, <1>6, <1>7, <1>8, <1>9 DEF WorkerStep

(* The main thread's steps but the merge.  When getChunkedData returns 0   *)
(* every chunk was released, and with the last of a page its mapping.      *)
LEMMA MainOrder ==
    ASSUME LoadInv, InOrder, MainStep
    PROVE  InOrder'
<1>1. LoadTypeOK
  BY DEF LoadInv
<1>2. CASE StartLoad
  <2>1. /\ main_pc = "idle" /\ main_pc' = "fill"
        /\ UNCHANGED <<is_mapped, is_super_mapped, mt_data_queue>>
        /\ \A u \in Threads : ~Holds(u)'
    BY <1>2 DEF StartLoad, MainGoto, Holds, pageVars, pageFields, fileVars
  <2> QED
    BY <2>1, QuietOrder DEF Quiet
<1>3. CASE RecordChunk \/ FillFails \/ FillDone
  <2>1. /\ main_pc = "fill" /\ main_pc' \in {"fill", "failed", "merge"}
        /\ UNCHANGED <<is_mapped, is_super_mapped, mt_data_queue, worker_pc, chunk>>
    BY <1>3 DEF RecordChunk, Register, FillFails, FillDone, MainGoto, pageVars, pageFields, fileVars, workerVars
  <2>2. \A u \in Threads : Holds(u)' = Holds(u)
    BY <2>1 DEF Holds
  <2> QED
    BY <2>1, <2>2, QuietOrder DEF Quiet
<1>4. CASE MergeBucket
  BY <1>4, MergeOrder
<1>5. CASE MergeDone \/ SetReady
  <2>1. /\ main_pc \in {"merge", "ready"} /\ main_pc' \in {"ready", "inflate", "broadcast"}
        /\ UNCHANGED <<is_mapped, is_super_mapped, mt_data_queue, chunk>>
        /\ \A u \in Threads : Holds(u)' => Holds(u)
    BY <1>1, <1>5 DEF MergeDone, SetReady, MainGoto, WorkerGoto, Holds, LoadTypeOK,
       pageVars, pageFields, fileVars, workerVars
  <2> QED
    BY <2>1, QuietOrder DEF Quiet
<1>6. CASE Broadcast \/ Join \/ InflateReturns
  <2>1. /\ main_pc' \in {"join", "free"}
        /\ UNCHANGED <<is_mapped, is_super_mapped, mt_data_queue, chunk>>
        /\ \A u \in Threads : Holds(u)' => Holds(u)
    BY <1>1, <1>6 DEF Broadcast, Join, InflateReturns, MainGoto, WorkerGoto, Holds, LoadTypeOK,
       pageVars, pageFields, fileVars
  <2> QED
    BY <2>1, QuietOrder DEF Quiet
<1>7. CASE FreeLoad
  <2>1. /\ main_pc = "free" /\ main_pc' \in {"idle", "failed"} /\ (main_pc' = "idle" => ret = 0)
        /\ mt_data_queue' = <<>>
        /\ UNCHANGED <<is_mapped, is_super_mapped, worker_pc, chunk>>
    BY <1>7 DEF FreeLoad, MainGoto, pageVars, pageFields, fileVars
  <2>2. \A u \in Threads : Holds(u)' = Holds(u)
    BY <2>1 DEF Holds
  <2>3. ASSUME main_pc' = "idle", NEW p \in Pages PROVE ~is_mapped'[p]
    <3>1. CASE is_super_mapped
      BY <3>1, <2>1 DEF InOrder, Stages
    <3>2. CASE ~is_super_mapped
      <4>1. mt_data_queue = <<>> /\ Unreleased(p) = {}
        BY <2>1, <2>3, NothingLeft DEF LoadInv, Phases
      <4>2. total_num_mappings[p] = 0
        BY <4>1, <3>2, <2>1, FS_EmptySet DEF LoadInv, Books, MappingsAccounted
      <4> QED
        BY <4>2, <2>1 DEF LoadInv, PageInv, MappedIsPending
    <3> QED
      BY <3>1, <3>2
  <2> QED
    BY <2>1, <2>2, <2>3, QuietOrder DEF Quiet
<1>8. CASE Close
  <2>1. /\ main_pc' = "closed" /\ mt_data_queue' = <<>>
        /\ is_mapped' = [p \in Pages |-> FALSE]
        /\ UNCHANGED <<is_super_mapped, worker_pc, chunk>>
    BY <1>8 DEF Close, ResetPages, MainGoto, fileVars
  <2>2. \A u \in Threads : Holds(u)' = Holds(u)
    BY <2>1 DEF Holds
  <2> QED
    BY <2>1, <2>2, QuietOrder DEF Quiet
<1> QED
  BY <1>2, <1>3, <1>4, <1>5, <1>6, <1>7, <1>8 DEF MainStep

(* Every step keeps the order.                                             *)
LEMMA StepOrder ==
    ASSUME LoadInv, InOrder, [LoadNext]_vars
    PROVE  InOrder'
<1>1. CASE MainStep
  BY <1>1, MainOrder
<1>2. ASSUME Alive, NEW t \in Threads, WorkerStep(t) \/ SpuriousWake(t)
      PROVE  InOrder'
  BY <1>2, WorkerOrder
<1>3. CASE UNCHANGED vars
  <2>1. UNCHANGED <<mt_data_queue, is_super_mapped, is_mapped, chunk, worker_pc, main_pc, merged, data_page_buckets>>
    BY <1>3 DEF vars, loadVars, fileVars, mainVars, workerVars, pageVars, pageFields
  <2> QED
    BY <2>1 DEF InOrder, PagesClimb, Ahead, Spare, Stages, Quiet, Queued, Holds
<1> QED
  BY <1>1, <1>2, <1>3 DEF LoadNext, Ended

(* Before the first load nothing is queued or mapped.                      *)
LEMMA InitOrder == LoadInit => InOrder
<1> SUFFICES ASSUME LoadInit PROVE InOrder
  OBVIOUS
<1>1. /\ mt_data_queue = <<>> /\ main_pc = "idle"
      /\ \A p \in Pages : is_mapped[p] = FALSE
  BY DEF LoadInit, PageInit
<1>2. Queued = {} /\ Len(mt_data_queue) = 0
  BY <1>1 DEF Queued, ToSet
<1> QED
  BY <1>1, <1>2 DEF InOrder, PagesClimb, Ahead, Spare, Stages

-----------------------------------------------------------------------------
(* A mapped page is held by a worker or has a queued chunk.                *)
LEMMA HeldOrQueued ==
    ASSUME LoadInv, InOrder, main_pc # "failed", NEW p \in Pages, is_mapped[p]
    PROVE  \/ \E t \in Threads : Holds(t) /\ PageOf[chunk[t]] = p
           \/ \E c \in Queued : PageOf[c] = p
<1>1. ~is_super_mapped /\ ~Quiet
  BY DEF InOrder, Stages
<1>2. main_pc \in {"broadcast", "join", "inflate", "free", "aborted"}
  BY <1>1 DEF LoadInv, LoadTypeOK, MainStates, Quiet
<1>3. \A q \in Pages : data_page_buckets[q] = <<>>
  BY <1>2 DEF LoadInv, Phases, InOrder, Stages
<1>4. Bucketed = {}
  BY <1>3 DEF Bucketed, ToSet
<1>5. Unreleased(p) # {}
  <2>1. total_num_mappings[p] > 0
    BY DEF LoadInv, PageInv, MappedIsPending
  <2>2. total_num_mappings[p] = Cardinality(Unreleased(p))
    BY <1>1, <1>2 DEF LoadInv, Books, MappingsAccounted
  <2> QED
    BY <2>1, <2>2, FS_EmptySet
<1>6. \A t \in Visitors(p) : Holds(t) /\ PageOf[chunk[t]] = p
  BY DEF LoadInv, Hands, Holds, Visitors
<1> QED
  BY <1>4, <1>5, <1>6 DEF Unreleased, Visitors

(* So the threads reach all mapped pages: each the one it holds, and one   *)
(* that holds none the page that nobody does, of which there is only one.  *)
LEMMA OrderBounds ==
    ASSUME LoadInv, InOrder
    PROVE  MappedPagesBounded
<1> SUFFICES ASSUME main_pc # "failed"
             PROVE  Cardinality({p \in Pages : is_mapped[p]}) <= NumThreads
  BY DEF MappedPagesBounded
<1> DEFINE M == {p \in Pages : is_mapped[p]}
           Hold(p) == \E t \in Threads : Holds(t) /\ PageOf[chunk[t]] = p
<1>1. IsFiniteSet(Threads) /\ NumThreads = Cardinality(Threads)
  BY ThreadsAssumption DEF NumThreads
<1>2. ASSUME NEW S \in SUBSET Threads, NEW f \in Surjection(S, M)
      PROVE  Cardinality(M) <= NumThreads
  <2>1. IsFiniteSet(S) /\ Cardinality(S) <= Cardinality(Threads)
    BY <1>1, FS_Subset
  <2>2. IsFiniteSet(M) /\ Cardinality(M) <= Cardinality(S)
    BY <1>2, <2>1, FS_Surjection
  <2>3. Cardinality(M) \in Nat /\ Cardinality(S) \in Nat /\ Cardinality(Threads) \in Nat
    BY <1>1, <2>1, <2>2, FS_CardinalityType
  <2> QED
    BY <1>1, <2>1, <2>2, <2>3
<1>3. CASE \A p \in M : Hold(p)
  <2> DEFINE S == {t \in Threads : Holds(t) /\ PageOf[chunk[t]] \in M}
             f == [t \in S |-> PageOf[chunk[t]]]
  <2>1. f \in Surjection(S, M)
    BY <1>3 DEF Surjection
  <2> QED
    BY <2>1, <1>2
<1>4. ASSUME NEW p \in M, ~Hold(p)
      PROVE  Cardinality(M) <= NumThreads
  <2>1. PICK c \in Queued : PageOf[c] = p
    BY <1>4, HeldOrQueued
  <2>2. PICK s \in Threads : ~Holds(s)
    BY <1>4, <2>1 DEF InOrder, Spare
  <2>3. ASSUME NEW q \in M, ~Hold(q) PROVE q = p
    <3>1. PICK d \in Queued : PageOf[d] = q
      BY <2>3, HeldOrQueued
    <3>2. q <= p /\ p <= q
      BY <2>1, <3>1 DEF InOrder, Ahead
    <3>3. q \in Int /\ p \in Int
      BY PageNumbers
    <3> QED
      BY <3>2, <3>3
  <2> DEFINE S == {t \in Threads : t = s \/ (Holds(t) /\ PageOf[chunk[t]] \in M)}
             f == [t \in S |-> IF t = s THEN p ELSE PageOf[chunk[t]]]
  <2>4. \A t \in S : f[t] \in M
    OBVIOUS
  <2>5. ASSUME NEW q \in M PROVE \E t \in S : f[t] = q
    <3>1. CASE q = p
      BY <3>1
    <3>2. CASE q # p
      <4>1. PICK t \in Threads : Holds(t) /\ PageOf[chunk[t]] = q
        BY <2>3, <3>2
      <4> QED
        BY <4>1, <2>2
    <3> QED
      BY <3>1, <3>2
  <2>6. f \in Surjection(S, M)
    BY <2>4, <2>5 DEF Surjection
  <2> QED
    BY <2>6, <1>2
<1> QED
  BY <1>3, <1>4

(* At most one page is mapped per thread, unless the load has failed: what *)
(* putting the chunks into a bucket per page and merging the buckets in    *)
(* order is meant to achieve (fillNode, mt_mergeQueue).                    *)
THEOREM FewPagesMapped == LoadSpec => []MappedPagesBounded
<1>1. LoadInit => InOrder
  BY InitOrder
<1>2. LoadInv /\ InOrder /\ [LoadNext]_vars => InOrder'
  BY StepOrder
<1>3. LoadInv /\ InOrder => MappedPagesBounded
  BY OrderBounds
<1> QED
  BY <1>1, <1>2, <1>3, LoadInvariance, PTL DEF LoadSpec

-----------------------------------------------------------------------------
(* What fillNode meets: the walk of a tree finds exactly the chunks that   *)
(* its root leads to, or a node of another kind of tree.  Both are built   *)
(* in as many rounds as there are addresses.                               *)
Fuel    == Cardinality(DOMAIN Nodes)
Kids(a) == ToSet(Nodes[a].kids)
IsTree(a) == Nodes[a].sig = "TREE"
Finds   == Chunks \cup {WrongNode}

(* fillNode of every node, from that of its children *)
Level(g) ==
    [a \in DOMAIN Nodes |->
        IF ~IsTree(a) THEN <<>>
        ELSE IF Nodes[a].type # "chunk" THEN <<WrongNode>>
        ELSE FlattenSeq([i \in DOMAIN Nodes[a].kids |->
                IF Nodes[Nodes[a].kids[i]].sig = "data" THEN <<Nodes[a].kids[i]>>
                                                        ELSE g[Nodes[a].kids[i]]])]

Levels(k) ==
    /\ k \in [0 .. Fuel -> [DOMAIN Nodes -> Seq(Finds)]]
    /\ k[0] = [a \in DOMAIN Nodes |-> <<>>]
    /\ \A d \in 1 .. Fuel : k[d] = Level(k[d - 1])

Reaches(root, k) ==
    /\ k \in [0 .. Fuel -> SUBSET DOMAIN Nodes]
    /\ k[0] = {root}
    /\ \A d \in 1 .. Fuel : k[d] = Beyond(k[d - 1])

LEMMA NodesKnown ==
    /\ Fuel \in Nat
    /\ \A a \in DOMAIN Nodes : IsTree(a) =>
         /\ Nodes[a].kids \in Seq(DOMAIN Nodes) /\ Kids(a) \subseteq DOMAIN Nodes
         /\ Nodes[a].type \in {"group", "chunk"}
    /\ Chunks \subseteq DOMAIN Nodes /\ WrongNode \notin Chunks
    /\ \A a \in Chunks : ~IsTree(a)
<1>1. Fuel \in Nat
  BY ChunksAssumption, FS_CardinalityType DEF Fuel
<1>2. ASSUME NEW a \in DOMAIN Nodes, IsTree(a)
      PROVE  Nodes[a].kids \in Seq(DOMAIN Nodes) /\ Nodes[a].type \in {"group", "chunk"}
  BY <1>2, ChunksAssumption DEF IsTree
<1>3. ASSUME NEW a \in DOMAIN Nodes, IsTree(a) PROVE Kids(a) \subseteq DOMAIN Nodes
  BY <1>2, <1>3 DEF Kids, ToSet
<1> QED
  BY <1>1, <1>2, <1>3, ChunksAssumption DEF Chunks, IsTree, WrongNode, NoChunk

(* The chunks below a node are those below its children, in order.         *)
LEMMA FlattenedChunks ==
    ASSUME NEW D, NEW ss \in Seq(Seq(D))
    PROVE  /\ FlattenSeq(ss) \in Seq(D)
           /\ ToSet(FlattenSeq(ss)) = UNION {ToSet(ss[i]) : i \in 1 .. Len(ss)}
<1> DEFINE n == Len(ss)
<1>1. PICK k \in [0 .. n -> Seq(D)] :
        /\ k[0] = <<>>
        /\ \A i \in 1 .. n : k[i] = k[i - 1] \o ss[i]
        /\ FlattenSeq(ss) = k[n]
  BY FlattenIsWalk
<1>2. n \in Nat /\ \A i \in 1 .. n : ss[i] \in Seq(D)
  OBVIOUS
<1> HIDE DEF n
<1> DEFINE T == {i \in Nat : i <= n => ToSet(k[i]) = UNION {ToSet(ss[j]) : j \in 1 .. i}}
<1>3. 0 \in T
  <2>1. ToSet(k[0]) = {}
    BY <1>1 DEF ToSet
  <2> QED
    BY <2>1
<1>4. ASSUME NEW i \in Nat, i \in T PROVE i + 1 \in T
  <2> SUFFICES ASSUME i + 1 <= n
               PROVE  ToSet(k[i + 1]) = UNION {ToSet(ss[j]) : j \in 1 .. i + 1}
    OBVIOUS
  <2>1. i + 1 \in 1 .. n /\ (i + 1) - 1 = i /\ i \in 0 .. n /\ i <= n
    BY <1>2
  <2>2. k[i + 1] = k[i] \o ss[i + 1] /\ k[i] \in Seq(D) /\ ss[i + 1] \in Seq(D)
    BY <1>1, <1>2, <2>1
  <2>3. ToSet(k[i + 1]) = ToSet(k[i]) \cup ToSet(ss[i + 1])
    BY <2>2, ConcatSet
  <2>4. ToSet(k[i]) = UNION {ToSet(ss[j]) : j \in 1 .. i}
    BY <1>4, <2>1
  <2>5. 1 .. i + 1 = (1 .. i) \cup {i + 1}
    OBVIOUS
  <2> QED
    BY <2>3, <2>4, <2>5
<1> HIDE DEF T
<1>5. n \in T
  BY <1>2, <1>3, <1>4, InductionOnSet
<1>6. ToSet(k[n]) = UNION {ToSet(ss[j]) : j \in 1 .. n}
  BY <1>2, <1>5 DEF T
<1>7. k[n] \in Seq(D)
  BY <1>1, <1>2
<1> QED
  BY <1>1, <1>6, <1>7 DEF n

(* What the children of a chunk node contribute, as a sequence.            *)
Parts(g, a) ==
    [i \in DOMAIN Nodes[a].kids |->
        IF Nodes[Nodes[a].kids[i]].sig = "data" THEN <<Nodes[a].kids[i]>>
                                                ELSE g[Nodes[a].kids[i]]]

LEMMA LevelOf ==
    ASSUME NEW g \in [DOMAIN Nodes -> Seq(Finds)]
    PROVE  /\ Level(g) \in [DOMAIN Nodes -> Seq(Finds)]
           /\ \A a \in DOMAIN Nodes :
                /\ ~IsTree(a) => Level(g)[a] = <<>>
                /\ IsTree(a) /\ Nodes[a].type # "chunk" => Level(g)[a] = <<WrongNode>>
                /\ IsTree(a) /\ Nodes[a].type = "chunk" =>
                     ToSet(Level(g)[a]) =
                         UNION {IF b \in Chunks THEN {b} ELSE ToSet(g[b]) : b \in Kids(a)}
<1>1. ASSUME NEW a \in DOMAIN Nodes, IsTree(a)
      PROVE  /\ Parts(g, a) \in Seq(Seq(Finds)) /\ Len(Parts(g, a)) = Len(Nodes[a].kids)
             /\ UNION {ToSet(Parts(g, a)[i]) : i \in 1 .. Len(Parts(g, a))} =
                    UNION {IF b \in Chunks THEN {b} ELSE ToSet(g[b]) : b \in Kids(a)}
  <2> DEFINE s == Nodes[a].kids
             n == Len(s)
             P == Parts(g, a)
             F(b) == IF b \in Chunks THEN {b} ELSE ToSet(g[b])
  <2>1. s \in Seq(DOMAIN Nodes) /\ n \in Nat /\ DOMAIN s = 1 .. n
    BY <1>1, NodesKnown
  <2>2. Kids(a) = {s[i] : i \in 1 .. n}
    BY <2>1 DEF Kids, ToSet
  <2> HIDE DEF s
  <2>3. P = [i \in 1 .. n |-> IF Nodes[s[i]].sig = "data" THEN <<s[i]>> ELSE g[s[i]]]
    BY <2>1 DEF Parts, s
  <2> HIDE DEF n, P
  <2>4. ASSUME NEW i \in 1 .. n PROVE P[i] \in Seq(Finds) /\ ToSet(P[i]) = F(s[i])
    <3>1. s[i] \in DOMAIN Nodes
      BY <2>1
    <3>2. CASE s[i] \in Chunks
      <4>1. P[i] = <<s[i]>>
        BY <2>3, <3>2 DEF Chunks
      <4> QED
        BY <3>2, <4>1 DEF ToSet, Finds
    <3>3. CASE s[i] \notin Chunks
      <4>1. P[i] = g[s[i]]
        BY <2>3, <3>1, <3>3 DEF Chunks
      <4> QED
        BY <3>1, <3>3, <4>1
    <3> QED
      BY <3>2, <3>3
  <2>5. P \in Seq(Seq(Finds)) /\ Len(P) = n
    <3>1. P = [i \in 1 .. n |-> P[i]]
      BY <2>3
    <3>2. P \in [1 .. n -> Seq(Finds)]
      BY <2>4, <3>1
    <3> QED
      BY <2>1, <3>2
  <2> HIDE DEF F
  <2>6. {ToSet(P[i]) : i \in 1 .. n} = {F(b) : b \in Kids(a)}
    BY <2>2, <2>4
  <2> QED
    BY <2>5, <2>6 DEF P, F, n, s
<1>2. ASSUME NEW a \in DOMAIN Nodes
      PROVE  /\ ~IsTree(a) => Level(g)[a] = <<>>
             /\ IsTree(a) /\ Nodes[a].type # "chunk" => Level(g)[a] = <<WrongNode>>
             /\ IsTree(a) /\ Nodes[a].type = "chunk" => Level(g)[a] = FlattenSeq(Parts(g, a))
  BY DEF Level, Parts
<1>3. DOMAIN Level(g) = DOMAIN Nodes /\ Level(g) = [a \in DOMAIN Nodes |-> Level(g)[a]]
  BY DEF Level
<1>4. ASSUME NEW a \in DOMAIN Nodes, IsTree(a)
      PROVE  /\ FlattenSeq(Parts(g, a)) \in Seq(Finds)
             /\ ToSet(FlattenSeq(Parts(g, a))) =
                    UNION {IF b \in Chunks THEN {b} ELSE ToSet(g[b]) : b \in Kids(a)}
  <2> DEFINE P == Parts(g, a)
  <2>1. P \in Seq(Seq(Finds))
    BY <1>1, <1>4
  <2> HIDE DEF P
  <2>2. FlattenSeq(P) \in Seq(Finds) /\ ToSet(FlattenSeq(P)) = UNION {ToSet(P[i]) : i \in 1 .. Len(P)}
    BY <2>1, FlattenedChunks
  <2> QED
    BY <1>1, <1>4, <2>2 DEF P
<1>5. <<>> \in Seq(Finds) /\ <<WrongNode>> \in Seq(Finds)
  BY DEF Finds
<1>6. \A a \in DOMAIN Nodes : Level(g)[a] \in Seq(Finds)
  BY <1>2, <1>4, <1>5
<1> QED
  BY <1>2, <1>3, <1>4, <1>6

(* A function given by recursion over the rounds: there is one, and the    *)
(* chosen one is it.                                                       *)
LEMMA FillNodeLevels == \E k : Levels(k) /\ FillNode = k[Fuel]
<1> DEFINE S == [DOMAIN Nodes -> Seq(Finds)]
           none == [a \in DOMAIN Nodes |-> <<>>]
           step == [x \in (1 .. Fuel) \X S |-> Level(x[2])]
           G(below) ==
             [d \in 0 .. Fuel |->
                [a \in DOMAIN Nodes |->
                    IF d = 0 \/ Nodes[a].sig # "TREE" THEN <<>>
                    ELSE IF Nodes[a].type # "chunk" THEN <<WrongNode>>
                    ELSE FlattenSeq([i \in DOMAIN Nodes[a].kids |->
                            IF Nodes[Nodes[a].kids[i]].sig = "data" THEN <<Nodes[a].kids[i]>>
                            ELSE below[d - 1][Nodes[a].kids[i]]])]]
           K == CHOOSE below : below = G(below)
<1>1. FillNode = K[Fuel]
  BY DEF FillNode, Fuel
<1>2. Fuel \in Nat /\ none \in S
  BY NodesKnown
<1>3. ASSUME NEW k, NEW d \in 0 .. Fuel
      PROVE  G(k)[d] = IF d = 0 THEN none ELSE Level(k[d - 1])
  BY DEF Level, IsTree
<1>4. ASSUME NEW k PROVE G(k) = [d \in 0 .. Fuel |-> G(k)[d]]
  OBVIOUS
<1> HIDE DEF G, none
<1>5. step \in [(1 .. Fuel) \X S -> S]
  <2> HIDE DEF S
  <2>1. ASSUME NEW g \in S PROVE Level(g) \in S
    BY LevelOf DEF S
  <2> QED
    BY <2>1
<1>6. PICK f : f \in Walks(Fuel, S, none, step)
  <2> HIDE DEF S, step
  <2> QED
    BY <1>2, <1>5, WalkExists
<1> HIDE DEF S
<1>7. /\ f \in [0 .. Fuel -> S] /\ f[0] = none
      /\ \A d \in 1 .. Fuel : f[d] = Level(f[d - 1])
  <2>1. /\ f \in [0 .. Fuel -> S] /\ f[0] = none
        /\ \A d \in 1 .. Fuel : f[d] = step[<<d, f[d - 1]>>]
    BY <1>6 DEF Walks
  <2>2. ASSUME NEW d \in 1 .. Fuel PROVE f[d - 1] \in S
    BY <1>2, <2>1
  <2> QED
    BY <2>1, <2>2
<1> HIDE DEF step
<1>8. f = G(f)
  <2>1. ASSUME NEW d \in 0 .. Fuel PROVE f[d] = G(f)[d]
    <3>1. d = 0 \/ d \in 1 .. Fuel
      BY <1>2
    <3> QED
      BY <1>3, <1>7, <3>1
  <2>2. f = [d \in 0 .. Fuel |-> f[d]]
    BY <1>7
  <2> QED
    BY <1>4, <2>1, <2>2
<1>9. K = G(K)
  BY <1>8
<1> HIDE DEF K
<1>10. \A d \in 0 .. Fuel : K[d] = IF d = 0 THEN none ELSE Level(K[d - 1])
  BY <1>3, <1>9
<1> DEFINE T == {d \in Nat : d <= Fuel => K[d] \in S}
<1>11. 0 \in T
  BY <1>2, <1>10
<1>12. ASSUME NEW d \in Nat, d \in T PROVE d + 1 \in T
  <2> SUFFICES ASSUME d + 1 <= Fuel PROVE K[d + 1] \in S
    OBVIOUS
  <2>1. d <= Fuel /\ d + 1 \in 0 .. Fuel /\ d + 1 # 0 /\ (d + 1) - 1 = d
    BY <1>2
  <2>2. K[d] \in S
    BY <1>12, <2>1
  <2>3. K[d + 1] = Level(K[d])
    BY <1>10, <2>1
  <2> QED
    BY <2>2, <2>3, LevelOf DEF S
<1> HIDE DEF T
<1>13. Nat \subseteq T
  BY <1>11, <1>12, InductionOnSet
<1>14. \A d \in 0 .. Fuel : K[d] \in S
  BY <1>2, <1>13 DEF T
<1>15. K = [d \in 0 .. Fuel |-> K[d]]
  BY <1>4, <1>9
<1>16. Levels(K)
  <2>1. K \in [0 .. Fuel -> S]
    BY <1>14, <1>15
  <2>2. ASSUME NEW d \in 1 .. Fuel PROVE K[d] = Level(K[d - 1])
    BY <1>2, <1>10
  <2>3. K[0] = none
    BY <1>2, <1>10
  <2> QED
    BY <2>1, <2>2, <2>3 DEF Levels, S, none
<1> QED
  BY <1>1, <1>16

LEMMA BeyondStays ==
    ASSUME NEW A \in SUBSET DOMAIN Nodes
    PROVE  /\ Beyond(A) \in SUBSET DOMAIN Nodes
           /\ \A b : b \in Beyond(A) <=> b \in A \/ \E a \in A : IsTree(a) /\ b \in Kids(a)
BY NodesKnown DEF Beyond, IsTree, Kids

LEMMA UnderReaches ==
    ASSUME NEW root \in DOMAIN Nodes
    PROVE  \E k : Reaches(root, k) /\ Under(root) = k[Fuel]
<1> DEFINE S == SUBSET DOMAIN Nodes
           step == [x \in (1 .. Fuel) \X S |-> Beyond(x[2])]
           G(reach) == [d \in 0 .. Fuel |-> IF d = 0 THEN {root} ELSE Beyond(reach[d - 1])]
           K == CHOOSE reach : reach = G(reach)
<1>1. Under(root) = K[Fuel]
  BY DEF Under, Fuel
<1>2. Fuel \in Nat /\ {root} \in S
  BY NodesKnown
<1>3. ASSUME NEW k, NEW d \in 0 .. Fuel
      PROVE  G(k)[d] = IF d = 0 THEN {root} ELSE Beyond(k[d - 1])
  OBVIOUS
<1>4. ASSUME NEW k PROVE G(k) = [d \in 0 .. Fuel |-> G(k)[d]]
  OBVIOUS
<1> HIDE DEF G
<1>5. step \in [(1 .. Fuel) \X S -> S]
  <2> HIDE DEF S
  <2>1. ASSUME NEW g \in S PROVE Beyond(g) \in S
    BY BeyondStays DEF S
  <2> QED
    BY <2>1
<1>6. PICK f : f \in Walks(Fuel, S, {root}, step)
  <2> HIDE DEF S, step
  <2> QED
    BY <1>2, <1>5, WalkExists
<1> HIDE DEF S
<1>7. /\ f \in [0 .. Fuel -> S] /\ f[0] = {root}
      /\ \A d \in 1 .. Fuel : f[d] = Beyond(f[d - 1])
  <2>1. /\ f \in [0 .. Fuel -> S] /\ f[0] = {root}
        /\ \A d \in 1 .. Fuel : f[d] = step[<<d, f[d - 1]>>]
    BY <1>6 DEF Walks
  <2>2. ASSUME NEW d \in 1 .. Fuel PROVE f[d - 1] \in S
    BY <1>2, <2>1
  <2> QED
    BY <2>1, <2>2
<1> HIDE DEF step
<1>8. f = G(f)
  <2>1. ASSUME NEW d \in 0 .. Fuel PROVE f[d] = G(f)[d]
    <3>1. d = 0 \/ d \in 1 .. Fuel
      BY <1>2
    <3> QED
      BY <1>3, <1>7, <3>1
  <2>2. f = [d \in 0 .. Fuel |-> f[d]]
    BY <1>7
  <2> QED
    BY <1>4, <2>1, <2>2
<1>9. K = G(K)
  BY <1>8
<1> HIDE DEF K
<1>10. \A d \in 0 .. Fuel : K[d] = IF d = 0 THEN {root} ELSE Beyond(K[d - 1])
  BY <1>3, <1>9
<1> DEFINE T == {d \in Nat : d <= Fuel => K[d] \in S}
<1>11. 0 \in T
  BY <1>2, <1>10
<1>12. ASSUME NEW d \in Nat, d \in T PROVE d + 1 \in T
  <2> SUFFICES ASSUME d + 1 <= Fuel PROVE K[d + 1] \in S
    OBVIOUS
  <2>1. d <= Fuel /\ d + 1 \in 0 .. Fuel /\ d + 1 # 0 /\ (d + 1) - 1 = d
    BY <1>2
  <2>2. K[d] \in S
    BY <1>12, <2>1
  <2>3. K[d + 1] = Beyond(K[d])
    BY <1>10, <2>1
  <2> QED
    BY <2>2, <2>3, BeyondStays DEF S
<1> HIDE DEF T
<1>13. Nat \subseteq T
  BY <1>11, <1>12, InductionOnSet
<1>14. \A d \in 0 .. Fuel : K[d] \in S
  BY <1>2, <1>13 DEF T
<1>15. K = [d \in 0 .. Fuel |-> K[d]]
  BY <1>4, <1>9
<1>16. Reaches(root, K)
  <2>1. K \in [0 .. Fuel -> S]
    BY <1>14, <1>15
  <2>2. ASSUME NEW d \in 1 .. Fuel PROVE K[d] = Beyond(K[d - 1])
    BY <1>2, <1>10
  <2>3. K[0] = {root}
    BY <1>2, <1>10
  <2> QED
    BY <2>1, <2>2, <2>3 DEF Reaches, S
<1> QED
  BY <1>1, <1>16

(* What each address leads to, in any number of rounds.                    *)
ReachesAll(R) ==
    \A a \in DOMAIN Nodes : Reaches(a, R[a]) /\ Under(a) = R[a][Fuel]

LEMMA SomeReachesAll == \E R : ReachesAll(R)
<1> DEFINE R == [a \in DOMAIN Nodes |-> CHOOSE k : Reaches(a, k) /\ Under(a) = k[Fuel]]
<1>1. ASSUME NEW a \in DOMAIN Nodes PROVE Reaches(a, R[a]) /\ Under(a) = R[a][Fuel]
  <2>1. \E k : Reaches(a, k) /\ Under(a) = k[Fuel]
    BY UnderReaches
  <2> QED
    BY <2>1
<1> QED
  BY <1>1 DEF ReachesAll

LEMMA ReachesStep ==
    ASSUME NEW R, ReachesAll(R), NEW a \in DOMAIN Nodes
    PROVE  /\ \A d \in 0 .. Fuel : R[a][d] \in SUBSET DOMAIN Nodes
           /\ R[a][0] = {a}
           /\ \A d \in Nat : d + 1 <= Fuel => \A b :
                b \in R[a][d + 1] <=> b \in R[a][d] \/ \E c \in R[a][d] : IsTree(c) /\ b \in Kids(c)
<1>1. /\ R[a] \in [0 .. Fuel -> SUBSET DOMAIN Nodes]
      /\ R[a][0] = {a}
      /\ \A d \in 1 .. Fuel : R[a][d] = Beyond(R[a][d - 1])
  BY DEF ReachesAll, Reaches
<1>2. ASSUME NEW d \in Nat, d + 1 <= Fuel
      PROVE  \A b : b \in R[a][d + 1] <=>
                        b \in R[a][d] \/ \E c \in R[a][d] : IsTree(c) /\ b \in Kids(c)
  <2>1. d + 1 \in 1 .. Fuel /\ (d + 1) - 1 = d /\ d \in 0 .. Fuel
    BY <1>2, NodesKnown
  <2>2. R[a][d + 1] = Beyond(R[a][d]) /\ R[a][d] \in SUBSET DOMAIN Nodes
    BY <1>1, <2>1
  <2> QED
    BY <2>2, BeyondStays
<1> QED
  BY <1>1, <1>2

(* The rounds may as well be taken from the children.                      *)
Descends(R, a, d) ==
    \A b : b \in R[a][d + 1] <=> b = a \/ (IsTree(a) /\ \E c \in Kids(a) : b \in R[c][d])

LEMMA ReachesDescends ==
    ASSUME NEW R, ReachesAll(R), NEW d \in Nat, d + 1 <= Fuel
    PROVE  \A a \in DOMAIN Nodes : Descends(R, a, d)
<1> DEFINE T == {n \in Nat : n + 1 <= Fuel => \A a \in DOMAIN Nodes : Descends(R, a, n)}
<1>0. Fuel \in Nat
  BY NodesKnown
<1>1. 0 \in T
  <2> SUFFICES ASSUME 0 + 1 <= Fuel, NEW a \in DOMAIN Nodes PROVE Descends(R, a, 0)
    OBVIOUS
  <2>1. IsTree(a) => Kids(a) \subseteq DOMAIN Nodes
    BY NodesKnown
  <2>2. R[a][0] = {a} /\ \A c \in DOMAIN Nodes : R[c][0] = {c}
    BY ReachesStep
  <2>3. \A b : b \in R[a][0 + 1] <=> b \in R[a][0] \/ \E c \in R[a][0] : IsTree(c) /\ b \in Kids(c)
    BY ReachesStep
  <2>4. \A b : b \in R[a][0 + 1] <=> b = a \/ (IsTree(a) /\ b \in Kids(a))
    BY <2>2, <2>3
  <2>5. IsTree(a) => \A b : b \in Kids(a) <=> \E c \in Kids(a) : b \in R[c][0]
    BY <2>1, <2>2
  <2> QED
    BY <2>4, <2>5 DEF Descends
<1>2. ASSUME NEW n \in Nat, n \in T PROVE n + 1 \in T
  <2> SUFFICES ASSUME (n + 1) + 1 <= Fuel, NEW a \in DOMAIN Nodes PROVE Descends(R, a, n + 1)
    OBVIOUS
  <2> DEFINE m == n + 1
  <2>1. m \in Nat /\ n + 1 = m /\ m <= Fuel /\ m + 1 <= Fuel
    BY <1>0
  <2> HIDE DEF m
  <2>2. IsTree(a) => Kids(a) \subseteq DOMAIN Nodes
    BY NodesKnown
  <2>3. \A b : b \in R[a][m] <=> b = a \/ (IsTree(a) /\ \E c \in Kids(a) : b \in R[c][n])
    BY <1>2, <2>1 DEF Descends
  <2>4. \A b : b \in R[a][m + 1] <=> b \in R[a][m] \/ \E x \in R[a][m] : IsTree(x) /\ b \in Kids(x)
    BY <2>1, ReachesStep
  <2>5. ASSUME IsTree(a), NEW c \in Kids(a)
        PROVE  \A b : b \in R[c][m] <=> b \in R[c][n] \/ \E x \in R[c][n] : IsTree(x) /\ b \in Kids(x)
    BY <2>1, <2>2, <2>5, ReachesStep
  <2>6. ASSUME IsTree(a), NEW c \in Kids(a) PROVE c \in R[c][m]
    <3>1. c \in DOMAIN Nodes
      BY <2>2, <2>6
    <3> QED
      BY <1>2, <2>1, <3>1 DEF Descends
  <2>7. ASSUME NEW b, b \in R[a][m + 1]
        PROVE  b = a \/ (IsTree(a) /\ \E c \in Kids(a) : b \in R[c][m])
    <3>1. CASE b \in R[a][m]
      BY <2>3, <2>5, <3>1
    <3>2. ASSUME NEW x \in R[a][m], IsTree(x), b \in Kids(x)
          PROVE  IsTree(a) /\ \E c \in Kids(a) : b \in R[c][m]
      <4>1. CASE x = a
        BY <2>6, <3>2, <4>1
      <4>2. ASSUME IsTree(a), NEW c \in Kids(a), x \in R[c][n] PROVE b \in R[c][m]
        BY <2>5, <3>2, <4>2
      <4> QED
        BY <2>3, <4>1, <4>2
    <3> QED
      BY <2>4, <2>7, <3>1, <3>2
  <2>8. a \in R[a][m + 1]
    BY <2>3, <2>4
  <2>9. ASSUME IsTree(a), NEW c \in Kids(a), NEW b, b \in R[c][m] PROVE b \in R[a][m + 1]
    <3>1. CASE b \in R[c][n]
      BY <2>3, <2>4, <2>9, <3>1
    <3>2. ASSUME NEW x \in R[c][n], IsTree(x), b \in Kids(x) PROVE b \in R[a][m + 1]
      BY <2>3, <2>4, <2>9, <3>2
    <3> QED
      BY <2>5, <2>9, <3>1, <3>2
  <2> QED
    BY <2>1, <2>7, <2>8, <2>9 DEF Descends
<1> HIDE DEF T
<1>3. Nat \subseteq T
  BY <1>1, <1>2, InductionOnSet
<1> QED
  BY <1>3 DEF T

(* A node that is no TREE leads nowhere.                                   *)
LEMMA LeafReaches ==
    ASSUME NEW R, ReachesAll(R), NEW a \in DOMAIN Nodes, ~IsTree(a), NEW d \in 0 .. Fuel
    PROVE  R[a][d] = {a}
<1>1. CASE d = 0
  BY <1>1, ReachesStep
<1>2. CASE d # 0
  <2>1. d - 1 \in Nat /\ (d - 1) + 1 = d /\ (d - 1) + 1 <= Fuel
    BY <1>2, NodesKnown
  <2>2. Descends(R, a, d - 1)
    BY <2>1, ReachesDescends
  <2> QED
    BY <2>1, <2>2 DEF Descends
<1> QED
  BY <1>1, <1>2

(* In every round fillNode has met the chunks reached so far, and a node   *)
(* of another kind only where there is one.                                *)
ChunkNodes(A) == \A b \in A : IsTree(b) => Nodes[b].type = "chunk"

Agree(g, R, a, d) ==
    /\ WrongNode \notin ToSet(g[a]) => ToSet(g[a]) = R[a][d] \cap Chunks
    /\ ChunkNodes(R[a][d]) => WrongNode \notin ToSet(g[a])

LEMMA LevelsAgree ==
    ASSUME NEW k, Levels(k), NEW R, ReachesAll(R)
    PROVE  \A a \in DOMAIN Nodes \ Chunks : Agree(k[Fuel], R, a, Fuel)
<1> DEFINE T == {d \in Nat : d <= Fuel => \A a \in DOMAIN Nodes \ Chunks : Agree(k[d], R, a, d)}
<1>0. Fuel \in Nat
  BY NodesKnown
<1>1. 0 \in T
  <2> SUFFICES ASSUME NEW a \in DOMAIN Nodes \ Chunks PROVE Agree(k[0], R, a, 0)
    OBVIOUS
  <2>1. k[0][a] = <<>> /\ R[a][0] = {a}
    BY ReachesStep DEF Levels
  <2>2. ToSet(k[0][a]) = {}
    BY <2>1 DEF ToSet
  <2> QED
    BY <2>1, <2>2 DEF Agree
<1>2. ASSUME NEW d \in Nat, d \in T PROVE d + 1 \in T
  <2> SUFFICES ASSUME d + 1 <= Fuel, NEW a \in DOMAIN Nodes \ Chunks
               PROVE  Agree(k[d + 1], R, a, d + 1)
    OBVIOUS
  <2> DEFINE g == k[d]
             s == k[d + 1][a]
  <2>1. d + 1 \in 1 .. Fuel /\ (d + 1) - 1 = d /\ d \in 0 .. Fuel /\ d <= Fuel
    BY <1>0
  <2>2. g \in [DOMAIN Nodes -> Seq(Finds)] /\ s = Level(g)[a]
    BY <2>1 DEF Levels
  <2>3. \A c \in DOMAIN Nodes \ Chunks : Agree(g, R, c, d)
    BY <1>2, <2>1
  <2>4. Descends(R, a, d)
    BY <2>1, ReachesDescends
  <2> HIDE DEF g
  <2>5. CASE ~IsTree(a)
    <3>1. s = <<>>
      BY <2>2, <2>5, LevelOf
    <3>2. ToSet(s) = {}
      BY <3>1 DEF ToSet
    <3>3. \A b : b \in R[a][d + 1] <=> b = a
      BY <2>4, <2>5 DEF Descends
    <3> QED
      BY <3>2, <3>3 DEF Agree
  <2>6. CASE IsTree(a) /\ Nodes[a].type # "chunk"
    <3>1. s = <<WrongNode>>
      BY <2>2, <2>6, LevelOf
    <3>2. WrongNode \in ToSet(s)
      BY <3>1 DEF ToSet
    <3>3. ~ChunkNodes(R[a][d + 1])
      BY <2>4, <2>6 DEF Descends, ChunkNodes
    <3> QED
      BY <3>2, <3>3 DEF Agree
  <2>7. CASE IsTree(a) /\ Nodes[a].type = "chunk"
    <3> DEFINE F(b) == IF b \in Chunks THEN {b} ELSE ToSet(g[b])
    <3>1. ToSet(s) = UNION {F(b) : b \in Kids(a)}
      BY <2>2, <2>7, LevelOf
    <3>2. Kids(a) \subseteq DOMAIN Nodes /\ WrongNode \notin Chunks
      BY <2>7, NodesKnown
    <3>3. \A b : b \in R[a][d + 1] <=> b = a \/ \E c \in Kids(a) : b \in R[c][d]
      BY <2>4, <2>7 DEF Descends
    <3>4. ASSUME NEW c \in Kids(a), WrongNode \notin F(c) PROVE F(c) = R[c][d] \cap Chunks
      <4>1. CASE c \in Chunks
        <5>1. R[c][d] = {c}
          BY <2>1, <4>1, NodesKnown, LeafReaches
        <5> QED
          BY <4>1, <5>1
      <4>2. CASE c \notin Chunks
        <5>1. Agree(g, R, c, d) /\ F(c) = ToSet(g[c])
          BY <2>3, <3>2, <4>2
        <5> QED
          BY <3>4, <5>1 DEF Agree
      <4> QED
        BY <4>1, <4>2
    <3>5. ASSUME NEW c \in Kids(a), ChunkNodes(R[c][d]) PROVE WrongNode \notin F(c)
      <4>1. CASE c \in Chunks
        BY <3>2, <4>1
      <4>2. CASE c \notin Chunks
        BY <2>3, <3>2, <3>5, <4>2 DEF Agree
      <4> QED
        BY <4>1, <4>2
    <3> HIDE DEF F, s
    <3>6. WrongNode \notin ToSet(s) => ToSet(s) = R[a][d + 1] \cap Chunks
      <4> SUFFICES ASSUME WrongNode \notin ToSet(s) PROVE ToSet(s) = R[a][d + 1] \cap Chunks
        OBVIOUS
      <4>1. \A c \in Kids(a) : F(c) = R[c][d] \cap Chunks
        BY <3>1, <3>4
      <4> QED
        BY <3>1, <3>3, <4>1
    <3>7. ChunkNodes(R[a][d + 1]) => WrongNode \notin ToSet(s)
      <4> SUFFICES ASSUME ChunkNodes(R[a][d + 1]) PROVE WrongNode \notin ToSet(s)
        OBVIOUS
      <4>1. \A c \in Kids(a) : ChunkNodes(R[c][d])
        BY <3>3 DEF ChunkNodes
      <4> QED
        BY <3>1, <3>5, <4>1
    <3> QED
      BY <3>6, <3>7 DEF Agree, s
  <2> QED
    BY <2>5, <2>6, <2>7
<1> HIDE DEF T
<1>3. Fuel \in T
  BY <1>0, <1>1, <1>2, InductionOnSet
<1> QED
  BY <1>3, <1>0 DEF T

(* The walk of fillNode over a dataset's tree finds the dataset's chunks.  *)
LEMMA WalkFinds ==
    ASSUME trees \in Forests, dataset \in 1 .. Len(trees)
    PROVE  /\ WrongNode \notin ToSet(Met) => ToSet(Met) = ChunksOf(dataset)
           /\ SoundTrees => WrongNode \notin ToSet(Met)
<1> DEFINE root == trees[dataset]
<1>1. root \in DOMAIN Nodes /\ dataset \in DOMAIN trees /\ dataset # 0
  BY ChunksAssumption
<1>2. Met = FillNode[root]
  BY <1>1 DEF Met
<1>3. PICK k : Levels(k) /\ FillNode = k[Fuel]
  BY FillNodeLevels
<1>4. PICK R : ReachesAll(R)
  BY SomeReachesAll
<1>5. ChunksOf(dataset) = (R[root][Fuel] \cap Chunks) \ {root}
  BY <1>1, <1>4 DEF ChunksOf, ReachesAll
<1>6. SoundTrees => ChunkNodes(R[root][Fuel])
  BY <1>1, <1>4 DEF SoundTrees, ChunkNodes, ReachesAll, IsTree
<1> HIDE DEF root
<1>7. CASE root \in Chunks
  <2>1. R[root][Fuel] = {root}
    BY <1>1, <1>4, <1>7, NodesKnown, LeafReaches
  <2>2. FillNode[root] = <<>>
    <3>1. CASE Fuel = 0
      BY <1>1, <1>3, <3>1 DEF Levels
    <3>2. CASE Fuel # 0
      <4>1. Fuel \in 1 .. Fuel /\ Fuel - 1 \in 0 .. Fuel
        BY <3>2, NodesKnown
      <4>2. k[Fuel] = Level(k[Fuel - 1]) /\ k[Fuel - 1] \in [DOMAIN Nodes -> Seq(Finds)]
        BY <1>3, <4>1 DEF Levels
      <4> QED
        BY <1>1, <1>3, <1>7, <4>2, NodesKnown, LevelOf
    <3> QED
      BY <3>1, <3>2
  <2>3. ToSet(Met) = {}
    BY <1>2, <2>2 DEF ToSet
  <2> QED
    BY <1>5, <2>1, <2>3
<1>8. CASE root \notin Chunks
  <2>1. Agree(FillNode, R, root, Fuel)
    BY <1>1, <1>3, <1>4, <1>8, LevelsAgree
  <2> QED
    BY <1>2, <1>5, <1>6, <1>8, <2>1 DEF Agree
<1> QED
  BY <1>7, <1>8

-----------------------------------------------------------------------------
(* What a load has to show for its return value.                           *)
(* Nothing is wrong with the file, and nothing fails.                      *)
Sound == corrupt = {} /\ faults = {}

(* Where a chunk may have been given up: a worker met a bad one or had no  *)
(* memory.  One thread then is on its way to returning 1.                  *)
Failing == ~Sound /\ (multithread \/ ret = 1 \/ (err = 1 /\ worker_pc[1] = "done"))

(* What fillNode has recorded waits, is being worked on, or is placed.     *)
NoneLost ==
    main_pc \notin {"failed", "closed"} /\ ~Failing =>
        \A c \in Recorded :
            c \in Bucketed \cup Queued \cup placed \/ \E t \in Threads : chunk[t] = c

(* A walk that is over has recorded everything it met.                     *)
Walked ==
    /\ \A i \in 1 .. recorded : Met[i] # WrongNode
    /\ main_pc \notin {"fill", "failed", "closed"} => recorded = Len(Met)
    /\ main_pc = "idle" => ret = 0

(* One thread looks at the result of its own chunk, and copies no bad one. *)
Honest ==
    ~multithread =>
        /\ worker_pc[1] \in {"release", "switch"} => (err = 1 <=> chunk[1] \in corrupt)
        /\ worker_pc[1] = "place" => chunk[1] \notin corrupt
        /\ placed \cap corrupt = {}

(* Without cause nobody fails, but for a node that is of no chunk tree.    *)
Untroubled ==
    Sound =>
        /\ err = 0 /\ \A t \in Threads : worker_pc[t] # "fail"
        /\ main_pc # "aborted"
        /\ main_pc \notin {"failed", "closed"} => ret = 0
        /\ main_pc = "failed" => WrongNode \in ToSet(Met)

Complete == NoneLost /\ Walked /\ Honest /\ Untroubled

(* A chunk is somewhere: it waits, is worked on, or is in the array.       *)
Somewhere(c) == c \in Bucketed \cup Queued \cup placed \/ \E t \in Threads : chunk[t] = c

LEMMA MetAndRecorded ==
    ASSUME LoadInv
    PROVE  /\ Met \in Seq(Chunks \cup {WrongNode}) /\ Len(Met) \in Nat
           /\ recorded \in 0 .. Len(Met)
           /\ dataset = 0 => Len(Met) = 0
BY MetSeq DEF LoadInv, LoadTypeOK, Met

LEMMA SameFile ==
    ASSUME UNCHANGED <<trees, dataset, recorded>>
    PROVE  Met' = Met /\ Recorded' = Recorded
BY DEF Met, Recorded

(* Chunks change places, and a failure stays one.                          *)
LEMMA NoneLostMoves ==
    ASSUME NoneLost, UNCHANGED <<trees, dataset, recorded>>,
           main_pc' \notin {"failed", "closed"} => main_pc \notin {"failed", "closed"},
           Failing => Failing',
           main_pc' \notin {"failed", "closed"} /\ ~Failing' =>
               \A c \in Recorded : Somewhere(c) => Somewhere(c)'
    PROVE  NoneLost'
<1>1. Recorded' = Recorded
  BY SameFile
<1>2. SUFFICES ASSUME main_pc' \notin {"failed", "closed"} /\ ~Failing', NEW c \in Recorded
               PROVE  Somewhere(c)'
  BY <1>1 DEF NoneLost, Somewhere
<1>3. Somewhere(c)
  BY <1>2 DEF NoneLost, Somewhere
<1> QED
  BY <1>2, <1>3

(* Without threads only the first worker is at work, in getChunkedData.    *)
LEMMA AloneAtWork ==
    ASSUME LoadInv, Alive, ~multithread, NEW t \in Threads, ~Idle(t)
    PROVE  t = 1 /\ main_pc = "inflate"
<1>1. main_pc \in MainStates \ {"closed", "aborted"}
  BY DEF LoadInv, LoadTypeOK, Alive
<1>2. main_pc \notin {"fill", "merge", "ready", "free", "idle", "failed", "broadcast", "join"}
  BY DEF LoadInv, Phases, NotYet
<1>3. main_pc = "inflate"
  BY <1>1, <1>2 DEF MainStates
<1> QED
  BY <1>3 DEF LoadInv, Phases

(* A worker that takes a step has not returned.                            *)
LEMMA Busy ==
    ASSUME LoadInv, NEW t \in Threads, WorkerStep(t) \/ SpuriousWake(t)
    PROVE  worker_pc[t] \notin {"none", "done"}
<1>1. nav_pc[t] # "out" => worker_pc[t] \in {"inflate", "release"}
  BY DEF LoadInv, Hands
<1>2. CASE NavigateChunk(t) \/ MmapFails(t)
  <2>1. nav_pc[t] # "out"
    BY <1>2, NavigateMove DEF NavigateChunk, MmapFails, LoadInv, PageInv
  <2> QED
    BY <1>1, <2>1
<1>3. CASE ~(NavigateChunk(t) \/ MmapFails(t))
  BY <1>3 DEF WorkerStep, SpuriousWake, AllocBuffer, AllocFails, TestReady, CondWait, TestLength,
     Dequeue, DequeueNull, Inflate, Release, SwitchErr, Fail, Place, Finish
<1> QED
  BY <1>2, <1>3

(* What no worker touches, and what it does to its own place.              *)
LEMMA WorkerLeaves ==
    ASSUME LoadInv, Alive, NEW t \in Threads, WorkerStep(t) \/ SpuriousWake(t)
    PROVE  /\ UNCHANGED <<corrupt, faults, trees, dataset, recorded, multithread, ret, data_page_buckets>>
           /\ main_pc' = main_pc \/ MmapFails(t)
           /\ worker_pc' = [worker_pc EXCEPT ![t] = worker_pc'[t]]
           /\ Failing => Failing'
<1>1. worker_pc \in [Threads -> WorkerStates]
  BY DEF LoadInv, LoadTypeOK
<1>2. /\ UNCHANGED <<corrupt, faults, trees, dataset, recorded, multithread, ret, data_page_buckets>>
      /\ main_pc' = main_pc \/ MmapFails(t)
  BY DEF WorkerStep, SpuriousWake, AllocBuffer, AllocFails, TestReady, CondWait, TestLength, Dequeue,
     DequeueNull, NavigateChunk, Inflate, Release, SwitchErr, Fail, Place, Finish, MmapFails,
     fileVars, mainVars, loadVars
<1>3. worker_pc' = [worker_pc EXCEPT ![t] = worker_pc'[t]]
  <2>1. CASE NavigateChunk(t) \/ MmapFails(t)
    BY <1>1, <2>1 DEF NavigateChunk, MmapFails, workerVars, loadVars
  <2>2. CASE ~(NavigateChunk(t) \/ MmapFails(t))
    <3>1. \E s : worker_pc' = [worker_pc EXCEPT ![t] = s]
      BY <2>2 DEF WorkerStep, SpuriousWake, AllocBuffer, AllocFails, TestReady, CondWait, TestLength,
         Dequeue, DequeueNull, Inflate, Release, SwitchErr, Fail, Place, Finish, WorkerGoto
    <3> QED
      BY <1>1, <3>1
  <2> QED
    BY <2>1, <2>2
<1>4. Failing => Failing'
  <2> SUFFICES ASSUME Failing PROVE Failing'
    OBVIOUS
  <2>1. CASE multithread \/ ret = 1
    BY <1>2, <2>1 DEF Failing, Sound
  <2>2. CASE ~(multithread \/ ret = 1)
    <3>1. worker_pc[1] = "done"
      BY <2>2 DEF Failing
    <3>2. t = 1
      BY <2>2, Busy, AloneAtWork DEF Idle
    <3> QED
      BY <3>1, <3>2, Busy
  <2> QED
    BY <2>1, <2>2
<1> QED
  BY <1>2, <1>3, <1>4

(* No step of a worker loses a chunk, but that of one that met a bad one.  *)
LEMMA WorkerLosesNone ==
    ASSUME LoadInv, Complete, Alive, NEW t \in Threads, WorkerStep(t) \/ SpuriousWake(t)
    PROVE  NoneLost'
<1>1. /\ UNCHANGED <<corrupt, faults, trees, dataset, recorded, multithread, ret, data_page_buckets>>
      /\ Failing => Failing'
  BY WorkerLeaves
<1>2. main_pc' \notin {"failed", "closed"} => main_pc \notin {"failed", "closed"}
  <2>1. CASE main_pc' = main_pc
    BY <2>1
  <2>2. CASE MmapFails(t)
    <3>1. worker_pc[t] \in {"inflate", "release"}
      BY <2>2 DEF MmapFails, LoadInv, Hands
    <3> QED
      BY <3>1, AtWork DEF Idle, Early
  <2> QED
    BY <2>1, <2>2, WorkerLeaves
<1>3. SUFFICES ASSUME ~Failing', NEW c \in Recorded, Somewhere(c) PROVE Somewhere(c)'
  BY <1>1, <1>2, NoneLostMoves DEF Complete
<1>4. /\ chunk \in [Threads -> Chunks \cup {NoChunk}] /\ mt_data_queue \in Seq(Chunks)
      /\ IsInjective(mt_data_queue) /\ err \in {0, 1}
  BY DEF LoadInv, LoadTypeOK, Books, TakenOnce
<1>5. Bucketed' = Bucketed
  BY <1>1 DEF Bucketed
<1>6. CASE UNCHANGED <<chunk, mt_data_queue, placed>>
  BY <1>3, <1>5, <1>6 DEF Somewhere, Queued
<1>7. CASE Dequeue(t)
  <2>1. /\ mt_data_queue # <<>> /\ mt_data_queue' = Tail(mt_data_queue)
        /\ chunk' = [chunk EXCEPT ![t] = Head(mt_data_queue)]
        /\ placed' = placed /\ worker_pc[t] = "dequeue"
    BY <1>7 DEF Dequeue
  <2>2. chunk[t] = NoChunk
    BY <2>1 DEF LoadInv, Hands
  <2>3. Queued' = Queued \ {Head(mt_data_queue)}
    BY <1>4, <2>1, TailSet DEF Queued
  <2>4. chunk'[t] = Head(mt_data_queue) /\ \A u \in Threads \ {t} : chunk'[u] = chunk[u]
    BY <1>4, <2>1
  <2>5. c # NoChunk
    <3>1. PICK i \in 1 .. recorded : c = Met[i]
      BY DEF Recorded
    <3> QED
      BY <3>1 DEF Complete, Walked, WrongNode, NoChunk
  <2> QED
    BY <1>3, <1>5, <2>1, <2>2, <2>3, <2>4, <2>5 DEF Somewhere
<1>8. CASE Place(t)
  <2>1. placed' = placed \cup {chunk[t]} /\ chunk' = [chunk EXCEPT ![t] = NoChunk]
        /\ mt_data_queue' = mt_data_queue
    BY <1>8 DEF Place
  <2>2. \A u \in Threads \ {t} : chunk'[u] = chunk[u]
    BY <1>4, <2>1
  <2> QED
    BY <1>3, <1>5, <2>1, <2>2 DEF Somewhere, Queued
<1>9. CASE Fail(t)
  <2>1. /\ worker_pc[t] = "fail" /\ err' = 1 /\ worker_pc' = [worker_pc EXCEPT ![t] = "done"]
    BY <1>9 DEF Fail, WorkerGoto
  <2>2. ~Sound
    BY <2>1 DEF Complete, Untroubled
  <2>3. ~multithread => t = 1 /\ worker_pc'[1] = "done"
    BY <2>1, AloneAtWork DEF Idle, LoadInv, LoadTypeOK
  <2> QED
    BY <1>1, <1>3, <2>1, <2>2, <2>3 DEF Failing, Sound
<1>10. CASE ~(Dequeue(t) \/ Place(t) \/ Fail(t))
  <2>1. UNCHANGED <<chunk, mt_data_queue, placed>>
    BY <1>10 DEF WorkerStep, SpuriousWake, AllocBuffer, AllocFails, TestReady, CondWait, TestLength,
       DequeueNull, NavigateChunk, Inflate, Release, SwitchErr, Finish, MmapFails, workerVars, loadVars
  <2> QED
    BY <1>6, <2>1
<1> QED
  BY <1>7, <1>8, <1>9, <1>10

LEMMA WorkerWalked ==
    ASSUME LoadInv, Complete, Alive, NEW t \in Threads, WorkerStep(t) \/ SpuriousWake(t)
    PROVE  Walked'
<1>1. UNCHANGED <<trees, dataset, recorded, ret>> /\ (main_pc' = main_pc \/ MmapFails(t))
  BY WorkerLeaves
<1>2. Met' = Met
  BY <1>1, SameFile
<1>3. CASE main_pc' = main_pc
  BY <1>1, <1>2, <1>3 DEF Complete, Walked
<1>4. CASE MmapFails(t)
  <2>1. nav_pc[t] = "map" /\ main_pc' = "aborted"
    BY <1>4 DEF MmapFails, MainGoto
  <2>2. worker_pc[t] \in {"inflate", "release"}
    BY <2>1 DEF LoadInv, Hands
  <2>3. main_pc \in {"broadcast", "join", "inflate"}
    BY <2>2, AtWork DEF Idle, Early
  <2> QED
    BY <1>1, <1>2, <2>1, <2>3 DEF Complete, Walked
<1> QED
  BY <1>1, <1>3, <1>4

LEMMA WorkerHonest ==
    ASSUME LoadInv, Complete, Alive, NEW t \in Threads, WorkerStep(t) \/ SpuriousWake(t)
    PROVE  Honest'
<1>1. UNCHANGED <<corrupt, multithread>>
  BY WorkerLeaves
<1>2. SUFFICES ASSUME ~multithread PROVE Honest'
  BY <1>1 DEF Honest
<1>3. t = 1 /\ 1 \in Threads
  BY <1>2, Busy, AloneAtWork, CountsNat DEF Idle
<1>4. /\ worker_pc[1] \in {"release", "switch"} => (err = 1 <=> chunk[1] \in corrupt)
      /\ worker_pc[1] = "place" => chunk[1] \notin corrupt
      /\ placed \cap corrupt = {}
  BY <1>2 DEF Complete, Honest
<1>5. /\ worker_pc \in [Threads -> WorkerStates] /\ err \in {0, 1}
  BY DEF LoadInv, LoadTypeOK
<1>6. CASE AllocBuffer(1) \/ AllocFails(1) \/ TestReady(1) \/ CondWait(1) \/ SpuriousWake(1) \/ TestLength(1)
           \/ Dequeue(1) \/ DequeueNull(1) \/ Fail(1) \/ Finish(1)
  <2>1. worker_pc'[1] \notin {"release", "switch", "place"} /\ placed' = placed
    BY <1>3, <1>5, <1>6 DEF AllocBuffer, AllocFails, TestReady, CondWait, SpuriousWake, TestLength,
       Dequeue, DequeueNull, Fail, Finish, WorkerGoto
  <2> QED
    BY <1>1, <1>4, <2>1 DEF Honest
<1>7. CASE NavigateChunk(1) \/ MmapFails(1)
  <2>1. UNCHANGED <<worker_pc, err, chunk, placed>>
    BY <1>7 DEF NavigateChunk, MmapFails, loadVars, workerVars
  <2> QED
    BY <1>1, <1>4, <2>1 DEF Honest
<1>8. CASE Inflate(1)
  <2>1. /\ worker_pc'[1] = "release" /\ UNCHANGED <<chunk, placed>>
        /\ err' = IF chunk[1] \in corrupt THEN 1 ELSE 0
    BY <1>3, <1>5, <1>8 DEF Inflate, WorkerGoto
  <2> QED
    BY <1>1, <1>4, <2>1 DEF Honest
<1>9. CASE Release(1)
  <2>1. /\ worker_pc[1] = "release" /\ worker_pc'[1] = "switch" /\ UNCHANGED <<chunk, placed, err>>
    BY <1>3, <1>5, <1>9 DEF Release, WorkerGoto
  <2> QED
    BY <1>1, <1>4, <2>1 DEF Honest
<1>10. CASE SwitchErr(1)
  <2>1. /\ worker_pc[1] = "switch" /\ UNCHANGED <<chunk, placed, err>>
        /\ worker_pc'[1] = IF err # 0 THEN "fail" ELSE "place"
    BY <1>3, <1>5, <1>10 DEF SwitchErr, WorkerGoto
  <2> QED
    BY <1>1, <1>4, <1>5, <2>1 DEF Honest
<1>11. CASE Place(1)
  <2>1. /\ worker_pc[1] = "place" /\ worker_pc'[1] = "loop"
        /\ placed' = placed \cup {chunk[1]}
    BY <1>3, <1>5, <1>11 DEF Place, WorkerGoto
  <2> QED
    BY <1>1, <1>4, <2>1 DEF Honest
<1> QED
  BY <1>3, <1>6, <1>7, <1>8, <1>9, <1>10, <1>11 DEF WorkerStep

LEMMA WorkerUntroubled ==
    ASSUME LoadInv, Complete, Alive, NEW t \in Threads, WorkerStep(t) \/ SpuriousWake(t)
    PROVE  Untroubled'
<1>1. /\ UNCHANGED <<corrupt, faults, trees, dataset, recorded, ret>>
      /\ main_pc' = main_pc \/ MmapFails(t)
      /\ worker_pc' = [worker_pc EXCEPT ![t] = worker_pc'[t]]
  BY WorkerLeaves
<1>2. SUFFICES ASSUME corrupt = {}, faults = {} PROVE Untroubled'
  BY <1>1 DEF Untroubled, Sound
<1>3. /\ err = 0 /\ \A u \in Threads : worker_pc[u] # "fail"
      /\ main_pc # "aborted"
      /\ main_pc \notin {"failed", "closed"} => ret = 0
      /\ main_pc = "failed" => WrongNode \in ToSet(Met)
  BY <1>2 DEF Complete, Untroubled, Sound
<1>4. worker_pc \in [Threads -> WorkerStates]
  BY DEF LoadInv, LoadTypeOK
<1>5. ~MmapFails(t) /\ ~AllocFails(t) /\ ~Fail(t)
  BY <1>2, <1>3 DEF MmapFails, AllocFails, Fail
<1>6. err' = 0 /\ worker_pc'[t] # "fail"
  <2>1. CASE NavigateChunk(t)
    BY <1>3, <2>1 DEF NavigateChunk, loadVars, workerVars
  <2>2. CASE ~NavigateChunk(t)
    BY <1>2, <1>3, <1>4, <1>5, <2>2 DEF WorkerStep, SpuriousWake, AllocBuffer, TestReady, CondWait, TestLength,
       Dequeue, DequeueNull, Inflate, Release, SwitchErr, Place, Finish, WorkerGoto
  <2> QED
    BY <2>1, <2>2
<1>7. \A u \in Threads : worker_pc'[u] # "fail"
  BY <1>1, <1>3, <1>4, <1>6
<1>8. Met' = Met
  BY <1>1, SameFile
<1> QED
  BY <1>1, <1>3, <1>5, <1>6, <1>7, <1>8 DEF Untroubled

(* The main thread: what fillNode records is put into a bucket, and the    *)
(* buckets into the queue.                                                 *)
LEMMA RecordComplete ==
    ASSUME LoadInv, Complete, RecordChunk
    PROVE  Complete'
<1> DEFINE c == Met[recorded + 1]
           p == PageOf[c]
<1>1. /\ main_pc = "fill" /\ recorded < Len(Met) /\ c # WrongNode
      /\ data_page_buckets' = [data_page_buckets EXCEPT ![p] = Append(@, c)]
      /\ recorded' = recorded + 1
      /\ UNCHANGED <<fileVars, main_pc, workerVars, dataset, multithread, ret>>
  BY DEF RecordChunk
<1>2. /\ Met' = Met /\ Len(Met) \in Nat /\ recorded \in Nat
      /\ 1 .. recorded + 1 = (1 .. recorded) \cup {recorded + 1}
  <2>1. recorded \in Nat /\ Len(Met) \in Nat
    <3>1. Len(Met) \in Nat /\ recorded \in 0 .. Len(Met)
      BY MetAndRecorded
    <3> QED
      BY <3>1
  <2>2. Met' = Met
    BY <1>1 DEF Met, fileVars
  <2>3. 1 .. recorded + 1 = (1 .. recorded) \cup {recorded + 1}
    BY <2>1
  <2> QED
    BY <2>1, <2>2, <2>3
<1>3. Recorded' = Recorded \cup {c}
  BY <1>1, <1>2 DEF Recorded
<1>4. c \in Chunks /\ p \in Pages /\ data_page_buckets \in [Pages -> Seq(Chunks)]
  BY <1>1, NextIsNew, ChunksAssumption DEF LoadInv, LoadTypeOK
<1>5. Bucketed' = Bucketed \cup {c}
  <2> HIDE DEF c, p
  <2>1. data_page_buckets[p] \in Seq(Chunks)
    BY <1>4
  <2>2. ToSet(Append(data_page_buckets[p], c)) = ToSet(data_page_buckets[p]) \cup {c}
    BY <1>4, <2>1, AppendSet
  <2>3. \A q \in Pages : ToSet(data_page_buckets'[q]) =
            IF q = p THEN ToSet(data_page_buckets[q]) \cup {c} ELSE ToSet(data_page_buckets[q])
    BY <1>1, <1>4, <2>2
  <2> QED
    BY <1>4, <2>3 DEF Bucketed
<1> HIDE DEF c, p
<1>6. NoneLost'
  <2>1. main_pc \notin {"failed", "closed"} /\ main_pc' = main_pc /\ Failing' = Failing
    BY <1>1 DEF Failing, Sound, fileVars, workerVars
  <2>2. Queued' = Queued /\ placed' = placed /\ chunk' = chunk
    BY <1>1 DEF Queued, workerVars
  <2> QED
    BY <1>3, <1>5, <2>1, <2>2 DEF NoneLost, Complete
<1>7. Walked'
  BY <1>1, <1>2 DEF Walked, Complete, c
<1>8. Honest' /\ Untroubled'
  BY <1>1, <1>2 DEF Honest, Untroubled, Complete, Sound, fileVars, workerVars
<1> QED
  BY <1>6, <1>7, <1>8 DEF Complete

LEMMA MergeComplete ==
    ASSUME LoadInv, Complete, MergeBucket
    PROVE  Complete'
<1> DEFINE b == data_page_buckets[merged]
<1>1. /\ main_pc = "merge" /\ merged < NumPages
      /\ mt_data_queue' = mt_data_queue \o b
      /\ data_page_buckets' = [data_page_buckets EXCEPT ![merged] = <<>>]
      /\ UNCHANGED <<fileVars, main_pc, dataset, multithread, recorded, ret, worker_pc, chunk, err, placed>>
  BY DEF MergeBucket
<1>2. /\ merged \in Pages /\ data_page_buckets \in [Pages -> Seq(Chunks)]
      /\ mt_data_queue \in Seq(Chunks)
  <2>1. merged \in 0 .. NumPages
    BY DEF LoadInv, LoadTypeOK
  <2> QED
    BY <1>1, <2>1, CountsNat DEF LoadInv, LoadTypeOK
<1>3. b \in Seq(Chunks)
  BY <1>2
<1> HIDE DEF b
<1>4. Queued' = Queued \cup ToSet(b)
  BY <1>1, <1>2, <1>3, ConcatSet DEF Queued
<1>5. Bucketed \subseteq Bucketed' \cup ToSet(b)
  <2> SUFFICES ASSUME NEW q \in Pages, NEW c \in ToSet(data_page_buckets[q]), q # merged
               PROVE  c \in Bucketed'
    BY DEF Bucketed, b
  <2>1. data_page_buckets'[q] = data_page_buckets[q]
    BY <1>1, <1>2
  <2> QED
    BY <2>1 DEF Bucketed
<1>6. NoneLost'
  <2>1. Failing' = Failing /\ main_pc' = main_pc
    BY <1>1 DEF Failing, Sound, fileVars
  <2>2. \A c \in Recorded : Somewhere(c) => Somewhere(c)'
    BY <1>1, <1>4, <1>5 DEF Somewhere
  <2>3. UNCHANGED <<trees, dataset, recorded>>
    BY <1>1 DEF fileVars
  <2> QED
    BY <2>1, <2>2, <2>3, NoneLostMoves DEF Complete
<1>7. Walked' /\ Honest' /\ Untroubled'
  <2>1. Met' = Met
    BY <1>1, SameFile DEF fileVars
  <2> QED
    BY <1>1, <2>1 DEF Walked, Honest, Untroubled, Complete, Sound, fileVars
<1> QED
  BY <1>6, <1>7 DEF Complete

(* A load begins with nothing recorded.                                    *)
LEMMA StartComplete ==
    ASSUME LoadInv, Complete, StartLoad
    PROVE  Complete'
<1>1. /\ recorded' = 0 /\ placed' = {} /\ err' = 0 /\ ret' = 0 /\ main_pc' = "fill"
      /\ \A t \in Threads : worker_pc'[t] \in {"alloc", "none"}
  BY DEF StartLoad, MainGoto
<1>2. Recorded' = {} /\ 1 .. recorded' = {}
  BY <1>1 DEF Recorded
<1>3. NoneLost' /\ Walked'
  BY <1>1, <1>2 DEF NoneLost, Walked
<1>4. Honest'
  BY <1>1, CountsNat DEF Honest
<1>5. Untroubled'
  BY <1>1 DEF Untroubled
<1> QED
  BY <1>3, <1>4, <1>5 DEF Complete

(* The turns of getChunkedData, which move no chunk.                       *)
LEMMA TurnsComplete ==
    ASSUME LoadInv, Complete,
           FillFails \/ FillDone \/ MergeDone \/ SetReady \/ Broadcast \/ Join \/ InflateReturns
    PROVE  Complete'
<1>1. /\ UNCHANGED <<fileVars, dataset, multithread, recorded, data_page_buckets,
                     mt_data_queue, chunk, err, placed>>
      /\ main_pc \notin {"failed", "closed", "idle", "aborted"}
  BY DEF FillFails, FillDone, MergeDone, SetReady, Broadcast, Join, InflateReturns, mainVars, workerVars
<1>2. /\ worker_pc \in [Threads -> WorkerStates] /\ err \in {0, 1} /\ ret \in {0, 1} /\ 1 \in Threads
  BY CountsNat DEF LoadInv, LoadTypeOK
<1>3. Met' = Met /\ Len(Met) \in Nat /\ Met \in Seq(Chunks \cup {WrongNode})
  BY <1>1, SameFile, MetAndRecorded DEF fileVars
<1>4. ret' \in {0, 1} /\ (ret' # ret => ret' = 1)
  BY <1>2 DEF FillFails, FillDone, MergeDone, SetReady, Broadcast, Join, InflateReturns, mainVars
<1>5. \A t \in Threads : worker_pc'[t] \in {"release", "switch", "place", "fail"} => worker_pc'[t] = worker_pc[t]
  <2>1. CASE FillFails \/ FillDone \/ SetReady
    BY <2>1 DEF FillFails, FillDone, SetReady, workerVars
  <2>2. CASE MergeDone \/ Join \/ InflateReturns
    BY <1>2, <2>2 DEF MergeDone, Join, InflateReturns, WorkerGoto
  <2>3. CASE Broadcast
    BY <1>2, <2>3 DEF Broadcast
  <2> QED
    BY <2>1, <2>2, <2>3
<1>6. Failing => Failing' \/ main_pc' = "failed"
  <2> SUFFICES ASSUME Failing PROVE Failing' \/ main_pc' = "failed"
    OBVIOUS
  <2>1. CASE multithread \/ ret = 1
    BY <1>1, <1>4, <2>1 DEF Failing, Sound, fileVars
  <2>2. CASE ~multithread /\ ret # 1
    <3>1. err = 1 /\ worker_pc[1] = "done" /\ ~Sound
      BY <2>2 DEF Failing
    <3>2. main_pc = "inflate"
      BY <1>1, <1>2, <2>2, <3>1, AloneAtWork DEF Idle, Alive
    <3>3. InflateReturns
      BY <3>2 DEF FillFails, FillDone, MergeDone, SetReady, Broadcast, Join
    <3> QED
      BY <1>1, <3>1, <3>3 DEF InflateReturns, Failing, Sound, fileVars
  <2> QED
    BY <2>1, <2>2
<1>7. NoneLost'
  <2>1. \A c \in Recorded : Somewhere(c) => Somewhere(c)'
    BY <1>1 DEF Somewhere, Bucketed, Queued
  <2>2. Recorded' = Recorded
    BY <1>1, SameFile DEF fileVars
  <2> QED
    BY <1>1, <1>6, <2>1, <2>2 DEF NoneLost, Complete, Somewhere
<1>8. Walked'
  <2>1. main_pc' # "idle" /\ (main_pc' \notin {"fill", "failed", "closed"} => recorded = Len(Met))
    BY <1>1 DEF Complete, Walked, FillFails, FillDone, MergeDone, SetReady, Broadcast, Join, InflateReturns, MainGoto
  <2> QED
    BY <1>1, <1>3, <2>1 DEF Complete, Walked
<1>9. Honest'
  BY <1>1, <1>2, <1>5 DEF Complete, Honest, fileVars
<1>10. Untroubled'
  <2> SUFFICES ASSUME Sound PROVE Untroubled'
    BY <1>1 DEF Untroubled, Sound, fileVars
  <2>1. err' = 0 /\ \A t \in Threads : worker_pc'[t] # "fail"
    BY <1>1, <1>5 DEF Complete, Untroubled
  <2>2. ret = 0 /\ err = 0
    BY <1>1 DEF Complete, Untroubled
  <2>3. CASE FillFails
    <3>1. recorded < Len(Met) /\ Met[recorded + 1] = WrongNode /\ main_pc' = "failed"
      BY <2>3 DEF FillFails, MainGoto
    <3>2. recorded + 1 \in DOMAIN Met
      BY <1>3, <3>1, MetAndRecorded
    <3>3. WrongNode \in ToSet(Met)
      BY <3>1, <3>2 DEF ToSet
    <3> QED
      BY <1>3, <2>1, <3>1, <3>3 DEF Untroubled
  <2>4. CASE ~FillFails
    <3>1. ret' = 0 /\ main_pc' \notin {"aborted", "failed"}
      BY <2>2, <2>4 DEF FillDone, MergeDone, SetReady, Broadcast, Join, InflateReturns, MainGoto, mainVars
    <3> QED
      BY <2>1, <3>1 DEF Untroubled
  <2> QED
    BY <2>3, <2>4
<1> QED
  BY <1>7, <1>8, <1>9, <1>10 DEF Complete

(* mt_freeQueue finds an empty queue when no error was noted.              *)
LEMMA EndsComplete ==
    ASSUME LoadInv, Complete, FreeLoad \/ Close
    PROVE  Complete'
<1>1. /\ UNCHANGED <<fileVars, dataset, multithread, recorded, ret, worker_pc, chunk, err, placed>>
      /\ main_pc' \in {"idle", "failed", "closed"}
      /\ main_pc' = "idle" => /\ main_pc = "free" /\ ret = 0 /\ mt_data_queue' = <<>>
                              /\ data_page_buckets' = data_page_buckets
      /\ main_pc' = "failed" => main_pc = "free" /\ ret # 0
  BY DEF FreeLoad, Close, MainGoto, mainVars
<1>2. Met' = Met /\ Failing' = Failing /\ Sound' = Sound
  BY <1>1, SameFile DEF Failing, Sound, fileVars
<1>3. main_pc' = "idle" => mt_data_queue = <<>>
  BY <1>1 DEF LoadInv, Phases
<1>4. NoneLost'
  <2>1. main_pc' = "idle" => \A c \in Recorded : Somewhere(c) => Somewhere(c)'
    BY <1>1, <1>3 DEF Somewhere, Queued, Bucketed
  <2>2. Recorded' = Recorded
    BY <1>1, SameFile DEF fileVars
  <2> QED
    BY <1>1, <1>2, <2>1, <2>2 DEF NoneLost, Complete, Somewhere
<1>5. Walked' /\ Honest' /\ Untroubled'
  BY <1>1, <1>2 DEF Walked, Honest, Untroubled, Complete, fileVars
<1> QED
  BY <1>4, <1>5 DEF Complete

LEMMA CompleteStep ==
    ASSUME LoadInv, Complete, [LoadNext]_vars
    PROVE  Complete'
<1>1. CASE MainStep
  BY <1>1, StartComplete, RecordComplete, MergeComplete, TurnsComplete, EndsComplete DEF MainStep
<1>2. ASSUME Alive, NEW t \in Threads, WorkerStep(t) \/ SpuriousWake(t)
      PROVE  Complete'
  BY <1>2, WorkerLosesNone, WorkerWalked, WorkerHonest, WorkerUntroubled DEF Complete
<1>3. CASE UNCHANGED vars
  <2>1. UNCHANGED <<corrupt, faults, trees, dataset, multithread, main_pc, recorded, data_page_buckets,
                    mt_data_queue, worker_pc, chunk, err, ret, placed>>
    BY <1>3 DEF vars, loadVars, fileVars, mainVars, workerVars
  <2>2. Met' = Met /\ Recorded' = Recorded
    BY <2>1, SameFile
  <2> QED
    BY <2>1, <2>2 DEF Complete, NoneLost, Walked, Honest, Untroubled, Failing, Sound, Bucketed, Queued
<1> QED
  BY <1>1, <1>2, <1>3 DEF LoadNext, Ended

LEMMA CompleteInit == LoadInit => Complete
<1> SUFFICES ASSUME LoadInit PROVE Complete
  OBVIOUS
<1>1. /\ dataset = 0 /\ recorded = 0 /\ main_pc = "idle" /\ ret = 0 /\ err = 0 /\ placed = {}
      /\ \A t \in Threads : worker_pc[t] = "none"
  BY DEF LoadInit
<1>2. Met = <<>> /\ Len(Met) = 0 /\ Recorded = {} /\ 1 .. recorded = {}
  BY <1>1 DEF Met, Recorded
<1> QED
  BY <1>1, <1>2, CountsNat DEF Complete, NoneLost, Walked, Honest, Untroubled

(* When getChunkedData has returned 0 what was recorded is in the array,   *)
(* and the walk has recorded the dataset.                                  *)
LEMMA CompleteIsExact ==
    ASSUME LoadInv, Complete
    PROVE  ResultExact
<1>1. trees \in Forests /\ dataset \in 0 .. Len(trees) /\ Len(trees) \in Nat
  <2>1. trees \in Forests /\ dataset \in 0 .. Len(trees)
    BY DEF LoadInv, LoadTypeOK
  <2> QED
    BY <2>1, ChunksAssumption
<1>2. dataset # 0 =>
        /\ WrongNode \notin ToSet(Met) => ToSet(Met) = ChunksOf(dataset)
        /\ SoundTrees => WrongNode \notin ToSet(Met)
  BY <1>1, WalkFinds
<1>3. ASSUME Returned, ~multithread \/ Sound PROVE placed = ChunksOf(dataset)
  <2>1. main_pc = "idle" /\ dataset # 0
    BY <1>1, <1>3 DEF Returned
  <2>2. recorded = Len(Met) /\ ret = 0
    BY <2>1 DEF Complete, Walked
  <2>3. DOMAIN Met = 1 .. recorded
    BY <2>2, MetAndRecorded
  <2>4. Recorded = ToSet(Met) /\ WrongNode \notin ToSet(Met)
    BY <2>3 DEF Recorded, ToSet, Complete, Walked
  <2>5. /\ \A t \in Threads : Idle(t)
        /\ \A p \in Pages : data_page_buckets[p] = <<>>
        /\ mt_data_queue = <<>>
    BY <2>1 DEF LoadInv, Phases
  <2>6. Bucketed = {} /\ Queued = {} /\ \A t \in Threads : chunk[t] = NoChunk
    BY <2>5, NothingLeft DEF Queued, ToSet
  <2>7. ~Failing
    BY <1>3, <2>2, <2>5, CountsNat DEF Failing, Idle
  <2>8. Recorded \subseteq placed
    BY <2>1, <2>4, <2>6, <2>7, CountsNat DEF Complete, NoneLost
  <2>9. placed \subseteq Recorded
    BY DEF LoadInv, Books, Sorted
  <2> QED
    BY <1>2, <2>1, <2>4, <2>8, <2>9
<1>4. ~multithread => placed \cap corrupt = {}
  BY DEF Complete, Honest
<1>5. ASSUME Sound, SoundTrees PROVE main_pc \notin {"failed", "aborted"}
  <2>1. main_pc # "aborted" /\ (main_pc = "failed" => WrongNode \in ToSet(Met))
    BY <1>5 DEF Complete, Untroubled
  <2>2. WrongNode \notin ToSet(Met)
    <3>1. CASE dataset = 0
      BY <3>1 DEF Met, ToSet
    <3>2. CASE dataset # 0
      BY <1>2, <1>5, <3>2
    <3> QED
      BY <3>1, <3>2
  <2> QED
    BY <2>1, <2>2
<1> QED
  BY <1>3, <1>4, <1>5 DEF ResultExact, Sound

(* A load that returns 0 without threads has copied out every chunk of its *)
(* dataset, and none that libdeflate rejected.  With threads, although     *)
(* they share thread_obj->err, it has if no chunk is bad and nothing       *)
(* fails; and then it does return 0.                                       *)
THEOREM ResultIsExact == LoadSpec => []ResultExact
<1>1. LoadInit => Complete
  BY CompleteInit
<1>2. LoadInv /\ Complete /\ [LoadNext]_vars => Complete'
  BY CompleteStep
<1>3. LoadInv /\ Complete => ResultExact
  BY CompleteIsExact
<1> QED
  BY <1>1, <1>2, <1>3, LoadInvariance, PTL DEF LoadSpec
=============================================================================
