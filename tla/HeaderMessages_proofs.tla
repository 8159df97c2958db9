------------------------- MODULE HeaderMessages_proofs -------------------------
(* OneMapping, ReadOnceInBlock, EveryMessageRead and ObjectRight, for all  *)
(* headers: any number of blocks, whatever their messages, continuations   *)
(* and counts.  The places of the messages in Order come first, then the   *)
(* walk, which is at a place of Order in each of its calls if no block is  *)
(* gone to twice, and last the object, which is what was read of it.       *)
EXTENDS HeaderMessages, Induction, SequenceTheorems, FiniteSetTheorems, TLAPS

Frames ==
    [block : DOMAIN header.blocks, bytes_read : Nat, message_num : Nat,
     repeat_tracker : SUBSET Kinds, switched : BOOLEAN]

(* The calls are of blocks of the header, and there is one while it is     *)
(* walked.                                                                 *)
StackOK ==
    /\ header \in Headers
    /\ stack \in Seq(Frames)
    /\ pc \in {"fill", "walk", "collected", "filled"}
    /\ (pc = "walk") = (stack # <<>>)

WalkInv == StackOK /\ OneMapping

-----------------------------------------------------------------------------
(* st_releasePages of the only mapping leaves none.                        *)
LEMMA ReleaseOnly == \A b : Release(<<b>>, b) = <<>>
<1> TAKE b
<1>1. SelectInSeq(<<b>>, LAMBDA v : v = b) = 1
  <2>1. {i \in 1 .. Len(<<b>>) : <<b>>[i] = b} = {1}
    OBVIOUS
  <2>2. Min({1}) = 1
    BY DEF Min
  <2> QED
    BY <2>1, <2>2 DEF SelectInSeq
<1>2. RemoveAt(<<b>>, 1) = <<>>
  BY DEF RemoveAt
<1> QED
  BY <1>1, <1>2 DEF Release, RemoveFirst

(* ... and mapping another one makes it the only one.                      *)
LEMMA NavigateOnly == \A b, c : Navigate(Release(<<b>>, b), c) = <<c>>
<1> TAKE b, c
<1>1. Append(<<>>, c) = <<c>>
  OBVIOUS
<1> QED
  BY <1>1, ReleaseOnly DEF Navigate

(* The message looked at is one of the header's.                           *)
LEMMA MsgType ==
    ASSUME StackOK, NEW kinds, AtMessage(kinds)
    PROVE  /\ Msg.kind \in Kinds /\ Msg.kind \in kinds
           /\ Msg.kind = "cont" => Msg.to \in DOMAIN header.blocks
<1>1. stack # <<>> /\ Top \in Frames
  BY DEF StackOK, AtMessage, Top, Last
<1>2. Block(Top.block) \in Seq(ToSet(Block(Top.block)))
  BY <1>1, HeaderAssumption DEF StackOK, Frames, Block
<1>3. Msg \in ToSet(Block(Top.block))
  BY <1>1, <1>2 DEF Msg, AtMessage, MoreMessages, Frames, ToSet
<1> QED
  BY <1>1, <1>3, HeaderAssumption DEF StackOK, Frames, Block, AtMessage

(* A turn of the loop that stays in its call.                              *)
LEMMA TopKept ==
    ASSUME WalkInv, pc = "walk", NEW f \in Frames, f.block = Top.block,
           SetTop(f), UNCHANGED <<header, pc, held>>
    PROVE  WalkInv'
<1> USE DEF WalkInv, StackOK, OneMapping
<1>1. Len(stack) \in Nat \ {0}
  OBVIOUS
<1>2. stack' \in Seq(Frames) /\ Len(stack') = Len(stack) /\ stack'[Len(stack)] = f
  BY <1>1 DEF SetTop
<1>3. stack' # <<>> /\ Top' = f
  BY <1>1, <1>2 DEF Top, Last
<1> QED
  BY <1>2, <1>3 DEF Frames

(* The return to the caller, which maps its block again.                   *)
LEMMA ReturnKeeps ==
    ASSUME WalkInv, pc = "walk", NEW num \in Nat, ReturnTo(num), UNCHANGED header
    PROVE  WalkInv'
<1> USE DEF WalkInv, StackOK, OneMapping
<1> DEFINE rest == Front(stack)
<1>1. Len(stack) \in Nat \ {0}
  OBVIOUS
<1>2. rest \in Seq(Frames) /\ Len(rest) = Len(stack) - 1
  BY <1>1 DEF Front
<1>3. CASE rest = <<>>
  <2>1. pc' = "collected" /\ stack' = <<>> /\ held' = <<>>
    BY <1>3, ReleaseOnly DEF ReturnTo
  <2> QED
    BY <2>1 DEF Frames
<1>4. CASE rest # <<>>
  <2>1. pc' = "walk" /\ stack' = [rest EXCEPT ![Len(rest)].message_num = num]
    BY <1>4 DEF ReturnTo
  <2>2. held' = <<Last(rest).block>>
    BY <1>4, NavigateOnly DEF ReturnTo
  <2>3. Len(rest) \in Nat \ {0} /\ rest[Len(rest)] \in Frames
    BY <1>2, <1>4
  <2> DEFINE caller == [rest[Len(rest)] EXCEPT !.message_num = num]
  <2>4. caller \in Frames
    BY <2>3 DEF Frames
  <2>5. stack' \in Seq(Frames) /\ Len(stack') = Len(rest) /\ stack'[Len(rest)] = caller
    <3> HIDE DEF rest, caller
    <3>1. stack' = [rest EXCEPT ![Len(rest)] = caller]
      BY <2>1 DEF caller
    <3> QED
      BY <1>2, <2>3, <2>4, <3>1
  <2>6. stack' # <<>> /\ Top'.block = Last(rest).block
    BY <2>3, <2>5 DEF Top, Last, Frames
  <2> QED
    BY <2>1, <2>2, <2>5, <2>6 DEF Frames
<1> QED
  BY <1>3, <1>4

-----------------------------------------------------------------------------
(* fillObject has not yet mapped anything when it begins.                  *)
LEMMA WalkInit == HeaderInit => WalkInv
BY DEF HeaderInit, WalkInv, StackOK, OneMapping

(* The invariant is inductive: each message, continuation, return and      *)
(* error of the walk keeps it.                                             *)
LEMMA WalkStep == WalkInv /\ [HeaderNext]_headerVars => WalkInv'
<1> SUFFICES ASSUME WalkInv, [HeaderNext]_headerVars PROVE WalkInv'
  OBVIOUS
<1> USE DEF WalkInv
<1>0. pc = "walk" => Top \in Frames
  BY DEF StackOK, Top, Last
<1>1. CASE FillObjectHeader
  <2>1. 1 \in DOMAIN header.blocks
    BY HeaderAssumption DEF StackOK
  <2>2. Frame(1, 0, {}) \in Frames
    BY <2>1 DEF Frame, Frames
  <2>3. stack' = <<Frame(1, 0, {})>> /\ stack' \in Seq(Frames) /\ UNCHANGED Frames
    BY <1>1, <2>2 DEF FillObjectHeader, Frames
  <2>4. held' = <<1>> /\ Top'.block = 1
    BY <1>1, <2>3 DEF FillObjectHeader, OneMapping, Navigate, Top, Last, Frame
  <2> QED
    BY <1>1, <2>3, <2>4 DEF FillObjectHeader, StackOK, OneMapping
<1>2. CASE OnceMessage
  <2>1. [Top EXCEPT !.switched = TRUE, !.repeat_tracker = @ \cup {Msg.kind}] \in Frames
    BY <1>0, <1>2, MsgType DEF OnceMessage, AtMessage, Frames
  <2> QED
    BY <1>0, <1>2, <2>1, TopKept DEF OnceMessage, AtMessage, Frames
<1>3. CASE AttributeMessage
  BY <1>0, <1>3, TopKept DEF AttributeMessage, AtMessage, Frames
<1>4. CASE OtherMessage
  BY <1>0, <1>4, TopKept DEF OtherMessage, AtMessage, Frames
<1>5. CASE BadContinuation
  BY <1>0, <1>5, TopKept DEF BadContinuation, AtMessage, Frames
<1>6. CASE Continuation
  <2> DEFINE num    == Top.message_num + 1
             caller == [Top EXCEPT !.message_num = num, !.switched = TRUE]
             inner  == Frame(Msg.to, num, Top.repeat_tracker)
  <2>1. pc = "walk" /\ Msg.to \in DOMAIN header.blocks
    BY <1>6, MsgType DEF Continuation, AtMessage
  <2>2. caller \in Frames /\ inner \in Frames
    <3>1. Top \in Frames /\ num \in Nat
      BY <1>0, <2>1 DEF Frames
    <3>2. caller \in Frames
      BY <3>1 DEF Frames
    <3>3. inner \in Frames
      BY <2>1, <3>1 DEF Frames, Frame
    <3> QED
      BY <3>2, <3>3
  <2>3. Front(stack) \in Seq(Frames)
    BY <2>1 DEF StackOK, Front
  <2>4. stack' = Append(Front(stack) \o <<caller>>, inner)
    BY <1>6 DEF Continuation
  <2>5. stack' \in Seq(Frames) /\ stack' # <<>> /\ Last(stack') = inner
    BY <2>2, <2>3, <2>4 DEF Last
  <2>6. held' = <<Msg.to>>
    BY <1>6, <2>1, NavigateOnly DEF Continuation, OneMapping
  <2>7. UNCHANGED <<header, pc, Frames>>
    BY <1>6 DEF Continuation, Frames
  <2>8. Top'.block = Msg.to
    BY <2>5 DEF Top, Frame
  <2> QED
    BY <2>1, <2>5, <2>6, <2>7, <2>8 DEF StackOK, OneMapping
<1>7. CASE NextMessage
  <2> DEFINE f == [Top EXCEPT !.switched = FALSE, !.bytes_read = @ + 1, !.message_num = @ + 1]
  <2>1. f \in Frames /\ f.block = Top.block
    <3>1. Top \in Frames
      BY <1>0, <1>7 DEF NextMessage
    <3>2. Top.bytes_read + 1 \in Nat /\ Top.message_num + 1 \in Nat
      BY <3>1 DEF Frames
    <3> QED
      BY <3>1, <3>2, Zenon DEF Frames
  <2>2. pc = "walk" /\ SetTop(f) /\ UNCHANGED <<header, pc, held>>
    BY <1>7 DEF NextMessage
  <2> HIDE DEF f
  <2> QED
    BY <2>1, <2>2, TopKept
<1>8. CASE BlockRead
  <2>1. (Top.message_num - 1) % NumMsgsMod \in Nat
    BY <1>0, <1>8, HeaderAssumption DEF BlockRead, Frames
  <2> QED
    BY <1>8, <2>1, ReturnKeeps DEF BlockRead
<1>9. CASE GiveUp
  BY <1>9, ReturnKeeps, HeaderAssumption DEF GiveUp, StackOK
<1>10. CASE FillRest
  BY <1>10 DEF FillRest, StackOK, OneMapping, Frames
<1>11. CASE Filled \/ UNCHANGED headerVars
  BY <1>11 DEF Filled, headerVars, StackOK, OneMapping, Top, Frames
<1> QED
  BY <1>1, <1>2, <1>3, <1>4, <1>5, <1>6, <1>7, <1>8, <1>9, <1>10, <1>11 DEF HeaderNext, Interpret

(* Whatever the header, interpretMessages has exactly the block of its     *)
(* innermost call mapped, and fillObject leaves nothing mapped.            *)
THEOREM OneMappingInvariant == HeaderSpec => []OneMapping
<1>1. WalkInv => OneMapping
  BY DEF WalkInv
<1> QED
  BY WalkInit, WalkStep, <1>1, PTL DEF HeaderSpec

-----------------------------------------------------------------------------
(* The order of a header, level by level: row has what is behind each      *)
(* block one level further down.                                           *)
Entry(h, d, row, b, i) ==
    <<<<b, i>>>> \o (IF h.blocks[b][i].kind = "cont" /\ d > 0 THEN row[h.blocks[b][i].to] ELSE <<>>)
Entries(h, d, row, b) == [i \in 1 .. Len(h.blocks[b]) |-> Entry(h, d, row, b, i)]
Row(h, d, row) == [b \in DOMAIN h.blocks |-> FlattenSeq(Entries(h, d, row, b))]
Walk(h) == CHOOSE walk : walk = [d \in 0 .. Len(h.blocks) |-> Row(h, d, walk[d - 1])]
OrderOf(h) == Walk(h)[Len(h.blocks)][1]

Places(h) == (DOMAIN h.blocks) \X Nat
Rows(h) == [DOMAIN h.blocks -> Seq(Places(h))]

LEMMA OrderIs == Order = OrderOf(header)
BY DEF Order, OrderOf, Walk, Row, Entries, Entry, Block

(* What the assumption says of one header.                                 *)
LEMMA HeaderIs ==
    ASSUME NEW h \in Headers
    PROVE  /\ Len(h.blocks) \in Nat \ {0} /\ DOMAIN h.blocks = 1 .. Len(h.blocks)
           /\ h.num_msgs \in 0 .. NumMsgsMod - 1 /\ NumMsgsMod \in Nat \ {0}
           /\ \A b \in DOMAIN h.blocks :
                /\ Len(h.blocks[b]) \in Nat /\ DOMAIN h.blocks[b] = 1 .. Len(h.blocks[b])
                /\ \A i \in 1 .. Len(h.blocks[b]) :
                    /\ h.blocks[b][i].kind \in Kinds
                    /\ h.blocks[b][i].kind = "cont" => h.blocks[b][i].to \in DOMAIN h.blocks
<1>1. /\ h.num_msgs \in 0 .. NumMsgsMod - 1 /\ NumMsgsMod \in Nat \ {0}
      /\ h.blocks \in Seq(ToSet(h.blocks)) /\ h.blocks # <<>>
      /\ \A b \in DOMAIN h.blocks :
          /\ h.blocks[b] \in Seq(ToSet(h.blocks[b]))
          /\ \A msg \in ToSet(h.blocks[b]) :
              msg.kind \in Kinds /\ (msg.kind = "cont" => msg.to \in DOMAIN h.blocks)
  BY HeaderAssumption
<1>2. ASSUME NEW b \in DOMAIN h.blocks
      PROVE  /\ Len(h.blocks[b]) \in Nat /\ DOMAIN h.blocks[b] = 1 .. Len(h.blocks[b])
             /\ \A i \in 1 .. Len(h.blocks[b]) :
                    /\ h.blocks[b][i].kind \in Kinds
                    /\ h.blocks[b][i].kind = "cont" => h.blocks[b][i].to \in DOMAIN h.blocks
  <2>1. h.blocks[b] \in Seq(ToSet(h.blocks[b]))
    BY <1>1
  <2>2. Len(h.blocks[b]) \in Nat /\ DOMAIN h.blocks[b] = 1 .. Len(h.blocks[b])
    BY <2>1
  <2>3. \A i \in 1 .. Len(h.blocks[b]) : h.blocks[b][i] \in ToSet(h.blocks[b])
    BY <2>2 DEF ToSet
  <2> QED
    BY <1>1, <2>2, <2>3
<1>3. Len(h.blocks) \in Nat \ {0} /\ DOMAIN h.blocks = 1 .. Len(h.blocks)
  <2> DEFINE bs == h.blocks
  <2>1. bs \in Seq(ToSet(bs)) /\ bs # <<>>
    BY <1>1
  <2> HIDE DEF bs
  <2>2. Len(bs) \in Nat \ {0} /\ DOMAIN bs = 1 .. Len(bs)
    BY <2>1
  <2> QED
    BY <2>2 DEF bs
<1> QED
  BY <1>1, <1>2, <1>3

LEMMA OneEntry ==
    ASSUME NEW D, NEW x \in D
    PROVE  <<x>> \in Seq(D) /\ Len(<<x>>) = 1 /\ <<x>>[1] = x
OBVIOUS

LEMMA EntryParts ==
    ASSUME NEW D, NEW x \in D, NEW b \in Seq(D), NEW c, c = <<x>> \o b
    PROVE  /\ Len(c) = 1 + Len(b) /\ c[1] = x /\ Len(b) \in Nat
           /\ \A j \in 1 .. Len(b) : c[1 + j] = b[j]
<1> DEFINE a == <<x>>
<1>1. a \in Seq(D) /\ Len(a) = 1 /\ a[1] = x /\ c = a \o b
  OBVIOUS
<1> HIDE DEF a
<1>2. /\ Len(c) = Len(a) + Len(b)
      /\ \A j \in 1 .. Len(a) : c[j] = a[j]
      /\ \A j \in 1 .. Len(b) : c[Len(a) + j] = b[j]
  BY <1>1, ConcatParts
<1>3. Len(b) \in Nat
  OBVIOUS
<1> QED
  BY <1>1, <1>2, <1>3

LEMMA PlaceTyped ==
    ASSUME NEW h \in Headers, NEW b \in DOMAIN h.blocks, NEW i \in 1 .. Len(h.blocks[b])
    PROVE  <<b, i>> \in Places(h)
<1>1. i \in Nat
  BY HeaderIs
<1> QED
  BY <1>1 DEF Places

(* A level is made of the one below; the lowest has none below.            *)
LEMMA EntriesAre ==
    ASSUME NEW h \in Headers, NEW d \in Nat, NEW row, d = 0 \/ row \in Rows(h), NEW b \in DOMAIN h.blocks
    PROVE  /\ Entries(h, d, row, b) \in Seq(Seq(Places(h)))
           /\ Len(Entries(h, d, row, b)) = Len(h.blocks[b])
<1>1. ASSUME NEW i \in 1 .. Len(h.blocks[b])
      PROVE  Entry(h, d, row, b, i) \in Seq(Places(h))
  <2>1. <<<<b, i>>>> \in Seq(Places(h))
    BY PlaceTyped, OneEntry
  <2> DEFINE below == IF h.blocks[b][i].kind = "cont" /\ d > 0 THEN row[h.blocks[b][i].to] ELSE <<>>
  <2>2. below \in Seq(Places(h))
    BY HeaderIs DEF Rows
  <2> HIDE DEF below
  <2>3. <<<<b, i>>>> \o below \in Seq(Places(h))
    BY <2>1, <2>2
  <2> QED
    BY <2>3 DEF Entry, below
<1>2. Len(h.blocks[b]) \in Nat
  BY HeaderIs
<1> QED
  BY <1>1, <1>2 DEF Entries

LEMMA RowTyped ==
    ASSUME NEW h \in Headers, NEW d \in Nat, NEW row, d = 0 \/ row \in Rows(h)
    PROVE  Row(h, d, row) \in Rows(h)
<1>1. \A b \in DOMAIN h.blocks : FlattenSeq(Entries(h, d, row, b)) \in Seq(Places(h))
  BY EntriesAre, FlattenPlaces
<1> QED
  BY <1>1 DEF Row, Rows

LEMMA LowestRow ==
    ASSUME NEW h, NEW r, NEW s
    PROVE  Row(h, 0, r) = Row(h, 0, s)
BY DEF Row, Entries, Entry

(* The levels exist, so that Walk is made of them.                         *)
LEMMA WalkIs ==
    ASSUME NEW h \in Headers, NEW d \in 0 .. Len(h.blocks)
    PROVE  Walk(h)[d] = Row(h, d, Walk(h)[d - 1]) /\ Walk(h)[d] \in Rows(h)
<1> DEFINE N == Len(h.blocks)
           S == Rows(h)
           a == Row(h, 0, <<>>)
           step == [x \in (1 .. N) \X S |-> Row(h, x[1], x[2])]
           Goes(w) == w = [e \in 0 .. N |-> Row(h, e, w[e - 1])]
           W == CHOOSE w : Goes(w)
<1>1. N \in Nat /\ a \in S
  BY HeaderIs, RowTyped
<1>2. step \in [(1 .. N) \X S -> S]
  <2>1. \A x \in (1 .. N) \X S : x[1] \in Nat /\ x[2] \in S
    OBVIOUS
  <2> QED
    BY <2>1, RowTyped
<1>3. PICK f : f \in Walks(N, S, a, step)
  <2> HIDE DEF N, S, a, step
  <2> QED
    BY <1>1, <1>2, WalkExists
<1>4. /\ f \in [0 .. N -> S] /\ f[0] = a
      /\ \A e \in 1 .. N : f[e] = Row(h, e, f[e - 1])
  <2>1. f \in [0 .. N -> S] /\ f[0] = a /\ \A e \in 1 .. N : f[e] = step[<<e, f[e - 1]>>]
    BY <1>3 DEF Walks
  <2>2. ASSUME NEW e \in 1 .. N PROVE f[e] = Row(h, e, f[e - 1])
    <3>1. f[e - 1] \in S
      BY <1>1, <2>1
    <3>2. step[<<e, f[e - 1]>>] = Row(h, e, f[e - 1])
      BY <3>1
    <3> QED
      BY <2>1, <3>2
  <2> QED
    BY <2>1, <2>2
<1>5. Goes(f)
  <2> HIDE DEF N, S
  <2>1. ASSUME NEW e \in 0 .. N PROVE f[e] = Row(h, e, f[e - 1])
    <3>1. CASE e = 0
      BY <1>4, <3>1, LowestRow
    <3>2. CASE e \in 1 .. N
      BY <1>4, <3>2
    <3> QED
      BY <1>1, <3>1, <3>2
  <2> QED
    BY <1>4, <2>1
<1>6. Goes(W)
  <2> HIDE DEF Goes
  <2> QED
    BY <1>5
<1>7. Walk(h) = W
  BY DEF Walk
<1> HIDE DEF W
<1>8. \A e \in 0 .. N : W[e] = Row(h, e, W[e - 1])
  BY <1>6
<1> DEFINE T == {e \in Nat : e <= N => W[e] \in S}
<1> HIDE DEF N, Goes, a, step
<1>9. 0 \in T
  BY <1>1, <1>8, RowTyped
<1>10. ASSUME NEW e \in Nat, e \in T PROVE e + 1 \in T
  <2>1. ASSUME e + 1 <= N PROVE W[e + 1] \in S
    <3>1. e + 1 \in 0 .. N /\ (e + 1) - 1 = e /\ e + 1 \in Nat
      BY <1>1, <2>1
    <3>2. W[e] \in S
      BY <1>1, <1>10, <2>1
    <3>3. Row(h, e + 1, W[e]) \in S
      BY <3>1, <3>2, RowTyped
    <3> QED
      BY <1>8, <3>1, <3>3
  <2> QED
    BY <2>1
<1> HIDE DEF T
<1>11. Nat \subseteq T
  BY <1>9, <1>10, InductionOnSet
<1> QED
  BY <1>1, <1>7, <1>8, <1>11 DEF T, N

(* How many messages there are behind block b, d levels down, up to the    *)
(* i-th message of b and what that leads to.                               *)
Behind(h, d, b, i) ==
    IF h.blocks[b][i].kind = "cont" /\ d > 0 THEN Len(Walk(h)[d - 1][h.blocks[b][i].to]) ELSE 0
Counts(h, d, b) ==
    {u \in [0 .. Len(h.blocks[b]) -> Nat] :
        /\ u[0] = 0 /\ u[Len(h.blocks[b])] = Len(Walk(h)[d][b])
        /\ \A i \in 1 .. Len(h.blocks[b]) :
            /\ u[i] = u[i - 1] + 1 + Behind(h, d, b, i)
            /\ Walk(h)[d][b][u[i - 1] + 1] = <<b, i>>
            /\ h.blocks[b][i].kind = "cont" /\ d > 0 =>
                \A j \in 1 .. Behind(h, d, b, i) :
                    Walk(h)[d][b][u[i - 1] + 1 + j] = Walk(h)[d - 1][h.blocks[b][i].to][j]
        /\ \A i, l \in 0 .. Len(h.blocks[b]) : i <= l => u[i] <= u[l]}
Upto(h, d, b) == CHOOSE u : u \in Counts(h, d, b)

LEMMA UptoCounts ==
    ASSUME NEW h \in Headers, NEW d \in 0 .. Len(h.blocks), NEW b \in DOMAIN h.blocks
    PROVE  /\ Walk(h)[d][b] \in Seq(Places(h)) /\ Len(Walk(h)[d][b]) \in Nat
           /\ Upto(h, d, b) \in Counts(h, d, b)
<1> DEFINE row == Walk(h)[d - 1]
           ss == Entries(h, d, row, b)
           w == Walk(h)[d][b]
           B == h.blocks[b]
<1>1. /\ Len(B) \in Nat /\ Len(h.blocks) \in Nat
      /\ \A i \in 1 .. Len(B) : B[i].kind = "cont" => B[i].to \in DOMAIN h.blocks
  BY HeaderIs
<1>2. d \in Nat /\ (d = 0 \/ row \in Rows(h))
  <2>1. d > 0 => d - 1 \in 0 .. Len(h.blocks)
    BY <1>1
  <2> QED
    BY <1>1, <2>1, WalkIs
<1>3. w = FlattenSeq(ss)
  BY WalkIs DEF Row
<1> HIDE DEF row
<1>4. ss \in Seq(Seq(Places(h))) /\ Len(ss) = Len(B)
  BY <1>2, EntriesAre
<1>5. ASSUME NEW i \in 1 .. Len(B)
      PROVE  /\ Len(ss[i]) = 1 + Behind(h, d, b, i) /\ Behind(h, d, b, i) \in Nat
             /\ ss[i][1] = <<b, i>>
             /\ B[i].kind = "cont" /\ d > 0 =>
                  \A j \in 1 .. Behind(h, d, b, i) : ss[i][1 + j] = row[B[i].to][j]
  <2> DEFINE e == <<<<b, i>>>>
             below == IF B[i].kind = "cont" /\ d > 0 THEN row[B[i].to] ELSE <<>>
  <2>1. ss[i] = e \o below
    BY DEF Entries, Entry
  <2>2. below \in Seq(Places(h)) /\ e \in Seq(Places(h)) /\ Len(e) = 1 /\ e[1] = <<b, i>>
    <3>1. below \in Seq(Places(h))
      BY <1>1, <1>2 DEF Rows
    <3> QED
      BY <3>1, PlaceTyped, OneEntry
  <2>3. Len(below) = Behind(h, d, b, i)
    BY DEF Behind, row
  <2>4. B[i].kind = "cont" /\ d > 0 => below = row[B[i].to]
    OBVIOUS
  <2> HIDE DEF below, ss, B
  <2>5. /\ Len(ss[i]) = 1 + Len(below) /\ ss[i][1] = <<b, i>>
        /\ \A j \in 1 .. Len(below) : ss[i][1 + j] = below[j]
        /\ Len(below) \in Nat
    <3> DEFINE x == <<b, i>>
               y == ss[i]
    <3>1. x \in Places(h) /\ below \in Seq(Places(h)) /\ y = <<x>> \o below
      BY <2>1, <2>2, PlaceTyped
    <3> HIDE DEF x, y
    <3>2. /\ Len(y) = 1 + Len(below) /\ y[1] = x /\ Len(below) \in Nat
          /\ \A j \in 1 .. Len(below) : y[1 + j] = below[j]
      BY <3>1, EntryParts
    <3> QED
      BY <3>2 DEF x, y
  <2> QED
    BY <2>3, <2>4, <2>5
<1>6. PICK u : u \in FlatPlaces(ss)
  BY <1>4, FlattenPlaces
<1>7. w \in Seq(Places(h))
  BY <1>3, <1>4, FlattenPlaces
<1>8. u \in Counts(h, d, b)
  <2>1. /\ u \in [0 .. Len(B) -> Nat] /\ u[0] = 0 /\ u[Len(B)] = Len(w)
        /\ \A i \in 1 .. Len(B) :
            /\ u[i] = u[i - 1] + Len(ss[i])
            /\ \A j \in 1 .. Len(ss[i]) : w[u[i - 1] + j] = ss[i][j]
        /\ \A i, l \in 0 .. Len(B) : i <= l => u[i] <= u[l]
    BY <1>3, <1>4, <1>6 DEF FlatPlaces
  <2> HIDE DEF w, ss
  <2>2. ASSUME NEW i \in 1 .. Len(B)
        PROVE  /\ u[i] = u[i - 1] + 1 + Behind(h, d, b, i)
               /\ w[u[i - 1] + 1] = <<b, i>>
               /\ B[i].kind = "cont" /\ d > 0 =>
                    \A j \in 1 .. Behind(h, d, b, i) : w[u[i - 1] + 1 + j] = row[B[i].to][j]
    <3> DEFINE n == Behind(h, d, b, i)
               v == u[i - 1]
    <3>1. v \in Nat /\ n \in Nat /\ u[i] = v + (1 + n) /\ Len(ss[i]) = 1 + n
      <4>1. i - 1 \in 0 .. Len(B)
        BY <1>1
      <4> QED
        BY <1>5, <2>1, <4>1
    <3>2. \A j \in 1 .. 1 + n : w[v + j] = ss[i][j]
      BY <2>1, <3>1
    <3>3. ss[i][1] = <<b, i>> /\ (B[i].kind = "cont" /\ d > 0 => \A j \in 1 .. n : ss[i][1 + j] = row[B[i].to][j])
      BY <1>5
    <3> HIDE DEF n, v, B
    <3>4. u[i] = v + 1 + n /\ w[v + 1] = <<b, i>>
      <4>1. u[i] = v + 1 + n /\ 1 \in 1 .. 1 + n
        BY <3>1
      <4>2. w[v + 1] = ss[i][1]
        BY <3>2, <4>1
      <4> QED
        BY <3>3, <4>1, <4>2
    <3>5. ASSUME B[i].kind = "cont", d > 0, NEW j \in 1 .. n PROVE w[v + 1 + j] = row[B[i].to][j]
      <4>1. 1 + j \in 1 .. 1 + n /\ v + (1 + j) = v + 1 + j
        BY <3>1
      <4> QED
        BY <3>2, <3>3, <3>5, <4>1
    <3> QED
      BY <3>4, <3>5 DEF n, v
  <2> QED
    BY <2>1, <2>2 DEF Counts, w, row
<1> HIDE DEF w
<1>9. Len(w) \in Nat
  BY <1>7
<1> QED
  BY <1>7, <1>8, <1>9 DEF Upto, w

-----------------------------------------------------------------------------
(* Where the calls are in the order of the header: the block of call k     *)
(* lies in it behind off[k], and call k + 1 is of the continuation that    *)
(* call k has come to.                                                     *)
Lvl(h, k) == Len(h.blocks) + 1 - k
Lies(h, o, d, b) ==
    /\ o \in Nat /\ d \in 0 .. Len(h.blocks) /\ b \in DOMAIN h.blocks
    /\ o + Len(Walk(h)[d][b]) <= Len(OrderOf(h))
    /\ \A j \in 1 .. Len(Walk(h)[d][b]) : OrderOf(h)[o + j] = Walk(h)[d][b][j]
FrameOK(h, f) ==
    /\ f.block \in DOMAIN h.blocks /\ f.bytes_read \in 0 .. Len(h.blocks[f.block])
    /\ f.switched \in BOOLEAN
    /\ f.switched => f.bytes_read < Len(h.blocks[f.block])
Before(h, k, f) == Upto(h, Lvl(h, k), f.block)[f.bytes_read]
Calls(h, f, g) ==
    /\ f.switched
    /\ h.blocks[f.block][f.bytes_read + 1].kind = "cont"
    /\ h.blocks[f.block][f.bytes_read + 1].to = g.block

Spans(h, st, off) ==
    /\ Len(st) \in 1 .. Len(h.blocks) + 1
    /\ off[1] = 0 /\ st[1].block = 1
    /\ \A k \in 1 .. Len(st) : FrameOK(h, st[k]) /\ Lies(h, off[k], Lvl(h, k), st[k].block)
    /\ \A k \in 1 .. Len(st) - 1 : Calls(h, st[k], st[k + 1]) /\ off[k + 1] = off[k] + Before(h, k, st[k]) + 1
    /\ \A k, l \in 1 .. Len(st) : k < l => off[k] + Before(h, k, st[k]) < off[l]

(* the messages passed, the one the innermost call is at among them when   *)
(* it is dealt with                                                        *)
Turns(f) == IF f.switched THEN f.bytes_read + 1 ELSE f.bytes_read
Reached(h, st, off) ==
    off[Len(st)] + Upto(h, Lvl(h, Len(st)), st[Len(st)].block)[Turns(st[Len(st)])]

(* The order begins with block 1.                                          *)
LEMMA OrderLies ==
    ASSUME NEW h \in Headers
    PROVE  /\ Lies(h, 0, Len(h.blocks), 1)
           /\ OrderOf(h) \in Seq(Places(h)) /\ Len(OrderOf(h)) \in Nat
           /\ OrderOf(h) = Walk(h)[Len(h.blocks)][1]
<1>1. Len(h.blocks) \in 0 .. Len(h.blocks) /\ 1 \in DOMAIN h.blocks
  BY HeaderIs
<1>2. OrderOf(h) \in Seq(Places(h)) /\ Len(OrderOf(h)) \in Nat
  BY <1>1, UptoCounts DEF OrderOf
<1> QED
  BY <1>1, <1>2 DEF Lies, OrderOf

(* Where a message is.                                                     *)
Seated(h, o, d, b, i, u) ==
    /\ u[i - 1] \in Nat /\ u[i] \in Nat /\ u[i] >= u[i - 1] + 1
    /\ o + u[i - 1] + 1 \in 1 .. Len(OrderOf(h))
    /\ OrderOf(h)[o + u[i - 1] + 1] = <<b, i>>
    /\ u[i] = u[i - 1] + 1 + Behind(h, d, b, i) /\ Behind(h, d, b, i) \in Nat
    /\ h.blocks[b][i].kind # "cont" => u[i] = u[i - 1] + 1
    /\ o + u[i] <= Len(OrderOf(h))

LEMMA MsgPlace ==
    ASSUME NEW h \in Headers, NEW o, NEW d, NEW b, Lies(h, o, d, b), NEW i \in 1 .. Len(h.blocks[b])
    PROVE  Seated(h, o, d, b, i, Upto(h, d, b))
<1> DEFINE u == Upto(h, d, b)
           L == Len(h.blocks[b])
           w == Walk(h)[d][b]
           x == u[i - 1]
           y == u[i]
           m == Behind(h, d, b, i)
           W == Len(w)
           Z == Len(OrderOf(h))
<1>1. L \in Nat /\ W \in Nat /\ o \in Nat /\ o + W <= Z /\ Z \in Nat
  BY HeaderIs, UptoCounts, OrderLies DEF Lies
<1>2. u \in Counts(h, d, b)
  BY UptoCounts DEF Lies
<1>3. /\ u \in [0 .. L -> Nat] /\ u[L] = W
      /\ y = x + 1 + m
      /\ w[x + 1] = <<b, i>>
      /\ \A p, q \in 0 .. L : p <= q => u[p] <= u[q]
  BY <1>2 DEF Counts
<1>4. m \in Nat
  <2>1. CASE h.blocks[b][i].kind = "cont" /\ d > 0
    <3>1. h.blocks[b][i].to \in DOMAIN h.blocks /\ d - 1 \in 0 .. Len(h.blocks)
      BY <2>1, HeaderIs DEF Lies
    <3> QED
      BY <2>1, <3>1, UptoCounts DEF Behind
  <2>2. CASE ~ (h.blocks[b][i].kind = "cont" /\ d > 0)
    BY <2>2 DEF Behind
  <2> QED
    BY <2>1, <2>2
<1>5. i - 1 \in 0 .. L /\ i \in 0 .. L /\ L \in 0 .. L /\ i <= L
  <2> HIDE DEF L
  <2>1. i \in 1 .. L
    BY DEF L
  <2> QED
    BY <1>1, <2>1
<1>6. x \in Nat /\ y \in Nat /\ y <= W
  <2> HIDE DEF u, L, W
  <2> QED
    BY <1>3, <1>5
<1>7. h.blocks[b][i].kind # "cont" => m = 0
  BY DEF Behind
<1> HIDE DEF x, y, W, Z, m
<1>8. /\ y >= x + 1 /\ o + y <= Z /\ x + 1 \in 1 .. W
      /\ o + (x + 1) = o + x + 1 /\ o + x + 1 \in 1 .. Z
      /\ h.blocks[b][i].kind # "cont" => y = x + 1
  BY <1>1, <1>3, <1>4, <1>6, <1>7
<1>9. OrderOf(h)[o + x + 1] = <<b, i>>
  <2>1. OrderOf(h)[o + (x + 1)] = w[x + 1]
    BY <1>8 DEF Lies, W
  <2> QED
    BY <1>3, <1>8, <2>1
<1> QED
  BY <1>3, <1>4, <1>6, <1>8, <1>9 DEF Seated, x, y, m, Z

(* No block is gone to again while it is walked, or its message with the   *)
(* continuation would be in the order twice; so the calls are no more than *)
(* the blocks.                                                             *)
LEMMA BlocksApart ==
    ASSUME NEW h \in Headers, NEW st, NEW off, Spans(h, st, off), IsInjective(OrderOf(h)),
           NEW k \in 1 .. Len(st), NEW l \in 1 .. Len(st), k < l
    PROVE  st[k].block # st[l].block
<1> SUFFICES ASSUME st[k].block = st[l].block PROVE FALSE
  OBVIOUS
<1> DEFINE b == st[k].block
           i == st[k].bytes_read + 1
           p == off[k] + Upto(h, Lvl(h, k), b)[i - 1] + 1
           q == off[l] + Upto(h, Lvl(h, l), b)[i - 1] + 1
<1>1. k \in 1 .. Len(st) - 1 /\ Len(st) \in Nat
  BY DEF Spans
<1>2. FrameOK(h, st[k]) /\ st[k].switched /\ b \in DOMAIN h.blocks /\ Len(h.blocks[b]) \in Nat
  BY <1>1, HeaderIs DEF Spans, Calls, FrameOK
<1>3. i \in 1 .. Len(h.blocks[b]) /\ i - 1 = st[k].bytes_read
  BY <1>2 DEF FrameOK
<1>4. Lies(h, off[k], Lvl(h, k), b) /\ Lies(h, off[l], Lvl(h, l), b)
  BY DEF Spans
<1>5. /\ p \in 1 .. Len(OrderOf(h)) /\ OrderOf(h)[p] = <<b, i>>
      /\ q \in 1 .. Len(OrderOf(h)) /\ OrderOf(h)[q] = <<b, i>>
      /\ Upto(h, Lvl(h, l), b)[i - 1] \in Nat /\ off[l] \in Nat
      /\ Upto(h, Lvl(h, k), b)[i - 1] \in Nat /\ off[k] \in Nat
  <2> HIDE DEF b, i
  <2>1. ASSUME NEW m \in {k, l}
        PROVE  off[m] \in Nat /\ Seated(h, off[m], Lvl(h, m), b, i, Upto(h, Lvl(h, m), b))
    <3>1. Lies(h, off[m], Lvl(h, m), b)
      BY <1>4
    <3>2. off[m] \in Nat
      BY <3>1 DEF Lies
    <3> QED
      BY <1>3, <3>1, <3>2, MsgPlace
  <2> QED
    BY <2>1 DEF Seated
<1>6. off[k] + Upto(h, Lvl(h, k), b)[i - 1] < off[l]
  BY <1>3 DEF Spans, Before
<1>7. DOMAIN OrderOf(h) = 1 .. Len(OrderOf(h))
  BY OrderLies
<1> HIDE DEF b, i
<1>8. p # q
  <2> DEFINE x == Upto(h, Lvl(h, k), b)[i - 1]
             y == Upto(h, Lvl(h, l), b)[i - 1]
             z == off[k]
             v == off[l]
  <2>1. x \in Nat /\ y \in Nat /\ z \in Nat /\ v \in Nat /\ z + x < v
    BY <1>5, <1>6
  <2> HIDE DEF x, y, z, v
  <2>2. z + x + 1 # v + y + 1
    BY <2>1
  <2> QED
    BY <2>2 DEF x, y, z, v
<1> HIDE DEF p, q
<1> QED
  BY <1>5, <1>7, <1>8 DEF IsInjective

LEMMA FewCalls ==
    ASSUME NEW h \in Headers, NEW st, NEW off, Spans(h, st, off), IsInjective(OrderOf(h))
    PROVE  Len(st) <= Len(h.blocks)
<1> DEFINE n == Len(st)
           N == Len(h.blocks)
           f == [k \in 1 .. n |-> st[k].block]
<1>1. n \in Nat /\ N \in Nat /\ DOMAIN h.blocks = 1 .. N
  BY HeaderIs DEF Spans
<1>2. f \in [1 .. n -> 1 .. N]
  BY <1>1 DEF Spans, FrameOK
<1>3. ASSUME NEW k \in 1 .. n, NEW l \in 1 .. n, f[k] = f[l] PROVE k = l
  <2>1. k < l => f[k] # f[l]
    BY BlocksApart
  <2>2. l < k => f[k] # f[l]
    BY BlocksApart
  <2> QED
    BY <1>1, <1>3, <2>1, <2>2
<1> HIDE DEF f, n, N
<1>4. IsFiniteSet(1 .. n) /\ Cardinality(1 .. n) = n /\ IsFiniteSet(1 .. N) /\ Cardinality(1 .. N) = N
  <2>1. ASSUME NEW m \in Nat PROVE IsFiniteSet(1 .. m) /\ Cardinality(1 .. m) = m
    <3>1. IsFiniteSet(1 .. m)
      BY FS_Interval
    <3>2. Cardinality(1 .. m) = IF 1 > m THEN 0 ELSE m - 1 + 1
      BY FS_Interval
    <3> QED
      BY <3>1, <3>2
  <2> QED
    BY <1>1, <2>1
<1>5. ~ (N < n)
  <2> SUFFICES ASSUME N < n PROVE FALSE
    OBVIOUS
  <2>1. \E k, l \in 1 .. n : k # l /\ f[k] = f[l]
    BY <1>2, <1>4, FS_PigeonHole
  <2> QED
    BY <1>3, <2>1
<1>6. n <= N
  BY <1>1, <1>5
<1> QED
  BY <1>6 DEF n, N

(* A turn of the innermost call: it stays on its block.                    *)
LEMMA TopGoes ==
    ASSUME NEW h \in Headers, NEW st, NEW off, Spans(h, st, off),
           NEW n, n = Len(st), NEW g, FrameOK(h, g), g.block = st[n].block,
           NEW su, Len(su) = n, su[n] = g, \A k \in 1 .. n - 1 : su[k] = st[k]
    PROVE  /\ Spans(h, su, off)
           /\ Reached(h, st, off) = off[n] + Upto(h, Lvl(h, n), g.block)[Turns(st[n])]
           /\ Reached(h, su, off) = off[n] + Upto(h, Lvl(h, n), g.block)[Turns(g)]
<1>1. n \in Nat \ {0} /\ n \in 1 .. n
  BY HeaderIs DEF Spans
<1>2. ASSUME NEW k \in 1 .. n
      PROVE  FrameOK(h, su[k]) /\ Lies(h, off[k], Lvl(h, k), su[k].block) /\ su[k].block = st[k].block
  <2>1. FrameOK(h, st[k]) /\ Lies(h, off[k], Lvl(h, k), st[k].block)
    BY DEF Spans
  <2>2. k = n \/ k \in 1 .. n - 1
    BY <1>1
  <2> QED
    BY <2>1, <2>2
<1>3. ASSUME NEW k \in 1 .. n - 1
      PROVE  Calls(h, su[k], su[k + 1]) /\ off[k + 1] = off[k] + Before(h, k, su[k]) + 1
  <2>1. Calls(h, st[k], st[k + 1]) /\ off[k + 1] = off[k] + Before(h, k, st[k]) + 1
    BY DEF Spans
  <2>2. su[k] = st[k] /\ k + 1 \in 1 .. n
    BY <1>1
  <2>3. su[k + 1].block = st[k + 1].block
    BY <1>2, <2>2
  <2> QED
    BY <2>1, <2>2, <2>3 DEF Calls
<1>4. ASSUME NEW k \in 1 .. n, NEW l \in 1 .. n, k < l
      PROVE  off[k] + Before(h, k, su[k]) < off[l]
  <2>1. su[k] = st[k]
    BY <1>1, <1>4
  <2> QED
    BY <1>4, <2>1 DEF Spans
<1>5. Len(su) \in 1 .. Len(h.blocks) + 1 /\ off[1] = 0 /\ su[1].block = 1
  <2>1. 1 \in 1 .. n
    BY <1>1
  <2> QED
    BY <1>2, <2>1 DEF Spans
<1> QED
  BY <1>2, <1>3, <1>4, <1>5 DEF Spans, Reached

(* Of what the innermost call has passed and what it is at.                *)
LEMMA TopPlace ==
    ASSUME NEW h \in Headers, NEW st, NEW off, Spans(h, st, off), NEW n, n = Len(st)
    PROVE  /\ n \in Nat \ {0} /\ FrameOK(h, st[n]) /\ Lies(h, off[n], Lvl(h, n), st[n].block)
           /\ Reached(h, st, off) \in 0 .. Len(OrderOf(h))
           /\ Reached(h, st, off) <= off[n] + Len(Walk(h)[Lvl(h, n)][st[n].block])
           /\ Turns(st[n]) = Len(h.blocks[st[n].block]) =>
                Reached(h, st, off) = off[n] + Len(Walk(h)[Lvl(h, n)][st[n].block])
<1> DEFINE b == st[n].block
           d == Lvl(h, n)
           u == Upto(h, d, b)
           L == Len(h.blocks[b])
           t == Turns(st[n])
<1>1. /\ n \in Nat \ {0} /\ FrameOK(h, st[n]) /\ Lies(h, off[n], d, b)
      /\ b \in DOMAIN h.blocks /\ L \in Nat
  BY HeaderIs DEF Spans, FrameOK
<1>2. t \in 0 .. L
  BY <1>1 DEF FrameOK, Turns
<1>3. u \in Counts(h, d, b) /\ Len(Walk(h)[d][b]) \in Nat
  BY <1>1, UptoCounts DEF Lies
<1>4. /\ u \in [0 .. L -> Nat] /\ u[L] = Len(Walk(h)[d][b])
      /\ \A p, q \in 0 .. L : p <= q => u[p] <= u[q]
  BY <1>3 DEF Counts
<1>5. u[t] \in Nat /\ u[t] <= u[L]
  <2>1. L \in 0 .. L /\ t <= L
    BY <1>1, <1>2
  <2> QED
    BY <1>2, <1>4, <2>1
<1>6. off[n] \in Nat /\ off[n] + Len(Walk(h)[d][b]) <= Len(OrderOf(h)) /\ Len(OrderOf(h)) \in Nat
  BY <1>1, OrderLies DEF Lies
<1>7. Reached(h, st, off) = off[n] + u[t]
  BY DEF Reached
<1> HIDE DEF b, d, u, t, L
<1>8. off[n] + u[t] \in 0 .. Len(OrderOf(h)) /\ off[n] + u[t] <= off[n] + Len(Walk(h)[d][b])
  BY <1>3, <1>4, <1>5, <1>6
<1> QED
  BY <1>1, <1>4, <1>7, <1>8 DEF b, d, t, L

LEMMA FreshOK ==
    ASSUME NEW h \in Headers, NEW g, g.block \in DOMAIN h.blocks, g.bytes_read = 0, g.switched \in BOOLEAN, ~ g.switched
    PROVE  FrameOK(h, g)
<1>1. Len(h.blocks[g.block]) \in Nat
  BY HeaderIs
<1> QED
  BY <1>1 DEF FrameOK

(* Behind a continuation lies its block.                                   *)
LEMMA BelowLies ==
    ASSUME NEW h \in Headers, NEW o, NEW d, NEW b, Lies(h, o, d, b), NEW i \in 1 .. Len(h.blocks[b]),
           h.blocks[b][i].kind = "cont", d > 0
    PROVE  Lies(h, o + Upto(h, d, b)[i - 1] + 1, d - 1, h.blocks[b][i].to)
<1> DEFINE c == h.blocks[b][i].to
           u == Upto(h, d, b)
           w == Walk(h)[d][b]
           x == u[i - 1]
           y == u[i]
           m == Behind(h, d, b, i)
           W == Len(w)
           Z == Len(OrderOf(h))
           L == Len(h.blocks[b])
<1>1. /\ d - 1 \in 0 .. Len(h.blocks) /\ c \in DOMAIN h.blocks
      /\ o \in Nat /\ W \in Nat /\ Z \in Nat /\ L \in Nat /\ o + W <= Z
  <2>1. d \in 0 .. Len(h.blocks) /\ b \in DOMAIN h.blocks /\ o \in Nat /\ o + W <= Z
    BY DEF Lies
  <2>2. W \in Nat /\ Z \in Nat
    BY <2>1, UptoCounts, OrderLies
  <2>3. L \in Nat /\ c \in DOMAIN h.blocks /\ Len(h.blocks) \in Nat
    BY <2>1, HeaderIs
  <2>4. d - 1 \in 0 .. Len(h.blocks)
    BY <2>1, <2>3
  <2> HIDE DEF W, Z, L, c
  <2> QED
    BY <2>1, <2>2, <2>3, <2>4
<1>2. m = Len(Walk(h)[d - 1][c])
  BY DEF Behind
<1>3. Seated(h, o, d, b, i, u)
  BY MsgPlace
<1>4. x \in Nat /\ y \in Nat /\ m \in Nat /\ y = x + 1 + m /\ o + y <= Z
  BY <1>3 DEF Seated
<1>5. u \in Counts(h, d, b)
  BY UptoCounts DEF Lies
<1>6. /\ u[L] = W
      /\ \A j \in 1 .. m : w[x + 1 + j] = Walk(h)[d - 1][c][j]
      /\ \A p, q \in 0 .. L : p <= q => u[p] <= u[q]
  BY <1>5 DEF Counts
<1>7. y <= W
  <2>1. i \in 0 .. L /\ L \in 0 .. L /\ i <= L
    <3> HIDE DEF L
    <3>1. i \in 1 .. L
      BY DEF L
    <3> QED
      BY <1>1, <3>1
  <2> QED
    BY <1>6, <2>1
<1> HIDE DEF x, y, m, W, Z, w, c, u, L
<1>8. o + x + 1 \in Nat /\ o + x + 1 + m <= Z
  BY <1>1, <1>4
<1>9. ASSUME NEW j \in 1 .. m PROVE OrderOf(h)[o + x + 1 + j] = Walk(h)[d - 1][c][j]
  <2>1. x + 1 + j \in 1 .. W /\ o + (x + 1 + j) = o + x + 1 + j
    BY <1>1, <1>4, <1>7
  <2>2. OrderOf(h)[o + (x + 1 + j)] = w[x + 1 + j]
    BY <2>1 DEF Lies, W, w
  <2> QED
    BY <1>6, <2>1, <2>2
<1> QED
  BY <1>1, <1>2, <1>8, <1>9 DEF Lies, x, u, c, Z

(* A continuation is followed.                                             *)
Follows(h, st, n, f, g, su) ==
    /\ n = Len(st) /\ ~ st[n].switched /\ st[n].bytes_read < Len(h.blocks[st[n].block])
    /\ h.blocks[st[n].block][st[n].bytes_read + 1].kind = "cont"
    /\ f.block = st[n].block /\ f.bytes_read = st[n].bytes_read /\ f.switched \in BOOLEAN /\ f.switched
    /\ g.block = h.blocks[f.block][f.bytes_read + 1].to
    /\ g.bytes_read = 0 /\ g.switched \in BOOLEAN /\ ~ g.switched
    /\ Len(su) = n + 1 /\ su[n] = f /\ su[n + 1] = g /\ \A k \in 1 .. n - 1 : su[k] = st[k]
Opens(h, st, n, off, ou) ==
    ou[n + 1] = off[n] + Before(h, n, st[n]) + 1 /\ \A k \in 1 .. n : ou[k] = off[k]

LEMMA CallGoes ==
    ASSUME NEW h \in Headers, NEW st, NEW off, Spans(h, st, off), IsInjective(OrderOf(h)),
           NEW n, NEW f, NEW g, NEW su, NEW ou, Follows(h, st, n, f, g, su), Opens(h, st, n, off, ou)
    PROVE  /\ Spans(h, su, ou)
           /\ Reached(h, su, ou) = Reached(h, st, off) + 1
<1> DEFINE b == st[n].block
           i == st[n].bytes_read + 1
           d == Lvl(h, n)
           u == Upto(h, d, b)
           c == g.block
           x == Before(h, n, st[n])
<1>0. /\ n = Len(st) /\ ~ st[n].switched /\ st[n].bytes_read < Len(h.blocks[b])
      /\ h.blocks[b][i].kind = "cont"
      /\ f.block = b /\ f.bytes_read = st[n].bytes_read /\ f.switched \in BOOLEAN /\ f.switched
      /\ c = h.blocks[b][i].to
      /\ g.bytes_read = 0 /\ g.switched \in BOOLEAN /\ ~ g.switched
      /\ Len(su) = n + 1 /\ su[n] = f /\ su[n + 1] = g /\ \A k \in 1 .. n - 1 : su[k] = st[k]
      /\ ou[n + 1] = off[n] + x + 1 /\ \A k \in 1 .. n : ou[k] = off[k]
  BY DEF Follows, Opens
<1>1. n \in Nat \ {0} /\ FrameOK(h, st[n]) /\ Lies(h, off[n], d, b)
  BY <1>0, TopPlace
<1>2. b \in DOMAIN h.blocks /\ i \in 1 .. Len(h.blocks[b]) /\ i - 1 = st[n].bytes_read
  <2> DEFINE r == st[n].bytes_read
             l == Len(h.blocks[b])
  <2>1. b \in DOMAIN h.blocks /\ r \in 0 .. l
    BY <1>1 DEF FrameOK
  <2>2. l \in Nat /\ r < l /\ i = r + 1
    BY <1>0, <2>1, HeaderIs
  <2> HIDE DEF r, l, i
  <2>3. i \in 1 .. l /\ i - 1 = r
    BY <2>1, <2>2
  <2> QED
    BY <2>1, <2>3 DEF r, l
<1>3. Reached(h, st, off) = off[n] + x /\ x = u[i - 1]
  <2>1. Turns(st[n]) = st[n].bytes_read
    BY <1>0 DEF Turns
  <2> QED
    BY <1>0, <1>2, <2>1 DEF Reached, Before
<1>4. off[n] \in Nat /\ x \in Nat
  <2>1. Seated(h, off[n], d, b, i, u)
    BY <1>1, <1>2, MsgPlace
  <2> QED
    BY <1>1, <1>3, <2>1 DEF Seated, Lies
<1>5. d > 0 /\ d \in 0 .. Len(h.blocks) /\ Lvl(h, n + 1) = d - 1 /\ d - 1 \in 0 .. Len(h.blocks) /\ n <= Len(h.blocks)
  <2> DEFINE N == Len(h.blocks)
  <2>1. n \in Nat \ {0} /\ N \in Nat /\ n <= N /\ d = N + 1 - n /\ Lvl(h, n + 1) = N + 1 - (n + 1)
    BY <1>0, <1>1, FewCalls, HeaderIs DEF Lvl
  <2> HIDE DEF N, d
  <2>2. d > 0 /\ d \in 0 .. N /\ Lvl(h, n + 1) = d - 1 /\ d - 1 \in 0 .. N
    BY <2>1
  <2> QED
    BY <2>1, <2>2 DEF N
<1>6. c \in DOMAIN h.blocks
  BY <1>0, <1>2, HeaderIs
<1>7. Lies(h, ou[n + 1], Lvl(h, n + 1), c)
  <2>1. Lies(h, off[n] + u[i - 1] + 1, d - 1, h.blocks[b][i].to)
    <3>1. Lies(h, off[n], d, b) /\ i \in 1 .. Len(h.blocks[b]) /\ h.blocks[b][i].kind = "cont"
      BY <1>0, <1>1, <1>2
    <3>2. h \in Headers /\ d > 0
      BY <1>0, <1>5
    <3> HIDE DEF d, b, i
    <3>3. Lies(h, off[n] + Upto(h, d, b)[i - 1] + 1, d - 1, h.blocks[b][i].to)
      BY <3>1, <3>2, BelowLies
    <3> QED
      BY <3>3 DEF u
  <2> QED
    BY <1>0, <1>3, <1>5, <2>1
<1>8. FrameOK(h, f) /\ FrameOK(h, g)
  <2>1. FrameOK(h, f)
    BY <1>0, <1>1 DEF FrameOK
  <2> QED
    BY <1>0, <1>6, <2>1, FreshOK
<1>9. Calls(h, f, g) /\ Before(h, n, f) = x
  BY <1>0, <1>2 DEF Calls, Before
<1> HIDE DEF b, i, d, u, c, x
<1>10. ASSUME NEW k \in 1 .. n
       PROVE  /\ k \in 1 .. Len(st) /\ (k = n \/ (k \in 1 .. n - 1 /\ k + 1 \in 1 .. n))
              /\ FrameOK(h, su[k]) /\ su[k].block = st[k].block
              /\ Before(h, k, su[k]) = Before(h, k, st[k]) /\ ou[k] = off[k]
              /\ Lies(h, off[k], Lvl(h, k), st[k].block)
  <2>1. k = n \/ (k \in 1 .. n - 1 /\ k + 1 \in 1 .. n)
    BY <1>1
  <2>2. k \in 1 .. Len(st) /\ ou[k] = off[k]
    BY <1>0
  <2>3. FrameOK(h, st[k]) /\ Lies(h, off[k], Lvl(h, k), st[k].block)
    BY <2>2 DEF Spans
  <2>4. CASE k = n
    <3>1. su[k] = f /\ f.block = st[k].block
      BY <1>0, <2>4 DEF b
    <3>2. Before(h, k, f) = Before(h, k, st[k])
      BY <1>9, <2>4 DEF x
    <3> QED
      BY <1>8, <2>2, <2>3, <2>4, <3>1, <3>2
  <2>5. CASE k \in 1 .. n - 1 /\ k + 1 \in 1 .. n
    <3>1. su[k] = st[k]
      BY <1>0, <2>5
    <3> QED
      BY <2>2, <2>3, <2>5, <3>1
  <2> QED
    BY <2>1, <2>4, <2>5
<1>11. ASSUME NEW k \in 1 .. n + 1
       PROVE  FrameOK(h, su[k]) /\ Lies(h, ou[k], Lvl(h, k), su[k].block)
  <2>1. k = n + 1 \/ k \in 1 .. n
    BY <1>1
  <2>2. CASE k = n + 1
    <3>1. su[k] = g /\ ou[k] = ou[n + 1] /\ Lvl(h, k) = Lvl(h, n + 1)
      BY <1>0, <2>2
    <3> QED
      BY <1>7, <1>8, <3>1 DEF c
  <2>3. CASE k \in 1 .. n
    BY <1>10, <2>3
  <2> QED
    BY <2>1, <2>2, <2>3
<1>12. ASSUME NEW k \in 1 .. n
       PROVE  Calls(h, su[k], su[k + 1]) /\ ou[k + 1] = ou[k] + Before(h, k, su[k]) + 1
  <2>1. CASE k = n
    <3>1. su[k] = f /\ su[k + 1] = g /\ ou[k + 1] = off[k] + x + 1 /\ ou[k] = off[k]
      BY <1>0, <2>1
    <3> QED
      BY <1>9, <2>1, <3>1
  <2>2. CASE k # n
    <3>1. k \in 1 .. n - 1 /\ k + 1 \in 1 .. n
      BY <1>10, <2>2
    <3>2. su[k] = st[k] /\ ou[k] = off[k] /\ ou[k + 1] = off[k + 1] /\ su[k + 1].block = st[k + 1].block
      BY <1>0, <1>10, <3>1
    <3>3. Calls(h, st[k], st[k + 1]) /\ off[k + 1] = off[k] + Before(h, k, st[k]) + 1
      BY <1>0, <3>1 DEF Spans
    <3> QED
      BY <3>2, <3>3 DEF Calls
  <2> QED
    BY <2>1, <2>2
<1>13. ASSUME NEW k \in 1 .. n + 1, NEW l \in 1 .. n + 1, k < l
       PROVE  ou[k] + Before(h, k, su[k]) < ou[l]
  <2>1. k \in 1 .. n /\ (l \in 1 .. n \/ l = n + 1)
    BY <1>1, <1>13
  <2>2. /\ ou[k] = off[k] /\ Before(h, k, su[k]) = Before(h, k, st[k])
        /\ off[k] \in Nat /\ Before(h, k, st[k]) \in Nat
    <3>1. FrameOK(h, st[k]) /\ Lies(h, off[k], Lvl(h, k), st[k].block) /\ k \in 1 .. Len(st)
      BY <1>10, <2>1 DEF Spans
    <3>2. Upto(h, Lvl(h, k), st[k].block) \in Counts(h, Lvl(h, k), st[k].block)
      BY <3>1, UptoCounts DEF Lies
    <3>3. Before(h, k, st[k]) \in Nat
      BY <3>1, <3>2 DEF Before, FrameOK, Counts
    <3>4. off[k] \in Nat
      BY <3>1 DEF Lies
    <3> QED
      BY <1>10, <2>1, <3>3, <3>4
  <2>3. CASE l \in 1 .. n
    <3>1. off[k] + Before(h, k, st[k]) < off[l]
      BY <1>0, <1>13, <2>1, <2>3 DEF Spans
    <3> QED
      BY <1>10, <2>2, <2>3, <3>1
  <2>4. CASE l = n + 1
    <3> DEFINE p == off[k]
               q == Before(h, k, st[k])
               z == off[n]
    <3>1. p \in Nat /\ q \in Nat /\ z \in Nat /\ x \in Nat /\ ou[l] = z + x + 1
      BY <1>0, <1>4, <2>2, <2>4
    <3>2. p + q < z \/ p + q = z + x
      <4>1. CASE k = n
        BY <4>1 DEF x
      <4>2. CASE k # n
        <5>1. n \in 1 .. Len(st) /\ k < n
          BY <1>0, <1>1, <2>1, <4>2
        <5> QED
          BY <1>0, <2>1, <5>1 DEF Spans
      <4> QED
        BY <4>1, <4>2
    <3> HIDE DEF p, q, z
    <3>3. p + q < z + x + 1
      BY <3>1, <3>2
    <3> QED
      BY <2>2, <3>1, <3>3 DEF p, q
  <2> QED
    BY <2>1, <2>3, <2>4
<1>14. Reached(h, su, ou) = ou[n + 1]
  <2>1. Upto(h, d - 1, c)[0] = 0
    <3>1. Upto(h, d - 1, c) \in Counts(h, d - 1, c)
      BY <1>5, <1>6, UptoCounts
    <3> QED
      BY <3>1 DEF Counts
  <2>2. Turns(g) = 0
    BY <1>0 DEF Turns
  <2>3. Reached(h, su, ou) = ou[n + 1] + Upto(h, d - 1, c)[0]
    BY <1>0, <1>5, <2>2 DEF Reached, c
  <2>4. ou[n + 1] \in Nat
    BY <1>7 DEF Lies
  <2> QED
    BY <2>1, <2>3, <2>4
<1>15. Len(su) = n + 1 /\ n + 1 \in 1 .. Len(h.blocks) + 1 /\ (n + 1) - 1 = n
  <2>1. Len(h.blocks) \in Nat
    BY HeaderIs
  <2> QED
    BY <1>0, <1>1, <1>5, <2>1
<1>16. ou[1] = 0 /\ su[1].block = 1
  <2>1. 1 \in 1 .. n
    BY <1>1
  <2> QED
    BY <1>10, <2>1 DEF Spans
<1>17. Reached(h, su, ou) = Reached(h, st, off) + 1
  BY <1>0, <1>3, <1>14
<1>18. Spans(h, su, ou)
  BY <1>11, <1>12, <1>13, <1>15, <1>16 DEF Spans
<1> QED
  BY <1>17, <1>18

(* The innermost call returns: the caller has dealt with its continuation  *)
(* and all that is behind it.                                              *)
Returns(st, n, f, su) ==
    /\ n = Len(st) /\ n > 1
    /\ f.block = st[n - 1].block /\ f.bytes_read = st[n - 1].bytes_read
    /\ f.switched = st[n - 1].switched /\ f.repeat_tracker = st[n - 1].repeat_tracker
    /\ Len(su) = n - 1 /\ su[n - 1] = f /\ \A k \in 1 .. n - 2 : su[k] = st[k]

LEMMA ReturnGoes ==
    ASSUME NEW h \in Headers, NEW st, NEW off, Spans(h, st, off),
           NEW n, NEW f, NEW su, Returns(st, n, f, su)
    PROVE  /\ Spans(h, su, off) /\ f.switched
           /\ Reached(h, su, off) = off[n] + Len(Walk(h)[Lvl(h, n)][st[n].block])
           /\ Reached(h, st, off) <= Reached(h, su, off)
           /\ off[n] \in Nat \ {0}
<1> DEFINE m == n - 1
           b == f.block
           i == f.bytes_read + 1
           d == Lvl(h, m)
           u == Upto(h, d, b)
           c == st[n].block
<1>0. /\ n = Len(st) /\ n > 1 /\ f.block = st[m].block /\ f.bytes_read = st[m].bytes_read
      /\ f.switched = st[m].switched
      /\ Len(su) = m /\ su[m] = f /\ \A k \in 1 .. n - 2 : su[k] = st[k]
  BY DEF Returns
<1>1. n \in Nat /\ m \in 1 .. n - 1 /\ m \in 1 .. n /\ m + 1 = n /\ n <= Len(h.blocks) + 1 /\ Len(h.blocks) \in Nat
  BY <1>0, HeaderIs DEF Spans
<1>2. /\ FrameOK(h, st[m]) /\ Lies(h, off[m], d, b)
      /\ Calls(h, st[m], st[n]) /\ off[n] = off[m] + Before(h, m, st[m]) + 1
  BY <1>0, <1>1 DEF Spans
<1>3. f.switched /\ FrameOK(h, f) /\ i \in 1 .. Len(h.blocks[b]) /\ i - 1 = f.bytes_read /\ b \in DOMAIN h.blocks
  <2>1. f.block = st[m].block /\ f.bytes_read = st[m].bytes_read /\ f.switched = st[m].switched
    BY <1>0
  <2> HIDE DEF m
  <2>2. f.switched /\ FrameOK(h, f)
    BY <1>2, <2>1 DEF FrameOK, Calls
  <2> QED
    BY <2>2, HeaderIs DEF FrameOK
<1>4. Before(h, m, st[m]) = u[i - 1] /\ Before(h, m, f) = u[i - 1]
  BY <1>0, <1>3 DEF Before
<1>5. /\ u[i - 1] \in Nat /\ u[i] = u[i - 1] + 1 + Behind(h, d, b, i) /\ Behind(h, d, b, i) \in Nat
      /\ u[i] \in Nat /\ off[m] \in Nat
  <2>1. off[m] \in Nat
    BY <1>2 DEF Lies
  <2>2. Seated(h, off[m], d, b, i, u)
    BY <1>2, <1>3, MsgPlace
  <2> QED
    BY <2>1, <2>2 DEF Seated
<1>6. d > 0 /\ Lvl(h, n) = d - 1
  BY <1>1 DEF Lvl
<1>7. Behind(h, d, b, i) = Len(Walk(h)[Lvl(h, n)][c])
  <2>1. h.blocks[b][i].kind = "cont" /\ h.blocks[b][i].to = c
    BY <1>0, <1>2 DEF Calls
  <2> QED
    BY <1>6, <2>1 DEF Behind
<1>8. Turns(f) = i
  BY <1>3 DEF Turns
<1>9. Reached(h, su, off) = off[m] + u[i]
  BY <1>0, <1>8 DEF Reached
<1>10. /\ Reached(h, su, off) = off[n] + Len(Walk(h)[Lvl(h, n)][c])
       /\ off[n] \in Nat \ {0}
  BY <1>2, <1>4, <1>5, <1>7, <1>9
<1>11. Reached(h, st, off) <= Reached(h, su, off)
  BY <1>0, <1>10, TopPlace
<1>12. ASSUME NEW k \in 1 .. m
       PROVE  /\ FrameOK(h, su[k]) /\ Lies(h, off[k], Lvl(h, k), su[k].block)
              /\ Before(h, k, su[k]) = Before(h, k, st[k])
              /\ su[k].block = st[k].block /\ k \in 1 .. n
  <2>1. CASE k = m
    BY <1>0, <1>1, <1>2, <1>3, <1>4, <2>1
  <2>2. CASE k \in 1 .. n - 2
    <3>1. su[k] = st[k] /\ k \in 1 .. n
      BY <1>0, <1>1, <2>2
    <3> QED
      BY <1>0, <3>1 DEF Spans
  <2> QED
    BY <1>1, <2>1, <2>2
<1>13. ASSUME NEW k \in 1 .. m - 1
       PROVE  Calls(h, su[k], su[k + 1]) /\ off[k + 1] = off[k] + Before(h, k, su[k]) + 1
  <2>1. k \in 1 .. n - 1 /\ k + 1 \in 1 .. m /\ k \in 1 .. n - 2 /\ k \in 1 .. m
    BY <1>1
  <2>2. Calls(h, st[k], st[k + 1]) /\ off[k + 1] = off[k] + Before(h, k, st[k]) + 1
    BY <1>0, <2>1 DEF Spans
  <2>3. su[k] = st[k] /\ su[k + 1].block = st[k + 1].block /\ Before(h, k, su[k]) = Before(h, k, st[k])
    BY <1>0, <1>12, <2>1
  <2> QED
    BY <2>2, <2>3 DEF Calls
<1>14. ASSUME NEW k \in 1 .. m, NEW l \in 1 .. m, k < l
       PROVE  off[k] + Before(h, k, su[k]) < off[l]
  <2>1. Before(h, k, su[k]) = Before(h, k, st[k]) /\ k \in 1 .. n /\ l \in 1 .. n
    BY <1>0, <1>12
  <2> QED
    BY <1>0, <1>14, <2>1 DEF Spans
<1>15. Len(su) = m /\ m \in 1 .. Len(h.blocks) + 1 /\ off[1] = 0 /\ su[1].block = 1
  <2>1. 1 \in 1 .. m
    BY <1>1
  <2> QED
    BY <1>0, <1>1, <1>12, <2>1 DEF Spans
<1>16. Spans(h, su, off)
  BY <1>0, <1>12, <1>13, <1>14, <1>15 DEF Spans
<1> QED
  BY <1>3, <1>10, <1>11, <1>16

-----------------------------------------------------------------------------
(* What has been read lies in the order up to m; the trackers know of it,  *)
(* and of a well-formed header nothing has been missed.                    *)
KindOf(h, p) == h.blocks[p[1]][p[2]].kind

ReadBefore(h, rd, m) ==
    /\ rd \in Seq(Places(h))
    /\ \A j \in 1 .. Len(rd) :
        /\ rd[j][2] \in 1 .. Len(h.blocks[rd[j][1]])
        /\ \E i \in 1 .. m : rd[j] = OrderOf(h)[i]
Tracked(h, st, rd) ==
    \A k \in 1 .. Len(st), j \in 1 .. Len(rd) :
        rd[j][1] = st[k].block /\ KindOf(h, rd[j]) \in OnceKinds => KindOf(h, rd[j]) \in st[k].repeat_tracker
OnceRead(h, rd) ==
    \A i, j \in 1 .. Len(rd) :
        i # j /\ rd[i][1] = rd[j][1] /\ KindOf(h, rd[i]) \in OnceKinds => KindOf(h, rd[i]) # KindOf(h, rd[j])

Wants(h) ==
    [k \in 1 .. Len(OrderOf(h)) |->
        IF KindOf(h, OrderOf(h)[k]) \in OnceKinds \cup AttrKinds THEN <<OrderOf(h)[k]>> ELSE <<>>]
WellMade(h) ==
    /\ IsInjective(OrderOf(h))
    /\ h.num_msgs = Len(OrderOf(h))
    /\ \A i, j \in 1 .. Len(OrderOf(h)) :
        i # j /\ KindOf(h, OrderOf(h)[i]) \in OnceKinds => KindOf(h, OrderOf(h)[i]) # KindOf(h, OrderOf(h)[j])
Picked(h, rd, m) ==
    \E p \in [0 .. Len(OrderOf(h)) -> Seq(Places(h))] :
        /\ p[0] = <<>> /\ \A i \in 1 .. Len(OrderOf(h)) : p[i] = p[i - 1] \o Wants(h)[i]
        /\ p[Len(OrderOf(h))] = FlattenSeq(Wants(h))
        /\ rd = p[m]
Counted(h, st, rd, m) ==
    /\ st[Len(st)].message_num = IF st[Len(st)].switched THEN m - 1 ELSE m
    /\ \A k \in 1 .. Len(st) : \A x \in st[k].repeat_tracker : \E i \in 1 .. m : KindOf(h, OrderOf(h)[i]) = x
    /\ Picked(h, rd, m)

(* The calls, and what they have read.                                     *)
Placed(h, st, rd, err) ==
    \E off :
        /\ Spans(h, st, off)
        /\ ReadBefore(h, rd, Reached(h, st, off))
        /\ Tracked(h, st, rd)
        /\ WellMade(h) /\ err = 0 => Counted(h, st, rd, Reached(h, st, off))

LEMMA ReadLater ==
    ASSUME NEW h, NEW rd, NEW m \in Nat, NEW l \in Nat, m <= l, ReadBefore(h, rd, m)
    PROVE  ReadBefore(h, rd, l)
<1>1. \A i \in 1 .. m : i \in 1 .. l
  OBVIOUS
<1> QED
  BY <1>1 DEF ReadBefore

LEMMA ReadOneMore ==
    ASSUME NEW h \in Headers, NEW rd, NEW m \in Nat, ReadBefore(h, rd, m),
           NEW b \in DOMAIN h.blocks, NEW i \in 1 .. Len(h.blocks[b]), OrderOf(h)[m + 1] = <<b, i>>
    PROVE  /\ ReadBefore(h, Append(rd, <<b, i>>), m + 1)
           /\ Len(Append(rd, <<b, i>>)) = Len(rd) + 1 /\ Len(rd) \in Nat
           /\ Append(rd, <<b, i>>)[Len(rd) + 1] = <<b, i>>
           /\ \A j \in 1 .. Len(rd) : Append(rd, <<b, i>>)[j] = rd[j]
<1> DEFINE x == <<b, i>>
           ru == Append(rd, x)
<1>1. x \in Places(h) /\ x[1] = b /\ x[2] = i
  BY PlaceTyped
<1>2. rd \in Seq(Places(h)) /\ Len(rd) \in Nat
  BY DEF ReadBefore
<1> HIDE DEF x
<1>3. /\ ru \in Seq(Places(h)) /\ Len(ru) = Len(rd) + 1 /\ ru[Len(rd) + 1] = x
      /\ \A j \in 1 .. Len(rd) : ru[j] = rd[j]
  BY <1>1, <1>2
<1> HIDE DEF ru
<1>4. ASSUME NEW j \in 1 .. Len(ru)
      PROVE  ru[j][2] \in 1 .. Len(h.blocks[ru[j][1]]) /\ \E l \in 1 .. m + 1 : ru[j] = OrderOf(h)[l]
  <2>1. CASE j = Len(rd) + 1
    <3>1. m + 1 \in 1 .. m + 1
      OBVIOUS
    <3> QED
      BY <1>1, <1>3, <2>1, <3>1 DEF x
  <2>2. CASE j \in 1 .. Len(rd)
    <3>1. \A l \in 1 .. m : l \in 1 .. m + 1
      OBVIOUS
    <3> QED
      BY <1>3, <2>2, <3>1 DEF ReadBefore
  <2> QED
    BY <1>2, <1>3, <2>1, <2>2
<1> QED
  BY <1>2, <1>3, <1>4 DEF ReadBefore, x, ru

LEMMA WantsTyped ==
    ASSUME NEW h \in Headers
    PROVE  Wants(h) \in Seq(Seq(Places(h))) /\ Len(Wants(h)) = Len(OrderOf(h))
<1> DEFINE n == Len(OrderOf(h))
<1>1. n \in Nat /\ OrderOf(h) \in Seq(Places(h))
  BY OrderLies
<1>2. ASSUME NEW k \in 1 .. n PROVE Wants(h)[k] \in Seq(Places(h))
  <2>1. OrderOf(h)[k] \in Places(h)
    BY <1>1
  <2>2. <<OrderOf(h)[k]>> \in Seq(Places(h))
    BY <2>1, OneEntry
  <2> QED
    BY <2>2 DEF Wants
<1>3. Wants(h) = [k \in 1 .. n |-> Wants(h)[k]]
  BY DEF Wants
<1> HIDE DEF n
<1> QED
  BY <1>1, <1>2, <1>3 DEF n

LEMMA PickFirst ==
    ASSUME NEW h \in Headers
    PROVE  Picked(h, <<>>, 0)
<1>1. PICK k \in [0 .. Len(Wants(h)) -> Seq(Places(h))] :
        /\ k[0] = <<>>
        /\ \A i \in 1 .. Len(Wants(h)) : k[i] = k[i - 1] \o Wants(h)[i]
        /\ FlattenSeq(Wants(h)) = k[Len(Wants(h))]
  BY WantsTyped, FlattenIsWalk
<1> QED
  BY <1>1, WantsTyped DEF Picked

LEMMA PickNext ==
    ASSUME NEW h \in Headers, NEW rd, NEW m \in Nat, m + 1 \in 1 .. Len(OrderOf(h)), Picked(h, rd, m),
           NEW x, x = OrderOf(h)[m + 1]
    PROVE  /\ KindOf(h, x) \in OnceKinds \cup AttrKinds => Picked(h, Append(rd, x), m + 1)
           /\ KindOf(h, x) \notin OnceKinds \cup AttrKinds => Picked(h, rd, m + 1)
<1> DEFINE n == Len(OrderOf(h))
<1>1. PICK p \in [0 .. n -> Seq(Places(h))] :
        /\ p[0] = <<>> /\ \A i \in 1 .. n : p[i] = p[i - 1] \o Wants(h)[i]
        /\ p[n] = FlattenSeq(Wants(h)) /\ rd = p[m]
  BY DEF Picked
<1>2. n \in Nat /\ m \in 0 .. n /\ (m + 1) - 1 = m
  BY OrderLies
<1>3. p[m + 1] = rd \o Wants(h)[m + 1] /\ rd \in Seq(Places(h))
  BY <1>1, <1>2
<1>4. OrderOf(h)[m + 1] \in Places(h)
  BY OrderLies
<1>5. CASE KindOf(h, x) \in OnceKinds \cup AttrKinds
  <2>1. Wants(h)[m + 1] = <<x>>
    BY <1>5 DEF Wants
  <2>2. p[m + 1] = Append(rd, x)
    BY <1>3, <1>4, <2>1
  <2> QED
    BY <1>1, <1>5, <2>2 DEF Picked
<1>6. CASE KindOf(h, x) \notin OnceKinds \cup AttrKinds
  <2>1. Wants(h)[m + 1] = <<>>
    BY <1>6 DEF Wants
  <2>2. p[m + 1] = rd
    BY <1>3, <2>1
  <2> QED
    BY <1>1, <1>6, <2>2 DEF Picked
<1> QED
  BY <1>5, <1>6

-----------------------------------------------------------------------------
(* A message is dealt with: the innermost call is switched.                *)
Deals(h, st, n, b, i, su, g) ==
    /\ n = Len(st) /\ ~ st[n].switched /\ b = st[n].block /\ i = st[n].bytes_read + 1
    /\ st[n].bytes_read < Len(h.blocks[b])
    /\ g.block = st[n].block /\ g.bytes_read = st[n].bytes_read /\ g.message_num = st[n].message_num
    /\ g.switched \in BOOLEAN /\ g.switched
    /\ Len(su) = n /\ su[n] = g /\ \A k \in 1 .. n - 1 : su[k] = st[k]

LEMMA DealGoes ==
    ASSUME NEW h \in Headers, NEW st, NEW off, Spans(h, st, off),
           NEW n, NEW b, NEW i, NEW su, NEW g, Deals(h, st, n, b, i, su, g)
    PROVE  /\ n \in Nat \ {0} /\ b \in DOMAIN h.blocks /\ i \in 1 .. Len(h.blocks[b])
           /\ Spans(h, su, off)
           /\ \E m : /\ m = Reached(h, st, off) /\ m \in Nat
                     /\ m + 1 \in 1 .. Len(OrderOf(h)) /\ OrderOf(h)[m + 1] = <<b, i>>
                     /\ Reached(h, su, off) \in Nat /\ m + 1 <= Reached(h, su, off)
                     /\ h.blocks[b][i].kind # "cont" => Reached(h, su, off) = m + 1
<1>0. /\ n = Len(st) /\ ~ st[n].switched /\ st[n].bytes_read < Len(h.blocks[b]) /\ b = st[n].block
      /\ g.block = b /\ g.bytes_read = i - 1 /\ g.switched \in BOOLEAN /\ g.switched
      /\ st[n].bytes_read = i - 1 /\ i = st[n].bytes_read + 1
      /\ Len(su) = n /\ su[n] = g /\ \A k \in 1 .. n - 1 : su[k] = st[k]
  <2>1. FrameOK(h, st[n])
    BY TopPlace DEF Deals
  <2> QED
    BY <2>1, HeaderIs DEF Deals, FrameOK
<1>1. n \in Nat \ {0} /\ FrameOK(h, st[n]) /\ Lies(h, off[n], Lvl(h, n), b)
  BY <1>0, TopPlace
<1>2. b \in DOMAIN h.blocks /\ i \in 1 .. Len(h.blocks[b]) /\ Len(h.blocks[b]) \in Nat
  BY <1>0, <1>1, HeaderIs DEF FrameOK
<1>3. FrameOK(h, g) /\ g.block = st[n].block
  BY <1>0, <1>1, <1>2 DEF FrameOK
<1>4. /\ Spans(h, su, off)
      /\ Reached(h, st, off) = off[n] + Upto(h, Lvl(h, n), b)[Turns(st[n])]
      /\ Reached(h, su, off) = off[n] + Upto(h, Lvl(h, n), b)[Turns(g)]
  BY <1>0, <1>3, TopGoes
<1>5. Turns(st[n]) = i - 1 /\ Turns(g) = i
  BY <1>0, <1>2 DEF Turns
<1> DEFINE d == Lvl(h, n)
           u == Upto(h, d, b)
<1>6. /\ u[i - 1] \in Nat /\ u[i] \in Nat /\ u[i] >= u[i - 1] + 1
      /\ off[n] + u[i - 1] + 1 \in 1 .. Len(OrderOf(h))
      /\ OrderOf(h)[off[n] + u[i - 1] + 1] = <<b, i>>
      /\ h.blocks[b][i].kind # "cont" => u[i] = u[i - 1] + 1
  <2>1. Seated(h, off[n], d, b, i, u)
    BY <1>1, <1>2, MsgPlace
  <2> QED
    BY <2>1 DEF Seated
<1>7. off[n] \in Nat /\ Len(OrderOf(h)) \in Nat
  BY <1>1, OrderLies DEF Lies
<1> DEFINE m == off[n] + u[i - 1]
<1>8. /\ m = Reached(h, st, off) /\ m \in Nat
      /\ m + 1 \in 1 .. Len(OrderOf(h)) /\ OrderOf(h)[m + 1] = <<b, i>>
      /\ Reached(h, su, off) = off[n] + u[i]
  BY <1>4, <1>5, <1>6, <1>7
<1>9. off[n] + u[i] \in Nat /\ m + 1 <= off[n] + u[i] /\ (h.blocks[b][i].kind # "cont" => off[n] + u[i] = m + 1)
  <2> DEFINE x == u[i - 1]
             y == u[i]
             z == off[n]
  <2>1. x \in Nat /\ y \in Nat /\ z \in Nat /\ y >= x + 1 /\ (h.blocks[b][i].kind # "cont" => y = x + 1)
    BY <1>6, <1>7
  <2> HIDE DEF x, y, z
  <2>2. z + y \in Nat /\ z + x + 1 <= z + y /\ (h.blocks[b][i].kind # "cont" => z + y = z + x + 1)
    BY <2>1
  <2> QED
    BY <2>2 DEF x, y, z
<1> QED
  BY <1>1, <1>2, <1>4, <1>8, <1>9

(* The trackers: what is read of a block goes into that of its call, and   *)
(* no other call is of that block.                                         *)
LEMMA NewTracked ==
    ASSUME NEW h \in Headers, NEW st, NEW off, Spans(h, st, off), IsInjective(OrderOf(h)),
           NEW n, NEW b, NEW i, NEW su, NEW g, Deals(h, st, n, b, i, su, g), NEW rd, NEW ru, Tracked(h, st, rd),
           Len(rd) \in Nat, Len(ru) = Len(rd) + 1, \A j \in 1 .. Len(rd) : ru[j] = rd[j],
           ru[Len(ru)][1] = g.block,
           st[n].repeat_tracker \subseteq g.repeat_tracker,
           KindOf(h, ru[Len(ru)]) \in OnceKinds => KindOf(h, ru[Len(ru)]) \in g.repeat_tracker
    PROVE  Tracked(h, su, ru)
<1>1. /\ n = Len(st) /\ g.block = st[n].block
      /\ Len(su) = n /\ su[n] = g /\ \A k \in 1 .. n - 1 : su[k] = st[k]
  BY DEF Deals
<1>2. n \in Nat \ {0}
  BY <1>1, TopPlace
<1> SUFFICES ASSUME NEW k \in 1 .. n, NEW j \in 1 .. Len(ru), ru[j][1] = su[k].block, KindOf(h, ru[j]) \in OnceKinds
             PROVE  KindOf(h, ru[j]) \in su[k].repeat_tracker
  BY <1>1 DEF Tracked
<1>3. su[k].block = st[k].block /\ st[k].repeat_tracker \subseteq su[k].repeat_tracker
  <2>1. k = n \/ k \in 1 .. n - 1
    BY <1>2
  <2> QED
    BY <1>1, <2>1
<1>4. CASE j \in 1 .. Len(rd)
  BY <1>1, <1>3, <1>4 DEF Tracked
<1>5. CASE j = Len(ru)
  <2>1. st[k].block = st[n].block
    BY <1>1, <1>3, <1>5
  <2>2. ~ (k < n)
    <3>1. k < n => st[k].block # st[n].block
      BY <1>1, <1>2, BlocksApart
    <3> QED
      BY <2>1, <3>1
  <2>3. k = n
    BY <1>2, <2>2
  <2> QED
    BY <1>1, <1>5, <2>3
<1>6. j \in 1 .. Len(rd) \/ j = Len(ru)
  OBVIOUS
<1> QED
  BY <1>4, <1>5, <1>6

LEMMA SameTracked ==
    ASSUME NEW h, NEW st, NEW n \in Nat, n = Len(st), NEW su, NEW rd, Tracked(h, st, rd),
           NEW l \in Nat, Len(su) = l, l <= n,
           \A k \in 1 .. l : su[k].block = st[k].block /\ st[k].repeat_tracker \subseteq su[k].repeat_tracker
    PROVE  Tracked(h, su, rd)
<1>1. \A k \in 1 .. l : k \in 1 .. n
  OBVIOUS
<1> QED
  BY <1>1 DEF Tracked

(* A reader takes the message in: it is none of those read before.         *)
LEMMA NewRead ==
    ASSUME NEW h \in Headers, IsInjective(OrderOf(h)), NEW st, NEW rd, NEW err,
           Placed(h, st, rd, err), OnceRead(h, rd),
           NEW n, NEW b, NEW i, NEW su, NEW g, Deals(h, st, n, b, i, su, g),
           NEW kind, kind = h.blocks[b][i].kind, kind \in OnceKinds \cup AttrKinds,
           kind \in OnceKinds => kind \notin st[n].repeat_tracker,
           g.repeat_tracker = st[n].repeat_tracker \cup (IF kind \in OnceKinds THEN {kind} ELSE {}),
           NEW eu, eu = 0 => err = 0
    PROVE  Placed(h, su, Append(rd, <<b, i>>), eu) /\ OnceRead(h, Append(rd, <<b, i>>))
<1> DEFINE x == <<b, i>>
           ru == Append(rd, x)
<1>1. PICK off : /\ Spans(h, st, off)
                 /\ ReadBefore(h, rd, Reached(h, st, off))
                 /\ Tracked(h, st, rd)
                 /\ WellMade(h) /\ err = 0 => Counted(h, st, rd, Reached(h, st, off))
  BY DEF Placed
<1> DEFINE m == Reached(h, st, off)
<1>2. kind # "cont" /\ (kind \in AttrKinds => kind \notin OnceKinds)
  BY DEF OnceKinds, AttrKinds
<1>3. /\ n \in Nat \ {0} /\ b \in DOMAIN h.blocks /\ i \in 1 .. Len(h.blocks[b])
      /\ Spans(h, su, off) /\ m \in Nat
      /\ m + 1 \in 1 .. Len(OrderOf(h)) /\ OrderOf(h)[m + 1] = x
      /\ Reached(h, su, off) = m + 1
  BY <1>1, <1>2, DealGoes
<1>4. KindOf(h, x) = kind /\ x[1] = b
  BY DEF KindOf
<1>5. /\ n = Len(st) /\ b = st[n].block /\ b = g.block /\ Len(su) = n /\ su[n] = g
      /\ ~ st[n].switched /\ g.switched /\ g.message_num = st[n].message_num
      /\ \A k \in 1 .. n - 1 : su[k] = st[k]
  BY DEF Deals
<1> HIDE DEF m, x
<1>6. /\ ReadBefore(h, ru, m + 1)
      /\ Len(ru) = Len(rd) + 1 /\ Len(rd) \in Nat /\ ru[Len(rd) + 1] = x
      /\ \A j \in 1 .. Len(rd) : ru[j] = rd[j]
  BY <1>1, <1>3, ReadOneMore DEF m, x
<1> HIDE DEF ru
<1>7. Tracked(h, su, ru)
  BY <1>1, <1>4, <1>5, <1>6, NewTracked
<1>8. ASSUME WellMade(h), eu = 0 PROVE Counted(h, su, ru, m + 1)
  <2>1. Counted(h, st, rd, m)
    BY <1>1, <1>8 DEF m
  <2>2. Picked(h, ru, m + 1)
    BY <1>3, <1>4, <2>1, PickNext DEF Counted, ru
  <2>3. su[n].message_num = (m + 1) - 1
    BY <1>3, <1>5, <2>1 DEF Counted
  <2>4. ASSUME NEW k \in 1 .. n, NEW y \in su[k].repeat_tracker
        PROVE  \E j \in 1 .. m + 1 : KindOf(h, OrderOf(h)[j]) = y
    <3>1. CASE y \in st[k].repeat_tracker
      <4>1. PICK j \in 1 .. m : KindOf(h, OrderOf(h)[j]) = y
        BY <1>5, <2>1, <3>1 DEF Counted
      <4>2. j \in 1 .. m + 1
        BY <1>3
      <4> QED
        BY <4>1, <4>2
    <3>2. CASE y \notin st[k].repeat_tracker
      <4>1. k = n \/ k \in 1 .. n - 1
        BY <1>3
      <4>2. y = kind
        BY <1>5, <3>2, <4>1
      <4>3. m + 1 \in 1 .. m + 1
        BY <1>3
      <4> QED
        BY <1>3, <1>4, <4>2, <4>3
    <3> QED
      BY <3>1, <3>2
  <2> QED
    BY <1>5, <2>2, <2>3, <2>4 DEF Counted
<1>9. OnceRead(h, ru)
  <2>1. ASSUME NEW j \in 1 .. Len(rd), rd[j][1] = b PROVE KindOf(h, rd[j]) \in OnceKinds => KindOf(h, rd[j]) # kind
    <3> SUFFICES ASSUME KindOf(h, rd[j]) \in OnceKinds, KindOf(h, rd[j]) = kind PROVE FALSE
      OBVIOUS
    <3>1. n \in 1 .. Len(st) /\ rd[j][1] = st[n].block
      BY <1>3, <1>5, <2>1
    <3>2. KindOf(h, rd[j]) \in st[n].repeat_tracker
      BY <1>1, <3>1 DEF Tracked
    <3> QED
      BY <3>2
  <2>2. ASSUME NEW j \in 1 .. Len(ru), NEW l \in 1 .. Len(ru), j # l,
               ru[j][1] = ru[l][1], KindOf(h, ru[j]) \in OnceKinds
        PROVE  KindOf(h, ru[j]) # KindOf(h, ru[l])
    <3>1. (j \in 1 .. Len(rd) \/ j = Len(rd) + 1) /\ (l \in 1 .. Len(rd) \/ l = Len(rd) + 1)
      BY <1>6
    <3>2. CASE j \in 1 .. Len(rd) /\ l \in 1 .. Len(rd)
      BY <1>6, <2>2, <3>2 DEF OnceRead
    <3>3. CASE j \in 1 .. Len(rd) /\ l = Len(rd) + 1
      BY <1>4, <1>6, <2>1, <2>2, <3>3
    <3>4. CASE l \in 1 .. Len(rd) /\ j = Len(rd) + 1
      BY <1>4, <1>6, <2>1, <2>2, <3>4
    <3> QED
      BY <2>2, <3>1, <3>2, <3>3, <3>4
  <2> QED
    BY <2>2 DEF OnceRead
<1>10. Placed(h, su, ru, eu)
  BY <1>3, <1>6, <1>7, <1>8 DEF Placed
<1> QED
  BY <1>9, <1>10 DEF ru, x

(* The message is passed over: it has been read, is of no interest, or is  *)
(* a continuation that is rejected.                                        *)
LEMMA NoRead ==
    ASSUME NEW h \in Headers, IsInjective(OrderOf(h)), NEW st, NEW rd, NEW err,
           Placed(h, st, rd, err),
           NEW n, NEW b, NEW i, NEW su, NEW g, Deals(h, st, n, b, i, su, g),
           NEW kind, kind = h.blocks[b][i].kind, kind \in Kinds, kind \notin AttrKinds,
           kind \in OnceKinds => kind \in st[n].repeat_tracker,
           g.repeat_tracker = st[n].repeat_tracker,
           NEW eu, eu = 0 => err = 0 /\ kind # "cont"
    PROVE  Placed(h, su, rd, eu)
<1> DEFINE x == <<b, i>>
<1>1. PICK off : /\ Spans(h, st, off)
                 /\ ReadBefore(h, rd, Reached(h, st, off))
                 /\ Tracked(h, st, rd)
                 /\ WellMade(h) /\ err = 0 => Counted(h, st, rd, Reached(h, st, off))
  BY DEF Placed
<1> DEFINE m == Reached(h, st, off)
           l == Reached(h, su, off)
<1>2. /\ n \in Nat \ {0} /\ b \in DOMAIN h.blocks /\ i \in 1 .. Len(h.blocks[b])
      /\ Spans(h, su, off) /\ m \in Nat
      /\ m + 1 \in 1 .. Len(OrderOf(h)) /\ OrderOf(h)[m + 1] = x
      /\ l \in Nat /\ m + 1 <= l
      /\ kind # "cont" => l = m + 1
  BY <1>1, DealGoes
<1>3. KindOf(h, x) = kind
  BY DEF KindOf
<1>4. /\ n = Len(st) /\ b = st[n].block /\ b = g.block /\ Len(su) = n /\ su[n] = g
      /\ ~ st[n].switched /\ g.switched /\ g.message_num = st[n].message_num
      /\ \A k \in 1 .. n - 1 : su[k] = st[k]
  BY DEF Deals
<1> HIDE DEF m, l, x
<1>5. ReadBefore(h, rd, l)
  <2>1. m <= l
    BY <1>2
  <2> QED
    BY <1>1, <1>2, <2>1, ReadLater DEF m
<1>6. \A k \in 1 .. n : su[k].block = st[k].block /\ su[k].repeat_tracker = st[k].repeat_tracker
  <2>1. \A k \in 1 .. n : k = n \/ k \in 1 .. n - 1
    BY <1>2
  <2> QED
    BY <1>4, <2>1
<1>7. Tracked(h, su, rd)
  <2>1. n \in Nat /\ n <= n
    BY <1>2
  <2> QED
    BY <1>1, <1>4, <1>6, <2>1, SameTracked
<1>8. ASSUME WellMade(h), eu = 0 PROVE Counted(h, su, rd, l)
  <2>1. Counted(h, st, rd, m) /\ l = m + 1
    BY <1>1, <1>2, <1>8 DEF m
  <2>2. kind \notin OnceKinds
    <3> SUFFICES ASSUME kind \in OnceKinds PROVE FALSE
      OBVIOUS
    <3>1. n \in 1 .. Len(st)
      BY <1>2, <1>4
    <3>2. PICK j \in 1 .. m : KindOf(h, OrderOf(h)[j]) = kind
      BY <2>1, <3>1 DEF Counted
    <3>3. j \in 1 .. Len(OrderOf(h)) /\ j # m + 1
      BY <1>2
    <3> QED
      BY <1>2, <1>3, <1>8, <3>2, <3>3 DEF WellMade
  <2>3. Picked(h, rd, m + 1)
    BY <1>2, <1>3, <2>1, <2>2, PickNext DEF Counted
  <2>4. su[n].message_num = (m + 1) - 1
    BY <1>2, <1>4, <2>1 DEF Counted
  <2>5. ASSUME NEW k \in 1 .. n, NEW y \in su[k].repeat_tracker
        PROVE  \E j \in 1 .. m + 1 : KindOf(h, OrderOf(h)[j]) = y
    <3>1. PICK j \in 1 .. m : KindOf(h, OrderOf(h)[j]) = y
      BY <1>4, <1>6, <2>1 DEF Counted
    <3>2. j \in 1 .. m + 1
      BY <1>2
    <3> QED
      BY <3>1, <3>2
  <2> QED
    BY <1>4, <2>1, <2>3, <2>4, <2>5 DEF Counted
<1> QED
  BY <1>2, <1>5, <1>7, <1>8 DEF Placed, l

(* The end of a turn: the message dealt with is counted.                   *)
LEMMA TurnEnds ==
    ASSUME NEW h \in Headers, NEW st, NEW rd, NEW err, Placed(h, st, rd, err),
           NEW n, n = Len(st), NEW f, f = st[n], f.switched,
           NEW su, NEW g, g.block = f.block, g.bytes_read = f.bytes_read + 1,
           g.switched \in BOOLEAN, ~ g.switched,
           g.message_num = f.message_num + 1, g.repeat_tracker = f.repeat_tracker,
           Len(su) = n, su[n] = g, \A k \in 1 .. n - 1 : su[k] = st[k]
    PROVE  Placed(h, su, rd, err)
<1>1. PICK off : /\ Spans(h, st, off)
                 /\ ReadBefore(h, rd, Reached(h, st, off))
                 /\ Tracked(h, st, rd)
                 /\ WellMade(h) /\ err = 0 => Counted(h, st, rd, Reached(h, st, off))
  BY DEF Placed
<1> DEFINE m == Reached(h, st, off)
<1>2. n \in Nat \ {0} /\ FrameOK(h, f) /\ m \in Nat
  <2>1. m \in 0 .. Len(OrderOf(h)) /\ Len(OrderOf(h)) \in Nat
    BY <1>1, TopPlace, OrderLies
  <2> QED
    BY <1>1, <2>1, TopPlace
<1>3. FrameOK(h, g) /\ Turns(f) = Turns(g)
  <2> DEFINE r == f.bytes_read
             l == Len(h.blocks[f.block])
  <2>1. r \in 0 .. l /\ r < l /\ f.block \in DOMAIN h.blocks
    BY <1>2 DEF FrameOK
  <2>2. l \in Nat
    BY <2>1, HeaderIs
  <2> HIDE DEF r, l
  <2>3. r + 1 \in 0 .. l
    BY <2>1, <2>2
  <2>4. g.block = f.block /\ g.bytes_read = r + 1 /\ l = Len(h.blocks[g.block])
    BY DEF r, l
  <2>5. Turns(f) = r + 1 /\ Turns(g) = r + 1
    BY <2>4 DEF Turns, r
  <2> QED
    BY <2>1, <2>3, <2>4, <2>5 DEF FrameOK
<1>4. Spans(h, su, off) /\ Reached(h, su, off) = m
  <2>1. g.block = st[n].block
    OBVIOUS
  <2> QED
    BY <1>1, <1>3, <2>1, TopGoes
<1>5. \A k \in 1 .. n : su[k].block = st[k].block /\ su[k].repeat_tracker = st[k].repeat_tracker
  <2>1. \A k \in 1 .. n : k = n \/ k \in 1 .. n - 1
    BY <1>2
  <2> QED
    BY <2>1
<1> HIDE DEF m
<1>6. Tracked(h, su, rd)
  <2>1. n \in Nat /\ n <= n
    BY <1>2
  <2> QED
    BY <1>1, <1>5, <2>1, SameTracked
<1>7. ASSUME WellMade(h), err = 0 PROVE Counted(h, su, rd, m)
  <2>1. Counted(h, st, rd, m)
    BY <1>1, <1>7 DEF m
  <2>2. su[n].message_num = m
    BY <1>2, <2>1 DEF Counted
  <2> QED
    BY <1>5, <2>1, <2>2 DEF Counted
<1> QED
  BY <1>1, <1>4, <1>6, <1>7 DEF Placed, m

(* A continuation is followed: its block is new to the readers.            *)
LEMMA CallMade ==
    ASSUME NEW h \in Headers, IsInjective(OrderOf(h)), NEW st, NEW rd, NEW err, Placed(h, st, rd, err),
           NEW n, NEW f, NEW g, NEW su, Follows(h, st, n, f, g, su),
           g.message_num = st[n].message_num + 1, g.repeat_tracker = st[n].repeat_tracker,
           f.repeat_tracker = st[n].repeat_tracker
    PROVE  Placed(h, su, rd, err)
<1>1. PICK off : /\ Spans(h, st, off)
                 /\ ReadBefore(h, rd, Reached(h, st, off))
                 /\ Tracked(h, st, rd)
                 /\ WellMade(h) /\ err = 0 => Counted(h, st, rd, Reached(h, st, off))
  BY DEF Placed
<1> DEFINE m == Reached(h, st, off)
           N == Len(OrderOf(h))
           ou == [k \in 1 .. n + 1 |-> IF k = n + 1 THEN off[n] + Before(h, n, st[n]) + 1 ELSE off[k]]
<1>2. Len(st) \in Nat \ {0} /\ m \in 0 .. N /\ N \in Nat
  BY <1>1, TopPlace, OrderLies
<1>3. n = Len(st)
  BY DEF Follows
<1>4. Opens(h, st, n, off, ou)
  BY <1>2, <1>3 DEF Opens
<1> HIDE DEF ou
<1>5. Spans(h, su, ou) /\ Reached(h, su, ou) = m + 1
  BY <1>1, <1>4, CallGoes
<1>6. /\ ~ st[n].switched /\ ~ g.switched /\ g.bytes_read = 0 /\ f.block = st[n].block
      /\ Len(su) = n + 1 /\ su[n] = f /\ su[n + 1] = g /\ \A k \in 1 .. n - 1 : su[k] = st[k]
  BY DEF Follows
<1> HIDE DEF m
<1>7. ReadBefore(h, rd, m + 1)
  <2>1. m \in Nat /\ m + 1 \in Nat /\ m <= m + 1
    BY <1>2
  <2> QED
    BY <1>1, <2>1, ReadLater DEF m
<1>8. \A k \in 1 .. n : su[k].block = st[k].block /\ su[k].repeat_tracker = st[k].repeat_tracker
  <2>1. \A k \in 1 .. n : k = n \/ k \in 1 .. n - 1
    BY <1>2, <1>3
  <2> QED
    BY <1>6, <2>1
<1>9. ASSUME NEW j \in 1 .. Len(rd) PROVE rd[j][1] # g.block
  <2> SUFFICES ASSUME rd[j][1] = g.block PROVE FALSE
    OBVIOUS
  <2> DEFINE c == g.block
             i == rd[j][2]
             o == ou[n + 1]
             d == Lvl(h, n + 1)
             u == Upto(h, d, c)
  <2>1. /\ Len(su) = n + 1 /\ su[Len(su)] = g /\ Lies(h, o, d, c)
        /\ Reached(h, su, ou) = o + u[Turns(g)]
    BY <1>5, <1>6, TopPlace DEF Reached
  <2>2. Turns(g) = 0
    BY <1>6 DEF Turns
  <2>3. rd[j] \in Places(h) /\ i \in 1 .. Len(h.blocks[c]) /\ \E l \in 1 .. m : rd[j] = OrderOf(h)[l]
    <3>1. ReadBefore(h, rd, m)
      BY <1>1 DEF m
    <3>2. i \in 1 .. Len(h.blocks[rd[j][1]]) /\ rd[j] \in Places(h)
      BY <3>1 DEF ReadBefore
    <3>3. \E l \in 1 .. m : rd[j] = OrderOf(h)[l]
      BY <3>1 DEF ReadBefore
    <3> QED
      BY <3>2, <3>3
  <2>4. rd[j] = <<c, i>>
    BY <2>3 DEF Places
  <2> HIDE DEF c, i, o, d
  <2>5. /\ u[i - 1] \in Nat
        /\ o + u[i - 1] + 1 \in 1 .. Len(OrderOf(h))
        /\ OrderOf(h)[o + u[i - 1] + 1] = <<c, i>>
    <3>1. Seated(h, o, d, c, i, u)
      BY <2>1, <2>3, MsgPlace
    <3> QED
      BY <3>1 DEF Seated
  <2>6. u[0] = 0 /\ o \in Nat
    BY <2>1, UptoCounts DEF Counts, Lies
  <2>7. o = m + 1
    BY <1>5, <2>1, <2>2, <2>6
  <2>8. PICK l \in 1 .. m : rd[j] = OrderOf(h)[l]
    BY <2>3
  <2>9. l # o + u[i - 1] + 1 /\ l \in DOMAIN OrderOf(h) /\ o + u[i - 1] + 1 \in DOMAIN OrderOf(h)
    <3>1. DOMAIN OrderOf(h) = 1 .. N
      BY OrderLies
    <3>2. l < o + u[i - 1] + 1 /\ l \in 1 .. N
      <4> DEFINE x == u[i - 1]
      <4>1. x \in Nat /\ o = m + 1
        BY <2>5, <2>7
      <4> HIDE DEF x
      <4>2. l < o + x + 1 /\ l \in 1 .. N
        BY <1>2, <4>1
      <4> QED
        BY <4>2 DEF x
    <3> QED
      BY <2>5, <3>1, <3>2
  <2> QED
    BY <2>4, <2>5, <2>8, <2>9 DEF IsInjective
<1>10. Tracked(h, su, rd)
  <2>1. ASSUME NEW k \in 1 .. n + 1, NEW j \in 1 .. Len(rd), rd[j][1] = su[k].block, KindOf(h, rd[j]) \in OnceKinds
        PROVE  KindOf(h, rd[j]) \in su[k].repeat_tracker
    <3>1. k # n + 1
      BY <1>6, <1>9, <2>1
    <3>2. k \in 1 .. n
      BY <1>2, <1>3, <3>1
    <3> QED
      BY <1>1, <1>3, <1>8, <2>1, <3>2 DEF Tracked
  <2> QED
    BY <1>6, <2>1 DEF Tracked
<1>11. ASSUME WellMade(h), err = 0 PROVE Counted(h, su, rd, m + 1)
  <2>1. Counted(h, st, rd, m)
    BY <1>1, <1>11 DEF m
  <2>2. su[n + 1].message_num = m + 1
    BY <1>2, <1>3, <1>6, <2>1 DEF Counted
  <2>3. Picked(h, rd, m + 1)
    <3> DEFINE b == st[n].block
               i == st[n].bytes_read + 1
               y == OrderOf(h)[m + 1]
    <3>1. KindOf(h, y) = "cont" /\ m + 1 \in 1 .. N
      <4>1. /\ FrameOK(h, st[n]) /\ Lies(h, off[n], Lvl(h, n), b)
            /\ m = off[n] + Upto(h, Lvl(h, n), b)[st[n].bytes_read]
        BY <1>1, <1>3, <1>6, TopPlace DEF Reached, m, Turns
      <4>2. /\ h.blocks[b][i].kind = "cont" /\ i \in 1 .. Len(h.blocks[b]) /\ i - 1 = st[n].bytes_read
            /\ m = off[n] + Upto(h, Lvl(h, n), b)[i - 1]
        <5>1. /\ h.blocks[b][i].kind = "cont" /\ st[n].bytes_read < Len(h.blocks[b])
          BY DEF Follows
        <5>2. st[n].bytes_read \in Nat /\ Len(h.blocks[b]) \in Nat
          BY <4>1, HeaderIs DEF FrameOK
        <5>3. i \in 1 .. Len(h.blocks[b]) /\ i - 1 = st[n].bytes_read
          <6> DEFINE l == Len(h.blocks[b])
                     r == st[n].bytes_read
          <6>1. l \in Nat /\ r \in Nat /\ r < l /\ i = r + 1
            BY <5>1, <5>2
          <6> HIDE DEF l, r, i
          <6> QED
            BY <6>1 DEF l, r
        <5> HIDE DEF b, i
        <5> QED
          BY <4>1, <5>1, <5>3
      <4> HIDE DEF b, i, y
      <4>3. /\ off[n] + Upto(h, Lvl(h, n), b)[i - 1] + 1 \in 1 .. Len(OrderOf(h))
            /\ OrderOf(h)[off[n] + Upto(h, Lvl(h, n), b)[i - 1] + 1] = <<b, i>>
        <5>1. Seated(h, off[n], Lvl(h, n), b, i, Upto(h, Lvl(h, n), b))
          BY <4>1, <4>2, MsgPlace
        <5> QED
          BY <5>1 DEF Seated
      <4>4. y = <<b, i>> /\ m + 1 \in 1 .. N
        BY <4>2, <4>3 DEF y
      <4> QED
        BY <4>2, <4>4 DEF KindOf
    <3>2. KindOf(h, y) \notin OnceKinds \cup AttrKinds
      BY <3>1 DEF OnceKinds, AttrKinds
    <3> QED
      BY <1>2, <2>1, <3>1, <3>2, PickNext DEF Counted
  <2>4. ASSUME NEW k \in 1 .. n + 1, NEW y \in su[k].repeat_tracker
        PROVE  \E j \in 1 .. m + 1 : KindOf(h, OrderOf(h)[j]) = y
    <3>1. \E l \in 1 .. n : y \in st[l].repeat_tracker
      <4>1. (k = n + 1 \/ k \in 1 .. n) /\ n \in 1 .. n
        BY <1>2, <1>3
      <4> QED
        BY <1>6, <1>8, <4>1
    <3>2. PICK j \in 1 .. m : KindOf(h, OrderOf(h)[j]) = y
      BY <1>3, <2>1, <3>1 DEF Counted
    <3>3. j \in 1 .. m + 1
      BY <1>2
    <3> QED
      BY <3>2, <3>3
  <2> QED
    BY <1>6, <2>2, <2>3, <2>4 DEF Counted
<1> QED
  BY <1>5, <1>7, <1>10, <1>11 DEF Placed

(* A call of a well-formed header ends with its block and what is behind   *)
(* it: the count runs out only when all is counted.                        *)
LEMMA CallEnds ==
    ASSUME NEW h \in Headers, WellMade(h), NEW st, NEW off, Spans(h, st, off),
           NEW rd, Counted(h, st, rd, Reached(h, st, off)),
           NEW n, n = Len(st), ~ st[n].switched,
           ~ (st[n].message_num < h.num_msgs /\ st[n].bytes_read < Len(h.blocks[st[n].block]))
    PROVE  /\ Reached(h, st, off) = off[n] + Len(Walk(h)[Lvl(h, n)][st[n].block])
           /\ st[n].message_num = Reached(h, st, off)
           /\ Reached(h, st, off) \in Nat /\ Reached(h, st, off) <= h.num_msgs
<1> DEFINE N == Len(OrderOf(h))
           q == h.num_msgs
           m == Reached(h, st, off)
           b == st[n].block
           l == off[n] + Len(Walk(h)[Lvl(h, n)][b])
           r == st[n].bytes_read
           L == Len(h.blocks[b])
<1>1. /\ n \in Nat \ {0} /\ FrameOK(h, st[n]) /\ Lies(h, off[n], Lvl(h, n), b)
      /\ m \in 0 .. N /\ m <= l /\ (Turns(st[n]) = L => m = l)
  BY TopPlace
<1>2. l \in Nat /\ l <= N /\ N \in Nat /\ q = N
  <2>1. off[n] \in Nat /\ l <= N /\ Len(Walk(h)[Lvl(h, n)][b]) \in Nat
    BY <1>1, UptoCounts DEF Lies
  <2>2. N \in Nat /\ q = N
    BY OrderLies DEF WellMade
  <2> QED
    BY <2>1, <2>2
<1>3. st[n].message_num = m
  BY DEF Counted
<1>4. r \in Nat /\ L \in Nat /\ r <= L /\ Turns(st[n]) = r
  <2>1. b \in DOMAIN h.blocks /\ r \in 0 .. L
    BY <1>1 DEF FrameOK
  <2>2. L \in Nat
    BY <2>1, HeaderIs
  <2>3. Turns(st[n]) = r
    BY DEF Turns
  <2> HIDE DEF r, L
  <2> QED
    BY <2>1, <2>2, <2>3
<1>5. ~ (m < q /\ r < L)
  BY <1>3
<1> HIDE DEF N, q, m, l, r, L
<1>6. m = l
  BY <1>1, <1>2, <1>4, <1>5
<1>7. m <= q
  BY <1>1, <1>2
<1> QED
  BY <1>1, <1>2, <1>3, <1>6, <1>7 DEF m, l, q

(* Back to the caller: it has counted what its continuation led to.        *)
LEMMA ReturnMade ==
    ASSUME NEW h \in Headers, NEW st, NEW rd, NEW err, Placed(h, st, rd, err),
           NEW n, NEW f, NEW su, Returns(st, n, f, su), NEW g, g = st[n],
           err = 0 => /\ ~ g.switched
                      /\ ~ (g.message_num < h.num_msgs /\ g.bytes_read < Len(h.blocks[g.block]))
                      /\ f.message_num = (g.message_num - 1) % NumMsgsMod
    PROVE  Placed(h, su, rd, err)
<1> DEFINE p == n - 1
<1>0. /\ n = Len(st) /\ n > 1 /\ f.block = st[p].block /\ f.repeat_tracker = st[p].repeat_tracker
      /\ Len(su) = p /\ su[p] = f /\ \A k \in 1 .. n - 2 : su[k] = st[k]
  BY DEF Returns
<1>1. PICK off : /\ Spans(h, st, off)
                 /\ ReadBefore(h, rd, Reached(h, st, off))
                 /\ Tracked(h, st, rd)
                 /\ WellMade(h) /\ err = 0 => Counted(h, st, rd, Reached(h, st, off))
  BY DEF Placed
<1> DEFINE m == Reached(h, st, off)
           l == Reached(h, su, off)
           b == g.block
<1>2. /\ Spans(h, su, off) /\ f.switched
      /\ l = off[n] + Len(Walk(h)[Lvl(h, n)][b])
      /\ m <= l /\ off[n] \in Nat \ {0}
  BY <1>1, ReturnGoes
<1>3. n \in Nat /\ p \in Nat \ {0} /\ p \in 1 .. n /\ \A k \in 1 .. p : k \in 1 .. n /\ (k = p \/ k \in 1 .. n - 2)
  BY <1>0, <1>1, TopPlace
<1>4. /\ m \in Nat /\ l \in Nat /\ Lies(h, off[n], Lvl(h, n), b)
  <2>1. m \in 0 .. Len(OrderOf(h)) /\ Len(OrderOf(h)) \in Nat /\ Lies(h, off[n], Lvl(h, n), b)
    BY <1>0, <1>1, TopPlace, OrderLies
  <2>2. l \in 0 .. Len(OrderOf(h))
    BY <1>2, TopPlace
  <2> HIDE DEF m, l
  <2> QED
    BY <2>1, <2>2
<1>5. \A k \in 1 .. p : su[k].block = st[k].block /\ su[k].repeat_tracker = st[k].repeat_tracker
  BY <1>0, <1>3
<1> HIDE DEF m, l
<1>6. ReadBefore(h, rd, l)
  BY <1>1, <1>2, <1>4, ReadLater DEF m
<1>7. Tracked(h, su, rd)
  <2>1. p \in Nat /\ p <= n /\ Len(su) = p
    BY <1>0, <1>3
  <2> HIDE DEF p
  <2> QED
    BY <1>0, <1>1, <1>3, <1>5, <2>1, SameTracked
<1>8. ASSUME WellMade(h), err = 0 PROVE Counted(h, su, rd, l)
  <2>1. Counted(h, st, rd, m)
    BY <1>1, <1>8 DEF m
  <2>2. m = off[n] + Len(Walk(h)[Lvl(h, n)][b]) /\ g.message_num = m /\ m <= h.num_msgs
    BY <1>0, <1>1, <1>8, <2>1, CallEnds DEF m
  <2>3. m = l
    BY <1>2, <2>2
  <2>4. f.message_num = m - 1
    <3>1. m \in 1 .. NumMsgsMod - 1 /\ NumMsgsMod \in Nat
      <4>1. Len(Walk(h)[Lvl(h, n)][b]) \in Nat
        BY <1>4, UptoCounts DEF Lies
      <4>2. h.num_msgs \in 0 .. NumMsgsMod - 1 /\ NumMsgsMod \in Nat \ {0}
        BY HeaderIs
      <4> DEFINE o == off[n]
                 w == Len(Walk(h)[Lvl(h, n)][b])
                 q == h.num_msgs
      <4>3. o \in Nat \ {0} /\ w \in Nat /\ m = o + w /\ m <= q
        BY <1>2, <2>2, <4>1
      <4> HIDE DEF o, w, q
      <4>4. q \in 0 .. NumMsgsMod - 1 /\ NumMsgsMod \in Nat
        BY <4>2 DEF q
      <4> QED
        BY <4>3, <4>4
    <3>2. f.message_num = (m - 1) % NumMsgsMod
      BY <1>0, <1>8, <2>2
    <3>3. (m - 1) % NumMsgsMod = m - 1
      BY <3>1
    <3> QED
      BY <3>2, <3>3
  <2>5. ASSUME NEW k \in 1 .. p, NEW y \in su[k].repeat_tracker
        PROVE  \E j \in 1 .. m : KindOf(h, OrderOf(h)[j]) = y
    BY <1>0, <1>3, <1>5, <2>1 DEF Counted
  <2>6. Len(su) = p /\ su[p] = f /\ f.switched
    BY <1>0, <1>2
  <2> HIDE DEF p
  <2> QED
    BY <2>1, <2>3, <2>4, <2>5, <2>6 DEF Counted
<1> QED
  BY <1>2, <1>6, <1>7, <1>8 DEF Placed, l

(* Block 1 is done: a well-formed header has been read.                    *)
LEMMA AllRead ==
    ASSUME NEW h \in Headers, WellMade(h), NEW st, NEW rd, Placed(h, st, rd, 0),
           Len(st) = 1, NEW f, f = st[1], ~ f.switched,
           ~ (f.message_num < h.num_msgs /\ f.bytes_read < Len(h.blocks[f.block]))
    PROVE  rd = FlattenSeq(Wants(h))
<1>1. PICK off : Spans(h, st, off) /\ Counted(h, st, rd, Reached(h, st, off))
  BY DEF Placed
<1> DEFINE m == Reached(h, st, off)
           N == Len(OrderOf(h))
<1>2. f.message_num = m /\ m \in Nat /\ m = off[1] + Len(Walk(h)[Lvl(h, 1)][f.block])
  <2>1. 1 = Len(st) /\ ~ st[1].switched
    OBVIOUS
  <2>2. ~ (st[1].message_num < h.num_msgs /\ st[1].bytes_read < Len(h.blocks[st[1].block]))
    OBVIOUS
  <2> QED
    BY <1>1, <2>1, <2>2, CallEnds
<1>3. m \in 0 .. N /\ N \in Nat /\ h.num_msgs = N
  BY <1>1, TopPlace, OrderLies DEF WellMade
<1>4. Lvl(h, 1) = Len(h.blocks) /\ off[1] = 0 /\ f.block = 1
  <2>1. Len(h.blocks) \in Nat
    BY HeaderIs
  <2>2. Len(h.blocks) + 1 - 1 = Len(h.blocks)
    BY <2>1
  <2>3. off[1] = 0 /\ st[1].block = 1
    BY <1>1 DEF Spans
  <2> QED
    BY <2>2, <2>3 DEF Lvl
<1>5. Len(Walk(h)[Lvl(h, 1)][f.block]) = N
  BY <1>4, OrderLies
<1>6. m = N
  <2> HIDE DEF m, N
  <2> QED
    BY <1>2, <1>3, <1>4, <1>5
<1> HIDE DEF m
<1>7. Picked(h, rd, N)
  BY <1>1, <1>6 DEF Counted, m
<1> QED
  BY <1>7 DEF Picked

(* fillObject begins with block 1.                                         *)
LEMMA FirstPlaced ==
    ASSUME NEW h \in Headers, NEW err, NEW st, Len(st) = 1, NEW f, f = st[1],
           f.block = 1, f.bytes_read = 0, f.message_num = 0, f.repeat_tracker = {},
           f.switched \in BOOLEAN, ~ f.switched
    PROVE  Placed(h, st, <<>>, err)
<1> DEFINE off == [k \in 1 .. 1 |-> 0]
           N == Len(h.blocks)
<1>1. N \in Nat \ {0} /\ 1 \in DOMAIN h.blocks
  BY HeaderIs
<1>2. FrameOK(h, f)
  BY <1>1, FreshOK
<1>3. Lvl(h, 1) = N
  <2> HIDE DEF N
  <2>1. N + 1 - 1 = N
    BY <1>1
  <2> QED
    BY <2>1 DEF Lvl, N
<1>4. Lies(h, 0, N, 1)
  BY OrderLies
<1>5. Spans(h, st, off)
  <2>1. off[1] = 0
    OBVIOUS
  <2> HIDE DEF off
  <2>2. 1 \in 1 .. N + 1
    BY <1>1
  <2>3. \A k \in 1 .. 1 : k = 1
    OBVIOUS
  <2> HIDE DEF N
  <2>4. \A k \in 1 .. 1 : FrameOK(h, st[k]) /\ Lies(h, off[k], Lvl(h, k), st[k].block)
    BY <1>2, <1>3, <1>4, <2>1, <2>3
  <2>5. \A k \in 1 .. 1 - 1 : FALSE
    OBVIOUS
  <2>6. \A k, l \in 1 .. 1 : ~ (k < l)
    OBVIOUS
  <2> QED
    BY <2>1, <2>2, <2>4, <2>5, <2>6 DEF Spans, N
<1>6. Reached(h, st, off) = 0
  <2>1. Upto(h, N, 1) \in Counts(h, N, 1)
    BY <1>1, UptoCounts
  <2>2. Upto(h, N, 1)[0] = 0
    BY <2>1 DEF Counts
  <2>3. off[1] = 0 /\ Turns(f) = 0
    BY DEF Turns
  <2> HIDE DEF off, N
  <2>4. Reached(h, st, off) = off[1] + Upto(h, N, 1)[0]
    BY <1>3, <2>3 DEF Reached
  <2> QED
    BY <2>2, <2>3, <2>4
<1> HIDE DEF off
<1>7. ReadBefore(h, <<>>, 0)
  <2>1. <<>> \in Seq(Places(h)) /\ Len(<<>>) = 0
    OBVIOUS
  <2> QED
    BY <2>1 DEF ReadBefore
<1>8. Tracked(h, st, <<>>)
  BY DEF Tracked
<1>9. Counted(h, st, <<>>, 0)
  <2>1. \A k \in 1 .. 1 : st[k].repeat_tracker = {}
    OBVIOUS
  <2> QED
    BY <2>1, PickFirst DEF Counted
<1> QED
  BY <1>5, <1>6, <1>7, <1>8, <1>9 DEF Placed

-----------------------------------------------------------------------------
(* The invariant: the calls and what is read have their place in the order *)
(* of the header, whenever no block is gone to twice.                      *)
PlaceInv ==
    IsInjective(OrderOf(header)) =>
        /\ OnceRead(header, read)
        /\ pc = "fill" => read = <<>>
        /\ pc = "walk" => Placed(header, stack, read, err_flag)
        /\ pc = "collected" /\ WellMade(header) /\ err_flag = 0 => read = FlattenSeq(Wants(header))

LEMMA FrontParts ==
    ASSUME NEW S, NEW s \in Seq(S), s # <<>>
    PROVE  /\ Front(s) \in Seq(S) /\ Len(Front(s)) = Len(s) - 1
           /\ \A k \in 1 .. Len(s) - 1 : Front(s)[k] = s[k]
<1> DEFINE n == Len(s) - 1
<1>1. n \in Nat /\ n + 1 = Len(s) /\ \A k \in 1 .. n : s[k] \in S
  OBVIOUS
<1>2. Front(s) = [k \in 1 .. n |-> s[k]]
  BY DEF Front
<1> HIDE DEF n
<1>3. Front(s) \in Seq(S) /\ Len(Front(s)) = n /\ \A k \in 1 .. n : Front(s)[k] = s[k]
  BY <1>1, <1>2
<1> QED
  BY <1>3 DEF n

LEMMA TopSet ==
    ASSUME WalkInv, pc = "walk", NEW g, SetTop(g)
    PROVE  /\ Len(stack) \in Nat \ {0} /\ Top = stack[Len(stack)] /\ Top \in Frames
           /\ Len(stack') = Len(stack) /\ stack'[Len(stack)] = g
           /\ \A k \in 1 .. Len(stack) - 1 : stack'[k] = stack[k]
<1>1. stack \in Seq(Frames) /\ stack # <<>>
  BY DEF WalkInv, StackOK
<1>2. Len(stack) \in Nat \ {0} /\ DOMAIN stack = 1 .. Len(stack)
  BY <1>1
<1>3. stack' = [stack EXCEPT ![Len(stack)] = g]
  BY DEF SetTop
<1>4. Len(stack') = Len(stack) /\ stack'[Len(stack)] = g
  BY <1>1, <1>2, <1>3
<1>5. ASSUME NEW k \in 1 .. Len(stack) - 1 PROVE stack'[k] = stack[k]
  <2>1. k \in DOMAIN stack /\ k # Len(stack)
    <3> DEFINE n == Len(stack)
    <3>1. n \in Nat \ {0} /\ k \in 1 .. n - 1 /\ DOMAIN stack = 1 .. n
      BY <1>2
    <3> HIDE DEF n
    <3>2. k \in 1 .. n /\ k # n
      BY <3>1
    <3> QED
      BY <3>1, <3>2 DEF n
  <2> QED
    BY <1>3, <2>1
<1>6. Top = stack[Len(stack)] /\ Top \in Frames
  BY <1>1, <1>2 DEF Top, Last
<1> QED
  BY <1>2, <1>4, <1>5, <1>6

LEMMA DealsHere ==
    ASSUME WalkInv, NEW kinds, AtMessage(kinds), NEW g, SetTop(g),
           g.block = Top.block, g.bytes_read = Top.bytes_read, g.message_num = Top.message_num,
           g.switched \in BOOLEAN, g.switched
    PROVE  /\ Deals(header, stack, Len(stack), Top.block, Top.bytes_read + 1, stack', g)
           /\ Msg = header.blocks[Top.block][Top.bytes_read + 1] /\ Top = stack[Len(stack)]
<1>1. /\ Top = stack[Len(stack)] /\ Len(stack') = Len(stack) /\ stack'[Len(stack)] = g
      /\ \A k \in 1 .. Len(stack) - 1 : stack'[k] = stack[k]
  BY TopSet DEF AtMessage
<1>2. ~ Top.switched /\ Top.bytes_read < Len(header.blocks[Top.block])
  BY DEF AtMessage, MoreMessages, Block
<1> QED
  BY <1>1, <1>2 DEF Deals, Msg, Block

(* A message that is read, or passed over.                                 *)
LEMMA ReadKeeps ==
    ASSUME WalkInv, PlaceInv, NEW kinds, AtMessage(kinds), NEW g, SetTop(g), ReadInto(Msg),
           UNCHANGED <<header, pc>>,
           g.block = Top.block, g.bytes_read = Top.bytes_read, g.message_num = Top.message_num,
           g.switched \in BOOLEAN, g.switched,
           Msg.kind \in OnceKinds \cup AttrKinds,
           Msg.kind \in OnceKinds => Msg.kind \notin Top.repeat_tracker,
           g.repeat_tracker = Top.repeat_tracker \cup (IF Msg.kind \in OnceKinds THEN {Msg.kind} ELSE {})
    PROVE  PlaceInv'
<1>1. pc = "walk" /\ header \in Headers
  BY DEF AtMessage, WalkInv, StackOK
<1> DEFINE b == Top.block
           i == Top.bytes_read + 1
           n == Len(stack)
<1>2. /\ Deals(header, stack, n, b, i, stack', g)
      /\ Msg = header.blocks[b][i] /\ Top = stack[n]
  BY DealsHere
<1>3. read' = Append(read, <<b, i>>) /\ (err_flag' = 0 => err_flag = 0)
  BY DEF ReadInto
<1> SUFFICES ASSUME IsInjective(OrderOf(header))
             PROVE  OnceRead(header, read') /\ Placed(header, stack', read', err_flag')
  BY <1>1 DEF PlaceInv
<1>4. Placed(header, stack, read, err_flag) /\ OnceRead(header, read)
  BY <1>1 DEF PlaceInv
<1> DEFINE kind == Msg.kind
<1>5. /\ kind = header.blocks[b][i].kind /\ kind \in OnceKinds \cup AttrKinds
      /\ kind \in OnceKinds => kind \notin stack[n].repeat_tracker
      /\ g.repeat_tracker = stack[n].repeat_tracker \cup (IF kind \in OnceKinds THEN {kind} ELSE {})
  BY <1>2
<1> HIDE DEF b, i, n, kind
<1> QED
  BY <1>1, <1>2, <1>3, <1>4, <1>5, NewRead

LEMMA PassKeeps ==
    ASSUME WalkInv, PlaceInv, NEW kinds, AtMessage(kinds), NEW g, SetTop(g),
           UNCHANGED <<header, pc, read>>, err_flag' = 0 => err_flag = 0 /\ Msg.kind # "cont",
           g.block = Top.block, g.bytes_read = Top.bytes_read, g.message_num = Top.message_num,
           g.switched \in BOOLEAN, g.switched,
           Msg.kind \notin AttrKinds,
           Msg.kind \in OnceKinds => Msg.kind \in Top.repeat_tracker,
           g.repeat_tracker = Top.repeat_tracker
    PROVE  PlaceInv'
<1>1. pc = "walk" /\ header \in Headers
  BY DEF AtMessage, WalkInv, StackOK
<1> DEFINE b == Top.block
           i == Top.bytes_read + 1
           n == Len(stack)
           kind == Msg.kind
<1>2. /\ Deals(header, stack, n, b, i, stack', g)
      /\ Msg = header.blocks[b][i] /\ Top = stack[n]
  BY DealsHere
<1>3. kind \in Kinds
  BY MsgType DEF WalkInv
<1> SUFFICES ASSUME IsInjective(OrderOf(header))
             PROVE  Placed(header, stack', read, err_flag')
  BY <1>1 DEF PlaceInv
<1>4. Placed(header, stack, read, err_flag)
  BY <1>1 DEF PlaceInv
<1>5. /\ kind = header.blocks[b][i].kind /\ kind \in Kinds /\ kind \notin AttrKinds
      /\ kind \in OnceKinds => kind \in stack[n].repeat_tracker
      /\ g.repeat_tracker = stack[n].repeat_tracker
      /\ err_flag' = 0 => err_flag = 0 /\ kind # "cont"
  BY <1>2, <1>3
<1> HIDE DEF b, i, n, kind
<1> QED
  BY <1>1, <1>2, <1>4, <1>5, NoRead

(* The return from a call, at its end or after an error.                   *)
LEMMA ReturnPlaced ==
    ASSUME WalkInv, PlaceInv, pc = "walk", NEW num, ReturnTo(num), UNCHANGED <<header, err_flag, read>>,
           err_flag = 0 => ~ Top.switched /\ ~ MoreMessages /\ num = (Top.message_num - 1) % NumMsgsMod
    PROVE  PlaceInv'
<1> DEFINE n == Len(stack)
           rest == Front(stack)
<1>1. /\ header \in Headers /\ stack \in Seq(Frames) /\ stack # <<>> /\ n \in Nat \ {0}
      /\ Top = stack[n]
  BY DEF WalkInv, StackOK, Top, Last
<1>2. rest \in Seq(Frames) /\ Len(rest) = n - 1 /\ \A k \in 1 .. n - 1 : rest[k] = stack[k]
  BY <1>1, FrontParts
<1> SUFFICES ASSUME IsInjective(OrderOf(header))
             PROVE  /\ pc' = "walk" => Placed(header, stack', read, err_flag)
                    /\ pc' = "collected" /\ WellMade(header) /\ err_flag = 0 => read = FlattenSeq(Wants(header))
                    /\ pc' # "fill"
  <2>1. pc' # "fill"
    BY DEF ReturnTo
  <2> QED
    BY <2>1 DEF PlaceInv
<1>3. Placed(header, stack, read, err_flag)
  BY DEF PlaceInv
<1>4. CASE rest = <<>>
  <2>1. pc' = "collected" /\ n = 1
    BY <1>1, <1>2, <1>4 DEF ReturnTo
  <2>2. ASSUME WellMade(header), err_flag = 0 PROVE read = FlattenSeq(Wants(header))
    <3>1. /\ ~ stack[1].switched
          /\ ~ (stack[1].message_num < header.num_msgs /\ stack[1].bytes_read < Len(header.blocks[stack[1].block]))
      BY <1>1, <2>1, <2>2 DEF MoreMessages, Block
    <3> QED
      BY <1>1, <1>3, <2>1, <2>2, <3>1, AllRead
  <2> QED
    BY <2>1, <2>2
<1>5. CASE rest # <<>>
  <2>1. pc' = "walk" /\ stack' = [rest EXCEPT ![Len(rest)].message_num = num]
    BY <1>5 DEF ReturnTo
  <2>2. n > 1 /\ n - 1 \in 1 .. Len(rest)
    BY <1>1, <1>2, <1>5
  <2> DEFINE f == [rest[n - 1] EXCEPT !.message_num = num]
  <2>3. rest[n - 1] = stack[n - 1] /\ rest[n - 1] \in Frames
    BY <1>2, <2>2
  <2>4. /\ f.block = stack[n - 1].block /\ f.bytes_read = stack[n - 1].bytes_read
        /\ f.switched = stack[n - 1].switched /\ f.repeat_tracker = stack[n - 1].repeat_tracker
        /\ f.message_num = num
    BY <2>3 DEF Frames
  <2>5. stack' = [rest EXCEPT ![n - 1] = f]
    BY <1>2, <2>1, <2>2
  <2> HIDE DEF f
  <2>6. Len(stack') = n - 1 /\ stack'[n - 1] = f /\ \A k \in 1 .. n - 2 : stack'[k] = stack[k]
    BY <1>1, <1>2, <2>2, <2>5
  <2>7. Returns(stack, n, f, stack')
    BY <2>2, <2>4, <2>6 DEF Returns
  <2>8. err_flag = 0 =>
            /\ ~ stack[n].switched
            /\ ~ (stack[n].message_num < header.num_msgs /\ stack[n].bytes_read < Len(header.blocks[stack[n].block]))
            /\ f.message_num = (stack[n].message_num - 1) % NumMsgsMod
    BY <1>1, <2>4 DEF MoreMessages, Block
  <2> HIDE DEF n, rest
  <2>9. Placed(header, stack', read, err_flag)
    BY <1>1, <1>3, <2>7, <2>8, ReturnMade
  <2> QED
    BY <2>1, <2>9
<1> QED
  BY <1>4, <1>5

(* A continuation that is followed.                                        *)
LEMMA FollowPlaced ==
    ASSUME WalkInv, PlaceInv, Continuation
    PROVE  PlaceInv'
<1> DEFINE n   == Len(stack)
           num == Top.message_num + 1
           f   == [Top EXCEPT !.message_num = num, !.switched = TRUE]
           g   == Frame(Msg.to, num, Top.repeat_tracker)
<1>1. /\ pc = "walk" /\ header \in Headers /\ stack \in Seq(Frames) /\ stack # <<>>
      /\ n \in Nat \ {0} /\ Top = stack[n] /\ Top \in Frames
  BY DEF Continuation, AtMessage, WalkInv, StackOK, Top, Last
<1>2. stack' = Append(Front(stack) \o <<f>>, g) /\ UNCHANGED <<header, pc, err_flag, read>>
  BY DEF Continuation
<1>3. Front(stack) \in Seq(Frames) /\ Len(Front(stack)) = n - 1 /\ \A k \in 1 .. n - 1 : Front(stack)[k] = stack[k]
  BY <1>1, FrontParts
<1>4. f \in Frames /\ g \in Frames
  <2>1. Msg.to \in DOMAIN header.blocks
    BY MsgType DEF Continuation, WalkInv
  <2>2. num \in Nat
    BY <1>1 DEF Frames
  <2>3. g \in Frames
    BY <1>1, <2>1, <2>2 DEF Frames, Frame
  <2>4. f \in Frames
    BY <1>1, <2>2 DEF Frames
  <2> QED
    BY <2>3, <2>4
<1>5. /\ f.block = Top.block /\ f.bytes_read = Top.bytes_read /\ f.switched \in BOOLEAN /\ f.switched
      /\ f.repeat_tracker = Top.repeat_tracker
      /\ g.block = Msg.to /\ g.bytes_read = 0 /\ g.switched \in BOOLEAN /\ ~ g.switched
      /\ g.message_num = Top.message_num + 1 /\ g.repeat_tracker = Top.repeat_tracker
  BY <1>1 DEF Frames, Frame
<1>6. /\ ~ Top.switched /\ Top.bytes_read < Len(header.blocks[Top.block])
      /\ Msg.kind = "cont" /\ Msg = header.blocks[Top.block][Top.bytes_read + 1]
  BY DEF Continuation, AtMessage, MoreMessages, Block, Msg
<1> HIDE DEF f, g, n
<1>7. Len(stack') = n + 1 /\ stack'[n] = f /\ stack'[n + 1] = g /\ \A k \in 1 .. n - 1 : stack'[k] = stack[k]
  <2> DEFINE s == Front(stack) \o <<f>>
  <2>1. /\ s \in Seq(Frames) /\ Len(s) = n /\ s[n] = f
        /\ \A k \in 1 .. n - 1 : s[k] = stack[k]
    <3> DEFINE r == Front(stack)
    <3>1. Append(r, f) = s
      BY <1>3, <1>4
    <3>2. r \in Seq(Frames) /\ Len(r) = n - 1 /\ \A k \in 1 .. n - 1 : r[k] = stack[k]
      BY <1>3
    <3> HIDE DEF s, r
    <3>3. s \in Seq(Frames) /\ Len(s) = n
      BY <1>1, <1>4, <3>1, <3>2
    <3>4. s[n] = f
      BY <1>1, <1>4, <3>1, <3>2
    <3>5. \A k \in 1 .. n - 1 : s[k] = stack[k]
      BY <1>1, <1>4, <3>1, <3>2
    <3> QED
      BY <3>3, <3>4, <3>5
  <2> HIDE DEF s
  <2>2. stack' = Append(s, g)
    BY <1>2 DEF s
  <2> QED
    BY <1>1, <1>4, <2>1, <2>2
<1>8. Follows(header, stack, n, f, g, stack')
  BY <1>1, <1>5, <1>6, <1>7 DEF Follows, n
<1> SUFFICES ASSUME IsInjective(OrderOf(header))
             PROVE  Placed(header, stack', read, err_flag)
  BY <1>1, <1>2 DEF PlaceInv
<1>9. Placed(header, stack, read, err_flag)
  BY <1>1 DEF PlaceInv
<1> QED
  BY <1>1, <1>5, <1>8, <1>9, CallMade

LEMMA NextPlaced ==
    ASSUME WalkInv, PlaceInv, NextMessage
    PROVE  PlaceInv'
<1> DEFINE n == Len(stack)
           g == [Top EXCEPT !.switched = FALSE, !.bytes_read = @ + 1, !.message_num = @ + 1]
<1>1. /\ pc = "walk" /\ header \in Headers /\ Top.switched /\ SetTop(g)
      /\ UNCHANGED <<header, pc, err_flag, read>>
  BY DEF NextMessage, WalkInv, StackOK
<1>2. Top \in Frames
  BY <1>1, TopSet
<1>3. /\ g.block = Top.block /\ g.bytes_read = Top.bytes_read + 1 /\ g.switched \in BOOLEAN /\ ~ g.switched
      /\ g.message_num = Top.message_num + 1 /\ g.repeat_tracker = Top.repeat_tracker
  BY <1>2 DEF Frames
<1> HIDE DEF g
<1>4. /\ n \in Nat \ {0} /\ Top = stack[n] /\ Len(stack') = n /\ stack'[n] = g
      /\ \A k \in 1 .. n - 1 : stack'[k] = stack[k]
  BY <1>1, TopSet
<1> SUFFICES ASSUME IsInjective(OrderOf(header))
             PROVE  Placed(header, stack', read, err_flag)
  BY <1>1 DEF PlaceInv
<1>5. Placed(header, stack, read, err_flag)
  BY <1>1 DEF PlaceInv
<1> QED
  BY <1>1, <1>3, <1>4, <1>5, TurnEnds

LEMMA PlaceInit == HeaderInit => PlaceInv
<1> SUFFICES ASSUME HeaderInit PROVE PlaceInv
  OBVIOUS
<1>1. pc = "fill" /\ read = <<>>
  BY DEF HeaderInit
<1>2. OnceRead(header, read)
  BY <1>1 DEF OnceRead
<1> QED
  BY <1>1, <1>2 DEF PlaceInv

LEMMA PlaceStep == WalkInv /\ PlaceInv /\ [HeaderNext]_headerVars => PlaceInv'
<1> SUFFICES ASSUME WalkInv, PlaceInv, [HeaderNext]_headerVars PROVE PlaceInv'
  OBVIOUS
<1>1. CASE FillObjectHeader
  <2> DEFINE f == Frame(1, 0, {})
  <2>1. /\ header \in Headers /\ (IsInjective(OrderOf(header)) => read = <<>>)
        /\ stack' = <<f>> /\ pc' = "walk" /\ UNCHANGED <<header, err_flag, read>>
    BY <1>1 DEF FillObjectHeader, PlaceInv, WalkInv, StackOK
  <2>2. /\ f.block = 1 /\ f.bytes_read = 0 /\ f.message_num = 0 /\ f.repeat_tracker = {}
        /\ f.switched \in BOOLEAN /\ ~ f.switched
    BY DEF Frame
  <2> HIDE DEF f
  <2>3. Len(stack') = 1 /\ f = stack'[1]
    BY <2>1
  <2> SUFFICES ASSUME IsInjective(OrderOf(header)) PROVE PlaceInv'
    BY <2>1 DEF PlaceInv
  <2>4. header \in Headers /\ read = <<>>
    BY <2>1
  <2>5. Placed(header, stack', read, err_flag)
    BY <2>2, <2>3, <2>4, FirstPlaced
  <2>6. OnceRead(header, read)
    BY DEF PlaceInv
  <2> QED
    BY <2>1, <2>5, <2>6 DEF PlaceInv
<1>2. CASE OnceMessage
  <2> DEFINE g == [Top EXCEPT !.switched = TRUE, !.repeat_tracker = @ \cup {Msg.kind}]
  <2>1. /\ AtMessage(OnceKinds) /\ SetTop(g) /\ UNCHANGED <<header, pc>>
        /\ \/ Msg.kind \notin Top.repeat_tracker /\ ReadInto(Msg)
           \/ Msg.kind \in Top.repeat_tracker /\ UNCHANGED <<err_flag, read>>
    BY <1>2 DEF OnceMessage
  <2>2. Top \in Frames /\ Msg.kind \in OnceKinds
    BY <2>1, TopSet DEF AtMessage
  <2>3. /\ g.block = Top.block /\ g.bytes_read = Top.bytes_read /\ g.message_num = Top.message_num
        /\ g.switched \in BOOLEAN /\ g.switched
        /\ g.repeat_tracker = Top.repeat_tracker \cup {Msg.kind}
    BY <2>2 DEF Frames
  <2> HIDE DEF g
  <2>4. CASE Msg.kind \notin Top.repeat_tracker /\ ReadInto(Msg)
    BY <2>1, <2>2, <2>3, <2>4, ReadKeeps
  <2>5. CASE Msg.kind \in Top.repeat_tracker /\ UNCHANGED <<err_flag, read>>
    <3>1. Msg.kind \notin AttrKinds /\ Msg.kind # "cont" /\ g.repeat_tracker = Top.repeat_tracker
      BY <2>2, <2>3, <2>5 DEF OnceKinds, AttrKinds
    <3> QED
      BY <2>1, <2>2, <2>3, <2>5, <3>1, PassKeeps
  <2> QED
    BY <2>1, <2>4, <2>5
<1>3. CASE AttributeMessage
  <2> DEFINE g == [Top EXCEPT !.switched = TRUE]
  <2>1. AtMessage(AttrKinds) /\ SetTop(g) /\ UNCHANGED <<header, pc>> /\ ReadInto(Msg)
    BY <1>3 DEF AttributeMessage
  <2>2. Top \in Frames /\ Msg.kind \in AttrKinds /\ Msg.kind \notin OnceKinds
    BY <2>1, TopSet DEF AtMessage, AttrKinds, OnceKinds
  <2>3. /\ g.block = Top.block /\ g.bytes_read = Top.bytes_read /\ g.message_num = Top.message_num
        /\ g.switched \in BOOLEAN /\ g.switched
        /\ g.repeat_tracker = Top.repeat_tracker
    BY <2>2 DEF Frames
  <2> HIDE DEF g
  <2> QED
    BY <2>1, <2>2, <2>3, ReadKeeps
<1>4. CASE OtherMessage \/ BadContinuation
  <2> DEFINE g == [Top EXCEPT !.switched = TRUE]
             kind == Msg.kind
  <2>1. PICK kinds \in {{"other"}, {"cont"}} :
            /\ AtMessage(kinds) /\ SetTop(g) /\ UNCHANGED <<header, pc, read>>
            /\ \/ kind = "other" /\ err_flag' = err_flag
               \/ kind = "cont" /\ err_flag' = 1
    <3>1. CASE OtherMessage
      <4>1. AtMessage({"other"}) /\ SetTop(g) /\ UNCHANGED <<header, pc, err_flag, read>>
        BY <3>1 DEF OtherMessage
      <4>2. kind = "other"
        BY <4>1 DEF AtMessage
      <4> QED
        BY <4>1, <4>2
    <3>2. CASE BadContinuation
      <4>1. AtMessage({"cont"}) /\ SetTop(g) /\ UNCHANGED <<header, pc, read>> /\ err_flag' = 1
        BY <3>2 DEF BadContinuation
      <4>2. kind = "cont"
        BY <4>1 DEF AtMessage
      <4> QED
        BY <4>1, <4>2
    <3> QED
      BY <1>4, <3>1, <3>2
  <2>2. Top \in Frames /\ kind \notin AttrKinds /\ kind \notin OnceKinds
    BY <2>1, TopSet DEF AtMessage, AttrKinds, OnceKinds
  <2>3. /\ g.block = Top.block /\ g.bytes_read = Top.bytes_read /\ g.message_num = Top.message_num
        /\ g.switched \in BOOLEAN /\ g.switched
        /\ g.repeat_tracker = Top.repeat_tracker
    BY <2>2 DEF Frames
  <2>4. err_flag' = 0 => err_flag = 0 /\ kind # "cont"
    BY <2>1
  <2> HIDE DEF g
  <2> QED
    BY <2>1, <2>2, <2>3, <2>4, PassKeeps
<1>5. CASE Continuation
  BY <1>5, FollowPlaced
<1>6. CASE NextMessage
  BY <1>6, NextPlaced
<1>7. CASE BlockRead
  <2>1. /\ pc = "walk" /\ ReturnTo((Top.message_num - 1) % NumMsgsMod) /\ UNCHANGED <<header, err_flag, read>>
        /\ ~ Top.switched /\ ~ MoreMessages
    BY <1>7 DEF BlockRead
  <2> QED
    BY <2>1, ReturnPlaced
<1>8. CASE GiveUp
  <2>1. pc = "walk" /\ ReturnTo(header.num_msgs) /\ UNCHANGED <<header, err_flag, read>> /\ err_flag # 0
    BY <1>8 DEF GiveUp
  <2> QED
    BY <2>1, ReturnPlaced
<1>9. CASE FillRest
  <2>1. pc' = "filled" /\ UNCHANGED <<header, read>>
    BY <1>9 DEF FillRest
  <2> QED
    BY <2>1 DEF PlaceInv
<1>10. CASE Filled \/ UNCHANGED headerVars
  BY <1>10 DEF Filled, headerVars, PlaceInv
<1> QED
  BY <1>1, <1>2, <1>3, <1>4, <1>5, <1>6, <1>7, <1>8, <1>9, <1>10 DEF HeaderNext, Interpret

LEMMA PlaceAlways == HeaderSpec => [](WalkInv /\ PlaceInv)
<1>1. WalkInv /\ PlaceInv /\ [HeaderNext]_headerVars => (WalkInv /\ PlaceInv)'
  BY WalkStep, PlaceStep
<1> QED
  BY WalkInit, PlaceInit, <1>1, PTL DEF HeaderSpec

(* Whatever the continuations of a header that goes to no block twice, no  *)
(* call of interpretMessages reads a message of the kinds it tracks again, *)
(* neither in its own turns nor after a continuation has brought it back.  *)
THEOREM ReadOnceInBlockInvariant == HeaderSpec => []ReadOnceInBlock
<1>1. WalkInv /\ PlaceInv => ReadOnceInBlock
  BY OrderIs DEF PlaceInv, OnceRead, ReadOnceInBlock, KindOf, MsgAt, Block
<1> QED
  BY PlaceAlways, <1>1, PTL

(* Of every well-formed header, of any number of blocks nested in any way, *)
(* and with up to NumMsgsMod - 1 messages, interpretMessages has read each *)
(* message once and in order when the count it carries through its calls   *)
(* has run out.                                                            *)
THEOREM EveryMessageReadInvariant == HeaderSpec => []EveryMessageRead
<1>1. ASSUME WalkInv, PlaceInv PROVE EveryMessageRead
  <2>1. header \in Headers
    BY <1>1 DEF WalkInv, StackOK
  <2>2. WellFormed => WellMade(header)
    BY OrderIs DEF WellFormed, WellMade, KindOf, MsgAt, Block
  <2>3. DOMAIN Order = 1 .. Len(OrderOf(header))
    BY <2>1, OrderIs, OrderLies
  <2>4. [k \in DOMAIN Order |-> IF MsgAt(Order[k]).kind \in OnceKinds \cup AttrKinds THEN <<Order[k]>> ELSE <<>>]
            = Wants(header)
    BY <2>3, OrderIs DEF Wants, KindOf, MsgAt, Block
  <2>5. WellMade(header) => IsInjective(OrderOf(header))
    BY DEF WellMade
  <2> QED
    BY <1>1, <2>2, <2>4, <2>5 DEF PlaceInv, EveryMessageRead
<1> QED
  BY PlaceAlways, <1>1, PTL

-----------------------------------------------------------------------------
(* What the readers make of the object, field by field, from the messages  *)
(* seen of each kind.                                                      *)
DataFields ==
    {"dims", "num_dims", "num_elems", "elem_size", "type", "byte_order", "complex", "class", "sparse_type",
     "is_struct_array", "is_sparse", "is_empty", "layout_class", "chunked_dims", "update_dims", "filters"}
IsData(d) == d = [f \in DataFields |-> d[f]]

TypeMade(d, types) ==
    /\ Head(types).size # 0 => d.elem_size = Head(types).size
    /\ d.type = Last(types).type
    /\ d.complex <=> \E k \in DOMAIN types : types[k].real

LEMMA NewIsData == IsData(NewData)
  BY DEF IsData, NewData, DataFields

CanTake(d, t) == IsData(d) /\ d.complex \in BOOLEAN /\ t.real \in BOOLEAN
Taken(d, t, e) ==
    /\ IsData(e)
    /\ e.elem_size = IF d.elem_size = 0 THEN t.size ELSE d.elem_size
    /\ e.type = t.type
    /\ e.complex \in BOOLEAN /\ (e.complex <=> d.complex \/ t.real)
    /\ \A f \in DataFields \ {"elem_size", "type", "complex", "byte_order"} : e[f] = d[f]

LEMMA TypeStep ==
    ASSUME NEW d, NEW t, CanTake(d, t)
    PROVE  Taken(d, t, ReadType(d, t))
<1> USE DEF CanTake
<1>1. DOMAIN d = DataFields
  BY DEF IsData
<1>2. IsData(ReadType(d, t))
  BY <1>1 DEF IsData, ReadType, DataFields
<1>3. ReadType(d, t).elem_size = IF d.elem_size = 0 THEN t.size ELSE d.elem_size
  BY <1>1 DEF ReadType, DataFields
<1>4. ReadType(d, t).type = t.type
  BY <1>1 DEF ReadType, DataFields
<1>5. ReadType(d, t).complex \in BOOLEAN /\ (ReadType(d, t).complex <=> d.complex \/ t.real)
  BY <1>1 DEF ReadType, DataFields
<1>6. \A f \in DataFields \ {"elem_size", "type", "complex", "byte_order"} : ReadType(d, t)[f] = d[f]
  BY <1>1 DEF ReadType, DataFields
<1> QED
  BY <1>2, <1>3, <1>4, <1>5, <1>6 DEF Taken

(* Of a compound's types the first gives the size, the last the type.      *)
LEMMA TypesMade ==
    ASSUME NEW d, IsData(d), d.elem_size = 0, d.complex \in BOOLEAN, ~ d.complex,
           NEW msg, msg.good, NEW types, types = msg.types, types \in Seq(ToSet(types)), types # <<>>,
           \A t \in ToSet(types) : t.size \in Nat /\ t.real \in BOOLEAN
    PROVE  LET e == ReadDataType(d, msg).obj
           IN  /\ IsData(e) /\ e.complex \in BOOLEAN /\ TypeMade(e, types)
               /\ \A f \in DataFields \ {"elem_size", "type", "complex", "byte_order"} : e[f] = d[f]
<1> DEFINE n == Len(types)
           V == {d[f] : f \in DataFields} \cup {types[k].size : k \in 1 .. n} \cup {types[k].type : k \in 1 .. n}
                  \cup {types[k].order : k \in 1 .. n} \cup BOOLEAN \cup {"little"}
           S == {e \in [DataFields -> V] : e.complex \in BOOLEAN}
           step == [x \in (1 .. n) \X S |-> ReadType(x[2], types[x[1]])]
           G(r) == [k \in 0 .. n |-> IF k = 0 THEN d ELSE ReadType(r[k - 1], types[k])]
           R == CHOOSE r : r = G(r)
<1>1. n \in Nat \ {0} /\ DOMAIN types = 1 .. n
  OBVIOUS
<1>2. ASSUME NEW k \in 1 .. n PROVE types[k].size \in Nat /\ types[k].real \in BOOLEAN
  <2>1. types[k] \in ToSet(types)
    BY <1>1 DEF ToSet
  <2> QED
    BY <2>1
<1>3. d \in S
  <2>1. [f \in DataFields |-> d[f]] \in [DataFields -> V]
    OBVIOUS
  <2> QED
    BY <2>1 DEF IsData
<1>4. ASSUME NEW e \in S, NEW k \in 1 .. n
      PROVE  /\ ReadType(e, types[k]) \in S
             /\ IsData(e)
  <2>1. e \in [DataFields -> V] /\ e.complex \in BOOLEAN /\ IsData(e)
    BY DEF IsData
  <2> DEFINE t == types[k]
             f == ReadType(e, t)
  <2>2. f.complex \in BOOLEAN
    <3>1. CanTake(e, t)
      BY <1>2, <2>1 DEF CanTake
    <3> HIDE DEF t
    <3>2. Taken(e, t, f)
      BY <3>1, TypeStep
    <3> QED
      BY <3>2 DEF Taken
  <2>3. /\ types[k].size \in V /\ types[k].type \in V /\ types[k].order \in V /\ "little" \in V
        /\ TRUE \in V /\ FALSE \in V
    OBVIOUS
  <2> HIDE DEF V
  <2>4. ReadType(e, types[k]) \in [DataFields -> V]
    BY <2>1, <2>3 DEF ReadType, DataFields
  <2> QED
    BY <2>1, <2>2, <2>4
<1>5. step \in [(1 .. n) \X S -> S]
  <2> HIDE DEF S, n
  <2> QED
    BY <1>4
<1>6. PICK r : r \in Walks(n, S, d, step)
  <2>1. n \in Nat
    BY <1>1
  <2> HIDE DEF S, step, n
  <2> QED
    BY <1>3, <1>5, <2>1, WalkExists
<1>7. r \in [0 .. n -> S] /\ r[0] = d /\ \A k \in 1 .. n : r[k] = ReadType(r[k - 1], types[k])
  <2>1. r \in [0 .. n -> S] /\ r[0] = d /\ \A k \in 1 .. n : r[k] = step[<<k, r[k - 1]>>]
    BY <1>6 DEF Walks
  <2> HIDE DEF S
  <2>2. \A k \in 1 .. n : step[<<k, r[k - 1]>>] = ReadType(r[k - 1], types[k])
    BY <1>1, <2>1
  <2> HIDE DEF step
  <2> QED
    BY <2>1, <2>2
<1> HIDE DEF S, step
<1>8. r = G(r)
  BY <1>1, <1>7
<1>9. R = G(R)
  BY <1>8
<1> HIDE DEF R
<1>10. R[0] = d /\ \A k \in 1 .. n : R[k] = ReadType(R[k - 1], types[k])
  <2>1. \A k \in 0 .. n : G(R)[k] = IF k = 0 THEN d ELSE ReadType(R[k - 1], types[k])
    OBVIOUS
  <2>2. 0 \in 0 .. n /\ \A k \in 1 .. n : k \in 0 .. n /\ k # 0
    BY <1>1
  <2> HIDE DEF G, n
  <2>3. \A k \in 0 .. n : R[k] = IF k = 0 THEN d ELSE ReadType(R[k - 1], types[k])
    BY <1>9, <2>1
  <2> QED
    BY <2>2, <2>3
<1> HIDE DEF G
<1> DEFINE Good(k, e) ==
              /\ IsData(e) /\ e.complex \in BOOLEAN
              /\ k >= 1 => e.type = types[k].type
              /\ k >= 1 /\ types[1].size # 0 => e.elem_size = types[1].size
              /\ k = 0 => e.elem_size = 0
              /\ e.complex <=> \E l \in 1 .. k : types[l].real
              /\ \A f \in DataFields \ {"elem_size", "type", "complex", "byte_order"} : e[f] = d[f]
           T == {k \in 0 .. n : Good(k, R[k])}
<1>11. 0 \in T
  BY <1>1, <1>10
<1>12. ASSUME NEW k \in 1 .. n, k - 1 \in T PROVE k \in T
  <2> DEFINE p == R[k - 1]
             e == R[k]
             t == types[k]
  <2>1. Good(k - 1, p)
    BY <1>12
  <2>2. e = ReadType(p, t)
    BY <1>10
  <2>3. t.size \in Nat /\ t.real \in BOOLEAN
    BY <1>2
  <2> HIDE DEF p, e, t
  <2>4. /\ IsData(e)
        /\ e.elem_size = IF p.elem_size = 0 THEN t.size ELSE p.elem_size
        /\ e.type = t.type
        /\ e.complex \in BOOLEAN
        /\ e.complex <=> p.complex \/ t.real
        /\ \A f \in DataFields \ {"elem_size", "type", "complex", "byte_order"} : e[f] = p[f]
    <3>1. CanTake(p, t)
      BY <2>1, <2>3 DEF CanTake
    <3>2. Taken(p, t, e)
      BY <2>2, <3>1, TypeStep
    <3> QED
      BY <3>2 DEF Taken
  <2>5. e.complex <=> \E l \in 1 .. k : types[l].real
    <3>1. p.complex <=> \E l \in 1 .. k - 1 : types[l].real
      BY <2>1
    <3>2. \A l \in 1 .. k : l \in 1 .. k - 1 \/ l = k
      OBVIOUS
    <3>3. k \in 1 .. k /\ \A l \in 1 .. k - 1 : l \in 1 .. k
      OBVIOUS
    <3> QED
      BY <2>4, <3>1, <3>2, <3>3 DEF t
  <2>6. types[1].size # 0 => e.elem_size = types[1].size
    BY <1>1, <2>1, <2>4 DEF t
  <2>7. k >= 1 /\ k # 0
    OBVIOUS
  <2>8. e.type = types[k].type
    BY <2>4 DEF t
  <2>9. \A f \in DataFields \ {"elem_size", "type", "complex", "byte_order"} : e[f] = d[f]
    BY <2>1, <2>4
  <2> QED
    BY <2>4, <2>5, <2>6, <2>7, <2>8, <2>9 DEF e
<1> HIDE DEF T
<1>13. n \in T
  <2>1. n \in Nat /\ n \in 0 .. n
    BY <1>1
  <2> HIDE DEF n
  <2>2. \A k \in 0 .. n : k \in T
    BY <1>11, <1>12, <2>1, InductionUpTo
  <2> QED
    BY <2>1, <2>2
<1>14. Good(n, R[n])
  BY <1>13 DEF T
<1>15. ReadDataType(d, msg).obj = R[n]
  BY DEF ReadDataType, Read, R, G
<1>16. TypeMade(R[n], types)
  <2>1. Head(types) = types[1] /\ Last(types) = types[n]
    BY <1>1 DEF Last
  <2> QED
    BY <1>1, <1>14, <2>1 DEF TypeMade
<1> QED
  BY <1>14, <1>15, <1>16


-----------------------------------------------------------------------------
(* What an object is when the messages of seen have been read, in whatever *)
(* order they came; seen has those of each kind.                           *)
MadeType(d, seen) ==
    /\ d.complex \in BOOLEAN
    /\ seen["type"] = {} => d.type = "unknown" /\ d.elem_size = 0 /\ ~ d.complex
    /\ \A m \in seen["type"] : TypeMade(d, m.types)
MadeSpace(d, seen) ==
    seen["sparse"] = {} =>
        /\ d.dims \in Seq(Nat) /\ d.num_dims = Len(d.dims)
        /\ \A m \in seen["space"] : d.dims = Reverse(m.dims) /\ d.num_elems = NumElems(d.dims)
MadeLayout(d, seen) ==
    /\ seen["layout"] = {} => d.layout_class = NoData
    /\ \A m \in seen["layout"] :
        /\ d.layout_class = m.class
        /\ m.class = Chunked /\ seen["sparse"] = {} => \A s \in seen["space"] : d.update_dims = Reverse(s.dims)
NamedBy(seen, class) ==
    /\ seen["class"] = {} /\ seen["decode"] = {} => class = "unknown"
    /\ \A m \in seen["class"] : class = SelectMatlabClass(m.name, "unknown")
    /\ \A m \in seen["decode"] : class = m.hint
MadeFlags(d, seen) ==
    /\ d.is_sparse \in BOOLEAN /\ (d.is_sparse <=> seen["sparse"] # {})
    /\ d.is_empty \in BOOLEAN /\ (d.is_empty <=> seen["empty"] # {})

Made(d, seen) ==
    /\ IsData(d)
    /\ MadeType(d, seen) /\ MadeSpace(d, seen) /\ MadeLayout(d, seen)
    /\ NamedBy(seen, d.class) /\ MadeFlags(d, seen)

(* A message is read that none of those seen forbids.                      *)
Fits(msg) ==
    /\ msg.kind \in OnceKinds \cup AttrKinds /\ msg.good \in BOOLEAN
    /\ msg.kind = "space" => msg.dims \in Seq(Nat)
    /\ msg.kind = "type" =>
        /\ msg.types \in Seq(ToSet(msg.types)) \ {<<>>}
        /\ \A t \in ToSet(msg.types) : t.size \in Nat /\ t.real \in BOOLEAN
Fresh(seen, msg) ==
    /\ msg.kind \in OnceKinds => seen[msg.kind] = {}
    /\ msg.kind = "space" => seen["layout"] = {}
    /\ msg.kind \in {"class", "decode"} => seen["class"] = {} /\ seen["decode"] = {}
Adds(seen, msg, su) ==
    /\ su[msg.kind] = seen[msg.kind] \cup {msg}
    /\ \A k \in OnceKinds \cup AttrKinds : k # msg.kind => su[k] = seen[k]
Reads(d, seen, msg, su) == Made(d, seen) /\ Fits(msg) /\ Fresh(seen, msg) /\ Adds(seen, msg, su)

Keeps(d, e, fields) == IsData(e) /\ \A f \in DataFields \ fields : e[f] = d[f]

LEMMA KindsApart ==
    /\ {"space", "type", "layout", "pipeline"} \subseteq OnceKinds \cup AttrKinds
    /\ {"class", "sparse", "empty", "decode"} \subseteq OnceKinds \cup AttrKinds
    /\ {"space", "type", "layout", "pipeline"} \subseteq OnceKinds
BY DEF OnceKinds, AttrKinds

(* A part of the object that a message is not about is as it was.          *)
LEMMA PartsKept ==
    ASSUME NEW d, NEW seen, NEW msg, NEW su, Reads(d, seen, msg, su), NEW e, NEW F, Keeps(d, e, F)
    PROVE  /\ msg.kind # "type" /\ F \cap {"type", "elem_size", "complex"} = {} => MadeType(e, su)
           /\ /\ msg.kind \notin {"space", "sparse"}
              /\ F \cap {"dims", "num_dims", "num_elems"} = {}
              => MadeSpace(e, su)
           /\ /\ msg.kind \notin {"space", "layout", "sparse"}
              /\ F \cap {"layout_class", "update_dims"} = {}
              => MadeLayout(e, su)
           /\ msg.kind \notin {"class", "decode"} /\ F \cap {"class"} = {} => NamedBy(su, e.class)
           /\ msg.kind \notin {"sparse", "empty"} /\ F \cap {"is_sparse", "is_empty"} = {} => MadeFlags(e, su)
<1> USE DEF Reads, Made
<1>1. \A k \in OnceKinds \cup AttrKinds : k # msg.kind => su[k] = seen[k]
  BY DEF Adds
<1>2. \A f \in DataFields \ F : e[f] = d[f]
  BY DEF Keeps
<1>3. ASSUME msg.kind # "type", F \cap {"type", "elem_size", "complex"} = {} PROVE MadeType(e, su)
  <2>1. e.type = d.type /\ e.elem_size = d.elem_size /\ e.complex = d.complex
    BY <1>2, <1>3 DEF DataFields
  <2>2. su["type"] = seen["type"]
    BY <1>1, <1>3, KindsApart
  <2> QED
    BY <2>1, <2>2 DEF MadeType, TypeMade
<1>4. ASSUME msg.kind \notin {"space", "sparse"}, F \cap {"dims", "num_dims", "num_elems"} = {} PROVE MadeSpace(e, su)
  <2>1. e.dims = d.dims /\ e.num_dims = d.num_dims /\ e.num_elems = d.num_elems
    BY <1>2, <1>4 DEF DataFields
  <2>2. su["space"] = seen["space"] /\ su["sparse"] = seen["sparse"]
    BY <1>1, <1>4, KindsApart
  <2> QED
    BY <2>1, <2>2 DEF MadeSpace
<1>5. ASSUME msg.kind \notin {"space", "layout", "sparse"}, F \cap {"layout_class", "update_dims"} = {}
      PROVE  MadeLayout(e, su)
  <2>1. e.layout_class = d.layout_class /\ e.update_dims = d.update_dims
    BY <1>2, <1>5 DEF DataFields
  <2>2. su["space"] = seen["space"] /\ su["sparse"] = seen["sparse"] /\ su["layout"] = seen["layout"]
    BY <1>1, <1>5, KindsApart
  <2> QED
    BY <2>1, <2>2 DEF MadeLayout
<1>6. ASSUME msg.kind \notin {"class", "decode"}, F \cap {"class"} = {} PROVE NamedBy(su, e.class)
  <2>1. e.class = d.class
    BY <1>2, <1>6 DEF DataFields
  <2>2. su["class"] = seen["class"] /\ su["decode"] = seen["decode"]
    BY <1>1, <1>6, KindsApart
  <2> QED
    BY <2>1, <2>2 DEF NamedBy
<1>7. ASSUME msg.kind \notin {"sparse", "empty"}, F \cap {"is_sparse", "is_empty"} = {} PROVE MadeFlags(e, su)
  <2>1. e.is_sparse = d.is_sparse /\ e.is_empty = d.is_empty
    BY <1>2, <1>7 DEF DataFields
  <2>2. su["sparse"] = seen["sparse"] /\ su["empty"] = seen["empty"]
    BY <1>1, <1>7, KindsApart
  <2> QED
    BY <2>1, <2>2 DEF MadeFlags
<1> QED
  BY <1>3, <1>4, <1>5, <1>6, <1>7

LEMMA TypeReads ==
    ASSUME NEW d, NEW seen, NEW msg, NEW su, Reads(d, seen, msg, su), msg.kind = "type",
           ~ ReadDataType(d, msg).err
    PROVE  Made(ReadDataType(d, msg).obj, su)
<1> DEFINE e == ReadDataType(d, msg).obj
           types == msg.types
           F == {"elem_size", "type", "complex", "byte_order"}
<1>1. msg.good
  BY DEF ReadDataType, Reject, Reads, Fits
<1>2. seen["type"] = {} /\ su["type"] = {msg}
  BY KindsApart DEF Reads, Fresh, Adds
<1>3. IsData(d) /\ d.elem_size = 0 /\ d.complex \in BOOLEAN /\ ~ d.complex
  BY <1>2 DEF Reads, Made, MadeType
<1>4. /\ types \in Seq(ToSet(types)) /\ types # <<>>
      /\ \A t \in ToSet(types) : t.size \in Nat /\ t.real \in BOOLEAN
  BY DEF Reads, Fits
<1>5. /\ IsData(e) /\ e.complex \in BOOLEAN /\ TypeMade(e, types)
      /\ \A f \in DataFields \ F : e[f] = d[f]
  BY <1>1, <1>3, <1>4, TypesMade
<1>6. Keeps(d, e, F)
  BY <1>5 DEF Keeps
<1>7. MadeType(e, su)
  BY <1>2, <1>5 DEF MadeType
<1>8. F \cap {"dims", "num_dims", "num_elems"} = {} /\ F \cap {"layout_class", "update_dims"} = {}
      /\ F \cap {"class"} = {} /\ F \cap {"is_sparse", "is_empty"} = {}
  OBVIOUS
<1> HIDE DEF e, F
<1>9. MadeSpace(e, su) /\ MadeLayout(e, su) /\ NamedBy(su, e.class) /\ MadeFlags(e, su)
  BY <1>6, <1>8, PartsKept
<1> QED
  BY <1>5, <1>7, <1>9 DEF Made, e

LEMMA ReverseTyped == ASSUME NEW s \in Seq(Nat) PROVE Reverse(s) \in Seq(Nat) /\ Len(Reverse(s)) = Len(s)
<1> DEFINE n == Len(s)
<1>1. n \in Nat /\ s \in [1 .. n -> Nat]
  OBVIOUS
<1>2. \A i \in 1 .. n : (n - i) + 1 \in 1 .. n
  BY <1>1
<1>3. [i \in 1 .. n |-> s[(n - i) + 1]] \in [1 .. n -> Nat]
  BY <1>1, <1>2
<1>4. Reverse(s) = [i \in 1 .. n |-> s[(n - i) + 1]]
  BY DEF Reverse
<1> HIDE DEF n
<1> QED
  BY <1>1, <1>3, <1>4 DEF n

LEMMA SpaceReads ==
    ASSUME NEW d, NEW seen, NEW msg, NEW su, Reads(d, seen, msg, su), msg.kind = "space",
           ~ ReadDataSpace(d, msg).err
    PROVE  Made(ReadDataSpace(d, msg).obj, su)
<1> DEFINE dims == Reverse(msg.dims)
           e == [d EXCEPT !.num_dims = Len(dims), !.dims = dims, !.num_elems = NumElems(dims)]
           F == {"dims", "num_dims", "num_elems"}
<1>1. ReadDataSpace(d, msg).obj = e
  BY DEF ReadDataSpace, Reject, Read
<1>2. dims \in Seq(Nat)
  BY ReverseTyped DEF Reads, Fits
<1>3. DOMAIN d = DataFields
  BY DEF Reads, Made, IsData
<1> HIDE DEF dims
<1>4. e.dims = dims /\ e.num_dims = Len(dims) /\ e.num_elems = NumElems(dims)
  BY <1>3 DEF DataFields
<1>5. Keeps(d, e, F)
  <2>1. IsData(e)
    BY <1>3 DEF IsData, DataFields
  <2>2. \A f \in DataFields \ F : e[f] = d[f]
    BY <1>3 DEF DataFields
  <2> QED
    BY <2>1, <2>2 DEF Keeps
<1>6. seen["space"] = {} /\ seen["layout"] = {} /\ su["space"] = {msg} /\ su["layout"] = seen["layout"]
  BY KindsApart DEF Reads, Fresh, Adds
<1>7. F \cap {"type", "elem_size", "complex"} = {} /\ F \cap {"layout_class", "update_dims"} = {}
      /\ F \cap {"class"} = {} /\ F \cap {"is_sparse", "is_empty"} = {}
  OBVIOUS
<1> HIDE DEF e, F
<1>8. MadeType(e, su) /\ NamedBy(su, e.class) /\ MadeFlags(e, su)
  BY <1>5, <1>7, PartsKept
<1>9. MadeSpace(e, su)
  BY <1>2, <1>4, <1>6 DEF MadeSpace, dims
<1>10. MadeLayout(e, su)
  <2>1. e.layout_class = d.layout_class
    BY <1>5 DEF Keeps, F, DataFields
  <2> QED
    BY <1>6, <2>1 DEF MadeLayout, Reads, Made
<1> QED
  BY <1>1, <1>5, <1>8, <1>9, <1>10 DEF Made, Keeps

LEMMA LayoutReads ==
    ASSUME NEW d, NEW seen, NEW msg, NEW su, Reads(d, seen, msg, su), msg.kind = "layout",
           ~ ReadDataLayout(d, msg).err
    PROVE  Made(ReadDataLayout(d, msg).obj, su)
<1> DEFINE e == ReadDataLayout(d, msg).obj
           F == {"layout_class", "chunked_dims", "update_dims"}
<1>1. DOMAIN d = DataFields
  BY DEF Reads, Made, IsData
<1>2. IsData(e)
  BY <1>1 DEF ReadDataLayout, Reject, Read, IsData, DataFields
<1>3. \A f \in DataFields \ F : e[f] = d[f]
  BY <1>1 DEF ReadDataLayout, Reject, Read, DataFields
<1>4. e.layout_class = msg.class
  BY <1>1 DEF ReadDataLayout, Reject, Read, DataFields
<1>5. msg.class = Chunked => e.update_dims = SubSeq(d.dims, 1, d.num_dims)
  <2> SUFFICES ASSUME msg.class = Chunked PROVE e.update_dims = SubSeq(d.dims, 1, d.num_dims)
    OBVIOUS
  <2>1. msg.class \notin {Compact, Contiguous} /\ msg.good
    BY DEF Chunked, Compact, Contiguous, ReadDataLayout, Reject
  <2> DEFINE laid == [d EXCEPT !.layout_class = msg.class]
             u == SubSeq(d.dims, 1, d.num_dims)
             c == Reverse(msg.dims)
  <2>2. e = [laid EXCEPT !.chunked_dims = c, !.update_dims = u]
    BY <2>1 DEF ReadDataLayout, Read
  <2> HIDE DEF u, c
  <2>3. "update_dims" \in DOMAIN laid
    BY <1>1 DEF DataFields
  <2> HIDE DEF laid, e
  <2>4. e.update_dims = u
    BY <2>2, <2>3
  <2> QED
    BY <2>4 DEF u
<1> HIDE DEF e
<1>6. Keeps(d, e, F)
  BY <1>2, <1>3 DEF Keeps
<1>7. /\ seen["layout"] = {} /\ su["layout"] = {msg}
      /\ su["space"] = seen["space"] /\ su["sparse"] = seen["sparse"]
  BY KindsApart DEF Reads, Fresh, Adds
<1>8. F \cap {"type", "elem_size", "complex"} = {} /\ F \cap {"dims", "num_dims", "num_elems"} = {}
      /\ F \cap {"class"} = {} /\ F \cap {"is_sparse", "is_empty"} = {}
  OBVIOUS
<1> HIDE DEF F
<1>9. MadeType(e, su) /\ MadeSpace(e, su) /\ NamedBy(su, e.class) /\ MadeFlags(e, su)
  BY <1>6, <1>8, PartsKept
<1>10. MadeLayout(e, su)
  <2>1. ASSUME msg.class = Chunked, seen["sparse"] = {}, NEW s \in seen["space"]
        PROVE  e.update_dims = Reverse(s.dims)
    <3>1. d.dims \in Seq(Nat) /\ d.num_dims = Len(d.dims) /\ d.dims = Reverse(s.dims)
      BY <2>1 DEF Reads, Made, MadeSpace
    <3> DEFINE t == d.dims
    <3>2. t \in Seq(Nat)
      BY <3>1
    <3> HIDE DEF t
    <3>3. SubSeq(t, 1, Len(t)) = t
      BY <3>2
    <3> QED
      BY <1>5, <2>1, <3>1, <3>3 DEF t
  <2> QED
    BY <1>4, <1>7, <2>1 DEF MadeLayout
<1> QED
  BY <1>2, <1>9, <1>10 DEF Made, e

LEMMA PipelineReads ==
    ASSUME NEW d, NEW seen, NEW msg, NEW su, Reads(d, seen, msg, su), msg.kind = "pipeline",
           ~ ReadDataStoragePipeline(d, msg).err
    PROVE  Made(ReadDataStoragePipeline(d, msg).obj, su)
<1> DEFINE e == [d EXCEPT !.filters = msg.filters]
           F == {"filters"}
<1>1. ReadDataStoragePipeline(d, msg).obj = e
  BY DEF ReadDataStoragePipeline, Reject, Read
<1>2. DOMAIN d = DataFields
  BY DEF Reads, Made, IsData
<1>3. IsData(e)
  BY <1>2 DEF IsData, DataFields
<1>4. Keeps(d, e, F)
  BY <1>2, <1>3 DEF Keeps, DataFields
<1>5. /\ F \cap {"type", "elem_size", "complex"} = {} /\ F \cap {"dims", "num_dims", "num_elems"} = {}
      /\ F \cap {"layout_class", "update_dims"} = {}
      /\ F \cap {"class"} = {} /\ F \cap {"is_sparse", "is_empty"} = {}
  OBVIOUS
<1> HIDE DEF e, F
<1>6. MadeType(e, su) /\ MadeSpace(e, su) /\ MadeLayout(e, su) /\ NamedBy(su, e.class) /\ MadeFlags(e, su)
  BY <1>4, <1>5, PartsKept
<1> QED
  BY <1>1, <1>3, <1>6 DEF Made

LEMMA AttributeReads ==
    ASSUME NEW d, NEW seen, NEW msg, NEW su, Reads(d, seen, msg, su), msg.kind \in AttrKinds,
           ~ ReadAttribute(d, msg).err
    PROVE  Made(ReadAttribute(d, msg).obj, su)
<1> DEFINE e == ReadAttribute(d, msg).obj
<1>1. DOMAIN d = DataFields /\ msg.good
  BY DEF Reads, Made, IsData, ReadAttribute, Reject
<1>2. /\ MadeType(d, seen) /\ MadeSpace(d, seen) /\ MadeLayout(d, seen)
      /\ NamedBy(seen, d.class) /\ MadeFlags(d, seen)
  BY DEF Reads, Made
<1>3. /\ su[msg.kind] = seen[msg.kind] \cup {msg}
      /\ \A k \in OnceKinds \cup AttrKinds : k # msg.kind => su[k] = seen[k]
  BY DEF Reads, Adds
<1>4. CASE msg.kind = "class"
  <2> DEFINE v == SelectMatlabClass(msg.name, d.class)
             F == {"class"}
  <2>1. e = [d EXCEPT !.class = v]
    BY <1>1, <1>4 DEF ReadAttribute, Read
  <2> HIDE DEF v, e
  <2>2. IsData(e) /\ e.class = v /\ \A f \in DataFields \ F : e[f] = d[f]
    BY <1>1, <2>1 DEF IsData, DataFields
  <2>3. Keeps(d, e, F)
    BY <2>2 DEF Keeps
  <2>4. /\ F \cap {"type", "elem_size", "complex"} = {} /\ F \cap {"dims", "num_dims", "num_elems"} = {}
        /\ F \cap {"layout_class", "update_dims"} = {} /\ F \cap {"is_sparse", "is_empty"} = {}
    OBVIOUS
  <2> HIDE DEF F
  <2>5. MadeType(e, su) /\ MadeSpace(e, su) /\ MadeLayout(e, su) /\ MadeFlags(e, su)
    BY <1>4, <2>3, <2>4, PartsKept
  <2>6. NamedBy(su, e.class)
    <3>1. seen["class"] = {} /\ seen["decode"] = {}
      BY <1>4 DEF Reads, Fresh
    <3>2. d.class = "unknown"
      BY <1>2, <3>1 DEF NamedBy
    <3>3. su["class"] = {msg} /\ su["decode"] = {}
      BY <1>3, <1>4, <3>1, KindsApart
    <3> QED
      BY <2>2, <3>2, <3>3 DEF NamedBy, v
  <2> QED
    BY <2>2, <2>5, <2>6 DEF Made, e
<1>5. CASE msg.kind = "decode"
  <2> DEFINE F == {"class"}
  <2>1. e = [d EXCEPT !.class = msg.hint]
    BY <1>1, <1>5 DEF ReadAttribute, Read
  <2> HIDE DEF e
  <2>2. IsData(e) /\ e.class = msg.hint /\ \A f \in DataFields \ F : e[f] = d[f]
    BY <1>1, <2>1 DEF IsData, DataFields
  <2>3. Keeps(d, e, F)
    BY <2>2 DEF Keeps
  <2>4. /\ F \cap {"type", "elem_size", "complex"} = {} /\ F \cap {"dims", "num_dims", "num_elems"} = {}
        /\ F \cap {"layout_class", "update_dims"} = {} /\ F \cap {"is_sparse", "is_empty"} = {}
    OBVIOUS
  <2> HIDE DEF F
  <2>5. MadeType(e, su) /\ MadeSpace(e, su) /\ MadeLayout(e, su) /\ MadeFlags(e, su)
    BY <1>5, <2>3, <2>4, PartsKept
  <2>6. NamedBy(su, e.class)
    <3>1. seen["class"] = {} /\ seen["decode"] = {}
      BY <1>5 DEF Reads, Fresh
    <3>2. su["decode"] = {msg} /\ su["class"] = {}
      BY <1>3, <1>5, <3>1, KindsApart
    <3> QED
      BY <2>2, <3>2 DEF NamedBy
  <2> QED
    BY <2>2, <2>5, <2>6 DEF Made, e
<1>6. CASE msg.kind = "sparse"
  <2> DEFINE r == <<msg.rows>>
             F == {"is_sparse", "dims"}
  <2>1. e = [d EXCEPT !.is_sparse = TRUE, !.dims = r]
    BY <1>1, <1>6 DEF ReadAttribute, Read
  <2> HIDE DEF e, r
  <2>2. IsData(e) /\ e.is_sparse = TRUE /\ \A f \in DataFields \ F : e[f] = d[f]
    BY <1>1, <2>1 DEF IsData, DataFields
  <2>3. Keeps(d, e, F)
    BY <2>2 DEF Keeps
  <2>4. /\ F \cap {"type", "elem_size", "complex"} = {} /\ F \cap {"class"} = {}
    OBVIOUS
  <2>5. e.is_empty = d.is_empty /\ e.layout_class = d.layout_class
    BY <2>2 DEF DataFields
  <2> HIDE DEF F
  <2>6. MadeType(e, su) /\ NamedBy(su, e.class)
    BY <1>6, <2>3, <2>4, PartsKept
  <2>7. msg \in su["sparse"] /\ su["empty"] = seen["empty"] /\ su["layout"] = seen["layout"]
    BY <1>3, <1>6, KindsApart
  <2>8. MadeSpace(e, su)
    BY <2>7 DEF MadeSpace
  <2>9. MadeLayout(e, su)
    BY <1>2, <2>5, <2>7 DEF MadeLayout
  <2>10. MadeFlags(e, su)
    BY <1>2, <2>2, <2>5, <2>7 DEF MadeFlags
  <2> QED
    BY <2>2, <2>6, <2>8, <2>9, <2>10 DEF Made, e
<1>7. CASE msg.kind = "empty"
  <2> DEFINE F == {"is_empty"}
  <2>1. e = [d EXCEPT !.is_empty = TRUE]
    BY <1>1, <1>7 DEF ReadAttribute, Read
  <2> HIDE DEF e
  <2>2. IsData(e) /\ e.is_empty = TRUE /\ \A f \in DataFields \ F : e[f] = d[f]
    BY <1>1, <2>1 DEF IsData, DataFields
  <2>3. Keeps(d, e, F)
    BY <2>2 DEF Keeps
  <2>4. /\ F \cap {"type", "elem_size", "complex"} = {} /\ F \cap {"dims", "num_dims", "num_elems"} = {}
        /\ F \cap {"layout_class", "update_dims"} = {} /\ F \cap {"class"} = {}
    OBVIOUS
  <2>5. e.is_sparse = d.is_sparse
    BY <2>2 DEF DataFields
  <2> HIDE DEF F
  <2>6. MadeType(e, su) /\ MadeSpace(e, su) /\ MadeLayout(e, su) /\ NamedBy(su, e.class)
    BY <1>7, <2>3, <2>4, PartsKept
  <2>7. msg \in su["empty"] /\ su["sparse"] = seen["sparse"]
    BY <1>3, <1>7, KindsApart
  <2>8. MadeFlags(e, su)
    BY <1>2, <2>2, <2>5, <2>7 DEF MadeFlags
  <2> QED
    BY <2>2, <2>6, <2>8 DEF Made, e
<1> QED
  BY <1>4, <1>5, <1>6, <1>7 DEF AttrKinds

LEMMA MessageReads ==
    ASSUME NEW d, NEW seen, NEW msg, NEW su, Reads(d, seen, msg, su), ~ ReadMessage(d, msg).err
    PROVE  Made(ReadMessage(d, msg).obj, su)
<1>1. msg.kind \in OnceKinds \cup AttrKinds
  BY DEF Reads, Fits
<1>2. CASE msg.kind = "space"
  <2>1. ReadMessage(d, msg) = ReadDataSpace(d, msg)
    BY <1>2 DEF ReadMessage, AttrKinds
  <2> QED
    BY <1>2, <2>1, SpaceReads
<1>3. CASE msg.kind = "type"
  <2>1. ReadMessage(d, msg) = ReadDataType(d, msg)
    BY <1>3 DEF ReadMessage, AttrKinds
  <2> QED
    BY <1>3, <2>1, TypeReads
<1>4. CASE msg.kind = "layout"
  <2>1. ReadMessage(d, msg) = ReadDataLayout(d, msg)
    BY <1>4 DEF ReadMessage, AttrKinds
  <2> QED
    BY <1>4, <2>1, LayoutReads
<1>5. CASE msg.kind = "pipeline"
  <2>1. ReadMessage(d, msg) = ReadDataStoragePipeline(d, msg)
    BY <1>5 DEF ReadMessage, AttrKinds
  <2> QED
    BY <1>5, <2>1, PipelineReads
<1>6. CASE msg.kind \in AttrKinds
  <2>1. msg.kind \notin {"space", "type", "layout", "pipeline"}
    BY <1>6 DEF AttrKinds
  <2>2. ReadMessage(d, msg) = ReadAttribute(d, msg)
    BY <1>6, <2>1 DEF ReadMessage
  <2> QED
    BY <1>6, <2>2, AttributeReads
<1> QED
  BY <1>1, <1>2, <1>3, <1>4, <1>5, <1>6 DEF OnceKinds

LEMMA NewMade ==
    ASSUME NEW seen, \A k \in OnceKinds \cup AttrKinds : seen[k] = {}
    PROVE  Made(NewData, seen)
<1>1. /\ seen["space"] = {} /\ seen["type"] = {} /\ seen["layout"] = {} /\ seen["class"] = {}
      /\ seen["sparse"] = {} /\ seen["empty"] = {} /\ seen["decode"] = {}
  BY KindsApart
<1>2. /\ NewData.dims = <<>> /\ NewData.num_dims = 0 /\ NewData.elem_size = 0 /\ NewData.type = "unknown"
      /\ NewData.complex = FALSE /\ NewData.class = "unknown" /\ NewData.is_sparse = FALSE
      /\ NewData.is_empty = FALSE /\ NewData.layout_class = NoData
  BY DEF NewData
<1>3. <<>> \in Seq(Nat) /\ Len(<<>>) = 0
  OBVIOUS
<1> QED
  BY <1>1, <1>2, <1>3, NewIsData DEF Made, MadeType, MadeSpace, MadeLayout, NamedBy, MadeFlags

-----------------------------------------------------------------------------
(* What the rest of fillObject leaves of it.                               *)
Sane(seen) == seen["sparse"] # {} => seen["space"] = {} /\ seen["type"] = {}
ArrayOf(seen, name, above) ==
    name = "unknown" /\ above.class = "struct" /\ \E m \in seen["type"] : Last(m.types).type = "reference"
ClassFrom(seen, name, above) ==
    IF seen["sparse"] # {} THEN "sparse"
    ELSE IF above.is_sparse THEN "uint64"
    ELSE IF ArrayOf(seen, name, above) THEN "cell"
    ELSE name
SpaceRight(seen, d) ==
    \A m \in seen["space"] :
        /\ d.dims \in Seq(Nat) /\ d.dims = Reverse(m.dims)
        /\ d.num_dims = Len(d.dims) /\ d.num_elems = NumElems(d.dims)
LayoutRight(seen, d) ==
    /\ seen["layout"] = {} => d.layout_class = NoData
    /\ \A m \in seen["layout"] :
        /\ d.layout_class = m.class
        /\ m.class = Chunked => \A s \in seen["space"] : d.update_dims = Reverse(s.dims)
Right(seen, d, struct, above) ==
    /\ \E name : NamedBy(seen, name) /\ d.class = ClassFrom(seen, name, above)
    /\ \A m \in seen["type"] : TypeMade(d, m.types)
    /\ d.class \notin {"struct", "function"} => SpaceRight(seen, d)
    /\ LayoutRight(seen, d)
    /\ d.is_struct_array => struct.dims = d.dims
FilledRight(seen, d, struct, above) ==
    IF seen["empty"] # {} THEN d.is_empty /\ d.num_elems = 0 ELSE Right(seen, d, struct, above)

Above(s) == s.is_sparse \in BOOLEAN /\ {"dims", "num_dims"} \subseteq DOMAIN s

LEMMA CollectMakes ==
    ASSUME NEW d, NEW seen, NEW above, Made(d, seen), Sane(seen), Above(above), ~ d.is_empty,
           NEW e, e = CollectMetaData(d, above).obj, NEW struct, struct = CollectMetaData(d, above).super
    PROVE  /\ Right(seen, e, struct, above) /\ SpaceRight(seen, e)
           /\ e.is_struct_array => e.class \notin {"struct", "function"}
           /\ IsData(e)
<1> DEFINE array == IsStructArray(d, above)
           class == IF array THEN "cell" ELSE d.class
           named == IF d.is_sparse THEN "sparse" ELSE IF above.is_sparse THEN "uint64" ELSE class
           F == {"is_struct_array", "sparse_type", "class"}
<1>1. DOMAIN d = DataFields
  BY DEF Made, IsData
<1>2. e = [d EXCEPT !.is_struct_array = array, !.sparse_type = IF d.is_sparse THEN class ELSE @, !.class = named]
  BY DEF CollectMetaData
<1>3. array => struct = [above EXCEPT !.num_dims = d.num_dims, !.dims = SubSeq(d.dims, 1, d.num_dims)]
  BY DEF CollectMetaData
<1> HIDE DEF array, class, named
<1>4. /\ IsData(e) /\ e.is_struct_array = array /\ e.class = named
      /\ \A f \in DataFields \ F : e[f] = d[f]
  BY <1>1, <1>2 DEF IsData, DataFields
<1>5. /\ e.elem_size = d.elem_size /\ e.type = d.type /\ e.complex = d.complex
      /\ e.dims = d.dims /\ e.num_dims = d.num_dims /\ e.num_elems = d.num_elems
      /\ e.layout_class = d.layout_class /\ e.update_dims = d.update_dims
  BY <1>4 DEF DataFields
<1>6. /\ MadeType(d, seen) /\ MadeSpace(d, seen) /\ MadeLayout(d, seen)
      /\ NamedBy(seen, d.class) /\ MadeFlags(d, seen)
  BY DEF Made
<1>7. d.is_sparse \in BOOLEAN /\ (d.is_sparse <=> seen["sparse"] # {})
  BY <1>6 DEF MadeFlags
<1>8. array <=> ArrayOf(seen, d.class, above)
  <2>1. d.type = "reference" <=> \E m \in seen["type"] : Last(m.types).type = "reference"
    BY <1>6 DEF MadeType, TypeMade
  <2> QED
    BY <2>1 DEF array, IsStructArray, ArrayOf
<1>9. NamedBy(seen, d.class) /\ e.class = ClassFrom(seen, d.class, above)
  <2>1. named = ClassFrom(seen, d.class, above)
    BY <1>7, <1>8 DEF named, class, ClassFrom, Above
  <2> QED
    BY <1>4, <1>6, <2>1
<1>10. \A m \in seen["type"] : TypeMade(e, m.types)
  BY <1>5, <1>6 DEF MadeType, TypeMade
<1>11. seen["space"] # {} => seen["sparse"] = {}
  BY DEF Sane
<1>12. SpaceRight(seen, e)
  BY <1>5, <1>6, <1>11 DEF MadeSpace, SpaceRight
<1>13. LayoutRight(seen, e)
  BY <1>5, <1>6, <1>11 DEF MadeLayout, LayoutRight
<1>14. ASSUME array PROVE struct.dims = e.dims /\ e.class \notin {"struct", "function"}
  <2>1. seen["type"] # {}
    BY <1>8, <1>14 DEF ArrayOf
  <2>2. seen["sparse"] = {}
    BY <2>1 DEF Sane
  <2>3. d.dims \in Seq(Nat) /\ d.num_dims = Len(d.dims)
    BY <1>6, <2>2 DEF MadeSpace
  <2> DEFINE t == d.dims
  <2>4. SubSeq(t, 1, Len(t)) = t
    <3>1. t \in Seq(Nat)
      BY <2>3
    <3> HIDE DEF t
    <3> QED
      BY <3>1
  <2>5. struct.dims = SubSeq(d.dims, 1, d.num_dims)
    BY <1>3, <1>14 DEF Above
  <2>6. struct.dims = e.dims
    BY <1>5, <2>3, <2>4, <2>5
  <2>7. e.class \in {"sparse", "uint64", "cell"}
    BY <1>4, <1>14 DEF named, class
  <2> QED
    BY <2>6, <2>7
<1>15. e.is_struct_array => struct.dims = e.dims /\ e.class \notin {"struct", "function"}
  BY <1>4, <1>14
<1> QED
  BY <1>4, <1>9, <1>10, <1>12, <1>13, <1>15 DEF Right

LEMMA SpaceMakes ==
    ASSUME NEW d, NEW seen, NEW struct, NEW above, Right(seen, d, struct, above), SpaceRight(seen, d), IsData(d),
           d.is_struct_array => d.class \notin {"struct", "function"},
           ~ AllocateSpace(d).err
    PROVE  Right(seen, AllocateSpace(d).obj, struct, above)
<1>1. DOMAIN d = DataFields
  BY DEF IsData
<1>2. CASE d.class \in {"struct", "function"}
  <2> DEFINE e == [d EXCEPT !.num_elems = 1, !.num_dims = 2, !.dims = <<1, 1>>]
  <2>1. AllocateSpace(d).obj = e
    <3>1. d.class \notin Numbers \cup {"logical", "char", "cell"}
      BY <1>2 DEF Numbers
    <3>2. AllocateSpace(d) = Read(e)
      BY <1>2, <3>1 DEF AllocateSpace, Numbers
    <3> QED
      BY <3>2 DEF Read
  <2>2. /\ e.class = d.class /\ e.elem_size = d.elem_size /\ e.type = d.type /\ e.complex = d.complex
        /\ e.layout_class = d.layout_class /\ e.update_dims = d.update_dims
        /\ e.is_struct_array = d.is_struct_array
    BY <1>1 DEF DataFields
  <2> HIDE DEF e
  <2>3. Right(seen, e, struct, above)
    BY <1>2, <2>2 DEF Right, TypeMade, LayoutRight
  <2> QED
    BY <2>1, <2>3
<1>3. CASE d.class \notin {"struct", "function"}
  <2>1. AllocateSpace(d) = Read(d)
    BY <1>3 DEF AllocateSpace, Reject, Numbers
  <2> QED
    BY <2>1 DEF Read
<1> QED
  BY <1>2, <1>3

LEMMA FillMakes ==
    ASSUME NEW d, NEW seen, NEW above, Made(d, seen), Sane(seen), Above(above),
           NEW c, c = CollectMetaData(d, above),
           NEW e, \/ c.obj.is_empty /\ e = c.obj
                  \/ ~ c.obj.is_empty /\ ~ AllocateSpace(c.obj).err /\ e = AllocateSpace(c.obj).obj
    PROVE  FilledRight(seen, e, c.super, above)
<1>1. DOMAIN d = DataFields
  BY DEF Made, IsData
<1>2. d.is_empty \in BOOLEAN /\ (d.is_empty <=> seen["empty"] # {})
  BY DEF Made, MadeFlags
<1>3. c.obj.is_empty = d.is_empty
  BY <1>1 DEF CollectMetaData, DataFields
<1>4. CASE d.is_empty
  <2> DEFINE f == [d EXCEPT !.num_elems = 0, !.dims = <<0>>, !.num_dims = 0]
  <2>1. e = f
    BY <1>3, <1>4 DEF CollectMetaData
  <2>2. f.is_empty = d.is_empty /\ f.num_elems = 0
    BY <1>1 DEF DataFields
  <2> HIDE DEF f
  <2> QED
    BY <1>2, <1>4, <2>1, <2>2 DEF FilledRight
<1>5. CASE ~ d.is_empty
  <2> DEFINE o == c.obj
             struct == c.super
  <2>1. o = CollectMetaData(d, above).obj /\ struct = CollectMetaData(d, above).super
    OBVIOUS
  <2>2. ~ AllocateSpace(o).err /\ e = AllocateSpace(o).obj
    BY <1>3, <1>5
  <2> HIDE DEF o, struct
  <2>3. /\ Right(seen, o, struct, above) /\ SpaceRight(seen, o) /\ IsData(o)
        /\ o.is_struct_array => o.class \notin {"struct", "function"}
    BY <1>5, <2>1, CollectMakes
  <2>4. Right(seen, AllocateSpace(o).obj, struct, above)
    BY <2>2, <2>3, SpaceMakes
  <2> QED
    BY <1>2, <1>5, <2>2, <2>4 DEF FilledRight, struct
<1> QED
  BY <1>2, <1>4, <1>5

-----------------------------------------------------------------------------
(* The messages read, by their kinds, and those of the whole header.       *)
Message(h, p) == h.blocks[p[1]][p[2]]
Seen(h, rd) ==
    [k \in OnceKinds \cup AttrKinds |->
        {Message(h, rd[j]) : j \in {l \in 1 .. Len(rd) : KindOf(h, rd[l]) = k}}]
Says(h) ==
    [k \in OnceKinds \cup AttrKinds |->
        {Message(h, OrderOf(h)[j]) : j \in {l \in 1 .. Len(OrderOf(h)) : KindOf(h, OrderOf(h)[l]) = k}}]

Orderly(h) ==
    /\ \A i, j \in 1 .. Len(OrderOf(h)) :
        KindOf(h, OrderOf(h)[i]) = "space" /\ KindOf(h, OrderOf(h)[j]) = "layout" => i < j
    /\ \A i, j \in 1 .. Len(OrderOf(h)) :
        {KindOf(h, OrderOf(h)[i]), KindOf(h, OrderOf(h)[j])} \subseteq {"class", "decode"} => i = j
    /\ \A i, j \in 1 .. Len(OrderOf(h)) :
        KindOf(h, OrderOf(h)[i]) = "sparse" => KindOf(h, OrderOf(h)[j]) \notin {"space", "type"}

LEMMA SeenFrom ==
    ASSUME NEW h, NEW rd, NEW m, ReadBefore(h, rd, m), NEW k \in OnceKinds \cup AttrKinds, Seen(h, rd)[k] # {}
    PROVE  \E i \in 1 .. m : KindOf(h, OrderOf(h)[i]) = k
<1>1. PICK j \in 1 .. Len(rd) : KindOf(h, rd[j]) = k
  BY DEF Seen
<1> QED
  BY <1>1 DEF ReadBefore

LEMMA SeenNext ==
    ASSUME NEW h, NEW rd, NEW x, KindOf(h, x) \in OnceKinds \cup AttrKinds,
           NEW ru, NEW n \in Nat, Len(rd) = n, Len(ru) = n + 1, ru[n + 1] = x, \A j \in 1 .. n : ru[j] = rd[j]
    PROVE  Adds(Seen(h, rd), Message(h, x), Seen(h, ru))
<1>1. Message(h, x).kind = KindOf(h, x)
  BY DEF Message, KindOf
<1>2. \A j : j \in 1 .. n + 1 <=> j \in 1 .. n \/ j = n + 1
  OBVIOUS
<1>3. ASSUME NEW k \in OnceKinds \cup AttrKinds, k # KindOf(h, x)
      PROVE  Seen(h, ru)[k] = Seen(h, rd)[k]
  <2>1. {l \in 1 .. n + 1 : KindOf(h, ru[l]) = k} = {l \in 1 .. n : KindOf(h, rd[l]) = k}
    BY <1>2, <1>3
  <2>2. ASSUME NEW j \in {l \in 1 .. n : KindOf(h, rd[l]) = k} PROVE Message(h, ru[j]) = Message(h, rd[j])
    OBVIOUS
  <2> QED
    BY <2>1, <2>2 DEF Seen
<1>4. Seen(h, ru)[KindOf(h, x)] = Seen(h, rd)[KindOf(h, x)] \cup {Message(h, x)}
  <2> DEFINE k == KindOf(h, x)
             R == {l \in 1 .. n : KindOf(h, rd[l]) = k}
  <2>1. {l \in 1 .. n + 1 : KindOf(h, ru[l]) = k} = R \cup {n + 1}
    BY <1>2
  <2>2. \A j \in R : Message(h, ru[j]) = Message(h, rd[j])
    OBVIOUS
  <2> HIDE DEF R
  <2>3. {Message(h, ru[j]) : j \in R \cup {n + 1}} = {Message(h, rd[j]) : j \in R} \cup {Message(h, x)}
    BY <2>2
  <2>4. Seen(h, ru)[k] = {Message(h, ru[j]) : j \in R \cup {n + 1}} /\ Seen(h, rd)[k] = {Message(h, rd[j]) : j \in R}
    BY <2>1 DEF Seen, R
  <2> QED
    BY <2>3, <2>4
<1> QED
  BY <1>1, <1>3, <1>4 DEF Adds

(* The message that comes next is not forbidden by those before it.        *)
LEMMA FreshNext ==
    ASSUME NEW h \in Headers, WellMade(h), Orderly(h), NEW rd, NEW m \in Nat, ReadBefore(h, rd, m),
           m + 1 \in 1 .. Len(OrderOf(h)), NEW x, x = OrderOf(h)[m + 1]
    PROVE  Fresh(Seen(h, rd), Message(h, x))
<1> DEFINE kind == KindOf(h, x)
           N == Len(OrderOf(h))
<1>1. Message(h, x).kind = kind
  BY DEF Message, KindOf
<1>2. N \in Nat /\ m + 1 \in 1 .. N /\ \A i \in 1 .. m : i \in 1 .. N /\ i # m + 1 /\ ~ (m + 1 < i)
  <2>1. N \in Nat
    BY OrderLies
  <2> HIDE DEF N
  <2>2. m + 1 \in 1 .. N
    BY DEF N
  <2> QED
    BY <2>1, <2>2
<1>3. ASSUME kind \in OnceKinds PROVE Seen(h, rd)[kind] = {}
  <2> SUFFICES ASSUME Seen(h, rd)[kind] # {} PROVE FALSE
    OBVIOUS
  <2>1. PICK i \in 1 .. m : KindOf(h, OrderOf(h)[i]) = kind
    BY <1>3, SeenFrom
  <2> QED
    BY <1>2, <1>3, <2>1 DEF WellMade
<1>4. ASSUME kind = "space" PROVE Seen(h, rd)["layout"] = {}
  <2> SUFFICES ASSUME Seen(h, rd)["layout"] # {} PROVE FALSE
    OBVIOUS
  <2>1. PICK i \in 1 .. m : KindOf(h, OrderOf(h)[i]) = "layout"
    BY KindsApart, SeenFrom
  <2> QED
    BY <1>2, <1>4, <2>1 DEF Orderly
<1>5. ASSUME kind \in {"class", "decode"}, NEW k \in {"class", "decode"} PROVE Seen(h, rd)[k] = {}
  <2> SUFFICES ASSUME Seen(h, rd)[k] # {} PROVE FALSE
    OBVIOUS
  <2>1. PICK i \in 1 .. m : KindOf(h, OrderOf(h)[i]) = k
    BY KindsApart, SeenFrom
  <2> QED
    BY <1>2, <1>5, <2>1 DEF Orderly
<1> QED
  BY <1>1, <1>3, <1>4, <1>5 DEF Fresh

LEMMA MessageFits ==
    ASSUME NEW h \in Headers, NEW b \in DOMAIN h.blocks, NEW i \in 1 .. Len(h.blocks[b]),
           KindOf(h, <<b, i>>) \in OnceKinds \cup AttrKinds
    PROVE  Fits(Message(h, <<b, i>>))
<1> DEFINE msg == h.blocks[b][i]
<1>1. h.blocks[b] \in Seq(ToSet(h.blocks[b]))
  BY HeaderAssumption
<1>2. msg \in ToSet(h.blocks[b])
  BY <1>1 DEF ToSet
<1>3. /\ msg.good \in BOOLEAN
      /\ msg.kind = "space" => msg.dims \in Seq(Nat)
      /\ msg.kind = "type" =>
            /\ msg.types \in Seq(ToSet(msg.types)) \ {<<>>}
            /\ \A t \in ToSet(msg.types) : t.size \in Nat /\ t.real \in BOOLEAN
  BY <1>2, HeaderAssumption
<1> HIDE DEF msg
<1>4. Message(h, <<b, i>>) = msg /\ KindOf(h, <<b, i>>) = msg.kind
  BY DEF Message, KindOf, msg
<1> QED
  BY <1>3, <1>4 DEF Fits

(* When all is read, what has been seen is what the header says.           *)
LEMMA AllSeen ==
    ASSUME NEW h \in Headers, NEW rd, Picked(h, rd, Len(OrderOf(h)))
    PROVE  Seen(h, rd) = Says(h)
<1> DEFINE n == Len(OrderOf(h))
           O == OrderOf(h)
           K == OnceKinds \cup AttrKinds
<1>1. PICK p \in [0 .. n -> Seq(Places(h))] :
        /\ p[0] = <<>> /\ \A i \in 1 .. n : p[i] = p[i - 1] \o Wants(h)[i]
        /\ rd = p[n]
  BY DEF Picked
<1>2. n \in Nat /\ O \in Seq(Places(h))
  BY OrderLies
<1> DEFINE Holds(s, x) == \E j \in 1 .. Len(s) : s[j] = x
           Upon(l, x) == \E i \in 1 .. l : O[i] = x /\ KindOf(h, x) \in K
           T == {l \in 0 .. n : \A x : Holds(p[l], x) <=> Upon(l, x)}
<1>3. 0 \in T
  <2>1. \A x : ~ Holds(p[0], x) /\ ~ Upon(0, x)
    BY <1>1
  <2> QED
    BY <1>2, <2>1
<1>4. ASSUME NEW l \in 1 .. n, l - 1 \in T PROVE l \in T
  <2> DEFINE a == p[l - 1]
             w == Wants(h)[l]
             c == p[l]
             y == O[l]
  <2>1. l - 1 \in 0 .. n /\ l \in 0 .. n /\ l \in Nat /\ l - 1 \in Nat
    BY <1>2
  <2>2. a \in Seq(Places(h)) /\ y \in Places(h) /\ c = a \o w
    <3>1. a \in Seq(Places(h))
      BY <1>1, <2>1
    <3>2. y \in Places(h)
      BY <1>2
    <3>3. c = a \o w
      BY <1>1
    <3> QED
      BY <3>1, <3>2, <3>3
  <2>3. w = IF KindOf(h, y) \in K THEN <<y>> ELSE <<>>
    BY DEF Wants
  <2>4. \A x : Holds(a, x) <=> Upon(l - 1, x)
    BY <1>4
  <2>5. \A x : Upon(l, x) <=> Upon(l - 1, x) \/ (x = y /\ KindOf(h, y) \in K)
    <3>1. \A i : i \in 1 .. l <=> i \in 1 .. l - 1 \/ i = l
      BY <2>1
    <3> HIDE DEF O, K
    <3> QED
      BY <3>1
  <2> HIDE DEF a, w, c, y, O, Upon
  <2>6. \A x : Holds(c, x) <=> Holds(a, x) \/ (x = y /\ KindOf(h, y) \in K)
    <3>1. CASE KindOf(h, y) \in K
      <4>1. w \in Seq(Places(h)) /\ Len(w) = 1 /\ w[1] = y
        BY <2>2, <2>3, <3>1
      <4>2. /\ Len(c) = Len(a) + Len(w)
            /\ \A j \in 1 .. Len(a) : c[j] = a[j]
            /\ \A j \in 1 .. Len(w) : c[Len(a) + j] = w[j]
        <5> DEFINE D == Places(h)
        <5>1. a \in Seq(D)
          BY <2>2
        <5>2. w \in Seq(D)
          BY <4>1
        <5>3. c = a \o w
          BY <2>2
        <5> HIDE DEF D
        <5> QED
          BY <5>1, <5>2, <5>3, ConcatParts
      <4>3. Len(a) \in Nat
        BY <2>2
      <4>4. Len(c) = Len(a) + 1 /\ c[Len(a) + 1] = y
        <5>1. 1 \in 1 .. Len(w)
          BY <4>1
        <5> QED
          BY <4>1, <4>2, <5>1
      <4> DEFINE m == Len(a)
      <4>5. m \in Nat /\ Len(c) = m + 1 /\ c[m + 1] = y /\ \A j \in 1 .. m : c[j] = a[j]
        BY <4>2, <4>3, <4>4
      <4> HIDE DEF m
      <4>6. \A j : j \in 1 .. m + 1 <=> j \in 1 .. m \/ j = m + 1
        BY <4>5
      <4>7. \A x : Holds(c, x) <=> (\E j \in 1 .. m : a[j] = x) \/ x = y
        BY <4>5, <4>6
      <4> QED
        BY <3>1, <4>7 DEF m
    <3>2. CASE KindOf(h, y) \notin K
      <4>1. c = a
        BY <2>2, <2>3, <3>2
      <4> QED
        BY <3>2, <4>1
    <3> QED
      BY <3>1, <3>2
  <2> HIDE DEF Holds
  <2>7. \A x : Holds(c, x) <=> Upon(l, x)
    BY <2>4, <2>5, <2>6
  <2> QED
    BY <2>1, <2>7 DEF c
<1> HIDE DEF T
<1>5. n \in T
  <2>1. n \in 0 .. n
    BY <1>2
  <2> HIDE DEF n
  <2>2. \A l \in 0 .. n : l \in T
    BY <1>2, <1>3, <1>4, InductionUpTo
  <2> QED
    BY <2>1, <2>2
<1>6. \A x : Holds(rd, x) <=> Upon(n, x)
  BY <1>1, <1>5 DEF T
<1>7. ASSUME NEW k \in K PROVE Seen(h, rd)[k] = Says(h)[k]
  <2>1. Seen(h, rd)[k] = {Message(h, rd[j]) : j \in {l \in 1 .. Len(rd) : KindOf(h, rd[l]) = k}}
    BY DEF Seen
  <2>2. Says(h)[k] = {Message(h, O[j]) : j \in {l \in 1 .. n : KindOf(h, O[l]) = k}}
    BY DEF Says
  <2> HIDE DEF n, O, K
  <2>3. ASSUME NEW v \in Seen(h, rd)[k] PROVE v \in Says(h)[k]
    <3>1. PICK j \in 1 .. Len(rd) : KindOf(h, rd[j]) = k /\ v = Message(h, rd[j])
      BY <2>1
    <3>2. PICK i \in 1 .. n : O[i] = rd[j]
      BY <1>6
    <3> QED
      BY <2>2, <3>1, <3>2
  <2>4. ASSUME NEW v \in Says(h)[k] PROVE v \in Seen(h, rd)[k]
    <3>1. PICK i \in 1 .. n : KindOf(h, O[i]) = k /\ v = Message(h, O[i])
      BY <2>2
    <3>2. PICK j \in 1 .. Len(rd) : rd[j] = O[i]
      BY <1>6, <3>1
    <3> QED
      BY <2>1, <3>1, <3>2
  <2> QED
    BY <2>3, <2>4
<1> QED
  BY <1>7 DEF Seen, Says

LEMMA PickLast ==
    ASSUME NEW h \in Headers
    PROVE  Picked(h, FlattenSeq(Wants(h)), Len(OrderOf(h)))
<1>1. PICK k \in [0 .. Len(Wants(h)) -> Seq(Places(h))] :
        /\ k[0] = <<>>
        /\ \A i \in 1 .. Len(Wants(h)) : k[i] = k[i - 1] \o Wants(h)[i]
        /\ FlattenSeq(Wants(h)) = k[Len(Wants(h))]
  BY WantsTyped, FlattenIsWalk
<1> QED
  BY <1>1, WantsTyped DEF Picked

-----------------------------------------------------------------------------
(* The object is at each time what has been read of it, and filled what    *)
(* the header says.                                                        *)
ObjInv ==
    /\ pc # "filled" => super = header.super
    /\ WellMade(header) /\ Orderly(header) /\ err_flag = 0 =>
        /\ pc # "filled" => Made(obj, Seen(header, read))
        /\ pc = "filled" /\ result = 0 => FilledRight(Says(header), obj, super, header.super)

LEMMA ObjInit == HeaderInit => ObjInv
<1> SUFFICES ASSUME HeaderInit PROVE ObjInv
  OBVIOUS
<1>1. pc = "fill" /\ obj = NewData /\ super = header.super /\ read = <<>>
  BY DEF HeaderInit
<1>2. \A k \in OnceKinds \cup AttrKinds : Seen(header, read)[k] = {}
  BY <1>1 DEF Seen
<1>3. Made(NewData, Seen(header, read))
  BY <1>2, NewMade
<1> QED
  BY <1>1, <1>3 DEF ObjInv

(* A reader that takes a message in.                                       *)
LEMMA ReadMade ==
    ASSUME WalkInv, PlaceInv, ObjInv, NEW kinds, AtMessage(kinds), NEW g, SetTop(g), ReadInto(Msg),
           UNCHANGED <<header, pc>>,
           g.block = Top.block, g.bytes_read = Top.bytes_read, g.message_num = Top.message_num,
           g.switched \in BOOLEAN, g.switched,
           Msg.kind \in OnceKinds \cup AttrKinds
    PROVE  ObjInv'
<1>1. pc = "walk" /\ header \in Headers
  BY DEF AtMessage, WalkInv, StackOK
<1> DEFINE b == Top.block
           i == Top.bytes_read + 1
           n == Len(stack)
           x == <<b, i>>
           h == header
<1>2. /\ Deals(h, stack, n, b, i, stack', g)
      /\ Msg = h.blocks[b][i]
  BY DealsHere
<1>3. /\ read' = Append(read, x) /\ super' = super
      /\ obj' = ReadMessage(obj, Msg).obj
      /\ err_flag' = 0 => err_flag = 0 /\ ~ ReadMessage(obj, Msg).err
  BY DEF ReadInto
<1>4. pc' = "walk" /\ h' = h /\ super' = h'.super
  BY <1>1, <1>3 DEF ObjInv
<1> SUFFICES ASSUME WellMade(h), Orderly(h), err_flag' = 0
             PROVE  Made(obj', Seen(h, read'))
  BY <1>4 DEF ObjInv
<1>5. Made(obj, Seen(h, read)) /\ ~ ReadMessage(obj, Msg).err
  BY <1>1, <1>3 DEF ObjInv
<1>6. IsInjective(OrderOf(h))
  BY DEF WellMade
<1>7. PICK off : Spans(h, stack, off) /\ ReadBefore(h, read, Reached(h, stack, off))
  BY <1>1, <1>6 DEF PlaceInv, Placed
<1> HIDE DEF b, i, n
<1>8. PICK m \in Nat :
        /\ ReadBefore(h, read, m)
        /\ b \in DOMAIN h.blocks /\ i \in 1 .. Len(h.blocks[b])
        /\ m + 1 \in 1 .. Len(OrderOf(h)) /\ OrderOf(h)[m + 1] = <<b, i>>
  BY <1>1, <1>2, <1>7, DealGoes
<1>9. Msg = Message(h, x) /\ KindOf(h, x) \in OnceKinds \cup AttrKinds
  BY <1>2 DEF Message, KindOf
<1>10. Fits(Msg)
  <2>1. KindOf(h, <<b, i>>) \in OnceKinds \cup AttrKinds
    BY <1>9
  <2>2. Fits(Message(h, <<b, i>>))
    BY <1>1, <1>8, <2>1, MessageFits
  <2> QED
    BY <1>9, <2>2
<1>11. Fresh(Seen(h, read), Msg)
  <2>1. x = OrderOf(h)[m + 1] /\ m + 1 \in 1 .. Len(OrderOf(h)) /\ ReadBefore(h, read, m)
    BY <1>8
  <2> HIDE DEF x, h
  <2>2. h \in Headers
    BY <1>1 DEF h
  <2> QED
    BY <1>9, <2>1, <2>2, FreshNext
<1>12. Adds(Seen(h, read), Msg, Seen(h, read'))
  <2> DEFINE l == Len(read)
             ru == read'
  <2>1. /\ Len(Append(read, x)) = l + 1 /\ l \in Nat
        /\ Append(read, x)[l + 1] = x
        /\ \A j \in 1 .. l : Append(read, x)[j] = read[j]
    BY <1>1, <1>8, ReadOneMore
  <2>2. l \in Nat /\ Len(read) = l /\ Len(ru) = l + 1 /\ ru[l + 1] = x /\ \A j \in 1 .. l : ru[j] = read[j]
    BY <1>3, <2>1
  <2> HIDE DEF l, ru, x, h
  <2>3. Adds(Seen(h, read), Message(h, x), Seen(h, ru))
    BY <1>9, <2>2, SeenNext
  <2> QED
    BY <1>9, <2>3 DEF ru
<1>13. Reads(obj, Seen(h, read), Msg, Seen(h, read'))
  BY <1>5, <1>10, <1>11, <1>12 DEF Reads
<1>14. Made(ReadMessage(obj, Msg).obj, Seen(h, read'))
  BY <1>5, <1>13, MessageReads
<1> QED
  BY <1>3, <1>14

(* What is done with the object when all has been read.                    *)
LEMMA FilledMade ==
    ASSUME WalkInv, PlaceInv, ObjInv, FillRest
    PROVE  ObjInv'
<1> DEFINE h == header
<1>1. pc = "collected" /\ h \in Headers /\ pc' = "filled" /\ UNCHANGED <<header, err_flag, read>>
  BY DEF FillRest, WalkInv, StackOK
<1> SUFFICES ASSUME WellMade(h), Orderly(h), err_flag = 0, result' = 0
             PROVE  FilledRight(Says(h), obj', super', h.super)
  BY <1>1 DEF ObjInv
<1>2. super = h.super /\ Made(obj, Seen(h, read))
  BY <1>1 DEF ObjInv
<1>3. Seen(h, read) = Says(h)
  <2>1. read = FlattenSeq(Wants(h))
    BY <1>1 DEF PlaceInv, WellMade
  <2> QED
    BY <1>1, <2>1, PickLast, AllSeen
<1>4. Sane(Says(h))
  <2> SUFFICES ASSUME Says(h)["sparse"] # {}, NEW k \in {"space", "type"} PROVE Says(h)[k] = {}
    BY DEF Sane
  <2>1. PICK i \in 1 .. Len(OrderOf(h)) : KindOf(h, OrderOf(h)[i]) = "sparse"
    BY KindsApart DEF Says
  <2>2. \A j \in 1 .. Len(OrderOf(h)) : KindOf(h, OrderOf(h)[j]) # k
    BY <2>1 DEF Orderly
  <2> QED
    BY <2>2, KindsApart DEF Says
<1>5. Above(h.super)
  BY <1>1, HeaderAssumption DEF Above
<1> DEFINE c == CollectMetaData(obj, super)
<1>6. /\ super' = c.super
      /\ \/ c.obj.is_empty /\ obj' = c.obj
         \/ ~ c.obj.is_empty /\ ~ AllocateSpace(c.obj).err /\ obj' = AllocateSpace(c.obj).obj
  BY DEF FillRest
<1> HIDE DEF c
<1>7. FilledRight(Says(h), obj', c.super, h.super)
  <2>1. c = CollectMetaData(obj, h.super)
    BY <1>2 DEF c
  <2>2. Made(obj, Says(h))
    BY <1>2, <1>3
  <2> DEFINE seen == Says(h)
             above == h.super
             e == obj'
  <2>3. Made(obj, seen) /\ Sane(seen) /\ Above(above) /\ c = CollectMetaData(obj, above)
    BY <1>4, <1>5, <2>1, <2>2
  <2>4. \/ c.obj.is_empty /\ e = c.obj
        \/ ~ c.obj.is_empty /\ ~ AllocateSpace(c.obj).err /\ e = AllocateSpace(c.obj).obj
    BY <1>6
  <2> HIDE DEF seen, above, e
  <2>5. FilledRight(seen, e, c.super, above)
    BY <2>3, <2>4, FillMakes
  <2> QED
    BY <2>5 DEF seen, above, e
<1> QED
  BY <1>6, <1>7

LEMMA ObjStep == WalkInv /\ PlaceInv /\ ObjInv /\ [HeaderNext]_headerVars => ObjInv'
<1> SUFFICES ASSUME WalkInv, PlaceInv, ObjInv, [HeaderNext]_headerVars PROVE ObjInv'
  OBVIOUS
<1>0. ASSUME pc # "filled", pc' # "filled", UNCHANGED <<header, obj, super, read>>, err_flag' = 0 => err_flag = 0
      PROVE  ObjInv'
  BY <1>0 DEF ObjInv
<1>1. CASE FillObjectHeader
  BY <1>0, <1>1 DEF FillObjectHeader
<1>2. CASE OnceMessage
  <2> DEFINE g == [Top EXCEPT !.switched = TRUE, !.repeat_tracker = @ \cup {Msg.kind}]
  <2>1. /\ AtMessage(OnceKinds) /\ SetTop(g) /\ UNCHANGED <<header, pc>>
        /\ \/ ReadInto(Msg)
           \/ UNCHANGED <<err_flag, obj, super, read>>
    BY <1>2 DEF OnceMessage
  <2>2. Top \in Frames /\ Msg.kind \in OnceKinds /\ pc = "walk"
    BY <2>1, TopSet DEF AtMessage
  <2>3. /\ g.block = Top.block /\ g.bytes_read = Top.bytes_read /\ g.message_num = Top.message_num
        /\ g.switched \in BOOLEAN /\ g.switched
    BY <2>2 DEF Frames
  <2> HIDE DEF g
  <2>4. CASE ReadInto(Msg)
    BY <2>1, <2>2, <2>3, <2>4, ReadMade
  <2>5. CASE UNCHANGED <<err_flag, obj, super, read>>
    BY <1>0, <2>1, <2>2, <2>5
  <2> QED
    BY <2>1, <2>4, <2>5
<1>3. CASE AttributeMessage
  <2> DEFINE g == [Top EXCEPT !.switched = TRUE]
  <2>1. AtMessage(AttrKinds) /\ SetTop(g) /\ UNCHANGED <<header, pc>> /\ ReadInto(Msg)
    BY <1>3 DEF AttributeMessage
  <2>2. Top \in Frames /\ Msg.kind \in AttrKinds
    BY <2>1, TopSet DEF AtMessage
  <2>3. /\ g.block = Top.block /\ g.bytes_read = Top.bytes_read /\ g.message_num = Top.message_num
        /\ g.switched \in BOOLEAN /\ g.switched
    BY <2>2 DEF Frames
  <2> HIDE DEF g
  <2> QED
    BY <2>1, <2>2, <2>3, ReadMade
<1>4. CASE OtherMessage \/ BadContinuation \/ Continuation
  BY <1>0, <1>4 DEF OtherMessage, BadContinuation, Continuation, AtMessage
<1>5. CASE NextMessage \/ BlockRead \/ GiveUp
  BY <1>0, <1>5 DEF NextMessage, BlockRead, GiveUp, ReturnTo
<1>6. CASE FillRest
  BY <1>6, FilledMade
<1>7. CASE Filled \/ UNCHANGED headerVars
  BY <1>7 DEF Filled, headerVars, ObjInv
<1> QED
  BY <1>1, <1>2, <1>3, <1>4, <1>5, <1>6, <1>7 DEF HeaderNext, Interpret

-----------------------------------------------------------------------------
(* What the property calls Has and The are the messages that the header    *)
(* says.                                                                   *)
LEMMA PlaceIs ==
    ASSUME header \in Headers, NEW kind
    PROVE  /\ Has(kind) => /\ Place(kind) \in 1 .. Len(OrderOf(header))
                           /\ KindOf(header, OrderOf(header)[Place(kind)]) = kind
                           /\ The(kind) = Message(header, OrderOf(header)[Place(kind)])
           /\ \A i \in 1 .. Len(OrderOf(header)) : KindOf(header, OrderOf(header)[i]) = kind => Has(kind)
<1> DEFINE I == {i \in 1 .. Len(Order) : MsgAt(Order[i]).kind = kind}
<1>1. Place(kind) = IF I # {} THEN Min(I) ELSE 0
  BY DEF Place, SelectInSeq
<1>2. Len(Order) \in Nat /\ Order = OrderOf(header)
  BY OrderIs, OrderLies
<1>3. I \in SUBSET Nat
  BY <1>2
<1>4. I # {} => Place(kind) \in I
  BY <1>1, <1>3, LeastOf
<1>5. Has(kind) <=> I # {}
  <2>1. 0 \notin I
    BY <1>2
  <2> HIDE DEF I
  <2> QED
    BY <1>1, <1>4, <2>1 DEF Has
<1>6. \A p : MsgAt(p) = Message(header, p) /\ MsgAt(p).kind = KindOf(header, p)
  BY DEF MsgAt, Block, Message, KindOf
<1> QED
  BY <1>2, <1>4, <1>5, <1>6 DEF The

LEMMA SaysHas ==
    ASSUME header \in Headers, NEW kind \in OnceKinds \cup AttrKinds
    PROVE  /\ Has(kind) => The(kind) \in Says(header)[kind]
           /\ ~ Has(kind) => Says(header)[kind] = {}
           /\ kind \in OnceKinds /\ WellMade(header) /\ Has(kind) => Says(header)[kind] = {The(kind)}
<1> DEFINE O == OrderOf(header)
           n == Len(O)
           J == {l \in 1 .. n : KindOf(header, O[l]) = kind}
<1>1. Says(header)[kind] = {Message(header, O[j]) : j \in J}
  BY DEF Says
<1>2. /\ Has(kind) => Place(kind) \in J /\ The(kind) = Message(header, O[Place(kind)])
      /\ ~ Has(kind) => J = {}
  BY PlaceIs
<1>3. ASSUME kind \in OnceKinds, WellMade(header), NEW i \in J, NEW j \in J PROVE i = j
  BY <1>3 DEF WellMade
<1> HIDE DEF J, O
<1>4. kind \in OnceKinds /\ WellMade(header) /\ Has(kind) => J = {Place(kind)}
  BY <1>2, <1>3
<1> QED
  BY <1>1, <1>2, <1>4

LEMMA OneOfTwo ==
    ASSUME NEW S, IsFiniteSet(S), Cardinality(S) <= 1, NEW i \in S, NEW j \in S
    PROVE  i = j
<1> SUFFICES ASSUME i # j PROVE FALSE
  OBVIOUS
<1>1. IsFiniteSet(S \ {i}) /\ Cardinality(S \ {i}) = Cardinality(S) - 1
  BY FS_RemoveElement
<1>2. Cardinality(S) \in Nat /\ Cardinality(S \ {i}) \in Nat
  BY <1>1, FS_CardinalityType
<1>3. Cardinality(S \ {i}) = 0
  BY <1>1, <1>2
<1>4. S \ {i} = {}
  BY <1>1, <1>3, FS_EmptySet
<1> QED
  BY <1>4

LEMMA OrderedIs ==
    ASSUME header \in Headers, WellMade(header), Ordered
    PROVE  Orderly(header)
<1> DEFINE O == OrderOf(header)
           n == Len(O)
           kind(i) == KindOf(header, O[i])
<1>0. n \in Nat /\ Order = O /\ DOMAIN Order = 1 .. n
  BY OrderIs, OrderLies
<1>1. ASSUME NEW i \in 1 .. n, NEW j \in 1 .. n, kind(i) = "space", kind(j) = "layout" PROVE i < j
  <2>1. Has("space") /\ Has("layout")
    BY <1>1, PlaceIs
  <2>2. /\ Place("space") \in 1 .. n /\ kind(Place("space")) = "space"
        /\ Place("layout") \in 1 .. n /\ kind(Place("layout")) = "layout"
    BY <2>1, PlaceIs
  <2>3. i = Place("space") /\ j = Place("layout")
    BY <1>1, <2>2, KindsApart DEF WellMade
  <2> QED
    BY <2>1, <2>3 DEF Ordered
<1>2. ASSUME NEW i \in 1 .. n, NEW j \in 1 .. n, {kind(i), kind(j)} \subseteq {"class", "decode"} PROVE i = j
  <2> DEFINE S == {k \in DOMAIN Order : MsgAt(Order[k]).kind \in {"class", "decode"}}
  <2>1. IsFiniteSet(S)
    <3>1. IsFiniteSet(1 .. n)
      BY <1>0, FS_Interval
    <3>2. S \subseteq 1 .. n
      BY <1>0
    <3> HIDE DEF S, n
    <3> QED
      BY <3>1, <3>2, FS_Subset
  <2>2. Cardinality(S) <= 1
    BY DEF Ordered
  <2>3. i \in S /\ j \in S
    BY <1>0, <1>2 DEF MsgAt, Block, KindOf
  <2> HIDE DEF S
  <2> QED
    BY <2>1, <2>2, <2>3, OneOfTwo
<1>3. ASSUME NEW i \in 1 .. n, NEW j \in 1 .. n, kind(i) = "sparse" PROVE kind(j) \notin {"space", "type"}
  <2>1. Has("sparse")
    BY <1>3, PlaceIs
  <2>2. ~ Has("space") /\ ~ Has("type")
    BY <2>1 DEF Ordered
  <2> QED
    BY <2>2, PlaceIs
<1> QED
  BY <1>1, <1>2, <1>3 DEF Orderly

(* The product of the dimensions ends at the 0 behind them.                *)
LEMMA NumElemsIs ==
    ASSUME NEW dims \in Seq(Nat), 0 \notin ToSet(dims)
    PROVE  NumElems(dims) = FoldLeft(LAMBDA n, x : n * x, 1, dims)
<1> DEFINE n == Len(dims)
           closed == Append(dims, 0)
           I == {i \in 1 .. Len(closed) : closed[i] = 0}
           end == SelectInSeq(closed, LAMBDA x : x = 0)
<1>1. n \in Nat /\ Len(closed) = n + 1 /\ closed[n + 1] = 0 /\ \A i \in 1 .. n : closed[i] = dims[i]
  OBVIOUS
<1>2. \A i \in 1 .. n : dims[i] # 0
  BY DEF ToSet
<1>3. I = {n + 1}
  <2> HIDE DEF closed, n
  <2>1. \A i : i \in 1 .. n + 1 <=> i \in 1 .. n \/ i = n + 1
    BY <1>1
  <2> QED
    BY <1>1, <1>2, <2>1
<1>4. end = Min(I)
  BY <1>3 DEF SelectInSeq
<1>5. Min({n + 1}) = n + 1
  BY <1>1 DEF Min
<1>6. end - 1 = n
  <2>1. end = n + 1
    BY <1>3, <1>4, <1>5
  <2> HIDE DEF end, closed, n
  <2> QED
    BY <1>1, <2>1
<1>7. SubSeq(dims, 1, n) = dims
  OBVIOUS
<1> HIDE DEF closed, n
<1>8. SubSeq(dims, 1, end - 1) = dims
  BY <1>6, <1>7
<1> QED
  BY <1>8 DEF NumElems, closed

LEMMA NamedIs ==
    ASSUME header \in Headers, NEW name, NamedBy(Says(header), name)
    PROVE  name = Named
<1>1. CASE Has("decode")
  <2>1. The("decode") \in Says(header)["decode"]
    BY <1>1, KindsApart, SaysHas
  <2> QED
    BY <1>1, <2>1 DEF NamedBy, Named
<1>2. CASE ~ Has("decode") /\ Has("class")
  <2>1. The("class") \in Says(header)["class"]
    BY <1>2, KindsApart, SaysHas
  <2> QED
    BY <1>2, <2>1 DEF NamedBy, Named
<1>3. CASE ~ Has("decode") /\ ~ Has("class")
  <2>1. Says(header)["decode"] = {} /\ Says(header)["class"] = {}
    BY <1>3, KindsApart, SaysHas
  <2> QED
    BY <1>3, <2>1 DEF NamedBy, Named
<1> QED
  BY <1>1, <1>2, <1>3

LEMMA ClassIs ==
    ASSUME header \in Headers, WellMade(header), NEW name, NamedBy(Says(header), name)
    PROVE  ClassFrom(Says(header), name, header.super) = ClassMeant
<1>1. name = Named
  BY NamedIs
<1>2. Says(header)["sparse"] # {} <=> Has("sparse")
  BY KindsApart, SaysHas
<1>3. (\E m \in Says(header)["type"] : Last(m.types).type = "reference")
        <=> Has("type") /\ Last(The("type").types).type = "reference"
  <2>1. CASE Has("type")
    <3>1. Says(header)["type"] = {The("type")}
      BY <2>1, KindsApart, SaysHas
    <3> QED
      BY <2>1, <3>1
  <2>2. CASE ~ Has("type")
    <3>1. Says(header)["type"] = {}
      BY <2>2, KindsApart, SaysHas
    <3> QED
      BY <2>2, <3>1
  <2> QED
    BY <2>1, <2>2
<1>4. ArrayOf(Says(header), name, header.super) <=>
        /\ Named = "unknown" /\ Has("type") /\ header.super.class = "struct"
        /\ Last(The("type").types).type = "reference"
  BY <1>1, <1>3 DEF ArrayOf
<1> QED
  BY <1>1, <1>2, <1>4 DEF ClassFrom, ClassMeant

LEMMA RightIs ==
    ASSUME header \in Headers, WellMade(header), Ordered, FilledRight(Says(header), obj, super, header.super)
    PROVE  ObjectRight
<1>1. CASE Has("empty")
  <2>1. Says(header)["empty"] # {}
    BY <1>1, KindsApart, SaysHas
  <2> QED
    BY <1>1, <2>1 DEF FilledRight, ObjectRight
<1>2. CASE ~ Has("empty")
  <2>1. Right(Says(header), obj, super, header.super)
    <3>1. Says(header)["empty"] = {}
      BY <1>2, KindsApart, SaysHas
    <3> QED
      BY <3>1 DEF FilledRight
  <2>2. obj.class = ClassMeant
    <3>1. PICK name : NamedBy(Says(header), name) /\ obj.class = ClassFrom(Says(header), name, header.super)
      BY <2>1 DEF Right
    <3> QED
      BY <3>1, ClassIs
  <2>3. ASSUME Has("type")
        PROVE  /\ obj.elem_size = Head(The("type").types).size
               /\ obj.complex <=> (\E k \in DOMAIN The("type").types : The("type").types[k].real)
    <3>1. The("type") \in Says(header)["type"]
      BY <2>3, KindsApart, SaysHas
    <3>2. TypeMade(obj, The("type").types)
      BY <2>1, <3>1 DEF Right
    <3>3. Head(The("type").types).size # 0
      BY <2>3 DEF Ordered
    <3> QED
      BY <3>2, <3>3 DEF TypeMade
  <2>4. ASSUME Has("space"), obj.class \notin {"struct", "function"}
        PROVE  /\ obj.dims = Reverse(The("space").dims) /\ obj.num_dims = Len(obj.dims)
               /\ 0 \notin ToSet(obj.dims) => obj.num_elems = FoldLeft(LAMBDA n, x : n * x, 1, obj.dims)
    <3>1. The("space") \in Says(header)["space"]
      BY <2>4, KindsApart, SaysHas
    <3>2. /\ obj.dims \in Seq(Nat) /\ obj.dims = Reverse(The("space").dims)
          /\ obj.num_dims = Len(obj.dims) /\ obj.num_elems = NumElems(obj.dims)
      BY <2>1, <2>4, <3>1 DEF Right, SpaceRight
    <3>3. ASSUME 0 \notin ToSet(obj.dims) PROVE NumElems(obj.dims) = FoldLeft(LAMBDA n, x : n * x, 1, obj.dims)
      BY <3>2, <3>3, NumElemsIs
    <3> QED
      BY <3>2, <3>3
  <2>5. LayoutRight(Says(header), obj)
    BY <2>1 DEF Right
  <2>6. Has("layout") => obj.layout_class = The("layout").class
    BY <2>5, KindsApart, SaysHas DEF LayoutRight
  <2>7. ASSUME obj.layout_class = Chunked PROVE obj.update_dims = Reverse(The("space").dims)
    <3>1. Has("layout")
      <4>1. ~ Has("layout") => obj.layout_class = NoData
        BY <2>5, KindsApart, SaysHas DEF LayoutRight
      <4> QED
        BY <2>7, <4>1 DEF NoData, Chunked
    <3>2. The("layout").class = Chunked /\ Has("space")
      BY <2>6, <2>7, <3>1 DEF Ordered
    <3>3. The("layout") \in Says(header)["layout"] /\ The("space") \in Says(header)["space"]
      BY <3>1, <3>2, KindsApart, SaysHas
    <3> QED
      BY <2>5, <3>2, <3>3 DEF LayoutRight
  <2>8. obj.is_struct_array => super.dims = obj.dims
    BY <2>1 DEF Right
  <2> QED
    BY <1>2, <2>2, <2>3, <2>4, <2>6, <2>7, <2>8 DEF ObjectRight
<1> QED
  BY <1>1, <1>2

(* Of every well-formed header, whatever the order and the blocks in which *)
(* its messages come, fillObject has made what the messages say when it    *)
(* returns without error: class, size of the elements, dimensions, layout  *)
(* and the dims of a struct array fit, though each is set by a reader that *)
(* sees only what was read before it.                                      *)
THEOREM ObjectRightInvariant == HeaderSpec => []ObjectRight
<1>1. WalkInv /\ PlaceInv /\ ObjInv /\ [HeaderNext]_headerVars => (WalkInv /\ PlaceInv /\ ObjInv)'
  BY WalkStep, PlaceStep, ObjStep
<1>2. ASSUME WalkInv, ObjInv PROVE ObjectRight
  <2> SUFFICES ASSUME pc = "filled", WellFormed, Ordered, err_flag = 0, result = 0 PROVE ObjectRight
    BY DEF ObjectRight
  <2>1. header \in Headers
    BY <1>2 DEF WalkInv, StackOK
  <2>2. WellMade(header)
    BY OrderIs DEF WellFormed, WellMade, KindOf, MsgAt, Block
  <2>3. Orderly(header)
    BY <2>1, <2>2, OrderedIs
  <2>4. FilledRight(Says(header), obj, super, header.super)
    BY <1>2, <2>2, <2>3 DEF ObjInv
  <2> QED
    BY <2>1, <2>2, <2>4, RightIs
<1> QED
  BY WalkInit, PlaceInit, ObjInit, <1>1, <1>2, PTL DEF HeaderSpec

===============================================================================
