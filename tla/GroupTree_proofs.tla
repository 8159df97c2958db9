---------------------------- MODULE GroupTree_proofs ----------------------------
(* MappingsBalanced, for all files: trees of any depth and shape, circles  *)
(* among them, up to the first call that fails.                            *)
EXTENDS GroupTree, SequenceTheorems, TLAPS

Objects ==
    [addr : Int, name : STRING \cup {""}, super : Nat, subs : Seq(Nat), s_c_array_index : Nat,
     class : {"unknown"}, is_struct_array : BOOLEAN, is_filled : BOOLEAN,
     has_data : BOOLEAN, is_mx_used : BOOLEAN]

TreeFrames ==
    [fn : {"tree"}, node : TreeNodes(file), object : 1 .. Len(objs), at : {"entry", "kids"}, i : Nat]
SnodFrames ==
    [fn : {"snod"}, node : DOMAIN file.nodes, object : 1 .. Len(objs),
     at : {"entry", "handed on", "symbols", "subtree"}, i : Nat]
FrameOK(f) ==
    /\ f.at = "kids" => f.i >= 1
    /\ f.at \in {"symbols", "subtree"} =>
        file.nodes[f.node].sig = "SNOD" /\ f.i <= Len(file.nodes[f.node].syms)
    /\ f.at = "subtree" => f.i >= 1
Frames == {f \in TreeFrames \cup SnodFrames : FrameOK(f)}

TreeTypeOK ==
    /\ file \in Files
    /\ objs \in Seq(Objects) /\ objs # <<>>
    /\ frames \in Seq(Frames)
    /\ ret \in {0, 1, Running}
    /\ ignored \in BOOLEAN

(* A call that waits for another one has given its mappings back: its      *)
(* symbols are not being read.                                             *)
Waiting(fs) == \A k \in 1 .. Len(fs) - 1 : fs[k].at # "symbols"
ReturnedTo == ret # Running /\ frames # <<>> => Inner.at # "symbols"

TreeInv == TreeTypeOK /\ Waiting(frames) /\ ReturnedTo /\ MappingsBalanced

-----------------------------------------------------------------------------
(* The stack of calls: a turn of the innermost one, a call, a return.      *)
LEMMA Single ==
    ASSUME NEW S, NEW x \in S
    PROVE  <<x>> \in Seq(S) /\ <<x>> # <<>> /\ Len(<<x>>) = 1 /\ Last(<<x>>) = x
BY DEF Last

LEMMA Turned ==
    ASSUME NEW S, NEW fs \in Seq(S), fs # <<>>, NEW f \in S, Waiting(fs)
    PROVE  LET gs == [fs EXCEPT ![Len(fs)] = f]
           IN  gs \in Seq(S) /\ gs # <<>> /\ Len(gs) = Len(fs) /\ Last(gs) = f /\ Waiting(gs)
<1>1. Len(fs) \in Nat \ {0}
  OBVIOUS
<1> QED
  BY <1>1 DEF Last, Waiting

LEMMA Called ==
    ASSUME NEW S, NEW fs \in Seq(S), NEW c \in S, Waiting(fs), fs # <<>> => Last(fs).at # "symbols"
    PROVE  LET gs == Append(fs, c)
           IN  gs \in Seq(S) /\ gs # <<>> /\ Last(gs) = c /\ Waiting(gs)
<1>1. Len(fs) \in Nat
  OBVIOUS
<1>2. /\ Append(fs, c) \in Seq(S) /\ Append(fs, c) # <<>> /\ Len(Append(fs, c)) = Len(fs) + 1
      /\ \A k \in 1 .. Len(fs) : Append(fs, c)[k] = fs[k]
      /\ Append(fs, c)[Len(fs) + 1] = c
  BY AppendProperties
<1>4. ASSUME NEW k \in 1 .. Len(fs) PROVE fs[k].at # "symbols"
  <2>1. CASE k = Len(fs)
    BY <2>1, <1>1 DEF Last
  <2>2. CASE k # Len(fs)
    BY <2>2, <1>1 DEF Waiting
  <2> QED
    BY <2>1, <2>2
<1> QED
  BY <1>1, <1>2, <1>4 DEF Last, Waiting

LEMMA Popped ==
    ASSUME NEW S, NEW fs \in Seq(S), fs # <<>>, Waiting(fs)
    PROVE  LET gs == Front(fs)
           IN  gs \in Seq(S) /\ Waiting(gs) /\ (gs # <<>> => Last(gs).at # "symbols")
<1>1. Len(fs) \in Nat \ {0}
  OBVIOUS
<1> DEFINE n == Len(fs) - 1
<1>2. n \in Nat /\ \A k \in 1 .. n : fs[k] \in S
  BY <1>1
<1>3. /\ SubSeq(fs, 1, n) \in Seq(S)
      /\ Len(SubSeq(fs, 1, n)) = IF 1 <= n THEN n - 1 + 1 ELSE 0
      /\ \A k \in 1 .. n - 1 + 1 : SubSeq(fs, 1, n)[k] = fs[1 + k - 1]
  <2> HIDE DEF n
  <2> QED
    BY <1>2, SubSeqProperties
<1>4. Len(SubSeq(fs, 1, n)) = n
  <2> HIDE DEF n
  <2> QED
    BY <1>2, <1>3
<1>5. ASSUME NEW k \in 1 .. n PROVE SubSeq(fs, 1, n)[k] = fs[k]
  <2> HIDE DEF n
  <2>1. k \in 1 .. n - 1 + 1 /\ 1 + k - 1 = k
    BY <1>2
  <2> QED
    BY <1>3, <2>1
<1>6. Front(fs) = SubSeq(fs, 1, n)
  BY DEF Front
<1> QED
  BY <1>1, <1>3, <1>4, <1>5, <1>6, EmptySeq DEF Last, Waiting

(* What readSnod maps for a node it gives back, and then nothing is left.  *)
LEMMA RemoveLast ==
    ASSUME NEW a, NEW b, a # b
    PROVE  RemoveFirst(<<a, b>>, b) = <<a>> /\ RemoveFirst(<<a>>, a) = <<>>
<1>1. SelectInSeq(<<a, b>>, LAMBDA v : v = b) = 2
  <2>1. {i \in 1 .. Len(<<a, b>>) : <<a, b>>[i] = b} = {2}
    OBVIOUS
  <2>2. Min({2}) = 2
    BY DEF Min
  <2> QED
    BY <2>1, <2>2 DEF SelectInSeq
<1>2. SelectInSeq(<<a>>, LAMBDA v : v = a) = 1
  <2>1. {i \in 1 .. Len(<<a>>) : <<a>>[i] = a} = {1}
    OBVIOUS
  <2>2. Min({1}) = 1
    BY DEF Min
  <2> QED
    BY <2>1, <2>2 DEF SelectInSeq
<1>3. RemoveAt(<<a, b>>, 2) = <<a>>
  <2>1. SubSeq(<<a, b>>, 1, 1) = <<a>>
    <3>1. <<a, b>> \in Seq({a, b}) /\ <<a, b>>[1] = a /\ 1 \in 1 .. Len(<<a, b>>) /\ 1 \in 1 .. 1
      OBVIOUS
    <3>2. SubSeq(<<a, b>>, 1, 1) = <<<<a, b>>[1]>> \o SubSeq(<<a, b>>, 1 + 1, 1)
      BY <3>1, SubSeqRecursiveFirst
    <3>3. SubSeq(<<a, b>>, 1 + 1, 1) = <<>> /\ <<a>> \o <<>> = <<a>>
      BY SubSeqEmpty
    <3> QED
      BY <3>1, <3>2, <3>3
  <2>2. SubSeq(<<a, b>>, 3, 2) = <<>>
    BY SubSeqEmpty
  <2>3. <<a>> \o <<>> = <<a>>
    OBVIOUS
  <2>4. Len(<<a, b>>) = 2 /\ 2 - 1 = 1 /\ 2 + 1 = 3
    OBVIOUS
  <2> QED
    BY <2>1, <2>2, <2>3, <2>4, Zenon DEF RemoveAt
<1>4. RemoveAt(<<a>>, 1) = <<>>
  BY DEF RemoveAt
<1>5. RemoveFirst(<<a, b>>, b) = <<a>>
  <2>1. \E i \in 1 .. Len(<<a, b>>) : <<a, b>>[i] = b
    OBVIOUS
  <2> QED
    BY <1>1, <1>3, <2>1 DEF RemoveFirst
<1>6. RemoveFirst(<<a>>, a) = <<>>
  BY <1>2, <1>4 DEF RemoveFirst
<1> QED
  BY <1>5, <1>6

LEMMA Released ==
    ASSUME NEW node, held = Mappings(node), ReleaseBoth(node)
    PROVE  held' = <<>>
<1>1. <<"heap", node>> # <<"snod", node>>
  OBVIOUS
<1>2. RemoveFirst(Mappings(node), <<"heap", node>>) = <<<<"snod", node>>>>
  BY <1>1, RemoveLast DEF Mappings
<1>3. RemoveFirst(<<<<"snod", node>>>>, <<"snod", node>>) = <<>>
  BY <1>1, RemoveLast
<1> QED
  BY <1>2, <1>3 DEF ReleaseBoth

LEMMA Mapped ==
    ASSUME NEW node, held = <<>>, MapBoth(node)
    PROVE  held' = Mappings(node)
<1>1. <<>> \o Mappings(node) = Mappings(node)
  BY DEF Mappings
<1> QED
  BY <1>1 DEF MapBoth

-----------------------------------------------------------------------------
(* What is known of the innermost call.                                    *)
LEMMA InnerOK ==
    ASSUME TreeInv, frames # <<>>
    PROVE  /\ Len(frames) \in Nat \ {0}
           /\ Inner \in Frames /\ Inner \in TreeFrames \cup SnodFrames /\ FrameOK(Inner)
           /\ Inner.node \in DOMAIN file.nodes /\ Inner.object \in 1 .. Len(objs) /\ Inner.i \in Nat
<1>1. Len(frames) \in Nat \ {0} /\ frames[Len(frames)] \in Frames
  BY EmptySeq, ElementOfSeq DEF TreeInv, TreeTypeOK
<1> QED
  BY <1>1 DEF Inner, Last, Frames, TreeFrames, SnodFrames, TreeNodes

(* What is known of the nodes of a file.                                   *)
LEMMA NodeTypes ==
    ASSUME TreeInv, NEW n \in DOMAIN file.nodes
    PROVE  /\ file.nodes[n].sig = "TREE" => file.nodes[n].kids \in Seq(DOMAIN file.nodes)
           /\ file.nodes[n].sig = "SNOD" => file.nodes[n].syms \in Seq(Symbols(file))
BY FilesAssumption DEF TreeInv, TreeTypeOK

(* objects are only ever added *)
Grown == file' = file /\ objs' \in Seq(Objects) /\ objs' # <<>> /\ Len(objs) <= Len(objs')

LEMMA Grows ==
    ASSUME TreeInv, Grown
    PROVE  Frames \subseteq Frames' /\ frames \in Seq(Frames')
<1>1. Len(objs) \in Nat /\ Len(objs') \in Nat
  BY DEF TreeInv, TreeTypeOK, Grown
<1>2. 1 .. Len(objs) \subseteq 1 .. Len(objs')
  BY <1>1 DEF Grown
<1>3. TreeFrames \subseteq TreeFrames' /\ SnodFrames \subseteq SnodFrames'
  BY <1>2 DEF TreeFrames, SnodFrames, TreeNodes, Grown
<1>4. ASSUME NEW f \in Frames PROVE f \in Frames'
  BY <1>3 DEF Frames, FrameOK, Grown
<1> QED
  BY <1>4, SeqMonotonic DEF TreeInv, TreeTypeOK

LEMMA Same == ASSUME TreeInv, UNCHANGED <<file, objs>> PROVE Grown
BY DEF TreeInv, TreeTypeOK, Grown

LEMMA NewObjectType ==
    ASSUME NEW addr \in Int, NEW name \in STRING \cup {""}, NEW parent \in Nat
    PROVE  NewObject(addr, name, parent) \in Objects
<1>1. <<>> \in Seq(Nat) /\ 0 \in Nat /\ FALSE \in BOOLEAN
  BY EmptySeq
<1> QED
  BY <1>1, Zenon DEF NewObject, Objects

LEMMA SymbolGrows ==
    ASSUME TreeInv, NEW object \in 1 .. Len(objs), NEW sym \in Symbols(file),
           ConnectSubObject(object, sym), UNCHANGED file
    PROVE  Grown /\ Len(objs) + 1 \in 1 .. Len(objs')
<1> DEFINE o     == [objs[object] EXCEPT !.subs = Append(@, Len(objs) + 1)]
           child == NewObject(sym.addr, sym.name, object)
           queue == [objs EXCEPT ![object] = o]
<1>1. Len(objs) \in Nat /\ objs[object] \in Objects
  BY ElementOfSeq DEF TreeInv, TreeTypeOK
<1>2. o \in Objects
  <2>1. Append(objs[object].subs, Len(objs) + 1) \in Seq(Nat)
    <3>1. \A x \in Objects : x.subs \in Seq(Nat)
      BY DEF Objects
    <3>2. objs[object].subs \in Seq(Nat) /\ Len(objs) + 1 \in Nat
      BY <1>1, <3>1
    <3> QED
      BY <3>2, AppendProperties
  <2> QED
    BY <1>1, <2>1, Zenon DEF Objects
<1>3. child \in Objects
  <2>1. object \in Nat /\ sym.addr \in Int /\ sym.name \in STRING
    BY <1>1 DEF Symbols
  <2> QED
    BY <2>1, NewObjectType
<1>4. objs' = Append(queue, child)
  BY DEF ConnectSubObject
<1>5. queue \in Seq(Objects) /\ Len(queue) = Len(objs)
  <2> HIDE DEF o
  <2> QED
    BY <1>2, ExceptSeq DEF TreeInv, TreeTypeOK
<1>6. objs' \in Seq(Objects) /\ objs' # <<>> /\ Len(objs') = Len(objs) + 1
  <2> HIDE DEF queue, child
  <2> QED
    BY <1>3, <1>4, <1>5, AppendProperties
<1> QED
  BY <1>1, <1>6 DEF Grown

(* A return: what the call had mapped is no longer spoken of if it failed. *)
LEMMA ReturnKeeps ==
    ASSUME TreeInv, frames # <<>>, NEW r \in {0, 1}, Return(r), Grown,
           ignored' \in BOOLEAN, r = 0 /\ ~ignored' => held' = <<>>
    PROVE  TreeInv'
<1>1. frames' \in Seq(Frames') /\ Waiting(frames') /\ (frames' # <<>> => Last(frames').at # "symbols")
  BY Popped, Grows DEF Return, TreeInv
<1>2. ret' = r /\ r # Running
  BY DEF Return, Running
<1>3. TreeTypeOK'
  BY <1>1, <1>2 DEF Grown, TreeInv, TreeTypeOK
<1>4. ReturnedTo' /\ MappingsBalanced'
  BY <1>1, <1>2 DEF ReturnedTo, MappingsBalanced, Inner
<1> QED
  BY <1>1, <1>3, <1>4 DEF TreeInv

(* A turn of the innermost call, with or without a call of another one.    *)
LEMMA RunningKeeps ==
    ASSUME TreeInv, Grown, frames' \in Seq(Frames'), ret' = Running, ignored' = ignored,
           frames' # <<>>, Waiting(frames'),
           ~ignored => held' = IF Last(frames').at = "symbols" THEN Mappings(Last(frames').node) ELSE <<>>
    PROVE  TreeInv'
<1>1. TreeTypeOK'
  BY DEF Grown, TreeInv, TreeTypeOK
<1> QED
  BY <1>1 DEF TreeInv, ReturnedTo, MappingsBalanced, Inner

LEMMA TurnKeeps ==
    ASSUME TreeInv, frames # <<>>, Grown, NEW f \in Frames', frames' = SetInner(f),
           ret' = Running, ignored' = ignored,
           ~ignored => held' = IF f.at = "symbols" THEN Mappings(f.node) ELSE <<>>
    PROVE  TreeInv'
<1>1. frames' \in Seq(Frames') /\ frames' # <<>> /\ Last(frames') = f /\ Waiting(frames')
  <2>1. frames \in Seq(Frames') /\ Waiting(frames)
    BY Grows DEF TreeInv
  <2> DEFINE gs == [frames EXCEPT ![Len(frames)] = f]
  <2>2. gs \in Seq(Frames') /\ gs # <<>> /\ Last(gs) = f /\ Waiting(gs)
    BY <2>1, Turned, Zenon
  <2>3. frames' = gs
    BY DEF SetInner
  <2> HIDE DEF gs
  <2> QED
    BY <2>2, <2>3
<1> QED
  BY <1>1, RunningKeeps

(* A call: the caller has nothing mapped.                                  *)
LEMMA CallKeeps ==
    ASSUME TreeInv, Grown, NEW fs \in Seq(Frames'), Waiting(fs), fs # <<>> => Last(fs).at # "symbols",
           NEW c \in Frames', c.at = "entry", frames' = Append(fs, c),
           ret' = Running, ignored' = ignored, ~ignored => held' = <<>>
    PROVE  TreeInv'
<1>1. frames' \in Seq(Frames') /\ frames' # <<>> /\ Last(frames') = c /\ Waiting(frames')
  BY Called
<1> QED
  BY <1>1, RunningKeeps

(* A call made in the middle of a caller that goes on at f.                *)
LEMMA TurnAndCallKeeps ==
    ASSUME TreeInv, frames # <<>>, Grown, NEW f \in Frames', f.at # "symbols",
           NEW c \in Frames', c.at = "entry", frames' = Append(SetInner(f), c),
           ret' = Running, ignored' = ignored, ~ignored => held' = <<>>
    PROVE  TreeInv'
<1>1. SetInner(f) \in Seq(Frames') /\ Last(SetInner(f)) = f /\ Waiting(SetInner(f))
  BY Turned, Grows DEF SetInner, TreeInv
<1> QED
  BY <1>1, CallKeeps

-----------------------------------------------------------------------------
(* Nothing is mapped when makeObjectTreeSkeleton begins.                   *)
LEMMA TreeStart == TreeInit => TreeInv
<1> SUFFICES ASSUME TreeInit PROVE TreeInv
  OBVIOUS
<1>1. file \in Files /\ file.root \in TreeNodes(file)
  BY FilesAssumption DEF TreeInit
<1>2. NewObject(UndefAddr, "", 0) \in Objects
  <2>1. UndefAddr \in Int /\ 0 \in Nat
    BY DEF UndefAddr
  <2> QED
    BY <2>1, NewObjectType
<1>3. objs \in Seq(Objects) /\ objs # <<>> /\ Len(objs) = 1
  <2>1. objs = <<NewObject(UndefAddr, "", 0)>>
    BY DEF TreeInit
  <2> QED
    BY <1>2, <2>1, Single
<1>4. Call("tree", file.root, VirtualSuper) \in Frames
  BY <1>1, <1>3 DEF Call, VirtualSuper, Frames, TreeFrames, FrameOK
<1>5. frames \in Seq(Frames) /\ Len(frames) = 1 /\ Last(frames).at = "entry"
  <2> DEFINE c == Call("tree", file.root, VirtualSuper)
  <2>1. frames = <<c>> /\ c.at = "entry"
    BY DEF TreeInit, Call
  <2>2. c \in Frames
    BY <1>4
  <2> HIDE DEF c
  <2> QED
    BY <2>1, <2>2, Single
<1>6. held = <<>> /\ ret = Running /\ ignored = FALSE
  BY DEF TreeInit
<1>7. TreeTypeOK
  BY <1>1, <1>3, <1>5, <1>6 DEF TreeTypeOK
<1>8. Waiting(frames) /\ ReturnedTo
  BY <1>5, <1>6 DEF Waiting, ReturnedTo
<1>9. MappingsBalanced
  BY <1>5, <1>6 DEF MappingsBalanced, Inner
<1> QED
  BY <1>7, <1>8, <1>9 DEF TreeInv

(* The steps of readTreeNode.                                              *)
LEMMA TreeNodeStep == TreeInv /\ (ReadKeys \/ NextKid \/ TreeRead \/ BackInTree) => TreeInv'
<1> SUFFICES ASSUME TreeInv, ReadKeys \/ NextKid \/ TreeRead \/ BackInTree PROVE TreeInv'
  OBVIOUS
<1>1. frames # <<>> /\ UNCHANGED <<file, held, objs, ignored>> /\ Inner.fn = "tree"
  BY DEF ReadKeys, NextKid, TreeRead, BackInTree, At, BackIn
<1>2. Grown /\ Frames' = Frames
  BY <1>1, Same DEF Frames, TreeFrames, SnodFrames, FrameOK, TreeNodes
<1>3. Inner \in Frames /\ Inner \in TreeFrames /\ FrameOK(Inner)
  BY <1>1, InnerOK DEF SnodFrames
<1>4. ignored \in BOOLEAN /\ ignored' = ignored
  BY <1>1 DEF TreeInv, TreeTypeOK
<1>5. ~ignored /\ ret # 1 /\ Inner.at # "symbols" => held' = <<>>
  BY <1>1 DEF TreeInv, MappingsBalanced
<1>6. Inner.at # "symbols"
  BY <1>3 DEF TreeFrames
<1>7. CASE ReadKeys
  <2>1. CASE Return(1)
    BY <1>1, <1>2, <1>4, <2>1, ReturnKeeps
  <2>2. CASE ~Return(1)
    <3> DEFINE f == [Inner EXCEPT !.at = "kids", !.i = 1]
    <3>1. f \in TreeFrames /\ f.at = "kids" /\ f.i = 1
      BY <1>3 DEF TreeFrames
    <3>2. frames' = SetInner(f) /\ ret = Running /\ ret' = Running
      BY <1>7, <2>2 DEF ReadKeys, At
    <3> HIDE DEF f
    <3>3. f \in Frames' /\ f.at = "kids"
      BY <1>2, <3>1 DEF Frames, FrameOK
    <3> QED
      BY <1>1, <1>2, <1>4, <1>5, <1>6, <3>2, <3>3, TurnKeeps DEF Running
  <2> QED
    BY <2>1, <2>2
<1>8. CASE NextKid
  <2> DEFINE c == Call("snod", Node.kids[Inner.i], Inner.object)
  <2>1. Inner.node \in DOMAIN file.nodes /\ Node.sig = "TREE"
    BY <1>3 DEF TreeFrames, TreeNodes, Node
  <2>2. Node.kids[Inner.i] \in DOMAIN file.nodes
    <3>1. Node.kids \in Seq(DOMAIN file.nodes)
      BY <2>1, NodeTypes DEF Node
    <3>2. Inner.i \in 1 .. Len(Node.kids)
      BY <1>3, <1>8, <3>1 DEF NextKid, BackIn, At, FrameOK, TreeFrames
    <3> QED
      BY <3>1, <3>2, ElementOfSeq
  <2>3. c \in Frames' /\ c.at = "entry"
    BY <1>2, <1>3, <2>2 DEF Call, Frames, TreeFrames, SnodFrames, FrameOK
  <2>4. frames' = Append(frames, c) /\ ret = Running /\ ret' = Running
    BY <1>8 DEF NextKid, At
  <2>5. frames \in Seq(Frames') /\ Waiting(frames) /\ Last(frames).at # "symbols"
    BY <1>2, <1>6, Grows DEF TreeInv, Inner
  <2> HIDE DEF c
  <2> QED
    BY <1>1, <1>2, <1>4, <1>5, <1>6, <2>3, <2>4, <2>5, CallKeeps DEF Running
<1>9. CASE TreeRead
  BY <1>1, <1>2, <1>4, <1>5, <1>6, <1>9, ReturnKeeps DEF TreeRead, At, Running
<1>10. CASE BackInTree
  <2>1. CASE Return(1)
    BY <1>1, <1>2, <1>4, <2>1, ReturnKeeps
  <2>2. CASE ~Return(1)
    <3> DEFINE f == [Inner EXCEPT !.i = @ + 1]
    <3>1. Inner.i + 1 \in Nat /\ Inner.i + 1 >= 1
      BY <1>3 DEF TreeFrames
    <3>2. f \in TreeFrames /\ f.at = Inner.at /\ f.i >= 1
      BY <1>3, <3>1 DEF TreeFrames
    <3>3. f \in Frames'
      BY <1>2, <1>3, <3>2 DEF Frames, FrameOK, TreeFrames
    <3>4. frames' = SetInner(f) /\ ret = 0 /\ ret' = Running
      BY <1>10, <2>2 DEF BackInTree
    <3> HIDE DEF f
    <3> QED
      BY <1>1, <1>2, <1>4, <1>5, <1>6, <3>2, <3>3, <3>4, TurnKeeps
  <2> QED
    BY <2>1, <2>2
<1> QED
  BY <1>7, <1>8, <1>9, <1>10

(* The steps of readSnod.                                                  *)
LEMMA SnodStep ==
    TreeInv /\ (HandOn \/ ReadSnod \/ DataSymbol \/ GroupSymbol \/ LinkSymbol \/ SnodRead) => TreeInv'
<1> SUFFICES ASSUME TreeInv, HandOn \/ ReadSnod \/ DataSymbol \/ GroupSymbol \/ LinkSymbol \/ SnodRead
             PROVE TreeInv'
  OBVIOUS
<1>1. /\ frames # <<>> /\ Inner.fn = "snod" /\ ret = Running
      /\ file' = file /\ ignored' = ignored
  BY DEF HandOn, ReadSnod, DataSymbol, GroupSymbol, LinkSymbol, SnodRead, Symbol, At
<1>2. Inner \in Frames /\ Inner \in SnodFrames /\ FrameOK(Inner)
  BY <1>1, InnerOK DEF TreeFrames
<1>3. Inner.node \in DOMAIN file.nodes /\ Inner.object \in 1 .. Len(objs) /\ Inner.i \in Nat
  BY <1>2 DEF SnodFrames
<1>4. ignored \in BOOLEAN
  BY DEF TreeInv, TreeTypeOK
<1>5. ~ignored => held = IF Inner.at = "symbols" THEN Mappings(Inner.node) ELSE <<>>
  BY <1>1 DEF TreeInv, MappingsBalanced, Running
<1>6. CASE HandOn
  <2> DEFINE f == [Inner EXCEPT !.at = "handed on"]
             c == Call("tree", Inner.node, Inner.object)
  <2>1. Grown /\ Frames' = Frames
    BY <1>1, <1>6, Same DEF HandOn, Frames, TreeFrames, SnodFrames, FrameOK, TreeNodes
  <2>2. Inner.node \in TreeNodes(file)
    BY <1>3, <1>6 DEF HandOn, Node, TreeNodes
  <2>3. f \in SnodFrames /\ f.at = "handed on"
    BY <1>2 DEF SnodFrames
  <2>4. c \in TreeFrames /\ c.at = "entry"
    BY <1>3, <2>2 DEF Call, TreeFrames
  <2>5. frames' = Append(SetInner(f), c) /\ ret' = Running /\ held' = held /\ Inner.at # "symbols"
    BY <1>1, <1>6 DEF HandOn, At
  <2> HIDE DEF f, c
  <2>6. f \in Frames' /\ c \in Frames'
    BY <2>1, <2>3, <2>4 DEF Frames, FrameOK
  <2> QED
    BY <1>1, <1>5, <2>1, <2>3, <2>4, <2>5, <2>6, TurnAndCallKeeps
<1>7. CASE ReadSnod
  <2> DEFINE f == [Inner EXCEPT !.at = "symbols", !.i = Len(Node.syms)]
  <2>1. Grown /\ Frames' = Frames
    BY <1>1, <1>7, Same DEF ReadSnod, Frames, TreeFrames, SnodFrames, FrameOK, TreeNodes
  <2>2. Node.sig = "SNOD" /\ Len(Node.syms) \in Nat
    <3>1. Node.sig = "SNOD" /\ Node.syms \in Seq(Symbols(file))
      BY <1>3, <1>7, NodeTypes DEF ReadSnod, Node
    <3> QED
      BY <3>1, LenProperties
  <2>3. f \in SnodFrames /\ f.at = "symbols" /\ f.node = Inner.node /\ f.i = Len(Node.syms)
    BY <1>2, <2>2 DEF SnodFrames
  <2>4. frames' = SetInner(f) /\ ret' = Running /\ MapBoth(Inner.node) /\ Inner.at # "symbols"
    BY <1>1, <1>7 DEF ReadSnod, At
  <2>5. ~ignored => held' = Mappings(Inner.node)
    BY <1>5, <2>4, Mapped
  <2> HIDE DEF f
  <2>6. f \in Frames'
    BY <2>1, <2>2, <2>3 DEF Frames, FrameOK, Node
  <2> QED
    BY <1>1, <2>1, <2>3, <2>4, <2>5, <2>6, TurnKeeps
<1>8. ASSUME NEW cache \in CacheTypes, Symbol(cache)
      PROVE  /\ Inner.at = "symbols" /\ Inner.i >= 1 /\ Node.sig = "SNOD" /\ Inner.i <= Len(Node.syms)
             /\ Node.syms[Inner.i].tree \in TreeNodes(file)
             /\ Grown /\ Len(objs) + 1 \in 1 .. Len(objs')
             /\ Frames \subseteq Frames'
  <2>1. Inner.at = "symbols" /\ Inner.i >= 1 /\ ConnectSubObject(Inner.object, Node.syms[Inner.i])
    BY <1>8 DEF Symbol, At
  <2>2. Node.sig = "SNOD" /\ Inner.i <= Len(Node.syms)
    BY <1>2, <2>1 DEF FrameOK, Node
  <2>3. Node.syms[Inner.i] \in Symbols(file)
    <3>1. Node.syms \in Seq(Symbols(file))
      BY <1>3, <2>2, NodeTypes DEF Node
    <3>2. Inner.i \in 1 .. Len(Node.syms)
      BY <1>3, <2>1, <2>2, <3>1
    <3> QED
      BY <3>1, <3>2, ElementOfSeq
  <2>4. Grown /\ Len(objs) + 1 \in 1 .. Len(objs')
    BY <1>1, <1>3, <2>1, <2>3, SymbolGrows
  <2>5. Node.syms[Inner.i].tree \in TreeNodes(file)
    BY <2>3 DEF Symbols
  <2> QED
    BY <2>1, <2>2, <2>4, <2>5, Grows
<1>9. CASE DataSymbol
  <2> DEFINE f == [Inner EXCEPT !.i = @ - 1]
  <2>1. Symbol(0) /\ 0 \in CacheTypes
    BY <1>9 DEF DataSymbol, CacheTypes
  <2>2. Inner.i - 1 \in Nat /\ Inner.i - 1 <= Len(Node.syms)
    BY <1>3, <1>8, <2>1
  <2>3. f \in SnodFrames /\ f.at = "symbols" /\ f.node = Inner.node /\ f.i = Inner.i - 1
    BY <1>2, <1>8, <2>1, <2>2 DEF SnodFrames
  <2>4. frames' = SetInner(f) /\ ret' = Running /\ held' = held
    BY <1>1, <1>9 DEF DataSymbol
  <2> HIDE DEF f
  <2>5. f \in Frames'
    <3>1. f \in Frames
      BY <1>8, <2>1, <2>2, <2>3 DEF Frames, FrameOK, Node
    <3> QED
      BY <1>8, <2>1, <3>1
  <2> QED
    BY <1>1, <1>5, <1>8, <2>1, <2>3, <2>4, <2>5, TurnKeeps
<1>10. CASE GroupSymbol
  <2> DEFINE f == [Inner EXCEPT !.at = "subtree"]
             c == Call("tree", Node.syms[Inner.i].tree, Len(objs) + 1)
  <2>1. Symbol(1) /\ 1 \in CacheTypes
    BY <1>10 DEF GroupSymbol, CacheTypes
  <2>2. f \in SnodFrames /\ f.at = "subtree" /\ f.node = Inner.node /\ f.i = Inner.i
    BY <1>2 DEF SnodFrames
  <2>3. c \in TreeFrames' /\ c.at = "entry"
    BY <1>1, <1>8, <2>1 DEF Call, TreeFrames, TreeNodes
  <2>4. frames' = Append(SetInner(f), c) /\ ret' = Running /\ ReleaseBoth(Inner.node)
    BY <1>1, <1>10 DEF GroupSymbol
  <2>5. ~ignored => held' = <<>>
    BY <1>5, <1>8, <2>1, <2>4, Released
  <2> HIDE DEF f, c
  <2>6. f \in Frames' /\ c \in Frames'
    <3>1. f \in Frames
      BY <1>8, <2>1, <2>2 DEF Frames, FrameOK, Node
    <3> QED
      BY <1>8, <2>1, <2>3, <3>1 DEF Frames, FrameOK
  <2> QED
    BY <1>1, <1>8, <2>1, <2>2, <2>3, <2>4, <2>5, <2>6, TurnAndCallKeeps
<1>11. CASE LinkSymbol
  <2>1. Symbol(2) /\ 2 \in CacheTypes /\ Return(1)
    BY <1>11 DEF LinkSymbol, CacheTypes
  <2> QED
    BY <1>1, <1>4, <1>8, <2>1, ReturnKeeps
<1>12. CASE SnodRead
  <2>1. Grown
    BY <1>1, <1>12, Same DEF SnodRead
  <2>2. Return(0) /\ ReleaseBoth(Inner.node) /\ Inner.at = "symbols"
    BY <1>12 DEF SnodRead, At
  <2>3. ~ignored => held' = <<>>
    BY <1>5, <2>2, Released
  <2> QED
    BY <1>1, <1>4, <2>1, <2>2, <2>3, ReturnKeeps
<1> QED
  BY <1>6, <1>7, <1>9, <1>10, <1>11, <1>12

(* readSnod goes on with what readTreeNode returned.                       *)
LEMMA BackStep == TreeInv /\ (BackInHandOn \/ BackInSnod) => TreeInv'
<1> SUFFICES ASSUME TreeInv, BackInHandOn \/ BackInSnod PROVE TreeInv'
  OBVIOUS
<1>1. /\ frames # <<>> /\ Inner.fn = "snod" /\ ret # Running /\ ret \in {0, 1, Running}
      /\ ignored \in BOOLEAN /\ ignored' \in BOOLEAN /\ UNCHANGED <<file, objs>>
  BY DEF BackInHandOn, BackInSnod, BackIn, TreeInv, TreeTypeOK
<1>2. Inner \in Frames /\ Inner \in SnodFrames /\ FrameOK(Inner)
  BY <1>1, InnerOK DEF TreeFrames
<1>3. Grown /\ Frames' = Frames
  BY <1>1, Same DEF Frames, TreeFrames, SnodFrames, FrameOK, TreeNodes
<1>4. ret = 0 \/ ret = 1
  BY <1>1
<1>5. ~ignored /\ ret = 0 => held = <<>>
  BY <1>1 DEF TreeInv, MappingsBalanced, ReturnedTo
<1>6. CASE BackInHandOn
  <2>1. Return(0) /\ held' = held /\ (~ignored' => ~ignored /\ ret = 0)
    BY <1>6 DEF BackInHandOn
  <2> QED
    BY <1>1, <1>3, <1>5, <2>1, ReturnKeeps
<1>7. CASE BackInSnod
  <2>1. CASE Return(1)
    BY <1>1, <1>3, <2>1, ReturnKeeps
  <2>2. CASE ~Return(1)
    <3> DEFINE f == [Inner EXCEPT !.at = "symbols", !.i = @ - 1]
    <3>1. /\ ret = 0 /\ frames' = SetInner(f) /\ ret' = Running /\ MapBoth(Inner.node)
          /\ ignored' = ignored /\ Inner.at = "subtree"
      BY <1>7, <2>2 DEF BackInSnod, BackIn
    <3>2. /\ file.nodes[Inner.node].sig = "SNOD" /\ Inner.i - 1 \in Nat
          /\ Inner.i <= Len(file.nodes[Inner.node].syms)
      <4>1. Inner.i \in Nat
        BY <1>2 DEF SnodFrames
      <4>2. /\ file.nodes[Inner.node].sig = "SNOD" /\ Inner.i >= 1
            /\ Inner.i <= Len(file.nodes[Inner.node].syms)
        BY <1>2, <3>1 DEF FrameOK
      <4> QED
        BY <4>1, <4>2
    <3>3. Inner.i - 1 <= Len(file.nodes[Inner.node].syms)
      <4>1. Len(file.nodes[Inner.node].syms) \in Nat
        <5>1. file.nodes[Inner.node].syms \in Seq(Symbols(file))
          BY <1>2, <3>2, NodeTypes DEF SnodFrames
        <5> QED
          BY <5>1, LenProperties
      <4>2. Inner.i \in Nat
        BY <1>2 DEF SnodFrames
      <4> HIDE DEF Inner
      <4> QED
        BY <3>2, <4>1, <4>2
    <3>4. f \in SnodFrames /\ f.at = "symbols" /\ f.node = Inner.node /\ f.i = Inner.i - 1
      BY <1>2, <3>2 DEF SnodFrames
    <3>5. ~ignored => held' = Mappings(Inner.node)
      BY <1>5, <3>1, Mapped
    <3> HIDE DEF f
    <3>6. f \in Frames'
      BY <1>3, <3>2, <3>3, <3>4 DEF Frames, FrameOK
    <3> QED
      BY <1>1, <1>3, <3>1, <3>4, <3>5, <3>6, TurnKeeps
  <2> QED
    BY <2>1, <2>2
<1> QED
  BY <1>6, <1>7

(* Whatever the tree, readSnod keeps mapped what it reads and no more; it  *)
(* gives back around each recursion what it maps again afterwards.         *)
THEOREM MappingsBalancedInvariant == TreeSpec => []MappingsBalanced
<1>1. TreeInv /\ [TreeNext]_treeVars => TreeInv'
  <2> SUFFICES ASSUME TreeInv, [TreeNext]_treeVars PROVE TreeInv'
    OBVIOUS
  <2>1. CASE UNCHANGED treeVars
    <3>1. Frames' = Frames
      BY <2>1 DEF treeVars, Frames, TreeFrames, SnodFrames, FrameOK, TreeNodes
    <3> QED
      BY <2>1, <3>1
      DEF treeVars, TreeInv, TreeTypeOK, Waiting, ReturnedTo, MappingsBalanced, Inner
  <2> QED
    BY <2>1, TreeNodeStep, SnodStep, BackStep DEF TreeNext
<1>2. TreeInv => MappingsBalanced
  BY DEF TreeInv
<1> QED
  BY TreeStart, <1>1, <1>2, PTL DEF TreeSpec

=============================================================================
