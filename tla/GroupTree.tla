------------------------------- MODULE GroupTree -------------------------------
(***************************************************************************)
(* makeObjectTreeSkeleton (src/createDataObjects.c): the walk over the     *)
(* group trees of a file, which makes an object of every symbol.           *)
(*                                                                         *)
(* A group has a B-tree of TREE nodes whose leaves, SNODs, hold symbols; a *)
(* symbol of cache type 1 is a group itself.  readTreeNode and readSnod    *)
(* call each other; their calls are the frames of a stack, and a returning *)
(* call leaves its result in ret.  readSnod keeps two mappings while it    *)
(* goes over its symbols, the node and the heap with the names, and gives  *)
(* them back around the recursion.                                         *)
(***************************************************************************)
EXTENDS Integers, SequencesExt

CONSTANT Files          \* records with the fields root and nodes, and more

CacheTypes == {0, 1, 2}             \* data, a group, a symbolic link

TreeNodes(f) == {n \in DOMAIN f.nodes : f.nodes[n].sig = "TREE"}
Symbols(f) == [name : STRING, addr : Nat, cache : CacheTypes, tree : TreeNodes(f)]

(* the program looks at the signature of a TREE's children only *)
ASSUME FilesAssumption ==
    \A f \in Files :
        /\ f.root \in TreeNodes(f)
        /\ \A n \in DOMAIN f.nodes :
            \/ f.nodes[n].sig = "TREE" /\ f.nodes[n].kids \in Seq(DOMAIN f.nodes)
            \/ f.nodes[n].sig = "SNOD" /\ f.nodes[n].syms \in Seq(Symbols(f))

VARIABLES
    file,
    frames,         \* calls of readTreeNode and readSnod, the innermost last
    ret,            \* what the call that has just returned returned
    held,           \* the mappings in use that readSnod keeps
    objs,           \* object_queue: the objects in the order they were put in
    ignored         \* readSnod has dropped an error (history)

treeVars == <<file, frames, ret, held, objs, ignored>>

Running == 2            \* ret while nothing returns

(* num_sub_objs is Len(subs) *)
NewObject(addr, name, super) ==
    [addr |-> addr, name |-> name, super |-> super, subs |-> <<>>, s_c_array_index |-> 0,
     class |-> "unknown", is_struct_array |-> FALSE, is_filled |-> FALSE,
     has_data |-> FALSE, is_mx_used |-> FALSE]
UndefAddr == -1
VirtualSuper == 1       \* virtual_super_object, first in object_queue

Call(fn, node, object) == [fn |-> fn, node |-> node, object |-> object, at |-> "entry", i |-> 0]

TreeInit ==
    /\ file \in Files
    /\ frames = <<Call("tree", file.root, VirtualSuper)>>
    /\ ret = Running
    /\ held = <<>>
    /\ objs = <<NewObject(UndefAddr, "", 0)>>
    /\ ignored = FALSE

Inner == Last(frames)
Node == file.nodes[Inner.node]
SetInner(f) == [frames EXCEPT ![Len(frames)] = f]
At(fn, at) == ret = Running /\ frames # <<>> /\ Inner.fn = fn /\ Inner.at = at

Return(r) == frames' = Front(frames) /\ ret' = r

(* the node and its heap, while its symbols are read *)
Mappings(node) == <<<<"snod", node>>, <<"heap", node>>>>
MapBoth(node) == held' = held \o Mappings(node)
ReleaseBoth(node) == held' = RemoveFirst(RemoveFirst(held, <<"heap", node>>), <<"snod", node>>)

-----------------------------------------------------------------------------
(* readTreeNode: the keys are read, each mapped and given back; a node     *)
(* without any is an error                                                 *)
ReadKeys ==
    /\ At("tree", "entry")
    /\ \/ Node.kids = <<>> /\ Return(1)
       \/ Node.kids # <<>> /\ frames' = SetInner([Inner EXCEPT !.at = "kids", !.i = 1]) /\ UNCHANGED ret
    /\ UNCHANGED <<file, held, objs, ignored>>

NextKid ==
    /\ At("tree", "kids")
    /\ Inner.i <= Len(Node.kids)
    /\ frames' = Append(frames, Call("snod", Node.kids[Inner.i], Inner.object))
    /\ UNCHANGED <<file, ret, held, objs, ignored>>

TreeRead ==
    /\ At("tree", "kids")
    /\ Inner.i > Len(Node.kids)
    /\ Return(0)
    /\ UNCHANGED <<file, held, objs, ignored>>

(* readSnod on a node that is a TREE: handed on to readTreeNode *)
HandOn ==
    /\ At("snod", "entry")
    /\ Node.sig = "TREE"
    /\ frames' = Append(SetInner([Inner EXCEPT !.at = "handed on"]), Call("tree", Inner.node, Inner.object))
    /\ UNCHANGED <<file, ret, held, objs, ignored>>

(* the symbols are gone over from the last to the first *)
ReadSnod ==
    /\ At("snod", "entry")
    /\ Node.sig = "SNOD"
    /\ frames' = SetInner([Inner EXCEPT !.at = "symbols", !.i = Len(Node.syms)])
    /\ MapBoth(Inner.node)
    /\ UNCHANGED <<file, ret, objs, ignored>>

(* connectSubObject and enqueue *)
ConnectSubObject(object, sym) ==
    objs' = Append([objs EXCEPT ![object].subs = Append(@, Len(objs) + 1)],
                   NewObject(sym.addr, sym.name, object))

Symbol(cache) ==
    /\ At("snod", "symbols")
    /\ Inner.i >= 1
    /\ Node.syms[Inner.i].cache = cache
    /\ ConnectSubObject(Inner.object, Node.syms[Inner.i])
    /\ UNCHANGED <<file, ignored>>

DataSymbol ==
    /\ Symbol(0)
    /\ frames' = SetInner([Inner EXCEPT !.i = @ - 1])
    /\ UNCHANGED <<ret, held>>

(* mutant: the mappings are kept around the recursion *)
GroupSymbolHolding ==
    /\ Symbol(1)
    /\ frames' = Append(SetInner([Inner EXCEPT !.at = "subtree"]),
                        Call("tree", Node.syms[Inner.i].tree, Len(objs) + 1))
    /\ UNCHANGED <<ret, held>>

(* mutant: the subtree's objects go to the group it is in *)
GroupSymbolToParent ==
    /\ Symbol(1)
    /\ frames' = Append(SetInner([Inner EXCEPT !.at = "subtree"]),
                        Call("tree", Node.syms[Inner.i].tree, Inner.object))
    /\ ReleaseBoth(Inner.node)
    /\ UNCHANGED ret

GroupSymbol ==
    /\ Symbol(1)
    /\ frames' = Append(SetInner([Inner EXCEPT !.at = "subtree"]),
                        Call("tree", Node.syms[Inner.i].tree, Len(objs) + 1))
    /\ ReleaseBoth(Inner.node)
    /\ UNCHANGED ret

(* an error that leaves both mappings in use *)
LinkSymbol ==
    /\ Symbol(2)
    /\ Return(1)
    /\ UNCHANGED held

SnodRead ==
    /\ At("snod", "symbols")
    /\ Inner.i = 0
    /\ Return(0)
    /\ ReleaseBoth(Inner.node)
    /\ UNCHANGED <<file, objs, ignored>>

-----------------------------------------------------------------------------
(* the caller goes on with what was returned *)
BackIn(fn, at) == ret # Running /\ frames # <<>> /\ Inner.fn = fn /\ Inner.at = at

(* the loop of readTreeNode over the results of readSnod *)
BackInTree ==
    /\ BackIn("tree", "kids")
    /\ \/ ret # 0 /\ Return(1)
       \/ ret = 0 /\ frames' = SetInner([Inner EXCEPT !.i = @ + 1]) /\ ret' = Running
    /\ UNCHANGED <<file, held, objs, ignored>>

(* whatever readTreeNode returned, 0 *)
BackInHandOn ==
    /\ BackIn("snod", "handed on")
    /\ Return(0)
    /\ ignored' = (ignored \/ ret # 0)
    /\ UNCHANGED <<file, held, objs>>

BackInSnod ==
    /\ BackIn("snod", "subtree")
    /\ \/ ret # 0 /\ Return(1) /\ UNCHANGED held
       \/ /\ ret = 0
          /\ frames' = SetInner([Inner EXCEPT !.at = "symbols", !.i = @ - 1])
          /\ ret' = Running
          /\ MapBoth(Inner.node)
    /\ UNCHANGED <<file, objs, ignored>>

TreeNext ==
    \/ ReadKeys \/ NextKid \/ TreeRead
    \/ HandOn \/ ReadSnod \/ DataSymbol \/ GroupSymbol \/ LinkSymbol \/ SnodRead
    \/ BackInTree \/ BackInHandOn \/ BackInSnod

TreeSpec == TreeInit /\ [][TreeNext]_treeVars

-----------------------------------------------------------------------------
WalkEnded == frames = <<>>

(* Whatever the depth of the tree, at most the node whose symbols are      *)
(* read, and its heap, are mapped; nothing is when the walk has succeeded. *)
(* Only an error leaves mappings in use, for the session's end: one that   *)
(* readSnod drops, for all of the session.                                 *)
MappingsBalanced ==
    ~ignored /\ (ret # 1) =>
        held = IF frames # <<>> /\ Inner.at = "symbols" THEN Mappings(Inner.node) ELSE <<>>

(* the paths of the symbols below a tree node, with their addresses, and   *)
(* how many symbols there are: files have no circles                       *)
Depth == Cardinality(DOMAIN file.nodes)
SymbolPaths ==
    LET below[d \in 0 .. Depth, n \in DOMAIN file.nodes] ==
            IF d = 0 THEN {}
            ELSE IF file.nodes[n].sig = "TREE"
            THEN UNION {below[d - 1, file.nodes[n].kids[k]] : k \in DOMAIN file.nodes[n].kids}
            ELSE UNION {LET sym == file.nodes[n].syms[k] IN
                        {<<<<sym.name>>, sym.addr>>} \cup
                        (IF sym.cache = 1
                         THEN {<<<<sym.name>> \o p[1], p[2]>> : p \in below[d - 1, sym.tree]}
                         ELSE {}) : k \in DOMAIN file.nodes[n].syms}
    IN  below[Depth, file.root]
PathOf ==
    [o \in DOMAIN objs |->
        LET up[d \in 0 .. Len(objs), p \in 0 .. Len(objs)] ==
                IF p <= VirtualSuper \/ d = 0 THEN <<>> ELSE Append(up[d - 1, objs[p].super], objs[p].name)
        IN  up[Len(objs), o]]

(* After a walk in which no error was dropped every symbol of the file has *)
(* one object, in object_queue and under the object of its group.          *)
SkeletonComplete ==
    WalkEnded /\ ret = 0 /\ ~ignored =>
        /\ {<<PathOf[o], objs[o].addr>> : o \in 2 .. Len(objs)} = SymbolPaths
        /\ Len(objs) - 1 = Cardinality(SymbolPaths)
        /\ \A o \in 2 .. Len(objs), p \in DOMAIN objs :
            Cardinality({k \in DOMAIN objs[p].subs : objs[p].subs[k] = o}) = IF objs[o].super = p THEN 1 ELSE 0

=============================================================================
