------------------------------- MODULE Selection -------------------------------
(***************************************************************************)
(* fillVariable (src/fillDataObjects.c, src/utils.c): the objects of the   *)
(* tree that the names asked for lead to are filled, with all below them,  *)
(* and put into top_level_objects.                                         *)
(*                                                                         *)
(* Filling a cell or a field of a struct array takes the objects its       *)
(* references lead to, wherever in the file they are, as its sub_objects;  *)
(* an object it already has is cloned.  A result that lies inside an       *)
(* earlier one is cloned too.                                              *)
(*                                                                         *)
(* What is at an address is file.content[addr]:                            *)
(*   class   what MATLAB_class says, "none" without that attribute         *)
(*   refs    the references stored there, if it holds references           *)
(*   dims    its dimensions                                                *)
(*   empty   MATLAB_empty                                                  *)
(*   good    its data can be read                                          *)
(* class is "data", "cell", "struct", "sparse", "object" (and functions),  *)
(* or what getmatvar does not know, the "canonical empty" among it.        *)
(***************************************************************************)
EXTENDS GroupTree

VARIABLES
    top_level_objects,
    varname_queue,      \* the tokens of the name being looked up
    object              \* where that name has led so far

selectionVars == <<top_level_objects, varname_queue, object>>

NameToken(name)  == [type |-> "name", name |-> name]
IndexToken(k)    == [type |-> "index", index |-> k]         \* from 0
CoordToken(ks)   == [type |-> "coord", coords |-> ks]       \* from 1

NotFound == 0
Classes  == {"data", "cell", "struct", "sparse", "object"}    \* data: numbers, logical, char
Content(h, o) == file.content[h[o].addr]

-----------------------------------------------------------------------------
(* the first of the sub_objects in front of which the search stops *)
FirstSub(h, o, Test(_)) ==
    LET found == SelectSeq(h[o].subs, Test) IN IF found = <<>> THEN NotFound ELSE found[1]
FindSubObjectByShortName(h, o, name) == FirstSub(h, o, LAMBDA s : h[s].name = name)
FindSubObjectBySCIndex(h, o, index)  == FirstSub(h, o, LAMBDA s : h[s].s_c_array_index = index)

(* the first in object_queue, so never a clone *)
FindObjectByHeaderAddress(h, addr) ==
    IF \E o \in DOMAIN h : h[o].addr = addr
    THEN Min({o \in DOMAIN h : h[o].addr = addr}) ELSE NotFound

(* with the dims of the object, whatever the coordinates *)
CoordToInd(coords, dims) ==
    FoldLeftDomain(LAMBDA acc, i : [ind |-> acc.ind + (coords[i] - 1) * acc.mult, mult |-> acc.mult * dims[i]],
                   [ind |-> 0, mult |-> 1], dims).ind

(* the fields of a clone: those of the original, with data and dims of its *)
(* own, and with the super_object of the original                          *)
CopyOf(h, o) == [h[o] EXCEPT !.subs = <<>>]

(* h with a clone of o behind the clones of what is below o                *)
RECURSIVE CloneData(_, _)
CloneData(h, o) ==
    LET below == FoldLeft(LAMBDA acc, s : LET c == CloneData(acc.h, s) IN [h |-> c, subs |-> Append(acc.subs, Len(c))],
                          [h |-> h, subs |-> <<>>], h[o].subs)
    IN  Append(below.h, [CopyOf(h, o) EXCEPT !.subs = below.subs])

RECURSIVE CheckTree(_, _, _)
CheckTree(h, cmp_obj, obj) ==
    \/ \E s \in ToSet(h[cmp_obj].subs) : CheckTree(h, s, obj)
    \/ cmp_obj = obj

-----------------------------------------------------------------------------
(* what collectMetaData makes of the header: references without a class in *)
(* a struct are a field of a struct array, treated as a cell; what is in a *)
(* sparse array is data.  Both need the class of super_object, which has   *)
(* one only once it is filled itself.                                      *)
IsStructArray(h, o) ==
    LET c == Content(h, o)
    IN  ~c.empty /\ c.class = "none" /\ c.refs # <<>> /\ h[h[o].super].class = "struct"
ClassOf(h, o) ==
    LET c == Content(h, o)
    IN  IF IsStructArray(h, o) THEN "cell"
        ELSE IF h[h[o].super].class = "sparse" /\ ~c.empty THEN "data"
        ELSE IF c.class \in Classes THEN c.class
        ELSE "unknown"

(* the names of a cell's elements lead nowhere *)
ElementName == "}"

(* mutant: a reference met before in the cell is taken again *)
TakeElementAgain(h, o, i) ==
    LET ref == FindObjectByHeaderAddress(h, Content(h, o).refs[i])
    IN  [h EXCEPT ![ref].s_c_array_index = i - 1,
                  ![ref].name = IF h[o].is_struct_array THEN h[o].name ELSE ElementName,
                  ![ref].super = o,
                  ![o].subs = Append(@, ref)]

(* one turn of fillObject's loop over the references *)
TakeElement(h, o, i) ==
    LET ref   == FindObjectByHeaderAddress(h, Content(h, o).refs[i])
        again == ref \in ToSet(h[o].subs)
        g     == IF again THEN CloneData(h, ref) ELSE h
        elem  == IF again THEN Len(g) ELSE ref
    IN  [g EXCEPT ![elem].s_c_array_index = i - 1,
                  ![elem].name = IF g[o].is_struct_array THEN g[o].name ELSE ElementName,
                  ![elem].super = o,
                  ![o].subs = Append(@, elem)]

ReferencesKnown(h, o) ==
    \A addr \in ToSet(Content(h, o).refs) : FindObjectByHeaderAddress(h, addr) # NotFound

Filled(h) == [objs |-> h, err |-> 0]
Failed(h) == [objs |-> h, err |-> 1]

(* fillObject; the walk over the header is in HeaderMessages *)
FillObject(h, o) ==
    LET c       == Content(h, o)
        class   == ClassOf(h, o)
        read    == [h EXCEPT ![o].is_filled = TRUE, ![o].class = class,
                             ![o].is_struct_array = IsStructArray(h, o),
                             ![o].has_data = class = "data" /\ ~c.empty]
        flushed == [read EXCEPT ![o].subs = <<>>]
    IN  IF h[o].is_filled THEN Filled(h)
        ELSE IF c.empty THEN Filled(read)
        ELSE IF class = "unknown" \/ ~c.good THEN Failed(read)
        ELSE IF class # "cell" THEN Filled(read)
        ELSE IF ~ReferencesKnown(read, o) THEN Failed(flushed)
        ELSE Filled(FoldLeftDomain(LAMBDA g, i : TakeElement(g, o, i), flushed, c.refs))

RECURSIVE FillDataTree(_, _)
FillDataTree(h, o) ==
    LET filled == FillObject(h, o)
    IN  IF filled.err # 0 THEN filled
        ELSE FoldLeft(LAMBDA acc, s : IF acc.err # 0 THEN acc ELSE FillDataTree(acc.objs, s),
                      filled, filled.objs[o].subs)

-----------------------------------------------------------------------------
(* fillVariable, one token a step: the object the name leads to now is     *)
(* filled before it is looked into                                         *)
LookedUp(h, o, rest) == objs' = h /\ object' = o /\ varname_queue' = rest
LookUpFails(h)       == objs' = h /\ object' = NotFound /\ varname_queue' = <<>>

Token == Head(varname_queue)

(* mutant: the object is looked into before it is filled *)
LookUpNameUnfilled ==
    /\ Token.type = "name"
    /\ LET sub == FindSubObjectByShortName(objs, object, Token.name)
       IN  IF sub = NotFound \/ objs[sub].is_struct_array THEN LookUpFails(objs)
           ELSE LookedUp(objs, sub, Tail(varname_queue))

(* VT_LOCAL_NAME; of a struct array only elements can be asked for *)
LookUpName ==
    /\ Token.type = "name"
    /\ LET sub    == FindSubObjectByShortName(objs, object, Token.name)
           filled == FillObject(objs, sub)
       IN  IF sub = NotFound THEN LookUpFails(objs)
           ELSE IF filled.err # 0 \/ filled.objs[sub].is_struct_array THEN LookUpFails(filled.objs)
           ELSE LookedUp(filled.objs, sub, Tail(varname_queue))

TokenIndex(h, o) == IF Token.type = "index" THEN Token.index ELSE CoordToInd(Token.coords, Content(h, o).dims)

(* VT_LOCAL_INDEX and VT_LOCAL_COORDINATES, s(k).f stored as s.f(k); the   *)
(* index is ignored if s is 1x1                                            *)
LookUpElement ==
    /\ Token.type \in {"index", "coord"}
    /\ LET here     == FillObject(objs, object)
           isStruct == here.objs[object].class = "struct"
           named    == Len(varname_queue) > 1 /\ varname_queue[2].type = "name"
           field    == IF isStruct /\ named THEN FindSubObjectByShortName(here.objs, object, varname_queue[2].name)
                       ELSE NotFound
           there    == FillObject(here.objs, field)
           owner    == IF isStruct THEN field ELSE object
           h        == IF isStruct THEN there.objs ELSE here.objs
           element  == IF isStruct /\ ~h[owner].is_struct_array THEN owner
                       ELSE FindSubObjectBySCIndex(h, owner, TokenIndex(h, owner))
       IN  IF here.err # 0 \/ (isStruct /\ field = NotFound) THEN LookUpFails(here.objs)
           ELSE IF isStruct /\ there.err # 0 THEN LookUpFails(there.objs)
           ELSE IF element = NotFound THEN LookUpFails(h)
           ELSE LookedUp(h, element, IF isStruct THEN Tail(Tail(varname_queue)) ELSE Tail(varname_queue))

LookUp == LookUpName \/ LookUpElement

(* mutant: a result inside an earlier one is not cloned *)
ResultUncloned(h, o) == [objs |-> h, obj |-> o]

(* the end of fillVariable: a result inside an earlier one is cloned *)
Result(h, o) ==
    IF \E i \in DOMAIN top_level_objects : CheckTree(h, top_level_objects[i], o)
    THEN LET g == CloneData(h, o) IN [objs |-> g, obj |-> Len(g)]
    ELSE [objs |-> h, obj |-> o]

(* the variables of a file; MATLAB keeps what they refer to beside them *)
Hidden == {"#refs#", "#subsystem#"}
Variables(h) == SelectSeq(h[VirtualSuper].subs, LAMBDA o : h[o].name \notin Hidden)
FillEverything(h) ==
    FoldLeft(LAMBDA acc, o : IF acc.err # 0 THEN acc ELSE FillDataTree(acc.objs, o), Filled(h), Variables(h))

=============================================================================
