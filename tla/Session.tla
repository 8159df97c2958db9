-------------------------------- MODULE Session --------------------------------
(***************************************************************************)
(* A call of the MEX function (src/getmatvar_.c, src/getDataObjects.c,     *)
(* src/mexSet.c, src/cleanup.c, src/init.c): the file is opened, the tree  *)
(* of objects made (GroupTree), the names asked for are looked up          *)
(* (Selection), and a MATLAB structure is made of what they lead to.  An   *)
(* error anywhere ends in readMXError, which calls endHooks.               *)
(*                                                                         *)
(* pointers are the globals that are not NULL (fd: not -1), allocated is   *)
(* what there is: endHooks frees by the one, what must be freed is in the  *)
(* other; strings that MATLAB frees by itself are left out.  A name is the *)
(* sequence of its tokens.                                                 *)
(***************************************************************************)
EXTENDS Selection

CONSTANT ArgumentsOf(_)     \* the argument lists of calls for a file

Everything == <<>>      \* the name put in when none is given
Threads == "-t"
Options == {Threads, "-st", "-suppress-warnings", "-sw"}
MaxThreads == -1        \* num_threads_user_def: as many as there are

(* An argument is a name, an option, a number or digits, an empty text, a  *)
(* MATLAB string or something else.  Digits are a name too.  The first is  *)
(* the file's name.                                                        *)
IsName(a) == a.kind \in {"name", "digits"}
IsText(a) == IsName(a) \/ a.kind \in {"option", "empty"}
ASSUME ArgumentsAssumption ==
    \A f \in Files : \A list \in ArgumentsOf(f) : \A i \in DOMAIN list :
        /\ list[i].kind \in {"name", "option", "number", "digits", "empty", "string", "other"}
        /\ list[i].kind \in {"number", "digits"} => list[i].value \in Int
        \* another first token would have the virtual object's own header read
        /\ i > 1 /\ IsName(list[i]) => list[i].name # <<>> /\ Head(list[i].name).type = "name"

(* exists, mat (it begins as a MAT-file of version 7.3) and units: of the  *)
(* intervals in which the superblock is looked for, which have it          *)
ASSUME StatesAssumption ==
    \A f \in Files : f.exists \in BOOLEAN /\ f.mat \in BOOLEAN /\ f.units \in Seq(BOOLEAN)

VARIABLES
    pc,
    args, arg_index,
    kwarg_flag,     \* the next argument is the value of -t
    options,        \* num_threads_user_def, will_multithread, will_suppress_warnings
    names, name_index,      \* parameters.full_variable_names
    is_getting_everything,
    pointers, allocated,
    mx,             \* the structure returned: what is in which slot
    given,          \* how often an object's data went into an mxArray
    freed,          \* the objects whose data freeDataObject has freed
    double          \* endHooks has freed what is gone (history)

inputVars   == <<args, arg_index, kwarg_flag, options>>
nameVars    == <<names, name_index, is_getting_everything>>
outputVars  == <<mx, given, freed, double>>
sessionVars == <<pc, inputVars, nameVars, pointers, allocated, outputVars>>
callVars == <<treeVars, selectionVars, sessionVars>>

NoSlots == [p \in {} |-> 0]

CallInit ==
    /\ TreeInit
    /\ args \in ArgumentsOf(file) /\ arg_index = 1 /\ kwarg_flag = FALSE
    /\ options = [threads |-> MaxThreads, multithread |-> TRUE, suppress_warnings |-> FALSE]
    /\ names = <<>> /\ name_index = 1
    /\ top_level_objects = <<>> /\ varname_queue = <<>> /\ object = NotFound
    /\ pc = "input"
    /\ is_getting_everything = FALSE
    /\ pointers = {} /\ allocated = {}
    /\ mx = NoSlots
    /\ given = <<>> /\ freed = {}
    /\ double = FALSE

Allocate(things) == pointers' = pointers \cup things /\ allocated' = allocated \cup things
Free(things)     == pointers' = pointers \ things /\ allocated' = allocated \ things

Goto(from, to) == pc = from /\ pc' = to
Same == UNCHANGED <<inputVars, outputVars>>

-----------------------------------------------------------------------------
(* mexFunction and readInput: the file name, then argument by argument *)
Reading == pc = "input" /\ UNCHANGED <<args, treeVars, selectionVars, name_index, is_getting_everything, outputVars>>
Argument == args[arg_index]
More == arg_index <= Len(args)

ReadFilename ==
    /\ Reading /\ arg_index = 1 /\ args # <<>> /\ IsText(Argument)
    /\ arg_index' = 2
    /\ Allocate({"filename", "full_variable_names"})
    /\ UNCHANGED <<pc, kwarg_flag, options, names>>

(* the value of -t; what is no number leaves the number that was set *)
Value == IF Argument.kind \in {"number", "digits"} THEN Argument.value ELSE options.threads

Rejected ==
    IF args = <<>> THEN TRUE
    ELSE IF arg_index = 1 THEN ~IsText(Argument)
    ELSE \/ Argument.kind = "string"
         \/ kwarg_flag /\ (Argument.kind \in {"name", "empty", "option"} \/ Value < 0)
         \/ ~kwarg_flag /\ Argument.kind \in {"empty", "number", "other"}
         \/ ~kwarg_flag /\ Argument.kind = "option" /\ Argument.option \notin Options

BadInput ==
    /\ Reading /\ (args = <<>> \/ (More /\ Rejected))
    /\ pc' = "error"
    /\ UNCHANGED <<arg_index, kwarg_flag, options, names, pointers, allocated>>

ReadThreads ==
    /\ Reading /\ arg_index > 1 /\ More /\ ~Rejected /\ kwarg_flag
    /\ options' = [options EXCEPT !.threads = IF Value = 0 THEN MaxThreads ELSE Value]
    /\ kwarg_flag' = FALSE
    /\ arg_index' = arg_index + 1
    /\ UNCHANGED <<pc, names, pointers, allocated>>

ReadOption ==
    /\ Reading /\ arg_index > 1 /\ More /\ ~Rejected /\ ~kwarg_flag /\ Argument.kind = "option"
    /\ kwarg_flag' = (Argument.option = Threads)
    /\ options' = CASE Argument.option = "-st"    -> [options EXCEPT !.multithread = FALSE]
                     [] Argument.option = Threads -> options
                     [] OTHER                     -> [options EXCEPT !.suppress_warnings = TRUE]
    /\ arg_index' = arg_index + 1
    /\ UNCHANGED <<pc, names, pointers, allocated>>

ReadName ==
    /\ Reading /\ arg_index > 1 /\ More /\ ~Rejected /\ ~kwarg_flag /\ IsName(Argument)
    /\ names' = Append(names, Argument.name)
    /\ arg_index' = arg_index + 1
    /\ UNCHANGED <<pc, kwarg_flag, options, pointers, allocated>>

InputRead ==
    /\ Reading /\ args # <<>> /\ ~More
    /\ pc' = "open"
    /\ names' = IF names = <<>> THEN <<Everything>> ELSE names
    /\ UNCHANGED <<arg_index, kwarg_flag, options, pointers, allocated>>

ReadInput == ReadFilename \/ BadInput \/ ReadThreads \/ ReadOption \/ ReadName \/ InputRead

(* getDataObjects down to the superblock, whose mapping stays in use; it   *)
(* is looked for from interval to interval                                 *)
FindSuperblock(f) == SelectInSeq(f.units, LAMBDA has : has)

Opening == UNCHANGED <<treeVars, selectionVars, nameVars>> /\ Same
NoFile ==
    /\ Goto("open", "error")
    /\ ~file.exists
    /\ Allocate({"map_objects"})
    /\ Opening
WrongFile ==
    /\ Goto("open", "error")
    /\ file.exists /\ (file.units = <<>> \/ ~file.mat \/ FindSuperblock(file) = 0)
    /\ Allocate({"map_objects", "fd"})
    /\ Opening
Open ==
    /\ Goto("open", "tree")
    /\ file.exists /\ file.mat /\ FindSuperblock(file) # 0
    /\ Allocate({"map_objects", "fd", "object_queue", "top_level_objects", "varname_queue"})
    /\ Opening

(* the steps of the walk are GroupTree's *)
ReadTrees ==
    /\ pc = "tree"
    /\ TreeNext
    /\ UNCHANGED <<selectionVars, sessionVars>>

TreesRead ==
    /\ WalkEnded
    /\ Goto("tree", IF ret = 0 THEN "names" ELSE "error")
    /\ UNCHANGED <<treeVars, selectionVars, nameVars, pointers, allocated>> /\ Same

-----------------------------------------------------------------------------
(* What a load leaves.  A dataset in chunks makes the page table, which    *)
(* outlives the load; a load that ends, with a rejected chunk too, frees   *)
(* the rest.                                                               *)
LoadQueues == {"mt_data_queue", "data_buffers", "libdeflate_decomps"}

(* Of data_page_buckets only the array has a pointer that endHooks knows.  *)
(* buckets: the Queues in it with their nodes, DataPairs and chunk_starts. *)
(* chunk_threads: the local array, with the workers that are not joined.   *)
Unreachable == {"buckets", "chunk_threads"}

Unreadable(h) == \E o \in DOMAIN h : h[o].is_filled /\ ~Content(h, o).empty /\ ~Content(h, o).good

(* getChunkedData returns at once, before the merge and the join *)
FillNodeFails ==
    \E threads \in SUBSET {"chunk_threads"} :
        LET reachable == {"page_objects", "data_page_buckets"} \cup LoadQueues
        IN  /\ threads # {} => options.multithread
            /\ pointers' = pointers \cup reachable
            /\ allocated' = allocated \cup reachable \cup {"buckets"} \cup threads

(* mmap fails in doInflate_ without threads, after the buckets are freed *)
MappingFails == Allocate({"page_objects"} \cup LoadQueues)

AfterFill ==
    \/ \E made \in {{}, {"page_objects"}} : Allocate(made)
    \/ Unreadable(objs') /\ (FillNodeFails \/ MappingFails)

(* fillVariable *)
FillEveryVariable ==
    /\ pc = "names" /\ name_index <= Len(names) /\ names[name_index] = Everything
    /\ is_getting_everything' = TRUE
    /\ LET r == FillEverything(objs)
       IN  /\ objs' = r.objs
           /\ pc' = IF r.err # 0 THEN "error" ELSE "names"
           /\ top_level_objects' = Variables(objs)
           /\ AfterFill
    /\ name_index' = name_index + 1
    /\ UNCHANGED <<file, frames, ret, held, ignored, names, varname_queue, object>> /\ Same

MakeVarnameQueue ==
    /\ name_index <= Len(names) /\ names[name_index] # Everything
    /\ Goto("names", "lookup")
    /\ is_getting_everything' = FALSE
    /\ varname_queue' = names[name_index]
    /\ object' = VirtualSuper
    /\ UNCHANGED <<treeVars, top_level_objects, names, name_index, pointers, allocated>> /\ Same

LookUpToken ==
    /\ pc = "lookup" /\ varname_queue # <<>>
    /\ LookUp
    /\ pc' = IF object' = NotFound THEN "error" ELSE "lookup"
    /\ AfterFill
    /\ UNCHANGED <<file, frames, ret, held, ignored, top_level_objects, names, name_index, is_getting_everything>> /\ Same

FillVariable ==
    /\ pc = "lookup" /\ varname_queue = <<>>
    /\ LET filled == FillDataTree(objs, object)
           result == Result(filled.objs, object)
       IN  IF filled.err # 0
           THEN pc' = "error" /\ objs' = filled.objs /\ UNCHANGED top_level_objects
           ELSE pc' = "names" /\ objs' = result.objs /\ top_level_objects' = Append(top_level_objects, result.obj)
    /\ AfterFill
    /\ name_index' = name_index + 1
    /\ UNCHANGED <<file, frames, ret, held, ignored, names, varname_queue, object, is_getting_everything>> /\ Same

-----------------------------------------------------------------------------
(* the rest of getDataObjects: the file is closed, results get their names *)
(* and become the sub_objects of virtual_super_object.  num_sub_objs is 0  *)
(* without results: then no sub_object is looked at.                       *)
SelectionName(i) == "_" \o ToString(i - 1)
CloseFile ==
    /\ name_index > Len(names)
    /\ Goto("names", "results")
    /\ Free({"fd", "varname_queue", "page_objects"})
    /\ UNCHANGED <<treeVars, selectionVars, nameVars>> /\ Same

Renamed(h, o) ==
    LET places == {i \in DOMAIN top_level_objects : top_level_objects[i] = o}
    IN  IF is_getting_everything \/ places = {} THEN h[o].name ELSE SelectionName(Max(places))
(* mutant: top_level_objects is not set to NULL where it is freed *)
NameResultsDangling ==
    /\ Goto("results", "output")
    /\ UNCHANGED <<treeVars, selectionVars, nameVars>> /\ Same
    /\ pointers' = pointers \ {"map_objects"}
    /\ allocated' = allocated \ {"top_level_objects", "map_objects"}

NameResults ==
    /\ Goto("results", "output")
    /\ objs' = [o \in DOMAIN objs |->
                  IF o = VirtualSuper THEN [objs[o] EXCEPT !.subs = top_level_objects]
                  ELSE IF o \in ToSet(top_level_objects)
                  THEN [objs[o] EXCEPT !.name = Renamed(objs, o), !.super = 0, !.s_c_array_index = 0]
                  ELSE objs[o]]
    /\ Free({"top_level_objects", "map_objects"})
    /\ UNCHANGED <<file, frames, ret, held, ignored, selectionVars, nameVars>> /\ Same

(* What makeSubstructure puts into a slot replaces what is there.  A slot  *)
(* is a path; a step in a cell or in a field of the structure in which it  *)
(* is.                                                                     *)
InCell == "{"
Put(slots, slot, what) ==
    [p \in {q \in DOMAIN slots : ~IsPrefix(slot, q)} \cup {slot} |-> IF p = slot THEN what ELSE slots[p]]

SlotOf(h, o, path, super_type) ==
    Append(path, <<IF super_type = "cell" THEN InCell ELSE h[o].name, h[o].s_c_array_index>>)

Give(s, o) == [s EXCEPT !.given[o] = @ + 1, !.h[o].is_mx_used = TRUE]

(* setNumericPtr, setLogicPtr, setCharPtr; there may be no data to give *)
SetData(s, o, slot) ==
    LET put == [s EXCEPT !.mx = Put(@, slot, s.h[o].addr), !.h[o].is_mx_used = TRUE]
    IN  IF s.h[o].has_data THEN Give(put, o) ELSE put

(* setSpsPtr: the data are given, ir and jc copied and left to the session *)
(* to free, whoever was given them before.  An array without its jc, or    *)
(* with data and no ir, is the end of the program.                         *)
SetSps(s, o, slot) ==
    LET data == FindSubObjectByShortName(s.h, o, "data")
        ir   == FindSubObjectByShortName(s.h, o, "ir")
        jc   == FindSubObjectByShortName(s.h, o, "jc")
        crash == jc = NotFound \/ (data # NotFound /\ ir = NotFound)
        put  == [s EXCEPT !.mx = Put(@, slot, IF crash THEN "crash" ELSE s.h[o].addr), !.h[o].is_mx_used = TRUE]
        set  == IF data = NotFound THEN put ELSE Give(put, data)
        copied == IF data = NotFound THEN {jc} ELSE {ir, jc}
    IN  [set EXCEPT !.h = [p \in DOMAIN @ |-> IF p \in copied THEN [@[p] EXCEPT !.is_mx_used = FALSE] ELSE @[p]]]

(* setCellPtr and setStructPtr on an object that has sub_objects; they are *)
(* handed to makeSubstructure                                              *)
SetContainer(s, o, slot) == [s EXCEPT !.mx = Put(@, slot, s.h[o].class)]

RECURSIVE MakeSubstructure(_, _, _, _)
MakeSubstructure(s, path, objects, super_type) ==
    LET field(acc, o) == MakeSubstructure(acc, path, acc.h[o].subs, "struct")
        set(acc, o) ==
            LET slot == SlotOf(acc.h, o, path, super_type)
                class == acc.h[o].class
            IN  IF class = "data" THEN SetData(acc, o, slot)
                ELSE IF class = "sparse" THEN SetSps(acc, o, slot)
                ELSE IF class \in {"cell", "struct"} /\ acc.h[o].subs # <<>>
                THEN MakeSubstructure(SetContainer(acc, o, slot), slot, acc.h[o].subs, class)
                ELSE acc
    IN  IF objects = <<>> THEN s
        ELSE IF s.h[objects[1]].is_struct_array THEN FoldLeft(field, s, objects)
        ELSE FoldLeft(set, s, objects)

(* the data that go with object_queue: those that were not given away *)
FreeDataObjects(h) == {o \in DOMAIN h : h[o].has_data /\ ~h[o].is_mx_used}

(* makeReturnStructure, and object_queue is freed.  Then what mexFunction  *)
(* frees.                                                                  *)
MakeReturnStructure ==
    /\ Goto("output", "returned")
    /\ LET r == MakeSubstructure([h |-> objs, mx |-> NoSlots, given |-> [o \in DOMAIN objs |-> 0]],
                                 <<>>, objs[VirtualSuper].subs, "struct")
       IN  objs' = r.h /\ mx' = r.mx /\ given' = r.given /\ freed' = FreeDataObjects(r.h)
    /\ Free({"object_queue", "filename", "full_variable_names"})
    /\ UNCHANGED <<file, frames, ret, held, ignored, selectionVars, inputVars, nameVars, double>>

-----------------------------------------------------------------------------
(* endHooks frees what there is a pointer to, not what that leads to: of   *)
(* data_page_buckets the array.  All are set to NULL.                      *)
EndHooks ==
    /\ freed' = freed \cup (IF "object_queue" \in pointers THEN FreeDataObjects(objs) ELSE {})
    /\ double' = (double \/ ~(pointers \subseteq allocated))
    /\ allocated' = allocated \ pointers
    /\ pointers' = {}

(* readMXError *)
ReadMXError ==
    /\ Goto("error", "failed")
    /\ EndHooks
    /\ UNCHANGED <<treeVars, selectionVars, inputVars, nameVars, mx, given>>

(* MATLAB clears the function: after an error endHooks is called again,    *)
(* after a success nullFunction is                                         *)
Clear ==
    /\ Goto("failed", "cleared")
    /\ EndHooks
    /\ UNCHANGED <<treeVars, selectionVars, inputVars, nameVars, mx, given>>

Ended == pc \in {"returned", "cleared"} /\ UNCHANGED callVars

CallNext ==
    \/ ReadInput \/ NoFile \/ WrongFile \/ Open \/ ReadTrees \/ TreesRead
    \/ FillEveryVariable \/ MakeVarnameQueue \/ LookUpToken \/ FillVariable
    \/ CloseFile \/ NameResults \/ MakeReturnStructure
    \/ ReadMXError \/ Clear \/ Ended

CallSpec == CallInit /\ [][CallNext]_callVars

-----------------------------------------------------------------------------
M == INSTANCE MatFile

(* what the arguments mean: the one behind -t is its value, others are     *)
(* names                                                                   *)
IsOption(a, option) == a.kind = "option" /\ a.option = option
ValueOf(i) == i > 2 /\ IsOption(args[i - 1], Threads)
AskedFor   == SelectSeq([i \in DOMAIN args |-> [arg |-> args[i], name |-> i > 1 /\ IsName(args[i]) /\ ~ValueOf(i)]],
                        LAMBDA a : a.name)
ThreadsOf  ==
    LET values == {i \in DOMAIN args : ValueOf(i) /\ args[i].kind \in {"number", "digits"}}
        last   == args[Max(values)].value
    IN  IF values = {} \/ last = 0 THEN MaxThreads ELSE last

Asked(i)  == M!Meaning(file, AskedFor[i].arg.name)
Answers ==
    IF AskedFor = <<>>
    THEN {sym \in M!GroupOf(file, file.root) : sym.name \notin Hidden}
    ELSE {[name |-> SelectionName(i), addr |-> Asked(i)] : i \in DOMAIN AskedFor}

(* no name asks for a part of a variable that a later name asks for whole: *)
(* the other way round the part is cloned                                  *)
PartsLast == \A i, j \in DOMAIN names : i < j => ~IsStrictPrefix(names[j], names[i])

(* an element is looked up in a cell that has an element of another cell,  *)
(* whose index the one filled last has overwritten, or twice a struct,     *)
(* whose clone is looked into before the original is filled                *)
Sharing(addr) ==
    \/ \E b \in DOMAIN file.content \ {addr} : ToSet(M!Refs(file, addr)) \cap ToSet(M!Refs(file, b)) # {}
    \/ \E j, k \in DOMAIN M!Refs(file, addr) :
        j # k /\ M!Refs(file, addr)[j] = M!Refs(file, addr)[k] /\ M!Members(file, M!Refs(file, addr)[k]) # {}
LooksUpShared ==
    \E i \in DOMAIN names : \E k \in 2 .. Len(names[i]) :
        /\ names[i][k].type # "name"
        /\ LET owner == M!Meaning(file, SubSeq(names[i], 1, k - 1))
           IN  \E addr \in {owner} \cup {m.addr : m \in M!Members(file, owner)} : addr # M!Nowhere /\ Sharing(addr)

(* A call that returns gives, under the name of its place or, of all       *)
(* variables, its own, every variable that its arguments ask for as the    *)
(* file has it: each element in its place, shared and cloned ones too.     *)
(* Its threads are those asked for.                                        *)
ResultsRight ==
    pc = "returned" /\ PartsLast /\ ~LooksUpShared /\ ~ignored =>
        /\ options.threads = ThreadsOf
        /\ options.multithread = (\A i \in DOMAIN args : i > 1 => ~IsOption(args[i], "-st"))
        /\ {<<p, mx[p]>> : p \in DOMAIN mx} =
            UNION {M!Value(file, <<<<a.name, 0>>>>, a.addr) : a \in Answers}

(* A call fails only over its arguments, over what is wrong with the file  *)
(* or, once this is open, with the part of it that is asked for.           *)
GoodArguments ==
    /\ args # <<>> /\ IsText(args[1])
    /\ \A i \in 2 .. Len(args) :
        IF ValueOf(i) THEN args[i].kind \in {"number", "digits"} /\ args[i].value >= 0
        ELSE IsName(args[i]) \/ (args[i].kind = "option" /\ args[i].option \in Options)
Wanted == UNION {M!Reaches(file, a.addr) : a \in Answers}
ErrorsJustified ==
    pc = "error" /\ ~LooksUpShared =>
        \/ ~GoodArguments
        \/ ~file.exists \/ ~file.mat \/ ~\E u \in DOMAIN file.units : file.units[u]
        \/ (WalkEnded /\ ret # 0) \/ ignored
        \/ \E a \in Answers : a.addr = M!Nowhere
        \/ \E addr \in Wanted : ~file.content[addr].good
        \/ \E addr \in Wanted : M!Class(file, addr) = "none" /\ M!Refs(file, addr) = <<>>

(* Data are given to MATLAB once or freed, never both, neither or twice:   *)
(* two arrays with the same data are freed twice.                          *)
GivenAway == pc = "returned" => \A o \in DOMAIN objs : given[o] <= 1
EachDataOnce ==
    /\ pc = "returned" /\ PartsLast =>
        \A o \in DOMAIN objs :
            given[o] + (IF o \in freed THEN 1 ELSE 0) = IF objs[o].has_data THEN 1 ELSE 0
    /\ pc \in {"failed", "cleared"} => freed = {o \in DOMAIN objs : objs[o].has_data}

(* Every pointer leads to something allocated, and everything allocated    *)
(* has a pointer, wherever the call fails, but for what a fillNode that    *)
(* failed over an unreadable object leaves.  Nothing else is left at the   *)
(* end, and endHooks may be called again.                                  *)
LeftByFillNodeOnly ==
    /\ pointers = allocated \ Unreachable
    /\ ~double
    /\ pc \in {"returned", "failed", "cleared"} => pointers = {}
    /\ allocated \cap Unreachable # {} => pc \in {"error", "failed", "cleared"} /\ Unreadable(objs)

(* The walk's result, as the selection finds it.                           *)
TreeComplete == pc = "tree" => SkeletonComplete

=============================================================================
