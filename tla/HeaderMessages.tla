----------------------------- MODULE HeaderMessages -----------------------------
(***************************************************************************)
(* fillObject on one object (src/fillDataObjects.c): the walk over the     *)
(* messages of its header, which may go on in continuation blocks          *)
(* (interpretMessages, recursive), and what is made of them.               *)
(*                                                                         *)
(* Each call of interpretMessages is a frame of the stack.  It maps its    *)
(* block through the map cache, gives the mapping back before it follows   *)
(* a continuation, and takes it again afterwards; message_num goes down    *)
(* and up through the calls, repeat_tracker only down.                     *)
(*                                                                         *)
(* A message takes one unit of its block; what its reader does is in       *)
(* ObjectData.                                                             *)
(***************************************************************************)
EXTENDS ObjectData

CONSTANTS
    Headers,        \* [blocks, num_msgs, super]: the header begins with block 1
    NumMsgsMod      \* message_num is a uint16_t: 2^16

Kinds == OnceKinds \cup AttrKinds \cup {"cont", "other"}

(* a message has a kind, good (the reader takes its version) and, if it is *)
(* a continuation, to, the block it goes to; others have what they store   *)
ASSUME HeaderAssumption ==
    /\ NumMsgsMod \in Nat \ {0}
    /\ \A h \in Headers :
        /\ h.num_msgs \in 0 .. NumMsgsMod - 1
        /\ h.blocks \in Seq(ToSet(h.blocks)) \ {<<>>}
        /\ \A b \in DOMAIN h.blocks :
            /\ h.blocks[b] \in Seq(ToSet(h.blocks[b]))
            /\ \A msg \in ToSet(h.blocks[b]) :
                /\ msg.kind \in Kinds /\ msg.good \in BOOLEAN
                /\ msg.kind = "cont" => msg.to \in DOMAIN h.blocks
                /\ msg.kind = "space" => msg.dims \in Seq(Nat)
                /\ msg.kind = "type" =>
                    /\ msg.types \in Seq(ToSet(msg.types)) \ {<<>>}
                    /\ \A t \in ToSet(msg.types) : t.size \in Nat /\ t.real \in BOOLEAN
        /\ h.super.is_sparse \in BOOLEAN /\ {"dims", "num_dims"} \subseteq DOMAIN h.super

VARIABLES
    header,
    pc,             \* where fillObject is
    stack,          \* the calls of interpretMessages, the innermost last
    err_flag,
    held,           \* the blocks mapped, one entry for each use
    obj, super,     \* the object and its super_object
    read,           \* the messages a reader has taken in, in order (history)
    result          \* what fillObject returns

headerVars == <<header, pc, stack, err_flag, held, obj, super, read, result>>

Frame(b, num, tracker) ==
    [block |-> b, bytes_read |-> 0, message_num |-> num, repeat_tracker |-> tracker, switched |-> FALSE]

HeaderInit ==
    /\ header \in Headers
    /\ pc = "fill"
    /\ stack = <<>>
    /\ err_flag = 0
    /\ held = <<>>
    /\ obj = NewData /\ super = header.super
    /\ read = <<>>
    /\ result = 0

Top == Last(stack)
SetTop(f) == stack' = [stack EXCEPT ![Len(stack)] = f]
Block(b) == header.blocks[b]
Msg == Block(Top.block)[Top.bytes_read + 1]

Navigate(h, b) == Append(h, b)
Release(h, b)  == RemoveFirst(h, b)

-----------------------------------------------------------------------------
(* the header is read and given back, then the messages are walked from 0 *)
FillObjectHeader ==
    /\ pc = "fill"
    /\ pc' = "walk"
    /\ stack' = <<Frame(1, 0, {})>>
    /\ held' = Navigate(held, 1)
    /\ UNCHANGED <<header, err_flag, obj, super, read, result>>

MoreMessages ==
    /\ Top.message_num < header.num_msgs
    /\ Top.bytes_read < Len(Block(Top.block))

(* at the head of the loop, with a message to look at *)
AtMessage(kinds) ==
    /\ pc = "walk"
    /\ ~Top.switched
    /\ MoreMessages
    /\ Msg.kind \in kinds

(* a reader takes the message into the object, or rejects it *)
ReadInto(msg) ==
    LET r == ReadMessage(obj, msg)
    IN  /\ read' = Append(read, <<Top.block, Top.bytes_read + 1>>)
        /\ obj' = r.obj
        /\ err_flag' = IF r.err THEN 1 ELSE err_flag
        /\ UNCHANGED super

(* mutant: the tracker is not asked *)
OnceMessageAgain ==
    /\ AtMessage(OnceKinds)
    /\ SetTop([Top EXCEPT !.switched = TRUE, !.repeat_tracker = @ \cup {Msg.kind}])
    /\ ReadInto(Msg)
    /\ UNCHANGED <<header, pc, held, result>>

OnceMessage ==
    /\ AtMessage(OnceKinds)
    /\ SetTop([Top EXCEPT !.switched = TRUE, !.repeat_tracker = @ \cup {Msg.kind}])
    /\ \/ Msg.kind \notin Top.repeat_tracker /\ ReadInto(Msg)
       \/ Msg.kind \in Top.repeat_tracker /\ UNCHANGED <<err_flag, obj, super, read>>
    /\ UNCHANGED <<header, pc, held, result>>

AttributeMessage ==
    /\ AtMessage(AttrKinds)
    /\ SetTop([Top EXCEPT !.switched = TRUE])
    /\ ReadInto(Msg)
    /\ UNCHANGED <<header, pc, held, result>>

OtherMessage ==
    /\ AtMessage({"other"})
    /\ SetTop([Top EXCEPT !.switched = TRUE])
    /\ UNCHANGED <<header, pc, err_flag, held, obj, super, read, result>>

(* a continuation of version 2 *)
BadContinuation ==
    /\ AtMessage({"cont"})
    /\ ~Msg.good
    /\ err_flag' = 1
    /\ SetTop([Top EXCEPT !.switched = TRUE])
    /\ UNCHANGED <<header, pc, held, obj, super, read, result>>

(* the continuation itself is counted, then its block walked *)
Continuation ==
    /\ AtMessage({"cont"})
    /\ Msg.good
    /\ LET num == Top.message_num + 1
           caller == [Top EXCEPT !.message_num = num, !.switched = TRUE]
       IN  stack' = Append(Front(stack) \o <<caller>>, Frame(Msg.to, num, Top.repeat_tracker))
    /\ held' = Navigate(Release(held, Top.block), Msg.to)
    /\ UNCHANGED <<header, pc, err_flag, obj, super, read, result>>

(* the end of a turn *)
NextMessage ==
    /\ pc = "walk"
    /\ Top.switched
    /\ err_flag = 0
    /\ SetTop([Top EXCEPT !.switched = FALSE, !.bytes_read = @ + 1, !.message_num = @ + 1])
    /\ UNCHANGED <<header, pc, err_flag, held, obj, super, read, result>>

(* back to the caller, which maps its block again *)
ReturnTo(num) ==
    LET rest == Front(stack)
    IN  IF rest = <<>>
        THEN /\ pc' = "collected" /\ stack' = rest
             /\ held' = Release(held, Top.block)
        ELSE /\ stack' = [rest EXCEPT ![Len(rest)].message_num = num]
             /\ held' = Navigate(Release(held, Top.block), Last(rest).block)
             /\ UNCHANGED pc

(* mutant: the loop of the caller counts the last message again *)
BlockReadOverCounted ==
    /\ pc = "walk"
    /\ ~Top.switched
    /\ ~MoreMessages
    /\ ReturnTo(Top.message_num)
    /\ UNCHANGED <<header, err_flag, obj, super, read, result>>

(* message_num - 1: the caller's loop adds one to it *)
BlockRead ==
    /\ pc = "walk"
    /\ ~Top.switched
    /\ ~MoreMessages
    /\ ReturnTo((Top.message_num - 1) % NumMsgsMod)
    /\ UNCHANGED <<header, err_flag, obj, super, read, result>>

(* mutant: the mapping is kept when a message is rejected *)
GiveUpHolding ==
    /\ pc = "walk"
    /\ Top.switched
    /\ err_flag # 0
    /\ LET rest == Front(stack)
       IN  /\ stack' = rest
           /\ pc' = IF rest = <<>> THEN "collected" ELSE pc
           /\ held' = IF rest = <<>> THEN held ELSE Navigate(held, Last(rest).block)
    /\ UNCHANGED <<header, err_flag, obj, super, read, result>>

GiveUp ==
    /\ pc = "walk"
    /\ Top.switched
    /\ err_flag # 0
    /\ ReturnTo(header.num_msgs)
    /\ UNCHANGED <<header, err_flag, obj, super, read, result>>

(* The rest of fillObject, which does not look at what collectMetaData     *)
(* returns.  An empty variable is done; data are fetched by layout_class,  *)
(* and chunks may fail.                                                    *)
FillRest ==
    /\ pc = "collected"
    /\ pc' = "filled"
    /\ LET c == IF err_flag # 0 THEN [obj |-> obj, super |-> super] ELSE CollectMetaData(obj, super)
           space == AllocateSpace(c.obj)
           unknown == c.obj.type = "unknown" /\ c.obj.class = "unknown"
           done(r) == obj' = c.obj /\ result' = r
       IN  /\ super' = c.super
           /\ \/ c.obj.is_empty /\ done(0)
              \/ ~c.obj.is_empty /\ (unknown \/ space.err) /\ done(1)
              \/ /\ ~c.obj.is_empty /\ ~unknown /\ ~space.err
                 /\ obj' = space.obj
                 /\ result' \in CASE obj'.layout_class = Chunked -> {0, 1}
                                  [] obj'.layout_class \in {Compact, Contiguous, NoData} -> {0}
                                  [] OTHER -> {1}
    /\ UNCHANGED <<header, stack, err_flag, held, read>>

Filled == pc = "filled" /\ UNCHANGED headerVars

Interpret ==
    \/ OnceMessage \/ AttributeMessage \/ OtherMessage \/ BadContinuation \/ Continuation
    \/ NextMessage \/ BlockRead \/ GiveUp

HeaderNext == FillObjectHeader \/ Interpret \/ FillRest \/ Filled

HeaderSpec == HeaderInit /\ [][HeaderNext]_headerVars

-----------------------------------------------------------------------------
(* While messages are read, exactly the block they are in is mapped, the   *)
(* caller's again after a continuation; nothing stays mapped at the end,   *)
(* whether a message was rejected or not.                                  *)
OneMapping == held = IF pc = "walk" THEN <<Top.block>> ELSE <<>>

(* The order of a header: every message of a block, and behind each        *)
(* continuation the block it goes to, to the given depth.                  *)
Order ==
    LET walk[d \in 0 .. Len(header.blocks)] ==
            [b \in DOMAIN header.blocks |->
                FlattenSeq([i \in 1 .. Len(Block(b)) |->
                    LET msg == Block(b)[i]
                    IN  <<<<b, i>>>> \o
                        (IF msg.kind = "cont" /\ d > 0 THEN walk[d - 1][msg.to] ELSE <<>>)])]
    IN  walk[Len(header.blocks)][1]
MsgAt(p) == Block(p[1])[p[2]]

(* Headers as HDF5 writes them: no block is gone to twice, no message but  *)
(* attributes is repeated, and num_msgs counts the messages of all blocks. *)
WellFormed ==
    /\ IsInjective(Order)
    /\ header.num_msgs = Len(Order)
    /\ \A i, j \in 1 .. Len(Order) :
        i # j /\ MsgAt(Order[i]).kind \in OnceKinds => MsgAt(Order[i]).kind # MsgAt(Order[j]).kind

(* Of a well-formed header without a rejected message every message is     *)
(* read, once and in order, whatever the nesting of continuations: the     *)
(* count that goes through the calls neither runs out early nor late.      *)
EveryMessageRead ==
    pc = "collected" /\ WellFormed /\ err_flag = 0 =>
        read = FlattenSeq([k \in DOMAIN Order |->
                   IF MsgAt(Order[k]).kind \in OnceKinds \cup AttrKinds THEN <<Order[k]>> ELSE <<>>])

(* In one block, also around its continuations, a message of the kinds     *)
(* read once is read once.                                                 *)
ReadOnceInBlock ==
    \A i, j \in 1 .. Len(read) :
        i # j /\ read[i][1] = read[j][1] /\ MsgAt(read[i]).kind \in OnceKinds
            /\ IsInjective(Order)
        => MsgAt(read[i]).kind # MsgAt(read[j]).kind

(* What the header of an object says, in whatever order: the messages of a *)
(* kind, and what they make of it.                                         *)
Place(kind) == SelectInSeq(Order, LAMBDA p : MsgAt(p).kind = kind)
Has(kind) == Place(kind) # 0
The(kind) == MsgAt(Order[Place(kind)])

(* as HDF5 and MATLAB write them: the dims are in front of the chunks, a   *)
(* class or a hint says what the object is, not both, and a sparse array   *)
(* is a group; a type has a size                                           *)
Ordered ==
    /\ Has("layout") => Has("space") /\ Place("space") < Place("layout")
    /\ Cardinality({k \in DOMAIN Order : MsgAt(Order[k]).kind \in {"class", "decode"}}) <= 1
    /\ Has("sparse") => ~Has("space") /\ ~Has("type")
    /\ Has("type") => Head(The("type").types).size # 0

(* references in a struct, of no class or an unknown one, are an array's *)
Named == IF Has("decode") THEN The("decode").hint
         ELSE IF Has("class") THEN SelectMatlabClass(The("class").name, "unknown") ELSE "unknown"
ClassMeant ==
    IF Has("sparse") THEN "sparse"
    ELSE IF header.super.is_sparse THEN "uint64"
    ELSE IF Named = "unknown" /\ Has("type") /\ header.super.class = "struct"
            /\ Last(The("type").types).type = "reference" THEN "cell"
    ELSE Named

(* An object that is filled without error is what its header says: the     *)
(* parts of it, from several messages and from the object it lies in, fit. *)
ObjectRight ==
    pc = "filled" /\ WellFormed /\ Ordered /\ err_flag = 0 /\ result = 0 =>
        IF Has("empty") THEN obj.is_empty /\ obj.num_elems = 0
        ELSE /\ obj.class = ClassMeant
             /\ Has("type") => obj.elem_size = Head(The("type").types).size
             /\ Has("type") => obj.complex <=> (\E k \in DOMAIN The("type").types : The("type").types[k].real)
             /\ Has("space") /\ obj.class \notin {"struct", "function"} =>
                    /\ obj.dims = Reverse(The("space").dims) /\ obj.num_dims = Len(obj.dims)
                    /\ 0 \notin ToSet(obj.dims) => obj.num_elems = FoldLeft(LAMBDA n, x : n * x, 1, obj.dims)
             /\ Has("layout") => obj.layout_class = The("layout").class
             /\ obj.layout_class = Chunked => obj.update_dims = Reverse(The("space").dims)
             /\ obj.is_struct_array => super.dims = obj.dims

(* An object whose header could not be read is not filled without error.   *)
HeaderErrorsReported == pc = "filled" /\ err_flag # 0 => result # 0

===============================================================================
