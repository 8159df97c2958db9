------------------------------- MODULE ObjectData -------------------------------
(***************************************************************************)
(* What the readers of header messages (src/readMessage.c) make of an      *)
(* object that initializeObject has set up, and what collectMetaData       *)
(* (src/fillDataObjects.c) and allocateSpace (src/placeData.c) make of it  *)
(* then.  A message holds what is stored in the file: dimensions with the  *)
(* slowest first.                                                          *)
(***************************************************************************)
EXTENDS Integers, SequencesExt

MaxDims     == 32           \* HDF5_MAX_DIMS
MaxElemSize == 16

OnceKinds == {"space", "type", "layout", "pipeline"}        \* 1, 3, 8, 11
AttrKinds == {"class", "sparse", "empty", "decode"}         \* 12: MATLAB_...

Numbers == {"double", "single", "int8", "uint8", "int16", "uint16", "int32", "uint32", "int64", "uint64"}
ClassNames == Numbers \cup {"char", "logical", "struct", "cell", "opaque"}
Compact == 0  Contiguous == 1  Chunked == 2
NoData  == 3                \* layout_class of an object without data

NewData ==
    [dims |-> <<>>, num_dims |-> 0, num_elems |-> 0, elem_size |-> 0,
     type |-> "unknown", byte_order |-> "little", complex |-> FALSE,
     class |-> "unknown", sparse_type |-> "unknown", is_struct_array |-> FALSE, is_sparse |-> FALSE, is_empty |-> FALSE,
     layout_class |-> NoData, chunked_dims |-> <<>>, update_dims |-> <<>>, filters |-> <<>>]

Read(d)   == [obj |-> d, err |-> FALSE]
Reject(d) == [obj |-> d, err |-> TRUE]

(* the dimensions are closed with a 0, where the product ends *)
NumElems(dims) ==
    LET end == SelectInSeq(Append(dims, 0), LAMBDA x : x = 0)
    IN  FoldLeft(LAMBDA n, x : n * x, 1, SubSeq(dims, 1, end - 1))

-----------------------------------------------------------------------------
(* the readers; good: the version is the expected one *)
ReadDataSpace(d, msg) ==
    LET dims == Reverse(msg.dims)
    IN  IF ~msg.good THEN Reject(d)
        ELSE IF Len(dims) > MaxDims THEN Reject([d EXCEPT !.num_dims = Len(dims)])
        ELSE Read([d EXCEPT !.num_dims = Len(dims), !.dims = dims, !.num_elems = NumElems(dims)])

(* mutant: the size is that of the type read last *)
ReadTypeSizing(d, t) ==
    [d EXCEPT !.elem_size = t.size, !.type = t.type, !.complex = @ \/ t.real,
              !.byte_order = IF t.type \in {"fixed", "time", "float"} THEN t.order
                             ELSE IF t.type = "compound" THEN @ ELSE "little"]

ReadType(d, t) ==
    [d EXCEPT !.elem_size = IF @ = 0 THEN t.size ELSE @, !.type = t.type, !.complex = @ \/ t.real,
              !.byte_order = IF t.type \in {"fixed", "time", "float"} THEN t.order
                             ELSE IF t.type = "compound" THEN @ ELSE "little"]

(* types: the type, and behind a compound its first member, which is read  *)
(* into the same object.  The size stays that of the whole; real: that     *)
(* member's name.  If it is not good the version of the last is another,   *)
(* and those before have been read.                                        *)
ReadDataType(d, msg) ==
    LET read[k \in 0 .. Len(msg.types)] == IF k = 0 THEN d ELSE ReadType(read[k - 1], msg.types[k])
    IN  IF msg.good THEN Read(read[Len(msg.types)]) ELSE Reject(read[Len(msg.types) - 1])

(* An unknown class is recorded.  The jumps between the runs of a chunk    *)
(* (ChunkCopy) are those of the dims read until then.                      *)
ReadDataLayout(d, msg) ==
    LET laid == [d EXCEPT !.layout_class = msg.class]
    IN  IF ~msg.good THEN Reject(d)
        ELSE IF msg.class \in {Compact, Contiguous} THEN Read(laid)
        ELSE IF msg.class = Chunked
        THEN Read([laid EXCEPT !.chunked_dims = Reverse(msg.dims), !.update_dims = SubSeq(d.dims, 1, d.num_dims)])
        ELSE Reject(laid)

(* the filters are allocated before the version is looked at *)
ReadDataStoragePipeline(d, msg) ==
    IF msg.good THEN Read([d EXCEPT !.filters = msg.filters])
    ELSE Reject([d EXCEPT !.filters = [k \in DOMAIN msg.filters |-> "unset"]])

SelectMatlabClass(name, class) ==
    CASE name = "function_handle" -> "function"
      [] name = "table"           -> "object"
      [] name \in ClassNames      -> name
      [] OTHER                    -> class

(* FUNCTION_HINT, OBJECT_HINT, OPAQUE_HINT; a sparse array has the number  *)
(* of its rows for dims                                                    *)
ReadAttribute(d, msg) ==
    IF ~msg.good THEN Reject(d)
    ELSE Read(CASE msg.kind = "class"  -> [d EXCEPT !.class = SelectMatlabClass(msg.name, @)]
                [] msg.kind = "sparse" -> [d EXCEPT !.is_sparse = TRUE, !.dims = <<msg.rows>>]
                [] msg.kind = "empty"  -> [d EXCEPT !.is_empty = TRUE]
                [] msg.kind = "decode" -> [d EXCEPT !.class = msg.hint])

ReadMessage(d, msg) ==
    CASE msg.kind = "space"       -> ReadDataSpace(d, msg)
      [] msg.kind = "type"        -> ReadDataType(d, msg)
      [] msg.kind = "layout"      -> ReadDataLayout(d, msg)
      [] msg.kind = "pipeline"    -> ReadDataStoragePipeline(d, msg)
      [] msg.kind \in AttrKinds   -> ReadAttribute(d, msg)

-----------------------------------------------------------------------------
(* the rest of collectMetaData, for an object and its super_object: the    *)
(* field of a struct array, references of no class in a struct, is read    *)
(* like a cell, and the struct has its dims                                *)
IsStructArray(d, super) == d.type = "reference" /\ d.class = "unknown" /\ super.class = "struct"

CollectMetaData(d, super) ==
    LET array  == IsStructArray(d, super)
        class  == IF array THEN "cell" ELSE d.class
        above  == IF array THEN [super EXCEPT !.num_dims = d.num_dims, !.dims = SubSeq(d.dims, 1, d.num_dims)] ELSE super
    IN  IF d.is_empty
        THEN [obj |-> [d EXCEPT !.num_elems = 0, !.dims = <<0>>, !.num_dims = 0], super |-> super]
        ELSE [obj |-> [d EXCEPT !.is_struct_array = array,
                                !.sparse_type = IF d.is_sparse THEN class ELSE @,
                                !.class = IF d.is_sparse THEN "sparse" ELSE IF super.is_sparse THEN "uint64" ELSE class],
              super |-> above]

AllocateSpace(d) ==
    CASE d.class \in Numbers \cup {"logical", "char", "cell"} ->
            IF d.elem_size > MaxElemSize THEN Reject(d) ELSE Read(d)
      [] d.class \in {"struct", "function"} ->
            Read([d EXCEPT !.num_elems = 1, !.num_dims = 2, !.dims = <<1, 1>>])
      [] d.class \in {"object", "sparse", "opaque"} -> Read(d)
      [] OTHER -> Reject(d)

=============================================================================
