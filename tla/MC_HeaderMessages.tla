---------------------------- MODULE MC_HeaderMessages ----------------------------
(* Headers of three blocks with up to two, two and one message, whose count  *)
(* may be one too small or too large, continuations in any order and in      *)
(* circles; and headers as MATLAB writes them.                               *)
EXTENDS HeaderMessages

Number(size, type) == [size |-> size, type |-> type, order |-> "little", real |-> FALSE]
Msg1(kind) == [kind |-> kind, good |-> TRUE]
Space(dims)  == [kind |-> "space", good |-> TRUE, dims |-> dims]
Type(types)  == [kind |-> "type", good |-> TRUE, types |-> types]
Laid(class)  == [kind |-> "layout", good |-> TRUE, class |-> class, dims |-> <<2, 2>>]
Filters(ids) == [kind |-> "pipeline", good |-> TRUE, filters |-> ids]
Class(name)  == [kind |-> "class", good |-> TRUE, name |-> name]
Hint(hint)   == [kind |-> "decode", good |-> TRUE, hint |-> hint]
Rows(n)      == [kind |-> "sparse", good |-> TRUE, rows |-> n]
Bad(msg)     == [msg EXCEPT !.good = FALSE]
To(b)        == [kind |-> "cont", to |-> b, good |-> TRUE]

Double  == Type(<<Number(8, "float")>>)
Complex == Type(<<[Number(16, "compound") EXCEPT !.real = TRUE], [Number(8, "float") EXCEPT !.order = "big"]>>)
Address == Type(<<Number(8, "reference")>>)

Above == [class |-> "unknown", is_sparse |-> FALSE, num_dims |-> 0, dims |-> <<>>]
Supers == {Above, [Above EXCEPT !.class = "struct"], [Above EXCEPT !.class = "sparse", !.is_sparse = TRUE]}

Some == {Space(<<2, 3>>), Bad(Laid(Chunked)), Class("double"), To(1), To(2), To(3)}
Total(blocks) == Len(blocks[1]) + Len(blocks[2]) + Len(blocks[3])
Small ==
    {[blocks |-> <<b1, b2, b3>>, num_msgs |-> n, super |-> Above] :
        b1 \in BoundedSeq(Some, 2), b2 \in BoundedSeq(Some, 2),
        b3 \in BoundedSeq(Some \ {To(1)}, 1), n \in 0 .. 6}

(* as MATLAB writes them, over three blocks *)
Written(space, type, layout, attrs, sup) ==
    {[blocks |-> << <<space, type, To(2)>> \o attrs, <<layout, To(3), Msg1("other")>>, <<Filters(<<1>>)>> >>,
      num_msgs |-> 7 + Len(attrs), super |-> sup],
     [blocks |-> << <<type, To(2)>>, <<space, To(3)>>, attrs \o <<layout>> >>,
      num_msgs |-> 5 + Len(attrs), super |-> sup],
     [blocks |-> << attrs \o <<To(3), layout>>, <<space, type>>, <<Msg1("other"), To(2)>> >>,
      num_msgs |-> 6 + Len(attrs), super |-> sup]}
Objects ==
    UNION {Written(space, type, layout, attrs, sup) :
              space \in {Space(<<2, 3>>), Space(<<4>>), Space(<<3, 0>>)},
              type \in {Double, Complex, Address, Type(<<Number(20, "opaque")>>)},
              layout \in {Laid(Contiguous), Laid(Chunked), Laid(4)},
              attrs \in {<<>>, <<Class("cell")>>, <<Class("double")>>, <<Hint("opaque")>>, <<Class("int8"), Msg1("empty")>>,
                         <<Class("other")>>},
              sup \in Supers}
(* groups: sparse arrays, structures *)
Groups ==
    {[blocks |-> <<attrs \o <<Msg1("other")>>>>, num_msgs |-> 1 + Len(attrs), super |-> Above] :
        attrs \in {<<Class("double"), Rows(4)>>, <<Rows(3), Class("logical")>>, <<Class("struct")>>,
                   <<Class("function_handle")>>, <<Bad(Class("struct"))>>}}
(* a message twice, continuations, a type or its member of another version *)
Repeated ==
    {[blocks |-> << <<Space(<<2>>), To(2), Space(<<3>>), Bad(To(2))>>, <<Double, Space(<<4>>)>> >>, num_msgs |-> 6, super |-> Above],
     [blocks |-> << <<Double, Bad(Space(<<2>>)), Bad(To(2))>>, <<>> >>, num_msgs |-> 3, super |-> Above],
     [blocks |-> << <<Bad(Complex), Space(<<2>>)>> >>, num_msgs |-> 2, super |-> Above],
     [blocks |-> << <<Class("double"), Bad(Double)>> >>, num_msgs |-> 2, super |-> Above]}

MCHeaders ==
    {h \in Small : h.num_msgs \in Total(h.blocks) - 1 .. Total(h.blocks) + 1} \cup Objects \cup Groups \cup Repeated
===============================================================================
