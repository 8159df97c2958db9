------------------------------ MODULE MC_Inflate ------------------------------
(***************************************************************************)
(* Instances of Inflate: a small format with all that the real one has     *)
(* (subtables, runs that are cut or not, extra bits, long and short        *)
(* matches), and chunks encoded block by block.                            *)
(***************************************************************************)
EXTENDS Inflate

MC_Deflate ==
    [num_literals |-> 3,
     litlen_count_bits |-> 2, offset_count_bits |-> 2, precode_count_bits |-> 2,
     min_precode_lens |-> 5, precode_len_bits |-> 2,
     precode_permutation |-> <<5, 6, 7, 0, 1, 3, 4, 2>>,
     max_codeword_len |-> 4,
     repeats |-> <<[base |-> 3, extra |-> 1, previous |-> TRUE,  exact |-> FALSE],
                   [base |-> 3, extra |-> 1, previous |-> FALSE, exact |-> FALSE],
                   [base |-> 5, extra |-> 2, previous |-> FALSE, exact |-> TRUE]>>,
     lengths |-> <<[base |-> 3, extra |-> 0], [base |-> 4, extra |-> 2], [base |-> 13, extra |-> 0]>>,
     offsets |-> <<[base |-> 1, extra |-> 0], [base |-> 2, extra |-> 1], [base |-> 4, extra |-> 0],
                   [base |-> 5, extra |-> 5]>>,
     static_litlen |-> <<3, 3, 3, 2, 3, 3, 3>>,
     static_offset |-> <<2, 2, 2, 2>>]
MC_TableBits == [litlen |-> 2, offset |-> 2]

-----------------------------------------------------------------------------
Field(value, n) == [k \in 1 .. n |-> Bit(value, k - 1)]
Code(code, sym) == [k \in 1 .. LenOf(code, sym) |-> Bit(F!Codeword(code, sym), LenOf(code, sym) - k)]
Flat(S(_), items) == FlattenSeq([k \in DOMAIN items |-> S(items[k])])
Padded(bits) == bits \o [k \in 1 .. (8 - (Len(bits) % 8)) % 8 |-> 0]

(* a literal or the end of the block is <<sym>>, a match                   *)
(* <<sym, extra bits, offset symbol, extra bits>>                          *)
ItemBits(litlen, offset, x) ==
    IF Len(x) = 1 THEN Code(litlen, x[1])
    ELSE Code(litlen, x[1]) \o Field(x[2], Deflate.lengths[x[1] - F!EndOfBlock].extra)
           \o Code(offset, x[3]) \o Field(x[4], Deflate.offsets[x[3] + 1].extra)

Stored(data) == [kind |-> "stored", data |-> data]
Static(items) == [kind |-> "static", items |-> items]
(* runs: the lengths as symbols of the precode, with their extra bits *)
Dynamic(litlen, offset, precode, runs, items) ==
    [kind |-> "dynamic", litlen |-> litlen, offset |-> offset, precode |-> precode, runs |-> runs, items |-> items]
Plain(code) == [k \in DOMAIN code |-> <<code[k], 0>>]
EvenPrecode == [k \in 1 .. F!NumPrecodeSyms |-> 3]

(* one more block *)
Encoded(bits, block, final) ==
    LET header(type) == bits \o Field(final, 1) \o Field(type, 2)
        byte(x) == Field(x, 8)
        len(sym) == Field(block.precode[sym + 1], 2)
        run(x) == Code(block.precode, x[1])
                    \o (IF x[1] > MaxLen THEN Field(x[2], Deflate.repeats[x[1] - MaxLen].extra) ELSE <<>>)
        static(x) == ItemBits(Deflate.static_litlen, Deflate.static_offset, x)
        dynamic(x) == ItemBits(block.litlen, block.offset, x)
        count == Len(block.data)
    IN  CASE block.kind = "stored" ->
               Padded(header(0)) \o Field(count, 16) \o Field(65535 - count, 16) \o Flat(byte, block.data)
          [] block.kind = "static" -> header(1) \o Flat(static, block.items)
          [] block.kind = "dynamic" ->
               header(2) \o Field(Len(block.litlen) - 4, 2) \o Field(Len(block.offset) - 1, 2) \o Field(3, 2)
                 \o Flat(len, Deflate.precode_permutation) \o Flat(run, block.runs) \o Flat(dynamic, block.items)
          [] OTHER -> header(3)

Stream(blocks) ==
    Padded(FoldLeft(LAMBDA bits, k : Encoded(bits, blocks[k], IF k = Len(blocks) THEN 1 ELSE 0),
                    <<>>, [k \in DOMAIN blocks |-> k]))

GoodHeader == 30721
(* a chunk whose footer fits what the stream holds *)
Chunk(bits, bytes, space) ==
    LET o == AdlerOf(bytes)
    IN  [size |-> 6 + Len(bits) \div 8, hdr |-> GoodHeader, bits |-> bits, footer |-> <<o[2], o[1]>>,
         out_nbytes_avail |-> space]
Cut(bits, bytes) == SubSeq(bits, 1, Max({0, Len(bits) - 8 * bytes}))

-----------------------------------------------------------------------------
End == <<3>>
Literals == <<<<0>>, <<1>>, <<2>>>>
Deep    == <<2, 2, 2, 3, 4, 4, 0>>         \* subtables of two lengths
Skewed  == <<1, 2, 0, 3, 0, 4, 4>>
Even    == <<3, 3, 3, 3, 3, 3, 2>>
Offsets == <<1, 2, 4, 4>>                  \* complete it is not
Split   == <<1, 2, 3, 3>>                  \* a subtable
Copies(sym) == Literals \o <<<<sym, 0, 0, 0>>, <<sym, 0, 1, 1>>, <<sym, 0, 3, 0>>, <<sym, 0, 3, 5>>>>

Streams == {
    <<Stored(<<255, 255, 255, 255, 255, 255, 255, 255, 7>>)>>,
    <<Stored(<<>>), Stored(<<1, 2>>)>>,
    <<Stored(<<200>>), Static(<<<<1>>, End>>), Stored(<<9>>)>>,
    <<Static(<<<<2>>, End>>), Stored(<<5, 6>>), Static(<<<<0>>, <<4, 0, 0, 0>>, End>>)>>,
    <<Static(Literals \o <<<<6, 0, 0, 0>>, <<5, 3, 1, 0>>, End>>)>>,
    <<Static(Copies(6) \o <<End>>)>>,
    <<Static(Copies(4) \o <<<<6, 0, 3, 4>>, <<4, 0, 3, 7>>, <<6, 0, 1, 0>>, End>>)>>,
    <<Static(<<<<0>>, <<4, 0, 1, 0>>, End>>)>>,
    <<Static(<<<<0>>, <<6, 0, 0, 0>>, <<5, 0, 3, 8>>, <<5, 3, 3, 3>>, <<6, 0, 3, 4>>, End>>)>>,
    <<Dynamic(Deep, Split, EvenPrecode, Plain(Deep \o Split),
              Literals \o <<<<4, 0, 1, 1>>, <<5, 2, 2, 0>>, <<5, 1, 3, 2>>, End>>), Stored(<<8>>)>>,
    <<Dynamic(Skewed, <<1>>, EvenPrecode, Plain(Skewed \o <<1>>), <<<<0>>, <<5, 1, 0, 0>>, <<6, 0, 0, 0>>, End>>)>>,
    <<Dynamic(Even, Split, EvenPrecode, <<<<3, 0>>, <<5, 1>>, <<3, 0>>, <<2, 0>>, <<1, 0>>, <<2, 0>>, <<3, 0>>, <<3, 0>>>>,
              <<<<0>>, <<4, 0, 0, 0>>, End>>), Static(<<<<1>>, End>>)>>,
    <<Dynamic(<<1, 2, 2, 2>>, <<1>>, EvenPrecode, Plain(<<1, 2, 2, 2, 1>>), <<End>>)>>,
    <<Dynamic(<<2, 2, 2, 2>>, <<0, 0, 0, 0>>, EvenPrecode, <<<<2, 0>>, <<5, 0>>, <<6, 1>>>>, <<<<1>>, End>>)>>,
    <<Dynamic(<<2, 2, 2, 2>>, <<0, 0, 0, 0>>, EvenPrecode, <<<<2, 0>>, <<5, 0>>, <<7, 3>>>>, <<<<1>>, End>>)>>,
    <<Dynamic(<<2, 2, 2, 2>>, <<2, 2, 2, 2>>, EvenPrecode, <<<<2, 0>>, <<5, 1>>, <<5, 1>>>>, <<<<1>>, <<2>>, End>>)>>,
    <<Dynamic(<<0, 0, 0, 1>>, <<0>>, EvenPrecode, <<<<6, 0>>, <<1, 0>>, <<7, 3>>>>, <<End>>)>>,
    <<Dynamic(<<0, 0, 0, 0>>, <<0>>, EvenPrecode, <<<<7, 0>>>>, <<>>)>>,
    <<Dynamic(<<1, 1, 0, 1>>, <<0>>, EvenPrecode, <<<<5, 0>>>>, <<>>)>>,
    <<Dynamic(<<1, 1, 0, 1>>, <<0>>, [EvenPrecode EXCEPT ![1] = 0], <<>>, <<>>)>>,
    <<Dynamic(<<2, 2, 2, 3>>, <<1, 1>>, [EvenPrecode EXCEPT ![1] = 0], <<>>, <<>>)>>,
    <<Dynamic(Deep, Offsets, EvenPrecode, Plain(Deep \o Offsets), <<End>>)>>,
    <<[kind |-> "reserved"]>>
} \cup {<<Dynamic(Skewed, Split, EvenPrecode, Plain(Skewed \o Split),
                 [k \in 1 .. n |-> <<0>>] \o <<<<5, 3, 0, 0>>, <<5, 1, 3, 2>>, <<1>>, <<5, 3, 3, 6>>, <<6, 0, 3, 17>>, End>>)>>
         : n \in 4 .. 11}


(* every code of the first symbols, with a shallow code for the offsets *)
Codes == [1 .. 4 -> 0 .. 4]
CodeStream(code) ==
    LET used == SelectSeq(<<0, 1, 2>>, LAMBDA sym : LenOf(code, sym) # 0)
        items == [k \in DOMAIN used |-> <<used[k]>>] \o (IF code[4] # 0 THEN <<End>> ELSE <<>>)
    IN  Stream(<<Dynamic(code, <<1, 1>>, EvenPrecode, Plain(code \o <<1, 1>>), items)>>)

Sizes(n) == {n, n + 1, Max({0, n - 1}), n + 16}
BadStored == [Stream(<<Stored(<<1, 2>>)>>) EXCEPT ![26] = 1 - @]

Whole(bits) ==
    LET bytes == F!Inflated(bits, 64).out
    IN  {Chunk(bits, bytes, space) : space \in Sizes(Len(bytes))}
            \cup {Chunk(Cut(bits, n), bytes, Len(bytes)) : n \in {1, 2, 4}}
Coded(bits) == LET bytes == F!Inflated(bits, 4).out IN Chunk(bits, bytes, Len(bytes))

MC_Chunks ==
    LET one == Chunk(Stream(<<Stored(<<3>>)>>), <<3>>, 1)
    IN  UNION {Whole(Stream(blocks)) : blocks \in Streams}
        \cup Whole(BadStored)
        \cup {Coded(CodeStream(code)) : code \in Codes}
        \cup {[one EXCEPT !.hdr = hdr] : hdr \in {30722, 30752, 31000, 34844}}
        \cup {[one EXCEPT !.size = 5], [one EXCEPT !.footer = <<0, 0>>]}

=============================================================================
