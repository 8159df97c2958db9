------------------------------ MODULE DecodeTable ------------------------------
(***************************************************************************)
(* build_decode_table of libdeflate (lib/deflate_decompress.c): from the   *)
(* codeword lengths of a Huffman code the table with which the codewords   *)
(* are decoded, 2^table_bits entries and subtables behind them.  A         *)
(* codeword is a number whose low-order bit comes first in the stream.     *)
(***************************************************************************)
EXTENDS Integers, SequencesExt, FiniteSetsExt

(* lens is a sequence: symbol s has lens[s + 1] *)
Syms(lens) == 0 .. Len(lens) - 1
LenOf(lens, sym) == lens[sym + 1]
LenCounts(lens, max_codeword_len) ==
    [len \in 0 .. max_codeword_len |-> Cardinality({sym \in Syms(lens) : LenOf(lens, sym) = len})]

(* the used symbols, by length and then by value *)
SymsOfLen(lens, len) == SelectSeq([k \in 1 .. Len(lens) |-> k - 1], LAMBDA sym : LenOf(lens, sym) = len)
SortedSyms(lens, max_codeword_len) == FlattenSeq([len \in 1 .. max_codeword_len |-> SymsOfLen(lens, len)])

(* the codewords of length len that the shorter ones leave *)
Remainder(len_counts, len) ==
    2 ^ len - SumFunction([l \in 1 .. len |-> len_counts[l] * 2 ^ (len - l)])

OverSubscribed(len_counts, max_codeword_len) == \E len \in 1 .. max_codeword_len : Remainder(len_counts, len) < 0

(* An incomplete code is taken if it is empty or a single codeword of one  *)
(* bit.                                                                    *)
ValidCode(len_counts, max_codeword_len) ==
    /\ ~OverSubscribed(len_counts, max_codeword_len)
    /\ LET remainder == Remainder(len_counts, max_codeword_len)
       IN  \/ remainder = 0
           \/ remainder = 2 ^ max_codeword_len
           \/ remainder = 2 ^ (max_codeword_len - 1) /\ len_counts[1] = 1

Entry(result, length) == [subtable |-> FALSE, result |-> result, length |-> length]
SubtablePointer(start, bits) == [subtable |-> TRUE, result |-> start, length |-> bits]

-----------------------------------------------------------------------------
Bit(word, b) == (word \div 2 ^ b) % 2

(* the next codeword, with the bits reversed: the last 0 becomes a 1 and   *)
(* what follows it 0                                                       *)
NextCodeword(codeword_reversed, codeword_len) ==
    LET zeros == {b \in 0 .. codeword_len - 1 : Bit(codeword_reversed, b) = 0}
    IN  IF zeros = {} THEN codeword_reversed ELSE (codeword_reversed % 2 ^ Max(zeros)) + 2 ^ Max(zeros)

(* mutant: a subtable no longer than its first codeword asks for *)
SubtableBitsShort(len_counts, codeword_len, table_bits, max_codeword_len) == codeword_len - table_bits

(* the bits of the subtable that a codeword of length codeword_len opens:  *)
(* as many as the codewords that are left need to fill it                  *)
SubtableBits(len_counts, codeword_len, table_bits, max_codeword_len) ==
    LET first == codeword_len - table_bits
        left(bits) == 2 ^ bits - SumFunction([b \in first .. bits |-> len_counts[table_bits + b] * 2 ^ (bits - b)])
    IN  Min({bits \in first .. max_codeword_len - table_bits : left(bits) <= 0})

(* one turn of the loop over the used symbols *)
OpenSubtable(t, codeword_len, table_bits, max_codeword_len) ==
    LET prefix == t.codeword_reversed % 2 ^ table_bits
        start  == t.cur_table_start + 2 ^ t.cur_table_bits
        bits   == SubtableBits(t.len_counts, codeword_len, table_bits, max_codeword_len)
    IN  IF codeword_len > table_bits /\ prefix # t.cur_codeword_prefix
        THEN [t EXCEPT !.cur_codeword_prefix = prefix,
                       !.cur_table_start = start,
                       !.cur_table_bits = bits,
                       !.num_dropped_bits = table_bits,
                       !.table = (prefix :> SubtablePointer(start, bits)) @@ @]
        ELSE t

PlaceSymbol(t, sym, codeword_len, table_bits, max_codeword_len) ==
    LET s == OpenSubtable(t, codeword_len, table_bits, max_codeword_len)
        length == codeword_len - s.num_dropped_bits
        first  == s.cur_table_start + s.codeword_reversed \div 2 ^ s.num_dropped_bits
        copies == {i \in first .. s.cur_table_start + 2 ^ s.cur_table_bits - 1 : (i - first) % 2 ^ length = 0}
    IN  [s EXCEPT !.table = [i \in copies |-> Entry(sym, length)] @@ @,
                  !.codeword_reversed = NextCodeword(@, codeword_len),
                  !.len_counts[codeword_len] = @ - 1]

(* the table, index by index, as far as it is written; only if ValidCode *)
BuildDecodeTable(lens, table_bits, max_codeword_len) ==
    LET len_counts == LenCounts(lens, max_codeword_len)
        default == IF Remainder(len_counts, max_codeword_len) = 0 THEN <<>>
                   ELSE [i \in 0 .. 2 ^ table_bits - 1 |-> Entry(0, 1)]
    IN  FoldLeft(LAMBDA t, sym : PlaceSymbol(t, sym, LenOf(lens, sym), table_bits, max_codeword_len),
                 [table |-> default, codeword_reversed |-> 0, len_counts |-> len_counts,
                  cur_codeword_prefix |-> -1, cur_table_start |-> 0, cur_table_bits |-> table_bits,
                  num_dropped_bits |-> 0],
                 SortedSyms(lens, max_codeword_len)).table

-----------------------------------------------------------------------------
(* the entry that the next bits of a word lead to, and what to remove *)
LookUpEntry(table, word, table_bits) ==
    LET entry == table[word % 2 ^ table_bits]
        sub   == table[entry.result + ((word \div 2 ^ table_bits) % 2 ^ entry.length)]
    IN  IF entry.subtable THEN [sym |-> sub.result, bits |-> table_bits + sub.length]
        ELSE [sym |-> entry.result, bits |-> entry.length]

=============================================================================
