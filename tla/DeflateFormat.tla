----------------------------- MODULE DeflateFormat -----------------------------
(***************************************************************************)
(* What a DEFLATE stream says (RFC 1951), without the program: a stream is *)
(* a sequence of bits and is read a bit at a time.  Deflate holds the      *)
(* numbers of the format, so that a small one has all of its cases.        *)
(***************************************************************************)
EXTENDS Integers, SequencesExt, FiniteSetsExt

CONSTANT Deflate

(* how many symbols a code may have, from the bits that count them *)
MinLitlenSyms == Deflate.num_literals + 1
NumLitlenSyms == 2 ^ Deflate.litlen_count_bits - 1 + MinLitlenSyms
NumOffsetSyms == 2 ^ Deflate.offset_count_bits
NumPrecodeSyms == Deflate.max_codeword_len + 1 + 3
EndOfBlock == Deflate.num_literals

(* the static assertions of lib/decompress_impl.h, assumed in Inflate *)
FormatFits ==
    /\ NumLitlenSyms = MinLitlenSyms + Len(Deflate.lengths)
    /\ NumOffsetSyms = Len(Deflate.offsets)
    /\ NumPrecodeSyms = 2 ^ Deflate.precode_count_bits - 1 + Deflate.min_precode_lens
    /\ NumPrecodeSyms = Len(Deflate.precode_permutation)
    /\ Len(Deflate.static_litlen) = NumLitlenSyms /\ Len(Deflate.static_offset) = NumOffsetSyms

-----------------------------------------------------------------------------
Sum(f, n) == LET from[k \in 0 .. n] == IF k = n THEN 0 ELSE f[k] + from[k + 1] IN from[0]

(* n bits from pos on, the low-order bit first; behind the end all are 0 *)
Number(bits, pos, n) ==
    Sum([k \in 0 .. n - 1 |-> IF pos + k < Len(bits) THEN bits[pos + k + 1] * 2 ^ k ELSE 0], n)

(* the codes: the codewords of one length count up, and follow what the    *)
(* shorter ones leave                                                      *)
Used(lens) == {sym \in 0 .. Len(lens) - 1 : lens[sym + 1] # 0}
Codeword(lens, sym) ==
    LET len == lens[sym + 1]
        before(t) == lens[t + 1] \in 1 .. len - 1 \/ (lens[t + 1] = len /\ t < sym)
    IN  Sum([t \in 0 .. Len(lens) - 1 |-> IF before(t) THEN 2 ^ (len - lens[t + 1]) ELSE 0], Len(lens))
Share(lens) ==
    Sum([sym \in 0 .. Len(lens) - 1 |->
            IF lens[sym + 1] # 0 THEN 2 ^ (Deflate.max_codeword_len - lens[sym + 1]) ELSE 0], Len(lens))
IsCode(lens) ==
    \/ Share(lens) = 2 ^ Deflate.max_codeword_len
    \/ Used(lens) = {}
    \/ \E sym \in Used(lens) : Used(lens) = {sym} /\ lens[sym + 1] = 1

(* the symbol whose codeword, from its high-order bit, comes at pos *)
Unassigned == -1
SymbolAt(bits, pos, lens) ==
    LET begins(codeword, len) ==
            \A k \in 1 .. len : Number(bits, pos + k - 1, 1) = (codeword \div 2 ^ (len - k)) % 2
        here == {sym \in Used(lens) : begins(Codeword(lens, sym), lens[sym + 1])}
    IN  IF here = {} THEN Unassigned ELSE CHOOSE sym \in here : TRUE

-----------------------------------------------------------------------------
(* How a block, or the stream, ends: the status is "success" or an error;  *)
(* a stream that ends too early is an "overrun", a codeword that its code  *)
(* lacks "unassigned".                                                     *)
Ends(status, pos, out) == [status |-> status, pos |-> pos, out |-> out]
Lens == Seq(Nat)
Bytes == Seq(Nat)

(* the lengths of a dynamic block, from where they begin *)
LensFrom(bits) ==
    LET from[pos \in Nat, precode \in Lens, total \in Nat, lens \in Lens] ==
            LET sym  == SymbolAt(bits, pos, precode)
                next == pos + precode[sym + 1]
                run  == Deflate.repeats[sym - Deflate.max_codeword_len]
                count == run.base + Number(bits, next, run.extra)
                stop(status) == [status |-> status, lens |-> lens, pos |-> pos]
            IN  IF Len(lens) >= total THEN stop("read")
                ELSE IF pos > Len(bits) THEN stop("overrun")
                ELSE IF sym = Unassigned THEN stop("unassigned")
                ELSE IF sym <= Deflate.max_codeword_len THEN from[next, precode, total, Append(lens, sym)]
                ELSE IF run.previous /\ lens = <<>> THEN stop("bad")
                ELSE from[next + run.extra, precode, total,
                          lens \o [k \in 1 .. count |-> IF run.previous THEN Last(lens) ELSE 0]]
    IN  from

(* a stored block, from the bit behind its type *)
Stored(bits, pos, out, space) ==
    LET start == 8 * ((pos + 7) \div 8)
        len   == Number(bits, start, 16)
        data  == [k \in 1 .. len |-> Number(bits, start + 32 + 8 * (k - 1), 8)]
    IN  IF start + 32 > Len(bits) THEN Ends("bad", pos, out)
        ELSE IF len + Number(bits, start + 16, 16) # 65535 THEN Ends("bad", pos, out)
        ELSE IF Len(out) + len > space THEN Ends("insufficient space", pos, out)
        ELSE IF start + 32 + 8 * len > Len(bits) THEN Ends("bad", pos, out)
        ELSE Ends("success", start + 32 + 8 * len, out \o data)

(* what repeats length bytes from offset bytes before *)
Repeated(out, length, offset) ==
    out \o [k \in 1 .. length |-> out[Len(out) - offset + 1 + ((k - 1) % offset)]]

(* the symbols of a block with the given codes, to its end *)
SymbolsFrom(bits, space) ==
    LET from[pos \in Nat, litlen \in Lens, offsets \in Lens, out \in Bytes] ==
            LET sym   == SymbolAt(bits, pos, litlen)
                next  == pos + litlen[sym + 1]
                l     == Deflate.lengths[sym - EndOfBlock]
                length == l.base + Number(bits, next, l.extra)
                at    == next + l.extra
                osym  == SymbolAt(bits, at, offsets)
                o     == Deflate.offsets[osym + 1]
                offset == o.base + Number(bits, at + offsets[osym + 1], o.extra)
                end   == at + offsets[osym + 1] + o.extra
            IN  IF pos > Len(bits) THEN Ends("overrun", pos, out)
                ELSE IF sym = Unassigned THEN Ends("unassigned", pos, out)
                ELSE IF sym < EndOfBlock
                THEN IF Len(out) = space THEN Ends("insufficient space", pos, out)
                     ELSE from[next, litlen, offsets, Append(out, sym)]
                ELSE IF sym = EndOfBlock THEN Ends("success", next, out)
                ELSE IF Len(out) + length > space THEN Ends("insufficient space", pos, out)
                ELSE IF osym = Unassigned THEN Ends("unassigned", pos, out)
                ELSE IF end > Len(bits) THEN Ends("overrun", pos, out)
                ELSE IF offset > Len(out) THEN Ends("bad", pos, out)
                ELSE from[end, litlen, offsets, Repeated(out, length, offset)]
    IN  [pos \in Nat, litlen \in Lens, offsets \in Lens, out \in Bytes |->
            IF IsCode(litlen) /\ IsCode(offsets) THEN from[pos, litlen, offsets, out] ELSE Ends("bad", pos, out)]

(* a block with codes of its own *)
Dynamic(bits, space) ==
    [pos \in Nat, out \in Bytes |->
        LET num_litlen  == MinLitlenSyms + Number(bits, pos, Deflate.litlen_count_bits)
            num_offset  == 1 + Number(bits, pos + Deflate.litlen_count_bits, Deflate.offset_count_bits)
            counted     == pos + Deflate.litlen_count_bits + Deflate.offset_count_bits
            num_precode == Deflate.min_precode_lens + Number(bits, counted, Deflate.precode_count_bits)
            first       == counted + Deflate.precode_count_bits
            begin       == first + num_precode * Deflate.precode_len_bits
            precode     == FoldLeft(LAMBDA lens, k :
                                        [lens EXCEPT ![Deflate.precode_permutation[k] + 1] =
                                            Number(bits, first + (k - 1) * Deflate.precode_len_bits,
                                                   Deflate.precode_len_bits)],
                                    [s \in 1 .. NumPrecodeSyms |-> 0], [k \in 1 .. num_precode |-> k])
            read        == LensFrom(bits)[begin, precode, num_litlen + num_offset, <<>>]
        IN  IF begin > Len(bits) THEN Ends("overrun", pos, out)
            ELSE IF ~IsCode(precode) THEN Ends("bad", pos, out)
            ELSE IF read.status # "read" THEN Ends(read.status, pos, out)
            ELSE SymbolsFrom(bits, space)[read.pos, SubSeq(read.lens, 1, num_litlen),
                                          SubSeq(read.lens, num_litlen + 1, num_litlen + num_offset), out]]

(* a block, from the bits of its type *)
Block(bits, space) ==
    [pos \in Nat, out \in Bytes |->
        LET type == Number(bits, pos, 2)
        IN  CASE pos + 2 > Len(bits) -> Ends("overrun", pos, out)
              [] pos + 2 <= Len(bits) /\ type = 0 -> Stored(bits, pos + 2, out, space)
              [] pos + 2 <= Len(bits) /\ type = 1 ->
                    SymbolsFrom(bits, space)[pos + 2, Deflate.static_litlen, Deflate.static_offset, out]
              [] pos + 2 <= Len(bits) /\ type = 2 -> Dynamic(bits, space)[pos + 2, out]
              [] pos + 2 <= Len(bits) /\ type = 3 -> Ends("bad", pos, out)]

(* a stream: blocks until the final one *)
Inflated(bits, space) ==
    LET next(pos, out) == Block(bits, space)[pos + 1, out]
        final(pos) == Number(bits, pos, 1)
        from[b \in [status : STRING, pos : Nat, out : Bytes], last \in {0, 1}] ==
            IF b.status = "success" /\ b.pos > Len(bits) THEN Ends("overrun", b.pos, b.out)
            ELSE IF b.status # "success" \/ last = 1 THEN b
            ELSE from[next(b.pos, b.out), final(b.pos)]
    IN  from[next(0, <<>>), final(0)]

================================================================================
